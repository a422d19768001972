-------------------------- MODULE ClientHelloProofs --------------------------
(***************************************************************************)
(* The parser of utils/common.go reports no bytes but the server name and  *)
(* reads none past what arrived, for every well-formed record whose fields *)
(* the parser can skip: any number of extensions, any bytes in them, any   *)
(* place at which the first segment ends.                                  *)
(*                                                                         *)
(* The invariant says where the parser stands: at the extensions, at the   *)
(* beginning of one of those up to the server name, at its list, or at the *)
(* name.  The check of GetSNBlock is what shows that the record is whole.  *)
(***************************************************************************)
EXTENDS ClientHello, TLAPS

IInv ==
    /\ hello \in Hellos /\ pc \in {"ext", "sn", "snLoop", "sni", "found", "none", "panic"}
    /\ Fits => /\ pc # "panic"
               /\ pc = "ext" => base = 0 /\ len = Len(hello.data)
               /\ pc = "sn" => base = AtLength(hello) /\ len = Len(hello.data) - base
               /\ pc \in {"snLoop", "sni"} => Len(hello.data) = Size(hello)
               /\ pc = "snLoop" => /\ base = AtExts(hello) /\ len = hello.exts % 256
                                   /\ index \in hello.starts
               /\ pc = "sni" => /\ base = AtName(hello) + 4 /\ index = 0
                                /\ len = (hello.name + 5) % 256
               /\ pc = "found" => base = AtName(hello) + 9 /\ len = hello.name

-----------------------------------------------------------------------------
(* Where the parts of a record are.                                        *)
Numbers(h) ==
    /\ h.sid \in Nat /\ h.ciphers \in Nat /\ h.methods \in Nat
    /\ h.exts \in Nat /\ h.at \in Nat /\ h.name \in Nat
    /\ h.sid <= 255 /\ h.methods <= 255 /\ 1 <= h.name /\ h.name <= 253
    /\ h.at + 9 + h.name <= h.exts

Places(h) ==
    /\ AtCiphers(h) = 44 + h.sid /\ AtMethods(h) = 46 + h.sid + h.ciphers
    /\ AtLength(h) = 47 + h.sid + h.ciphers + h.methods
    /\ AtExts(h) = 49 + h.sid + h.ciphers + h.methods
    /\ AtName(h) = AtExts(h) + h.at /\ Size(h) = AtExts(h) + h.exts
    /\ AtLength(h) \in Nat /\ AtExts(h) \in Nat /\ AtName(h) \in Nat /\ Size(h) \in Nat

Arrived(h, k) == h.data \in Seq(0 .. 255) /\ k = Len(h.data) /\ k \in Nat

LEMMA PlacesFacts ==
  ASSUME HelloAssumption, hello \in Hellos
  PROVE  /\ WellFormed(hello) /\ Numbers(hello) /\ Places(hello)
         /\ Arrived(hello, Len(hello.data)) /\ Len(hello.data) <= Size(hello)
<1>1. WellFormed(hello)
  BY DEF HelloAssumption
<1>2. PICK s, c, m, x, a, n :
         /\ s = hello.sid /\ c = hello.ciphers /\ m = hello.methods
         /\ x = hello.exts /\ a = hello.at /\ n = hello.name
  OBVIOUS
<1>3. /\ s \in 0 .. 255 /\ c \in Nat /\ m \in 0 .. 255
      /\ x \in Nat /\ a \in Nat /\ n \in 1 .. 253 /\ a + 9 + n <= x
  BY <1>1, <1>2, Zenon DEF WellFormed
<1>4. hello.data \in Seq(0 .. 255) /\ Len(hello.data) <= Size(hello)
  BY <1>1, Zenon DEF WellFormed
<1>5. Len(hello.data) \in Nat
  BY <1>4
<1>6. /\ s \in Nat /\ m \in Nat /\ n \in Nat /\ s <= 255 /\ m <= 255 /\ 1 <= n /\ n <= 253
  BY <1>3
<1>7. Numbers(hello)
  BY <1>2, <1>3, <1>6, Zenon DEF Numbers
<1>8. /\ AtCiphers(hello) = 5 + 39 + s /\ AtMethods(hello) = AtCiphers(hello) + 2 + c
      /\ AtLength(hello) = AtMethods(hello) + 1 + m /\ AtExts(hello) = AtLength(hello) + 2
      /\ AtName(hello) = AtExts(hello) + a /\ Size(hello) = AtExts(hello) + x
  BY <1>2, Zenon DEF AtCiphers, AtMethods, AtLength, AtExts, AtName, Size, TLSHeaderLength
<1>9. /\ AtCiphers(hello) = 44 + s /\ AtMethods(hello) = 46 + s + c
      /\ AtLength(hello) = 47 + s + c + m /\ AtExts(hello) = 49 + s + c + m
  BY <1>3, <1>6, <1>8
<1>10. /\ AtLength(hello) \in Nat /\ AtExts(hello) \in Nat
       /\ AtName(hello) \in Nat /\ Size(hello) \in Nat
  BY <1>3, <1>6, <1>8, <1>9
<1>11. Places(hello)
  BY <1>2, <1>8, <1>9, <1>10, Zenon DEF Places
<1> QED BY <1>1, <1>4, <1>5, <1>7, <1>11 DEF Arrived

(* What the parser reads where the layout fixes it.                        *)
LEMMA ReadByte ==
  ASSUME NEW i \in Nat, NEW n, base \in Nat, NEW k \in Nat, base + k = i,
         i < Len(hello.data), Byte(hello, i, n)
  PROVE  At(k) = n
BY DEF At, Byte

(* The low byte of a length is all the parser uses.                        *)
LEMMA ReadWord ==
  ASSUME NEW i \in Nat, NEW n \in Nat, base \in Nat, NEW k \in Nat, base + k = i,
         NEW L, Arrived(hello, L), i + 1 < L, Word(hello, i, n)
  PROVE  LengthAt(k) = n % 256
<1>1. PICK a, b, d : d = hello.data /\ a = d[i + 1] /\ b = d[i + 2]
  OBVIOUS
<1>2. L \in Nat /\ L = Len(d) /\ d \in Seq(0 .. 255)
  BY <1>1 DEF Arrived
<1>3. i + 1 \in 1 .. L /\ i + 2 \in 1 .. L
  BY <1>2
<1>4. ASSUME NEW j \in 1 .. L PROVE d[j] \in 0 .. 255
  <2>1. PICK T : T = 0 .. 255
    OBVIOUS
  <2>2. d \in Seq(T) /\ j \in 1 .. Len(d)
    BY <1>2, <2>1
  <2>3. d[j] \in T
    BY <2>2
  <2> QED BY <2>1, <2>3
<1>5. a \in 0 .. 255 /\ b \in 0 .. 255
  BY <1>1, <1>3, <1>4
<1>6. a * 256 + b = n
  BY <1>1, <1>2 DEF Word
<1>7. At(k) = a /\ At(k + 1) = b
  <2>1. base + k + 1 = i + 1 /\ base + (k + 1) + 1 = i + 2
    OBVIOUS
  <2> QED BY <1>1, <2>1 DEF At
<1>8. (a * 256) % 256 = 0
  BY <1>5
<1>9. n % 256 = b /\ (0 + b) % 256 = b
  BY <1>5, <1>6
<1> QED BY <1>7, <1>8, <1>9, Zenon DEF LengthAt

(* A length below 256 is its low byte.                                     *)
LEMMA Small ==
  ASSUME NEW n \in Nat
  PROVE  /\ n % 256 \in Nat /\ n % 256 <= 255 /\ n % 256 <= n
         /\ n < 256 => n % 256 = n
         /\ n >= 256 /\ n < 260 => n % 256 < 4
OBVIOUS

LEMMA GivenUp ==
  ASSUME hello \in Hellos, hello' = hello, pc' = "none"
  PROVE  IInv'
BY DEF IInv

LEMMA InitIInv ==
  ASSUME Init
  PROVE  IInv
BY DEF Init, IInv

(* Nothing is claimed of a record the parser cannot skip through.          *)
LEMMA Misled ==
  ASSUME IInv, Next, ~Fits
  PROVE  IInv'
<1>1. hello \in Hellos /\ pc \in {"ext", "sn", "snLoop", "sni", "found", "none", "panic"}
  BY DEF IInv
<1>2. hello' = hello /\ pc' \in {"ext", "sn", "snLoop", "sni", "found", "none", "panic"}
  BY <1>1 DEF Next, GetExtensionBlock, GetSNBlock, SNLoop, GetSNIBlock
<1>3. ~Fits'
  BY <1>2 DEF Fits
<1> QED BY <1>1, <1>2, <1>3 DEF IInv

LEMMA GetExtensionBlockIInv ==
  ASSUME HelloAssumption, IInv, GetExtensionBlock, Fits
  PROVE  IInv'
<1>1. hello \in Hellos /\ hello' = hello /\ pc = "ext" /\ base = 0 /\ len = Len(hello.data)
  BY DEF IInv, GetExtensionBlock
<1>2. PICK L : L = Len(hello.data)
  OBVIOUS
<1>3. /\ WellFormed(hello) /\ Numbers(hello) /\ Places(hello) /\ Arrived(hello, L)
  BY <1>1, <1>2, PlacesFacts
<1>4. CASE pc' = "none"
  BY <1>1, <1>4, GivenUp
<1>5. CASE pc' = "sn"
  <2>1. /\ len > TLSHeaderLength + 39 /\ SkipSession + 2 < len /\ SkipCiphers + 1 < len
        /\ SkipMethods < len /\ base' = SkipMethods /\ len' = len - SkipMethods
    BY <1>5 DEF GetExtensionBlock
  <2>2. PICK s, c, m : s = hello.sid /\ c = hello.ciphers /\ m = hello.methods
    OBVIOUS
  <2>3. s \in Nat /\ c \in Nat /\ m \in Nat /\ c < 256 /\ L \in Nat
    BY <1>3, <2>2, Zenon DEF Numbers, Fits, Arrived
  <2>4. Byte(hello, 43, s) /\ Word(hello, 44 + s, c) /\ Byte(hello, 46 + s + c, m)
    <3>1. AtCiphers(hello) = 44 + s /\ AtMethods(hello) = 46 + s + c
      BY <1>3, <2>2, Zenon DEF Places
    <3>2. AtCiphers(hello) - s - 1 = 43
      BY <2>3, <3>1
    <3>3. /\ Byte(hello, AtCiphers(hello) - s - 1, s) /\ Word(hello, AtCiphers(hello), c)
          /\ Byte(hello, AtMethods(hello), m)
      BY <1>3, <2>2, Zenon DEF WellFormed
    <3> QED BY <3>1, <3>2, <3>3, Zenon
  <2>5. L > 44 /\ base = 0 /\ len = L /\ L = Len(hello.data)
    BY <1>1, <1>2, <2>1 DEF TLSHeaderLength
  <2>6. SkipSession = 44 + s
    <3>1. At(43) = s
      <4>1. 43 \in Nat /\ base \in Nat /\ base + 43 = 43 /\ 43 < Len(hello.data)
        BY <2>3, <2>5
      <4> QED BY <2>4, <4>1, ReadByte
    <3>2. SkipSession = (5 + 38) + 1 + At(5 + 38)
      BY DEF SkipSession, TLSHeaderLength
    <3> QED BY <2>3, <3>1, <3>2
  <2>7. SkipCiphers = 46 + s + c
    <3>1. 44 + s \in Nat /\ base \in Nat /\ base + (44 + s) = 44 + s /\ (44 + s) + 1 < L
      BY <2>1, <2>3, <2>5, <2>6
    <3>2. LengthAt(44 + s) = c % 256
      BY <1>3, <2>3, <2>4, <3>1, ReadWord
    <3>3. LengthAt(44 + s) = c
      BY <2>3, <3>2, Small
    <3>4. SkipCiphers = (44 + s) + 2 + c
      BY <2>6, <3>3 DEF SkipCiphers
    <3> QED BY <2>3, <3>4
  <2>8. SkipMethods = 47 + s + c + m
    <3>1. /\ 46 + s + c \in Nat /\ base \in Nat /\ base + (46 + s + c) = 46 + s + c
          /\ 46 + s + c < Len(hello.data)
      BY <2>1, <2>3, <2>5, <2>7
    <3>2. At(46 + s + c) = m
      BY <2>4, <3>1, ReadByte
    <3>3. SkipMethods = (46 + s + c) + 1 + m
      BY <2>7, <3>2 DEF SkipMethods
    <3> QED BY <2>3, <3>3
  <2>9. AtLength(hello) = 47 + s + c + m
    BY <1>3, <2>2, Zenon DEF Places
  <2>10. base' = AtLength(hello) /\ len' = Len(hello.data) - base'
    BY <2>1, <2>5, <2>8, <2>9
  <2> QED BY <1>1, <1>5, <2>10 DEF IInv
<1> QED BY <1>4, <1>5 DEF GetExtensionBlock

LEMMA GetSNBlockIInv ==
  ASSUME HelloAssumption, IInv, GetSNBlock, Fits
  PROVE  IInv'
<1>1. /\ hello \in Hellos /\ hello' = hello /\ pc = "sn"
      /\ base = AtLength(hello) /\ len = Len(hello.data) - base
  BY DEF IInv, GetSNBlock
<1>2. PICK L : L = Len(hello.data)
  OBVIOUS
<1>3. /\ WellFormed(hello) /\ Numbers(hello) /\ Places(hello) /\ Arrived(hello, L)
      /\ L <= Size(hello)
  BY <1>1, <1>2, PlacesFacts
<1>4. CASE pc' = "none"
  BY <1>1, <1>4, GivenUp
<1>5. CASE pc' = "snLoop"
  <2>1. /\ len >= 2 /\ LengthAt(0) + 2 <= len /\ base' = base + 2 /\ len' = LengthAt(0)
        /\ index' = 0
    BY <1>5 DEF GetSNBlock
  <2>2. PICK p, x : p = AtLength(hello) /\ x = hello.exts
    OBVIOUS
  <2>3. p \in Nat /\ x \in Nat /\ L \in Nat
    BY <1>3, <2>2, Zenon DEF Places, Numbers, Arrived
  <2>4. AtExts(hello) = p + 2 /\ Size(hello) = (p + 2) + x
    <3>1. /\ AtExts(hello) = AtLength(hello) + 2 /\ Size(hello) = AtExts(hello) + hello.exts
      BY DEF AtExts, Size
    <3> QED BY <2>2, <3>1
  <2>5. base = p /\ len = L - p
    BY <1>1, <1>2, <2>2
  <2>6. LengthAt(0) = x % 256
    <3>1. Word(hello, p, x)
      BY <1>3, <2>2, Zenon DEF WellFormed
    <3>2. base + 0 = p /\ p + 1 < L /\ base \in Nat /\ 0 \in Nat
      BY <2>1, <2>3, <2>5
    <3> QED BY <1>3, <2>3, <3>1, <3>2, ReadWord
  <2>7. L = Size(hello)
    <3>1. CASE x < 256
      <4>1. x % 256 = x
        BY <2>3, <3>1, Small
      <4>2. x + 2 <= L - p
        BY <2>1, <2>5, <2>6, <4>1
      <4> QED BY <1>3, <2>3, <2>4, <4>2
    <3>2. CASE ~(x < 256)
      BY <1>2, <2>2, <3>2, Zenon DEF Fits
    <3> QED BY <3>1, <3>2
  <2>8. base' = AtExts(hello) /\ len' = hello.exts % 256
    BY <2>1, <2>2, <2>4, <2>5, <2>6
  <2>9. index' \in hello.starts
    <3>1. 0 \in hello.starts
      BY <1>3, Zenon DEF WellFormed
    <3> QED BY <2>1, <3>1
  <2> QED BY <1>1, <1>2, <1>5, <2>7, <2>8, <2>9 DEF IInv
<1> QED BY <1>4, <1>5 DEF GetSNBlock

LEMMA SNLoopIInv ==
  ASSUME HelloAssumption, IInv, SNLoop, Fits
  PROVE  IInv'
<1>1. /\ hello \in Hellos /\ hello' = hello /\ pc = "snLoop"
      /\ base = AtExts(hello) /\ len = hello.exts % 256 /\ index \in hello.starts
      /\ Len(hello.data) = Size(hello)
  BY DEF IInv, SNLoop
<1>2. PICK L, p, x, a, n : /\ L = Len(hello.data) /\ p = AtExts(hello) /\ x = hello.exts
                           /\ a = hello.at /\ n = hello.name
  OBVIOUS
<1>3. WellFormed(hello) /\ Numbers(hello) /\ Places(hello) /\ Arrived(hello, L)
  BY <1>1, <1>2, PlacesFacts
<1>4. /\ p \in Nat /\ x \in Nat /\ a \in Nat /\ n \in Nat /\ L \in Nat
      /\ 1 <= n /\ n <= 253 /\ a + 9 + n <= x
  BY <1>2, <1>3, Zenon DEF Places, Numbers, Arrived
<1>5. L = p + x /\ AtName(hello) = p + a /\ base = p
  BY <1>1, <1>2, <1>3, Zenon DEF Places
<1>6. index \in Nat /\ index <= a
  <2>1. PICK T : T = 0 .. a
    OBVIOUS
  <2>2. hello.starts \subseteq T
    BY <1>2, <1>3, <2>1, Zenon DEF WellFormed
  <2>3. index \in T
    BY <1>1, <2>2
  <2> QED BY <1>4, <2>1, <2>3
<1>7. CASE index + 3 >= len
  <2>1. pc' = "none"
    BY <1>1, <1>7 DEF SNLoop
  <2> QED BY <1>1, <2>1, GivenUp
<1>8. CASE ~(index + 3 >= len) /\ index = a
  <2>1. Byte(hello, p + a, 0) /\ Byte(hello, (p + a) + 1, 0) /\ Word(hello, (p + a) + 2, n + 5)
    <3>1. /\ Byte(hello, AtName(hello), 0) /\ Byte(hello, AtName(hello) + 1, 0)
          /\ Word(hello, AtName(hello) + 2, hello.name + 5)
      BY <1>3, Zenon DEF WellFormed
    <3> QED BY <1>2, <1>5, <3>1, Zenon
  <2>2. /\ p + a \in Nat /\ (p + a) + 1 \in Nat /\ (p + a) + 2 \in Nat /\ n + 5 \in Nat
        /\ p + a < L /\ (p + a) + 1 < L /\ ((p + a) + 2) + 1 < L
        /\ base \in Nat /\ index \in Nat /\ index + 1 \in Nat /\ index + 2 \in Nat
        /\ base + index = p + a /\ base + (index + 1) = (p + a) + 1
        /\ base + (index + 2) = (p + a) + 2
    BY <1>4, <1>5, <1>8
  <2>3. At(index) = 0 /\ At(index + 1) = 0
    <3>1. p + a < Len(hello.data) /\ (p + a) + 1 < Len(hello.data)
      BY <1>2, <2>2, Zenon
    <3> QED BY <2>1, <2>2, <3>1, ReadByte
  <2>4. LengthAt(index + 2) = (n + 5) % 256
    BY <1>3, <2>1, <2>2, ReadWord
  <2>5. PICK k : k = (n + 5) % 256
    OBVIOUS
  <2>6. k \in Nat /\ k <= n + 5
    BY <2>2, <2>5, Small
  <2>7. base + index + 4 + k <= L
    BY <1>4, <1>5, <1>8, <2>6
  <2>8. pc' = "sni" /\ base' = base + index + 4 /\ len' = k /\ index' = 0
    BY <1>2, <1>8, <2>3, <2>4, <2>5, <2>7 DEF SNLoop
  <2>9. base' = AtName(hello) + 4 /\ len' = (hello.name + 5) % 256
    BY <1>2, <1>5, <1>8, <2>5, <2>8
  <2> QED BY <1>1, <2>8, <2>9 DEF IInv
<1>9. CASE ~(index + 3 >= len) /\ index # a
  <2>1. index \in hello.starts \ {hello.at}
    BY <1>1, <1>2, <1>9
  <2>2. Other(hello, index)
    BY <1>3, <2>1, Zenon DEF WellFormed
  <2>3. PICK k \in 0 .. 255 : /\ Word(hello, (p + index) + 2, k)
                              /\ index + 4 + k \in hello.starts
    <3>1. PICK T : T = 0 .. 255
      OBVIOUS
    <3>2. \A s \in hello.starts \ {hello.at} : \E j \in T :
             Word(hello, AtExts(hello) + s + 2, j) /\ s + 4 + j \in hello.starts
      BY <3>1 DEF Fits
    <3>3. \E j \in T : Word(hello, (p + index) + 2, j) /\ index + 4 + j \in hello.starts
      BY <1>2, <2>1, <3>2, Zenon
    <3> QED BY <3>1, <3>3
  <2>4. k \in Nat /\ k < 256
    OBVIOUS
  <2>5. /\ (p + index) + 2 \in Nat /\ ((p + index) + 2) + 1 < L /\ (p + index) + 1 < L
        /\ base \in Nat /\ index + 2 \in Nat /\ base + (index + 2) = (p + index) + 2
        /\ base + index + 1 = (p + index) + 1 /\ base + (index + 1) + 1 = (p + index) + 2
    BY <1>4, <1>5, <1>6
  <2>6. LengthAt(index + 2) = k
    <3>1. LengthAt(index + 2) = k % 256
      BY <1>3, <2>3, <2>4, <2>5, ReadWord
    <3> QED BY <2>4, <3>1, Small
  <2>7. ~(At(index) = 0 /\ At(index + 1) = 0)
    <3>1. SUFFICES ASSUME At(index) = 0, At(index + 1) = 0 PROVE FALSE
      OBVIOUS
    <3>2. hello.data[(p + index) + 1] = 0 /\ hello.data[(p + index) + 2] = 0
      BY <2>5, <3>1 DEF At
    <3>3. PICK q : q = p + index
      OBVIOUS
    <3>4. q + 1 < L /\ hello.data[q + 1] = 0 /\ hello.data[q + 2] = 0
      BY <2>5, <3>2, <3>3, Zenon
    <3>5. Word(hello, q, 0)
      BY <3>4 DEF Word
    <3>6. ~Word(hello, q, 0) \/ q + 1 >= L
      BY <1>2, <2>2, <3>3, Zenon DEF Other
    <3>7. ~(q + 1 >= L)
      BY <1>4, <1>6, <3>3, <3>4
    <3> QED BY <3>5, <3>6, <3>7
  <2>8. pc' = "snLoop" /\ index' = index + 4 + k /\ base' = base /\ len' = len
    BY <1>1, <1>9, <2>6, <2>7 DEF SNLoop
  <2> QED BY <1>1, <2>3, <2>8 DEF IInv
<1> QED BY <1>7, <1>8, <1>9

LEMMA GetSNIBlockIInv ==
  ASSUME HelloAssumption, IInv, GetSNIBlock, Fits
  PROVE  IInv'
<1>1. /\ hello \in Hellos /\ hello' = hello /\ pc = "sni" /\ base = AtName(hello) + 4
      /\ len = (hello.name + 5) % 256 /\ index = 0 /\ Len(hello.data) = Size(hello)
  BY DEF IInv, GetSNIBlock
<1>2. PICK L, p, n, a, x, e : /\ L = Len(hello.data) /\ p = AtName(hello) /\ n = hello.name
                              /\ a = hello.at /\ x = hello.exts /\ e = AtExts(hello)
  OBVIOUS
<1>3. WellFormed(hello) /\ Numbers(hello) /\ Places(hello) /\ Arrived(hello, L)
  BY <1>1, <1>2, PlacesFacts
<1>4. /\ p \in Nat /\ n \in Nat /\ L \in Nat /\ a \in Nat /\ x \in Nat /\ e \in Nat
      /\ 1 <= n /\ n <= 253 /\ a + 9 + n <= x
  BY <1>2, <1>3, Zenon DEF Places, Numbers, Arrived
<1>5. p = e + a /\ L = e + x
  BY <1>1, <1>2, <1>3, Zenon DEF Places
<1>6. n + 5 \in Nat /\ p + 9 + n <= L /\ base = p + 4 /\ len = (n + 5) % 256
  <2>1. base = p + 4 /\ len = (n + 5) % 256
    BY <1>1, <1>2, Zenon
  <2> QED BY <1>4, <1>5, <2>1
<1>7. CASE n > 250
  <2>1. n + 5 >= 256 /\ n + 5 < 260
    BY <1>4, <1>7
  <2>2. len < 4
    BY <1>6, <2>1, Small
  <2>3. pc' = "none"
    BY <1>1, <2>2 DEF GetSNIBlock
  <2> QED BY <1>1, <2>3, GivenUp
<1>8. CASE n <= 250
  <2>1. len = n + 5
    <3>1. n + 5 < 256
      BY <1>4, <1>8
    <3> QED BY <1>6, <3>1, Small
  <2>2. Byte(hello, p + 6, 0) /\ Word(hello, p + 7, n)
    BY <1>2, <1>3, Zenon DEF WellFormed
  <2>3. /\ p + 6 \in Nat /\ p + 7 \in Nat /\ base \in Nat /\ base + (index + 2) = p + 6
        /\ base + (index + 3) = p + 7 /\ index + 2 \in Nat /\ index + 3 \in Nat
        /\ p + 6 < L /\ (p + 7) + 1 < L
    BY <1>1, <1>4, <1>6
  <2>4. At(index + 2) = 0
    <3>1. p + 6 < Len(hello.data)
      BY <1>2, <2>3, Zenon
    <3> QED BY <2>2, <2>3, <3>1, ReadByte
  <2>5. LengthAt(index + 3) = n
    <3>1. LengthAt(index + 3) = n % 256
      BY <1>3, <1>4, <2>2, <2>3, ReadWord
    <3>2. n < 256
      BY <1>4
    <3> QED BY <1>4, <3>1, <3>2, Small
  <2>6. base + index + 5 + n <= L
    BY <1>1, <1>4, <1>6
  <2>7. /\ ~(len < 4 \/ index >= len) /\ ~(index + 2 >= len) /\ index + 4 < len
    BY <1>1, <1>4, <2>1
  <2>8. pc' = "found" /\ base' = base + index + 5 /\ len' = n
    BY <1>1, <1>2, <2>4, <2>5, <2>6, <2>7 DEF GetSNIBlock
  <2>9. base' = AtName(hello) + 9 /\ len' = hello.name
    <3>1. base' = p + 9
      BY <1>1, <1>4, <1>6, <2>8
    <3> QED BY <1>2, <2>8, <3>1, Zenon
  <2> QED BY <1>1, <2>8, <2>9 DEF IInv
<1> QED BY <1>4, <1>7, <1>8

LEMMA NextIInv ==
  ASSUME HelloAssumption, IInv, [Next]_vars
  PROVE  IInv'
<1>1. CASE Next /\ ~Fits
  BY <1>1, Misled
<1>2. CASE GetExtensionBlock /\ Fits
  BY <1>2, GetExtensionBlockIInv
<1>3. CASE GetSNBlock /\ Fits
  BY <1>3, GetSNBlockIInv
<1>4. CASE SNLoop /\ Fits
  BY <1>4, SNLoopIInv
<1>5. CASE GetSNIBlock /\ Fits
  BY <1>5, GetSNIBlockIInv
<1>6. CASE UNCHANGED vars
  <2>1. hello' = hello /\ pc' = pc /\ base' = base /\ len' = len /\ index' = index
    BY <1>6 DEF vars
  <2>2. Fits' = Fits
    BY <2>1 DEF Fits
  <2> QED BY <2>1, <2>2 DEF IInv
<1> QED BY <1>1, <1>2, <1>3, <1>4, <1>5, <1>6 DEF Next

-----------------------------------------------------------------------------

LEMMA IInvCorrect ==
  ASSUME HelloAssumption, IInv
  PROVE  FoundIsTheName /\ NeverPanics
<1>1. NeverPanics
  BY DEF IInv, NeverPanics
<1>2. FoundIsTheName
  <2>1. SUFFICES ASSUME Fits, pc = "found" PROVE Result = Name
    BY DEF FoundIsTheName
  <2>2. hello \in Hellos /\ base = AtName(hello) + 9 /\ len = hello.name
    BY <2>1 DEF IInv
  <2>3. AtName(hello) \in Nat
    BY <2>2, PlacesFacts, Zenon DEF Places
  <2>4. base + 1 = AtName(hello) + 10 /\ base + len = AtName(hello) + 9 + hello.name
    <3>1. PICK p : p = AtName(hello)
      OBVIOUS
    <3>2. p \in Nat /\ base = p + 9
      BY <2>2, <2>3, <3>1, Zenon
    <3>3. base + 1 = p + 10
      BY <3>2
    <3> QED BY <2>2, <3>1, <3>3, Zenon
  <2> QED BY <2>4 DEF Result, Name
<1> QED BY <1>1, <1>2

LEMMA Invariant ==
  ASSUME HelloAssumption
  PROVE  Spec => []IInv
<1>1. Init => IInv
  BY InitIInv
<1>2. IInv /\ [Next]_vars => IInv'
  BY NextIInv
<1> QED BY <1>1, <1>2, PTL DEF Spec

(* What GetSNIBlock reports is the server name, byte for byte: for any     *)
(* number of extensions before and after it and any bytes in them, as long *)
(* as the cipher list and each extension before it are under 256 bytes.    *)
THEOREM ReportsTheName ==
  ASSUME HelloAssumption
  PROVE  Spec => []FoundIsTheName
<1>1. IInv => FoundIsTheName
  BY IInvCorrect
<1> QED BY <1>1, Invariant, PTL

(* Under the same condition no index and no slice of GetExtensionBlock,    *)
(* GetSNBlock and GetSNIBlock reaches past what arrived, wherever the      *)
(* first segment of the record ends.                                       *)
THEOREM StaysInside ==
  ASSUME HelloAssumption
  PROVE  Spec => []NeverPanics
<1>1. IInv => NeverPanics
  BY IInvCorrect
<1> QED BY <1>1, Invariant, PTL
=============================================================================
