----------------------------- MODULE ClientHello -----------------------------
(***************************************************************************)
(* utils/common.go: the server name in a TLS ClientHello.  GetExtensionBlock*)
(* skips the fixed fields, the session id, the cipher list and the         *)
(* compression methods; GetSNBlock walks the extensions to the server name *)
(* extension; GetSNIBlock walks its entries to the host name.              *)
(*                                                                         *)
(* Two-byte lengths are computed in a byte: hi << 8 is 0 there, so a field *)
(* of 256 bytes or more makes the parser go on inside that field, whose    *)
(* bytes are the client's.  A Go slice keeps its capacity, so slicing past *)
(* its length may still succeed.  Positions count from 0, as in the code.  *)
(***************************************************************************)
EXTENDS Integers, Sequences

(* What clients send.  data: the bytes that arrived, a prefix of a record; *)
(* the other fields say how the record is laid out: the lengths of session *)
(* id, cipher list, compression methods, extensions and name; where in the *)
(* extensions the server name extension is; and where those before it (and *)
(* itself) begin.  The bytes the layout does not fix are arbitrary.        *)
CONSTANT Hellos

VARIABLES hello,  \* what the client sent
          pc,     \* the function that runs
          base,   \* where the block it was given starts in the record
          len,    \* the length of that block
          index   \* its loop variable

vars == <<hello, pc, base, len, index>>

TLSHeaderLength == 5

AtCiphers(h) == TLSHeaderLength + 39 + h.sid
AtMethods(h) == AtCiphers(h) + 2 + h.ciphers
AtLength(h) == AtMethods(h) + 1 + h.methods
AtExts(h) == AtLength(h) + 2
AtName(h) == AtExts(h) + h.at
Size(h) == AtExts(h) + h.exts

(* The byte, or the two bytes, at i hold n: as far as they arrived.        *)
Byte(h, i, n) == i < Len(h.data) => h.data[i + 1] = n
Word(h, i, n) == i + 1 < Len(h.data) => h.data[i + 1] * 256 + h.data[i + 2] = n

(* An extension before the server name: of another type, and the next one  *)
(* follows its n bytes.                                                    *)
Other(h, s) ==
    /\ ~Word(h, AtExts(h) + s, 0) \/ AtExts(h) + s + 1 >= Len(h.data)
    /\ \E n \in 0 .. h.at : Word(h, AtExts(h) + s + 2, n) /\ s + 4 + n \in h.starts

(* The layout TLS prescribes, with one name of at most 253 characters.     *)
WellFormed(h) ==
    /\ h.data \in Seq(0 .. 255) /\ Len(h.data) <= Size(h)
    /\ h.sid \in 0 .. 255 /\ h.ciphers \in Nat /\ h.methods \in 0 .. 255
    /\ h.exts \in Nat /\ h.at \in Nat /\ h.name \in 1 .. 253
    /\ h.at + 9 + h.name <= h.exts
    /\ Byte(h, AtCiphers(h) - h.sid - 1, h.sid) /\ Word(h, AtCiphers(h), h.ciphers)
    /\ Byte(h, AtMethods(h), h.methods) /\ Word(h, AtLength(h), h.exts)
    /\ h.starts \subseteq 0 .. h.at /\ {0, h.at} \subseteq h.starts
    /\ \A s \in h.starts \ {h.at} : Other(h, s)
    /\ Byte(h, AtName(h), 0) /\ Byte(h, AtName(h) + 1, 0)
    /\ Word(h, AtName(h) + 2, h.name + 5) /\ Word(h, AtName(h) + 4, h.name + 3)
    /\ Byte(h, AtName(h) + 6, 0) /\ Word(h, AtName(h) + 7, h.name)

HelloAssumption == \A h \in Hellos : WellFormed(h)

(* Records for instances: extensions of n1 and n2 bytes before the server  *)
(* name (-1: no such extension) and of n3 after it, the free bytes filled  *)
(* by repeating p, and the first segment ending after cut bytes.           *)
Fill(n, p) == [i \in 1 .. n |-> p[((i - 1) % Len(p)) + 1]]
U16(n) == <<n \div 256, n % 256>>
Ext(t, n, p) == IF n < 0 THEN <<>> ELSE t \o U16(n) \o Fill(n, p)
ServerName(n) == <<0, 0>> \o U16(n + 5) \o U16(n + 3) \o <<0>> \o U16(n)
                 \o [i \in 1 .. n |-> 1 + ((i + 96) % 250)]

Record(sid, ciphers, es, p) ==
    <<22>> \o Fill(TLSHeaderLength + 37, p) \o <<sid>> \o Fill(sid, p)
    \o U16(ciphers) \o Fill(ciphers, p) \o <<1, 0>> \o U16(Len(es)) \o es

Client(sid, ciphers, n1, n2, name, n3, p, cut) ==
    LET b1 == Ext(<<0, 7>>, n1, p)
        b2 == b1 \o Ext(<<10, 10>>, n2, p)
        es == b2 \o ServerName(name) \o Ext(<<0, 8>>, n3, p)
        r  == Record(sid, ciphers, es, p)
    IN  [data |-> SubSeq(r, 1, IF cut < Len(r) THEN cut ELSE Len(r)), sid |-> sid,
         ciphers |-> ciphers, methods |-> 1, exts |-> Len(es), at |-> Len(b2), name |-> name,
         starts |-> {0, Len(b1), Len(b2)}]

At(i) == hello.data[base + i + 1]

(* int((data[i] << 8) + data[i+1]), computed in a byte.                    *)
LengthAt(i) == (((At(i) * 256) % 256) + At(i + 1)) % 256

Init ==
    /\ hello \in Hellos
    /\ pc = "ext" /\ base = 0 /\ len = Len(hello.data) /\ index = 0
-----------------------------------------------------------------------------
(* GetExtensionBlock: each field is skipped when what follows it is there. *)
SkipSession == LET i == TLSHeaderLength + 38 IN i + 1 + At(i)
SkipCiphers == SkipSession + 2 + LengthAt(SkipSession)
SkipMethods == SkipCiphers + 1 + At(SkipCiphers)

GetExtensionBlock ==
    /\ pc = "ext"
    /\ IF /\ len > TLSHeaderLength + 39
          /\ SkipSession + 2 < len
          /\ SkipCiphers + 1 < len
          /\ SkipMethods < len
       THEN pc' = "sn" /\ base' = SkipMethods /\ len' = len - SkipMethods
       ELSE pc' = "none" /\ UNCHANGED <<base, len>>
    /\ index' = 0
    /\ UNCHANGED hello

(* GetSNBlock: the block is cut to its length, then walked.                *)
GetSNBlock ==
    /\ pc = "sn"
    /\ IF len >= 2 /\ LengthAt(0) + 2 <= len
       THEN pc' = "snLoop" /\ base' = base + 2 /\ len' = LengthAt(0)
       ELSE pc' = "none" /\ UNCHANGED <<base, len>>
    /\ index' = 0
    /\ UNCHANGED hello

SNLoop ==
    LET n == LengthAt(index + 2) IN
    /\ pc = "snLoop"
    /\ IF index + 3 >= len THEN pc' = "none" /\ UNCHANGED <<base, len, index>>
       ELSE IF At(index) = 0 /\ At(index + 1) = 0
       THEN IF base + index + 4 + n <= Len(hello.data)
            THEN pc' = "sni" /\ base' = base + index + 4 /\ len' = n /\ index' = 0
            ELSE pc' = "panic" /\ UNCHANGED <<base, len, index>>
       ELSE pc' = pc /\ index' = index + 4 + n /\ UNCHANGED <<base, len>>
    /\ UNCHANGED hello

(* Fault: the name is taken to start at its length.                        *)
GetSNIBlockKeepsLength ==
    /\ pc = "sni"
    /\ IF len < 4 \/ index >= len THEN pc' = "none" /\ UNCHANGED <<base, len, index>>
       ELSE IF index + 2 >= len THEN pc' = "panic" /\ UNCHANGED <<base, len, index>>
       ELSE IF At(index + 2) = 0
       THEN IF index + 4 < len /\ base + index + 5 + LengthAt(index + 3) <= Len(hello.data)
            THEN /\ pc' = "found" /\ base' = base + index + 3
                 /\ len' = LengthAt(index + 3) /\ index' = 0
            ELSE pc' = "panic" /\ UNCHANGED <<base, len, index>>
       ELSE pc' = pc /\ index' = index + 2 + LengthAt(index) /\ UNCHANGED <<base, len>>
    /\ UNCHANGED hello

(* GetSNIBlock: the entry of type 0 holds the name; base and len become    *)
(* the name's place.                                                       *)
GetSNIBlock ==
    /\ pc = "sni"
    /\ IF len < 4 \/ index >= len THEN pc' = "none" /\ UNCHANGED <<base, len, index>>
       ELSE IF index + 2 >= len THEN pc' = "panic" /\ UNCHANGED <<base, len, index>>
       ELSE IF At(index + 2) = 0
       THEN IF index + 4 < len /\ base + index + 5 + LengthAt(index + 3) <= Len(hello.data)
            THEN /\ pc' = "found" /\ base' = base + index + 5
                 /\ len' = LengthAt(index + 3) /\ index' = 0
            ELSE pc' = "panic" /\ UNCHANGED <<base, len, index>>
       ELSE pc' = pc /\ index' = index + 2 + LengthAt(index) /\ UNCHANGED <<base, len>>
    /\ UNCHANGED hello

Next == GetExtensionBlock \/ GetSNBlock \/ SNLoop \/ GetSNIBlock
Spec == Init /\ [][Next]_vars
FairSpec == Spec /\ WF_vars(Next)
-----------------------------------------------------------------------------
Result == SubSeq(hello.data, base + 1, base + len)
Name == SubSeq(hello.data, AtName(hello) + 10, AtName(hello) + 9 + hello.name)

(* The lengths the parser skips by fit in a byte, so that it never goes on *)
(* inside a field; and a record whose extensions are longer than a byte    *)
(* can say is there as a whole, since the check in GetSNBlock then passes  *)
(* on a part of it too.                                                    *)
Fits ==
    /\ hello.ciphers < 256
    /\ \A s \in hello.starts \ {hello.at} :
         \E n \in 0 .. 255 : Word(hello, AtExts(hello) + s + 2, n) /\ s + 4 + n \in hello.starts
    /\ hello.exts < 256 \/ Len(hello.data) = Size(hello)

(* A name that is reported is the one the client asked for, whatever the   *)
(* other bytes are and wherever the first segment ends: the extensions     *)
(* whose total length is cut to a byte are not mistaken for another name.  *)
FoundIsTheName == Fits /\ pc = "found" => Result = Name

(* No index and no slice of the three functions leaves the bytes that      *)
(* arrived.                                                                *)
NeverPanics == Fits => pc # "panic"

(* Whether the parser gets there: the record has arrived, and the server   *)
(* name extension begins inside the extensions' length modulo 256.         *)
Reachable ==
    /\ Fits /\ Len(hello.data) = Size(hello)
    /\ hello.at + 3 < hello.exts % 256
    /\ hello.name + 5 < 256

(* The search ends, whatever was sent, and it finds the name of every      *)
(* reachable record.                                                       *)
Found == pc = "found"
Over == pc \in {"found", "none", "panic"}
SearchEnds == <>(Over /\ (Reachable => Found))
==============================================================================
