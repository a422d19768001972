--------------------------- MODULE TimeoutsProofs ---------------------------
(***************************************************************************)
(* The list of timeouts keeps its order, the sleeping time is exact, one   *)
(* entry drives each timer and no handler runs early, for every clock      *)
(* width M, every table of cyclic timers and every gap between two calls.  *)
(*                                                                         *)
(* What makes the invariant inductive: although the code only keeps times  *)
(* modulo M, an entry is never so late or so far away that comparing two   *)
(* of them modulo M could go wrong.  ListOK says how late and how far.     *)
(***************************************************************************)
EXTENDS Timeouts, TLAPS, FiniteSetTheorems, SequenceTheorems, WellFoundedInduction

(* How far in the future an entry may be.                                  *)
Far == LWIP_MAX_TIMEOUT - MaxRun

(* At time clk, g after the last call began; idle when none is under way.  *)
ListOK(list, clk, g, idle) ==
    /\ list \in Seq(Entry)
    /\ \A i \in DOMAIN list :
          /\ list[i].time = (clk + list[i].left) % M
          /\ list[i].left >= -(IF idle THEN g ELSE g + MaxGap + MaxRun)
          /\ list[i].left <= Far
    /\ \A i, j \in DOMAIN list : i < j => list[i].left <= list[j].left
    /\ \A i, j \in DOMAIN list :
          idle \/ list[i].left > -g => list[j].left - list[i].left <= Far

GapOK(g, idle) == g \in Nat /\ g <= (IF idle THEN MaxGap + MaxRun ELSE MaxRun)

(* The due time of the entry whose handler runs.                           *)
DueOK ==
    running \in Handlers =>
      \E c \in Int : /\ -(gap + MaxGap + MaxRun) <= c /\ c <= -gap
                     /\ current_timeout_due_time = (clock + c) % M

NowOK ==
    /\ GapOK(gap, running = "idle")
    /\ running # "idle" => now = (clock - gap) % M

Unique(list) == \A i, j \in DOMAIN list : list[i].h = list[j].h => i = j
Has(list, h) == \E i \in DOMAIN list : list[i].h = h

Drivers ==
    /\ Unique(next_timeout)
    /\ running \notin User => ~Has(next_timeout, running)
    /\ \A h \in Cyclic : Has(next_timeout, h) \/ running = h
    /\ tcpip_tcp_timer_active <=> (Has(next_timeout, "tcp") \/ running = "tcp")
    /\ pcbs => tcpip_tcp_timer_active

IInv ==
    /\ TypeOK /\ ListOK(next_timeout, clock, gap, running = "idle")
    /\ DueOK /\ NowOK /\ Drivers

-----------------------------------------------------------------------------
(* Arithmetic modulo M.                                                    *)

(* The sizes the assumption gives.                                         *)
LEMMA Sizes ==
  ASSUME TimeoutsAssumption
  PROVE  /\ M \in Nat /\ M >= 4 /\ MaxGap \in Nat /\ MaxRun \in Nat
         /\ LWIP_MAX_TIMEOUT \in Int /\ Far \in Int
         /\ 2 * LWIP_MAX_TIMEOUT + 2 <= M /\ Far + MaxRun = LWIP_MAX_TIMEOUT
         /\ MaxGap + MaxRun <= Far
         /\ \A d \in Msecs : d \in Nat /\ d >= 1 /\ d + MaxGap + MaxRun <= Far
         /\ \A h \in Cyclic \cup {"tcp"} :
               Interval[h] \in Nat /\ Interval[h] >= 1
                 /\ Interval[h] + MaxGap + MaxRun <= Far
<1>1. M \in Nat /\ MaxGap \in Nat /\ MaxRun \in Nat
  BY DEF TimeoutsAssumption
<1>2. \A h \in Cyclic \cup {"tcp"} : /\ Interval[h] \in 1 .. M \div 4
                                     /\ h \in DOMAIN Interval
  BY DEF TimeoutsAssumption
<1>3. \A h \in Cyclic \cup {"tcp"} : Interval[h] + MaxGap + 2 * MaxRun <= LWIP_MAX_TIMEOUT
  BY <1>2 DEF TimeoutsAssumption
<1>4. \A d \in Msecs : d \in 1 .. M \div 4 /\ d + MaxGap + 2 * MaxRun <= LWIP_MAX_TIMEOUT
  BY DEF TimeoutsAssumption
<1>5. M >= 4
  <2>1. Interval["tcp"] \in 1 .. M \div 4
    BY <1>2
  <2> QED BY <1>1, <2>1
<1>6. LWIP_MAX_TIMEOUT \in Int /\ 2 * LWIP_MAX_TIMEOUT + 2 <= M
  BY <1>1 DEF LWIP_MAX_TIMEOUT
<1>7. M \div 4 \in Int
  BY <1>1
<1>8. Far \in Int /\ Far + MaxRun = LWIP_MAX_TIMEOUT
  BY <1>1, <1>6 DEF Far
<1>9. \A h \in Cyclic \cup {"tcp"} :
         Interval[h] \in Nat /\ Interval[h] >= 1 /\ Interval[h] + MaxGap + MaxRun <= Far
  BY <1>1, <1>2, <1>3, <1>6, <1>7, <1>8
<1>10. \A d \in Msecs : d \in Nat /\ d >= 1 /\ d + MaxGap + MaxRun <= Far
  BY <1>1, <1>4, <1>6, <1>7, <1>8
<1>11. MaxGap + MaxRun <= Far
  <2>1. "tcp" \in Cyclic \cup {"tcp"}
    OBVIOUS
  <2> QED BY <1>1, <1>8, <1>9, <2>1
<1> QED BY <1>1, <1>5, <1>6, <1>8, <1>9, <1>10, <1>11

(* A number at most M outside 0 .. M - 1, modulo M.                        *)
LEMMA Wrap ==
  ASSUME M \in Nat, M >= 4, NEW x \in Int, -M <= x, x < 2 * M
  PROVE  /\ x % M = IF x < 0 THEN x + M ELSE IF x < M THEN x ELSE x - M
         /\ x % M \in 0 .. M - 1
<1>1. CASE x < 0
  <2>1. x % M = x + M
    BY <1>1
  <2> QED BY <1>1, <2>1
<1>2. CASE 0 <= x /\ x < M
  <2>1. x % M = x
    BY <1>2
  <2> QED BY <1>2, <2>1
<1>3. CASE M <= x
  <2>1. x % M = x - M
    BY <1>3
  <2> QED BY <1>3, <2>1
<1> QED BY <1>1, <1>2, <1>3

(* The same, with a name for the result.                                   *)
LEMMA Wrapped ==
  ASSUME M \in Nat, M >= 4, NEW x \in Int, -M <= x, x < 2 * M
  PROVE  \E r \in Int : /\ r = x % M /\ 0 <= r /\ r < M
                        /\ r = x + M \/ r = x \/ r = x - M
<1> DEFINE r == x % M
<1>1. r \in Int /\ 0 <= r /\ r < M /\ (r = x + M \/ r = x \/ r = x - M)
  BY Wrap
<1> HIDE DEF r
<1>2. r = x % M
  BY DEF r
<1> QED BY <1>1, <1>2, Zenon

(* Comparing modulo M tells which of two moments comes first, when they    *)
(* are close enough: what TIME_LESS_THAN relies on.                        *)
LEMMA Compare ==
  ASSUME TimeoutsAssumption, NEW clk \in 0 .. M - 1, NEW a \in Int, NEW b \in Int,
         -LWIP_MAX_TIMEOUT <= a, a <= LWIP_MAX_TIMEOUT,
         -LWIP_MAX_TIMEOUT <= b, b <= LWIP_MAX_TIMEOUT,
         -LWIP_MAX_TIMEOUT <= a - b, a - b <= LWIP_MAX_TIMEOUT
  PROVE  TIME_LESS_THAN((clk + a) % M, (clk + b) % M) <=> a < b
<1>1. /\ M \in Nat /\ M >= 4 /\ LWIP_MAX_TIMEOUT \in Int /\ 2 * LWIP_MAX_TIMEOUT + 2 <= M
  BY Sizes
<1>2. clk + a \in Int /\ -M <= clk + a /\ clk + a < 2 * M
  BY <1>1
<1>3. clk + b \in Int /\ -M <= clk + b /\ clk + b < 2 * M
  BY <1>1
<1>4. PICK p \in Int : /\ p = (clk + a) % M /\ 0 <= p /\ p < M
                       /\ p = clk + a + M \/ p = clk + a \/ p = clk + a - M
  BY <1>1, <1>2, Wrapped
<1>5. PICK q \in Int : /\ q = (clk + b) % M /\ 0 <= q /\ q < M
                       /\ q = clk + b + M \/ q = clk + b \/ q = clk + b - M
  BY <1>1, <1>3, Wrapped
<1>6. PICK r \in Int : /\ r = (p - q) % M
                       /\ r = IF p - q < 0 THEN p - q + M ELSE p - q
  <2>1. p - q \in Int /\ -M <= p - q /\ p - q < M
    BY <1>1, <1>4, <1>5
  <2> QED BY <1>1, <2>1, Wrap
<1>7. p - q = a - b \/ p - q = a - b + M \/ p - q = a - b - M
  BY <1>1, <1>4, <1>5
<1>8. r > LWIP_MAX_TIMEOUT <=> a < b
  BY <1>1, <1>4, <1>5, <1>6, <1>7
<1> QED BY <1>4, <1>5, <1>6, <1>8 DEF TIME_LESS_THAN

(* A moment l from now and the distance between two moments, when the      *)
(* clock advances or is read again.                                        *)
LEMMA Distance ==
  ASSUME M \in Nat, M >= 4, NEW clk \in Int, 0 <= clk, clk < M,
         NEW l \in Int, -M <= l, l <= M, NEW b \in Int, -M <= b, b <= M,
         0 <= l - b, l - b <= M
  PROVE  ((((clk + l) % M) - ((clk + b) % M)) + clk) % M = (clk + (l - b)) % M
<1>1. PICK q \in Int : /\ q = (clk + l) % M /\ 0 <= q /\ q < M
                       /\ q = clk + l + M \/ q = clk + l \/ q = clk + l - M
  <2>1. clk + l \in Int /\ -M <= clk + l /\ clk + l < 2 * M
    OBVIOUS
  <2> QED BY <2>1, Wrapped
<1>2. PICK p \in Int : /\ p = (clk + b) % M /\ 0 <= p /\ p < M
                       /\ p = clk + b + M \/ p = clk + b \/ p = clk + b - M
  <2>1. clk + b \in Int /\ -M <= clk + b /\ clk + b < 2 * M
    OBVIOUS
  <2> QED BY <2>1, Wrapped
<1>3. PICK x \in Int :
         /\ x = ((q - p) + clk) % M /\ 0 <= x /\ x < M
         /\ x = (q - p) + clk + M \/ x = (q - p) + clk \/ x = (q - p) + clk - M
  <2>1. (q - p) + clk \in Int /\ -M <= (q - p) + clk /\ (q - p) + clk < 2 * M
    BY <1>1, <1>2
  <2> QED BY <2>1, Wrapped
<1>4. PICK y \in Int :
         /\ y = (clk + (l - b)) % M /\ 0 <= y /\ y < M
         /\ y = clk + (l - b) + M \/ y = clk + (l - b) \/ y = clk + (l - b) - M
  <2>1. clk + (l - b) \in Int /\ -M <= clk + (l - b) /\ clk + (l - b) < 2 * M
    OBVIOUS
  <2> QED BY <2>1, Wrapped
<1>5. x = y
  BY <1>1, <1>2, <1>3, <1>4
<1> QED BY <1>1, <1>2, <1>3, <1>4, <1>5

(* The same moment seen a millisecond later.                               *)
LEMMA Later ==
  ASSUME M \in Nat, M >= 4, NEW clk \in Int, 0 <= clk, clk < M,
         NEW l \in Int, -M < l, l <= M
  PROVE  (clk + l) % M = (((clk + 1) % M) + (l - 1)) % M
<1>1. PICK q \in Int : /\ q = (clk + 1) % M /\ 0 <= q /\ q < M
                       /\ q = clk + 1 + M \/ q = clk + 1 \/ q = clk + 1 - M
  <2>1. clk + 1 \in Int /\ -M <= clk + 1 /\ clk + 1 < 2 * M
    OBVIOUS
  <2> QED BY <2>1, Wrapped
<1>2. PICK x \in Int : /\ x = (clk + l) % M /\ 0 <= x /\ x < M
                       /\ x = clk + l + M \/ x = clk + l \/ x = clk + l - M
  <2>1. clk + l \in Int /\ -M <= clk + l /\ clk + l < 2 * M
    OBVIOUS
  <2> QED BY <2>1, Wrapped
<1>3. PICK w \in Int : w = q + (l - 1)
  BY <1>1
<1>4. PICK y \in Int : /\ y = w % M /\ 0 <= y /\ y < M
                       /\ y = w + M \/ y = w \/ y = w - M
  <2>1. -M <= w /\ w < 2 * M
    BY <1>1, <1>3
  <2> QED BY <2>1, Wrapped
<1>5. x = y
  BY <1>1, <1>2, <1>3, <1>4
<1> QED BY <1>1, <1>2, <1>3, <1>4, <1>5

(* A moment some time after another one.                                   *)
LEMMA AfterNow ==
  ASSUME M \in Nat, M >= 4, NEW clk \in Int, 0 <= clk, clk < M,
         NEW c \in Int, -M <= c, c <= 0, NEW d \in Int, 0 <= d, d < M
  PROVE  (((clk + c) % M) + d) % M = (clk + (c + d)) % M
<1>1. PICK q \in Int : /\ q = (clk + c) % M /\ 0 <= q /\ q < M
                       /\ q = clk + c + M \/ q = clk + c \/ q = clk + c - M
  <2>1. clk + c \in Int /\ -M <= clk + c /\ clk + c < 2 * M
    OBVIOUS
  <2> QED BY <2>1, Wrapped
<1>2. PICK x \in Int : /\ x = (clk + (c + d)) % M /\ 0 <= x /\ x < M
                       /\ x = clk + (c + d) + M \/ x = clk + (c + d) \/ x = clk + (c + d) - M
  <2>1. clk + (c + d) \in Int /\ -M <= clk + (c + d) /\ clk + (c + d) < 2 * M
    OBVIOUS
  <2> QED BY <2>1, Wrapped
<1>3. PICK y \in Int : /\ y = (q + d) % M /\ 0 <= y /\ y < M
                       /\ y = q + d + M \/ y = q + d \/ y = q + d - M
  <2>1. q + d \in Int /\ -M <= q + d /\ q + d < 2 * M
    BY <1>1
  <2> QED BY <2>1, Wrapped
<1>4. x = y
  BY <1>1, <1>2, <1>3
<1> QED BY <1>1, <1>2, <1>3, <1>4

(* How long until a moment d from now, and how long since one g ago.       *)
LEMMA Until ==
  ASSUME M \in Nat, M >= 4, NEW clk \in Int, 0 <= clk, clk < M,
         NEW d \in Int, 0 <= d, d < M
  PROVE  /\ (((clk + d) % M) - clk) % M = d
         /\ (clk - ((clk - d) % M)) % M = d
<1>1. PICK q \in Int : /\ q = (clk + d) % M /\ 0 <= q /\ q < M
                       /\ q = clk + d + M \/ q = clk + d \/ q = clk + d - M
  <2>1. clk + d \in Int /\ -M <= clk + d /\ clk + d < 2 * M
    OBVIOUS
  <2> QED BY <2>1, Wrapped
<1>2. PICK p \in Int : /\ p = (clk - d) % M /\ 0 <= p /\ p < M
                       /\ p = (clk - d) + M \/ p = clk - d \/ p = (clk - d) - M
  <2>1. clk - d \in Int /\ -M <= clk - d /\ clk - d < 2 * M
    OBVIOUS
  <2> QED BY <2>1, Wrapped
<1>3. PICK x \in Int : /\ x = (q - clk) % M /\ 0 <= x /\ x < M
                       /\ x = (q - clk) + M \/ x = q - clk \/ x = (q - clk) - M
  <2>1. q - clk \in Int /\ -M <= q - clk /\ q - clk < 2 * M
    BY <1>1
  <2> QED BY <2>1, Wrapped
<1>4. PICK y \in Int : /\ y = (clk - p) % M /\ 0 <= y /\ y < M
                       /\ y = (clk - p) + M \/ y = clk - p \/ y = (clk - p) - M
  <2>1. clk - p \in Int /\ -M <= clk - p /\ clk - p < 2 * M
    BY <1>2
  <2> QED BY <2>1, Wrapped
<1>5. x = d
  BY <1>1, <1>3
<1>6. y = d
  BY <1>2, <1>4
<1> QED BY <1>1, <1>2, <1>3, <1>4, <1>5, <1>6

-----------------------------------------------------------------------------
(* Lists.                                                                  *)

(* A set of natural numbers that is not empty has a least element.         *)
LEMMA MinIsLeast ==
  ASSUME NEW S, S \subseteq Nat, S # {}
  PROVE  Min(S) \in S /\ \A x \in S : Min(S) <= x
<1> DEFINE R == OpToRel(<, Nat)
<1>1. IsWellFoundedOn(R, Nat)
  BY NatLessThanWellFounded
<1>2. \A y, m \in Nat : y < m => <<y, m>> \in R
  BY DEF OpToRel
<1> HIDE DEF R
<1>3. PICK m \in S : \A y \in S : ~(<<y, m>> \in R)
  BY <1>1, WFMin
<1>4. \A y \in S : m <= y
  <2> TAKE y \in S
  <2>1. y \in Nat /\ m \in Nat
    OBVIOUS
  <2>2. ~(y < m)
    BY <1>2, <1>3, <2>1
  <2> QED BY <2>1, <2>2
<1> QED BY <1>4 DEF Min

(* What InsertAt builds.                                                   *)
LEMMA InsertAtFacts ==
  ASSUME NEW T, NEW s \in Seq(T), NEW e \in T, NEW i \in 1 .. Len(s) + 1
  PROVE  /\ InsertAt(s, i, e) \in Seq(T) /\ Len(InsertAt(s, i, e)) = Len(s) + 1
         /\ InsertAt(s, i, e)[i] = e
         /\ \A k \in 1 .. i - 1 : InsertAt(s, i, e)[k] = s[k]
         /\ \A k \in i .. Len(s) : InsertAt(s, i, e)[k + 1] = s[k]
<1> DEFINE a == SubSeq(s, 1, i - 1)
           b == SubSeq(s, i, Len(s))
           c == a \o <<e>>
<1>1. /\ a \in Seq(T) /\ Len(a) = i - 1 /\ \A k \in 1 .. i - 1 : a[k] = s[k]
      /\ b \in Seq(T) /\ Len(b) = Len(s) - i + 1
      /\ \A k \in 1 .. Len(s) - i + 1 : b[k] = s[i + k - 1]
  OBVIOUS
<1> HIDE DEF a, b
<1>2. c \in Seq(T) /\ Len(c) = i /\ c[i] = e /\ \A k \in 1 .. i - 1 : c[k] = a[k]
  <2>1. a \in Seq(T) /\ Len(a) = i - 1
    BY <1>1
  <2>2. c = Append(a, e)
    BY <2>1
  <2> HIDE DEF c
  <2>3. i \in Nat
    OBVIOUS
  <2> QED BY <2>1, <2>2, <2>3, AppendProperties
<1> HIDE DEF c
<1>3. /\ c \o b \in Seq(T) /\ Len(c \o b) = Len(s) + 1
      /\ \A k \in 1 .. i : (c \o b)[k] = c[k]
      /\ \A k \in i .. Len(s) : (c \o b)[k + 1] = b[k + 1 - i]
  BY <1>1, <1>2
<1>4. InsertAt(s, i, e) = c \o b
  BY DEF InsertAt, a, b, c
<1> QED BY <1>1, <1>2, <1>3, <1>4

(* What RemoveAt leaves.                                                   *)
LEMMA RemoveAtFacts ==
  ASSUME NEW T, NEW s \in Seq(T), NEW i \in 1 .. Len(s)
  PROVE  /\ RemoveAt(s, i) \in Seq(T) /\ Len(RemoveAt(s, i)) = Len(s) - 1
         /\ \A k \in 1 .. i - 1 : RemoveAt(s, i)[k] = s[k]
         /\ \A k \in i .. Len(s) - 1 : RemoveAt(s, i)[k] = s[k + 1]
<1> DEFINE a == SubSeq(s, 1, i - 1)
           b == SubSeq(s, i + 1, Len(s))
<1>1. /\ a \in Seq(T) /\ Len(a) = i - 1 /\ \A k \in 1 .. i - 1 : a[k] = s[k]
      /\ b \in Seq(T) /\ Len(b) = Len(s) - i /\ \A k \in 1 .. Len(s) - i : b[k] = s[i + k]
  OBVIOUS
<1> HIDE DEF a, b
<1>2. /\ a \o b \in Seq(T) /\ Len(a \o b) = Len(a) + Len(b)
      /\ \A k \in 1 .. Len(a) + Len(b) :
            (a \o b)[k] = IF k <= Len(a) THEN a[k] ELSE b[k - Len(a)]
  BY <1>1, ConcatProperties
<1>3. RemoveAt(s, i) = a \o b
  BY DEF RemoveAt, a, b
<1>4. \A k \in 1 .. i - 1 : (a \o b)[k] = s[k]
  BY <1>1, <1>2
<1>5. ASSUME NEW k \in i .. Len(s) - 1 PROVE (a \o b)[k] = s[k + 1]
  <2>1. (a \o b)[k] = b[k - (i - 1)]
    BY <1>1, <1>2
  <2>2. k - (i - 1) \in 1 .. Len(s) - i /\ i + (k - (i - 1)) = k + 1
    OBVIOUS
  <2> QED BY <2>1, <2>2, <1>1
<1>6. Len(a \o b) = Len(s) - 1
  BY <1>1, <1>2
<1> QED BY <1>2, <1>3, <1>4, <1>5, <1>6

-----------------------------------------------------------------------------
(* sys_timeout_abs on a list that is as it should be.                      *)

(* The place it finds is the one the real due times ask for.               *)
LEMMA Place ==
  ASSUME TimeoutsAssumption, NEW clk \in 0 .. M - 1, NEW idle \in BOOLEAN,
         NEW g, GapOK(g, idle), NEW list, ListOK(list, clk, g, idle),
         NEW e \in Entry, e.time = (clk + e.left) % M,
         e.left >= 0, e.left + MaxGap + MaxRun <= Far
  PROVE  \E at \in 1 .. Len(list) + 1 :
            /\ sys_timeout_abs(list, e) = InsertAt(list, at, e)
            /\ \A i \in 1 .. at - 1 : list[i].left <= e.left
            /\ \A i \in at .. Len(list) : e.left < list[i].left
<1>1. /\ M \in Nat /\ M >= 4 /\ MaxGap \in Nat /\ MaxRun \in Nat /\ Far \in Int
      /\ LWIP_MAX_TIMEOUT \in Int /\ 2 * LWIP_MAX_TIMEOUT + 2 <= M
      /\ Far + MaxRun = LWIP_MAX_TIMEOUT
  BY Sizes
<1>2. /\ list \in Seq(Entry) /\ DOMAIN list = 1 .. Len(list) /\ Len(list) \in Nat
      /\ e.left \in Int /\ g \in Nat /\ g <= MaxGap + MaxRun /\ (~idle => g <= MaxRun)
  BY <1>1 DEF ListOK, Entry, GapOK
<1>3. \A i \in DOMAIN list : list[i].left \in Int
  <2>1. \A i \in DOMAIN list : list[i] \in Entry
    BY <1>2
  <2> QED BY <2>1 DEF Entry
<1>4. ASSUME NEW i \in DOMAIN list
      PROVE  TIME_LESS_THAN(e.time, list[i].time) <=> e.left < list[i].left
  <2>1. PICK l \in Int : l = list[i].left
    BY <1>3
  <2>2. /\ list[i].time = (clk + l) % M /\ l <= Far
        /\ l >= -(IF idle THEN g ELSE g + MaxGap + MaxRun)
    BY <2>1 DEF ListOK
  <2>3. l >= -(MaxGap + MaxRun + MaxRun)
    BY <1>1, <1>2, <2>2
  <2>4. PICK d \in Int : d = e.left
    BY <1>2
  <2>5. /\ -LWIP_MAX_TIMEOUT <= d - l /\ d - l <= LWIP_MAX_TIMEOUT
        /\ -LWIP_MAX_TIMEOUT <= d /\ d <= LWIP_MAX_TIMEOUT
        /\ -LWIP_MAX_TIMEOUT <= l /\ l <= LWIP_MAX_TIMEOUT
    BY <1>1, <2>2, <2>3, <2>4
  <2>6. TIME_LESS_THAN((clk + d) % M, (clk + l) % M) <=> d < l
    BY <2>5, Compare
  <2> QED BY <2>1, <2>2, <2>4, <2>6
<1> DEFINE later == {i \in DOMAIN list : TIME_LESS_THAN(e.time, list[i].time)}
<1>5. later = {i \in DOMAIN list : e.left < list[i].left}
  BY <1>4
<1>6. sys_timeout_abs(list, e) =
        InsertAt(list, IF later = {} THEN Len(list) + 1 ELSE Min(later), e)
  BY DEF sys_timeout_abs
<1> HIDE DEF later
<1>7. CASE later = {}
  <2>1. \A i \in 1 .. Len(list) : list[i].left <= e.left
    BY <1>2, <1>3, <1>5, <1>7
  <2>2. Len(list) + 1 \in 1 .. Len(list) + 1
    BY <1>2
  <2>3. \A i \in 1 .. (Len(list) + 1) - 1 : list[i].left <= e.left
    BY <1>2, <2>1
  <2>4. \A i \in Len(list) + 1 .. Len(list) : e.left < list[i].left
    BY <1>2
  <2> QED BY <1>6, <1>7, <2>2, <2>3, <2>4
<1>8. CASE later # {}
  <2>1. later \subseteq Nat
    BY <1>2, <1>5
  <2>2. PICK at \in later : at = Min(later) /\ \A x \in later : at <= x
    BY <1>8, <2>1, MinIsLeast
  <2>3. at \in 1 .. Len(list) + 1 /\ at \in DOMAIN list /\ e.left < list[at].left
    BY <1>2, <1>5, <2>2
  <2>4. \A i \in 1 .. at - 1 : list[i].left <= e.left
    <3> SUFFICES ASSUME NEW i \in 1 .. at - 1 PROVE list[i].left <= e.left
      OBVIOUS
    <3>1. i \in DOMAIN list /\ i \notin later
      BY <1>2, <2>2, <2>3
    <3> QED BY <1>2, <1>3, <1>5, <3>1
  <2>5. \A i \in at .. Len(list) : e.left < list[i].left
    <3> SUFFICES ASSUME NEW i \in at .. Len(list) PROVE e.left < list[i].left
      OBVIOUS
    <3>1. i \in DOMAIN list /\ (i = at \/ at < i)
      BY <1>2, <2>3
    <3>2. list[at].left <= list[i].left
      BY <1>2, <1>3, <2>3, <3>1 DEF ListOK
    <3> QED BY <1>2, <1>3, <2>3, <3>1, <3>2
  <2> QED BY <1>6, <1>8, <2>2, <2>3, <2>4, <2>5
<1> QED BY <1>7, <1>8

(* The new entry goes where it belongs, and what the list promised still   *)
(* holds.                                                                  *)
LEMMA InsertKeepsList ==
  ASSUME TimeoutsAssumption, NEW clk \in 0 .. M - 1, NEW idle \in BOOLEAN,
         NEW g, GapOK(g, idle), NEW list, ListOK(list, clk, g, idle),
         NEW e \in Entry, e.time = (clk + e.left) % M,
         e.left >= 0, e.left + MaxGap + MaxRun <= Far
  PROVE  /\ ListOK(sys_timeout_abs(list, e), clk, g, idle)
         /\ \E at \in 1 .. Len(list) + 1 : sys_timeout_abs(list, e) = InsertAt(list, at, e)
<1>1. /\ MaxGap \in Nat /\ MaxRun \in Nat /\ Far \in Int
  BY Sizes
<1>2. /\ list \in Seq(Entry) /\ DOMAIN list = 1 .. Len(list) /\ Len(list) \in Nat
      /\ e.left \in Int /\ g \in Nat /\ g <= MaxGap + MaxRun /\ (~idle => g <= MaxRun)
  BY <1>1 DEF ListOK, Entry, GapOK
<1>3. PICK at \in 1 .. Len(list) + 1 :
            /\ sys_timeout_abs(list, e) = InsertAt(list, at, e)
            /\ \A i \in 1 .. at - 1 : list[i].left <= e.left
            /\ \A i \in at .. Len(list) : e.left < list[i].left
  BY Place
<1> DEFINE new == InsertAt(list, at, e)
<1>4. /\ new \in Seq(Entry) /\ Len(new) = Len(list) + 1 /\ DOMAIN new = 1 .. Len(list) + 1
      /\ new[at] = e
      /\ \A k \in 1 .. at - 1 : new[k] = list[k]
      /\ \A k \in at .. Len(list) : new[k + 1] = list[k]
  <2>1. /\ new \in Seq(Entry) /\ Len(new) = Len(list) + 1
        /\ new[at] = e
        /\ \A k \in 1 .. at - 1 : new[k] = list[k]
        /\ \A k \in at .. Len(list) : new[k + 1] = list[k]
    <3>1. list \in Seq(Entry)
      BY <1>2
    <3> QED BY <3>1, InsertAtFacts
  <2> HIDE DEF new
  <2> QED BY <2>1
<1> HIDE DEF new
<1>5. \A k \in DOMAIN new : /\ k < at => k \in DOMAIN list /\ new[k] = list[k]
                            /\ k = at => new[k] = e
                            /\ k > at => k - 1 \in DOMAIN list /\ new[k] = list[k - 1]
  <2> SUFFICES ASSUME NEW k \in DOMAIN new
               PROVE  /\ k < at => k \in DOMAIN list /\ new[k] = list[k]
                      /\ k = at => new[k] = e
                      /\ k > at => k - 1 \in DOMAIN list /\ new[k] = list[k - 1]
    OBVIOUS
  <2>1. k \in Int /\ 1 <= k /\ k <= Len(list) + 1
    BY <1>2, <1>4
  <2>2. ASSUME k > at PROVE k - 1 \in DOMAIN list /\ new[k] = list[k - 1]
    <3>1. k - 1 \in at .. Len(list) /\ (k - 1) + 1 = k
      BY <1>2, <2>1, <2>2
    <3> QED BY <1>2, <1>4, <3>1
  <2> QED BY <1>2, <1>4, <2>1, <2>2
<1>6. \A i \in DOMAIN list : list[i].left \in Int
  <2>1. \A i \in DOMAIN list : list[i] \in Entry
    BY <1>2
  <2> QED BY <2>1 DEF Entry
<1>7. \A k \in DOMAIN new : new[k] = e \/ \E i \in DOMAIN list : new[k] = list[i]
  BY <1>2, <1>4, <1>5
<1>8. ASSUME NEW k \in DOMAIN new
      PROVE  /\ new[k].time = (clk + new[k].left) % M
             /\ new[k].left >= -(IF idle THEN g ELSE g + MaxGap + MaxRun)
             /\ new[k].left <= Far
  <2>1. CASE new[k] = e
    <3>1. -(IF idle THEN g ELSE g + MaxGap + MaxRun) <= 0
      BY <1>1, <1>2
    <3>2. e.left <= Far
      BY <1>1, <1>2
    <3>3. e.left \in Int /\ e.left >= 0 /\ e.time = (clk + e.left) % M
      BY <1>2
    <3>4. PICK late \in Int : late = (IF idle THEN g ELSE g + MaxGap + MaxRun)
      BY <1>1, <1>2
    <3>5. e.left >= -late
      <4>1. -late <= 0 /\ e.left \in Int /\ e.left >= 0
        BY <3>1, <3>3, <3>4
      <4> QED BY <4>1
    <3> QED BY <2>1, <3>2, <3>3, <3>4, <3>5
  <2>2. ASSUME NEW i \in DOMAIN list, new[k] = list[i]
        PROVE  /\ new[k].time = (clk + new[k].left) % M
               /\ new[k].left >= -(IF idle THEN g ELSE g + MaxGap + MaxRun)
               /\ new[k].left <= Far
    BY <2>2 DEF ListOK
  <2> QED BY <1>7, <2>1, <2>2
<1>9. ASSUME NEW i \in DOMAIN new, NEW j \in DOMAIN new, i < j
      PROVE  new[i].left <= new[j].left
  <2>1. i \in Int /\ j \in Int /\ at \in Int
    BY <1>2, <1>4
  <2>2. \A m, n \in DOMAIN list : m < n => list[m].left <= list[n].left
    BY DEF ListOK
  <2>3. CASE j < at
    BY <1>5, <1>9, <2>1, <2>2, <2>3
  <2>4. CASE i < at /\ j = at
    <3>1. i \in 1 .. at - 1 /\ new[i] = list[i] /\ new[j] = e
      BY <1>4, <1>5, <2>1, <2>4
    <3> QED BY <1>3, <3>1
  <2>5. CASE i < at /\ j > at
    <3>1. i < j - 1 \/ i = j - 1
      BY <2>1, <2>5
    <3>2. i \in DOMAIN list /\ j - 1 \in DOMAIN list /\ new[i] = list[i] /\ new[j] = list[j - 1]
      BY <1>5, <2>1, <2>5
    <3> QED BY <1>6, <2>1, <2>2, <3>1, <3>2
  <2>6. CASE i = at
    <3>1. j > at
      BY <1>9, <2>1, <2>6
    <3>2. j - 1 \in at .. Len(list) /\ new[j] = list[j - 1] /\ new[i] = e
      BY <1>2, <1>4, <1>5, <2>1, <2>6, <3>1
    <3>3. e.left < list[j - 1].left /\ list[j - 1].left \in Int
      BY <1>2, <1>3, <1>6, <3>2
    <3> QED BY <1>2, <3>2, <3>3
  <2>7. CASE i > at
    <3>1. /\ j > at /\ i - 1 < j - 1
      BY <1>9, <2>1, <2>7
    <3>2. i - 1 \in DOMAIN list /\ j - 1 \in DOMAIN list /\ new[i] = list[i - 1] /\ new[j] = list[j - 1]
      BY <1>5, <2>7, <3>1
    <3> QED BY <2>2, <3>1, <3>2
  <2> QED BY <1>9, <2>1, <2>3, <2>4, <2>5, <2>6, <2>7
<1>10. ASSUME NEW i \in DOMAIN new, NEW j \in DOMAIN new, idle \/ new[i].left > -g
       PROVE  new[j].left - new[i].left <= Far
  <2>1. PICK a \in Int : a = new[i].left /\ a >= -g
    <3>1. new[i].left \in Int
      BY <1>2, <1>6, <1>7
    <3>2. CASE idle
      <4>1. new[i].left >= -g
        BY <1>8, <3>2
      <4> QED BY <3>1, <4>1
    <3>3. CASE ~idle
      <4>1. new[i].left > -g
        BY <1>10, <3>3
      <4> QED BY <1>2, <3>1, <4>1
    <3> QED BY <3>2, <3>3
  <2>2. PICK b \in Int : b = new[j].left /\ b <= Far
    <3>1. new[j].left \in Int
      BY <1>2, <1>6, <1>7
    <3> QED BY <1>8, <3>1
  <2>3. CASE new[j] = e
    <3>1. b + MaxGap + MaxRun <= Far
      BY <2>2, <2>3
    <3>2. b - a <= Far
      BY <1>1, <1>2, <2>1, <3>1
    <3> QED BY <2>1, <2>2, <3>2
  <2>4. CASE new[i] = e
    <3>1. a >= 0
      BY <2>1, <2>4
    <3> QED BY <1>1, <2>1, <2>2, <3>1
  <2>5. ASSUME NEW m \in DOMAIN list, NEW n \in DOMAIN list, new[i] = list[m], new[j] = list[n]
        PROVE  new[j].left - new[i].left <= Far
    BY <1>10, <2>5 DEF ListOK
  <2> QED BY <1>7, <2>3, <2>4, <2>5
<1>11. ListOK(new, clk, g, idle)
  BY <1>4, <1>8, <1>9, <1>10 DEF ListOK
<1> QED BY <1>3, <1>11 DEF new

(* Part of a list, in the same order, is as good as the whole.             *)
LEMMA PartKeepsList ==
  ASSUME NEW clk, NEW idle, NEW g, NEW list, ListOK(list, clk, g, idle),
         NEW new \in Seq(Entry), NEW f \in [DOMAIN new -> DOMAIN list],
         \A k \in DOMAIN new : new[k] = list[f[k]],
         \A i, j \in DOMAIN new : i < j => f[i] < f[j]
  PROVE  ListOK(new, clk, g, idle)
<1>1. \A k \in DOMAIN new : f[k] \in DOMAIN list
  OBVIOUS
<1>2. \A k \in DOMAIN new :
          /\ new[k].time = (clk + new[k].left) % M
          /\ new[k].left >= -(IF idle THEN g ELSE g + MaxGap + MaxRun)
          /\ new[k].left <= Far
  BY <1>1 DEF ListOK
<1>3. \A i, j \in DOMAIN new : i < j => new[i].left <= new[j].left
  BY <1>1 DEF ListOK
<1>4. \A i, j \in DOMAIN new :
          idle \/ new[i].left > -g => new[j].left - new[i].left <= Far
  BY <1>1 DEF ListOK
<1> QED BY <1>2, <1>3, <1>4 DEF ListOK

(* Time passes: every entry is one millisecond closer.                     *)
LEMMA AgeKeepsList ==
  ASSUME TimeoutsAssumption, NEW clk \in 0 .. M - 1, NEW idle \in BOOLEAN,
         NEW g, GapOK(g, idle), NEW list, ListOK(list, clk, g, idle)
  PROVE  ListOK([i \in DOMAIN list |-> [list[i] EXCEPT !.left = @ - 1]],
                (clk + 1) % M, g + 1, idle)
<1> DEFINE new == [i \in DOMAIN list |-> [list[i] EXCEPT !.left = @ - 1]]
<1>1. /\ M \in Nat /\ M >= 4 /\ MaxGap \in Nat /\ MaxRun \in Nat /\ Far \in Int
      /\ LWIP_MAX_TIMEOUT \in Int /\ 2 * LWIP_MAX_TIMEOUT + 2 <= M
      /\ Far + MaxRun = LWIP_MAX_TIMEOUT /\ MaxGap + MaxRun <= Far
  BY Sizes
<1>2. /\ list \in Seq(Entry) /\ DOMAIN list = 1 .. Len(list) /\ Len(list) \in Nat
      /\ g \in Nat /\ g <= MaxGap + MaxRun /\ (~idle => g <= MaxRun)
  BY <1>1 DEF ListOK, GapOK
<1>3. \A i \in DOMAIN list :
         /\ list[i].left \in Int
         /\ new[i] \in Entry /\ new[i].left = list[i].left - 1 /\ new[i].time = list[i].time
  <2>1. \A i \in DOMAIN list : list[i] \in Entry
    BY <1>2
  <2> QED BY <2>1 DEF Entry
<1>4. new \in Seq(Entry) /\ DOMAIN new = DOMAIN list
  <2>1. new \in [1 .. Len(list) -> Entry]
    BY <1>2, <1>3
  <2> QED BY <1>2, <2>1
<1> HIDE DEF new
<1>5. ASSUME NEW i \in DOMAIN list
      PROVE  /\ new[i].time = (((clk + 1) % M) + new[i].left) % M
             /\ new[i].left >= -(IF idle THEN g + 1 ELSE (g + 1) + MaxGap + MaxRun)
             /\ new[i].left <= Far
  <2>1. PICK l \in Int : l = list[i].left
    BY <1>3
  <2>2. /\ list[i].time = (clk + l) % M /\ l <= Far
        /\ l >= -(IF idle THEN g ELSE g + MaxGap + MaxRun)
    BY <2>1 DEF ListOK
  <2>3. l >= -LWIP_MAX_TIMEOUT /\ l <= LWIP_MAX_TIMEOUT
    <3>1. CASE idle
      BY <1>1, <1>2, <2>2, <3>1
    <3>2. CASE ~idle
      BY <1>1, <1>2, <2>2, <3>2
    <3> QED BY <3>1, <3>2
  <2>4. (clk + l) % M = (((clk + 1) % M) + (l - 1)) % M
    <3>1. /\ M \in Nat /\ M >= 4 /\ clk \in Int /\ 0 <= clk /\ clk < M
          /\ -M < l /\ l <= M
      BY <1>1, <2>3
    <3> QED BY <3>1, Later
  <2>5. new[i].left = l - 1 /\ new[i].time = (clk + l) % M
    BY <1>3, <2>1, <2>2
  <2>6. l - 1 >= -(IF idle THEN g + 1 ELSE (g + 1) + MaxGap + MaxRun) /\ l - 1 <= Far
    BY <1>1, <1>2, <2>2
  <2> QED BY <2>4, <2>5, <2>6
<1>6. \A i, j \in DOMAIN new : i < j => new[i].left <= new[j].left
  <2> SUFFICES ASSUME NEW i \in DOMAIN list, NEW j \in DOMAIN list, i < j
               PROVE  new[i].left <= new[j].left
    BY <1>4
  <2>1. list[i].left <= list[j].left
    BY DEF ListOK
  <2> QED BY <1>3, <2>1
<1>7. \A i, j \in DOMAIN new :
          idle \/ new[i].left > -(g + 1) => new[j].left - new[i].left <= Far
  <2> SUFFICES ASSUME NEW i \in DOMAIN list, NEW j \in DOMAIN list,
                      idle \/ new[i].left > -(g + 1)
               PROVE  new[j].left - new[i].left <= Far
    BY <1>4
  <2>1. PICK a \in Int : a = list[i].left /\ new[i].left = a - 1
    BY <1>3
  <2>2. PICK b \in Int : b = list[j].left /\ new[j].left = b - 1
    BY <1>3
  <2>3. idle \/ a > -g
    BY <1>2, <2>1
  <2>4. b - a <= Far
    BY <2>1, <2>2, <2>3 DEF ListOK
  <2> QED BY <1>1, <2>1, <2>2, <2>4
<1>8. ListOK(new, (clk + 1) % M, g + 1, idle)
  BY <1>4, <1>5, <1>6, <1>7 DEF ListOK
<1> QED BY <1>8 DEF new

(* sys_restart_timeouts: the distances stay, the first entry is due now.   *)
Restarted(list, clk, base) ==
    [i \in DOMAIN list |-> [list[i] EXCEPT !.time = ((@ - base.time) + clk) % M,
                                           !.left = @ - base.left]]

LEMMA RestartKeepsList ==
  ASSUME TimeoutsAssumption, NEW clk \in 0 .. M - 1, NEW g, GapOK(g, TRUE),
         NEW list, ListOK(list, clk, g, TRUE), NEW base, base = list[1], list # <<>>
  PROVE  ListOK(Restarted(list, clk, base), clk, g, TRUE)
<1> DEFINE new == [i \in DOMAIN list |->
                     [list[i] EXCEPT !.time = ((@ - base.time) + clk) % M,
                                     !.left = @ - base.left]]
<1>1. /\ M \in Nat /\ M >= 4 /\ MaxGap \in Nat /\ MaxRun \in Nat /\ Far \in Int
      /\ LWIP_MAX_TIMEOUT \in Int /\ 2 * LWIP_MAX_TIMEOUT + 2 <= M
      /\ Far + MaxRun = LWIP_MAX_TIMEOUT /\ MaxGap + MaxRun <= Far
  BY Sizes
<1>2. M \in Nat /\ M >= 4
  BY <1>1
<1>3. /\ list \in Seq(Entry) /\ DOMAIN list = 1 .. Len(list) /\ Len(list) \in Nat
      /\ 1 \in DOMAIN list
  BY DEF ListOK
<1>4. g \in Nat /\ g <= MaxGap + MaxRun
  BY DEF GapOK
<1>5. \A i \in DOMAIN list : list[i] \in Entry
  BY <1>3
<1>6. \A i \in DOMAIN list : list[i].left \in Int /\ list[i].time \in Int
  BY <1>1, <1>5 DEF Entry
<1>7. \A i \in DOMAIN list : /\ list[i].time = (clk + list[i].left) % M
                             /\ list[i].left >= -g /\ list[i].left <= Far
  BY DEF ListOK
<1>8. PICK b \in Int : /\ b = base.left /\ base.time = (clk + b) % M
                       /\ b >= -g /\ b <= Far
  BY <1>3, <1>6, <1>7
<1>8a. b >= -g /\ b <= Far
  BY <1>8
<1>9. b >= -Far /\ 2 * Far <= M /\ g <= Far
  BY <1>1, <1>4, <1>8a
<1>0. M \in Nat /\ M >= 4 /\ Far \in Int /\ g \in Nat
  BY <1>1, <1>4
<1>10. \A i \in DOMAIN list : b <= list[i].left /\ list[i].left - b <= Far
  <2> SUFFICES ASSUME NEW i \in DOMAIN list
               PROVE  b <= list[i].left /\ list[i].left - b <= Far
    OBVIOUS
  <2>1. list[1].left <= list[i].left
    <3>1. i = 1 \/ 1 < i
      BY <1>3
    <3>2. CASE i = 1
      BY <1>3, <1>6, <3>2
    <3>3. CASE 1 < i
      BY <1>3, <3>3 DEF ListOK
    <3> QED BY <3>1, <3>2, <3>3
  <2>2. list[i].left - list[1].left <= Far
    BY <1>3 DEF ListOK
  <2> QED BY <1>8, <2>1, <2>2
<1>11. ASSUME NEW i \in DOMAIN list
       PROVE  /\ new[i] \in Entry /\ new[i].left = list[i].left - b
              /\ new[i].time = (clk + (list[i].left - b)) % M
  <2>1. PICK l \in Int : /\ l = list[i].left /\ list[i].time = (clk + l) % M
                         /\ l >= -g /\ l <= Far /\ b <= l /\ l - b <= Far
    BY <1>6, <1>7, <1>10
  <2>0. l >= -g /\ l <= Far /\ b <= l /\ l - b <= Far
    BY <2>1
  <2>2. (((list[i].time - base.time) + clk) % M) = (clk + (l - b)) % M
    <3>1. /\ clk \in Int /\ 0 <= clk /\ clk < M
          /\ -M <= l /\ l <= M /\ -M <= b /\ b <= M /\ 0 <= l - b /\ l - b <= M
      BY <1>0, <1>8a, <1>9, <2>0
    <3>2. ((((clk + l) % M) - ((clk + b) % M)) + clk) % M = (clk + (l - b)) % M
      BY <1>2, <3>1, Distance
    <3> QED BY <1>8, <2>1, <3>2
  <2>3. (clk + (l - b)) % M \in 0 .. M - 1
    <3>1. clk + (l - b) \in Int /\ -M <= clk + (l - b) /\ clk + (l - b) < 2 * M
      BY <1>0, <1>9, <2>0
    <3> QED BY <1>2, <3>1, Wrap
  <2>4. PICK x \in 0 .. M - 1 : x = (clk + (l - b)) % M
    BY <2>3
  <2>5. new[i] = [list[i] EXCEPT !.time = x, !.left = l - b]
    BY <1>8, <2>1, <2>2, <2>4
  <2> HIDE DEF new
  <2>6. /\ new[i] \in Entry /\ new[i].time = x /\ new[i].left = l - b
    <3>1. PICK r \in Entry : r = list[i]
      BY <1>5
    <3>2. PICK d \in Int : d = l - b
      OBVIOUS
    <3>3. new[i] = [r EXCEPT !.time = x, !.left = d]
      BY <2>5, <3>1, <3>2
    <3>4. /\ [r EXCEPT !.time = x, !.left = d] \in Entry
          /\ [r EXCEPT !.time = x, !.left = d].time = x
          /\ [r EXCEPT !.time = x, !.left = d].left = d
      BY <2>4 DEF Entry
    <3> QED BY <3>2, <3>3, <3>4
  <2> QED BY <2>1, <2>4, <2>6
<1>12. new \in Seq(Entry) /\ DOMAIN new = DOMAIN list
  <2>1. new \in [1 .. Len(list) -> Entry]
    BY <1>3, <1>11
  <2>2. Len(list) \in Nat /\ DOMAIN list = 1 .. Len(list)
    BY <1>3
  <2> HIDE DEF new
  <2> QED BY <2>1, <2>2
<1> HIDE DEF new
<1>13. \A i \in DOMAIN new :
          /\ new[i].time = (clk + new[i].left) % M
          /\ new[i].left >= -(IF TRUE THEN g ELSE g + MaxGap + MaxRun)
          /\ new[i].left <= Far
  <2> SUFFICES ASSUME NEW i \in DOMAIN list
               PROVE  /\ new[i].time = (clk + new[i].left) % M
                      /\ new[i].left >= -(IF TRUE THEN g ELSE g + MaxGap + MaxRun)
                      /\ new[i].left <= Far
    BY <1>12
  <2>1. PICK l \in Int : l = list[i].left /\ b <= l /\ l - b <= Far
    BY <1>6, <1>10
  <2>2. new[i].left = l - b /\ new[i].time = (clk + (l - b)) % M
    BY <1>11, <2>1
  <2>3. l - b >= -g
    BY <1>4, <2>1
  <2> QED BY <2>1, <2>2, <2>3
<1>14. \A i, j \in DOMAIN new : i < j => new[i].left <= new[j].left
  <2> SUFFICES ASSUME NEW i \in DOMAIN list, NEW j \in DOMAIN list, i < j
               PROVE  new[i].left <= new[j].left
    BY <1>12
  <2>1. list[i].left <= list[j].left
    BY DEF ListOK
  <2> QED BY <1>6, <1>11, <2>1
<1>15. \A i, j \in DOMAIN new :
          TRUE \/ new[i].left > -g => new[j].left - new[i].left <= Far
  <2> SUFFICES ASSUME NEW i \in DOMAIN list, NEW j \in DOMAIN list
               PROVE  new[j].left - new[i].left <= Far
    BY <1>12
  <2>1. list[j].left - list[i].left <= Far
    BY DEF ListOK
  <2>2. list[i].left \in Int /\ list[j].left \in Int
    BY <1>6
  <2>3. new[i].left = list[i].left - b /\ new[j].left = list[j].left - b
    BY <1>11
  <2>4. (list[j].left - b) - (list[i].left - b) = list[j].left - list[i].left
    BY <2>2
  <2> QED BY <2>1, <2>3, <2>4
<1>16. ListOK(new, clk, g, TRUE)
  BY <1>12, <1>13, <1>14, <1>15 DEF ListOK
<1> QED BY <1>16 DEF new, Restarted

-----------------------------------------------------------------------------
(* Which handlers have an entry.                                           *)

(* A new entry for a handler that has none.                                *)
LEMMA InsertKeepsUnique ==
  ASSUME NEW list \in Seq(Entry), NEW e \in Entry, NEW at \in 1 .. Len(list) + 1,
         Unique(list), ~Has(list, e.h)
  PROVE  /\ Unique(InsertAt(list, at, e))
         /\ \A h : Has(InsertAt(list, at, e), h) <=> (Has(list, h) \/ h = e.h)
<1> DEFINE new == InsertAt(list, at, e)
<1>1. /\ new \in Seq(Entry) /\ Len(new) = Len(list) + 1
      /\ new[at] = e
      /\ \A k \in 1 .. at - 1 : new[k] = list[k]
      /\ \A k \in at .. Len(list) : new[k + 1] = list[k]
  BY InsertAtFacts
<1> HIDE DEF new
<1>2. DOMAIN new = 1 .. Len(list) + 1 /\ DOMAIN list = 1 .. Len(list) /\ Len(list) \in Nat
  BY <1>1
<1>3. \A k \in DOMAIN new : /\ k < at => k \in DOMAIN list /\ new[k] = list[k]
                            /\ k > at => k - 1 \in DOMAIN list /\ new[k] = list[k - 1]
  <2> SUFFICES ASSUME NEW k \in DOMAIN new
               PROVE  /\ k < at => k \in DOMAIN list /\ new[k] = list[k]
                      /\ k > at => k - 1 \in DOMAIN list /\ new[k] = list[k - 1]
    OBVIOUS
  <2>1. ASSUME k > at PROVE k - 1 \in DOMAIN list /\ new[k] = list[k - 1]
    <3>1. k - 1 \in at .. Len(list) /\ (k - 1) + 1 = k
      BY <1>2, <2>1
    <3> QED BY <1>1, <1>2, <3>1
  <2> QED BY <1>1, <1>2, <2>1
<1>4. \A i \in DOMAIN list : list[i].h # e.h
  BY DEF Has
<1>5. Unique(new)
  <2> SUFFICES ASSUME NEW i \in DOMAIN new, NEW j \in DOMAIN new, new[i].h = new[j].h
               PROVE  i = j
    BY DEF Unique
  <2>1. \A m, n \in DOMAIN list : list[m].h = list[n].h => m = n
    BY DEF Unique
  <2>2. i \in Int /\ j \in Int /\ at \in Int
    BY <1>2
  <2>3. new[at] = e
    BY <1>1
  <2>4. CASE i = at \/ j = at
    BY <1>3, <1>4, <2>2, <2>3, <2>4
  <2>5. CASE i # at /\ j # at
    <3>1. PICK m \in DOMAIN list : m = (IF i < at THEN i ELSE i - 1) /\ new[i] = list[m]
      BY <1>3, <2>2, <2>5
    <3>2. PICK n \in DOMAIN list : n = (IF j < at THEN j ELSE j - 1) /\ new[j] = list[n]
      BY <1>3, <2>2, <2>5
    <3>3. m = n
      BY <2>1, <3>1, <3>2
    <3>4. m = (IF i < at THEN i ELSE i - 1) /\ n = (IF j < at THEN j ELSE j - 1)
      BY <3>1, <3>2
    <3>5. CASE i < at
      <4>1. m = i /\ (n = j \/ (j > at /\ n = j - 1))
        BY <2>2, <2>5, <3>4, <3>5
      <4> QED BY <2>2, <3>3, <3>5, <4>1
    <3>6. CASE i > at
      <4>1. m = i - 1 /\ ((j < at /\ n = j) \/ n = j - 1)
        BY <2>2, <2>5, <3>4, <3>6
      <4> QED BY <2>2, <3>3, <3>6, <4>1
    <3> QED BY <2>2, <2>5, <3>5, <3>6
  <2> QED BY <2>4, <2>5
<1>6. ASSUME NEW h PROVE Has(new, h) <=> (Has(list, h) \/ h = e.h)
  <2>1. ASSUME Has(new, h) PROVE Has(list, h) \/ h = e.h
    <3>1. PICK k \in DOMAIN new : new[k].h = h
      BY <2>1 DEF Has
    <3>2. k < at \/ k = at \/ k > at
      BY <1>2
    <3>3. CASE k = at
      BY <1>1, <3>1, <3>3
    <3>4. CASE k < at
      BY <1>3, <3>1, <3>4 DEF Has
    <3>5. CASE k > at
      BY <1>3, <3>1, <3>5 DEF Has
    <3> QED BY <3>2, <3>3, <3>4, <3>5
  <2>2. ASSUME Has(list, h) PROVE Has(new, h)
    <3>1. PICK i \in DOMAIN list : list[i].h = h
      BY <2>2 DEF Has
    <3>2. CASE i < at
      <4>1. i \in 1 .. at - 1 /\ i \in DOMAIN new
        BY <1>2, <3>2
      <4> QED BY <1>1, <3>1, <4>1 DEF Has
    <3>3. CASE i >= at
      <4>1. i \in at .. Len(list) /\ i + 1 \in DOMAIN new
        BY <1>2, <3>3
      <4> QED BY <1>1, <3>1, <4>1 DEF Has
    <3> QED BY <1>2, <3>2, <3>3
  <2>3. ASSUME h = e.h PROVE Has(new, h)
    BY <1>1, <1>2, <2>3 DEF Has
  <2> QED BY <2>1, <2>2, <2>3
<1> QED BY <1>5, <1>6 DEF new

(* A list with the same handlers in the same places.                       *)
LEMMA SameHandlers ==
  ASSUME NEW list, NEW new, DOMAIN new = DOMAIN list,
         \A i \in DOMAIN list : new[i].h = list[i].h
  PROVE  /\ Unique(list) => Unique(new)
         /\ \A h : Has(new, h) <=> Has(list, h)
  BY DEF Unique, Has

(* Names of handlers are no phases of sys_check_timeouts.                  *)
LEMMA Names ==
  ASSUME TimeoutsAssumption
  PROVE  /\ Cyclic \cap User = {} /\ IsFiniteSet(Cyclic)
         /\ "check" \notin Handlers /\ "idle" \notin Handlers
         /\ "tcp" \notin Cyclic /\ "tcp" \notin User
         /\ "check" \notin User /\ "idle" \notin User
  BY DEF TimeoutsAssumption, Handlers

(* The fields of the entries.                                              *)
LEMMA Fields ==
  ASSUME TypeOK, NEW i \in DOMAIN next_timeout
  PROVE  /\ next_timeout[i].h \in Handlers /\ next_timeout[i].left \in Int
         /\ next_timeout[i].time \in 0 .. M - 1
<1>1. next_timeout[i] \in Entry
  BY DEF TypeOK
<1> QED BY <1>1 DEF Entry

-----------------------------------------------------------------------------
(* The invariant holds initially.                                          *)

LEMMA InitIInv ==
  ASSUME TimeoutsAssumption, Init
  PROVE  IInv
<1>1. /\ M \in Nat /\ M >= 4 /\ MaxGap \in Nat /\ MaxRun \in Nat /\ Far \in Int
      /\ LWIP_MAX_TIMEOUT \in Int /\ 2 * LWIP_MAX_TIMEOUT + 2 <= M
      /\ Far + MaxRun = LWIP_MAX_TIMEOUT /\ MaxGap + MaxRun <= Far
  BY Sizes
<1>2. \A h \in Cyclic : /\ Interval[h] \in Nat /\ Interval[h] >= 1
                        /\ Interval[h] + MaxGap + MaxRun <= Far
  BY Sizes
<1>3. /\ clock \in 0 .. M - 1 /\ next_timeout \in sys_timeouts_init
      /\ current_timeout_due_time = 0 /\ tcpip_tcp_timer_active = FALSE /\ pcbs = FALSE
      /\ running = "idle" /\ now = 0 /\ gap = 0
  BY DEF Init
<1>4. PICK n \in Nat : n = Cardinality(Cyclic)
  BY Names, FS_CardinalityType
<1>5. PICK s \in Bijection(1 .. n, Cyclic) :
         /\ \A i, j \in 1 .. n : i < j => Interval[s[i]] <= Interval[s[j]]
         /\ next_timeout = [i \in 1 .. n |-> [time |-> (clock + Interval[s[i]]) % M,
                                             h |-> s[i], left |-> Interval[s[i]]]]
  BY <1>3, <1>4 DEF sys_timeouts_init
<1>6. /\ s \in [1 .. n -> Cyclic] /\ \A i, j \in 1 .. n : s[i] = s[j] => i = j
      /\ \A h \in Cyclic : \E i \in 1 .. n : s[i] = h
  BY DEF Bijection, Injection, Surjection, IsInjective
<1>7. /\ DOMAIN next_timeout = 1 .. n
      /\ \A i \in 1 .. n :
            /\ s[i] \in Cyclic
            /\ next_timeout[i] = [time |-> (clock + Interval[s[i]]) % M,
                                  h |-> s[i], left |-> Interval[s[i]]]
            /\ next_timeout[i].time = (clock + next_timeout[i].left) % M
            /\ next_timeout[i].h = s[i] /\ next_timeout[i].left = Interval[s[i]]
  BY <1>5, <1>6
<1>8. next_timeout \in Seq(Entry)
  <2>1. ASSUME NEW i \in 1 .. n PROVE next_timeout[i] \in Entry
    <3>1. PICK d \in Nat : d = Interval[s[i]] /\ d + MaxGap + MaxRun <= Far
      BY <1>2, <1>7
    <3>2. clock + d \in Int /\ -M <= clock + d /\ clock + d < 2 * M
      <4>1. d + MaxGap + MaxRun <= Far /\ clock \in 0 .. M - 1
        BY <1>3, <3>1
      <4> QED BY <1>1, <4>1
    <3>3. (clock + d) % M \in 0 .. M - 1
      BY <1>1, <3>2, Wrap
    <3>4. s[i] \in Handlers
      BY <1>7 DEF Handlers
    <3> QED BY <1>7, <3>1, <3>3, <3>4 DEF Entry
  <2>2. next_timeout \in [1 .. n -> Entry]
    BY <1>5, <1>7, <2>1
  <2> QED BY <2>2
<1>9. ListOK(next_timeout, clock, gap, running = "idle")
  <2>1. \A i \in DOMAIN next_timeout :
          /\ next_timeout[i].time = (clock + next_timeout[i].left) % M
          /\ next_timeout[i].left \in Nat /\ next_timeout[i].left <= Far
    <3> SUFFICES ASSUME NEW i \in 1 .. n
                 PROVE  /\ next_timeout[i].time = (clock + next_timeout[i].left) % M
                        /\ next_timeout[i].left \in Nat /\ next_timeout[i].left <= Far
      BY <1>7
    <3>1. PICK d \in Nat : d = Interval[s[i]] /\ d + MaxGap + MaxRun <= Far
      BY <1>2, <1>7
    <3>2. d <= Far
      BY <1>1, <3>1
    <3> QED BY <1>7, <3>1, <3>2
  <2>2. \A i, j \in DOMAIN next_timeout :
           i < j => next_timeout[i].left <= next_timeout[j].left
    BY <1>5, <1>7
  <2>3. \A i, j \in DOMAIN next_timeout : next_timeout[j].left - next_timeout[i].left <= Far
    BY <1>1, <2>1
  <2>4. \A i \in DOMAIN next_timeout :
           next_timeout[i].left >= -(IF running = "idle" THEN gap ELSE gap + MaxGap + MaxRun)
    BY <1>3, <2>1
  <2> QED BY <1>8, <2>1, <2>2, <2>3, <2>4 DEF ListOK
<1>10. TypeOK
  <2>1. 0 \in 0 .. M - 1 /\ 0 \in 0 .. MaxGap + MaxRun
    BY <1>1
  <2> QED BY <1>3, <1>8, <2>1 DEF TypeOK
<1>11. DueOK
  BY <1>3, Names DEF DueOK
<1>12. NowOK
  BY <1>1, <1>3 DEF NowOK, GapOK
<1>13. Drivers
  <2>1. Unique(next_timeout)
    BY <1>6, <1>7 DEF Unique
  <2>2. \A h : Has(next_timeout, h) => h \in Cyclic
    BY <1>7 DEF Has
  <2>3. \A h \in Cyclic : Has(next_timeout, h)
    BY <1>6, <1>7 DEF Has
  <2>4. "idle" \notin Cyclic /\ "tcp" \notin Cyclic
    BY Names DEF Handlers
  <2>5. ~Has(next_timeout, "idle") /\ ~Has(next_timeout, "tcp")
    BY <2>2, <2>4
  <2> QED BY <1>3, <2>1, <2>3, <2>5 DEF Drivers
<1> QED BY <1>9, <1>10, <1>11, <1>12, <1>13 DEF IInv

-----------------------------------------------------------------------------
(* A new entry, as every caller of sys_timeout_abs makes it.               *)
LEMMA Added ==
  ASSUME TimeoutsAssumption, IInv, NEW e \in Entry, e.time = (clock + e.left) % M,
         e.left >= 0, e.left + MaxGap + MaxRun <= Far, ~Has(next_timeout, e.h)
  PROVE  /\ ListOK(sys_timeout_abs(next_timeout, e), clock, gap, running = "idle")
         /\ Unique(sys_timeout_abs(next_timeout, e))
         /\ \A h : Has(sys_timeout_abs(next_timeout, e), h) <=> (Has(next_timeout, h) \/ h = e.h)
         /\ \E i \in DOMAIN sys_timeout_abs(next_timeout, e) :
               sys_timeout_abs(next_timeout, e)[i] = e
<1> DEFINE new == sys_timeout_abs(next_timeout, e)
<1>1. /\ clock \in 0 .. M - 1 /\ (running = "idle") \in BOOLEAN
      /\ GapOK(gap, running = "idle") /\ ListOK(next_timeout, clock, gap, running = "idle")
      /\ Unique(next_timeout) /\ next_timeout \in Seq(Entry)
  BY DEF IInv, TypeOK, NowOK, Drivers
<1>2. /\ ListOK(new, clock, gap, running = "idle")
      /\ \E at \in 1 .. Len(next_timeout) + 1 : new = InsertAt(next_timeout, at, e)
  <2>1. PICK idle \in BOOLEAN : idle = (running = "idle")
    OBVIOUS
  <2>2. GapOK(gap, idle) /\ ListOK(next_timeout, clock, gap, idle)
    BY <1>1, <2>1, Zenon
  <2>3. clock \in 0 .. M - 1
    BY <1>1
  <2>4. /\ ListOK(new, clock, gap, idle)
        /\ \E at \in 1 .. Len(next_timeout) + 1 : new = InsertAt(next_timeout, at, e)
    BY <2>2, <2>3, InsertKeepsList
  <2> QED BY <2>1, <2>4, Zenon
<1>3. PICK at \in 1 .. Len(next_timeout) + 1 : new = InsertAt(next_timeout, at, e)
  BY <1>2
<1> HIDE DEF new
<1>4. /\ Unique(new)
      /\ \A h : Has(new, h) <=> (Has(next_timeout, h) \/ h = e.h)
  BY <1>1, <1>3, InsertKeepsUnique
<1>5. at \in DOMAIN new /\ new[at] = e
  <2>1. next_timeout \in Seq(Entry)
    BY <1>1
  <2>2. /\ new \in Seq(Entry) /\ Len(new) = Len(next_timeout) + 1 /\ new[at] = e
    BY <1>3, <2>1, InsertAtFacts
  <2> QED BY <2>1, <2>2
<1> QED BY <1>2, <1>4, <1>5 DEF new

(* ... with a time counted from now.                                       *)
LEMMA AddedFromNow ==
  ASSUME TimeoutsAssumption, IInv, NEW h \in Handlers, NEW msecs \in Nat,
         msecs + MaxGap + MaxRun <= Far, ~Has(next_timeout, h)
  PROVE  /\ ListOK(sys_timeout(next_timeout, msecs, h), clock, gap, running = "idle")
         /\ Unique(sys_timeout(next_timeout, msecs, h))
         /\ \A k : Has(sys_timeout(next_timeout, msecs, h), k) <=>
                      (Has(next_timeout, k) \/ k = h)
         /\ \E i \in DOMAIN sys_timeout(next_timeout, msecs, h) :
               /\ sys_timeout(next_timeout, msecs, h)[i].h = h
               /\ sys_timeout(next_timeout, msecs, h)[i].left = msecs
<1>1. PICK e : e = [time |-> (clock + msecs) % M, h |-> h, left |-> msecs]
  OBVIOUS
<1>2. /\ e.time = (clock + e.left) % M /\ e.h = h /\ e.left = msecs
      /\ sys_timeout(next_timeout, msecs, h) = sys_timeout_abs(next_timeout, e)
  BY <1>1 DEF sys_timeout
<1>3. /\ M \in Nat /\ M >= 4 /\ MaxGap \in Nat /\ MaxRun \in Nat /\ Far \in Int
      /\ LWIP_MAX_TIMEOUT \in Int /\ 2 * LWIP_MAX_TIMEOUT + 2 <= M
      /\ Far + MaxRun = LWIP_MAX_TIMEOUT
  BY Sizes
<1>4. clock \in 0 .. M - 1
  BY DEF IInv, TypeOK
<1>5. clock + msecs \in Int /\ -M <= clock + msecs /\ clock + msecs < 2 * M
  BY <1>3, <1>4
<1>6. (clock + msecs) % M \in 0 .. M - 1
  BY <1>3, <1>5, Wrap
<1>7. e \in Entry
  BY <1>1, <1>6 DEF Entry
<1>8. e.left >= 0 /\ e.left + MaxGap + MaxRun <= Far /\ ~Has(next_timeout, e.h)
  BY <1>2
<1>9. /\ ListOK(sys_timeout_abs(next_timeout, e), clock, gap, running = "idle")
      /\ Unique(sys_timeout_abs(next_timeout, e))
      /\ \A k : Has(sys_timeout_abs(next_timeout, e), k) <=> (Has(next_timeout, k) \/ k = e.h)
      /\ \E i \in DOMAIN sys_timeout_abs(next_timeout, e) :
            sys_timeout_abs(next_timeout, e)[i] = e
  <2>1. e.time = (clock + e.left) % M
    BY <1>2
  <2> QED BY <1>7, <1>8, <2>1, Added
<1> QED BY <1>2, <1>9

-----------------------------------------------------------------------------
(* Every step keeps the invariant: one lemma per action.                   *)

LEMMA PassesIInv ==
  ASSUME TimeoutsAssumption, IInv, Passes
  PROVE  IInv'
<1>1. /\ M \in Nat /\ M >= 4 /\ MaxGap \in Nat /\ MaxRun \in Nat /\ Far \in Int
      /\ LWIP_MAX_TIMEOUT \in Int /\ 2 * LWIP_MAX_TIMEOUT + 2 <= M
      /\ Far + MaxRun = LWIP_MAX_TIMEOUT /\ MaxGap + MaxRun <= Far
  BY Sizes
<1>2. /\ clock' = (clock + 1) % M /\ gap' = gap + 1
      /\ next_timeout' = [i \in DOMAIN next_timeout |->
                             [next_timeout[i] EXCEPT !.left = @ - 1]]
      /\ UNCHANGED <<current_timeout_due_time, tcpip_tcp_timer_active, pcbs, running, now>>
  BY DEF Passes
<1>3. /\ clock \in 0 .. M - 1 /\ gap \in Nat
      /\ GapOK(gap, running = "idle") /\ ListOK(next_timeout, clock, gap, running = "idle")
      /\ next_timeout \in Seq(Entry)
  BY DEF IInv, TypeOK, NowOK, GapOK
<1>4. (running # "idle" => now = (clock - gap) % M)
  BY DEF IInv, NowOK
<1>5. gap <= MaxGap + MaxRun /\ (running # "idle" => gap <= MaxRun)
  BY <1>1, <1>3 DEF GapOK
<1>6. clock' \in 0 .. M - 1
  <2>1. clock + 1 \in Int /\ -M <= clock + 1 /\ clock + 1 < 2 * M
    BY <1>1, <1>3
  <2> QED BY <1>1, <1>2, <2>1, Wrap
<1>7. ListOK(next_timeout', clock', gap', running' = "idle")
  <2>1. PICK idle \in BOOLEAN : idle = (running = "idle")
    OBVIOUS
  <2>2. GapOK(gap, idle) /\ ListOK(next_timeout, clock, gap, idle)
    BY <1>3, <2>1, Zenon
  <2>3. clock \in 0 .. M - 1
    BY <1>3
  <2>4. ListOK([i \in DOMAIN next_timeout |-> [next_timeout[i] EXCEPT !.left = @ - 1]],
               (clock + 1) % M, gap + 1, idle)
    BY <2>2, <2>3, AgeKeepsList
  <2>5. running' = running
    BY <1>2
  <2> QED BY <1>2, <2>1, <2>4, <2>5, Zenon
<1>0. gap \in Nat /\ gap' = gap + 1 /\ MaxGap \in Nat /\ MaxRun \in Nat /\ running' = running
  BY <1>1, <1>2, <1>3
<1>8. running # "idle" => gap < MaxRun
  <2> SUFFICES ASSUME running # "idle" PROVE gap < MaxRun
    OBVIOUS
  <2>1. (clock - now) % M < MaxRun
    BY DEF Passes
  <2>2. /\ M \in Nat /\ M >= 4 /\ clock \in Int /\ 0 <= clock /\ clock < M
        /\ gap \in Int /\ 0 <= gap /\ gap < M
    BY <1>1, <1>3, <1>5
  <2>3. (clock - ((clock - gap) % M)) % M = gap
    BY <2>2, Until
  <2> QED BY <1>4, <2>1, <2>3
<1>9. running = "idle" => gap < MaxGap
  BY DEF Passes
<1>10. NowOK'
  <2>1. GapOK(gap', running' = "idle")
    <3>1. gap' \in Nat /\ (running' = "idle" => gap' <= MaxGap) /\ (running' # "idle" => gap' <= MaxRun)
      BY <1>0, <1>8, <1>9
    <3> QED BY <1>1, <3>1 DEF GapOK
  <2>2. ASSUME running # "idle" PROVE now = (clock' - gap') % M
    <3>1. /\ M \in Nat /\ M >= 4 /\ clock \in Int /\ 0 <= clock /\ clock < M
      BY <1>1, <1>3
    <3>2. PICK l \in Int : l = -gap /\ -M < l /\ l <= M
      BY <1>1, <1>3, <1>5
    <3>3. (clock + l) % M = (((clock + 1) % M) + (l - 1)) % M
      BY <3>1, <3>2, Later
    <3>4. clock + l = clock - gap
      BY <3>1, <3>2, <1>3
    <3>5. clock' + (l - 1) = clock' - gap'
      <4>1. clock' \in Int
        BY <1>1, <1>6
      <4> QED BY <1>0, <3>2, <4>1
    <3> QED BY <1>2, <1>4, <2>2, <3>3, <3>4, <3>5
  <2> QED BY <1>2, <2>1, <2>2 DEF NowOK
<1>11. DueOK'
  <2> SUFFICES ASSUME running \in Handlers
               PROVE  \E c \in Int : /\ -(gap' + MaxGap + MaxRun) <= c /\ c <= -gap'
                                     /\ current_timeout_due_time = (clock' + c) % M
    BY <1>2 DEF DueOK, Handlers
  <2>1. PICK c \in Int : /\ -(gap + MaxGap + MaxRun) <= c /\ c <= -gap
                         /\ current_timeout_due_time = (clock + c) % M
    BY DEF IInv, DueOK
  <2>2. gap <= MaxRun
    BY <1>5, Names
  <2>3. /\ M \in Nat /\ M >= 4 /\ clock \in Int /\ 0 <= clock /\ clock < M
        /\ -M < c /\ c <= M
    BY <1>1, <1>3, <2>1, <2>2
  <2>4. (clock + c) % M = (((clock + 1) % M) + (c - 1)) % M
    BY <2>3, Later
  <2>5. PICK d \in Int : d = c - 1 /\ -(gap' + MaxGap + MaxRun) <= d /\ d <= -gap'
    <3>1. -(gap + MaxGap + MaxRun) <= c /\ c <= -gap
      BY <2>1
    <3> QED BY <1>0, <3>1
  <2>6. current_timeout_due_time = (clock' + d) % M
    BY <1>2, <2>1, <2>4, <2>5
  <2> QED BY <2>5, <2>6
<1>12. Drivers'
  <2>1. /\ DOMAIN next_timeout' = DOMAIN next_timeout
        /\ \A i \in DOMAIN next_timeout : next_timeout'[i].h = next_timeout[i].h
    <3>1. \A i \in DOMAIN next_timeout : next_timeout[i] \in Entry
      BY <1>3
    <3> QED BY <1>2, <3>1 DEF Entry
  <2>2. /\ Unique(next_timeout) => Unique(next_timeout')
        /\ \A h : Has(next_timeout', h) <=> Has(next_timeout, h)
    BY <2>1, SameHandlers
  <2> QED BY <1>2, <2>2 DEF IInv, Drivers
<1>13. TypeOK'
  <2>1. gap' \in 0 .. MaxGap + MaxRun
    <3>1. gap + 1 <= MaxGap + MaxRun
      BY <1>0, <1>8, <1>9
    <3> QED BY <1>0, <3>1
  <2>2. next_timeout' \in Seq(Entry)
    BY <1>7 DEF ListOK
  <2> QED BY <1>2, <1>6, <2>1, <2>2 DEF IInv, TypeOK, Handlers
<1> QED BY <1>7, <1>10, <1>11, <1>12, <1>13 DEF IInv

(* A handler, a segment or another part of lwIP changes the list while     *)
(* the clock stands still: what remains to be shown.                       *)
LEMMA ListChange ==
  ASSUME TimeoutsAssumption, IInv,
         UNCHANGED <<clock, current_timeout_due_time, now, gap>>,
         running' \in Handlers \cup {"check", "idle"},
         {tcpip_tcp_timer_active', pcbs'} \subseteq BOOLEAN,
         running' = running \/ (running # "idle" /\ running' = "check"),
         ListOK(next_timeout', clock, gap, running = "idle"), Drivers'
  PROVE  IInv'
<1>1. TypeOK'
  <2>1. next_timeout' \in Seq(Entry)
    BY DEF ListOK
  <2> QED BY <2>1 DEF IInv, TypeOK, Handlers
<1>2. (running' = "idle") = (running = "idle")
  OBVIOUS
<1>3. ListOK(next_timeout', clock', gap', running' = "idle")
  BY <1>2, Zenon
<1>4. NowOK'
  <2>1. GapOK(gap, running = "idle") /\ (running # "idle" => now = (clock - gap) % M)
    BY DEF IInv, NowOK
  <2>2. GapOK(gap', running' = "idle")
    BY <1>2, <2>1, Zenon
  <2>3. running' # "idle" => now' = (clock' - gap') % M
    BY <1>2, <2>1, Zenon
  <2> QED BY <2>2, <2>3 DEF NowOK
<1>5. DueOK'
  BY Names DEF IInv, DueOK, Handlers
<1> QED BY <1>1, <1>3, <1>4, <1>5 DEF IInv

LEMMA NewConnectionIInv ==
  ASSUME TimeoutsAssumption, IInv, NewConnection
  PROVE  IInv'
<1>1. /\ ~pcbs /\ pcbs' = TRUE /\ tcpip_tcp_timer_active' = TRUE
      /\ next_timeout' = tcp_timer_needed(next_timeout)
      /\ UNCHANGED <<clock, current_timeout_due_time, running, now, gap>>
  BY DEF NewConnection
<1>2. /\ ListOK(next_timeout, clock, gap, running = "idle") /\ Drivers
      /\ running \in Handlers \cup {"check", "idle"} /\ tcpip_tcp_timer_active \in BOOLEAN
  BY DEF IInv, TypeOK
<1>3. CASE tcpip_tcp_timer_active
  <2>1. next_timeout' = next_timeout
    BY <1>1, <1>3 DEF tcp_timer_needed
  <2>2. Drivers'
    BY <1>1, <1>2, <1>3, <2>1 DEF Drivers
  <2> QED BY <1>1, <1>2, <2>1, <2>2, ListChange
<1>4. CASE ~tcpip_tcp_timer_active
  <2>1. next_timeout' = sys_timeout(next_timeout, Interval["tcp"], "tcp")
    BY <1>1, <1>4 DEF tcp_timer_needed
  <2>2. ~Has(next_timeout, "tcp") /\ running # "tcp"
    BY <1>2, <1>4 DEF Drivers
  <2>3. "tcp" \in Handlers /\ "tcp" \in Cyclic \cup {"tcp"}
    BY DEF Handlers
  <2>4. Interval["tcp"] \in Nat /\ Interval["tcp"] + MaxGap + MaxRun <= Far
    BY <2>3, Sizes
  <2>5. /\ ListOK(next_timeout', clock, gap, running = "idle") /\ Unique(next_timeout')
        /\ \A k : Has(next_timeout', k) <=> (Has(next_timeout, k) \/ k = "tcp")
    BY <2>1, <2>2, <2>3, <2>4, AddedFromNow
  <2>6. Drivers'
    BY <1>1, <1>2, <2>2, <2>5 DEF Drivers
  <2> QED BY <1>1, <1>2, <2>5, <2>6, ListChange
<1> QED BY <1>2, <1>3, <1>4

LEMMA LastConnectionEndsIInv ==
  ASSUME TimeoutsAssumption, IInv, LastConnectionEnds
  PROVE  IInv'
<1>1. /\ pcbs' = FALSE
      /\ UNCHANGED <<clock, next_timeout, current_timeout_due_time, tcpip_tcp_timer_active,
                     running, now, gap>>
  BY DEF LastConnectionEnds
<1>2. /\ ListOK(next_timeout, clock, gap, running = "idle") /\ Drivers
      /\ running \in Handlers \cup {"check", "idle"} /\ tcpip_tcp_timer_active \in BOOLEAN
  BY DEF IInv, TypeOK
<1>3. Drivers'
  BY <1>1, <1>2 DEF Drivers
<1> QED BY <1>1, <1>2, <1>3, ListChange

LEMMA SetIInv ==
  ASSUME TimeoutsAssumption, IInv, NEW h \in User, NEW msecs \in Msecs, Set(h, msecs)
  PROVE  IInv'
<1>1. /\ \A i \in DOMAIN next_timeout : next_timeout[i].h # h
      /\ next_timeout' = sys_timeout(next_timeout, msecs, h)
      /\ UNCHANGED <<clock, current_timeout_due_time, tcpip_tcp_timer_active, pcbs, running,
                     now, gap>>
  BY DEF Set
<1>2. /\ Drivers /\ running \in Handlers \cup {"check", "idle"}
      /\ tcpip_tcp_timer_active \in BOOLEAN /\ pcbs \in BOOLEAN
  BY DEF IInv, TypeOK
<1>3. ~Has(next_timeout, h) /\ h \in Handlers
  BY <1>1 DEF Has, Handlers
<1>4. msecs \in Nat /\ msecs + MaxGap + MaxRun <= Far
  BY Sizes
<1>5. /\ ListOK(next_timeout', clock, gap, running = "idle") /\ Unique(next_timeout')
      /\ \A k : Has(next_timeout', k) <=> (Has(next_timeout, k) \/ k = h)
  BY <1>1, <1>3, <1>4, AddedFromNow
<1>6. Drivers'
  <2>1. h # "tcp"
    BY Names
  <2> QED BY <1>1, <1>2, <1>5, <2>1 DEF Drivers
<1> QED BY <1>1, <1>2, <1>5, <1>6, ListChange

(* Taking out one entry.                                                   *)
LEMMA Removed ==
  ASSUME NEW clk, NEW g, NEW idle, NEW list \in Seq(Entry), ListOK(list, clk, g, idle),
         Unique(list), NEW at \in DOMAIN list
  PROVE  /\ ListOK(RemoveAt(list, at), clk, g, idle)
         /\ Unique(RemoveAt(list, at))
         /\ \A h : Has(RemoveAt(list, at), h) <=> (Has(list, h) /\ h # list[at].h)
<1> DEFINE new == RemoveAt(list, at)
           f == [k \in 1 .. Len(list) - 1 |-> IF k < at THEN k ELSE k + 1]
<1>1. at \in 1 .. Len(list) /\ Len(list) \in Nat /\ DOMAIN list = 1 .. Len(list)
  OBVIOUS
<1>2. /\ new \in Seq(Entry) /\ Len(new) = Len(list) - 1
      /\ \A k \in 1 .. at - 1 : new[k] = list[k]
      /\ \A k \in at .. Len(list) - 1 : new[k] = list[k + 1]
  BY <1>1, RemoveAtFacts
<1> HIDE DEF new
<1>3. DOMAIN new = 1 .. Len(list) - 1
  BY <1>1, <1>2
<1>4. f \in [DOMAIN new -> DOMAIN list]
  BY <1>1, <1>3
<1>5. \A k \in DOMAIN new : new[k] = list[f[k]] /\ f[k] # at
  <2> SUFFICES ASSUME NEW k \in 1 .. Len(list) - 1 PROVE new[k] = list[f[k]] /\ f[k] # at
    BY <1>3
  <2>1. CASE k < at
    <3>1. k \in 1 .. at - 1 /\ f[k] = k
      BY <1>1, <2>1
    <3> QED BY <1>1, <1>2, <2>1, <3>1
  <2>2. CASE k >= at
    <3>1. k \in at .. Len(list) - 1 /\ f[k] = k + 1
      BY <1>1, <2>2
    <3> QED BY <1>1, <1>2, <2>2, <3>1
  <2> QED BY <1>1, <2>1, <2>2
<1>6. \A i, j \in DOMAIN new : (i < j => f[i] < f[j]) /\ (f[i] = f[j] => i = j)
  BY <1>1, <1>3
<1>7. \A i \in DOMAIN list : i # at => \E k \in DOMAIN new : f[k] = i
  <2> SUFFICES ASSUME NEW i \in DOMAIN list, i # at PROVE \E k \in DOMAIN new : f[k] = i
    OBVIOUS
  <2>1. CASE i < at
    <3>1. i \in DOMAIN new /\ f[i] = i
      BY <1>1, <1>3, <2>1
    <3> QED BY <3>1
  <2>2. CASE i > at
    <3>1. i - 1 \in DOMAIN new /\ f[i - 1] = i
      BY <1>1, <1>3, <2>2
    <3> QED BY <3>1
  <2>3. i < at \/ i > at
    BY <1>1
  <2> HIDE DEF f
  <2> QED BY <2>1, <2>2, <2>3
<1> HIDE DEF f
<1>8. new \in Seq(Entry)
  BY <1>2
<1>9. ListOK(new, clk, g, idle)
  <2>1. \A k \in DOMAIN new : new[k] = list[f[k]]
    BY <1>5
  <2>2. \A i, j \in DOMAIN new : i < j => f[i] < f[j]
    BY <1>6
  <2> QED BY <1>4, <1>8, <2>1, <2>2, PartKeepsList, Zenon
<1>10. Unique(new) /\ \A h : Has(new, h) <=> (Has(list, h) /\ h # list[at].h)
  <2>1. \A i, j \in DOMAIN new : f[i] = f[j] => i = j
    BY <1>6
  <2>2. \A k \in DOMAIN new : f[k] \in DOMAIN list
    BY <1>4
  <2>3. Unique(new)
    BY <1>5, <2>1, <2>2 DEF Unique
  <2>4. ASSUME NEW h, Has(new, h) PROVE Has(list, h) /\ h # list[at].h
    BY <1>5, <2>2, <2>4 DEF Has, Unique
  <2>5. ASSUME NEW h, Has(list, h), h # list[at].h PROVE Has(new, h)
    <3>1. PICK i \in DOMAIN list : list[i].h = h
      BY <2>5 DEF Has
    <3>2. PICK k \in DOMAIN new : f[k] = i
      BY <1>7, <2>5, <3>1
    <3> QED BY <1>5, <3>1, <3>2 DEF Has
  <2> QED BY <2>3, <2>4, <2>5
<1> QED BY <1>9, <1>10 DEF new

LEMMA UntimeoutIInv ==
  ASSUME TimeoutsAssumption, IInv, NEW h \in User, sys_untimeout(h)
  PROVE  IInv'
<1>1. PICK found : found = {i \in DOMAIN next_timeout : next_timeout[i].h = h}
  OBVIOUS
<1>2. /\ found # {} /\ next_timeout' = RemoveAt(next_timeout, Min(found))
      /\ UNCHANGED <<clock, current_timeout_due_time, tcpip_tcp_timer_active, pcbs, running,
                     now, gap>>
  BY <1>1 DEF sys_untimeout
<1>3. /\ Drivers /\ running \in Handlers \cup {"check", "idle"}
      /\ tcpip_tcp_timer_active \in BOOLEAN /\ pcbs \in BOOLEAN
      /\ next_timeout \in Seq(Entry) /\ Unique(next_timeout)
      /\ ListOK(next_timeout, clock, gap, running = "idle")
  BY DEF IInv, TypeOK, Drivers
<1>4. PICK at \in DOMAIN next_timeout : at = Min(found) /\ next_timeout[at].h = h
  <2>1. found \subseteq Nat
    <3>1. DOMAIN next_timeout \subseteq Nat
      BY <1>3
    <3> QED BY <1>1, <3>1
  <2>2. Min(found) \in found
    BY <1>2, <2>1, MinIsLeast
  <2> QED BY <1>1, <2>2
<1>5. /\ ListOK(next_timeout', clock, gap, running = "idle") /\ Unique(next_timeout')
      /\ \A k : Has(next_timeout', k) <=> (Has(next_timeout, k) /\ k # h)
  <2>1. PICK idle \in BOOLEAN : idle = (running = "idle")
    OBVIOUS
  <2>2. ListOK(next_timeout, clock, gap, idle)
    BY <1>3, <2>1, Zenon
  <2>3. next_timeout \in Seq(Entry) /\ Unique(next_timeout)
    BY <1>3
  <2>4. /\ ListOK(RemoveAt(next_timeout, at), clock, gap, idle)
        /\ Unique(RemoveAt(next_timeout, at))
        /\ \A k : Has(RemoveAt(next_timeout, at), k) <=>
                    (Has(next_timeout, k) /\ k # next_timeout[at].h)
    BY <2>2, <2>3, Removed
  <2> QED BY <1>2, <1>4, <2>1, <2>4, Zenon
<1>6. Drivers'
  <2>1. h # "tcp" /\ h \notin Cyclic
    BY Names
  <2> QED BY <1>2, <1>3, <1>5, <2>1 DEF Drivers
<1> QED BY <1>2, <1>3, <1>5, <1>6, ListChange

(* A call of sys_check_timeouts begins: how late an entry may be is now    *)
(* counted from here ...                                                   *)
LEMMA CheckBegins ==
  ASSUME TimeoutsAssumption, NEW clk, NEW g, GapOK(g, TRUE), NEW list,
         ListOK(list, clk, g, TRUE)
  PROVE  ListOK(list, clk, 0, FALSE)
<1>1. MaxGap \in Nat /\ MaxRun \in Nat /\ g \in Nat /\ g <= MaxGap + MaxRun
  BY Sizes DEF GapOK
<1>2. list \in Seq(Entry)
  BY DEF ListOK
<1>3. \A i \in DOMAIN list : list[i].left \in Int
  <2>1. \A i \in DOMAIN list : list[i] \in Entry
    BY <1>2
  <2> QED BY <2>1 DEF Entry
<1>4. \A i \in DOMAIN list : list[i].left >= -(0 + MaxGap + MaxRun)
  <2> SUFFICES ASSUME NEW i \in DOMAIN list PROVE list[i].left >= -(0 + MaxGap + MaxRun)
    OBVIOUS
  <2>1. list[i].left >= -g
    BY DEF ListOK
  <2> QED BY <1>1, <1>3, <2>1
<1> QED BY <1>4 DEF ListOK

(* ... and when it ends nothing that was due when it began is left.        *)
LEMMA CheckEnded ==
  ASSUME TimeoutsAssumption, NEW clk, NEW g, GapOK(g, FALSE), NEW list,
         ListOK(list, clk, g, FALSE), \A i \in DOMAIN list : list[i].left > -g
  PROVE  ListOK(list, clk, g, TRUE)
<1>1. g \in Nat
  BY DEF GapOK
<1>2. list \in Seq(Entry)
  BY DEF ListOK
<1>3. \A i \in DOMAIN list : list[i].left \in Int
  <2>1. \A i \in DOMAIN list : list[i] \in Entry
    BY <1>2
  <2> QED BY <2>1 DEF Entry
<1>4. \A i \in DOMAIN list : list[i].left >= -g
  BY <1>1, <1>3
<1> QED BY <1>4 DEF ListOK

(* What the loop of sys_check_timeouts finds out about an entry.           *)
LEMMA DueCompared ==
  ASSUME TimeoutsAssumption, IInv, running = "check", NEW i \in DOMAIN next_timeout
  PROVE  /\ TIME_LESS_THAN(now, next_timeout[i].time) <=> next_timeout[i].left > -gap
         /\ next_timeout[i].left \in Int /\ gap \in Nat
<1>1. /\ MaxGap \in Nat /\ MaxRun \in Nat /\ Far \in Int /\ LWIP_MAX_TIMEOUT \in Int
      /\ Far + MaxRun = LWIP_MAX_TIMEOUT /\ MaxGap + MaxRun <= Far
  BY Sizes
<1>2. gap \in Nat /\ gap <= MaxRun
  BY DEF IInv, NowOK, GapOK
<1>3. now = (clock - gap) % M /\ clock \in 0 .. M - 1 /\ M \in Nat
  BY Sizes DEF IInv, NowOK, TypeOK
<1>4. PICK l \in Int : l = next_timeout[i].left
  BY Fields DEF IInv
<1>5. /\ next_timeout[i].time = (clock + l) % M
      /\ l >= -(gap + MaxGap + MaxRun) /\ l <= Far
  BY <1>4 DEF IInv, ListOK
<1>6. PICK a \in Int : a = -gap /\ clock + a = clock - gap
  BY <1>2, <1>3
<1>7. /\ -LWIP_MAX_TIMEOUT <= a /\ a <= LWIP_MAX_TIMEOUT
      /\ -LWIP_MAX_TIMEOUT <= l /\ l <= LWIP_MAX_TIMEOUT
      /\ -LWIP_MAX_TIMEOUT <= a - l /\ a - l <= LWIP_MAX_TIMEOUT
  <2>1. l >= -(gap + MaxGap + MaxRun) /\ l <= Far
    BY <1>5
  <2> QED BY <1>1, <1>2, <1>6, <2>1
<1>8. clock \in 0 .. M - 1
  BY <1>3
<1>9. TIME_LESS_THAN((clock + a) % M, (clock + l) % M) <=> a < l
  BY <1>7, <1>8, Compare
<1> QED BY <1>2, <1>3, <1>4, <1>5, <1>6, <1>9

LEMMA CheckIInv ==
  ASSUME TimeoutsAssumption, IInv, sys_check_timeouts
  PROVE  IInv'
<1>1. /\ running = "idle" /\ running' = "check" /\ now' = clock /\ gap' = 0
      /\ UNCHANGED <<clock, next_timeout, current_timeout_due_time, tcpip_tcp_timer_active, pcbs>>
  BY DEF sys_check_timeouts
<1>2. /\ ListOK(next_timeout, clock, gap, TRUE) /\ GapOK(gap, TRUE)
  BY <1>1 DEF IInv, NowOK
<1>3. ListOK(next_timeout, clock, 0, FALSE)
  BY <1>2, CheckBegins
<1>4. ListOK(next_timeout', clock', gap', running' = "idle")
  BY <1>1, <1>3
<1>5. M \in Nat /\ M >= 4 /\ MaxGap \in Nat /\ MaxRun \in Nat /\ clock \in 0 .. M - 1
  BY Sizes DEF IInv, TypeOK
<1>6. NowOK'
  <2>1. GapOK(gap', running' = "idle")
    BY <1>1, <1>5 DEF GapOK
  <2>2. (clock - 0) % M = clock
    BY <1>5
  <2> QED BY <1>1, <2>1, <2>2 DEF NowOK
<1>7. TypeOK'
  <2>1. 0 \in 0 .. MaxGap + MaxRun
    BY <1>5
  <2> QED BY <1>1, <2>1 DEF IInv, TypeOK, Handlers
<1>8. DueOK'
  BY <1>1, Names DEF DueOK, Handlers
<1>9. Drivers'
  <2>1. ~Has(next_timeout, "check")
    <3>1. \A i \in DOMAIN next_timeout : next_timeout[i].h \in Handlers
      BY Fields DEF IInv
    <3> QED BY <3>1, Names DEF Has
  <2>2. "idle" \notin Cyclic
    BY Names DEF Handlers
  <2> QED BY <1>1, <2>1, <2>2 DEF IInv, Drivers
<1> QED BY <1>4, <1>6, <1>7, <1>8, <1>9 DEF IInv

LEMMA CheckEndsIInv ==
  ASSUME TimeoutsAssumption, IInv, CheckEnds
  PROVE  IInv' /\ \A i \in DOMAIN next_timeout : next_timeout[i].left > -gap
<1>1. /\ running = "check" /\ running' = "idle"
      /\ next_timeout = <<>> \/ TIME_LESS_THAN(now, Head(next_timeout).time)
      /\ UNCHANGED <<clock, next_timeout, current_timeout_due_time, tcpip_tcp_timer_active,
                     pcbs, now, gap>>
  BY DEF CheckEnds
<1>2. ListOK(next_timeout, clock, gap, FALSE) /\ GapOK(gap, FALSE) /\ next_timeout \in Seq(Entry)
  BY <1>1 DEF IInv, NowOK, TypeOK
<1>3. ASSUME NEW i \in DOMAIN next_timeout PROVE next_timeout[i].left > -gap
  <2>1. next_timeout # <<>> /\ 1 \in DOMAIN next_timeout /\ Head(next_timeout) = next_timeout[1]
    BY <1>2
  <2>2. TIME_LESS_THAN(now, next_timeout[1].time)
    BY <1>1, <2>1
  <2>3. next_timeout[1].left > -gap /\ next_timeout[1].left \in Int /\ gap \in Nat
    BY <1>1, <2>1, <2>2, DueCompared
  <2>4. next_timeout[i].left \in Int
    BY <1>1, DueCompared
  <2>5. i = 1 \/ 1 < i
    BY <1>2
  <2>6. next_timeout[1].left <= next_timeout[i].left
    BY <2>1, <2>3, <2>5, <1>2 DEF ListOK
  <2> QED BY <2>3, <2>4, <2>6
<1>4. ListOK(next_timeout, clock, gap, TRUE)
  BY <1>2, <1>3, CheckEnded
<1>5. ListOK(next_timeout', clock', gap', running' = "idle")
  BY <1>1, <1>4
<1>6. NowOK'
  <2>1. gap \in Nat /\ gap <= MaxRun /\ MaxGap \in Nat /\ MaxRun \in Nat
    BY <1>2, Sizes DEF GapOK
  <2>2. GapOK(gap, TRUE)
    BY <2>1 DEF GapOK
  <2> QED BY <1>1, <2>2 DEF NowOK
<1>7. TypeOK'
  BY <1>1 DEF IInv, TypeOK, Handlers
<1>8. DueOK'
  BY <1>1, Names DEF DueOK, Handlers
<1>9. Drivers'
  <2>1. ~Has(next_timeout, "idle")
    <3>1. \A i \in DOMAIN next_timeout : next_timeout[i].h \in Handlers
      BY Fields DEF IInv
    <3> QED BY <3>1, Names DEF Has
  <2>2. "check" \notin Cyclic
    BY Names DEF Handlers
  <2> QED BY <1>1, <2>1, <2>2 DEF IInv, Drivers
<1> QED BY <1>3, <1>5, <1>6, <1>7, <1>8, <1>9 DEF IInv

LEMMA TakeIInv ==
  ASSUME TimeoutsAssumption, IInv, Take
  PROVE  IInv' /\ Head(next_timeout).left <= 0
<1>1. /\ running = "check" /\ next_timeout # <<>>
      /\ ~TIME_LESS_THAN(now, Head(next_timeout).time)
      /\ running' = Head(next_timeout).h
      /\ current_timeout_due_time' = Head(next_timeout).time
      /\ next_timeout' = Tail(next_timeout)
      /\ UNCHANGED <<clock, tcpip_tcp_timer_active, pcbs, now, gap>>
  BY DEF Take
<1>2. /\ ListOK(next_timeout, clock, gap, FALSE) /\ next_timeout \in Seq(Entry)
      /\ Unique(next_timeout) /\ GapOK(gap, FALSE)
  BY <1>1 DEF IInv, TypeOK, Drivers, NowOK
<1>3. 1 \in DOMAIN next_timeout /\ Head(next_timeout) = next_timeout[1]
  BY <1>1, <1>2
<1>4. Tail(next_timeout) = RemoveAt(next_timeout, 1)
  <2>1. /\ RemoveAt(next_timeout, 1) \in Seq(Entry)
        /\ Len(RemoveAt(next_timeout, 1)) = Len(next_timeout) - 1
        /\ \A k \in 1 .. Len(next_timeout) - 1 :
              RemoveAt(next_timeout, 1)[k] = next_timeout[k + 1]
    <3>1. next_timeout \in Seq(Entry) /\ 1 \in 1 .. Len(next_timeout)
      BY <1>2, <1>3
    <3> QED BY <3>1, RemoveAtFacts
  <2>2. next_timeout \in Seq(Entry) /\ next_timeout # <<>>
    BY <1>1, <1>2
  <2> QED BY <2>1, <2>2
<1>5. /\ ListOK(Tail(next_timeout), clock, gap, FALSE) /\ Unique(Tail(next_timeout))
      /\ \A k : Has(Tail(next_timeout), k) <=> (Has(next_timeout, k) /\ k # next_timeout[1].h)
  <2>1. /\ next_timeout \in Seq(Entry) /\ ListOK(next_timeout, clock, gap, FALSE)
        /\ Unique(next_timeout) /\ 1 \in DOMAIN next_timeout
    BY <1>2, <1>3
  <2>2. /\ ListOK(RemoveAt(next_timeout, 1), clock, gap, FALSE)
        /\ Unique(RemoveAt(next_timeout, 1))
        /\ \A k : Has(RemoveAt(next_timeout, 1), k) <=>
                    (Has(next_timeout, k) /\ k # next_timeout[1].h)
    BY <2>1, Removed
  <2> QED BY <1>4, <2>2
<1>6. PICK l \in Int : /\ l = next_timeout[1].left /\ l <= -gap /\ gap \in Nat
                       /\ next_timeout[1].time = (clock + l) % M
                       /\ l >= -(gap + MaxGap + MaxRun)
  <2>1. /\ next_timeout[1].left \in Int /\ gap \in Nat
        /\ ~(next_timeout[1].left > -gap)
    BY <1>1, <1>3, DueCompared
  <2>2. /\ next_timeout[1].time = (clock + next_timeout[1].left) % M
        /\ next_timeout[1].left >= -(gap + MaxGap + MaxRun)
    BY <1>2, <1>3 DEF ListOK
  <2>3. next_timeout[1].left <= -gap
    BY <2>1
  <2> QED BY <2>1, <2>2, <2>3
<1>7. PICK h \in Handlers : h = next_timeout[1].h /\ running' = h
  <2>1. next_timeout[1] \in Entry
    BY <1>2, <1>3
  <2>2. next_timeout[1].h \in Handlers
    BY <2>1 DEF Entry
  <2> QED BY <1>1, <1>3, <2>2
<1>8. running' # "idle" /\ running' # "check"
  BY <1>7, Names
<1>9. ListOK(next_timeout', clock', gap', running' = "idle")
  BY <1>1, <1>5, <1>8
<1>10. NowOK'
  BY <1>1, <1>8 DEF IInv, NowOK
<1>11. DueOK'
  <2>1. current_timeout_due_time' = (clock' + l) % M /\ gap' = gap
    BY <1>1, <1>3, <1>6
  <2> QED BY <1>6, <2>1 DEF DueOK
<1>12. TypeOK'
  <2>1. next_timeout' \in Seq(Entry)
    BY <1>1, <1>5 DEF ListOK
  <2>2. current_timeout_due_time' \in 0 .. M - 1
    <3>1. next_timeout[1] \in Entry
      BY <1>2, <1>3
    <3>2. next_timeout[1].time \in 0 .. M - 1
      BY <3>1 DEF Entry
    <3> QED BY <1>1, <1>3, <3>2
  <2> QED BY <1>1, <1>7, <2>1, <2>2 DEF IInv, TypeOK, Handlers
<1>13. Drivers'
  <2>1. /\ \A k : Has(next_timeout', k) <=> (Has(next_timeout, k) /\ k # h)
        /\ Unique(next_timeout') /\ running' = h
    BY <1>1, <1>5, <1>7
  <2>2. Has(next_timeout, h)
    BY <1>3, <1>7 DEF Has
  <2>3. "check" \notin Cyclic
    BY Names DEF Handlers
  <2> QED BY <1>1, <2>1, <2>2, <2>3 DEF IInv, Drivers
<1>14. Head(next_timeout).left <= 0
  BY <1>3, <1>6
<1> QED BY <1>9, <1>10, <1>11, <1>12, <1>13, <1>14 DEF IInv


(* What lwip_cyclic_timer computes from the due time of the handler that   *)
(* runs: the next due time d from now, or that it is past.                 *)
LEMMA NextDue ==
  ASSUME TimeoutsAssumption, IInv, NEW h \in Cyclic, running = h
  PROVE  \E due \in 0 .. M - 1, d \in Int :
            /\ due = (current_timeout_due_time + Interval[h]) % M
            /\ due = (clock + d) % M /\ d <= Interval[h]
            /\ TIME_LESS_THAN(due, clock) <=> d < 0
            /\ d >= 0 => (due - clock) % M = d
<1>1. /\ M \in Nat /\ M >= 4 /\ MaxGap \in Nat /\ MaxRun \in Nat /\ Far \in Int
      /\ LWIP_MAX_TIMEOUT \in Int /\ 2 * LWIP_MAX_TIMEOUT + 2 <= M
      /\ Far + MaxRun = LWIP_MAX_TIMEOUT /\ MaxGap + MaxRun <= Far
  BY Sizes
<1>2. PICK n \in Nat : n = Interval[h] /\ n + MaxGap + MaxRun <= Far
  BY Sizes
<1>3. running \in Handlers /\ running # "idle"
  BY Names DEF Handlers
<1>4. gap \in Nat /\ gap <= MaxRun
  BY <1>3 DEF IInv, NowOK, GapOK
<1>5. PICK c \in Int : /\ -(gap + MaxGap + MaxRun) <= c /\ c <= -gap
                       /\ current_timeout_due_time = (clock + c) % M
  BY <1>3 DEF IInv, DueOK
<1>6. clock \in 0 .. M - 1
  BY DEF IInv, TypeOK
<1>7. -(gap + MaxGap + MaxRun) <= c /\ c <= -gap
  BY <1>5
<1>8. PICK d \in Int : d = c + n /\ d <= n /\ d >= -LWIP_MAX_TIMEOUT /\ d <= LWIP_MAX_TIMEOUT
  BY <1>1, <1>2, <1>4, <1>7
<1>9. /\ clock \in Int /\ 0 <= clock /\ clock < M /\ -M <= c /\ c <= 0 /\ 0 <= n /\ n < M
  BY <1>1, <1>2, <1>4, <1>6, <1>7
<1>10. (((clock + c) % M) + n) % M = (clock + (c + n)) % M
  <2>1. /\ M \in Nat /\ M >= 4 /\ n \in Int
    BY <1>1
  <2> QED BY <1>9, <2>1, AfterNow
<1>11. PICK due : /\ due = (current_timeout_due_time + Interval[h]) % M
                  /\ due = (clock + d) % M
  BY <1>2, <1>5, <1>8, <1>10
<1>12. due \in 0 .. M - 1
  <2>1. clock + d \in Int /\ -M <= clock + d /\ clock + d < 2 * M
    BY <1>1, <1>6, <1>8
  <2> QED BY <1>1, <1>11, <2>1, Wrap
<1>13. TIME_LESS_THAN(due, clock) <=> d < 0
  <2>1. -LWIP_MAX_TIMEOUT <= 0 /\ 0 <= LWIP_MAX_TIMEOUT /\ d - 0 = d
    BY <1>1, <1>8
  <2>2. TIME_LESS_THAN((clock + d) % M, (clock + 0) % M) <=> d < 0
    BY <1>6, <1>8, <2>1, Compare
  <2>3. (clock + 0) % M = clock
    BY <1>1, <1>6
  <2> QED BY <1>11, <2>2, <2>3
<1>14. ASSUME d >= 0 PROVE (due - clock) % M = d
  <2>1. /\ M \in Nat /\ M >= 4 /\ clock \in Int /\ 0 <= clock /\ clock < M
        /\ 0 <= d /\ d < M
    BY <1>1, <1>8, <1>9, <1>14
  <2>2. (((clock + d) % M) - clock) % M = d
    BY <2>1, Until
  <2> QED BY <1>11, <2>2
<1> QED BY <1>2, <1>8, <1>11, <1>12, <1>13, <1>14

LEMMA CyclicIInv ==
  ASSUME TimeoutsAssumption, IInv, NEW h \in Cyclic, lwip_cyclic_timer(h)
  PROVE  /\ IInv'
         /\ \E i \in DOMAIN next_timeout' :
               /\ next_timeout'[i].h = h /\ next_timeout'[i].left >= 0
               /\ ~TIME_LESS_THAN((current_timeout_due_time + Interval[h]) % M, clock) =>
                    next_timeout'[i].time = (current_timeout_due_time + Interval[h]) % M
<1>0. running = h
  BY DEF lwip_cyclic_timer
<1>6. PICK due \in 0 .. M - 1, d \in Int :
         /\ due = (current_timeout_due_time + Interval[h]) % M
         /\ due = (clock + d) % M /\ d <= Interval[h]
         /\ TIME_LESS_THAN(due, clock) <=> d < 0
         /\ d >= 0 => (due - clock) % M = d
  BY <1>0, NextDue
<1>1. due = (current_timeout_due_time + Interval[h]) % M
  BY <1>6
<1>2. /\ running = h /\ running' = "check"
      /\ next_timeout' =
             IF TIME_LESS_THAN(due, clock) THEN sys_timeout(next_timeout, Interval[h], h)
             ELSE sys_timeout_abs(next_timeout,
                      [time |-> due, h |-> h, left |-> (due - clock) % M])
      /\ UNCHANGED <<clock, current_timeout_due_time, tcpip_tcp_timer_active, pcbs, now, gap>>
  BY <1>1 DEF lwip_cyclic_timer
<1>3. /\ Drivers /\ tcpip_tcp_timer_active \in BOOLEAN /\ pcbs \in BOOLEAN
  BY DEF IInv, TypeOK
<1>4. h \in Handlers /\ h \notin User /\ h # "idle" /\ h # "tcp" /\ h # "check"
  BY Names DEF Handlers
<1>5. ~Has(next_timeout, h)
  BY <1>2, <1>3, <1>4 DEF Drivers
<1>7. /\ Interval[h] \in Nat /\ Interval[h] + MaxGap + MaxRun <= Far
      /\ MaxGap \in Nat /\ MaxRun \in Nat /\ Far \in Int
  BY Sizes
<1>8. /\ ListOK(next_timeout', clock, gap, running = "idle") /\ Unique(next_timeout')
      /\ \A k : Has(next_timeout', k) <=> (Has(next_timeout, k) \/ k = h)
      /\ \E i \in DOMAIN next_timeout' :
            /\ next_timeout'[i].h = h /\ next_timeout'[i].left >= 0
            /\ ~TIME_LESS_THAN(due, clock) => next_timeout'[i].time = due
  <2>1. CASE TIME_LESS_THAN(due, clock)
    <3>1. next_timeout' = sys_timeout(next_timeout, Interval[h], h)
      BY <1>2, <2>1
    <3>2. Interval[h] >= 0
      BY <1>7
    <3>3. /\ ListOK(next_timeout', clock, gap, running = "idle") /\ Unique(next_timeout')
          /\ \A k : Has(next_timeout', k) <=> (Has(next_timeout, k) \/ k = h)
          /\ \E i \in DOMAIN next_timeout' :
                next_timeout'[i].h = h /\ next_timeout'[i].left = Interval[h]
      BY <1>4, <1>5, <1>7, <3>1, AddedFromNow
    <3> QED BY <2>1, <3>2, <3>3
  <2>2. CASE ~TIME_LESS_THAN(due, clock)
    <3>1. PICK e : e = [time |-> due, h |-> h, left |-> d]
      OBVIOUS
    <3>2. d >= 0 /\ (due - clock) % M = d
      BY <1>6, <2>2
    <3>3. next_timeout' = sys_timeout_abs(next_timeout, e)
      BY <1>2, <2>2, <3>1, <3>2
    <3>4. e \in Entry /\ e.time = due /\ e.h = h /\ e.left = d
      BY <1>4, <1>6, <3>1 DEF Entry
    <3>5. e.time = (clock + e.left) % M
      BY <1>6, <3>4
    <3>6. d + MaxGap + MaxRun <= Far
      <4>1. d <= Interval[h]
        BY <1>6
      <4> QED BY <1>7, <4>1
    <3>7. e \in Entry /\ e.left >= 0 /\ e.left + MaxGap + MaxRun <= Far /\ ~Has(next_timeout, e.h)
      BY <1>5, <3>2, <3>4, <3>6
    <3>8. /\ ListOK(sys_timeout_abs(next_timeout, e), clock, gap, running = "idle")
          /\ Unique(sys_timeout_abs(next_timeout, e))
          /\ \A k : Has(sys_timeout_abs(next_timeout, e), k) <=> (Has(next_timeout, k) \/ k = e.h)
          /\ \E i \in DOMAIN sys_timeout_abs(next_timeout, e) :
                sys_timeout_abs(next_timeout, e)[i] = e
      BY <3>5, <3>7, Added
    <3> QED BY <3>2, <3>3, <3>4, <3>8
  <2> QED BY <2>1, <2>2
<1>9. Drivers'
  <2>1. ~Has(next_timeout', "check")
    <3>1. ~Has(next_timeout, "check")
      <4>1. \A i \in DOMAIN next_timeout : next_timeout[i].h \in Handlers
        BY Fields DEF IInv
      <4> QED BY <4>1, Names DEF Has
    <3> QED BY <1>4, <1>8, <3>1
  <2>2. "check" \notin Cyclic
    BY Names DEF Handlers
  <2> QED BY <1>2, <1>3, <1>4, <1>8, <2>1, <2>2 DEF Drivers
<1>10. IInv'
  BY <1>2, <1>3, <1>4, <1>8, <1>9, ListChange
<1> QED BY <1>1, <1>8, <1>10

LEMMA TcpTimerIInv ==
  ASSUME TimeoutsAssumption, IInv, tcpip_tcp_timer
  PROVE  IInv'
<1>1. /\ running = "tcp" /\ running' = "check" /\ pcbs' = pcbs
      /\ UNCHANGED <<clock, current_timeout_due_time, now, gap>>
  BY DEF tcpip_tcp_timer
<1>2. /\ Drivers /\ tcpip_tcp_timer_active \in BOOLEAN /\ pcbs \in BOOLEAN
      /\ ListOK(next_timeout, clock, gap, running = "idle")
  BY DEF IInv, TypeOK
<1>3. "tcp" \notin Cyclic /\ "tcp" \notin User /\ "check" \notin Cyclic /\ "tcp" \in Handlers
  BY Names DEF Handlers
<1>4. ~Has(next_timeout, "tcp")
  BY <1>1, <1>2, <1>3 DEF Drivers
<1>5. ~Has(next_timeout, "check")
  <2>1. \A i \in DOMAIN next_timeout : next_timeout[i].h \in Handlers
    BY Fields DEF IInv
  <2> QED BY <2>1, Names DEF Has
<1>6. CASE pcbs
  <2>1. /\ next_timeout' = sys_timeout(next_timeout, Interval["tcp"], "tcp")
        /\ tcpip_tcp_timer_active' = tcpip_tcp_timer_active
    BY <1>6 DEF tcpip_tcp_timer
  <2>2. Interval["tcp"] \in Nat /\ Interval["tcp"] + MaxGap + MaxRun <= Far
    <3>1. "tcp" \in Cyclic \cup {"tcp"}
      OBVIOUS
    <3> QED BY <3>1, Sizes
  <2>3. /\ ListOK(next_timeout', clock, gap, running = "idle") /\ Unique(next_timeout')
        /\ \A k : Has(next_timeout', k) <=> (Has(next_timeout, k) \/ k = "tcp")
    BY <1>3, <1>4, <2>1, <2>2, AddedFromNow
  <2>4. Drivers'
    BY <1>1, <1>2, <1>3, <1>5, <2>1, <2>3 DEF Drivers
  <2> QED BY <1>1, <1>2, <2>1, <2>3, <2>4, ListChange
<1>7. CASE ~pcbs
  <2>1. next_timeout' = next_timeout /\ tcpip_tcp_timer_active' = FALSE
    BY <1>7 DEF tcpip_tcp_timer
  <2>2. Drivers'
    BY <1>1, <1>2, <1>3, <1>4, <1>5, <1>7, <2>1 DEF Drivers
  <2> QED BY <1>1, <1>2, <2>1, <2>2, ListChange
<1> QED BY <1>6, <1>7

LEMMA UserHandlerIInv ==
  ASSUME TimeoutsAssumption, IInv, NEW h \in User, UserHandler(h)
  PROVE  IInv'
<1>1. /\ running = h /\ running' = "check"
      /\ UNCHANGED <<clock, next_timeout, current_timeout_due_time, tcpip_tcp_timer_active,
                     pcbs, now, gap>>
  BY DEF UserHandler
<1>2. /\ Drivers /\ tcpip_tcp_timer_active \in BOOLEAN /\ pcbs \in BOOLEAN
      /\ ListOK(next_timeout, clock, gap, running = "idle")
  BY DEF IInv, TypeOK
<1>3. h \notin Cyclic /\ h # "tcp" /\ h # "idle" /\ "check" \notin Cyclic
  BY Names DEF Handlers
<1>4. ~Has(next_timeout, "check")
  <2>1. \A i \in DOMAIN next_timeout : next_timeout[i].h \in Handlers
    BY Fields DEF IInv
  <2> QED BY <2>1, Names DEF Has
<1>5. Drivers'
  BY <1>1, <1>2, <1>3, <1>4 DEF Drivers
<1> QED BY <1>1, <1>2, <1>3, <1>5, ListChange

LEMMA RestartIInv ==
  ASSUME TimeoutsAssumption, IInv, sys_restart_timeouts
  PROVE  IInv'
<1>1. PICK base : base = Head(next_timeout)
  OBVIOUS
<1>2. /\ running = "idle" /\ next_timeout # <<>>
      /\ next_timeout' = [i \in DOMAIN next_timeout |->
              [next_timeout[i] EXCEPT !.time = ((@ - base.time) + clock) % M,
                                      !.left = @ - base.left]]
      /\ UNCHANGED <<clock, current_timeout_due_time, tcpip_tcp_timer_active, pcbs, running,
                     now, gap>>
  BY <1>1 DEF sys_restart_timeouts
<1>3. /\ ListOK(next_timeout, clock, gap, TRUE) /\ GapOK(gap, TRUE)
      /\ next_timeout \in Seq(Entry) /\ clock \in 0 .. M - 1
  BY <1>2 DEF IInv, NowOK, TypeOK
<1>4. next_timeout # <<>> /\ base = next_timeout[1]
  <2>1. next_timeout \in Seq(Entry) /\ next_timeout # <<>>
    BY <1>2, <1>3
  <2> QED BY <1>1, <2>1
<1>5. ListOK(next_timeout', clock, gap, TRUE)
  <2>1. next_timeout' = Restarted(next_timeout, clock, base)
    BY <1>2 DEF Restarted
  <2>2. /\ ListOK(next_timeout, clock, gap, TRUE) /\ GapOK(gap, TRUE)
        /\ clock \in 0 .. M - 1
    BY <1>3
  <2> QED BY <1>4, <2>1, <2>2, RestartKeepsList
<1>6. ListOK(next_timeout', clock, gap, running = "idle")
  BY <1>2, <1>5
<1>7. Drivers'
  <2>1. /\ DOMAIN next_timeout' = DOMAIN next_timeout
        /\ \A i \in DOMAIN next_timeout : next_timeout'[i].h = next_timeout[i].h
    <3>1. \A i \in DOMAIN next_timeout : next_timeout[i] \in Entry
      BY <1>3
    <3> QED BY <1>2, <3>1 DEF Entry
  <2>2. /\ Unique(next_timeout) => Unique(next_timeout')
        /\ \A h : Has(next_timeout', h) <=> Has(next_timeout, h)
    BY <2>1, SameHandlers
  <2> QED BY <1>2, <2>2 DEF IInv, Drivers
<1>8. tcpip_tcp_timer_active \in BOOLEAN /\ pcbs \in BOOLEAN
  BY DEF IInv, TypeOK
<1> QED BY <1>2, <1>6, <1>7, <1>8, ListChange

-----------------------------------------------------------------------------
(* The theorems.                                                           *)

(* IInv holds in every reachable state.                                    *)
LEMMA NextIInv ==
  ASSUME TimeoutsAssumption, IInv, [Next]_vars
  PROVE  IInv'
<1>1. CASE Passes
  BY <1>1, PassesIInv
<1>2. CASE NewConnection
  BY <1>2, NewConnectionIInv
<1>3. CASE LastConnectionEnds
  BY <1>3, LastConnectionEndsIInv
<1>4. CASE \E h \in User, msecs \in Msecs : Set(h, msecs)
  BY <1>4, SetIInv
<1>5. CASE \E h \in User : sys_untimeout(h)
  BY <1>5, UntimeoutIInv
<1>6. CASE sys_check_timeouts
  BY <1>6, CheckIInv
<1>7. CASE sys_restart_timeouts
  BY <1>7, RestartIInv
<1>8. CASE Take
  BY <1>8, TakeIInv
<1>9. CASE CheckEnds
  BY <1>9, CheckEndsIInv
<1>10. CASE tcpip_tcp_timer
  BY <1>10, TcpTimerIInv
<1>11. CASE \E h \in Cyclic : lwip_cyclic_timer(h)
  BY <1>11, CyclicIInv
<1>12. CASE \E h \in User : UserHandler(h)
  BY <1>12, UserHandlerIInv
<1>13. CASE UNCHANGED vars
  BY <1>13 DEF vars, IInv, TypeOK, ListOK, DueOK, NowOK, GapOK, Drivers, Unique, Has, Handlers
<1> QED BY <1>1, <1>2, <1>3, <1>4, <1>5, <1>6, <1>7, <1>8, <1>9, <1>10, <1>11, <1>12, <1>13
        DEF Next, Handler

(* What sys_timeouts_sleeptime returns.                                    *)
LEMMA SleepTime ==
  ASSUME TimeoutsAssumption, IInv
  PROVE  SleepsExactly
<1> SUFFICES ASSUME next_timeout # <<>>
             PROVE  sys_timeouts_sleeptime = Max({0, Head(next_timeout).left})
  BY DEF SleepsExactly
<1>1. next_timeout \in Seq(Entry) /\ clock \in 0 .. M - 1 /\ GapOK(gap, running = "idle")
  BY DEF IInv, TypeOK, NowOK
<1>2. 1 \in DOMAIN next_timeout /\ Head(next_timeout) = next_timeout[1]
  BY <1>1
<1>3. /\ M \in Nat /\ M >= 4 /\ MaxGap \in Nat /\ MaxRun \in Nat /\ Far \in Int
      /\ LWIP_MAX_TIMEOUT \in Int /\ 2 * LWIP_MAX_TIMEOUT + 2 <= M
      /\ Far + MaxRun = LWIP_MAX_TIMEOUT /\ MaxGap + MaxRun <= Far
  BY Sizes
<1>4. PICK l \in Int : l = next_timeout[1].left
  BY <1>2, Fields DEF IInv
<1>5. /\ next_timeout[1].time = (clock + l) % M /\ l <= Far
      /\ l >= -(IF running = "idle" THEN gap ELSE gap + MaxGap + MaxRun)
  BY <1>2, <1>4 DEF IInv, ListOK
<1>6. gap \in Nat /\ (running = "idle" => gap <= MaxGap + MaxRun) /\ (running # "idle" => gap <= MaxRun)
  BY <1>1 DEF GapOK
<1>7. l >= -LWIP_MAX_TIMEOUT /\ l <= LWIP_MAX_TIMEOUT
  <2>1. /\ l <= Far
        /\ l >= -(IF running = "idle" THEN gap ELSE gap + MaxGap + MaxRun)
    BY <1>5
  <2>2. CASE running = "idle"
    BY <1>3, <1>6, <2>1, <2>2
  <2>3. CASE running # "idle"
    BY <1>3, <1>6, <2>1, <2>3
  <2> QED BY <2>2, <2>3
<1>8. TIME_LESS_THAN(next_timeout[1].time, clock) <=> l < 0
  <2>1. -LWIP_MAX_TIMEOUT <= 0 /\ 0 <= LWIP_MAX_TIMEOUT /\ l - 0 = l
    BY <1>3
  <2>2. TIME_LESS_THAN((clock + l) % M, (clock + 0) % M) <=> l < 0
    BY <1>1, <1>7, <2>1, Compare
  <2>3. (clock + 0) % M = clock
    BY <1>1, <1>3
  <2> QED BY <1>5, <2>2, <2>3
<1>9. Max({0, l}) = IF l < 0 THEN 0 ELSE l
  BY DEF Max
<1>10. CASE l < 0
  <2>1. sys_timeouts_sleeptime = 0
    BY <1>2, <1>8, <1>10 DEF sys_timeouts_sleeptime
  <2> QED BY <1>2, <1>4, <1>9, <1>10, <2>1
<1>11. CASE ~(l < 0)
  <2>1. sys_timeouts_sleeptime = (next_timeout[1].time - clock) % M
    BY <1>2, <1>8, <1>11 DEF sys_timeouts_sleeptime
  <2>2. /\ clock \in Int /\ 0 <= clock /\ clock < M /\ 0 <= l /\ l < M
    BY <1>1, <1>3, <1>7, <1>11
  <2>3. (((clock + l) % M) - clock) % M = l
    BY <1>3, <2>2, Until
  <2> QED BY <1>2, <1>4, <1>5, <1>9, <1>11, <2>1, <2>3
<1> QED BY <1>10, <1>11

(* How many entries a handler has.                                         *)
LEMMA Entries ==
  ASSUME TimeoutsAssumption, IInv, NEW h
  PROVE  Cardinality({i \in DOMAIN next_timeout : next_timeout[i].h = h}) =
           IF Has(next_timeout, h) THEN 1 ELSE 0
<1> DEFINE S == {i \in DOMAIN next_timeout : next_timeout[i].h = h}
<1>1. CASE Has(next_timeout, h)
  <2>1. PICK i \in DOMAIN next_timeout : next_timeout[i].h = h
    BY <1>1 DEF Has
  <2>2. S = {i}
    BY <2>1 DEF IInv, Drivers, Unique
  <2> HIDE DEF S
  <2>3. Cardinality(S) = 1
    BY <2>2, FS_Singleton
  <2> QED BY <1>1, <2>3 DEF S
<1>2. CASE ~Has(next_timeout, h)
  <2>1. S = {}
    BY <1>2 DEF Has
  <2> HIDE DEF S
  <2>2. Cardinality(S) = 0
    BY <2>1, FS_EmptySet
  <2> QED BY <1>2, <2>2 DEF S
<1> QED BY <1>1, <1>2

LEMMA OneEach ==
  ASSUME TimeoutsAssumption, IInv
  PROVE  OneEntryEach
<1>1. Drivers
  BY DEF IInv
<1>2. "tcp" \notin User /\ \A h \in Cyclic : h \notin User
  BY Names
<1>3. \A h \in Cyclic : (IF Has(next_timeout, h) THEN 1 ELSE 0) + (IF running = h THEN 1 ELSE 0) = 1
  BY <1>1, <1>2 DEF Drivers
<1>4. (IF Has(next_timeout, "tcp") THEN 1 ELSE 0) + (IF running = "tcp" THEN 1 ELSE 0)
         = (IF tcpip_tcp_timer_active THEN 1 ELSE 0)
  BY <1>1, <1>2 DEF Drivers
<1>5. pcbs => tcpip_tcp_timer_active
  BY <1>1 DEF Drivers
<1> QED BY <1>3, <1>4, <1>5, Entries DEF OneEntryEach

(* Which actions start and end handlers.                                   *)
LEMMA HandlerSteps ==
  ASSUME TimeoutsAssumption, IInv, [Next]_vars
  PROVE  OnTimeStep /\ NoDriftNoBurstStep
<1>1. /\ "check" \notin Handlers /\ "idle" \notin Handlers
      /\ \A h \in Cyclic : h # "tcp" /\ h \notin User /\ h \in Handlers
  BY Names DEF Handlers
<1>2. CASE Take
  <2>1. Head(next_timeout).left <= 0
    BY <1>2, TakeIInv
  <2>2. running = "check" /\ running' = Head(next_timeout).h /\ next_timeout # <<>>
    BY <1>2 DEF Take
  <2>3. running' \in Handlers
    <3>1. next_timeout \in Seq(Entry)
      BY DEF IInv, TypeOK
    <3>2. 1 \in DOMAIN next_timeout /\ Head(next_timeout) = next_timeout[1]
      BY <2>2, <3>1
    <3> QED BY <2>2, <3>2, Fields DEF IInv
  <2>4. OnTimeStep
    BY <1>1, <2>1, <2>2, <2>3 DEF OnTimeStep
  <2>5. NoDriftNoBurstStep
    BY <1>1, <2>2 DEF NoDriftNoBurstStep
  <2> QED BY <2>4, <2>5
<1>3. CASE CheckEnds
  <2>1. running = "check" /\ running' = "idle"
    BY <1>3 DEF CheckEnds
  <2>2. \A i \in DOMAIN next_timeout : next_timeout[i].left > -gap
    BY <1>3, CheckEndsIInv
  <2>3. (clock - now) % M = gap
    <3>1. /\ M \in Nat /\ M >= 4 /\ MaxGap \in Nat /\ MaxRun \in Nat /\ Far \in Int
          /\ LWIP_MAX_TIMEOUT \in Int /\ 2 * LWIP_MAX_TIMEOUT + 2 <= M
          /\ Far + MaxRun = LWIP_MAX_TIMEOUT /\ MaxGap + MaxRun <= Far
      BY Sizes
    <3>2. clock \in 0 .. M - 1 /\ gap \in Nat /\ gap <= MaxRun /\ now = (clock - gap) % M
      BY <2>1 DEF IInv, TypeOK, NowOK, GapOK
    <3>3. clock \in 0 .. M - 1 /\ gap \in Nat /\ gap <= MaxRun
      BY <3>2
    <3>4. /\ M \in Nat /\ M >= 4 /\ clock \in Int /\ 0 <= clock /\ clock < M
          /\ gap \in Int /\ 0 <= gap /\ gap < M
      BY <3>1, <3>3
    <3>5. (clock - ((clock - gap) % M)) % M = gap
      BY <3>4, Until
    <3> QED BY <3>2, <3>5
  <2>4. OnTimeStep
    BY <1>1, <2>1, <2>2, <2>3 DEF OnTimeStep
  <2>5. NoDriftNoBurstStep
    BY <1>1, <2>1 DEF NoDriftNoBurstStep
  <2> QED BY <2>4, <2>5
<1>4. CASE \E h \in Cyclic : lwip_cyclic_timer(h)
  <2>1. PICK h \in Cyclic : lwip_cyclic_timer(h)
    BY <1>4
  <2>2. running = h /\ running' = "check"
    BY <2>1 DEF lwip_cyclic_timer
  <2>3. OnTimeStep
    BY <1>1, <2>2 DEF OnTimeStep
  <2>4. NoDriftNoBurstStep
    BY <2>1, <2>2, CyclicIInv DEF NoDriftNoBurstStep
  <2> QED BY <2>3, <2>4
<1>5. CASE tcpip_tcp_timer
  <2>1. running = "tcp" /\ running' = "check"
    BY <1>5 DEF tcpip_tcp_timer
  <2> QED BY <1>1, <2>1 DEF OnTimeStep, NoDriftNoBurstStep
<1>6. CASE \E h \in User : UserHandler(h)
  <2>1. PICK h \in User : running = h /\ running' = "check"
    BY <1>6 DEF UserHandler
  <2>2. h # "check"
    BY Names
  <2> QED BY <1>1, <2>1, <2>2 DEF OnTimeStep, NoDriftNoBurstStep
<1>7. CASE sys_check_timeouts
  <2>1. running = "idle" /\ running' = "check"
    BY <1>7 DEF sys_check_timeouts
  <2> QED BY <1>1, <2>1 DEF OnTimeStep, NoDriftNoBurstStep
<1>8. CASE running' = running
  BY <1>1, <1>8 DEF OnTimeStep, NoDriftNoBurstStep
<1>9. CASE \/ Passes \/ NewConnection \/ LastConnectionEnds
           \/ \E h \in User, msecs \in Msecs : Set(h, msecs)
           \/ \E h \in User : sys_untimeout(h)
           \/ sys_restart_timeouts \/ UNCHANGED vars
  <2>1. running' = running
    BY <1>9 DEF Passes, NewConnection, LastConnectionEnds, Set, sys_untimeout,
                sys_restart_timeouts, vars
  <2> QED BY <1>8, <2>1
<1> QED BY <1>2, <1>3, <1>4, <1>5, <1>6, <1>7, <1>9 DEF Next, Handler

LEMMA IInvCorrect ==
  ASSUME TimeoutsAssumption, IInv
  PROVE  TypeOK /\ Ordered /\ SleepsExactly /\ OneEntryEach
<1>1. TypeOK /\ Ordered
  BY DEF IInv, ListOK, Ordered
<1> QED BY <1>1, SleepTime, OneEach

(* The invariant the theorems below rest on.                               *)
LEMMA Invariant ==
  ASSUME TimeoutsAssumption
  PROVE  Spec => []IInv
<1>1. Init => IInv
  BY InitIInv
<1>2. IInv /\ [Next]_vars => IInv'
  BY NextIInv
<1> QED BY <1>1, <1>2, PTL DEF Spec

(* The list of timeouts and the variables of timeouts.c keep their types,  *)
(* and a call of sys_check_timeouts is never further from the last one     *)
(* than the bounds allow.                                                  *)
THEOREM TypeCorrect ==
  ASSUME TimeoutsAssumption
  PROVE  Spec => []TypeOK
<1>1. IInv => TypeOK
  BY DEF IInv
<1> QED BY <1>1, Invariant, PTL

(* Whatever the width of the clock and wherever it wraps around, the list  *)
(* sys_timeout_abs builds is in the order of the real due times.           *)
THEOREM ListOrdered ==
  ASSUME TimeoutsAssumption
  PROVE  Spec => []Ordered
<1>1. IInv => Ordered
  BY DEF IInv, ListOK, Ordered
<1> QED BY <1>1, Invariant, PTL

(* sys_timeouts_sleeptime is the real time until the first entry is due,   *)
(* and nothing when that is past.                                          *)
THEOREM SleepExact ==
  ASSUME TimeoutsAssumption
  PROVE  Spec => []SleepsExactly
<1>1. IInv => SleepsExactly
  BY SleepTime
<1> QED BY <1>1, Invariant, PTL

(* Exactly one entry, waiting or being handled, drives each cyclic timer,  *)
(* and tcpip_tcp_timer_active tells whether one drives TCP: it is neither  *)
(* lost nor doubled by tcp_timer_needed, tcpip_tcp_timer and               *)
(* lwip_cyclic_timer in any order.                                         *)
THEOREM TimersDriven ==
  ASSUME TimeoutsAssumption
  PROVE  Spec => []OneEntryEach
<1>1. IInv => OneEntryEach
  BY OneEach
<1> QED BY <1>1, Invariant, PTL

(* sys_check_timeouts runs no handler before its time, and when it returns *)
(* none that was due when it was called is left.                           *)
THEOREM HandledOnTime ==
  ASSUME TimeoutsAssumption
  PROVE  Spec => OnTime
<1>1. IInv /\ [Next]_vars => [OnTimeStep]_vars
  BY HandlerSteps
<1> QED BY <1>1, Invariant, PTL DEF Spec, OnTime

(* lwip_cyclic_timer keeps the phase of a timer that is handled in time,   *)
(* and does not run one that is late twice to catch up.                    *)
THEOREM PhaseKept ==
  ASSUME TimeoutsAssumption
  PROVE  Spec => NoDriftNoBurst
<1>1. IInv /\ [Next]_vars => [NoDriftNoBurstStep]_vars
  BY HandlerSteps
<1> QED BY <1>1, Invariant, PTL DEF Spec, NoDriftNoBurst
=============================================================================
