---------------------------- MODULE RoutingProofs ----------------------------
(***************************************************************************)
(* Proofs about Routing for any lists, rules, hosts and ports, any width   *)
(* of an address and any number of connections and calls of SetupStack.    *)
(*                                                                         *)
(* The inductive invariant IInv says what a table holds while its list is  *)
(* being stored line by line, what Handle has found out about a connection *)
(* at each of its three reads, and how the packets of a port are counted.  *)
(***************************************************************************)
EXTENDS Routing, SequenceTheorems, TLAPS

SetupPcs == {"idle", "rules", "inners", "inner", "must"}
ConnPcs == {"syn", "accepted", "must", "inner", "byName", "proxied", "direct"}

ConnSet == [port : Ports, ip : Addrs, host : Hosts \cup {NoHost}, sent : 0 .. 4,
            pc : ConnPcs, name : Hosts \cup {NoHost}, calm : BOOLEAN, known : BOOLEAN,
            first : BOOLEAN, seen : SUBSET Hosts]

\* A table maps network numbers to prefix lengths.
Table(m) == m \in [DOMAIN m -> 0 .. AddrBits] /\ DOMAIN m \subseteq Addrs

\* The shapes of the variables, the parts TypeOK leaves open included.
Shapes ==
    /\ Table(innerIpMasks) /\ Table(mustHitMasks)
    /\ global \in BOOLEAN /\ dead \in BOOLEAN
    /\ matcher \in Rules \cup {{}}
    /\ ipToDomain \in [DOMAIN ipToDomain -> Hosts] /\ DOMAIN ipToDomain \subseteq Addrs
    /\ counter \in [Ports -> Nat]
    /\ lists \in [inner : InnerLists \cup {<<>>}, must : MustLists \cup {<<>>}]
    /\ setup \in [pc : SetupPcs, left : Seq(Lines), n : Nat]
    /\ conns \in Seq(ConnSet)

\* Of the list l the lines left are not stored yet; the table holds the rest
\* and nothing that is not in the list.
Loading(m, l, left) ==
    /\ \A a \in DOMAIN m : \E i \in DOMAIN l : l[i].ip = a /\ l[i].len = m[a]
    /\ \A i \in DOMAIN l : \/ l[i].ip \in DOMAIN m
                           \/ \E j \in DOMAIN left : left[j] = l[i]
    /\ \A j \in DOMAIN left : \E i \in DOMAIN l : l[i] = left[j]

\* A table is as its list says, or being filled from it.
Inners == Loading(innerIpMasks, lists.inner, IF setup.pc = "inner" THEN setup.left ELSE <<>>)
Musts == Loading(mustHitMasks, lists.must, IF setup.pc = "must" THEN setup.left ELSE <<>>)

\* What Handle has found out about a connection still holds while it is calm.
Finds(k) ==
    /\ k.known <=> k.name # NoHost
    /\ k.pc = "byName" => k.known
    /\ k.pc \in {"inner", "proxied", "direct"} => ~k.known
    /\ k.calm => /\ k.pc \in {"inner", "direct"} => ~MustHit(k.ip)
                 /\ k.pc = "direct" => InnerIP(k.ip)
                 /\ k.pc = "proxied" => MustHit(k.ip) \/ ~InnerIP(k.ip)
Found == \A c \in DOMAIN conns : Finds(conns[c])

\* A packet to the address a carried the name h, which some rules match.
Carried(a, h) ==
    /\ \E b \in DOMAIN conns :
          conns[b].ip = a /\ conns[b].sent >= 3 /\ conns[b].host = h
    /\ \E r \in Rules : h \in r

\* Names are cached, and taken from the cache, only when they were carried.
Cached == \A a \in DOMAIN ipToDomain : Carried(a, ipToDomain[a])
Taken == \A c \in DOMAIN conns :
            conns[c].name # NoHost => Carried(conns[c].ip, conns[c].name)

\* Until its third packet the first connection of a port is the only one, and
\* the counter of the port counts its packets alone.
Counted ==
    /\ \A p \in Ports : (\A c \in DOMAIN conns : conns[c].port # p) => counter[p] = 0
    /\ \A c \in DOMAIN conns :
          conns[c].first /\ conns[c].sent < 3 =>
              /\ counter[conns[c].port] = conns[c].sent
              /\ \A d \in DOMAIN conns : conns[d].port = conns[c].port => d = c
    /\ \A c \in DOMAIN conns : conns[c].sent < 3 => conns[c].seen = {}

IInv == /\ Shapes /\ Inners /\ Musts /\ Found
        /\ Cached /\ Taken /\ Counted /\ FirstIsInspected

-----------------------------------------------------------------------------
(* Loading a list into a table *)

\* A loader begins with an empty table and the whole list.
LEMMA LoadingStarts ==
  ASSUME NEW l \in Seq(Lines)
  PROVE  Table(<<>>) /\ Loading(<<>>, l, l)
  BY DEF Table, Loading

\* The empty table is that of an empty list.
LEMMA NothingLoaded ==
  Loading(<<>>, <<>>, <<>>)
  BY DEF Loading

\* Storing a line keeps what was stored and leaves the lines after it.
LEMMA LoadingGoesOn ==
  ASSUME NEW m, Table(m), NEW l, NEW left \in Seq(Lines), left # <<>>,
         Loading(m, l, left)
  PROVE  /\ Table(Store(m, Head(left))) /\ Tail(left) \in Seq(Lines)
         /\ Loading(Store(m, Head(left)), l, Tail(left))
<1> DEFINE x == Head(left)
           s == Store(m, x)
<1>1. x \in Lines /\ x = left[1] /\ 1 \in DOMAIN left /\ Tail(left) \in Seq(Lines)
  OBVIOUS
<1>2. x.ip \in Addrs /\ x.len \in 0 .. AddrBits
  BY <1>1 DEF Lines
<1>3. /\ DOMAIN s = DOMAIN m \cup {x.ip} /\ s[x.ip] = x.len
      /\ \A a \in DOMAIN m : a # x.ip => s[a] = m[a]
  BY DEF Store
<1>4. Table(s)
  BY <1>2 DEF Table, Store
<1>5. \A j \in DOMAIN Tail(left) : j + 1 \in DOMAIN left /\ Tail(left)[j] = left[j + 1]
  OBVIOUS
<1>6. \A j \in DOMAIN left : j = 1 \/ (j - 1 \in DOMAIN Tail(left) /\ Tail(left)[j - 1] = left[j])
  OBVIOUS
<1>7. \A a \in DOMAIN s : \E i \in DOMAIN l : l[i].ip = a /\ l[i].len = s[a]
  <2>1. PICK i \in DOMAIN l : l[i] = x
    BY <1>1 DEF Loading
  <2> QED BY <2>1, <1>3 DEF Loading
<1>8. \A i \in DOMAIN l : \/ l[i].ip \in DOMAIN s
                          \/ \E j \in DOMAIN Tail(left) : Tail(left)[j] = l[i]
  <2> SUFFICES ASSUME NEW i \in DOMAIN l, l[i].ip \notin DOMAIN s
               PROVE  \E j \in DOMAIN Tail(left) : Tail(left)[j] = l[i]
    OBVIOUS
  <2>1. PICK j \in DOMAIN left : left[j] = l[i]
    BY <1>3 DEF Loading
  <2>2. j # 1
    BY <2>1, <1>1, <1>3
  <2> QED BY <2>1, <2>2, <1>6
<1>9. \A j \in DOMAIN Tail(left) : \E i \in DOMAIN l : l[i] = Tail(left)[j]
  BY <1>5 DEF Loading
<1> QED BY <1>1, <1>4, <1>7, <1>8, <1>9 DEF Loading

\* A table as its list says is hit by the addresses the list contains.
LEMMA LoadedTable ==
  ASSUME NEW m, NEW l \in Seq(Lines), Loading(m, l, <<>>),
         \A i, j \in DOMAIN l : /\ Mask(l[i].ip, l[i].len) = l[i].ip
                                /\ l[i].ip = l[j].ip => l[i].len = l[j].len
  PROVE  /\ DOMAIN m = {} <=> l = <<>>
         /\ \A ip : Hit(m, ip) <=> Listed(l, ip)
<1>1. \A i \in DOMAIN l : l[i].ip \in DOMAIN m
  BY DEF Loading
<1>2. \A i \in DOMAIN l : m[l[i].ip] = l[i].len
  <2> TAKE i \in DOMAIN l
  <2>1. PICK j \in DOMAIN l : l[j].ip = l[i].ip /\ l[j].len = m[l[i].ip]
    BY <1>1 DEF Loading
  <2> QED BY <2>1
<1>3. DOMAIN m = {} <=> DOMAIN l = {}
  BY <1>1 DEF Loading
<1>4. DOMAIN l = {} <=> l = <<>>
  OBVIOUS
<1>5. ASSUME NEW ip, Hit(m, ip) PROVE Listed(l, ip)
  <2>1. PICK a \in DOMAIN m : Mask(ip, m[a]) = a
    BY <1>5 DEF Hit
  <2>2. PICK i \in DOMAIN l : l[i].ip = a /\ l[i].len = m[a]
    BY DEF Loading
  <2>3. Mask(ip, l[i].len) = Mask(l[i].ip, l[i].len)
    BY <2>1, <2>2
  <2> QED BY <2>3 DEF Listed
<1>6. ASSUME NEW ip, Listed(l, ip) PROVE Hit(m, ip)
  <2>1. PICK i \in DOMAIN l : Mask(ip, l[i].len) = Mask(l[i].ip, l[i].len)
    BY <1>6 DEF Listed
  <2>2. Mask(ip, m[l[i].ip]) = l[i].ip
    BY <2>1, <1>2
  <2> QED BY <2>2, <1>1 DEF Hit
<1> QED BY <1>3, <1>4, <1>5, <1>6

-----------------------------------------------------------------------------
(* What the steps have in common *)

\* Connection by connection, everything but calm and pc stays.
Alike == /\ DOMAIN conns' = DOMAIN conns
         /\ \A c \in DOMAIN conns :
               /\ conns'[c].port = conns[c].port /\ conns'[c].ip = conns[c].ip
               /\ conns'[c].host = conns[c].host /\ conns'[c].sent = conns[c].sent
               /\ conns'[c].name = conns[c].name /\ conns'[c].known = conns[c].known
               /\ conns'[c].first = conns[c].first /\ conns'[c].seen = conns[c].seen

\* A step that sends no packet and looks no name up keeps what is known of
\* names and packets.
LEMMA AlikeKeeps ==
  ASSUME IInv, Alike, UNCHANGED <<ipToDomain, counter>>
  PROVE  Cached' /\ Taken' /\ Counted' /\ FirstIsInspected'
<1>1. Cached /\ Taken /\ Counted /\ FirstIsInspected
  BY DEF IInv
<1>2. \A a, h : Carried(a, h) => Carried(a, h)'
  BY DEF Alike, Carried
<1>3. Cached'
  BY <1>1, <1>2 DEF Cached
<1>4. Taken'
  BY <1>1, <1>2 DEF Taken, Alike
<1>5. Counted'
  BY <1>1 DEF Counted, Alike
<1>6. FirstIsInspected'
  BY <1>1 DEF FirstIsInspected, Alike
<1> QED BY <1>3, <1>4, <1>5, <1>6

\* A connection is a member of its set.
LEMMA ConnAt ==
  ASSUME Shapes
  PROVE  /\ DOMAIN conns = 1 .. Len(conns) /\ Len(conns) \in Nat
         /\ \A c \in DOMAIN conns : conns[c] \in ConnSet
<1>1. conns \in Seq(ConnSet)
  BY DEF Shapes
<1> QED BY <1>1

\* A loader's step leaves no connection calm, and changes nothing else of them.
LEMMA DisturbKeeps ==
  ASSUME IInv, conns' = Disturb
  PROVE  conns' \in Seq(ConnSet) /\ Alike /\ Found'
<1>1. Shapes /\ Found
  BY DEF IInv
<1>2. \A c \in DOMAIN conns : conns[c] \in ConnSet
  BY <1>1, ConnAt
<1>3. \A c \in DOMAIN conns : [conns[c] EXCEPT !.calm = FALSE] \in ConnSet
  BY <1>2 DEF ConnSet
<1>4. DOMAIN conns = 1 .. Len(conns) /\ Len(conns) \in Nat
  BY <1>1, ConnAt
<1>5. conns' \in [1 .. Len(conns) -> ConnSet]
  BY <1>3, <1>4 DEF Disturb
<1>6. conns' \in Seq(ConnSet)
  BY <1>4, <1>5
<1>7. /\ DOMAIN conns' = DOMAIN conns
      /\ \A c \in DOMAIN conns : conns'[c] = [conns[c] EXCEPT !.calm = FALSE]
  BY DEF Disturb
<1>8. Alike
  BY <1>2, <1>7 DEF Alike, ConnSet
<1>9. \A c \in DOMAIN conns : conns'[c].pc = conns[c].pc /\ conns'[c].calm = FALSE
  BY <1>2, <1>7 DEF ConnSet
<1>10. \A c \in DOMAIN conns : Finds(conns[c])
  BY <1>1 DEF Found
<1>11. Found'
  <2> SUFFICES ASSUME NEW c \in DOMAIN conns PROVE Finds(conns[c])'
    BY <1>7 DEF Found
  <2>1. Finds(conns[c])
    BY <1>10
  <2> QED BY <2>1, <1>8, <1>9 DEF Finds, Alike
<1> QED BY <1>6, <1>8, <1>11

\* A step that leaves the connections and the tables alone.
LEMMA NothingFound ==
  ASSUME IInv, UNCHANGED <<innerIpMasks, mustHitMasks, global, conns>>
  PROVE  conns' \in Seq(ConnSet) /\ Alike /\ Found'
<1>1. Shapes /\ Found
  BY DEF IInv
<1>2. conns' \in Seq(ConnSet)
  BY <1>1 DEF Shapes
<1>3. Alike
  BY DEF Alike
<1>4. \A k : Finds(k) => Finds(k)'
  BY DEF Finds, MustHit, InnerIP
<1> QED BY <1>1, <1>2, <1>3, <1>4 DEF Found, Finds, MustHit, InnerIP
-----------------------------------------------------------------------------
(* Every action keeps the invariant *)

LEMMA InitHolds ==
  ASSUME ListsAssumption, Init
  PROVE  IInv
<1>1. Shapes
  <2>1. Table(innerIpMasks) /\ Table(mustHitMasks)
    BY DEF Init, Table
  <2>2. ipToDomain \in [DOMAIN ipToDomain -> Hosts] /\ DOMAIN ipToDomain \subseteq Addrs
    BY DEF Init
  <2>3. counter \in [Ports -> Nat] /\ conns \in Seq(ConnSet)
    BY DEF Init
  <2>4. /\ lists \in [inner : InnerLists \cup {<<>>}, must : MustLists \cup {<<>>}]
        /\ setup \in [pc : SetupPcs, left : Seq(Lines), n : Nat]
    BY DEF Init, SetupPcs
  <2> QED BY <2>1, <2>2, <2>3, <2>4 DEF Init, Shapes
<1>2. Inners /\ Musts
  BY NothingLoaded DEF Init, Inners, Musts
<1>3. Found /\ Cached /\ Taken /\ Counted /\ FirstIsInspected
  BY DEF Init, Found, Cached, Taken, Counted, FirstIsInspected
<1> QED BY <1>1, <1>2, <1>3 DEF IInv

LEMMA SetupBeginStep ==
  ASSUME IInv, SetupBegin
  PROVE  IInv'
<1>1. Shapes /\ Inners /\ Musts
  BY DEF IInv
<1>2. conns' \in Seq(ConnSet) /\ Alike /\ Found'
  BY NothingFound DEF SetupBegin, tables
<1>3. Cached' /\ Taken' /\ Counted' /\ FirstIsInspected'
  BY <1>2, AlikeKeeps DEF SetupBegin
<1>4. setup \in [pc : SetupPcs, left : Seq(Lines), n : Nat]
  BY <1>1 DEF Shapes
<1>5. setup' \in [pc : SetupPcs, left : Seq(Lines), n : Nat]
  BY <1>4 DEF SetupBegin, SetupPcs
<1>6. Shapes'
  BY <1>1, <1>2, <1>5 DEF Shapes, SetupBegin, tables, Table
<1>7. setup.pc = "idle" /\ setup'.pc = "rules"
  BY DEF SetupBegin
<1>8. Inners' /\ Musts'
  BY <1>1, <1>7 DEF SetupBegin, tables, Inners, Musts
<1> QED BY <1>2, <1>3, <1>6, <1>8 DEF IInv

LEMMA SetupStep ==
  ASSUME ListsAssumption, IInv, Setup
  PROVE  IInv'
<1>1. Shapes /\ Inners /\ Musts
  BY DEF IInv
<1>2. conns' \in Seq(ConnSet) /\ Alike /\ Found'
  BY NothingFound DEF Setup, tables
<1>3. Cached' /\ Taken' /\ Counted' /\ FirstIsInspected'
  BY <1>2, AlikeKeeps DEF Setup
<1>4. setup \in [pc : SetupPcs, left : Seq(Lines), n : Nat]
  BY <1>1 DEF Shapes
<1>5. setup' \in [pc : SetupPcs, left : Seq(Lines), n : Nat]
  BY <1>4 DEF Setup, SetupPcs
<1>6. Shapes'
  BY <1>1, <1>2, <1>5 DEF Shapes, Setup, tables, Table
<1>7. setup.pc = "rules" /\ setup'.pc = "inners"
  BY <1>4 DEF Setup
<1>8. Inners' /\ Musts'
  BY <1>1, <1>7 DEF Setup, tables, Inners, Musts
<1> QED BY <1>2, <1>3, <1>6, <1>8 DEF IInv

LEMMA LoadInnersStep ==
  ASSUME ListsAssumption, IInv, LoadInners
  PROVE  IInv'
<1>1. Shapes /\ Inners /\ Musts
  BY DEF IInv
<1>2. conns' \in Seq(ConnSet) /\ Alike /\ Found'
  BY DisturbKeeps DEF LoadInners
<1>3. Cached' /\ Taken' /\ Counted' /\ FirstIsInspected'
  BY <1>2, AlikeKeeps DEF LoadInners
<1>4. /\ setup \in [pc : SetupPcs, left : Seq(Lines), n : Nat]
      /\ lists \in [inner : InnerLists \cup {<<>>}, must : MustLists \cup {<<>>}]
  BY <1>1 DEF Shapes
<1>5. PICK l \in InnerLists : /\ setup' = [setup EXCEPT !.pc = "inner", !.left = l]
                              /\ lists' = [lists EXCEPT !.inner = l]
  BY DEF LoadInners
<1>6. l \in Seq(Lines)
  BY DEF ListsAssumption
<1>7. /\ setup' \in [pc : SetupPcs, left : Seq(Lines), n : Nat]
      /\ lists' \in [inner : InnerLists \cup {<<>>}, must : MustLists \cup {<<>>}]
  BY <1>4, <1>5, <1>6 DEF SetupPcs
<1>8. innerIpMasks' = <<>> /\ mustHitMasks' = mustHitMasks
  BY DEF LoadInners
<1>9. Table(<<>>) /\ Loading(<<>>, l, l)
  BY <1>6, LoadingStarts
<1>10. Table(innerIpMasks)'
  BY <1>8, <1>9 DEF Table
<1>11. Shapes'
  BY <1>1, <1>2, <1>7, <1>8, <1>10 DEF Shapes, LoadInners, Table
<1>12. /\ setup.pc = "inners" /\ setup'.pc = "inner" /\ setup'.left = l
       /\ lists'.inner = l /\ lists'.must = lists.must
  BY <1>4, <1>5 DEF LoadInners
<1>13. Inners' /\ Musts'
  BY <1>1, <1>8, <1>9, <1>12 DEF Inners, Musts
<1> QED BY <1>2, <1>3, <1>11, <1>13 DEF IInv

LEMMA LoadInnerLineStep ==
  ASSUME ListsAssumption, IInv, LoadInnerLine
  PROVE  IInv'
<1>1. Shapes /\ Inners /\ Musts
  BY DEF IInv
<1>2. conns' \in Seq(ConnSet) /\ Alike /\ Found'
  BY DisturbKeeps DEF LoadInnerLine
<1>3. Cached' /\ Taken' /\ Counted' /\ FirstIsInspected'
  BY <1>2, AlikeKeeps DEF LoadInnerLine
<1>4. setup \in [pc : SetupPcs, left : Seq(Lines), n : Nat]
  BY <1>1 DEF Shapes
<1>5. /\ setup.pc = "inner" /\ setup.left \in Seq(Lines) /\ setup.left # <<>>
      /\ setup'.pc = "inner" /\ setup'.left = Tail(setup.left)
  BY <1>4 DEF LoadInnerLine
<1>6. Table(innerIpMasks) /\ Loading(innerIpMasks, lists.inner, setup.left)
  BY <1>1, <1>5 DEF Inners, Shapes
<1>7. /\ Table(Store(innerIpMasks, Head(setup.left))) /\ Tail(setup.left) \in Seq(Lines)
      /\ Loading(Store(innerIpMasks, Head(setup.left)), lists.inner, Tail(setup.left))
  BY <1>5, <1>6, LoadingGoesOn
<1>8. setup' \in [pc : SetupPcs, left : Seq(Lines), n : Nat]
  BY <1>4, <1>7 DEF LoadInnerLine
<1>9. /\ innerIpMasks' = Store(innerIpMasks, Head(setup.left))
      /\ mustHitMasks' = mustHitMasks /\ lists' = lists
  BY DEF LoadInnerLine
<1>10. Table(innerIpMasks)'
  BY <1>7, <1>9 DEF Table
<1>11. Shapes'
  BY <1>1, <1>2, <1>8, <1>9, <1>10 DEF Shapes, LoadInnerLine, Table
<1>12. Inners' /\ Musts'
  BY <1>1, <1>5, <1>7, <1>9 DEF Inners, Musts
<1> QED BY <1>2, <1>3, <1>11, <1>12 DEF IInv

LEMMA LoadMustHitsStep ==
  ASSUME ListsAssumption, IInv, LoadMustHits
  PROVE  IInv'
<1>1. Shapes /\ Inners /\ Musts
  BY DEF IInv
<1>2. conns' \in Seq(ConnSet) /\ Alike /\ Found'
  BY DisturbKeeps DEF LoadMustHits
<1>3. Cached' /\ Taken' /\ Counted' /\ FirstIsInspected'
  BY <1>2, AlikeKeeps DEF LoadMustHits
<1>4. /\ setup \in [pc : SetupPcs, left : Seq(Lines), n : Nat]
      /\ lists \in [inner : InnerLists \cup {<<>>}, must : MustLists \cup {<<>>}]
  BY <1>1 DEF Shapes
<1>5. PICK l \in MustLists : /\ setup' = [setup EXCEPT !.pc = "must", !.left = l]
                              /\ lists' = [lists EXCEPT !.must = l]
  BY DEF LoadMustHits
<1>6. l \in Seq(Lines)
  BY DEF ListsAssumption
<1>7. /\ setup' \in [pc : SetupPcs, left : Seq(Lines), n : Nat]
      /\ lists' \in [inner : InnerLists \cup {<<>>}, must : MustLists \cup {<<>>}]
  BY <1>4, <1>5, <1>6 DEF SetupPcs
<1>8. mustHitMasks' = <<>> /\ innerIpMasks' = innerIpMasks
  BY DEF LoadMustHits
<1>9. Table(<<>>) /\ Loading(<<>>, l, l)
  BY <1>6, LoadingStarts
<1>10. Table(mustHitMasks)'
  BY <1>8, <1>9 DEF Table
<1>11. Shapes'
  BY <1>1, <1>2, <1>7, <1>8, <1>10 DEF Shapes, LoadMustHits, Table
<1>12. /\ setup.pc = "inner" /\ setup.left = <<>> /\ setup'.pc = "must" /\ setup'.left = l
       /\ lists'.must = l /\ lists'.inner = lists.inner
  BY <1>4, <1>5 DEF LoadMustHits
<1>13. Inners' /\ Musts'
  BY <1>1, <1>8, <1>9, <1>12 DEF Inners, Musts
<1> QED BY <1>2, <1>3, <1>11, <1>13 DEF IInv

LEMMA LoadMustHitLineStep ==
  ASSUME ListsAssumption, IInv, LoadMustHitLine
  PROVE  IInv'
<1>1. Shapes /\ Inners /\ Musts
  BY DEF IInv
<1>2. conns' \in Seq(ConnSet) /\ Alike /\ Found'
  BY DisturbKeeps DEF LoadMustHitLine
<1>3. Cached' /\ Taken' /\ Counted' /\ FirstIsInspected'
  BY <1>2, AlikeKeeps DEF LoadMustHitLine
<1>4. setup \in [pc : SetupPcs, left : Seq(Lines), n : Nat]
  BY <1>1 DEF Shapes
<1>5. /\ setup.pc = "must" /\ setup.left \in Seq(Lines) /\ setup.left # <<>>
      /\ setup'.pc = "must" /\ setup'.left = Tail(setup.left)
  BY <1>4 DEF LoadMustHitLine
<1>6. Table(mustHitMasks) /\ Loading(mustHitMasks, lists.must, setup.left)
  BY <1>1, <1>5 DEF Musts, Shapes
<1>7. /\ Table(Store(mustHitMasks, Head(setup.left))) /\ Tail(setup.left) \in Seq(Lines)
      /\ Loading(Store(mustHitMasks, Head(setup.left)), lists.must, Tail(setup.left))
  BY <1>5, <1>6, LoadingGoesOn
<1>8. setup' \in [pc : SetupPcs, left : Seq(Lines), n : Nat]
  BY <1>4, <1>7 DEF LoadMustHitLine
<1>9. /\ mustHitMasks' = Store(mustHitMasks, Head(setup.left))
      /\ innerIpMasks' = innerIpMasks /\ lists' = lists
  BY DEF LoadMustHitLine
<1>10. Table(mustHitMasks)'
  BY <1>7, <1>9 DEF Table
<1>11. Shapes'
  BY <1>1, <1>2, <1>8, <1>9, <1>10 DEF Shapes, LoadMustHitLine, Table
<1>12. Inners' /\ Musts'
  BY <1>1, <1>5, <1>7, <1>9 DEF Inners, Musts
<1> QED BY <1>2, <1>3, <1>11, <1>12 DEF IInv

LEMMA SetupEndStep ==
  ASSUME IInv, SetupEnd
  PROVE  IInv'
<1>1. Shapes /\ Inners /\ Musts
  BY DEF IInv
<1>2. conns' \in Seq(ConnSet) /\ Alike /\ Found'
  BY NothingFound DEF SetupEnd, tables
<1>3. Cached' /\ Taken' /\ Counted' /\ FirstIsInspected'
  BY <1>2, AlikeKeeps DEF SetupEnd
<1>4. setup \in [pc : SetupPcs, left : Seq(Lines), n : Nat]
  BY <1>1 DEF Shapes
<1>5. setup' \in [pc : SetupPcs, left : Seq(Lines), n : Nat]
  BY <1>4 DEF SetupEnd, SetupPcs
<1>6. Shapes'
  BY <1>1, <1>2, <1>5 DEF Shapes, SetupEnd, tables, Table
<1>7. setup.pc = "must" /\ setup.left = <<>> /\ setup'.pc = "idle"
  BY <1>4 DEF SetupEnd
<1>8. Inners' /\ Musts'
  BY <1>1, <1>7 DEF SetupEnd, tables, Inners, Musts
<1> QED BY <1>2, <1>3, <1>6, <1>8 DEF IInv

LEMMA SetGlobalStep ==
  ASSUME IInv, NEW g \in BOOLEAN, SetGlobal(g)
  PROVE  IInv'
<1>1. Shapes /\ Inners /\ Musts
  BY DEF IInv
<1>2. conns' \in Seq(ConnSet) /\ Alike /\ Found'
  BY DisturbKeeps DEF SetGlobal
<1>3. Cached' /\ Taken' /\ Counted' /\ FirstIsInspected'
  BY <1>2, AlikeKeeps DEF SetGlobal
<1>4. Shapes'
  BY <1>1, <1>2 DEF Shapes, SetGlobal, Table
<1>5. Inners' /\ Musts'
  BY <1>1 DEF SetGlobal, Inners, Musts
<1> QED BY <1>2, <1>3, <1>4, <1>5 DEF IInv

LEMMA ConcurrentMapAccessStep ==
  ASSUME IInv, NEW c \in DOMAIN conns, ConcurrentMapAccess(c)
  PROVE  IInv'
<1>1. Shapes /\ Inners /\ Musts
  BY DEF IInv
<1>2. conns' \in Seq(ConnSet) /\ Alike /\ Found'
  BY NothingFound DEF ConcurrentMapAccess, tables
<1>3. Cached' /\ Taken' /\ Counted' /\ FirstIsInspected'
  BY <1>2, AlikeKeeps DEF ConcurrentMapAccess
<1>4. Shapes'
  BY <1>1, <1>2 DEF Shapes, ConcurrentMapAccess, tables, Table
<1>5. Inners' /\ Musts'
  BY <1>1 DEF ConcurrentMapAccess, tables, Inners, Musts
<1> QED BY <1>2, <1>3, <1>4, <1>5 DEF IInv

\* A step that changes one connection.
LEMMA OneChanges ==
  ASSUME Shapes, NEW c \in DOMAIN conns, NEW k \in ConnSet, conns' = [conns EXCEPT ![c] = k]
  PROVE  /\ conns' \in Seq(ConnSet) /\ DOMAIN conns' = DOMAIN conns /\ conns'[c] = k
         /\ \A d \in DOMAIN conns : d # c => conns'[d] = conns[d]
<1>1. conns \in Seq(ConnSet)
  BY DEF Shapes
<1>2. c \in 1 .. Len(conns)
  BY <1>1
<1>3. conns' \in Seq(ConnSet)
  BY <1>1, <1>2, ExceptSeq
<1> QED BY <1>1, <1>3

\* Handle's reads leave the tables, the lists and the counters alone.
LEMMA ReadingKeeps ==
  ASSUME IInv, conns' \in Seq(ConnSet),
         UNCHANGED <<tables, matcher, ipToDomain, counter, lists, setup, dead>>
  PROVE  Shapes' /\ Inners' /\ Musts'
<1>1. Shapes /\ Inners /\ Musts
  BY DEF IInv
<1>2. Shapes'
  BY <1>1 DEF Shapes, tables, Table
<1> QED BY <1>1, <1>2 DEF tables, Inners, Musts

\* What Handle knows of the connections it does not look at stays.
LEMMA OthersFound ==
  ASSUME IInv, NEW c \in DOMAIN conns, DOMAIN conns' = DOMAIN conns,
         \A d \in DOMAIN conns : d # c => conns'[d] = conns[d],
         UNCHANGED tables, Finds(conns[c])'
  PROVE  Found'
<1>1. \A d \in DOMAIN conns : Finds(conns[d])
  BY DEF IInv, Found
<1> SUFFICES ASSUME NEW d \in DOMAIN conns, d # c PROVE Finds(conns[d])'
  BY DEF Found
<1>2. conns'[d] = conns[d] /\ Finds(conns[d])
  BY <1>1
<1> QED BY <1>2 DEF Finds, MustHit, InnerIP, tables

LEMMA IsMustHitsStep ==
  ASSUME IInv, NEW c \in DOMAIN conns, IsMustHits(c)
  PROVE  IInv'
<1>1. Shapes /\ Found
  BY DEF IInv
<1>2. conns[c] \in ConnSet /\ Finds(conns[c]) /\ conns[c].pc = "must"
  BY <1>1, ConnAt DEF Found, IsMustHits
<1> DEFINE k == [conns[c] EXCEPT !.pc =
                   IF conns[c].name # NoHost THEN "byName"
                   ELSE IF MustHit(conns[c].ip) THEN "proxied" ELSE "inner"]
<1>3. k \in ConnSet
  BY <1>2 DEF ConnSet, ConnPcs
<1>4. conns' = [conns EXCEPT ![c] = k] /\ UNCHANGED tables
  BY DEF IsMustHits
<1>5. /\ k.port = conns[c].port /\ k.ip = conns[c].ip /\ k.host = conns[c].host
      /\ k.sent = conns[c].sent /\ k.name = conns[c].name /\ k.known = conns[c].known
      /\ k.first = conns[c].first /\ k.seen = conns[c].seen /\ k.calm = conns[c].calm
      /\ k.pc = IF conns[c].name # NoHost THEN "byName"
                ELSE IF MustHit(conns[c].ip) THEN "proxied" ELSE "inner"
  BY <1>2 DEF ConnSet
<1> HIDE DEF k
<1>6. /\ conns' \in Seq(ConnSet) /\ DOMAIN conns' = DOMAIN conns /\ conns'[c] = k
      /\ \A d \in DOMAIN conns : d # c => conns'[d] = conns[d]
  BY <1>1, <1>3, <1>4, OneChanges
<1>7. Alike
  BY <1>5, <1>6 DEF Alike
<1>8. Cached' /\ Taken' /\ Counted' /\ FirstIsInspected'
  BY <1>7, AlikeKeeps DEF IsMustHits
<1>9. \A ip : (MustHit(ip) <=> MustHit(ip)') /\ (InnerIP(ip) <=> InnerIP(ip)')
  BY <1>4 DEF MustHit, InnerIP, tables
<1>10. Finds(conns[c])'
  BY <1>2, <1>5, <1>6, <1>9 DEF Finds
<1>11. Found'
  BY <1>4, <1>6, <1>10, OthersFound
<1>12. Shapes' /\ Inners' /\ Musts'
  BY <1>6, ReadingKeeps DEF IsMustHits
<1> QED BY <1>8, <1>11, <1>12 DEF IInv

LEMMA IsInnerIPStep ==
  ASSUME IInv, NEW c \in DOMAIN conns, IsInnerIP(c)
  PROVE  IInv'
<1>1. Shapes /\ Found
  BY DEF IInv
<1>2. conns[c] \in ConnSet /\ Finds(conns[c]) /\ conns[c].pc = "inner"
  BY <1>1, ConnAt DEF Found, IsInnerIP
<1> DEFINE k == [conns[c] EXCEPT !.pc = IF InnerIP(conns[c].ip) THEN "direct" ELSE "proxied"]
<1>3. k \in ConnSet
  BY <1>2 DEF ConnSet, ConnPcs
<1>4. conns' = [conns EXCEPT ![c] = k] /\ UNCHANGED tables
  BY DEF IsInnerIP
<1>5. /\ k.port = conns[c].port /\ k.ip = conns[c].ip /\ k.host = conns[c].host
      /\ k.sent = conns[c].sent /\ k.name = conns[c].name /\ k.known = conns[c].known
      /\ k.first = conns[c].first /\ k.seen = conns[c].seen /\ k.calm = conns[c].calm
      /\ k.pc = IF InnerIP(conns[c].ip) THEN "direct" ELSE "proxied"
  BY <1>2 DEF ConnSet
<1> HIDE DEF k
<1>6. /\ conns' \in Seq(ConnSet) /\ DOMAIN conns' = DOMAIN conns /\ conns'[c] = k
      /\ \A d \in DOMAIN conns : d # c => conns'[d] = conns[d]
  BY <1>1, <1>3, <1>4, OneChanges
<1>7. Alike
  BY <1>5, <1>6 DEF Alike
<1>8. Cached' /\ Taken' /\ Counted' /\ FirstIsInspected'
  BY <1>7, AlikeKeeps DEF IsInnerIP
<1>9. \A ip : (MustHit(ip) <=> MustHit(ip)') /\ (InnerIP(ip) <=> InnerIP(ip)')
  BY <1>4 DEF MustHit, InnerIP, tables
<1>10. Finds(conns[c])'
  BY <1>2, <1>5, <1>6, <1>9 DEF Finds
<1>11. Found'
  BY <1>4, <1>6, <1>10, OthersFound
<1>12. Shapes' /\ Inners' /\ Musts'
  BY <1>6, ReadingKeeps DEF IsInnerIP
<1> QED BY <1>8, <1>11, <1>12 DEF IInv

LEMMA NeedProxyStep ==
  ASSUME ListsAssumption, IInv, NEW c \in DOMAIN conns, NeedProxy(c)
  PROVE  IInv'
<1>1. Shapes /\ Found /\ Cached /\ Taken /\ Counted /\ FirstIsInspected
  BY DEF IInv
<1>2. conns[c] \in ConnSet /\ Finds(conns[c]) /\ conns[c].pc = "accepted"
  BY <1>1, ConnAt DEF Found, NeedProxy
<1>3. PICK cached \in BOOLEAN : cached <=> conns[c].ip \in DOMAIN ipToDomain
  OBVIOUS
<1>4. PICK h : h = IF cached THEN ipToDomain[conns[c].ip] ELSE NoHost
  OBVIOUS
<1>5. PICK q \in BOOLEAN : q <=> setup.pc \in {"idle", "rules", "inners"}
  OBVIOUS
<1>6. ipToDomain \in [DOMAIN ipToDomain -> Hosts]
  BY <1>1 DEF Shapes
<1>7. h \in Hosts \cup {NoHost} /\ (cached <=> h # NoHost)
  BY <1>3, <1>4, <1>6 DEF ListsAssumption
<1> DEFINE k == [conns[c] EXCEPT !.pc = "must", !.name = h, !.known = cached, !.calm = q]
<1>8. k \in ConnSet
  BY <1>2, <1>7 DEF ConnSet, ConnPcs
<1>9. conns' = [conns EXCEPT ![c] = k]
  BY <1>3, <1>4, <1>5 DEF NeedProxy
<1>10. /\ k.port = conns[c].port /\ k.ip = conns[c].ip /\ k.host = conns[c].host
       /\ k.sent = conns[c].sent /\ k.name = h /\ k.known = cached
       /\ k.first = conns[c].first /\ k.seen = conns[c].seen /\ k.pc = "must"
  BY <1>2 DEF ConnSet
<1> HIDE DEF k
<1>11. /\ conns' \in Seq(ConnSet) /\ DOMAIN conns' = DOMAIN conns /\ conns'[c] = k
       /\ \A d \in DOMAIN conns : d # c => conns'[d] = conns[d]
  BY <1>1, <1>8, <1>9, OneChanges
<1>12. UNCHANGED <<tables, ipToDomain, counter>>
  BY DEF NeedProxy
<1>13. \A a, g : Carried(a, g) => Carried(a, g)'
  BY <1>10, <1>11 DEF Carried
<1>14. Cached'
  BY <1>1, <1>12, <1>13 DEF Cached
<1>15. h # NoHost => Carried(conns[c].ip, h)
  BY <1>1, <1>3, <1>4, <1>7 DEF Cached
<1>16. Taken'
  <2> SUFFICES ASSUME NEW d \in DOMAIN conns, conns'[d].name # NoHost
               PROVE  Carried(conns[d].ip, conns[d].name)'
    BY <1>11 DEF Taken
  <2>1. CASE d = c
    BY <2>1, <1>10, <1>11, <1>13, <1>15
  <2>2. CASE d # c
    BY <2>2, <1>1, <1>11, <1>13 DEF Taken
  <2> QED BY <2>1, <2>2
<1>17. /\ \A d \in DOMAIN conns : /\ conns'[d].port = conns[d].port
                                  /\ conns'[d].sent = conns[d].sent
                                  /\ conns'[d].first = conns[d].first
                                  /\ conns'[d].seen = conns[d].seen
                                  /\ conns'[d].ip = conns[d].ip
                                  /\ conns'[d].host = conns[d].host
  BY <1>10, <1>11
<1>18. Counted'
  BY <1>1, <1>11, <1>12, <1>17 DEF Counted
<1>19. FirstIsInspected'
  BY <1>1, <1>11, <1>12, <1>17 DEF FirstIsInspected
<1>20. Finds(conns[c])'
  BY <1>7, <1>10, <1>11 DEF Finds
<1>21. Found'
  BY <1>11, <1>12, <1>20, OthersFound
<1>22. Shapes' /\ Inners' /\ Musts'
  BY <1>11, ReadingKeeps DEF NeedProxy
<1> QED BY <1>14, <1>16, <1>18, <1>19, <1>21, <1>22 DEF IInv

LEMMA OpenStep ==
  ASSUME ListsAssumption, IInv, NEW p \in Ports, NEW a \in Addrs,
         NEW h \in Hosts \cup {NoHost}, Open(p, a, h)
  PROVE  IInv'
<1>1. Shapes /\ Found /\ Cached /\ Taken /\ Counted /\ FirstIsInspected
  BY DEF IInv
<1>2. PICK k : k = NewConn(p, a, h)
  OBVIOUS
<1>3. PICK f \in BOOLEAN : f <=> \A c \in DOMAIN conns : conns[c].port # p
  OBVIOUS
<1>4. k = [port |-> p, ip |-> a, host |-> h, sent |-> 0, pc |-> "syn", name |-> NoHost,
           calm |-> TRUE, known |-> FALSE, first |-> f, seen |-> {}]
  BY <1>2, <1>3 DEF NewConn
<1>5. k \in ConnSet
  BY <1>4 DEF ConnSet, ConnPcs
<1>6. PICK m : m = Len(conns) + 1
  OBVIOUS
<1>7. conns \in Seq(ConnSet) /\ conns' = Append(conns, k)
  BY <1>1, <1>2 DEF Shapes, Open
<1>8. conns' \in Seq(ConnSet)
  BY <1>5, <1>7
<1>9. /\ DOMAIN conns' = DOMAIN conns \cup {m} /\ m \notin DOMAIN conns /\ conns'[m] = k
      /\ \A c \in DOMAIN conns : conns'[c] = conns[c]
  BY <1>5, <1>6, <1>7
<1>10. UNCHANGED <<tables, ipToDomain, counter>>
  BY DEF Open
<1>11. \A x, y : Carried(x, y) => Carried(x, y)'
  BY <1>9 DEF Carried
<1>12. Cached'
  BY <1>1, <1>10, <1>11 DEF Cached
<1>13. Taken'
  BY <1>1, <1>4, <1>9, <1>11 DEF Taken
<1>14. \A c \in DOMAIN conns : conns[c].port = p => conns[c].sent >= 3
  BY DEF Open
<1>15. Counted'
  <2>1. \A q \in Ports : (\A c \in DOMAIN conns' : conns'[c].port # q) => counter'[q] = 0
    BY <1>1, <1>9, <1>10 DEF Counted
  <2>2. \A c \in DOMAIN conns' : conns'[c].sent < 3 => conns'[c].seen = {}
    BY <1>1, <1>4, <1>9 DEF Counted
  <2>3. ASSUME NEW c \in DOMAIN conns', conns'[c].first, conns'[c].sent < 3
        PROVE  /\ counter'[conns'[c].port] = conns'[c].sent
               /\ \A d \in DOMAIN conns' : conns'[d].port = conns'[c].port => d = c
    <3>1. CASE c = m
      <4>1. \A d \in DOMAIN conns : conns[d].port # p
        BY <3>1, <2>3, <1>3, <1>4, <1>9
      <4>2. counter[p] = 0
        BY <4>1, <1>1 DEF Counted
      <4> QED BY <3>1, <4>1, <4>2, <1>4, <1>9, <1>10
    <3>2. CASE c # m
      <4>1. c \in DOMAIN conns /\ conns'[c] = conns[c] /\ conns[c].sent \in 0 .. 4
        BY <3>2, <1>1, <1>9, ConnAt DEF ConnSet
      <4>2. conns[c].port # p
        BY <4>1, <2>3, <1>14
      <4>3. /\ counter[conns[c].port] = conns[c].sent
            /\ \A d \in DOMAIN conns : conns[d].port = conns[c].port => d = c
        BY <4>1, <2>3, <1>1 DEF Counted
      <4> QED BY <4>1, <4>2, <4>3, <1>4, <1>9, <1>10
    <3> QED BY <3>1, <3>2
  <2> QED BY <2>1, <2>2, <2>3 DEF Counted
<1>16. FirstIsInspected'
  BY <1>1, <1>4, <1>9, <1>10 DEF FirstIsInspected
<1>17. Found'
  <2> SUFFICES ASSUME NEW c \in DOMAIN conns' PROVE Finds(conns[c])'
    BY DEF Found
  <2>1. CASE c = m
    BY <2>1, <1>4, <1>9 DEF Finds
  <2>2. CASE c # m
    <3>1. conns'[c] = conns[c] /\ Finds(conns[c])
      BY <2>2, <1>1, <1>9 DEF Found
    <3> QED BY <3>1, <1>10 DEF Finds, MustHit, InnerIP, tables
  <2> QED BY <2>1, <2>2
<1>18. Shapes' /\ Inners' /\ Musts'
  BY <1>8, ReadingKeeps DEF Open
<1> QED BY <1>12, <1>13, <1>15, <1>16, <1>17, <1>18 DEF IInv

\* What DirectIPAndHost makes of the cache: nothing is taken out of it, and
\* what it adds is a name the rules match.
LEMMA CacheGrows ==
  ASSUME Shapes, ListsAssumption, NEW h \in Hosts, NEW a \in Addrs
  PROVE  LET t == DirectIPAndHost(h, a) IN
         /\ t \in [DOMAIN t -> Hosts] /\ DOMAIN t \subseteq Addrs
         /\ DOMAIN ipToDomain \subseteq DOMAIN t
         /\ \A x \in DOMAIN t : \/ x \in DOMAIN ipToDomain /\ t[x] = ipToDomain[x]
                                \/ x = a /\ t[x] = h /\ \E r \in Rules : h \in r
         /\ h \in matcher => a \in DOMAIN t
<1>1. /\ ipToDomain \in [DOMAIN ipToDomain -> Hosts] /\ DOMAIN ipToDomain \subseteq Addrs
      /\ matcher \in Rules \cup {{}}
  BY DEF Shapes
<1>2. CASE a \in DOMAIN ipToDomain \/ h \notin matcher
  BY <1>1, <1>2 DEF DirectIPAndHost
<1>3. CASE ~(a \in DOMAIN ipToDomain \/ h \notin matcher)
  <2>1. matcher \in Rules
    BY <1>1, <1>3
  <2> QED BY <1>1, <1>3, <2>1 DEF DirectIPAndHost
<1> QED BY <1>2, <1>3

LEMMA WriteToStackStep ==
  ASSUME ListsAssumption, IInv, NEW c \in DOMAIN conns, WriteToStack(c)
  PROVE  IInv'
<1>1. Shapes /\ Inners /\ Musts /\ Found /\ Cached /\ Taken /\ Counted /\ FirstIsInspected
  BY DEF IInv
<1>2. /\ conns[c] \in ConnSet /\ conns[c].sent \in 0 .. 4 /\ conns[c].sent < 4
      /\ conns[c].port \in Ports /\ conns[c].ip \in Addrs
      /\ conns[c].host \in Hosts \cup {NoHost}
  BY <1>1, ConnAt DEF ConnSet, WriteToStack
<1>3. counter \in [Ports -> Nat] /\ matcher \in SUBSET Hosts
  BY <1>1 DEF Shapes, ListsAssumption
<1>4. PICK payload \in BOOLEAN : payload <=> conns[c].sent >= 2 /\ conns[c].host # NoHost
  OBVIOUS
<1>5. PICK q : q = IF conns[c].sent = 1 /\ conns[c].pc = "syn" THEN "accepted" ELSE conns[c].pc
  OBVIOUS
<1>6. PICK z : z = IF conns[c].sent = 2 /\ payload THEN matcher ELSE conns[c].seen
  OBVIOUS
<1> DEFINE k == [conns[c] EXCEPT !.sent = conns[c].sent + 1, !.pc = q, !.seen = z]
<1>7. k \in ConnSet
  <2>1. conns[c].sent + 1 \in 0 .. 4
    BY <1>2
  <2>2. q \in ConnPcs /\ z \in SUBSET Hosts
    BY <1>2, <1>3, <1>5, <1>6 DEF ConnSet, ConnPcs
  <2> QED BY <2>1, <2>2, <1>2 DEF ConnSet
<1>8. conns' = [conns EXCEPT ![c] = k]
  BY <1>4, <1>5, <1>6 DEF WriteToStack
<1>9. /\ k.port = conns[c].port /\ k.ip = conns[c].ip /\ k.host = conns[c].host
      /\ k.sent = conns[c].sent + 1 /\ k.name = conns[c].name /\ k.known = conns[c].known
      /\ k.first = conns[c].first /\ k.seen = z /\ k.pc = q /\ k.calm = conns[c].calm
  BY <1>2 DEF ConnSet
<1> HIDE DEF k
<1>10. /\ conns' \in Seq(ConnSet) /\ DOMAIN conns' = DOMAIN conns /\ conns'[c] = k
       /\ \A d \in DOMAIN conns : d # c => conns'[d] = conns[d]
  BY <1>1, <1>7, <1>8, OneChanges
<1>11. /\ UNCHANGED tables
       /\ counter' = [counter EXCEPT ![conns[c].port] = counter[conns[c].port] + 1]
  BY DEF WriteToStack
<1>12. ipToDomain' = IF Inspected(counter[conns[c].port] + 1) /\ payload
                     THEN DirectIPAndHost(conns[c].host, conns[c].ip) ELSE ipToDomain
  BY <1>4 DEF WriteToStack
<1>13. /\ ipToDomain' \in [DOMAIN ipToDomain' -> Hosts] /\ DOMAIN ipToDomain' \subseteq Addrs
       /\ DOMAIN ipToDomain \subseteq DOMAIN ipToDomain'
       /\ \A x \in DOMAIN ipToDomain' :
             \/ x \in DOMAIN ipToDomain /\ ipToDomain'[x] = ipToDomain[x]
             \/ /\ x = conns[c].ip /\ ipToDomain'[x] = conns[c].host
                /\ conns[c].sent >= 2 /\ \E r \in Rules : conns[c].host \in r
  <2>1. CASE Inspected(counter[conns[c].port] + 1) /\ payload
    <3>1. conns[c].host \in Hosts /\ conns[c].sent >= 2
      BY <2>1, <1>2, <1>4
    <3>2. ipToDomain' = DirectIPAndHost(conns[c].host, conns[c].ip)
      BY <2>1, <1>12
    <3> QED BY <3>1, <3>2, <1>1, <1>2, CacheGrows
  <2>2. CASE ~(Inspected(counter[conns[c].port] + 1) /\ payload)
    BY <2>2, <1>1, <1>12 DEF Shapes
  <2> QED BY <2>1, <2>2
<1>14. \A x, y : Carried(x, y) => Carried(x, y)'
  <2> SUFFICES ASSUME NEW x, NEW y, Carried(x, y) PROVE Carried(x, y)'
    OBVIOUS
  <2>1. PICK b \in DOMAIN conns : conns[b].ip = x /\ conns[b].sent >= 3 /\ conns[b].host = y
    BY DEF Carried
  <2>2. conns'[b].ip = x /\ conns'[b].sent >= 3 /\ conns'[b].host = y
    BY <2>1, <1>2, <1>9, <1>10
  <2> QED BY <2>1, <2>2, <1>10 DEF Carried
<1>15. Cached'
  <2> SUFFICES ASSUME NEW x \in DOMAIN ipToDomain' PROVE Carried(x, ipToDomain[x])'
    BY DEF Cached
  <2>1. CASE x \in DOMAIN ipToDomain /\ ipToDomain'[x] = ipToDomain[x]
    BY <2>1, <1>1, <1>14 DEF Cached
  <2>2. CASE /\ x = conns[c].ip /\ ipToDomain'[x] = conns[c].host
             /\ conns[c].sent >= 2 /\ \E r \in Rules : conns[c].host \in r
    <3>1. conns'[c].ip = x /\ conns'[c].sent >= 3 /\ conns'[c].host = ipToDomain'[x]
      BY <2>2, <1>2, <1>9, <1>10
    <3> QED BY <2>2, <3>1, <1>10 DEF Carried
  <2> QED BY <2>1, <2>2, <1>13
<1>16. Taken'
  BY <1>1, <1>9, <1>10, <1>14 DEF Taken
<1>17. Counted'
  <2>1. /\ counter'[conns[c].port] = counter[conns[c].port] + 1
        /\ \A p \in Ports : p # conns[c].port => counter'[p] = counter[p]
    BY <1>2, <1>3, <1>11
  <2>2. \A p \in Ports : (\A d \in DOMAIN conns' : conns'[d].port # p) => counter'[p] = 0
    BY <2>1, <1>1, <1>9, <1>10 DEF Counted
  <2>3. ASSUME NEW d \in DOMAIN conns, conns'[d].first, conns'[d].sent < 3
        PROVE  /\ counter'[conns'[d].port] = conns'[d].sent
               /\ \A e \in DOMAIN conns : conns'[e].port = conns'[d].port => e = d
    <3>1. conns[d].first /\ conns[d].sent < 3 /\ conns[d].port \in Ports
      <4>1. conns[d] \in ConnSet
        BY <1>1, ConnAt
      <4> QED BY <4>1, <2>3, <1>2, <1>9, <1>10 DEF ConnSet
    <3>2. /\ counter[conns[d].port] = conns[d].sent
          /\ \A e \in DOMAIN conns : conns[e].port = conns[d].port => e = d
      BY <3>1, <1>1 DEF Counted
    <3>3. \A e \in DOMAIN conns : conns'[e].port = conns[e].port
      BY <1>9, <1>10
    <3>4. CASE d = c
      BY <3>2, <3>3, <3>4, <2>1, <1>9, <1>10
    <3>5. CASE d # c
      BY <3>1, <3>2, <3>3, <3>5, <2>1, <1>10
    <3> QED BY <3>4, <3>5
  <2>4. \A d \in DOMAIN conns : conns'[d].sent < 3 => conns'[d].seen = {}
    <3> SUFFICES ASSUME NEW d \in DOMAIN conns, conns'[d].sent < 3 PROVE conns'[d].seen = {}
      OBVIOUS
    <3>1. CASE d = c
      <4>1. conns[c].sent < 2
        BY <3>1, <1>2, <1>9, <1>10
      <4> QED BY <3>1, <4>1, <1>1, <1>2, <1>6, <1>9, <1>10 DEF Counted
    <3>2. CASE d # c
      BY <3>2, <1>1, <1>10 DEF Counted
    <3> QED BY <3>1, <3>2
  <2> QED BY <2>2, <2>3, <2>4, <1>10 DEF Counted
<1>18. FirstIsInspected'
  <2> SUFFICES ASSUME NEW d \in DOMAIN conns, conns'[d].first, conns'[d].sent >= 3,
                      conns'[d].host \in conns'[d].seen
               PROVE  conns'[d].ip \in DOMAIN ipToDomain'
    BY <1>10 DEF FirstIsInspected
  <2>1. CASE d # c
    BY <2>1, <1>1, <1>10, <1>13 DEF FirstIsInspected
  <2>2. CASE d = c /\ conns[c].sent >= 3
    BY <2>2, <1>1, <1>2, <1>6, <1>9, <1>10, <1>13 DEF FirstIsInspected
  <2>3. CASE d = c /\ ~(conns[c].sent >= 3)
    <3>1. conns[c].sent = 2 /\ conns[c].first
      BY <2>3, <1>2, <1>9, <1>10
    <3>2. conns[c].seen = {} /\ counter[conns[c].port] = 2
      BY <3>1, <1>1 DEF Counted
    <3>3. payload /\ z = matcher
      BY <2>3, <3>1, <3>2, <1>6, <1>9, <1>10
    <3>4. Inspected(counter[conns[c].port] + 1)
      BY <3>2 DEF Inspected
    <3>5. conns[c].host \in matcher /\ conns[c].host \in Hosts
      BY <2>3, <3>3, <1>3, <1>9, <1>10
    <3>6. ipToDomain' = DirectIPAndHost(conns[c].host, conns[c].ip)
      BY <3>3, <3>4, <1>12
    <3>7. conns[c].ip \in DOMAIN ipToDomain'
      BY <3>5, <3>6, <1>1, <1>2, CacheGrows
    <3> QED BY <2>3, <3>7, <1>9, <1>10
  <2> QED BY <2>1, <2>2, <2>3
<1>19. Found'
  <2>1. Finds(conns[c])
    BY <1>1 DEF Found
  <2>2. q \in {"inner", "direct", "proxied", "byName"} => conns[c].pc = q
    BY <1>5
  <2>3. \A ip : (MustHit(ip) <=> MustHit(ip)') /\ (InnerIP(ip) <=> InnerIP(ip)')
    BY <1>11 DEF MustHit, InnerIP, tables
  <2>4. Finds(conns[c])'
    BY <2>1, <2>2, <2>3, <1>9, <1>10 DEF Finds
  <2> QED BY <2>4, <1>10, <1>11, OthersFound
<1>20. Shapes'
  <2>1. counter' \in [Ports -> Nat]
    BY <1>2, <1>3, <1>11
  <2> QED BY <2>1, <1>1, <1>10, <1>13 DEF Shapes, WriteToStack, tables, Table
<1>21. Inners' /\ Musts'
  BY <1>1 DEF WriteToStack, tables, Inners, Musts
<1> QED BY <1>15, <1>16, <1>17, <1>18, <1>19, <1>20, <1>21 DEF IInv

LEMMA NextKeeps ==
  ASSUME ListsAssumption, IInv, [Next]_vars
  PROVE  IInv'
<1>1. CASE SetupBegin
  BY <1>1, SetupBeginStep
<1>2. CASE Setup
  BY <1>2, SetupStep
<1>3. CASE LoadInners
  BY <1>3, LoadInnersStep
<1>4. CASE LoadInnerLine
  BY <1>4, LoadInnerLineStep
<1>5. CASE LoadMustHits
  BY <1>5, LoadMustHitsStep
<1>6. CASE LoadMustHitLine
  BY <1>6, LoadMustHitLineStep
<1>7. CASE SetupEnd
  BY <1>7, SetupEndStep
<1>8. CASE \E g \in BOOLEAN : SetGlobal(g)
  BY <1>8, SetGlobalStep
<1>9. CASE \E p \in Ports, a \in Addrs, h \in Hosts \cup {NoHost} : Open(p, a, h)
  BY <1>9, OpenStep
<1>10. CASE \E c \in DOMAIN conns : WriteToStack(c)
  BY <1>10, WriteToStackStep
<1>11. CASE \E c \in DOMAIN conns : Handle(c)
  BY <1>11, NeedProxyStep, IsMustHitsStep, IsInnerIPStep DEF Handle
<1>12. CASE \E c \in DOMAIN conns : ConcurrentMapAccess(c)
  BY <1>12, ConcurrentMapAccessStep
<1>13. CASE UNCHANGED vars
  <2>1. Shapes /\ Inners /\ Musts
    BY DEF IInv
  <2>2. Alike /\ Found' /\ conns' \in Seq(ConnSet)
    BY <1>13, NothingFound DEF vars
  <2>3. Cached' /\ Taken' /\ Counted' /\ FirstIsInspected'
    BY <1>13, <2>2, AlikeKeeps DEF vars
  <2>4. Shapes' /\ Inners' /\ Musts'
    BY <1>13, <2>2, ReadingKeeps DEF vars, tables
  <2> QED BY <2>2, <2>3, <2>4 DEF IInv
<1> QED BY <1>1, <1>2, <1>3, <1>4, <1>5, <1>6, <1>7, <1>8, <1>9, <1>10, <1>11, <1>12, <1>13
        DEF Next

LEMMA Always ==
  ASSUME ListsAssumption
  PROVE  Spec => []IInv
<1>1. Init => IInv
  BY InitHolds
<1>2. IInv /\ [Next]_vars => IInv'
  BY NextKeeps
<1> QED BY <1>1, <1>2, PTL DEF Spec
-----------------------------------------------------------------------------
(* What follows *)

LEMMA IInvTypes ==
  ASSUME ListsAssumption, IInv
  PROVE  TypeOK
<1>1. Shapes
  BY DEF IInv
<1>2. \A c \in DOMAIN conns : conns[c] \in ConnSet
  BY <1>1, ConnAt
<1>3. \A c \in DOMAIN conns :
         /\ conns[c].port \in Ports /\ conns[c].ip \in Addrs
         /\ conns[c].name \in Hosts \cup {NoHost}
         /\ conns[c].pc \in {"syn", "accepted", "must", "inner", "byName",
                             "proxied", "direct"}
  BY <1>2 DEF ConnSet, ConnPcs
<1>4. \A t \in {innerIpMasks, mustHitMasks} :
         DOMAIN t \subseteq Addrs /\ Range(t) \subseteq 0 .. AddrBits
  BY <1>1 DEF Shapes, Table, Range
<1>5. DOMAIN ipToDomain \subseteq Addrs /\ Range(ipToDomain) \subseteq Hosts
  BY <1>1 DEF Shapes, Range
<1>6. matcher \subseteq Hosts
  BY <1>1 DEF Shapes, ListsAssumption
<1>7. /\ global \in BOOLEAN /\ dead \in BOOLEAN /\ counter \in [Ports -> Nat]
      /\ lists.inner \in InnerLists \cup {<<>>} /\ lists.must \in MustLists \cup {<<>>}
      /\ setup.pc \in {"idle", "rules", "inners", "inner", "must"}
  BY <1>1 DEF Shapes, SetupPcs
<1> QED BY <1>3, <1>4, <1>5, <1>6, <1>7 DEF TypeOK

LEMMA IInvDecides ==
  ASSUME ListsAssumption, CanonicalLists, IInv
  PROVE  DecisionMatchesLists
<1>1. Shapes /\ Inners /\ Musts /\ Found
  BY DEF IInv
<1> SUFFICES ASSUME NEW c \in DOMAIN conns, conns[c].calm, setup.pc = "idle"
             PROVE  /\ conns[c].pc = "byName" => conns[c].known
                    /\ conns[c].pc \in {"proxied", "direct"} =>
                          /\ ~conns[c].known
                          /\ conns[c].pc = "direct" <=> MeantDirect(conns[c].ip)
  BY DEF DecisionMatchesLists
<1>2. Finds(conns[c])
  BY <1>1 DEF Found
<1>3. Loading(innerIpMasks, lists.inner, <<>>) /\ Loading(mustHitMasks, lists.must, <<>>)
  BY <1>1 DEF Inners, Musts
<1>4. /\ lists.inner \in InnerLists \cup {<<>>} /\ lists.must \in MustLists \cup {<<>>}
      /\ global \in BOOLEAN
  BY <1>1 DEF Shapes
<1>5. \A l \in InnerLists \cup MustLists \cup {<<>>} :
         /\ l \in Seq(Lines)
         /\ \A i, j \in DOMAIN l : /\ Mask(l[i].ip, l[i].len) = l[i].ip
                                   /\ l[i].ip = l[j].ip => l[i].len = l[j].len
  <2>1. DOMAIN <<>> = {} /\ <<>> \in Seq(Lines)
    OBVIOUS
  <2>2. \A l \in InnerLists \cup MustLists : l \in Seq(Lines)
    BY DEF ListsAssumption
  <2> QED BY <2>1, <2>2 DEF CanonicalLists
<1>6. /\ DOMAIN innerIpMasks = {} <=> lists.inner = <<>>
      /\ Hit(innerIpMasks, conns[c].ip) <=> Listed(lists.inner, conns[c].ip)
  <2>1. /\ lists.inner \in Seq(Lines)
        /\ \A i, j \in DOMAIN lists.inner :
              /\ Mask(lists.inner[i].ip, lists.inner[i].len) = lists.inner[i].ip
              /\ lists.inner[i].ip = lists.inner[j].ip
                    => lists.inner[i].len = lists.inner[j].len
    BY <1>4, <1>5
  <2> QED BY <2>1, <1>3, LoadedTable
<1>7. /\ DOMAIN mustHitMasks = {} <=> lists.must = <<>>
      /\ Hit(mustHitMasks, conns[c].ip) <=> Listed(lists.must, conns[c].ip)
  <2>1. /\ lists.must \in Seq(Lines)
        /\ \A i, j \in DOMAIN lists.must :
              /\ Mask(lists.must[i].ip, lists.must[i].len) = lists.must[i].ip
              /\ lists.must[i].ip = lists.must[j].ip
                    => lists.must[i].len = lists.must[j].len
    BY <1>4, <1>5
  <2> QED BY <2>1, <1>3, LoadedTable
<1>8. Hit(mustHitMasks, conns[c].ip) => DOMAIN mustHitMasks # {}
  BY DEF Hit
<1>9. MeantDirect(conns[c].ip) <=> ~MustHit(conns[c].ip) /\ InnerIP(conns[c].ip)
  BY <1>4, <1>6, <1>7, <1>8 DEF MeantDirect, MustHit, InnerIP
<1> QED BY <1>2, <1>9 DEF Finds

LEMMA IInvCorrect ==
  ASSUME ListsAssumption, CanonicalLists, IInv
  PROVE  TypeOK /\ DecisionMatchesLists /\ NamesWereSeen /\ FirstIsInspected
<1>1. NamesWereSeen /\ FirstIsInspected
  BY DEF IInv, Taken, Carried, NamesWereSeen
<1> QED BY <1>1, IInvTypes, IInvDecides

\* The tables, the counters and the connections keep their types.
THEOREM TypeCorrect ==
  ASSUME ListsAssumption
  PROVE  Spec => []TypeOK
<1>1. IInv => TypeOK
  BY IInvTypes
<1> QED BY <1>1, Always, PTL

\* A connection Handle decides about while no list is loaded goes where the
\* lists say, though Handle reads three tables at three moments and the
\* loaders take no lock; for any lists written as those of the program are.
THEOREM DecidesRight ==
  ASSUME ListsAssumption, CanonicalLists
  PROVE  Spec => []DecisionMatchesLists
<1>1. IInv => DecisionMatchesLists
  BY IInvDecides
<1> QED BY <1>1, Always, PTL

\* The proxy is asked to reach a name only when a packet to the very address
\* carried it before and some rules matched it.
THEOREM NamesSeen ==
  ASSUME ListsAssumption
  PROVE  Spec => []NamesWereSeen
<1>1. IInv => NamesWereSeen
  BY DEF IInv, Taken, Carried, NamesWereSeen
<1> QED BY <1>1, Always, PTL

\* The packet with the host name of a port's first connection is among those
\* WriteToStack inspects, whatever other ports send meanwhile.
THEOREM FirstInspected ==
  ASSUME ListsAssumption
  PROVE  Spec => []FirstIsInspected
<1>1. IInv => FirstIsInspected
  BY DEF IInv
<1> QED BY <1>1, Always, PTL
=============================================================================
