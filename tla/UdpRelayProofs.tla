---------------------------- MODULE UdpRelayProofs ----------------------------
(***************************************************************************)
(* Proofs about UdpRelay for any number of connections, destinations and   *)
(* packets, any capacity of the queue, and whether or not the stack is     *)
(* stopped.                                                                *)
(*                                                                         *)
(* None of the invariants is inductive.  IInv adds where each goroutine    *)
(* can be, what its local variables mean there, and how the state of a     *)
(* connection, its socket and the goroutine that dials for it hang         *)
(* together.                                                               *)
(***************************************************************************)
EXTENDS UdpRelay, TLAPS

\* The locations of clearUdpRelay and of conn.Close, and the connections so far.
Clears == {"clear1", "clear2", "clear3"}
Closes == {"close1", "close2"}
Made == 1..made

\* Where each kind of goroutine can be.
At(p) ==
  /\ p[1] = "lwip" => pc[p] \in {"idle", "store", "enqueue", "check", "lookup", "send"}
                                  \cup Clears \cup Closes
  /\ p[1] = "dial" => pc[p] \in {"idle", "dialing", "register", "connected", "drain",
                                 "lookup", "send", "fail1", "fail2", "failed", "drained"}
                                  \cup Clears \cup Closes
  /\ p[1] = "reader" => pc[p] \in {"idle", "read", "write", "sendto", "done"}
                                    \cup Clears \cup Closes
  /\ p[1] = "stop" => pc[p] \in {"idle", "range", "unlisten", "done"} \cup Closes

\* Local variables: a goroutine that works for a connection names one that exists,
\* the dialling and reading ones their own, with a packet's destination.
Holds(p) ==
  /\ pc[p] \notin Final \cup {"range", "unlisten"} => job[p].conn \in Made
  /\ pc[p] \notin Final /\ p[1] # "stop" => job[p].dst \in Dsts
  /\ pc[p] \notin Final /\ p[1] \in {"dial", "reader"} => job[p].conn = p[2]

\* A socket that was looked up is still the one for the destination when it is
\* written to, and has been dialled when it is closed.
Knows(p) ==
  /\ pc[p] = "send" => job[p].peer \in Made /\ remote[job[p].peer] = job[p].dst
  /\ pc[p] = "clear2" => job[p].peer \in Made /\ sock[job[p].peer] # "none"

\* A connection is connecting only before its goroutine has the outcome, and its
\* socket exists from there on.
Dials(c) ==
  /\ pc[dial(c)] = "dialing" => sock[c] = "none"
  /\ pc[dial(c)] = "register" => sock[c] # "none"
  /\ state[c] = "connecting" =>
       pc[dial(c)] \in {"dialing", "register", "connected", "fail1"}

\* udpConns and redirectMap lead to connections that exist, and the socket of a
\* destination was dialled for it.
Maps ==
  /\ entry \in 0..made
  /\ \A c \in Made : remote[c] \in Dsts
  /\ \A c \in Conns \ Made : sock[c] = "none"
  /\ \A d \in Dsts : relay[d] # 0 =>
        relay[d] \in Made /\ remote[relay[d]] = d /\ sock[relay[d]] # "none"

\* The inductive invariant.
IInv ==
  /\ TypeOK
  /\ \A p \in Procs : At(p) /\ Holds(p) /\ Knows(p)
  /\ \A c \in Conns : Dials(c)
  /\ Maps /\ NoneLeftBehind /\ DroppedOnlyWhenFull

-------------------------------------------------------------------------------
(* The names of goroutines *)

\* Each goroutine is one, and its name tells its kind and connection.
LEMMA ProcNames ==
  /\ lwip \in Procs /\ lwip[1] = "lwip"
  /\ stop \in Procs /\ stop[1] = "stop"
  /\ \A c \in Conns : /\ dial(c) \in Procs /\ dial(c)[1] = "dial" /\ dial(c)[2] = c
                      /\ reader(c) \in Procs /\ reader(c)[1] = "reader" /\ reader(c)[2] = c
BY DEF Procs, lwip, stop, dial, reader

\* There are no others.
LEMMA ProcKinds ==
  ASSUME NEW p \in Procs
  PROVE  /\ p[1] \in {"lwip", "stop", "dial", "reader"}
         /\ p[1] = "lwip" <=> p = lwip
         /\ p[1] = "stop" <=> p = stop
         /\ p[1] = "dial" => p[2] \in Conns /\ p = dial(p[2])
         /\ p[1] = "reader" => p[2] \in Conns /\ p = reader(p[2])
BY DEF Procs, lwip, stop, dial, reader

\* The connections created so far are within the bound.
LEMMA MadeAreConns ==
  ASSUME TypeOK
  PROVE  Made \subseteq Conns
BY UdpBounds DEF UdpBounds, TypeOK, Made, Conns

-------------------------------------------------------------------------------
(* Steps of one goroutine *)

\* p goes to l, the others stay.
Moves(p, l) ==
  /\ pc' \in [Procs -> Locations] /\ pc'[p] = l
  /\ \A q \in Procs : q # p => pc'[q] = pc[q]

\* p keeps its connection and destination unless its call is over, and the others
\* keep everything.
Keeps(p) ==
  /\ job' \in [Procs -> Jobs]
  /\ pc'[p] \notin Final => job'[p].conn = job[p].conn /\ job'[p].dst = job[p].dst
  /\ \A q \in Procs : q # p => job'[q] = job[q]

\* What Goto does.
LEMMA GotoMoves ==
  ASSUME TypeOK, NEW p \in Procs, NEW l \in Locations, Goto(p, l)
  PROVE  Moves(p, l) /\ (UNCHANGED job => Keeps(p))
BY DEF TypeOK, Goto, Moves, Keeps

\* What Finish does.
LEMMA FinishMoves ==
  ASSUME TypeOK, NEW p \in Procs, NEW l \in Locations, Finish(p, l)
  PROVE  Moves(p, l) /\ Keeps(p)
<1>1. Moves(p, l)
  BY GotoMoves DEF Finish
<1>2. 0 \in 0..MaxConns /\ 0 \in 0..MaxDsts /\ job[p] \in Jobs
  BY UdpBounds DEF UdpBounds, TypeOK
<1>3. NoJob \in Jobs
  BY <1>2 DEF NoJob, Jobs
<1>4. [job[p] EXCEPT !.peer = 0] \in Jobs
  BY <1>2 DEF Jobs
<1>5. job' \in [Procs -> Jobs] /\ \A q \in Procs : q # p => job'[q] = job[q]
  BY <1>3, <1>4 DEF Finish, TypeOK
<1>6. l \notin Final => job'[p].conn = job[p].conn /\ job'[p].dst = job[p].dst
  BY DEF Finish, TypeOK, Jobs
<1>7. QED BY <1>1, <1>5, <1>6 DEF Keeps, Moves


-------------------------------------------------------------------------------
(* Every action keeps the invariant *)

\* conn.Close sets the state: connecting ends for whoever's connection it is.
LEMMA CloseStep ==
  ASSUME IInv, NEW p \in Procs, Close(p)
  PROVE  IInv'
<1>1. TypeOK BY DEF IInv
<1>2. \A q \in Procs : At(q) BY DEF IInv
<1>3. \A q \in Procs : Holds(q) BY DEF IInv
<1>4. \A q \in Procs : Knows(q) BY DEF IInv
<1>5. \A u \in Conns : Dials(u) BY DEF IInv
<1>6. Maps BY DEF IInv
<1>7. NoneLeftBehind BY DEF IInv
<1>8. DroppedOnlyWhenFull BY DEF IInv
<1>9. job[p].conn \in Made /\ job[p].conn \in Conns
  BY <1>1, <1>3, MadeAreConns DEF Close, Holds, Final
<1>10. /\ pc[p] \in {"close1", "fail1"}
       /\ Moves(p, IF pc[p] = "fail1" THEN "fail2" ELSE "close2") /\ Keeps(p)
  BY <1>1, GotoMoves DEF Close, Locations
<1>11. /\ state' \in [Conns -> {"none", "connecting", "connected", "closed"}]
       /\ state'[job[p].conn] = "closed"
       /\ \A c \in Conns : c # job[p].conn => state'[c] = state[c]
  BY <1>1, <1>9 DEF Close, TypeOK
<1>12. UNCHANGED <<entry, remote, pending, relay, sock, job, made, pkts, late>>
  BY DEF Close, relays, client
<1>13. TypeOK'
  BY <1>1, <1>9, <1>10, <1>11, <1>12, UdpBounds DEF TypeOK, UdpBounds, Moves, Keeps
<1>14. \A q \in Procs : At(q)'
  BY <1>2, <1>9, <1>10, <1>11, <1>12, ProcKinds DEF At, Closes, Clears, Moves
<1>15. \A q \in Procs : Holds(q)'
  BY <1>2, <1>3, <1>9, <1>10, <1>11, <1>12, ProcNames, ProcKinds DEF Holds, At,
       Final, Made, Closes, Clears, Moves, Keeps
<1>16. \A q \in Procs : Knows(q)'
  BY <1>4, <1>9, <1>10, <1>11, <1>12, ProcKinds DEF Knows, Made, Moves, Keeps
<1>17. \A u \in Conns : Dials(u)'
  BY <1>5, <1>3, <1>9, <1>10, <1>11, <1>12, ProcNames, ProcKinds DEF Dials, Holds,
       Final, Moves, Keeps
<1>18. Maps'
  BY <1>6, <1>9, <1>10, <1>11, <1>12 DEF Maps, Made
<1>19. NoneLeftBehind'
  BY <1>7, <1>9, <1>10, <1>11, <1>12, ProcNames DEF NoneLeftBehind, Moves
<1>20. DroppedOnlyWhenFull'
  BY <1>1, <1>8, <1>3, <1>9, <1>10, <1>11, <1>12, ProcNames, MadeAreConns
       DEF DroppedOnlyWhenFull, Holds, Final, Moves, Keeps
<1>21. QED BY <1>13, <1>14, <1>15, <1>16, <1>17, <1>18, <1>19, <1>20 DEF IInv

\* conn.Close removes the entry of the source.
LEMMA CloseDeleteStep ==
  ASSUME IInv, NEW p \in Procs, CloseDelete(p)
  PROVE  IInv'
<1>1. TypeOK BY DEF IInv
<1>2. \A q \in Procs : At(q) BY DEF IInv
<1>3. \A q \in Procs : Holds(q) BY DEF IInv
<1>4. \A q \in Procs : Knows(q) BY DEF IInv
<1>5. \A u \in Conns : Dials(u) BY DEF IInv
<1>6. Maps BY DEF IInv
<1>7. NoneLeftBehind BY DEF IInv
<1>8. DroppedOnlyWhenFull BY DEF IInv
<1>9. /\ Keeps(p)
      /\ \/ pc[p] = "fail2" /\ p[1] = "dial" /\ Moves(p, "close1")
         \/ pc[p] = "close2" /\ p[1] = "dial" /\ Moves(p, "failed")
         \/ pc[p] = "close2" /\ p[1] = "reader" /\ Moves(p, "clear1")
         \/ pc[p] = "close2" /\ p[1] = "lwip" /\ Moves(p, "idle")
         \/ pc[p] = "close2" /\ p[1] = "stop" /\ Moves(p, "unlisten")
  <2>1. AfterClose(p) = CASE p[1] = "lwip" -> "idle" [] p[1] = "dial" -> "failed"
                          [] p[1] = "reader" -> "clear1" [] p[1] = "stop" -> "unlisten"
    BY DEF AfterClose
  <2>2. CASE pc[p] = "fail2"
    <3>1. Moves(p, "close1") /\ Keeps(p)
      BY <1>1, <2>2, FinishMoves DEF CloseDelete, Locations
    <3>2. p[1] = "dial"
      BY <1>2, <2>2, ProcKinds DEF At, Clears, Closes
    <3>3. QED BY <2>2, <3>1, <3>2
  <2>3. CASE pc[p] = "close2"
    <3>1. Finish(p, AfterClose(p))
      BY <2>3 DEF CloseDelete
    <3>2. /\ p[1] = "lwip" => Finish(p, "idle")
          /\ p[1] = "dial" => Finish(p, "failed")
          /\ p[1] = "reader" => Finish(p, "clear1")
          /\ p[1] = "stop" => Finish(p, "unlisten")
      BY <2>1, <3>1
    <3>3. QED BY <1>1, <2>3, <3>2, ProcKinds, FinishMoves DEF Locations
  <2>4. QED BY <2>2, <2>3 DEF CloseDelete
<1>10. entry' = 0 /\ UNCHANGED <<state, remote, pending, relay, sock, made, pkts, late>>
  BY DEF CloseDelete, relays, client
<1>11. TypeOK'
  BY <1>1, <1>9, <1>10, UdpBounds DEF TypeOK, UdpBounds, Moves, Keeps
<1>12. \A q \in Procs : At(q)'
  BY <1>2, <1>9, <1>10, ProcKinds DEF At, Closes, Clears, Moves
<1>13. \A q \in Procs : Holds(q)'
  BY <1>2, <1>3, <1>9, <1>10, ProcNames, ProcKinds DEF Holds, At, Final, Made,
       Closes, Clears, Moves, Keeps
<1>14. \A q \in Procs : Knows(q)'
  BY <1>4, <1>9, <1>10, ProcKinds DEF Knows, Made, Moves, Keeps
<1>15. \A u \in Conns : Dials(u)'
  BY <1>5, <1>3, <1>9, <1>10, ProcNames, ProcKinds DEF Dials, Holds, Final, Moves,
       Keeps
<1>16. Maps'
  BY <1>1, <1>6, <1>9, <1>10, UdpBounds DEF Maps, UdpBounds, Made, TypeOK
<1>17. NoneLeftBehind'
  BY <1>7, <1>9, <1>10, ProcNames DEF NoneLeftBehind, Moves
<1>18. DroppedOnlyWhenFull'
  BY <1>1, <1>8, <1>3, <1>9, <1>10, ProcNames, MadeAreConns DEF DroppedOnlyWhenFull,
       Holds, Final, Moves, Keeps
<1>19. QED BY <1>11, <1>12, <1>13, <1>14, <1>15, <1>16, <1>17, <1>18 DEF IInv

\* clearUdpRelay looks the socket up: Maps gives Knows.
LEMMA ClearStep ==
  ASSUME IInv, NEW p \in Procs, clearUdpRelay(p)
  PROVE  IInv'
<1>1. TypeOK BY DEF IInv
<1>2. \A q \in Procs : At(q) BY DEF IInv
<1>3. \A q \in Procs : Holds(q) BY DEF IInv
<1>4. \A q \in Procs : Knows(q) BY DEF IInv
<1>5. \A u \in Conns : Dials(u) BY DEF IInv
<1>6. Maps BY DEF IInv
<1>7. NoneLeftBehind BY DEF IInv
<1>8. DroppedOnlyWhenFull BY DEF IInv
<1>9. pc[p] = "clear1" /\ p # stop /\ job[p].dst \in Dsts /\ relay[job[p].dst] \in 0..MaxConns
  BY <1>1, <1>2, <1>3, ProcNames, ProcKinds DEF clearUdpRelay, At, Holds, Final,
       TypeOK, Closes
<1>10. UNCHANGED <<entry, state, remote, pending, relay, sock, made, pkts, late>>
  BY DEF clearUdpRelay, conns, relays, client
<1>11. \/ Moves(p, AfterClear(p)) /\ Keeps(p)
       \/ /\ Moves(p, "clear2") /\ Keeps(p)
          /\ job'[p].peer = relay[job[p].dst] /\ relay[job[p].dst] # 0
  <2>1. AfterClear(p) \in Locations
    BY DEF AfterClear, Locations
  <2>2. CASE relay[job[p].dst] = 0
    BY <1>1, <2>1, <2>2, FinishMoves DEF clearUdpRelay
  <2>3. CASE relay[job[p].dst] # 0
    <3>1. Moves(p, "clear2")
      BY <1>1, <2>3, GotoMoves DEF clearUdpRelay, Locations
    <3>2. job' = [job EXCEPT ![p] = [job[p] EXCEPT !.peer = relay[job[p].dst]]]
      BY <2>3 DEF clearUdpRelay
    <3>3. job[p] \in Jobs /\ [job[p] EXCEPT !.peer = relay[job[p].dst]] \in Jobs
      BY <1>1, <1>9 DEF TypeOK, Jobs
    <3>4. Keeps(p) /\ job'[p].peer = relay[job[p].dst]
      BY <1>1, <3>2, <3>3 DEF Keeps, TypeOK, Jobs
    <3>5. QED BY <2>3, <3>1, <3>4
  <2>4. QED BY <2>2, <2>3
<1>12. TypeOK'
  BY <1>1, <1>9, <1>10, <1>11, UdpBounds DEF TypeOK, UdpBounds, Moves, Keeps
<1>13. \A q \in Procs : At(q)'
  BY <1>2, <1>9, <1>10, <1>11, ProcKinds DEF At, AfterClear, Closes, Clears, Moves
<1>14. \A q \in Procs : Holds(q)'
  BY <1>2, <1>3, <1>9, <1>10, <1>11, ProcNames, ProcKinds DEF Holds, At, AfterClear,
       Final, Made, Closes, Clears, Moves, Keeps
<1>15. \A q \in Procs : Knows(q)'
  BY <1>4, <1>6, <1>9, <1>10, <1>11, ProcKinds DEF Knows, Maps, AfterClear, Made,
       Moves, Keeps
<1>16. \A u \in Conns : Dials(u)'
  BY <1>5, <1>3, <1>9, <1>10, <1>11, ProcNames, ProcKinds DEF Dials, Holds,
       AfterClear, Final, Moves, Keeps
<1>17. Maps'
  BY <1>6, <1>9, <1>10, <1>11 DEF Maps, Made
<1>18. NoneLeftBehind'
  BY <1>7, <1>9, <1>10, <1>11, ProcNames, ProcKinds DEF NoneLeftBehind, AfterClear,
       Moves
<1>19. DroppedOnlyWhenFull'
  BY <1>1, <1>8, <1>3, <1>9, <1>10, <1>11, ProcNames, MadeAreConns
       DEF DroppedOnlyWhenFull, Holds, AfterClear, Final, Moves, Keeps
<1>20. QED BY <1>12, <1>13, <1>14, <1>15, <1>16, <1>17, <1>18, <1>19 DEF IInv

\* clearUdpRelay closes the socket it found.
LEMMA ClearShutStep ==
  ASSUME IInv, NEW p \in Procs, ClearShut(p)
  PROVE  IInv'
<1>1. TypeOK BY DEF IInv
<1>2. \A q \in Procs : At(q) BY DEF IInv
<1>3. \A q \in Procs : Holds(q) BY DEF IInv
<1>4. \A q \in Procs : Knows(q) BY DEF IInv
<1>5. \A u \in Conns : Dials(u) BY DEF IInv
<1>6. Maps BY DEF IInv
<1>7. NoneLeftBehind BY DEF IInv
<1>8. DroppedOnlyWhenFull BY DEF IInv
<1>9. pc[p] = "clear2" /\ Moves(p, "clear3") /\ Keeps(p) /\ UNCHANGED job
  BY <1>1, GotoMoves DEF ClearShut, Locations
<1>10. job[p].peer \in Made /\ job[p].peer \in Conns
  BY <1>1, <1>4, <1>9, MadeAreConns DEF Knows
<1>11. /\ sock' \in [Conns -> {"none", "open", "shut"}]
       /\ sock'[job[p].peer] = "shut" /\ sock[job[p].peer] # "none"
       /\ \A c \in Conns : c # job[p].peer => sock'[c] = sock[c]
  BY <1>1, <1>4, <1>9, <1>10 DEF ClearShut, TypeOK, Knows
<1>12. UNCHANGED <<entry, state, remote, pending, relay, made, pkts, late>>
  BY DEF ClearShut, conns, client
<1>13. TypeOK'
  BY <1>1, <1>9, <1>10, <1>11, <1>12, UdpBounds DEF TypeOK, UdpBounds, Moves, Keeps
<1>14. \A q \in Procs : At(q)'
  BY <1>2, <1>9, <1>10, <1>11, <1>12, ProcKinds DEF At, Closes, Clears, Moves
<1>15. \A q \in Procs : Holds(q)'
  BY <1>2, <1>3, <1>9, <1>10, <1>11, <1>12, ProcNames, ProcKinds DEF Holds, At,
       Final, Made, Closes, Clears, Moves, Keeps
<1>16. \A q \in Procs : Knows(q)'
  BY <1>1, <1>4, <1>9, <1>10, <1>11, <1>12, MadeAreConns DEF Knows, Made, Moves, Keeps
<1>17. \A u \in Conns : Dials(u)'
  BY <1>5, <1>3, <1>9, <1>10, <1>11, <1>12, ProcNames, ProcKinds DEF Dials, Holds,
       Final, Moves, Keeps
<1>18. Maps'
  BY <1>1, <1>6, <1>9, <1>10, <1>11, <1>12, MadeAreConns DEF Maps, Made
<1>19. NoneLeftBehind'
  BY <1>7, <1>9, <1>10, <1>11, <1>12, ProcNames DEF NoneLeftBehind, Moves
<1>20. DroppedOnlyWhenFull'
  BY <1>1, <1>8, <1>3, <1>9, <1>10, <1>11, <1>12, ProcNames, MadeAreConns
       DEF DroppedOnlyWhenFull, Holds, Final, Moves, Keeps
<1>21. QED BY <1>13, <1>14, <1>15, <1>16, <1>17, <1>18, <1>19, <1>20 DEF IInv

\* clearUdpRelay removes whatever the map holds by now.
LEMMA ClearDeleteStep ==
  ASSUME IInv, NEW p \in Procs, ClearDelete(p)
  PROVE  IInv'
<1>1. TypeOK BY DEF IInv
<1>2. \A q \in Procs : At(q) BY DEF IInv
<1>3. \A q \in Procs : Holds(q) BY DEF IInv
<1>4. \A q \in Procs : Knows(q) BY DEF IInv
<1>5. \A u \in Conns : Dials(u) BY DEF IInv
<1>6. Maps BY DEF IInv
<1>7. NoneLeftBehind BY DEF IInv
<1>8. DroppedOnlyWhenFull BY DEF IInv
<1>9. pc[p] = "clear3" /\ Moves(p, AfterClear(p)) /\ Keeps(p)
  BY <1>1, FinishMoves DEF ClearDelete, AfterClear, Locations
<1>10. p # stop /\ job[p].dst \in Dsts
  BY <1>2, <1>3, <1>9, ProcNames, ProcKinds DEF At, Holds, Final, Closes
<1>11. /\ relay' \in [Dsts -> 0..MaxConns] /\ relay'[job[p].dst] = 0
       /\ \A d \in Dsts : d # job[p].dst => relay'[d] = relay[d]
  BY <1>1, <1>10, UdpBounds DEF UdpBounds, ClearDelete, TypeOK
<1>12. UNCHANGED <<entry, state, remote, pending, sock, made, pkts, late>>
  BY DEF ClearDelete, conns, client
<1>13. TypeOK'
  BY <1>1, <1>9, <1>10, <1>11, <1>12, UdpBounds DEF TypeOK, UdpBounds, Moves, Keeps
<1>14. \A q \in Procs : At(q)'
  BY <1>2, <1>9, <1>10, <1>11, <1>12, ProcKinds DEF At, AfterClear, Closes, Clears,
       Moves
<1>15. \A q \in Procs : Holds(q)'
  BY <1>2, <1>3, <1>9, <1>10, <1>11, <1>12, ProcNames, ProcKinds DEF Holds, At,
       AfterClear, Final, Made, Closes, Clears, Moves, Keeps
<1>16. \A q \in Procs : Knows(q)'
  BY <1>4, <1>9, <1>10, <1>11, <1>12, ProcKinds DEF Knows, AfterClear, Made, Moves,
       Keeps
<1>17. \A u \in Conns : Dials(u)'
  BY <1>5, <1>3, <1>9, <1>10, <1>11, <1>12, ProcNames, ProcKinds DEF Dials, Holds,
       AfterClear, Final, Moves, Keeps
<1>18. Maps'
  BY <1>6, <1>9, <1>10, <1>11, <1>12 DEF Maps, Made
<1>19. NoneLeftBehind'
  BY <1>7, <1>9, <1>10, <1>11, <1>12, ProcNames, ProcKinds DEF NoneLeftBehind,
       AfterClear, Moves
<1>20. DroppedOnlyWhenFull'
  BY <1>1, <1>8, <1>3, <1>9, <1>10, <1>11, <1>12, ProcNames, MadeAreConns
       DEF DroppedOnlyWhenFull, Holds, AfterClear, Final, Moves, Keeps
<1>21. QED BY <1>13, <1>14, <1>15, <1>16, <1>17, <1>18, <1>19, <1>20 DEF IInv

\* ReceiveTo looks the socket up: Maps gives Knows.
LEMMA LookupStep ==
  ASSUME IInv, NEW p \in Procs, Lookup(p)
  PROVE  IInv'
<1>1. TypeOK BY DEF IInv
<1>2. \A q \in Procs : At(q) BY DEF IInv
<1>3. \A q \in Procs : Holds(q) BY DEF IInv
<1>4. \A q \in Procs : Knows(q) BY DEF IInv
<1>5. \A u \in Conns : Dials(u) BY DEF IInv
<1>6. Maps BY DEF IInv
<1>7. NoneLeftBehind BY DEF IInv
<1>8. DroppedOnlyWhenFull BY DEF IInv
<1>9. pc[p] = "lookup" /\ job[p].dst \in Dsts /\ relay[job[p].dst] \in 0..MaxConns
  BY <1>1, <1>2, <1>3, ProcNames, ProcKinds DEF Lookup, At, Holds, Final, TypeOK,
       Closes
<1>10. UNCHANGED <<entry, state, remote, pending, relay, sock, made, pkts, late>>
  BY DEF Lookup, conns, relays, client
<1>11. \/ relay[job[p].dst] = 0 /\ Moves(p, "close1")
       \/ relay[job[p].dst] # 0 /\ Moves(p, "send")
  <2>1. Goto(p, IF relay[job[p].dst] = 0 THEN "close1" ELSE "send")
    BY DEF Lookup
  <2>2. CASE relay[job[p].dst] = 0
    <3>1. Goto(p, "close1") BY <2>1, <2>2
    <3>2. Moves(p, "close1") BY <1>1, <3>1, GotoMoves DEF Locations
    <3>3. QED BY <2>2, <3>2
  <2>3. CASE relay[job[p].dst] # 0
    <3>1. Goto(p, "send") BY <2>1, <2>3
    <3>2. QED BY <1>1, <2>3, <3>1, GotoMoves DEF Locations
  <2>4. QED BY <2>2, <2>3
<1>12. Keeps(p) /\ job'[p].peer = relay[job[p].dst]
  <2>1. job' = [job EXCEPT ![p] = [job[p] EXCEPT !.peer = relay[job[p].dst]]]
    BY DEF Lookup
  <2>2. job[p] \in Jobs /\ [job[p] EXCEPT !.peer = relay[job[p].dst]] \in Jobs
    BY <1>1, <1>9 DEF TypeOK, Jobs
  <2>3. QED BY <1>1, <2>1, <2>2 DEF Keeps, TypeOK, Jobs
<1>13. TypeOK'
  BY <1>1, <1>9, <1>10, <1>11, <1>12, UdpBounds DEF TypeOK, UdpBounds, Moves, Keeps
<1>14. \A q \in Procs : At(q)'
  BY <1>2, <1>9, <1>10, <1>11, <1>12, ProcKinds DEF At, Closes, Clears, Moves
<1>15. \A q \in Procs : Holds(q)'
  BY <1>2, <1>3, <1>9, <1>10, <1>11, <1>12, ProcNames, ProcKinds DEF Holds, At,
       Final, Made, Closes, Clears, Moves, Keeps
<1>16. \A q \in Procs : Knows(q)'
  BY <1>4, <1>6, <1>9, <1>10, <1>11, <1>12 DEF Knows, Maps, Final, Made, Moves, Keeps
<1>17. \A u \in Conns : Dials(u)'
  BY <1>5, <1>3, <1>9, <1>10, <1>11, <1>12, ProcNames, ProcKinds DEF Dials, Holds,
       Final, Moves, Keeps
<1>18. Maps'
  BY <1>6, <1>9, <1>10, <1>11, <1>12 DEF Maps, Made
<1>19. NoneLeftBehind'
  BY <1>7, <1>9, <1>10, <1>11, <1>12, ProcNames DEF NoneLeftBehind, Moves
<1>20. DroppedOnlyWhenFull'
  BY <1>1, <1>8, <1>3, <1>9, <1>10, <1>11, <1>12, ProcNames, MadeAreConns
       DEF DroppedOnlyWhenFull, Holds, Final, Moves, Keeps
<1>21. QED BY <1>13, <1>14, <1>15, <1>16, <1>17, <1>18, <1>19, <1>20 DEF IInv

\* ReceiveTo writes to the socket, or clears it away.
LEMMA SendStep ==
  ASSUME IInv, NEW p \in Procs, Send(p)
  PROVE  IInv'
<1>1. TypeOK BY DEF IInv
<1>2. \A q \in Procs : At(q) BY DEF IInv
<1>3. \A q \in Procs : Holds(q) BY DEF IInv
<1>4. \A q \in Procs : Knows(q) BY DEF IInv
<1>5. \A u \in Conns : Dials(u) BY DEF IInv
<1>6. Maps BY DEF IInv
<1>7. NoneLeftBehind BY DEF IInv
<1>8. DroppedOnlyWhenFull BY DEF IInv
<1>9. pc[p] = "send" /\ p[1] \in {"lwip", "dial"} /\ job[p].dst \in Dsts
  BY <1>2, <1>3, ProcNames, ProcKinds DEF Send, At, Holds, Final, Closes, Clears
<1>10. UNCHANGED <<entry, state, remote, pending, relay, sock, made, pkts, late>>
  BY DEF Send, conns, relays, client
<1>11. /\ Keeps(p)
       /\ \/ p[1] = "dial" /\ Moves(p, "drain")
          \/ p[1] = "lwip" /\ Moves(p, "idle")
          \/ Moves(p, "clear1")
  BY <1>1, <1>9, FinishMoves DEF Send, Locations
<1>12. TypeOK'
  BY <1>1, <1>9, <1>10, <1>11, UdpBounds DEF TypeOK, UdpBounds, Moves, Keeps
<1>13. \A q \in Procs : At(q)'
  BY <1>2, <1>9, <1>10, <1>11, ProcKinds DEF At, Closes, Clears, Moves
<1>14. \A q \in Procs : Holds(q)'
  BY <1>2, <1>3, <1>9, <1>10, <1>11, ProcNames, ProcKinds DEF Holds, At, Final, Made,
       Closes, Clears, Moves, Keeps
<1>15. \A q \in Procs : Knows(q)'
  BY <1>4, <1>9, <1>10, <1>11, ProcKinds DEF Knows, Made, Moves, Keeps
<1>16. \A u \in Conns : Dials(u)'
  BY <1>5, <1>3, <1>9, <1>10, <1>11, ProcNames, ProcKinds DEF Dials, Holds, Final,
       Moves, Keeps
<1>17. Maps'
  BY <1>6, <1>9, <1>10, <1>11 DEF Maps, Made
<1>18. NoneLeftBehind'
  BY <1>7, <1>9, <1>10, <1>11, ProcNames DEF NoneLeftBehind, Moves
<1>19. DroppedOnlyWhenFull'
  BY <1>1, <1>8, <1>3, <1>9, <1>10, <1>11, ProcNames, MadeAreConns
       DEF DroppedOnlyWhenFull, Holds, Final, Moves, Keeps
<1>20. QED BY <1>12, <1>13, <1>14, <1>15, <1>16, <1>17, <1>18, <1>19 DEF IInv

\* udpRecvFn stores the connection it has created.
LEMMA StoreStep ==
  ASSUME IInv, Store
  PROVE  IInv'
<1>1. TypeOK BY DEF IInv
<1>2. \A q \in Procs : At(q) BY DEF IInv
<1>3. \A q \in Procs : Holds(q) BY DEF IInv
<1>4. \A q \in Procs : Knows(q) BY DEF IInv
<1>5. \A u \in Conns : Dials(u) BY DEF IInv
<1>6. Maps BY DEF IInv
<1>7. NoneLeftBehind BY DEF IInv
<1>8. DroppedOnlyWhenFull BY DEF IInv
<1>9. lwip \in Procs /\ pc[lwip] = "store" /\ Moves(lwip, "enqueue") /\ Keeps(lwip)
  BY <1>1, ProcNames, GotoMoves DEF Store, Locations
<1>10. entry' = job[lwip].conn /\ entry' \in Made
  BY <1>3, <1>9, ProcNames DEF Store, Holds, Final
<1>11. entry' \in 0..MaxConns
  BY <1>1, <1>10, UdpBounds DEF UdpBounds, TypeOK, Made
<1>12. UNCHANGED <<state, remote, pending, relay, sock, job, made, pkts, late>>
  BY DEF Store, relays, client
<1>13. TypeOK'
  BY <1>1, <1>9, <1>10, <1>11, <1>12 DEF TypeOK, Moves, Keeps
<1>14. \A q \in Procs : At(q)'
  BY <1>2, <1>9, <1>10, <1>11, <1>12, ProcKinds DEF At, Closes, Clears, Moves
<1>15. \A q \in Procs : Holds(q)'
  BY <1>2, <1>3, <1>9, <1>10, <1>11, <1>12, ProcNames, ProcKinds DEF Holds, At,
       Final, Made, Closes, Clears, Moves, Keeps
<1>16. \A q \in Procs : Knows(q)'
  BY <1>4, <1>9, <1>10, <1>11, <1>12, ProcKinds DEF Knows, Made, Moves, Keeps
<1>17. \A u \in Conns : Dials(u)'
  BY <1>5, <1>3, <1>9, <1>10, <1>11, <1>12, ProcNames, ProcKinds DEF Dials, Holds,
       Final, Moves, Keeps
<1>18. Maps'
  BY <1>1, <1>6, <1>9, <1>10, <1>11, <1>12 DEF Maps, Made, TypeOK
<1>19. NoneLeftBehind'
  BY <1>7, <1>9, <1>10, <1>11, <1>12, ProcNames DEF NoneLeftBehind, Moves
<1>20. DroppedOnlyWhenFull'
  BY <1>1, <1>8, <1>3, <1>9, <1>10, <1>11, <1>12, ProcNames, MadeAreConns
       DEF DroppedOnlyWhenFull, Holds, Final, Moves, Keeps
<1>21. QED BY <1>13, <1>14, <1>15, <1>16, <1>17, <1>18, <1>19, <1>20 DEF IInv

\* enqueueEarlyPacket: only a connecting connection's queue grows, and one that
\* is left alone while connecting is full.
LEMMA EnqueueStep ==
  ASSUME IInv, enqueueEarlyPacket
  PROVE  IInv'
<1>1. TypeOK BY DEF IInv
<1>2. \A q \in Procs : At(q) BY DEF IInv
<1>3. \A q \in Procs : Holds(q) BY DEF IInv
<1>4. \A q \in Procs : Knows(q) BY DEF IInv
<1>5. \A u \in Conns : Dials(u) BY DEF IInv
<1>6. Maps BY DEF IInv
<1>7. NoneLeftBehind BY DEF IInv
<1>8. DroppedOnlyWhenFull BY DEF IInv
<1>9. lwip \in Procs /\ pc[lwip] = "enqueue"
  BY ProcNames DEF enqueueEarlyPacket
<1>10. job[lwip].conn \in Conns /\ job[lwip].dst \in Dsts
  BY <1>1, <1>3, <1>9, MadeAreConns, ProcNames DEF Holds, Final
<1>11. /\ Keeps(lwip)
       /\ \/ /\ Early(job[lwip].conn) /\ Moves(lwip, "idle")
             /\ pending' = [pending EXCEPT ![job[lwip].conn] = Append(@, job[lwip].dst)]
          \/ /\ ~Early(job[lwip].conn) /\ Moves(lwip, "check")
             /\ UNCHANGED pending
  BY <1>1, <1>9, FinishMoves DEF enqueueEarlyPacket, Locations
<1>12. UNCHANGED <<entry, state, remote, relay, sock, made, pkts, late>>
  BY DEF enqueueEarlyPacket, relays, client
<1>13. /\ pending' \in [Conns -> Seq(Dsts)] /\ \A c \in Conns : Len(pending'[c]) <= QueueCap
       /\ \A c \in Conns : pending'[c] # pending[c] => state[c] = "connecting"
  <2>1. CASE UNCHANGED pending
    BY <1>1, <2>1 DEF TypeOK
  <2>2. CASE /\ Early(job[lwip].conn)
             /\ pending' = [pending EXCEPT ![job[lwip].conn] = Append(@, job[lwip].dst)]
    <3>1. /\ pending[job[lwip].conn] \in Seq(Dsts) /\ Len(pending[job[lwip].conn]) \in Nat
          /\ Len(pending[job[lwip].conn]) < QueueCap /\ QueueCap \in Nat
          /\ state[job[lwip].conn] = "connecting"
      BY <1>1, <1>10, <2>2, UdpBounds DEF UdpBounds, TypeOK, Early
    <3>2. /\ Append(pending[job[lwip].conn], job[lwip].dst) \in Seq(Dsts)
          /\ Len(Append(pending[job[lwip].conn], job[lwip].dst)) <= QueueCap
      BY <1>10, <3>1
    <3>3. QED BY <1>1, <1>10, <2>2, <3>1, <3>2 DEF TypeOK
  <2>3. QED BY <1>11, <2>1, <2>2
<1>14. TypeOK'
  BY <1>1, <1>9, <1>10, <1>11, <1>12, <1>13, UdpBounds DEF TypeOK, UdpBounds, Moves,
       Keeps
<1>15. \A q \in Procs : At(q)'
  BY <1>2, <1>9, <1>10, <1>11, <1>12, <1>13, ProcKinds DEF At, Closes, Clears, Moves
<1>16. \A q \in Procs : Holds(q)'
  BY <1>2, <1>3, <1>9, <1>10, <1>11, <1>12, <1>13, ProcNames, ProcKinds DEF Holds,
       At, Final, Made, Closes, Clears, Moves, Keeps
<1>17. \A q \in Procs : Knows(q)'
  BY <1>4, <1>9, <1>10, <1>11, <1>12, <1>13, ProcKinds DEF Knows, Made, Moves, Keeps
<1>18. \A u \in Conns : Dials(u)'
  BY <1>5, <1>3, <1>9, <1>10, <1>11, <1>12, <1>13, ProcNames, ProcKinds DEF Dials,
       Holds, Final, Moves, Keeps
<1>19. Maps'
  BY <1>6, <1>9, <1>10, <1>11, <1>12, <1>13 DEF Maps, Made
<1>20. NoneLeftBehind'
  BY <1>7, <1>5, <1>9, <1>10, <1>11, <1>12, <1>13, ProcNames DEF NoneLeftBehind,
       Dials, Moves
<1>21. DroppedOnlyWhenFull'
  BY <1>1, <1>8, <1>9, <1>10, <1>11, <1>12, <1>13, ProcNames, UdpBounds
       DEF DroppedOnlyWhenFull, UdpBounds, TypeOK, Early, Final, Moves, Keeps
<1>22. QED BY <1>14, <1>15, <1>16, <1>17, <1>18, <1>19, <1>20, <1>21 DEF IInv

\* udpRecvFn looks at the state again.
LEMMA CheckStep ==
  ASSUME IInv, checkState
  PROVE  IInv'
<1>1. TypeOK BY DEF IInv
<1>2. \A q \in Procs : At(q) BY DEF IInv
<1>3. \A q \in Procs : Holds(q) BY DEF IInv
<1>4. \A q \in Procs : Knows(q) BY DEF IInv
<1>5. \A u \in Conns : Dials(u) BY DEF IInv
<1>6. Maps BY DEF IInv
<1>7. NoneLeftBehind BY DEF IInv
<1>8. DroppedOnlyWhenFull BY DEF IInv
<1>9. lwip \in Procs /\ pc[lwip] = "check" /\ Keeps(lwip) /\ (Moves(lwip, "lookup") \/ Moves(lwip, "idle"))
  BY <1>1, ProcNames, FinishMoves DEF checkState, Locations
<1>10. UNCHANGED <<entry, state, remote, pending, relay, sock, made, pkts, late>>
  BY DEF checkState, conns, relays, client
<1>11. TypeOK'
  BY <1>1, <1>9, <1>10, UdpBounds DEF TypeOK, UdpBounds, Moves, Keeps
<1>12. \A q \in Procs : At(q)'
  BY <1>2, <1>9, <1>10, ProcKinds DEF At, Closes, Clears, Moves
<1>13. \A q \in Procs : Holds(q)'
  BY <1>2, <1>3, <1>9, <1>10, ProcNames, ProcKinds DEF Holds, At, Final, Made,
       Closes, Clears, Moves, Keeps
<1>14. \A q \in Procs : Knows(q)'
  BY <1>4, <1>9, <1>10, ProcKinds DEF Knows, Made, Moves, Keeps
<1>15. \A u \in Conns : Dials(u)'
  BY <1>5, <1>3, <1>9, <1>10, ProcNames, ProcKinds DEF Dials, Holds, Final, Moves,
       Keeps
<1>16. Maps'
  BY <1>6, <1>9, <1>10 DEF Maps, Made
<1>17. NoneLeftBehind'
  BY <1>7, <1>9, <1>10, ProcNames DEF NoneLeftBehind, Moves
<1>18. DroppedOnlyWhenFull'
  BY <1>1, <1>8, <1>3, <1>9, <1>10, ProcNames, MadeAreConns DEF DroppedOnlyWhenFull,
       Holds, Final, Moves, Keeps
<1>19. QED BY <1>11, <1>12, <1>13, <1>14, <1>15, <1>16, <1>17, <1>18 DEF IInv

\* The dial fails.
LEMMA DialFailsStep ==
  ASSUME IInv, NEW c \in Conns, DialFails(c)
  PROVE  IInv'
<1>1. TypeOK BY DEF IInv
<1>2. \A q \in Procs : At(q) BY DEF IInv
<1>3. \A q \in Procs : Holds(q) BY DEF IInv
<1>4. \A q \in Procs : Knows(q) BY DEF IInv
<1>5. \A u \in Conns : Dials(u) BY DEF IInv
<1>6. Maps BY DEF IInv
<1>7. NoneLeftBehind BY DEF IInv
<1>8. DroppedOnlyWhenFull BY DEF IInv
<1>9. dial(c) \in Procs /\ dial(c)[1] = "dial" /\ pc[dial(c)] = "dialing" /\ Moves(dial(c), "fail1") /\ Keeps(dial(c))
  BY <1>1, ProcNames, GotoMoves DEF DialFails, Locations
<1>10. UNCHANGED <<entry, state, remote, pending, relay, sock, job, made, pkts, late>>
  BY DEF DialFails, conns, relays, client
<1>11. TypeOK'
  BY <1>1, <1>9, <1>10, UdpBounds DEF TypeOK, UdpBounds, Moves, Keeps
<1>12. \A q \in Procs : At(q)'
  BY <1>2, <1>9, <1>10, ProcKinds DEF At, Closes, Clears, Moves
<1>13. \A q \in Procs : Holds(q)'
  BY <1>2, <1>3, <1>9, <1>10, ProcNames, ProcKinds DEF Holds, At, Final, Made,
       Closes, Clears, Moves, Keeps
<1>14. \A q \in Procs : Knows(q)'
  BY <1>4, <1>9, <1>10, ProcKinds DEF Knows, Made, Moves, Keeps
<1>15. \A u \in Conns : Dials(u)'
  BY <1>5, <1>3, <1>9, <1>10, ProcNames, ProcKinds DEF Dials, Holds, Final, Moves,
       Keeps
<1>16. Maps'
  BY <1>6, <1>9, <1>10 DEF Maps, Made
<1>17. NoneLeftBehind'
  BY <1>7, <1>9, <1>10, ProcNames DEF NoneLeftBehind, Moves
<1>18. DroppedOnlyWhenFull'
  BY <1>1, <1>8, <1>3, <1>9, <1>10, ProcNames, MadeAreConns DEF DroppedOnlyWhenFull,
       Holds, Final, Moves, Keeps
<1>19. QED BY <1>11, <1>12, <1>13, <1>14, <1>15, <1>16, <1>17, <1>18 DEF IInv

\* The dial succeeds: the socket, that nobody has seen yet, is open.
LEMMA DialSucceedsStep ==
  ASSUME IInv, NEW c \in Conns, DialSucceeds(c)
  PROVE  IInv'
<1>1. TypeOK BY DEF IInv
<1>2. \A q \in Procs : At(q) BY DEF IInv
<1>3. \A q \in Procs : Holds(q) BY DEF IInv
<1>4. \A q \in Procs : Knows(q) BY DEF IInv
<1>5. \A u \in Conns : Dials(u) BY DEF IInv
<1>6. Maps BY DEF IInv
<1>7. NoneLeftBehind BY DEF IInv
<1>8. DroppedOnlyWhenFull BY DEF IInv
<1>9. dial(c) \in Procs /\ dial(c)[1] = "dial" /\ pc[dial(c)] = "dialing" /\ Moves(dial(c), "register") /\ Keeps(dial(c))
  BY <1>1, ProcNames, GotoMoves DEF DialSucceeds, Locations
<1>10. c \in Made
  BY <1>3, <1>9, ProcNames DEF Holds, Final
<1>11. /\ sock' \in [Conns -> {"none", "open", "shut"}] /\ sock'[c] = "open"
       /\ \A b \in Conns : b # c => sock'[b] = sock[b]
  BY <1>1 DEF DialSucceeds, TypeOK
<1>12. UNCHANGED <<entry, state, remote, pending, relay, job, made, pkts, late>>
  BY DEF DialSucceeds, conns, client
<1>13. TypeOK'
  BY <1>1, <1>9, <1>10, <1>11, <1>12, UdpBounds DEF TypeOK, UdpBounds, Moves, Keeps
<1>14. \A q \in Procs : At(q)'
  BY <1>2, <1>9, <1>10, <1>11, <1>12, ProcKinds DEF At, Closes, Clears, Moves
<1>15. \A q \in Procs : Holds(q)'
  BY <1>2, <1>3, <1>9, <1>10, <1>11, <1>12, ProcNames, ProcKinds DEF Holds, At,
       Final, Made, Closes, Clears, Moves, Keeps
<1>16. \A q \in Procs : Knows(q)'
  BY <1>1, <1>4, <1>9, <1>10, <1>11, <1>12, MadeAreConns, ProcKinds DEF Knows, Made,
       Moves, Keeps
<1>17. \A u \in Conns : Dials(u)'
  BY <1>5, <1>3, <1>9, <1>10, <1>11, <1>12, ProcNames, ProcKinds DEF Dials, Holds,
       Final, Moves, Keeps
<1>18. Maps'
  BY <1>1, <1>6, <1>9, <1>10, <1>11, <1>12, MadeAreConns DEF Maps, Made
<1>19. NoneLeftBehind'
  BY <1>7, <1>9, <1>10, <1>11, <1>12, ProcNames DEF NoneLeftBehind, Moves
<1>20. DroppedOnlyWhenFull'
  BY <1>1, <1>8, <1>3, <1>9, <1>10, <1>11, <1>12, ProcNames, MadeAreConns
       DEF DroppedOnlyWhenFull, Holds, Final, Moves, Keeps
<1>21. QED BY <1>13, <1>14, <1>15, <1>16, <1>17, <1>18, <1>19, <1>20 DEF IInv

\* newUDPConn's goroutine sets the state, whatever it was.
LEMMA ConnectedStep ==
  ASSUME IInv, NEW c \in Conns, Connected(c)
  PROVE  IInv'
<1>1. TypeOK BY DEF IInv
<1>2. \A q \in Procs : At(q) BY DEF IInv
<1>3. \A q \in Procs : Holds(q) BY DEF IInv
<1>4. \A q \in Procs : Knows(q) BY DEF IInv
<1>5. \A u \in Conns : Dials(u) BY DEF IInv
<1>6. Maps BY DEF IInv
<1>7. NoneLeftBehind BY DEF IInv
<1>8. DroppedOnlyWhenFull BY DEF IInv
<1>9. dial(c) \in Procs /\ dial(c)[1] = "dial" /\ pc[dial(c)] = "connected" /\ Moves(dial(c), "drain") /\ Keeps(dial(c))
  BY <1>1, ProcNames, GotoMoves DEF Connected, Locations
<1>10. /\ state' \in [Conns -> {"none", "connecting", "connected", "closed"}]
       /\ state'[c] = "connected" /\ \A b \in Conns : b # c => state'[b] = state[b]
  BY <1>1 DEF Connected, TypeOK
<1>11. UNCHANGED <<entry, remote, pending, relay, sock, job, made, pkts, late>>
  BY DEF Connected, relays, client
<1>12. TypeOK'
  BY <1>1, <1>9, <1>10, <1>11, UdpBounds DEF TypeOK, UdpBounds, Moves, Keeps
<1>13. \A q \in Procs : At(q)'
  BY <1>2, <1>9, <1>10, <1>11, ProcKinds DEF At, Closes, Clears, Moves
<1>14. \A q \in Procs : Holds(q)'
  BY <1>2, <1>3, <1>9, <1>10, <1>11, ProcNames, ProcKinds DEF Holds, At, Final, Made,
       Closes, Clears, Moves, Keeps
<1>15. \A q \in Procs : Knows(q)'
  BY <1>4, <1>9, <1>10, <1>11, ProcKinds DEF Knows, Made, Moves, Keeps
<1>16. \A u \in Conns : Dials(u)'
  BY <1>5, <1>3, <1>9, <1>10, <1>11, ProcNames, ProcKinds DEF Dials, Holds, Final,
       Moves, Keeps
<1>17. Maps'
  BY <1>6, <1>9, <1>10, <1>11 DEF Maps, Made
<1>18. NoneLeftBehind'
  BY <1>7, <1>9, <1>10, <1>11, ProcNames DEF NoneLeftBehind, Moves
<1>19. DroppedOnlyWhenFull'
  BY <1>1, <1>8, <1>3, <1>9, <1>10, <1>11, ProcNames, MadeAreConns
       DEF DroppedOnlyWhenFull, Holds, Final, Moves, Keeps
<1>20. QED BY <1>12, <1>13, <1>14, <1>15, <1>16, <1>17, <1>18, <1>19 DEF IInv

\* The reader gets data or an error.
LEMMA ReadStep ==
  ASSUME IInv, NEW c \in Conns, Read(c)
  PROVE  IInv'
<1>1. TypeOK BY DEF IInv
<1>2. \A q \in Procs : At(q) BY DEF IInv
<1>3. \A q \in Procs : Holds(q) BY DEF IInv
<1>4. \A q \in Procs : Knows(q) BY DEF IInv
<1>5. \A u \in Conns : Dials(u) BY DEF IInv
<1>6. Maps BY DEF IInv
<1>7. NoneLeftBehind BY DEF IInv
<1>8. DroppedOnlyWhenFull BY DEF IInv
<1>9. /\ reader(c) \in Procs /\ reader(c)[1] = "reader" /\ pc[reader(c)] = "read"
      /\ (Moves(reader(c), "write") \/ Moves(reader(c), "close1")) /\ Keeps(reader(c))
  BY <1>1, ProcNames, GotoMoves DEF Read, Locations
<1>10. UNCHANGED <<entry, state, remote, pending, relay, sock, job, made, pkts, late>>
  BY DEF Read, conns, relays, client
<1>11. TypeOK'
  BY <1>1, <1>9, <1>10, UdpBounds DEF TypeOK, UdpBounds, Moves, Keeps
<1>12. \A q \in Procs : At(q)'
  BY <1>2, <1>9, <1>10, ProcKinds DEF At, Closes, Clears, Moves
<1>13. \A q \in Procs : Holds(q)'
  BY <1>2, <1>3, <1>9, <1>10, ProcNames, ProcKinds DEF Holds, At, Final, Made,
       Closes, Clears, Moves, Keeps
<1>14. \A q \in Procs : Knows(q)'
  BY <1>4, <1>9, <1>10, ProcKinds DEF Knows, Made, Moves, Keeps
<1>15. \A u \in Conns : Dials(u)'
  BY <1>5, <1>3, <1>9, <1>10, ProcNames, ProcKinds DEF Dials, Holds, Final, Moves,
       Keeps
<1>16. Maps'
  BY <1>6, <1>9, <1>10 DEF Maps, Made
<1>17. NoneLeftBehind'
  BY <1>7, <1>9, <1>10, ProcNames DEF NoneLeftBehind, Moves
<1>18. DroppedOnlyWhenFull'
  BY <1>1, <1>8, <1>3, <1>9, <1>10, ProcNames, MadeAreConns DEF DroppedOnlyWhenFull,
       Holds, Final, Moves, Keeps
<1>19. QED BY <1>11, <1>12, <1>13, <1>14, <1>15, <1>16, <1>17, <1>18 DEF IInv

\* WriteFrom looks at the state.
LEMMA WriteFromStep ==
  ASSUME IInv, NEW c \in Conns, WriteFrom(c)
  PROVE  IInv'
<1>1. TypeOK BY DEF IInv
<1>2. \A q \in Procs : At(q) BY DEF IInv
<1>3. \A q \in Procs : Holds(q) BY DEF IInv
<1>4. \A q \in Procs : Knows(q) BY DEF IInv
<1>5. \A u \in Conns : Dials(u) BY DEF IInv
<1>6. Maps BY DEF IInv
<1>7. NoneLeftBehind BY DEF IInv
<1>8. DroppedOnlyWhenFull BY DEF IInv
<1>9. /\ reader(c) \in Procs /\ reader(c)[1] = "reader" /\ pc[reader(c)] = "write"
      /\ \/ Moves(reader(c), "read") \/ Moves(reader(c), "close1")
         \/ Moves(reader(c), "sendto")
      /\ Keeps(reader(c))
  BY <1>1, ProcNames, GotoMoves DEF WriteFrom, Locations
<1>10. UNCHANGED <<entry, state, remote, pending, relay, sock, job, made, pkts, late>>
  BY DEF WriteFrom, conns, relays, client
<1>11. TypeOK'
  BY <1>1, <1>9, <1>10, UdpBounds DEF TypeOK, UdpBounds, Moves, Keeps
<1>12. \A q \in Procs : At(q)'
  BY <1>2, <1>9, <1>10, ProcKinds DEF At, Closes, Clears, Moves
<1>13. \A q \in Procs : Holds(q)'
  BY <1>2, <1>3, <1>9, <1>10, ProcNames, ProcKinds DEF Holds, At, Final, Made,
       Closes, Clears, Moves, Keeps
<1>14. \A q \in Procs : Knows(q)'
  BY <1>4, <1>9, <1>10, ProcKinds DEF Knows, Made, Moves, Keeps
<1>15. \A u \in Conns : Dials(u)'
  BY <1>5, <1>3, <1>9, <1>10, ProcNames, ProcKinds DEF Dials, Holds, Final, Moves,
       Keeps
<1>16. Maps'
  BY <1>6, <1>9, <1>10 DEF Maps, Made
<1>17. NoneLeftBehind'
  BY <1>7, <1>9, <1>10, ProcNames DEF NoneLeftBehind, Moves
<1>18. DroppedOnlyWhenFull'
  BY <1>1, <1>8, <1>3, <1>9, <1>10, ProcNames, MadeAreConns DEF DroppedOnlyWhenFull,
       Holds, Final, Moves, Keeps
<1>19. QED BY <1>11, <1>12, <1>13, <1>14, <1>15, <1>16, <1>17, <1>18 DEF IInv

\* WriteFrom hands the packet to lwIP.
LEMMA SendtoStep ==
  ASSUME IInv, NEW c \in Conns, Sendto(c)
  PROVE  IInv'
<1>1. TypeOK BY DEF IInv
<1>2. \A q \in Procs : At(q) BY DEF IInv
<1>3. \A q \in Procs : Holds(q) BY DEF IInv
<1>4. \A q \in Procs : Knows(q) BY DEF IInv
<1>5. \A u \in Conns : Dials(u) BY DEF IInv
<1>6. Maps BY DEF IInv
<1>7. NoneLeftBehind BY DEF IInv
<1>8. DroppedOnlyWhenFull BY DEF IInv
<1>9. /\ reader(c) \in Procs /\ reader(c)[1] = "reader" /\ pc[reader(c)] = "sendto"
      /\ Moves(reader(c), "read") /\ Keeps(reader(c))
  BY <1>1, ProcNames, GotoMoves DEF Sendto, Locations
<1>10. UNCHANGED <<entry, state, remote, pending, relay, sock, job, made, pkts, late>>
  BY DEF Sendto, conns, relays, client
<1>11. TypeOK'
  BY <1>1, <1>9, <1>10, UdpBounds DEF TypeOK, UdpBounds, Moves, Keeps
<1>12. \A q \in Procs : At(q)'
  BY <1>2, <1>9, <1>10, ProcKinds DEF At, Closes, Clears, Moves
<1>13. \A q \in Procs : Holds(q)'
  BY <1>2, <1>3, <1>9, <1>10, ProcNames, ProcKinds DEF Holds, At, Final, Made,
       Closes, Clears, Moves, Keeps
<1>14. \A q \in Procs : Knows(q)'
  BY <1>4, <1>9, <1>10, ProcKinds DEF Knows, Made, Moves, Keeps
<1>15. \A u \in Conns : Dials(u)'
  BY <1>5, <1>3, <1>9, <1>10, ProcNames, ProcKinds DEF Dials, Holds, Final, Moves,
       Keeps
<1>16. Maps'
  BY <1>6, <1>9, <1>10 DEF Maps, Made
<1>17. NoneLeftBehind'
  BY <1>7, <1>9, <1>10, ProcNames DEF NoneLeftBehind, Moves
<1>18. DroppedOnlyWhenFull'
  BY <1>1, <1>8, <1>3, <1>9, <1>10, ProcNames, MadeAreConns DEF DroppedOnlyWhenFull,
       Holds, Final, Moves, Keeps
<1>19. QED BY <1>11, <1>12, <1>13, <1>14, <1>15, <1>16, <1>17, <1>18 DEF IInv

\* redirectMap takes the socket and the reader starts.
LEMMA ConnectStep ==
  ASSUME IInv, NEW c \in Conns, Connect(c)
  PROVE  IInv'
<1>1. TypeOK BY DEF IInv
<1>2. \A q \in Procs : At(q) BY DEF IInv
<1>3. \A q \in Procs : Holds(q) BY DEF IInv
<1>4. \A q \in Procs : Knows(q) BY DEF IInv
<1>5. \A u \in Conns : Dials(u) BY DEF IInv
<1>6. Maps BY DEF IInv
<1>7. NoneLeftBehind BY DEF IInv
<1>8. DroppedOnlyWhenFull BY DEF IInv
<1>9. /\ dial(c) \in Procs /\ reader(c) \in Procs /\ dial(c)[1] = "dial" /\ reader(c)[1] = "reader"
      /\ reader(c)[2] = c /\ dial(c) # reader(c) /\ pc[dial(c)] = "register"
  BY ProcNames DEF Connect
<1>10. c \in Made /\ remote[c] \in Dsts /\ sock[c] # "none"
  BY <1>3, <1>5, <1>6, <1>9, ProcNames DEF Holds, Final, Dials, Maps
<1>11. /\ pc' \in [Procs -> Locations] /\ pc'[dial(c)] = "connected" /\ pc'[reader(c)] = "read"
       /\ \A q \in Procs \ {dial(c), reader(c)} : pc'[q] = pc[q]
  BY <1>1, <1>9 DEF Connect, TypeOK, Locations
<1>12. /\ job' \in [Procs -> Jobs] /\ job'[reader(c)].conn = c /\ job'[reader(c)].dst = remote[c]
       /\ \A q \in Procs \ {reader(c)} : job'[q] = job[q]
  <2>1. [conn |-> c, dst |-> remote[c], peer |-> 0] \in Jobs
    BY <1>1, <1>10, UdpBounds DEF UdpBounds, TypeOK, Jobs, Conns
  <2>2. QED BY <1>1, <1>9, <2>1 DEF Connect, TypeOK
<1>13. /\ relay' \in [Dsts -> 0..MaxConns] /\ relay'[remote[c]] = c
       /\ \A d \in Dsts : d # remote[c] => relay'[d] = relay[d]
  BY <1>1, <1>10 DEF Connect, TypeOK, Conns
<1>14. UNCHANGED <<entry, state, remote, pending, sock, made, pkts, late>>
  BY DEF Connect, conns, client
<1>15. TypeOK'
  BY <1>1, <1>9, <1>10, <1>11, <1>12, <1>13, <1>14 DEF TypeOK
<1>16. \A q \in Procs : At(q)'
  BY <1>2, <1>9, <1>10, <1>11, <1>12, <1>13, <1>14, ProcKinds DEF At, Closes, Clears,
       Moves
<1>17. \A q \in Procs : Holds(q)'
  BY <1>2, <1>3, <1>9, <1>10, <1>11, <1>12, <1>13, <1>14, ProcNames, ProcKinds
       DEF Holds, At, Final, Made, Closes, Clears, Moves, Keeps
<1>18. \A q \in Procs : Knows(q)'
  BY <1>4, <1>9, <1>10, <1>11, <1>12, <1>13, <1>14, ProcKinds DEF Knows, Made, Moves,
       Keeps
<1>19. \A u \in Conns : Dials(u)'
  BY <1>5, <1>3, <1>9, <1>10, <1>11, <1>12, <1>13, <1>14, ProcNames, ProcKinds
       DEF Dials, Holds, Final, Moves, Keeps
<1>20. Maps'
  BY <1>6, <1>9, <1>10, <1>11, <1>12, <1>13, <1>14 DEF Maps, Made
<1>21. NoneLeftBehind'
  BY <1>7, <1>9, <1>10, <1>11, <1>12, <1>13, <1>14, ProcNames DEF NoneLeftBehind,
       Moves
<1>22. DroppedOnlyWhenFull'
  BY <1>1, <1>8, <1>3, <1>9, <1>10, <1>11, <1>12, <1>13, <1>14, ProcNames,
       MadeAreConns DEF DroppedOnlyWhenFull, Holds, Final, Moves, Keeps
<1>23. QED BY <1>15, <1>16, <1>17, <1>18, <1>19, <1>20, <1>21, <1>22 DEF IInv

\* The drain takes a packet or finds the queue empty: the connection is no
\* longer connecting, so nobody fills the queue.
LEMMA DrainStep ==
  ASSUME IInv, NEW c \in Conns, Drain(c)
  PROVE  IInv'
<1>1. TypeOK BY DEF IInv
<1>2. \A q \in Procs : At(q) BY DEF IInv
<1>3. \A q \in Procs : Holds(q) BY DEF IInv
<1>4. \A q \in Procs : Knows(q) BY DEF IInv
<1>5. \A u \in Conns : Dials(u) BY DEF IInv
<1>6. Maps BY DEF IInv
<1>7. NoneLeftBehind BY DEF IInv
<1>8. DroppedOnlyWhenFull BY DEF IInv
<1>9. dial(c) \in Procs /\ dial(c)[1] = "dial" /\ pc[dial(c)] = "drain"
  BY ProcNames DEF Drain
<1>10. state[c] # "connecting"
  BY <1>5, <1>9 DEF Dials
<1>11. UNCHANGED <<entry, state, remote, relay, sock, made, pkts, late>>
  BY DEF Drain, relays, client
<1>12. /\ pending' \in [Conns -> Seq(Dsts)] /\ \A b \in Conns : Len(pending'[b]) <= QueueCap
       /\ \A b \in Conns \ {c} : pending'[b] = pending[b]
       /\ pc' \in [Procs -> Locations] /\ pc'[dial(c)] \in {"drained", "lookup"}
       /\ job' \in [Procs -> Jobs]
       /\ \A q \in Procs : q # dial(c) => pc'[q] = pc[q] /\ job'[q] = job[q]
       /\ pc'[dial(c)] = "drained" => pending'[c] = <<>>
       /\ pc'[dial(c)] = "lookup" => /\ job'[dial(c)].conn = job[dial(c)].conn
                                      /\ job'[dial(c)].dst \in Dsts
  <2>1. CASE pending[c] = <<>>
    <3>1. Moves(dial(c), "drained") /\ Keeps(dial(c)) /\ UNCHANGED pending
      BY <1>1, <1>9, <2>1, FinishMoves DEF Drain, Locations
    <3>2. QED BY <1>1, <2>1, <3>1 DEF Moves, Keeps, TypeOK
  <2>2. CASE pending[c] # <<>>
    <3>1. /\ pending[c] \in Seq(Dsts) /\ Head(pending[c]) \in Dsts /\ Tail(pending[c]) \in Seq(Dsts)
          /\ Len(Tail(pending[c])) <= QueueCap
      BY <1>1, <2>2, UdpBounds DEF UdpBounds, TypeOK
    <3>2. pending' = [pending EXCEPT ![c] = Tail(pending[c])]
      BY <2>2 DEF Drain
    <3>3. Moves(dial(c), "lookup")
      BY <1>1, <1>9, <2>2, GotoMoves DEF Drain, Locations
    <3>4. job' = [job EXCEPT ![dial(c)] = [job[dial(c)] EXCEPT !.dst = Head(pending[c])]]
      BY <2>2 DEF Drain
    <3>5. job[dial(c)] \in Jobs /\ [job[dial(c)] EXCEPT !.dst = Head(pending[c])] \in Jobs
      <4>1. job[dial(c)] \in Jobs /\ Head(pending[c]) \in 0..MaxDsts
        BY <1>1, <1>9, <3>1, UdpBounds DEF UdpBounds, TypeOK, Dsts
      <4>2. QED BY <4>1 DEF Jobs
    <3>6. /\ job' \in [Procs -> Jobs] /\ job'[dial(c)].conn = job[dial(c)].conn
          /\ job'[dial(c)].dst \in Dsts /\ \A q \in Procs \ {dial(c)} : job'[q] = job[q]
      BY <1>1, <1>9, <3>1, <3>4, <3>5 DEF TypeOK, Jobs
    <3>7. /\ pending' \in [Conns -> Seq(Dsts)] /\ \A b \in Conns : Len(pending'[b]) <= QueueCap
          /\ \A b \in Conns \ {c} : pending'[b] = pending[b]
      BY <1>1, <3>1, <3>2 DEF TypeOK
    <3>8. QED BY <3>3, <3>6, <3>7 DEF Moves
  <2>3. QED BY <2>1, <2>2
<1>13. TypeOK'
  BY <1>1, <1>9, <1>10, <1>11, <1>12 DEF TypeOK
<1>14. \A q \in Procs : At(q)'
  BY <1>2, <1>9, <1>10, <1>11, <1>12, ProcKinds DEF At, Closes, Clears, Moves
<1>15. \A q \in Procs : Holds(q)'
  BY <1>2, <1>3, <1>9, <1>10, <1>11, <1>12, ProcNames, ProcKinds DEF Holds, At,
       Final, Made, Closes, Clears, Moves, Keeps
<1>16. \A q \in Procs : Knows(q)'
  BY <1>4, <1>9, <1>10, <1>11, <1>12, ProcKinds DEF Knows, Made, Moves, Keeps
<1>17. \A u \in Conns : Dials(u)'
  BY <1>5, <1>3, <1>9, <1>10, <1>11, <1>12, ProcNames, ProcKinds, SMTT(30) DEF Dials, Holds,
       Final, Moves, Keeps
<1>18. Maps'
  BY <1>6, <1>9, <1>10, <1>11, <1>12 DEF Maps, Made
<1>19. NoneLeftBehind'
  BY <1>7, <1>9, <1>10, <1>11, <1>12, ProcNames, ProcKinds DEF NoneLeftBehind
<1>20. DroppedOnlyWhenFull'
  <2>1. SUFFICES ASSUME pc'[lwip] = "check", state'[job'[lwip].conn] = "connecting"
                PROVE  Len(pending'[job'[lwip].conn]) = QueueCap
    BY DEF DroppedOnlyWhenFull
  <2>2. lwip \in Procs /\ lwip # dial(c) BY <1>9, ProcNames
  <2>3. pc[lwip] = "check" /\ job'[lwip] = job[lwip] BY <1>12, <2>1, <2>2
  <2>4. job[lwip].conn \in Conns BY <1>1, <1>3, <2>2, <2>3, MadeAreConns DEF Holds,
       Final
  <2>5. job[lwip].conn # c BY <1>10, <1>11, <2>1, <2>3
  <2>6. QED BY <1>8, <1>11, <1>12, <2>1, <2>3, <2>4, <2>5 DEF DroppedOnlyWhenFull
<1>21. QED BY <1>13, <1>14, <1>15, <1>16, <1>17, <1>18, <1>19, <1>20 DEF IInv

\* lwipStack.Close begins.
LEMMA StackCloseStep ==
  ASSUME IInv, StackClose
  PROVE  IInv'
<1>1. TypeOK BY DEF IInv
<1>2. \A q \in Procs : At(q) BY DEF IInv
<1>3. \A q \in Procs : Holds(q) BY DEF IInv
<1>4. \A q \in Procs : Knows(q) BY DEF IInv
<1>5. \A u \in Conns : Dials(u) BY DEF IInv
<1>6. Maps BY DEF IInv
<1>7. NoneLeftBehind BY DEF IInv
<1>8. DroppedOnlyWhenFull BY DEF IInv
<1>9. stop \in Procs /\ stop[1] = "stop" /\ pc[stop] = "idle" /\ Moves(stop, "range") /\ Keeps(stop)
  BY <1>1, ProcNames, GotoMoves DEF StackClose, Locations
<1>10. UNCHANGED <<entry, state, remote, pending, relay, sock, job, made, pkts, late>>
  BY DEF StackClose, conns, relays, client
<1>11. TypeOK'
  BY <1>1, <1>9, <1>10, UdpBounds DEF TypeOK, UdpBounds, Moves, Keeps
<1>12. \A q \in Procs : At(q)'
  BY <1>2, <1>9, <1>10, ProcKinds DEF At, Closes, Clears, Moves
<1>13. \A q \in Procs : Holds(q)'
  BY <1>2, <1>3, <1>9, <1>10, ProcNames, ProcKinds DEF Holds, At, Final, Made,
       Closes, Clears, Moves, Keeps
<1>14. \A q \in Procs : Knows(q)'
  BY <1>4, <1>9, <1>10, ProcKinds DEF Knows, Made, Moves, Keeps
<1>15. \A u \in Conns : Dials(u)'
  BY <1>5, <1>3, <1>9, <1>10, ProcNames, ProcKinds DEF Dials, Holds, Final, Moves,
       Keeps
<1>16. Maps'
  BY <1>6, <1>9, <1>10 DEF Maps, Made
<1>17. NoneLeftBehind'
  BY <1>7, <1>9, <1>10, ProcNames DEF NoneLeftBehind, Moves
<1>18. DroppedOnlyWhenFull'
  BY <1>1, <1>8, <1>3, <1>9, <1>10, ProcNames, MadeAreConns DEF DroppedOnlyWhenFull,
       Holds, Final, Moves, Keeps
<1>19. QED BY <1>11, <1>12, <1>13, <1>14, <1>15, <1>16, <1>17, <1>18 DEF IInv

\* lwipStack.Close finds the connection, if any.
LEMMA StackRangeStep ==
  ASSUME IInv, StackRange
  PROVE  IInv'
<1>1. TypeOK BY DEF IInv
<1>2. \A q \in Procs : At(q) BY DEF IInv
<1>3. \A q \in Procs : Holds(q) BY DEF IInv
<1>4. \A q \in Procs : Knows(q) BY DEF IInv
<1>5. \A u \in Conns : Dials(u) BY DEF IInv
<1>6. Maps BY DEF IInv
<1>7. NoneLeftBehind BY DEF IInv
<1>8. DroppedOnlyWhenFull BY DEF IInv
<1>9. stop \in Procs /\ stop[1] = "stop" /\ pc[stop] = "range"
  BY ProcNames DEF StackRange
<1>10. UNCHANGED <<entry, state, remote, pending, relay, sock, made, pkts, late>>
  BY DEF StackRange, conns, relays, client
<1>11. /\ job' \in [Procs -> Jobs] /\ job'[stop].conn = entry
       /\ \A q \in Procs \ {stop} : job'[q] = job[q]
  <2>1. job[stop] \in Jobs /\ [job[stop] EXCEPT !.conn = entry] \in Jobs
    BY <1>1, <1>9 DEF TypeOK, Jobs
  <2>2. job' = [job EXCEPT ![stop] = [job[stop] EXCEPT !.conn = entry]]
    BY DEF StackRange
  <2>3. QED BY <1>1, <1>9, <2>1, <2>2 DEF TypeOK, Jobs
<1>12. \/ Moves(stop, "unlisten")
       \/ Moves(stop, "close1") /\ entry \in Made
  <2>1. Goto(stop, IF entry = 0 THEN "unlisten" ELSE "close1")
    BY DEF StackRange
  <2>2. CASE entry = 0
    <3>1. Goto(stop, "unlisten") BY <2>1, <2>2
    <3>2. Moves(stop, "unlisten") BY <1>1, <1>9, <3>1, GotoMoves DEF Locations
    <3>3. QED BY <3>2
  <2>3. CASE entry # 0
    <3>1. Goto(stop, "close1") BY <2>1, <2>3
    <3>2. entry \in Made BY <1>1, <1>6, <2>3 DEF Maps, Made, TypeOK
    <3>3. QED BY <1>1, <1>9, <3>1, <3>2, GotoMoves DEF Locations
  <2>4. QED BY <2>2, <2>3
<1>13. TypeOK'
  BY <1>1, <1>9, <1>10, <1>11, <1>12, UdpBounds DEF TypeOK, UdpBounds, Moves, Keeps
<1>14. \A q \in Procs : At(q)'
  BY <1>2, <1>9, <1>10, <1>11, <1>12, ProcKinds DEF At, Closes, Clears, Moves
<1>15. \A q \in Procs : Holds(q)'
  BY <1>2, <1>3, <1>9, <1>10, <1>11, <1>12, ProcNames, ProcKinds DEF Holds, At,
       Final, Made, Closes, Clears, Moves, Keeps
<1>16. \A q \in Procs : Knows(q)'
  BY <1>4, <1>9, <1>10, <1>11, <1>12, ProcKinds DEF Knows, Made, Moves, Keeps
<1>17. \A u \in Conns : Dials(u)'
  BY <1>5, <1>3, <1>9, <1>10, <1>11, <1>12, ProcNames, ProcKinds DEF Dials, Holds,
       Final, Moves, Keeps
<1>18. Maps'
  BY <1>6, <1>9, <1>10, <1>11, <1>12 DEF Maps, Made
<1>19. NoneLeftBehind'
  BY <1>7, <1>9, <1>10, <1>11, <1>12, ProcNames DEF NoneLeftBehind, Moves
<1>20. DroppedOnlyWhenFull'
  BY <1>1, <1>8, <1>3, <1>9, <1>10, <1>11, <1>12, ProcNames, MadeAreConns
       DEF DroppedOnlyWhenFull, Holds, Final, Moves, Keeps
<1>21. QED BY <1>13, <1>14, <1>15, <1>16, <1>17, <1>18, <1>19, <1>20 DEF IInv

\* lwipStack.Close ends.
LEMMA StackUnlistenStep ==
  ASSUME IInv, StackUnlisten
  PROVE  IInv'
<1>1. TypeOK BY DEF IInv
<1>2. \A q \in Procs : At(q) BY DEF IInv
<1>3. \A q \in Procs : Holds(q) BY DEF IInv
<1>4. \A q \in Procs : Knows(q) BY DEF IInv
<1>5. \A u \in Conns : Dials(u) BY DEF IInv
<1>6. Maps BY DEF IInv
<1>7. NoneLeftBehind BY DEF IInv
<1>8. DroppedOnlyWhenFull BY DEF IInv
<1>9. stop \in Procs /\ stop[1] = "stop" /\ pc[stop] = "unlisten" /\ Moves(stop, "done") /\ Keeps(stop)
  BY <1>1, ProcNames, FinishMoves DEF StackUnlisten, Locations
<1>10. UNCHANGED <<entry, state, remote, pending, relay, sock, made, pkts, late>>
  BY DEF StackUnlisten, conns, relays, client
<1>11. TypeOK'
  BY <1>1, <1>9, <1>10, UdpBounds DEF TypeOK, UdpBounds, Moves, Keeps
<1>12. \A q \in Procs : At(q)'
  BY <1>2, <1>9, <1>10, ProcKinds DEF At, Closes, Clears, Moves
<1>13. \A q \in Procs : Holds(q)'
  BY <1>2, <1>3, <1>9, <1>10, ProcNames, ProcKinds DEF Holds, At, Final, Made,
       Closes, Clears, Moves, Keeps
<1>14. \A q \in Procs : Knows(q)'
  BY <1>4, <1>9, <1>10, ProcKinds DEF Knows, Made, Moves, Keeps
<1>15. \A u \in Conns : Dials(u)'
  BY <1>5, <1>3, <1>9, <1>10, ProcNames, ProcKinds DEF Dials, Holds, Final, Moves,
       Keeps
<1>16. Maps'
  BY <1>6, <1>9, <1>10 DEF Maps, Made
<1>17. NoneLeftBehind'
  BY <1>7, <1>9, <1>10, ProcNames DEF NoneLeftBehind, Moves
<1>18. DroppedOnlyWhenFull'
  BY <1>1, <1>8, <1>3, <1>9, <1>10, ProcNames, MadeAreConns DEF DroppedOnlyWhenFull,
       Holds, Final, Moves, Keeps
<1>19. QED BY <1>11, <1>12, <1>13, <1>14, <1>15, <1>16, <1>17, <1>18 DEF IInv

\* udpRecvFn finds a connection for the source.
LEMMA RecvKnown ==
  ASSUME IInv, udpRecvFn, entry # 0
  PROVE  IInv'
<1>1. TypeOK BY DEF IInv
<1>2. \A q \in Procs : At(q) BY DEF IInv
<1>3. \A q \in Procs : Holds(q) BY DEF IInv
<1>4. \A q \in Procs : Knows(q) BY DEF IInv
<1>5. \A u \in Conns : Dials(u) BY DEF IInv
<1>6. Maps BY DEF IInv
<1>7. NoneLeftBehind BY DEF IInv
<1>8. PICK d \in Dsts : job' = [job EXCEPT ![lwip] = [conn |-> entry, dst |-> d, peer |-> 0]]
  BY DEF udpRecvFn
<1>9. /\ lwip \in Procs /\ lwip[1] = "lwip" /\ Moves(lwip, "enqueue")
  BY <1>1, ProcNames, GotoMoves DEF udpRecvFn, Locations
<1>10. UNCHANGED <<entry, state, remote, pending, relay, sock, made>>
  BY DEF udpRecvFn, relays
<1>11. pkts' \in 0..MaxPkts /\ late' \in BOOLEAN
  BY <1>1, UdpBounds DEF UdpBounds, udpRecvFn, TypeOK
<1>12. entry \in Made
  BY <1>1, <1>6 DEF Maps, Made, TypeOK
<1>13. /\ job' \in [Procs -> Jobs] /\ job'[lwip].conn = entry /\ job'[lwip].dst = d
       /\ \A q \in Procs : q # lwip => job'[q] = job[q]
  <2>1. entry \in 0..MaxConns /\ d \in 0..MaxDsts /\ 0 \in 0..MaxConns
    BY <1>1, UdpBounds DEF UdpBounds, TypeOK, Dsts
  <2>2. [conn |-> entry, dst |-> d, peer |-> 0] \in Jobs BY <2>1 DEF Jobs
  <2>3. QED BY <1>1, <1>8, <1>9, <2>2 DEF TypeOK
<1>14. TypeOK'
  BY <1>1, <1>9, <1>10, <1>11, <1>13 DEF TypeOK, Moves
<1>15. \A q \in Procs : At(q)'
  BY <1>2, <1>9 DEF At, Moves
<1>16. \A q \in Procs : Holds(q)'
  BY <1>3, <1>9, <1>10, <1>12, <1>13, ProcKinds DEF Holds, Moves, Made, Final
<1>17. \A q \in Procs : Knows(q)'
  BY <1>4, <1>9, <1>10, <1>13 DEF Knows, Moves, Made
<1>18. \A u \in Conns : Dials(u)'
  BY <1>5, <1>9, <1>10, ProcNames DEF Dials, Moves
<1>19. Maps'
  BY <1>6, <1>10 DEF Maps, Made
<1>20. NoneLeftBehind'
  BY <1>7, <1>9, <1>10, ProcNames DEF NoneLeftBehind, Moves
<1>21. DroppedOnlyWhenFull'
  BY <1>9 DEF DroppedOnlyWhenFull, Moves
<1>22. QED BY <1>14, <1>15, <1>16, <1>17, <1>18, <1>19, <1>20, <1>21 DEF IInv

\* udpRecvFn creates a connection and starts its goroutine.
LEMMA RecvNew ==
  ASSUME IInv, udpRecvFn, entry = 0
  PROVE  IInv'
<1>1. TypeOK BY DEF IInv
<1>2. \A q \in Procs : At(q) BY DEF IInv
<1>3. \A q \in Procs : Holds(q) BY DEF IInv
<1>4. \A q \in Procs : Knows(q) BY DEF IInv
<1>5. \A u \in Conns : Dials(u) BY DEF IInv
<1>6. Maps BY DEF IInv
<1>7. NoneLeftBehind BY DEF IInv
<1>0. PICK m \in Nat : m = made + 1 BY <1>1 DEF TypeOK
<1>8. /\ made \in Nat /\ made' = m /\ m \in Nat /\ m \in Conns /\ m \notin Made /\ m \in Made'
      /\ \A c \in Made' : c = m \/ c \in Made
      /\ Made \subseteq Made' /\ Made' \subseteq Conns
  BY <1>0, <1>1, UdpBounds DEF UdpBounds, udpRecvFn, TypeOK, Conns, Made
<1>9. /\ lwip \in Procs /\ lwip[1] = "lwip" /\ dial(m) \in Procs /\ dial(m)[1] = "dial"
      /\ dial(m)[2] = m /\ lwip # dial(m)
      /\ \A c \in Conns : dial(c) \in Procs /\ dial(c) # lwip /\ (dial(c) = dial(m) => c = m)
  BY <1>8, ProcNames
<1>10. PICK d \in Dsts :
         /\ remote' = [remote EXCEPT ![m] = d]
         /\ job' = [job EXCEPT ![lwip] = [conn |-> m, dst |-> d, peer |-> 0],
                               ![dial(m)] = [conn |-> m, dst |-> d, peer |-> 0]]
  BY <1>8 DEF udpRecvFn
<1>11. /\ pc' \in [Procs -> Locations] /\ pc'[lwip] = "store" /\ pc'[dial(m)] = "dialing"
       /\ \A q \in Procs : q \notin {lwip, dial(m)} => pc'[q] = pc[q]
  <2>1. pc' = [pc EXCEPT ![lwip] = "store", ![dial(m)] = "dialing"]
    BY <1>8 DEF udpRecvFn
  <2>2. QED BY <1>1, <1>9, <2>1 DEF TypeOK, Locations
<1>12. UNCHANGED <<entry, pending, relay, sock>> /\ pkts' \in 0..MaxPkts /\ late' \in BOOLEAN
  BY <1>1, UdpBounds DEF UdpBounds, udpRecvFn, TypeOK, relays
<1>13. /\ state' \in [Conns -> {"none", "connecting", "connected", "closed"}]
       /\ \A c \in Conns : c # m => state'[c] = state[c]
  <2>1. state' = [state EXCEPT ![m] = "connecting"]
    BY <1>8 DEF udpRecvFn
  <2>2. QED BY <1>1, <1>8, <2>1 DEF TypeOK
<1>14. d \in 0..MaxDsts /\ m \in 0..MaxConns /\ 0 \in 0..MaxConns
  BY <1>8, UdpBounds DEF UdpBounds, Dsts, Conns
<1>15. /\ remote' \in [Conns -> 0..MaxDsts] /\ remote'[m] = d
       /\ \A c \in Conns : c # m => remote'[c] = remote[c]
  BY <1>1, <1>8, <1>10, <1>14 DEF TypeOK
<1>16. /\ job' \in [Procs -> Jobs]
       /\ job'[lwip].conn = m /\ job'[lwip].dst = d
       /\ job'[dial(m)].conn = m /\ job'[dial(m)].dst = d
       /\ \A q \in Procs : q \notin {lwip, dial(m)} => job'[q] = job[q]
  <2>1. [conn |-> m, dst |-> d, peer |-> 0] \in Jobs BY <1>14 DEF Jobs
  <2>2. QED BY <1>1, <1>9, <1>10, <2>1 DEF TypeOK
<1>17. TypeOK'
  BY <1>1, <1>8, <1>11, <1>12, <1>13, <1>14, <1>15, <1>16 DEF TypeOK
<1>18. \A q \in Procs : At(q)'
  BY <1>2, <1>9, <1>11 DEF At
<1>19. \A q \in Procs : Holds(q)'
  <2>1. Holds(lwip)' BY <1>8, <1>9, <1>11, <1>16 DEF Holds
  <2>2. Holds(dial(m))' BY <1>8, <1>9, <1>11, <1>16 DEF Holds
  <2>3. ASSUME NEW q \in Procs, q \notin {lwip, dial(m)} PROVE Holds(q)'
    BY <1>3, <1>8, <1>11, <1>16, <2>3 DEF Holds
  <2>4. QED BY <2>1, <2>2, <2>3
<1>20. \A q \in Procs : Knows(q)'
  <2>1. Knows(lwip)' /\ Knows(dial(m))' BY <1>11 DEF Knows
  <2>2. ASSUME NEW q \in Procs, q \notin {lwip, dial(m)} PROVE Knows(q)'
    <3>1. pc'[q] = pc[q] /\ job'[q] = job[q] /\ Knows(q) /\ sock' = sock
      BY <1>4, <1>11, <1>12, <1>16, <2>2
    <3>2. \A c \in Made : c \in Made' /\ remote'[c] = remote[c]
      BY <1>8, <1>15
    <3>3. QED BY <3>1, <3>2 DEF Knows
  <2>3. QED BY <2>1, <2>2
<1>21. \A u \in Conns : Dials(u)'
  <2>1. Dials(m)' BY <1>6, <1>8, <1>11, <1>12 DEF Dials, Maps
  <2>2. ASSUME NEW c \in Conns, c # m PROVE Dials(c)'
    BY <1>5, <1>9, <1>11, <1>12, <1>13, <2>2 DEF Dials
  <2>3. QED BY <2>1, <2>2
<1>22. Maps'
  <2>1. entry' \in 0..made' BY <1>6, <1>8, <1>12 DEF Maps
  <2>2. \A c \in Made' : remote'[c] \in Dsts BY <1>6, <1>8, <1>15 DEF Maps
  <2>3. \A c \in Conns \ Made' : sock'[c] = "none" BY <1>6, <1>8, <1>12 DEF Maps
  <2>4. \A e \in Dsts : relay'[e] # 0 =>
          relay'[e] \in Made' /\ remote'[relay'[e]] = e /\ sock'[relay'[e]] # "none"
    BY <1>6, <1>8, <1>12, <1>15 DEF Maps
  <2>5. QED BY <2>1, <2>2, <2>3, <2>4 DEF Maps
<1>23. NoneLeftBehind'
  BY <1>7, <1>9, <1>11, <1>12 DEF NoneLeftBehind
<1>24. DroppedOnlyWhenFull'
  BY <1>11 DEF DroppedOnlyWhenFull
<1>25. QED BY <1>17, <1>18, <1>19, <1>20, <1>21, <1>22, <1>23, <1>24 DEF IInv

-------------------------------------------------------------------------------
(* The theorems *)

\* The program starts within the invariant.
LEMMA InitIInv == Init => IInv
<1> SUFFICES ASSUME Init PROVE IInv OBVIOUS
<1>1. 0 \in 0..MaxConns /\ 0 \in 0..MaxDsts /\ 0 \in 0..MaxPkts /\ Len(<<>>) <= QueueCap
  BY UdpBounds DEF UdpBounds
<1>2. NoJob \in Jobs BY <1>1 DEF NoJob, Jobs
<1>3. TypeOK BY <1>1, <1>2 DEF Init, TypeOK, Locations
<1>4. \A p \in Procs : At(p) /\ Holds(p) /\ Knows(p)
  BY DEF Init, At, Holds, Knows, Final
<1>5. \A u \in Conns : Dials(u) BY ProcNames DEF Init, Dials
<1>6. Maps BY DEF Init, Maps, Made
<1>7. NoneLeftBehind BY DEF Init, NoneLeftBehind
<1>8. DroppedOnlyWhenFull BY ProcNames DEF Init, DroppedOnlyWhenFull
<1>9. QED BY <1>3, <1>4, <1>5, <1>6, <1>7, <1>8 DEF IInv

\* A step of something else changes nothing.
LEMMA StutterIInv == IInv /\ UNCHANGED vars => IInv'
BY DEF IInv, vars, TypeOK, At, Holds, Knows, Dials, Maps, Made, NoneLeftBehind, DroppedOnlyWhenFull

\* Every step keeps the invariant.
LEMMA NextIInv == IInv /\ Next => IInv'
<1> SUFFICES ASSUME IInv, Next PROVE IInv' OBVIOUS
<1>1. CASE \E p \in Procs : Closing(p)
  BY <1>1, CloseStep, CloseDeleteStep DEF Closing
<1>2. CASE \E p \in Procs : Clearing(p)
  BY <1>2, ClearStep, ClearShutStep, ClearDeleteStep DEF Clearing
<1>3. CASE \E p \in Procs : Handler(p)
  BY <1>3, LookupStep, SendStep DEF Handler
<1>4. CASE Lwip
  BY <1>4, RecvKnown, RecvNew, StoreStep, EnqueueStep, CheckStep DEF Lwip
<1>5. CASE Stop
  BY <1>5, StackCloseStep, StackRangeStep, StackUnlistenStep DEF Stop
<1>6. CASE \E c \in Conns : Dial(c)
  BY <1>6, DialFailsStep, DialSucceedsStep, ConnectStep, ConnectedStep, DrainStep DEF Dial
<1>7. CASE \E c \in Conns : Reader(c)
  BY <1>7, ReadStep, WriteFromStep, SendtoStep DEF Reader
<1>8. QED BY <1>1, <1>2, <1>3, <1>4, <1>5, <1>6, <1>7 DEF Next

\* The invariant holds throughout.
LEMMA Invariant == Spec => []IInv
BY InitIInv, NextIInv, StutterIInv, PTL DEF Spec

\* Types hold, and no queue of early packets outgrows its capacity (the channel
\* made by newUDPConn, on which enqueueEarlyPacket must not block under lwipMutex).
THEOREM TypeCorrect == Spec => []TypeOK
<1>1. IInv => TypeOK BY DEF IInv
<1>2. QED BY Invariant, <1>1, PTL

\* ReceiveTo writes a packet only to a socket that was dialled to the packet's
\* destination, however the lookups, replacements and removals of redirectMap by
\* the three kinds of goroutines interleave.
THEOREM RelaySafe == Spec => []RelayLeadsToTarget
<1>1. IInv => RelayLeadsToTarget BY DEF IInv, Maps, Knows, RelayLeadsToTarget
<1>2. QED BY Invariant, <1>1, PTL

\* No packet is left in a queue whose drain (newUDPConn's goroutine) is over.
THEOREM DrainSafe == Spec => []NoneLeftBehind
<1>1. IInv => NoneLeftBehind BY DEF IInv
<1>2. QED BY Invariant, <1>1, PTL

\* udpRecvFn drops a packet of a connecting connection only when its queue is full,
\* although it looks at the state twice without a lock in between.
THEOREM DropSafe == Spec => []DroppedOnlyWhenFull
<1>1. IInv => DroppedOnlyWhenFull BY DEF IInv
<1>2. QED BY Invariant, <1>1, PTL

\* What a step does to a queue.
LEMMA QueueStep ==
  ASSUME IInv, Next, NEW c \in Conns
  PROVE  \/ pending'[c] = pending[c]
         \/ state[c] = "connecting" /\ \E d \in Dsts : pending'[c] = Append(pending[c], d)
         \/ state[c] # "connecting" /\ pending[c] # <<>> /\ pending'[c] = Tail(pending[c])
<1>1. TypeOK /\ (\A q \in Procs : Holds(q)) /\ (\A b \in Conns : Dials(b)) BY DEF IInv
<1>2. CASE enqueueEarlyPacket
  <2>1. lwip \in Procs /\ job[lwip].conn \in Conns /\ job[lwip].dst \in Dsts
    BY <1>1, <1>2, ProcNames, MadeAreConns DEF enqueueEarlyPacket, Holds, Final
  <2>2. CASE Early(job[lwip].conn)
    BY <1>1, <1>2, <2>1, <2>2 DEF enqueueEarlyPacket, Early, TypeOK
  <2>3. CASE ~Early(job[lwip].conn)
    BY <1>2, <2>3 DEF enqueueEarlyPacket
  <2>4. QED BY <2>2, <2>3
<1>3. CASE \E b \in Conns : Drain(b)
  <2>1. PICK b \in Conns : Drain(b) BY <1>3
  <2>2. state[b] # "connecting" BY <1>1, <2>1 DEF Drain, Dials
  <2>3. CASE pending[b] = <<>> BY <2>1, <2>3 DEF Drain
  <2>4. CASE pending[b] # <<>>
    <3>1. pending' = [pending EXCEPT ![b] = Tail(pending[b])] BY <2>1, <2>4 DEF Drain
    <3>2. QED BY <1>1, <2>2, <2>4, <3>1 DEF TypeOK
  <2>5. QED BY <2>3, <2>4
<1>4. CASE UNCHANGED pending BY <1>4
<1>5. ASSUME ~enqueueEarlyPacket, ~(\E b \in Conns : Drain(b)) PROVE UNCHANGED pending
  BY <1>5 DEF Next, Closing, Clearing, Handler, Lwip, Dial, Reader, Stop, Close,
     CloseDelete, clearUdpRelay, ClearShut, ClearDelete, Lookup, Send, udpRecvFn, Store,
     checkState, DialFails, DialSucceeds, Connect, Connected, Read, WriteFrom, Sendto,
     StackClose, StackRange, StackUnlisten, conns
<1>6. QED BY <1>2, <1>3, <1>4, <1>5

\* Early packets are sent in the order they came, none twice and none in between
\* skipped, as filling and draining never overlap.
THEOREM QueueOrder == Spec => FillsThenDrains
<1> DEFINE Queues == \A c \in Conns :
             \/ pending'[c] = pending[c]
             \/ state[c] = "connecting" /\ \E d \in Dsts : pending'[c] = Append(pending[c], d)
             \/ state[c] # "connecting" /\ pending[c] # <<>> /\ pending'[c] = Tail(pending[c])
<1>1. IInv /\ [Next]_vars => [Queues]_vars
  <2>1. ASSUME IInv, Next PROVE Queues BY <2>1, QueueStep
  <2>2. QED BY <2>1
<1>2. QED BY Invariant, <1>1, PTL DEF Spec, FillsThenDrains

\* What a step does to a socket.
LEMMA SocketStep ==
  ASSUME IInv, Next, NEW c \in Conns
  PROVE  \/ sock'[c] = sock[c]
         \/ sock[c] = "none" /\ sock'[c] = "open"
         \/ sock[c] # "none" /\ sock'[c] = "shut"
<1>1. TypeOK /\ (\A q \in Procs : Knows(q)) /\ (\A b \in Conns : Dials(b)) BY DEF IInv
<1>2. CASE \E p \in Procs : ClearShut(p)
  <2>1. PICK p \in Procs : ClearShut(p) BY <1>2
  <2>2. job[p].peer \in Conns /\ sock[job[p].peer] # "none"
    BY <1>1, <2>1, MadeAreConns DEF ClearShut, Knows
  <2>3. QED BY <1>1, <2>1, <2>2 DEF ClearShut, TypeOK
<1>3. CASE \E b \in Conns : DialSucceeds(b)
  <2>1. PICK b \in Conns : DialSucceeds(b) BY <1>3
  <2>2. sock[b] = "none" BY <1>1, <2>1 DEF DialSucceeds, Dials
  <2>3. QED BY <1>1, <2>1, <2>2 DEF DialSucceeds, TypeOK
<1>4. ASSUME ~(\E p \in Procs : ClearShut(p)), ~(\E b \in Conns : DialSucceeds(b))
      PROVE  UNCHANGED sock
  BY <1>4 DEF Next, Closing, Clearing, Handler, Lwip, Dial, Reader, Stop, Close,
     CloseDelete, clearUdpRelay, ClearDelete, Lookup, Send, udpRecvFn, Store,
     enqueueEarlyPacket, checkState, DialFails, Connect, Connected, Drain, Read,
     WriteFrom, Sendto, StackClose, StackRange, StackUnlisten, relays
<1>5. QED BY <1>2, <1>3, <1>4

\* A socket closed by clearUdpRelay is never brought back.
THEOREM SocketLife == Spec => SocketsEndForGood
<1> DEFINE Sockets == \A c \in Conns :
             \/ sock'[c] = sock[c]
             \/ sock[c] = "none" /\ sock'[c] = "open"
             \/ sock[c] # "none" /\ sock'[c] = "shut"
<1>1. IInv /\ [Next]_vars => [Sockets]_vars
  <2>1. ASSUME IInv, Next PROVE Sockets BY <2>1, SocketStep
  <2>2. QED BY <2>1
<1>2. QED BY Invariant, <1>1, PTL DEF Spec, SocketsEndForGood


=============================================================================
