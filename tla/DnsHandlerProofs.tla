--------------------------- MODULE DnsHandlerProofs ---------------------------
(***************************************************************************)
(* Proofs about DnsHandler for any sets of clients, ids and threads, and   *)
(* any number of sockets and queries.                                      *)
(*                                                                         *)
(* The inductive invariant IInv follows an id from the client that sends   *)
(* it to the one its answer is written to, and counts: a socket is made    *)
(* for every reader, so the one a thread starts is always there.           *)
(***************************************************************************)
EXTENDS DnsHandler, FiniteSetTheorems, TLAPS

\* Where the goroutines can be, and their local variables.
ThreadPcs == {"idle", "write", "register", "closePivot", "listen", "control", "reader"}
ReaderPcs == {"none", "start", "read", "found", "closeMap", "closePivot", "ended"}
Some(S) == S \cup {NoSock}

ThreadSet == [pc : ThreadPcs, id : Some(Ids), client : Some(Clients), sock : 0 .. MaxSockets]
ReaderSet == [pc : ReaderPcs, sock : 0 .. MaxSockets, id : Some(Ids), conn : Some(Clients),
              asker : Some(Clients)]

\* The types TypeOK leaves open, and sockets exist once created.
Shapes ==
    /\ thread \in [Threads -> ThreadSet] /\ reader \in [Sockets -> ReaderSet]
    /\ created \in Sockets /\ nReaders \in Sockets
    /\ pivot \in 1 .. created /\ open \subseteq 1 .. created
    /\ cleaner \in [pc : {"wait", "delete", "ended"}, ids : SUBSET Ids] /\ ticking \in BOOLEAN
    /\ askers \in [Ids -> SUBSET Clients] /\ closed \subseteq Clients

\* A thread works for a client that asked with the id; the socket it has just made
\* exists.
Asks(t) ==
    /\ thread[t].pc # "idle" =>
         thread[t].id \in Ids /\ thread[t].client \in askers[thread[t].id]
    /\ thread[t].pc = "control" => thread[t].sock \in 1 .. created

\* An entry of the table is under an id its client asked with.
Table ==
    \A i \in DOMAIN dnsMap :
        /\ i \in Ids /\ dnsMap[i] \in [conn : Clients, old : BOOLEAN]
        /\ dnsMap[i].conn \in askers[i]

\* A query on its way carries an id its client asked with.
Questions ==
    \A q \in inflight : /\ q \in [sock : Sockets, id : Ids, client : Clients]
                        /\ q.client \in askers[q.id]

\* The client an answer is for and the one it goes to have both asked with its id.
Finds(r) ==
    reader[r].pc = "found" =>
        /\ reader[r].id \in Ids
        /\ reader[r].asker \in askers[reader[r].id] /\ reader[r].conn \in askers[reader[r].id]

\* So have they when the answer is written.
Answers ==
    \A a \in delivered :
        /\ a.id \in Ids /\ a.asker \in askers[a.id] /\ a.got \in askers[a.id]

\* Threads that have made a socket and not yet started its reader.
Replacing == {t \in Threads : thread[t].pc \in {"control", "reader"}}

\* There are no more readers than sockets, those about to start included.
Readers == Cardinality(Replacing) + nReaders <= created

\* The inductive invariant.
IInv ==
    /\ Shapes /\ Table /\ Questions /\ Answers /\ Readers /\ NoDeafPivot
    /\ \A t \in Threads : Asks(t)
    /\ \A r \in Sockets : Finds(r)
-----------------------------------------------------------------------------
(* Steps of one thread *)

\* Thread t goes to l, the others stay as they are.
Goes(t, l) ==
    /\ thread' \in [Threads -> ThreadSet]
    /\ thread'[t].pc = l
    /\ \A u \in Threads : u # t => thread'[u] = thread[u]

\* It keeps its query.
Keeps(t) == thread'[t].client = thread[t].client /\ thread'[t].id = thread[t].id

\* The initial records are of the type.
LEMMA Records ==
  ASSUME DnsAssumption
  PROVE  /\ Idle \in ThreadSet /\ Idle.pc = "idle"
         /\ Starting \in ReaderSet /\ Starting.pc = "start"
         /\ NotStarted \in ReaderSet /\ NotStarted.pc = "none"
         /\ [NotStarted EXCEPT !.pc = "ended"] \in ReaderSet
         /\ [NotStarted EXCEPT !.pc = "ended"].pc = "ended"
<1>1. 0 \in 0 .. MaxSockets BY DEF DnsAssumption
<1>2. QED BY <1>1 DEF Idle, Starting, NotStarted, ThreadSet, ReaderSet, ThreadPcs,
     ReaderPcs, Some, NoSock

\* Only finitely many threads replace the pivot.
LEMMA FiniteReplacing ==
  ASSUME DnsAssumption
  PROVE  IsFiniteSet(Replacing)
<1>1. Replacing \in SUBSET Threads BY DEF Replacing
<1>2. QED BY <1>1, FS_Subset DEF DnsAssumption


-----------------------------------------------------------------------------
(* Every action keeps the invariant *)

\* ReceiveTo takes a query.
LEMMA ReceiveToStep ==
  ASSUME DnsAssumption, IInv, NEW t \in Threads, NEW c \in Clients, NEW i \in Ids,
         ReceiveTo(t, c, i)
  PROVE  IInv'
<1>1. Shapes BY DEF IInv
<1>2. Table BY DEF IInv
<1>3. Questions BY DEF IInv
<1>4. Answers BY DEF IInv
<1>5. Readers BY DEF IInv
<1>6. NoDeafPivot BY DEF IInv
<1>7. \A u \in Threads : Asks(u) BY DEF IInv
<1>8. \A s \in Sockets : Finds(s) BY DEF IInv
<1>9. /\ askers' \in [Ids -> SUBSET Clients] /\ c \in askers'[i]
      /\ \A k \in Ids : askers[k] \subseteq askers'[k]
  BY <1>1 DEF ReceiveTo, Shapes
<1>10. /\ thread[t].pc = "idle" /\ Goes(t, "write")
       /\ thread'[t].client = c /\ thread'[t].id = i
  <2>1. [pc |-> "write", id |-> i, client |-> c, sock |-> NoSock] \in ThreadSet
    <3>1. 0 \in 0 .. MaxSockets BY DEF DnsAssumption
    <3>2. QED BY <3>1 DEF ThreadSet, ThreadPcs, Some, NoSock
  <2>2. QED BY <1>1, <2>1 DEF ReceiveTo, Shapes, Goes
<1>11. UNCHANGED <<dnsMap, pivot, open, created, reader, nReaders, inflight, cleaner, ticking, delivered, closed>>
  BY DEF ReceiveTo, mapVars, sockVars, netVars
<1>12. Shapes'
  BY <1>1, <1>9, <1>10, <1>11 DEF Shapes, Goes
<1>13. Table'
  BY <1>2, <1>9, <1>10, <1>11 DEF Table
<1>14. Questions'
  BY <1>3, <1>9, <1>10, <1>11 DEF Questions
<1>15. Answers'
  BY <1>4, <1>9, <1>10, <1>11 DEF Answers
<1>16. Readers'
  BY <1>5, <1>9, <1>10, <1>11 DEF Readers, Replacing, Goes
<1>17. NoDeafPivot'
  BY <1>6, <1>9, <1>10, <1>11 DEF NoDeafPivot, Goes
<1>18. \A u \in Threads : Asks(u)'
  BY <1>7, <1>9, <1>10, <1>11 DEF Asks, Goes
<1>19. \A s \in Sockets : Finds(s)'
  BY <1>8, <1>9, <1>10, <1>11 DEF Finds
<1>20. QED BY <1>12, <1>13, <1>14, <1>15, <1>16, <1>17, <1>18, <1>19 DEF IInv

\* ReceiveTo writes the query, or finds the pivot broken.
LEMMA WriteToUDPStep ==
  ASSUME DnsAssumption, IInv, NEW t \in Threads, WriteToUDP(t)
  PROVE  IInv'
<1>1. Shapes BY DEF IInv
<1>2. Table BY DEF IInv
<1>3. Questions BY DEF IInv
<1>4. Answers BY DEF IInv
<1>5. Readers BY DEF IInv
<1>6. NoDeafPivot BY DEF IInv
<1>7. \A u \in Threads : Asks(u) BY DEF IInv
<1>8. \A s \in Sockets : Finds(s) BY DEF IInv
<1>9. /\ thread[t].pc = "write" /\ Keeps(t)
      /\ Goes(t, "register") \/ Goes(t, "closePivot")
  BY <1>1 DEF WriteToUDP, Shapes, Goes, Keeps, ThreadPcs, ThreadSet
<1>10. \A q \in inflight' : \/ q \in inflight
       \/ q = [sock |-> pivot, id |-> thread[t].id, client |-> thread[t].client]
  BY DEF WriteToUDP
<1>10a. thread[t].id \in Ids /\ thread[t].client \in Clients /\ closed' \subseteq Clients
  BY <1>1, <1>7, <1>9 DEF WriteToUDP, Shapes, Asks
<1>11. UNCHANGED <<dnsMap, pivot, open, created, reader, nReaders, sentQ, cleaner, ticking, delivered, askers>>
  BY DEF WriteToUDP, mapVars, sockVars, netVars
<1>12. Shapes'
  BY <1>1, <1>9, <1>10a, <1>11 DEF Shapes, Goes
<1>13. Table'
  BY <1>2, <1>9, <1>10, <1>11 DEF Table
<1>14. Questions'
  BY <1>1, <1>3, <1>7, <1>9, <1>10, <1>10a, <1>11, DnsAssumption DEF Questions, Shapes, Asks,
       DnsAssumption, Sockets
<1>15. Answers'
  BY <1>4, <1>9, <1>10, <1>11 DEF Answers
<1>16. Readers'
  BY <1>5, <1>9, <1>10, <1>11 DEF Readers, Replacing, Goes
<1>17. NoDeafPivot'
  BY <1>6, <1>9, <1>10, <1>11 DEF NoDeafPivot, Goes
<1>18. \A u \in Threads : Asks(u)'
  BY <1>7, <1>9, <1>10, <1>11 DEF Asks, Goes, Keeps
<1>19. \A s \in Sockets : Finds(s)'
  BY <1>8, <1>9, <1>10, <1>11 DEF Finds
<1>20. QED BY <1>12, <1>13, <1>14, <1>15, <1>16, <1>17, <1>18, <1>19 DEF IInv

\* ReceiveTo enters who asked.
LEMMA RegisterStep ==
  ASSUME DnsAssumption, IInv, NEW t \in Threads, Register(t)
  PROVE  IInv'
<1>1. Shapes BY DEF IInv
<1>2. Table BY DEF IInv
<1>3. Questions BY DEF IInv
<1>4. Answers BY DEF IInv
<1>5. Readers BY DEF IInv
<1>6. NoDeafPivot BY DEF IInv
<1>7. \A u \in Threads : Asks(u) BY DEF IInv
<1>8. \A s \in Sockets : Finds(s) BY DEF IInv
<1>9. /\ thread[t].pc = "register" /\ Goes(t, "idle")
  BY <1>1, Records DEF Register, Shapes, Goes
<1>10. /\ thread[t].client \in Clients /\ thread[t].id \in Ids
       /\ thread[t].client \in askers[thread[t].id]
  BY <1>1, <1>7, <1>9 DEF Asks, Shapes
<1>11. \/ dnsMap' = dnsMap
       \/ /\ DOMAIN dnsMap' = DOMAIN dnsMap \cup {thread[t].id}
          /\ dnsMap'[thread[t].id] = [conn |-> thread[t].client, old |-> FALSE]
          /\ \A k \in DOMAIN dnsMap : k # thread[t].id => dnsMap'[k] = dnsMap[k]
  BY DEF Register
<1>12. UNCHANGED <<pivot, open, created, reader, nReaders, inflight, sentQ, cleaner, ticking, delivered, askers, closed>>
  BY DEF Register, mapVars, sockVars, netVars
<1>13. Shapes'
  BY <1>1, <1>9, <1>10, <1>11, <1>12 DEF Shapes, Goes
<1>14. Table'
  <2>1. SUFFICES ASSUME NEW k \in DOMAIN dnsMap'
                PROVE  /\ k \in Ids /\ dnsMap'[k] \in [conn : Clients, old : BOOLEAN]
                       /\ dnsMap'[k].conn \in askers[k]
    BY <1>12 DEF Table
  <2>2. CASE dnsMap' # dnsMap /\ k = thread[t].id
    <3>1. [conn |-> thread[t].client, old |-> FALSE] \in [conn : Clients, old : BOOLEAN]
      BY <1>10
    <3>2. dnsMap'[k] = [conn |-> thread[t].client, old |-> FALSE] BY <1>11, <2>2
    <3>3. dnsMap'[k].conn = thread[t].client BY <3>2
    <3>4. QED BY <1>10, <2>2, <3>1, <3>2, <3>3
  <2>3. CASE dnsMap' = dnsMap \/ k # thread[t].id
    BY <1>2, <1>11, <2>1, <2>3 DEF Table
  <2>4. QED BY <2>2, <2>3
<1>15. Questions'
  BY <1>3, <1>9, <1>10, <1>11, <1>12 DEF Questions
<1>16. Answers'
  BY <1>4, <1>9, <1>10, <1>11, <1>12 DEF Answers
<1>17. Readers'
  BY <1>5, <1>9, <1>10, <1>11, <1>12 DEF Readers, Replacing, Goes
<1>18. NoDeafPivot'
  BY <1>6, <1>9, <1>10, <1>11, <1>12 DEF NoDeafPivot, Goes
<1>19. \A u \in Threads : Asks(u)'
  BY <1>7, <1>9, <1>10, <1>11, <1>12 DEF Asks, Goes
<1>20. \A s \in Sockets : Finds(s)'
  BY <1>8, <1>9, <1>10, <1>11, <1>12 DEF Finds
<1>21. QED BY <1>13, <1>14, <1>15, <1>16, <1>17, <1>18, <1>19, <1>20 DEF IInv

\* setupPivot closes the old socket.
LEMMA SetupCloseStep ==
  ASSUME DnsAssumption, IInv, NEW t \in Threads, setupClose(t)
  PROVE  IInv'
<1>1. Shapes BY DEF IInv
<1>2. Table BY DEF IInv
<1>3. Questions BY DEF IInv
<1>4. Answers BY DEF IInv
<1>5. Readers BY DEF IInv
<1>6. NoDeafPivot BY DEF IInv
<1>7. \A u \in Threads : Asks(u) BY DEF IInv
<1>8. \A s \in Sockets : Finds(s) BY DEF IInv
<1>9. /\ thread[t].pc = "closePivot" /\ Goes(t, "listen") /\ Keeps(t)
  BY <1>1 DEF setupClose, Shapes, Goes, Keeps, ThreadPcs, ThreadSet
<1>10. pivot \notin open' /\ open' \subseteq open
  BY DEF setupClose
<1>11. UNCHANGED <<dnsMap, pivot, created, reader, nReaders, inflight, sentQ, cleaner, ticking, delivered, askers, closed>>
  BY DEF setupClose, mapVars, sockVars, netVars
<1>12. Shapes'
  BY <1>1, <1>9, <1>10, <1>11 DEF Shapes, Goes
<1>13. Table'
  BY <1>2, <1>9, <1>10, <1>11 DEF Table
<1>14. Questions'
  BY <1>3, <1>9, <1>10, <1>11 DEF Questions
<1>15. Answers'
  BY <1>4, <1>9, <1>10, <1>11 DEF Answers
<1>16. Readers'
  BY <1>5, <1>9, <1>10, <1>11 DEF Readers, Replacing, Goes
<1>17. NoDeafPivot'
  BY <1>9, <1>10, <1>11 DEF NoDeafPivot
<1>18. \A u \in Threads : Asks(u)'
  BY <1>7, <1>9, <1>10, <1>11 DEF Asks, Goes, Keeps
<1>19. \A s \in Sockets : Finds(s)'
  BY <1>8, <1>9, <1>10, <1>11 DEF Finds
<1>20. QED BY <1>12, <1>13, <1>14, <1>15, <1>16, <1>17, <1>18, <1>19 DEF IInv

\* setupPivot makes a new socket, or gives up.
LEMMA SetupListenStep ==
  ASSUME DnsAssumption, IInv, NEW t \in Threads, setupListen(t)
  PROVE  IInv'
<1>1. Shapes BY DEF IInv
<1>2. Table BY DEF IInv
<1>3. Questions BY DEF IInv
<1>4. Answers BY DEF IInv
<1>5. Readers BY DEF IInv
<1>6. NoDeafPivot BY DEF IInv
<1>7. \A u \in Threads : Asks(u) BY DEF IInv
<1>8. \A s \in Sockets : Finds(s) BY DEF IInv
<1>9. thread[t].pc = "listen" /\ t \notin Replacing
  BY <1>1 DEF setupListen, Replacing
<1>10. UNCHANGED <<dnsMap, pivot, reader, nReaders, inflight, sentQ, cleaner, ticking, delivered, askers, closed>>
  BY DEF setupListen, mapVars, sockVars, netVars
<1>11. \/ Goes(t, "idle") /\ UNCHANGED <<created, open>>
       \/ /\ Goes(t, "control") /\ Keeps(t) /\ created' = created + 1 /\ created' \in Sockets
          /\ thread'[t].sock = created + 1 /\ open' = open \cup {created + 1}
  <2>1. CASE thread' = [thread EXCEPT ![t] = Idle] /\ UNCHANGED <<created, open>>
    BY <1>1, <2>1, Records DEF Shapes, Goes
  <2>2. CASE /\ created < MaxSockets
             /\ created' = created + 1 /\ open' = open \cup {created + 1}
             /\ thread' = [thread EXCEPT ![t].pc = "control", ![t].sock = created + 1]
    <3>1. created + 1 \in Sockets /\ created + 1 \in 0 .. MaxSockets
      BY <1>1, <2>2 DEF DnsAssumption, Shapes, Sockets
    <3>2. thread' = [thread EXCEPT ![t] =
                       [thread[t] EXCEPT !.pc = "control", !.sock = created + 1]]
      BY <1>1, <2>2 DEF Shapes, ThreadSet
    <3>3. [thread[t] EXCEPT !.pc = "control", !.sock = created + 1] \in ThreadSet
      BY <1>1, <3>1 DEF Shapes, ThreadSet, ThreadPcs
    <3>4. Goes(t, "control") /\ Keeps(t) /\ thread'[t].sock = created + 1
      BY <1>1, <3>2, <3>3 DEF Shapes, Goes, Keeps, ThreadSet
    <3>5. QED BY <2>2, <3>1, <3>4
  <2>3. QED BY <2>1, <2>2 DEF setupListen
<1>12. Shapes'
  <2>1. CASE UNCHANGED <<created, open>>
    BY <1>1, <1>10, <1>11, <2>1 DEF Shapes, Goes
  <2>2. CASE /\ created' = created + 1 /\ created' \in Sockets
             /\ open' = open \cup {created + 1}
    <3>1. 1 .. created' = (1 .. created) \cup {created + 1}
      BY <1>1, <2>2 DEF Shapes, Sockets
    <3>2. QED BY <1>1, <1>10, <1>11, <2>2, <3>1 DEF Shapes, Goes
  <2>3. QED BY <1>11, <2>1, <2>2
<1>13. Table'
  BY <1>2, <1>9, <1>10, <1>11 DEF Table
<1>14. Questions'
  BY <1>3, <1>9, <1>10, <1>11 DEF Questions
<1>15. Answers'
  BY <1>4, <1>9, <1>10, <1>11 DEF Answers
<1>16. Readers'
  <2>1. CASE Goes(t, "idle") /\ UNCHANGED created
    <3>1. Replacing' = Replacing BY <1>9, <2>1 DEF Goes, Replacing
    <3>2. QED BY <1>5, <1>10, <2>1, <3>1 DEF Readers
  <2>2. CASE Goes(t, "control") /\ created' = created + 1
    <3>1. Replacing' = Replacing \cup {t} BY <1>9, <2>2 DEF Goes, Replacing
    <3>2. Cardinality(Replacing') = Cardinality(Replacing) + 1 /\ Cardinality(Replacing) \in Nat
      BY <1>9, <3>1, FiniteReplacing, FS_AddElement, FS_CardinalityType
    <3>3. QED BY <1>1, <1>5, <1>10, <2>2, <3>2 DEF Readers, Shapes, Sockets
  <2>3. QED BY <1>11, <2>1, <2>2
<1>17. NoDeafPivot'
  BY <1>6, <1>1, <1>9, <1>10, <1>11 DEF NoDeafPivot, Shapes, Goes, Sockets
<1>18. \A u \in Threads : Asks(u)'
  BY <1>7, <1>1, <1>9, <1>10, <1>11 DEF Asks, Shapes, Goes, Keeps, Sockets
<1>19. \A s \in Sockets : Finds(s)'
  BY <1>8, <1>9, <1>10, <1>11 DEF Finds
<1>20. QED BY <1>12, <1>13, <1>14, <1>15, <1>16, <1>17, <1>18, <1>19 DEF IInv

\* setupPivot stores the new socket, or gives up.
LEMMA SetupControlStep ==
  ASSUME DnsAssumption, IInv, NEW t \in Threads, setupControl(t)
  PROVE  IInv'
<1>1. Shapes BY DEF IInv
<1>2. Table BY DEF IInv
<1>3. Questions BY DEF IInv
<1>4. Answers BY DEF IInv
<1>5. Readers BY DEF IInv
<1>6. NoDeafPivot BY DEF IInv
<1>7. \A u \in Threads : Asks(u) BY DEF IInv
<1>8. \A s \in Sockets : Finds(s) BY DEF IInv
<1>9. thread[t].pc = "control" /\ t \in Replacing
  BY DEF setupControl, Replacing
<1>10. UNCHANGED <<dnsMap, open, created, reader, nReaders, inflight, sentQ, cleaner, ticking, delivered, askers, closed>>
  BY DEF setupControl, mapVars, sockVars, netVars
<1>11. \/ Goes(t, "idle") /\ UNCHANGED pivot
       \/ Goes(t, "reader") /\ Keeps(t) /\ pivot' = thread[t].sock
  <2>1. CASE thread' = [thread EXCEPT ![t] = Idle] /\ UNCHANGED pivot
    BY <1>1, <2>1, Records DEF Shapes, Goes
  <2>2. CASE pivot' = thread[t].sock /\ thread' = [thread EXCEPT ![t].pc = "reader"]
    BY <1>1, <2>2 DEF Shapes, Goes, Keeps, ThreadSet, ThreadPcs
  <2>3. QED BY <2>1, <2>2 DEF setupControl
<1>12. Shapes'
  BY <1>1, <1>7, <1>9, <1>10, <1>11 DEF Shapes, Asks, Goes
<1>13. Table'
  BY <1>2, <1>9, <1>10, <1>11 DEF Table
<1>14. Questions'
  BY <1>3, <1>9, <1>10, <1>11 DEF Questions
<1>15. Answers'
  BY <1>4, <1>9, <1>10, <1>11 DEF Answers
<1>16. Readers'
  <2>1. CASE Goes(t, "idle")
    <3>1. Replacing' = Replacing \ {t} BY <2>1 DEF Goes, Replacing
    <3>2. Cardinality(Replacing') <= Cardinality(Replacing)
      BY <3>1, FiniteReplacing, FS_Subset
    <3>3. Cardinality(Replacing') \in Nat /\ Cardinality(Replacing) \in Nat
      BY <3>1, FiniteReplacing, FS_Subset, FS_CardinalityType
    <3>4. QED BY <1>1, <1>5, <1>10, <3>2, <3>3 DEF Readers, Shapes, Sockets
  <2>2. CASE Goes(t, "reader")
    <3>1. Replacing' = Replacing BY <1>9, <2>2 DEF Goes, Replacing
    <3>2. QED BY <1>5, <1>10, <3>1 DEF Readers
  <2>3. QED BY <1>11, <2>1, <2>2
<1>17. NoDeafPivot'
  BY <1>6, <1>9, <1>10, <1>11 DEF NoDeafPivot, Goes
<1>18. \A u \in Threads : Asks(u)'
  BY <1>7, <1>9, <1>10, <1>11 DEF Asks, Goes, Keeps
<1>19. \A s \in Sockets : Finds(s)'
  BY <1>8, <1>9, <1>10, <1>11 DEF Finds
<1>20. QED BY <1>12, <1>13, <1>14, <1>15, <1>16, <1>17, <1>18, <1>19 DEF IInv

\* The new pivot gets a reader.
LEMMA StartReaderStep ==
  ASSUME DnsAssumption, IInv, NEW t \in Threads, startReader(t)
  PROVE  IInv'
<1>1. Shapes BY DEF IInv
<1>2. Table BY DEF IInv
<1>3. Questions BY DEF IInv
<1>4. Answers BY DEF IInv
<1>5. Readers BY DEF IInv
<1>6. NoDeafPivot BY DEF IInv
<1>7. \A u \in Threads : Asks(u) BY DEF IInv
<1>8. \A s \in Sockets : Finds(s) BY DEF IInv
<1>9. thread[t].pc = "reader" /\ t \in Replacing /\ Goes(t, "idle")
  BY <1>1, Records DEF startReader, Replacing, Shapes, Goes
<1>10. UNCHANGED <<dnsMap, pivot, open, created, inflight, sentQ, cleaner, ticking, delivered, askers, closed>>
  BY DEF startReader, mapVars, sockVars, netVars
<1>11. /\ Replacing' = Replacing \ {t} /\ Cardinality(Replacing) \in Nat
       /\ Cardinality(Replacing') = Cardinality(Replacing) - 1 /\ Cardinality(Replacing') \in Nat
  <2>1. Replacing' = Replacing \ {t} BY <1>9 DEF Goes, Replacing
  <2>2. QED BY <1>9, <2>1, FiniteReplacing, FS_RemoveElement, FS_CardinalityType
<1>12. nReaders' = nReaders + 1 /\ nReaders + 1 \in Sockets
  BY <1>1, <1>5, <1>11 DEF startReader, DnsAssumption, Shapes, Readers, Sockets
<1>13. /\ reader' \in [Sockets -> ReaderSet] /\ reader'[nReaders + 1].pc = "start"
       /\ \A s \in Sockets : s # nReaders + 1 => reader'[s] = reader[s]
  BY <1>1, <1>12, Records DEF startReader, Shapes
<1>14. Shapes'
  BY <1>1, <1>9, <1>10, <1>11, <1>12, <1>13 DEF Shapes, Goes
<1>15. Table'
  BY <1>2, <1>9, <1>10, <1>11, <1>12, <1>13 DEF Table
<1>16. Questions'
  BY <1>3, <1>9, <1>10, <1>11, <1>12, <1>13 DEF Questions
<1>17. Answers'
  BY <1>4, <1>9, <1>10, <1>11, <1>12, <1>13 DEF Answers
<1>18. Readers'
  BY <1>1, <1>5, <1>9, <1>10, <1>11, <1>12, <1>13 DEF Readers, Shapes, Sockets
<1>19. NoDeafPivot'
  BY <1>6, <1>9, <1>10, <1>11, <1>12, <1>13 DEF NoDeafPivot
<1>20. \A u \in Threads : Asks(u)'
  BY <1>7, <1>9, <1>10, <1>11, <1>12, <1>13 DEF Asks, Goes
<1>21. \A s \in Sockets : Finds(s)'
  BY <1>8, <1>9, <1>10, <1>11, <1>12, <1>13 DEF Finds
<1>22. QED BY <1>14, <1>15, <1>16, <1>17, <1>18, <1>19, <1>20, <1>21 DEF IInv

\* A reader turns to the pivot of the moment.
LEMMA ReadPivotStep ==
  ASSUME DnsAssumption, IInv, NEW r \in Sockets, ReadPivot(r)
  PROVE  IInv'
<1>1. Shapes BY DEF IInv
<1>2. Table BY DEF IInv
<1>3. Questions BY DEF IInv
<1>4. Answers BY DEF IInv
<1>5. Readers BY DEF IInv
<1>6. NoDeafPivot BY DEF IInv
<1>7. \A u \in Threads : Asks(u) BY DEF IInv
<1>8. \A s \in Sockets : Finds(s) BY DEF IInv
<1>9. /\ reader' \in [Sockets -> ReaderSet] /\ \A s \in Sockets : s # r => reader'[s] = reader[s]
      /\ reader'[r].pc = "read" /\ reader'[r].sock = pivot
  <2>1. pivot \in 0 .. MaxSockets BY <1>1 DEF DnsAssumption, Shapes, Sockets
  <2>2. reader' = [reader EXCEPT ![r] = [reader[r] EXCEPT !.pc = "read", !.sock = pivot]]
    BY <1>1 DEF ReadPivot, Shapes
  <2>3. [reader[r] EXCEPT !.pc = "read", !.sock = pivot] \in ReaderSet
    BY <1>1, <2>1 DEF Shapes, ReaderSet, ReaderPcs
  <2>4. QED BY <1>1, <2>2, <2>3 DEF Shapes, ReaderSet
<1>10. UNCHANGED <<dnsMap, pivot, open, created, thread, nReaders, inflight, sentQ, cleaner, ticking, delivered, askers, closed>>
  BY DEF ReadPivot, mapVars, sockVars, netVars
<1>11. Shapes'
  BY <1>1, <1>9, <1>10 DEF Shapes
<1>12. Table'
  BY <1>2, <1>9, <1>10 DEF Table
<1>13. Questions'
  BY <1>3, <1>9, <1>10 DEF Questions
<1>14. Answers'
  BY <1>4, <1>9, <1>10 DEF Answers
<1>15. Readers'
  BY <1>5, <1>9, <1>10 DEF Readers, Replacing
<1>16. NoDeafPivot'
  BY <1>6, <1>9, <1>10 DEF NoDeafPivot
<1>17. \A u \in Threads : Asks(u)'
  BY <1>7, <1>9, <1>10 DEF Asks
<1>18. \A s \in Sockets : Finds(s)'
  BY <1>8, <1>9, <1>10 DEF Finds
<1>19. QED BY <1>11, <1>12, <1>13, <1>14, <1>15, <1>16, <1>17, <1>18 DEF IInv

\* A reader finds its socket closed.
LEMMA ReadFailsStep ==
  ASSUME DnsAssumption, IInv, NEW r \in Sockets, ReadFails(r)
  PROVE  IInv'
<1>1. Shapes BY DEF IInv
<1>2. Table BY DEF IInv
<1>3. Questions BY DEF IInv
<1>4. Answers BY DEF IInv
<1>5. Readers BY DEF IInv
<1>6. NoDeafPivot BY DEF IInv
<1>7. \A u \in Threads : Asks(u) BY DEF IInv
<1>8. \A s \in Sockets : Finds(s) BY DEF IInv
<1>9. /\ reader' \in [Sockets -> ReaderSet] /\ \A s \in Sockets : s # r => reader'[s] = reader[s]
      /\ reader'[r].pc = "closeMap"
  BY <1>1 DEF ReadFails, Shapes, ReaderSet, ReaderPcs
<1>10. UNCHANGED <<dnsMap, pivot, open, created, thread, nReaders, inflight, sentQ, cleaner, ticking, delivered, askers, closed>>
  BY DEF ReadFails, mapVars, sockVars, netVars
<1>11. Shapes'
  BY <1>1, <1>9, <1>10 DEF Shapes
<1>12. Table'
  BY <1>2, <1>9, <1>10 DEF Table
<1>13. Questions'
  BY <1>3, <1>9, <1>10 DEF Questions
<1>14. Answers'
  BY <1>4, <1>9, <1>10 DEF Answers
<1>15. Readers'
  BY <1>5, <1>9, <1>10 DEF Readers, Replacing
<1>16. NoDeafPivot'
  BY <1>6, <1>9, <1>10 DEF NoDeafPivot
<1>17. \A u \in Threads : Asks(u)'
  BY <1>7, <1>9, <1>10 DEF Asks
<1>18. \A s \in Sockets : Finds(s)'
  BY <1>8, <1>9, <1>10 DEF Finds
<1>19. QED BY <1>11, <1>12, <1>13, <1>14, <1>15, <1>16, <1>17, <1>18 DEF IInv

\* A reader gets an answer, whose id leads to an entry or not.
LEMMA ReadAnswerStep ==
  ASSUME DnsAssumption, IInv, NEW r \in Sockets, ReadAnswer(r)
  PROVE  IInv'
<1>1. Shapes BY DEF IInv
<1>2. Table BY DEF IInv
<1>3. Questions BY DEF IInv
<1>4. Answers BY DEF IInv
<1>5. Readers BY DEF IInv
<1>6. NoDeafPivot BY DEF IInv
<1>7. \A u \in Threads : Asks(u) BY DEF IInv
<1>8. \A s \in Sockets : Finds(s) BY DEF IInv
<1>9. PICK q \in inflight :
      /\ inflight' = inflight \ {q}
      /\ \/ /\ q.id \in DOMAIN dnsMap
            /\ reader' = [reader EXCEPT ![r].pc = "found", ![r].id = q.id,
                           ![r].conn = AskerOf(q.id), ![r].asker = q.client]
         \/ reader' = [reader EXCEPT ![r].pc = "start"]
  BY DEF ReadAnswer
<1>10. /\ q.id \in Ids /\ q.client \in Clients /\ q.client \in askers[q.id]
  BY <1>3 DEF Questions
<1>11. /\ reader' \in [Sockets -> ReaderSet] /\ \A s \in Sockets : s # r => reader'[s] = reader[s]
       /\ \/ reader'[r].pc = "start"
          \/ /\ reader'[r].pc = "found" /\ reader'[r].id = q.id /\ reader'[r].asker = q.client
             /\ reader'[r].conn \in askers[q.id]
  <2>1. CASE reader' = [reader EXCEPT ![r].pc = "start"]
    BY <1>1, <2>1 DEF Shapes, ReaderSet, ReaderPcs
  <2>2. CASE /\ q.id \in DOMAIN dnsMap
             /\ reader' = [reader EXCEPT ![r].pc = "found", ![r].id = q.id,
                            ![r].conn = AskerOf(q.id), ![r].asker = q.client]
    <3>1. AskerOf(q.id) \in Clients /\ AskerOf(q.id) \in askers[q.id]
      BY <1>2, <2>2 DEF Table, AskerOf
    <3>2. reader' = [reader EXCEPT ![r] = [reader[r] EXCEPT !.pc = "found", !.id = q.id,
                                             !.conn = AskerOf(q.id), !.asker = q.client]]
      BY <1>1, <2>2 DEF Shapes
    <3>3. [reader[r] EXCEPT !.pc = "found", !.id = q.id, !.conn = AskerOf(q.id),
                            !.asker = q.client] \in ReaderSet
      BY <1>1, <1>10, <3>1 DEF Shapes, ReaderSet, ReaderPcs, Some
    <3>4. QED BY <1>1, <3>1, <3>2, <3>3 DEF Shapes, ReaderSet
  <2>3. QED BY <1>9, <2>1, <2>2
<1>12. UNCHANGED <<dnsMap, pivot, open, created, thread, nReaders, sentQ, cleaner, ticking, delivered, askers, closed>>
  BY DEF ReadAnswer, mapVars, sockVars, netVars
<1>13. Shapes'
  BY <1>1, <1>9, <1>10, <1>11, <1>12 DEF Shapes
<1>14. Table'
  BY <1>2, <1>9, <1>10, <1>11, <1>12 DEF Table
<1>15. Questions'
  BY <1>3, <1>9, <1>10, <1>11, <1>12 DEF Questions
<1>16. Answers'
  BY <1>4, <1>9, <1>10, <1>11, <1>12 DEF Answers
<1>17. Readers'
  BY <1>5, <1>9, <1>10, <1>11, <1>12 DEF Readers, Replacing
<1>18. NoDeafPivot'
  BY <1>6, <1>9, <1>10, <1>11, <1>12 DEF NoDeafPivot
<1>19. \A u \in Threads : Asks(u)'
  BY <1>7, <1>9, <1>10, <1>11, <1>12 DEF Asks
<1>20. \A s \in Sockets : Finds(s)'
  BY <1>8, <1>9, <1>10, <1>11, <1>12 DEF Finds
<1>21. QED BY <1>13, <1>14, <1>15, <1>16, <1>17, <1>18, <1>19, <1>20 DEF IInv

\* A reader renews the entry and writes the answer to the client.
LEMMA WriteFromStep ==
  ASSUME DnsAssumption, IInv, NEW r \in Sockets, WriteFrom(r)
  PROVE  IInv'
<1>1. Shapes BY DEF IInv
<1>2. Table BY DEF IInv
<1>3. Questions BY DEF IInv
<1>4. Answers BY DEF IInv
<1>5. Readers BY DEF IInv
<1>6. NoDeafPivot BY DEF IInv
<1>7. \A u \in Threads : Asks(u) BY DEF IInv
<1>8. \A s \in Sockets : Finds(s) BY DEF IInv
<1>9. /\ reader' \in [Sockets -> ReaderSet] /\ \A s \in Sockets : s # r => reader'[s] = reader[s]
      /\ reader[r].pc = "found" /\ reader'[r].pc = "start"
  BY <1>1, Records DEF WriteFrom, Shapes
<1>10. \A a \in delivered' :
         \/ a \in delivered
         \/ a = [id |-> reader[r].id, asker |-> reader[r].asker, got |-> reader[r].conn]
  BY DEF WriteFrom
<1>11. /\ DOMAIN dnsMap' = DOMAIN dnsMap
       /\ \A k \in DOMAIN dnsMap : dnsMap'[k] \in {dnsMap[k], [dnsMap[k] EXCEPT !.old = FALSE]}
  BY DEF WriteFrom
<1>12. UNCHANGED <<pivot, open, created, thread, nReaders, inflight, sentQ, cleaner, ticking, askers, closed>>
  BY DEF WriteFrom, mapVars, sockVars, netVars
<1>13. Shapes'
  BY <1>1, <1>9, <1>10, <1>11, <1>12 DEF Shapes
<1>14. Table'
  <2>1. SUFFICES ASSUME NEW k \in DOMAIN dnsMap
                PROVE  /\ k \in Ids /\ dnsMap'[k] \in [conn : Clients, old : BOOLEAN]
                       /\ dnsMap'[k].conn \in askers[k]
    BY <1>11, <1>12 DEF Table
  <2>2. /\ k \in Ids /\ dnsMap[k] \in [conn : Clients, old : BOOLEAN]
        /\ dnsMap[k].conn \in askers[k]
    BY <1>2, <2>1 DEF Table
  <2>3. /\ [dnsMap[k] EXCEPT !.old = FALSE] \in [conn : Clients, old : BOOLEAN]
        /\ [dnsMap[k] EXCEPT !.old = FALSE].conn = dnsMap[k].conn
    BY <2>2
  <2>4. QED BY <1>11, <2>1, <2>2, <2>3
<1>15. Questions'
  BY <1>3, <1>9, <1>10, <1>11, <1>12 DEF Questions
<1>16. Answers'
  BY <1>4, <1>8, <1>9, <1>10, <1>11, <1>12 DEF Answers, Finds
<1>17. Readers'
  BY <1>5, <1>9, <1>10, <1>11, <1>12 DEF Readers, Replacing
<1>18. NoDeafPivot'
  BY <1>6, <1>9, <1>10, <1>11, <1>12 DEF NoDeafPivot
<1>19. \A u \in Threads : Asks(u)'
  BY <1>7, <1>9, <1>10, <1>11, <1>12 DEF Asks
<1>20. \A s \in Sockets : Finds(s)'
  BY <1>8, <1>9, <1>10, <1>11, <1>12 DEF Finds
<1>21. QED BY <1>13, <1>14, <1>15, <1>16, <1>17, <1>18, <1>19, <1>20 DEF IInv

\* An ending reader empties the tables.
LEMMA CloseMapStep ==
  ASSUME DnsAssumption, IInv, NEW r \in Sockets, closeMap(r)
  PROVE  IInv'
<1>1. Shapes BY DEF IInv
<1>2. Table BY DEF IInv
<1>3. Questions BY DEF IInv
<1>4. Answers BY DEF IInv
<1>5. Readers BY DEF IInv
<1>6. NoDeafPivot BY DEF IInv
<1>7. \A u \in Threads : Asks(u) BY DEF IInv
<1>8. \A s \in Sockets : Finds(s) BY DEF IInv
<1>9. /\ reader' \in [Sockets -> ReaderSet] /\ \A s \in Sockets : s # r => reader'[s] = reader[s]
      /\ reader[r].pc = "closeMap" /\ reader'[r].pc = "closePivot"
  BY <1>1 DEF closeMap, Shapes, ReaderSet, ReaderPcs
<1>10. dnsMap' = <<>>
  BY DEF closeMap
<1>10a. closed' \subseteq Clients
  BY <1>1, <1>2 DEF closeMap, CloseConns, AskerOf, Shapes, Table
<1>11. UNCHANGED <<pivot, open, created, thread, nReaders, inflight, sentQ, cleaner, ticking, delivered, askers>>
  BY DEF closeMap, mapVars, sockVars, netVars
<1>12. Shapes'
  BY <1>1, <1>10a, <1>9, <1>10, <1>11 DEF Shapes
<1>13. Table'
  BY <1>2, <1>9, <1>10, <1>11 DEF Table
<1>14. Questions'
  BY <1>3, <1>9, <1>10, <1>11 DEF Questions
<1>15. Answers'
  BY <1>4, <1>9, <1>10, <1>11 DEF Answers
<1>16. Readers'
  BY <1>5, <1>9, <1>10, <1>11 DEF Readers, Replacing
<1>17. NoDeafPivot'
  BY <1>6, <1>9, <1>10, <1>11 DEF NoDeafPivot
<1>18. \A u \in Threads : Asks(u)'
  BY <1>7, <1>9, <1>10, <1>11 DEF Asks
<1>19. \A s \in Sockets : Finds(s)'
  BY <1>8, <1>9, <1>10, <1>11 DEF Finds
<1>20. QED BY <1>12, <1>13, <1>14, <1>15, <1>16, <1>17, <1>18, <1>19 DEF IInv

\* An ending reader closes the pivot of the moment.
LEMMA ClosePivotStep ==
  ASSUME DnsAssumption, IInv, NEW r \in Sockets, closePivot(r)
  PROVE  IInv'
<1>1. Shapes BY DEF IInv
<1>2. Table BY DEF IInv
<1>3. Questions BY DEF IInv
<1>4. Answers BY DEF IInv
<1>5. Readers BY DEF IInv
<1>6. NoDeafPivot BY DEF IInv
<1>7. \A u \in Threads : Asks(u) BY DEF IInv
<1>8. \A s \in Sockets : Finds(s) BY DEF IInv
<1>9. /\ reader' \in [Sockets -> ReaderSet] /\ \A s \in Sockets : s # r => reader'[s] = reader[s]
      /\ reader'[r].pc = "ended"
  BY <1>1, Records DEF closePivot, Shapes
<1>10. pivot \notin open' /\ open' \subseteq open /\ ticking' = FALSE
  BY DEF closePivot
<1>11. UNCHANGED <<dnsMap, pivot, created, thread, nReaders, inflight, sentQ, cleaner, delivered, askers, closed>>
  BY DEF closePivot, mapVars, sockVars, netVars
<1>12. Shapes'
  BY <1>1, <1>9, <1>10, <1>11 DEF Shapes
<1>13. Table'
  BY <1>2, <1>9, <1>10, <1>11 DEF Table
<1>14. Questions'
  BY <1>3, <1>9, <1>10, <1>11 DEF Questions
<1>15. Answers'
  BY <1>4, <1>9, <1>10, <1>11 DEF Answers
<1>16. Readers'
  BY <1>5, <1>9, <1>10, <1>11 DEF Readers, Replacing
<1>17. NoDeafPivot'
  BY <1>9, <1>10, <1>11 DEF NoDeafPivot
<1>18. \A u \in Threads : Asks(u)'
  BY <1>7, <1>9, <1>10, <1>11 DEF Asks
<1>19. \A s \in Sockets : Finds(s)'
  BY <1>8, <1>9, <1>10, <1>11 DEF Finds
<1>20. QED BY <1>12, <1>13, <1>14, <1>15, <1>16, <1>17, <1>18, <1>19 DEF IInv

\* Entries grow old.
LEMMA TimePassesStep ==
  ASSUME DnsAssumption, IInv, TimePasses
  PROVE  IInv'
<1>1. Shapes BY DEF IInv
<1>2. Table BY DEF IInv
<1>3. Questions BY DEF IInv
<1>4. Answers BY DEF IInv
<1>5. Readers BY DEF IInv
<1>6. NoDeafPivot BY DEF IInv
<1>7. \A u \in Threads : Asks(u) BY DEF IInv
<1>8. \A s \in Sockets : Finds(s) BY DEF IInv
<1>9. /\ DOMAIN dnsMap' = DOMAIN dnsMap
      /\ \A k \in DOMAIN dnsMap : dnsMap'[k] = [dnsMap[k] EXCEPT !.old = TRUE]
  BY DEF TimePasses
<1>10. UNCHANGED <<pivot, open, created, thread, reader, nReaders, inflight, sentQ, cleaner, ticking, delivered, askers, closed>>
  BY DEF TimePasses, mapVars, sockVars, netVars
<1>11. Shapes'
  BY <1>1, <1>9, <1>10 DEF Shapes
<1>12. Table'
  BY <1>2, <1>9, <1>10 DEF Table
<1>13. Questions'
  BY <1>3, <1>9, <1>10 DEF Questions
<1>14. Answers'
  BY <1>4, <1>9, <1>10 DEF Answers
<1>15. Readers'
  BY <1>5, <1>9, <1>10 DEF Readers, Replacing
<1>16. NoDeafPivot'
  BY <1>6, <1>9, <1>10 DEF NoDeafPivot
<1>17. \A u \in Threads : Asks(u)'
  BY <1>7, <1>9, <1>10 DEF Asks
<1>18. \A s \in Sockets : Finds(s)'
  BY <1>8, <1>9, <1>10 DEF Finds
<1>19. QED BY <1>11, <1>12, <1>13, <1>14, <1>15, <1>16, <1>17, <1>18 DEF IInv

\* expireConn collects old entries.
LEMMA ExpireCollectStep ==
  ASSUME DnsAssumption, IInv, expireCollect
  PROVE  IInv'
<1>1. Shapes BY DEF IInv
<1>2. Table BY DEF IInv
<1>3. Questions BY DEF IInv
<1>4. Answers BY DEF IInv
<1>5. Readers BY DEF IInv
<1>6. NoDeafPivot BY DEF IInv
<1>7. \A u \in Threads : Asks(u) BY DEF IInv
<1>8. \A s \in Sockets : Finds(s) BY DEF IInv
<1>9. cleaner' \in [pc : {"wait", "delete", "ended"}, ids : SUBSET Ids]
  BY <1>2 DEF expireCollect, Table
<1>9a. closed' \subseteq Clients
  BY <1>1, <1>2 DEF expireCollect, CloseConns, AskerOf, Shapes, Table
<1>10. UNCHANGED <<dnsMap, pivot, open, created, thread, reader, nReaders, inflight, sentQ, ticking, delivered, askers>>
  BY DEF expireCollect, mapVars, sockVars, netVars
<1>11. Shapes'
  BY <1>1, <1>9a, <1>9, <1>10 DEF Shapes
<1>12. Table'
  BY <1>2, <1>9, <1>10 DEF Table
<1>13. Questions'
  BY <1>3, <1>9, <1>10 DEF Questions
<1>14. Answers'
  BY <1>4, <1>9, <1>10 DEF Answers
<1>15. Readers'
  BY <1>5, <1>9, <1>10 DEF Readers, Replacing
<1>16. NoDeafPivot'
  BY <1>6, <1>9, <1>10 DEF NoDeafPivot
<1>17. \A u \in Threads : Asks(u)'
  BY <1>7, <1>9, <1>10 DEF Asks
<1>18. \A s \in Sockets : Finds(s)'
  BY <1>8, <1>9, <1>10 DEF Finds
<1>19. QED BY <1>11, <1>12, <1>13, <1>14, <1>15, <1>16, <1>17, <1>18 DEF IInv

\* expireConn removes what it collected, whatever became of it.
LEMMA ExpireDeleteStep ==
  ASSUME DnsAssumption, IInv, expireDelete
  PROVE  IInv'
<1>1. Shapes BY DEF IInv
<1>2. Table BY DEF IInv
<1>3. Questions BY DEF IInv
<1>4. Answers BY DEF IInv
<1>5. Readers BY DEF IInv
<1>6. NoDeafPivot BY DEF IInv
<1>7. \A u \in Threads : Asks(u) BY DEF IInv
<1>8. \A s \in Sockets : Finds(s) BY DEF IInv
<1>9. cleaner' \in [pc : {"wait", "delete", "ended"}, ids : SUBSET Ids]
  BY DEF expireDelete
<1>10. DOMAIN dnsMap' \subseteq DOMAIN dnsMap /\ \A k \in DOMAIN dnsMap' : dnsMap'[k] = dnsMap[k]
  BY DEF expireDelete, Restrict
<1>11. UNCHANGED <<pivot, open, created, thread, reader, nReaders, inflight, sentQ, ticking, delivered, askers, closed>>
  BY DEF expireDelete, mapVars, sockVars, netVars
<1>12. Shapes'
  BY <1>1, <1>9, <1>10, <1>11 DEF Shapes
<1>13. Table'
  BY <1>2, <1>9, <1>10, <1>11 DEF Table
<1>14. Questions'
  BY <1>3, <1>9, <1>10, <1>11 DEF Questions
<1>15. Answers'
  BY <1>4, <1>9, <1>10, <1>11 DEF Answers
<1>16. Readers'
  BY <1>5, <1>9, <1>10, <1>11 DEF Readers, Replacing
<1>17. NoDeafPivot'
  BY <1>6, <1>9, <1>10, <1>11 DEF NoDeafPivot
<1>18. \A u \in Threads : Asks(u)'
  BY <1>7, <1>9, <1>10, <1>11 DEF Asks
<1>19. \A s \in Sockets : Finds(s)'
  BY <1>8, <1>9, <1>10, <1>11 DEF Finds
<1>20. QED BY <1>12, <1>13, <1>14, <1>15, <1>16, <1>17, <1>18, <1>19 DEF IInv

\* The handler is closed.
LEMMA QuitStep ==
  ASSUME DnsAssumption, IInv, quit
  PROVE  IInv'
<1>1. Shapes BY DEF IInv
<1>2. Table BY DEF IInv
<1>3. Questions BY DEF IInv
<1>4. Answers BY DEF IInv
<1>5. Readers BY DEF IInv
<1>6. NoDeafPivot BY DEF IInv
<1>7. \A u \in Threads : Asks(u) BY DEF IInv
<1>8. \A s \in Sockets : Finds(s) BY DEF IInv
<1>9. cleaner' \in [pc : {"wait", "delete", "ended"}, ids : SUBSET Ids]
  BY DEF quit
<1>10. dnsMap' = <<>> /\ pivot \notin open' /\ open' \subseteq open /\ ticking' = FALSE
  BY DEF quit
<1>10a. closed' \subseteq Clients
  BY <1>1, <1>2 DEF quit, CloseConns, AskerOf, Shapes, Table
<1>11. UNCHANGED <<pivot, created, thread, reader, nReaders, inflight, sentQ, delivered, askers>>
  BY DEF quit, mapVars, sockVars, netVars
<1>12. Shapes'
  BY <1>1, <1>10a, <1>9, <1>10, <1>11 DEF Shapes
<1>13. Table'
  BY <1>2, <1>9, <1>10, <1>11 DEF Table
<1>14. Questions'
  BY <1>3, <1>9, <1>10, <1>11 DEF Questions
<1>15. Answers'
  BY <1>4, <1>9, <1>10, <1>11 DEF Answers
<1>16. Readers'
  BY <1>5, <1>9, <1>10, <1>11 DEF Readers, Replacing
<1>17. NoDeafPivot'
  BY <1>9, <1>10, <1>11 DEF NoDeafPivot
<1>18. \A u \in Threads : Asks(u)'
  BY <1>7, <1>9, <1>10, <1>11 DEF Asks
<1>19. \A s \in Sockets : Finds(s)'
  BY <1>8, <1>9, <1>10, <1>11 DEF Finds
<1>20. QED BY <1>12, <1>13, <1>14, <1>15, <1>16, <1>17, <1>18, <1>19 DEF IInv

-----------------------------------------------------------------------------
(* The theorems *)

\* The handler starts within the invariant: one pivot, one reader.
LEMMA InitIInv ==
  ASSUME DnsAssumption, Init
  PROVE  IInv
<1>1. 1 \in Sockets /\ 1 .. 1 = {1} BY DEF DnsAssumption, Sockets
<1>2. Shapes BY <1>1, Records DEF Init, Shapes
<1>3. Table /\ Questions /\ Answers BY DEF Init, Table, Questions, Answers
<1>4. Readers
  <2>1. Replacing = {} BY Records DEF Init, Replacing
  <2>2. QED BY <2>1, FS_EmptySet DEF Init, Readers
<1>5. NoDeafPivot BY <1>1, Records DEF Init, NoDeafPivot
<1>6. \A t \in Threads : Asks(t) BY Records DEF Init, Asks
<1>7. \A r \in Sockets : Finds(r) BY Records DEF Init, Finds
<1>8. QED BY <1>2, <1>3, <1>4, <1>5, <1>6, <1>7 DEF IInv

\* Every step keeps it.
LEMMA NextIInv ==
  ASSUME DnsAssumption, IInv, [Next]_vars
  PROVE  IInv'
<1>1. CASE \E t \in Threads : Receiver(t)
  BY <1>1, WriteToUDPStep, RegisterStep, SetupCloseStep, SetupListenStep,
     SetupControlStep, StartReaderStep DEF Receiver
<1>2. CASE \E t \in Threads, c \in Clients, i \in Ids : ReceiveTo(t, c, i)
  BY <1>2, ReceiveToStep
<1>3. CASE \E r \in Sockets : Reader(r)
  BY <1>3, ReadPivotStep, ReadFailsStep, ReadAnswerStep, WriteFromStep, CloseMapStep,
     ClosePivotStep DEF Reader
<1>4. CASE TimePasses \/ expireCollect \/ expireDelete \/ quit
  BY <1>4, TimePassesStep, ExpireCollectStep, ExpireDeleteStep, QuitStep
<1>5. CASE UNCHANGED vars
  BY <1>5 DEF IInv, vars, Shapes, Table, Questions, Answers, Readers, Replacing,
     NoDeafPivot, Asks, Finds
<1>6. QED BY <1>1, <1>2, <1>3, <1>4, <1>5 DEF Next

\* The invariant holds throughout.
LEMMA Invariant ==
  ASSUME DnsAssumption
  PROVE  Spec => []IInv
<1>1. Init => IInv BY InitIInv
<1>2. IInv /\ [Next]_vars => IInv' BY NextIInv
<1>3. QED BY <1>1, <1>2, PTL DEF Spec

\* What the invariant says of the types.
LEMMA IInvTypes ==
  ASSUME DnsAssumption, IInv
  PROVE  TypeOK
<1>1. Shapes /\ Table /\ Questions BY DEF IInv
<1>2. DOMAIN dnsMap \subseteq Ids /\ Range(dnsMap) \subseteq [conn : Clients, old : BOOLEAN]
  BY <1>1 DEF Table, Range
<1>3. pivot \in Sockets /\ open \subseteq Sockets /\ created \in Sockets
  BY <1>1 DEF Shapes, Sockets, DnsAssumption
<1>4. \A t \in Threads : thread[t].pc \in ThreadPcs BY <1>1 DEF Shapes, ThreadSet
<1>5. \A r \in Sockets : reader[r].pc \in ReaderPcs BY <1>1 DEF Shapes, ReaderSet
<1>6. inflight \subseteq [sock : Sockets, id : Ids, client : Clients]
  BY <1>1 DEF Questions
<1>7. /\ cleaner.ids \subseteq Ids /\ ticking \in BOOLEAN /\ nReaders \in Sockets
      /\ askers \in [Ids -> SUBSET Clients] /\ closed \subseteq Clients
  BY <1>1 DEF Shapes
<1>8. QED BY <1>2, <1>3, <1>4, <1>5, <1>6, <1>7 DEF TypeOK, ThreadPcs, ReaderPcs

LEMMA IInvCorrect ==
  ASSUME DnsAssumption, IInv
  PROVE  TypeOK /\ AnswerGoesToAsker /\ NoDeafPivot
<1>1. AnswerGoesToAsker BY DEF IInv, Answers, AnswerGoesToAsker
<1>2. NoDeafPivot BY DEF IInv
<1>3. QED BY <1>1, <1>2, IInvTypes

\* Types hold: in particular the tables hold only clients and ids, and readers and
\* sockets stay within their number.
THEOREM TypeCorrect ==
  ASSUME DnsAssumption
  PROVE  Spec => []TypeOK
<1>1. IInv => TypeOK BY IInvTypes
<1>2. QED BY <1>1, Invariant, PTL

\* dnsWaitResponse hands an answer only to a client that asked with its id, and to
\* the one that asked this question unless another used the same id, whatever ids
\* the clients choose, through replacements of the pivot, expiry and registration
\* anew, for any number of clients, threads and sockets.
THEOREM AnswersRight ==
  ASSUME DnsAssumption
  PROVE  Spec => []AnswerGoesToAsker
<1>1. IInv => AnswerGoesToAsker BY DEF IInv, Answers, AnswerGoesToAsker
<1>2. QED BY <1>1, Invariant, PTL

\* However the threads that replace the pivot and the readers that close it
\* interleave (setupPivot, dnsWaitResponse), an open pivot has a reader, or one is
\* about to start or about to close it.
THEOREM PivotHeard ==
  ASSUME DnsAssumption
  PROVE  Spec => []NoDeafPivot
<1>1. IInv => NoDeafPivot BY DEF IInv
<1>2. QED BY <1>1, Invariant, PTL
=============================================================================
