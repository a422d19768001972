------------------------------ MODULE DnsHandler ------------------------------
(***************************************************************************)
(* stack/dns.go: DNS queries of all clients leave through one socket, the  *)
(* pivot; dnsMap remembers by query id who asked.  A failed write replaces *)
(* the pivot and starts another reader; a reader that ends closes the      *)
(* handler's tables and whatever pivot there is by then.                   *)
(*                                                                         *)
(* A query is its id and its client.  The relays of other UDP ports, the   *)
(* same code as stack/udp.go, are modelled in UdpRelay.                    *)
(***************************************************************************)
EXTENDS Integers, FiniteSets, Functions

CONSTANTS Clients,      \* UDP connections of the clients
          Ids,          \* query ids; any client may use any of them
          Threads,      \* callers of ReceiveTo: the lwIP thread and a draining goroutine
          MaxSockets,   \* sockets ever created; one reader is started for each
          MaxQueries    \* queries the clients send

DnsAssumption == /\ IsFiniteSet(Threads)
                 /\ MaxSockets \in Nat \ {0} /\ MaxQueries \in Nat

Sockets == 1 .. MaxSockets
NoSock == 0

VARIABLES
    dnsMap,     \* id -> [conn, old]
    pivot,      \* dh.pivot
    open,       \* sockets not closed
    created,    \* sockets made so far
    thread,     \* ReceiveTo per caller: [pc, id, client, sock]
    reader,     \* dnsWaitResponse per goroutine: [pc, sock, id, conn, asker]
    nReaders,
    inflight,   \* queries sent and not answered: [sock, id, client]
    sentQ,      \* number of queries sent
    cleaner,    \* expireConn: [pc, ids]
    ticking,    \* dh.expire runs
    delivered,  \* answers written to a client: [id, asker, got]
    askers,     \* for each id, the clients that sent a query with it
    closed      \* connections on which Close was called

mapVars == <<dnsMap, cleaner, ticking>>
sockVars == <<pivot, open, created>>
netVars == <<inflight, sentQ, delivered, askers>>
vars == <<dnsMap, pivot, open, created, thread, reader, nReaders, inflight,
          sentQ, cleaner, ticking, delivered, askers, closed>>

Idle == [pc |-> "idle", id |-> NoSock, client |-> NoSock, sock |-> NoSock]
NotStarted == [pc |-> "none", sock |-> NoSock, id |-> NoSock, conn |-> NoSock,
               asker |-> NoSock]
Starting == [NotStarted EXCEPT !.pc = "start"]

(* newUdpHandler made the first pivot and started its reader.              *)
Init ==
    /\ dnsMap = <<>> /\ pivot = 1 /\ open = {1} /\ created = 1
    /\ thread = [t \in Threads |-> Idle]
    /\ reader = [r \in Sockets |-> IF r = 1 THEN Starting ELSE NotStarted]
    /\ nReaders = 1
    /\ inflight = {} /\ sentQ = 0 /\ delivered = {}
    /\ askers = [i \in Ids |-> {}] /\ closed = {}
    /\ cleaner = [pc |-> "wait", ids |-> {}] /\ ticking = TRUE
-----------------------------------------------------------------------------
(* ReceiveTo, called for a connection that is not closed: the query is     *)
(* written to the pivot, and registered after it.                          *)
ReceiveTo(t, c, i) ==
    /\ thread[t].pc = "idle" /\ sentQ < MaxQueries /\ c \notin closed
    /\ sentQ' = sentQ + 1
    /\ askers' = [askers EXCEPT ![i] = @ \cup {c}]
    /\ thread' = [thread EXCEPT ![t] = [pc |-> "write", id |-> i, client |-> c,
                                        sock |-> NoSock]]
    /\ UNCHANGED <<mapVars, sockVars, reader, nReaders, inflight, delivered, closed>>

(* A write that fails closes the connection and replaces the pivot.        *)
WriteToUDP(t) ==
    /\ thread[t].pc = "write"
    /\ \/ /\ pivot \in open
          /\ inflight' = inflight \cup
                {[sock |-> pivot, id |-> thread[t].id, client |-> thread[t].client]}
          /\ thread' = [thread EXCEPT ![t].pc = "register"]
          /\ UNCHANGED closed
       \/ /\ thread' = [thread EXCEPT ![t].pc = "closePivot"]
          /\ closed' = closed \cup {thread[t].client}
          /\ UNCHANGED inflight
    /\ UNCHANGED <<mapVars, sockVars, reader, nReaders, sentQ, delivered, askers>>

(* Who asked is entered, unless what was sent cannot be unpacked.          *)
Register(t) ==
    LET i == thread[t].id
        e == [conn |-> thread[t].client, old |-> FALSE]
    IN  /\ thread[t].pc = "register"
        /\ \/ dnsMap' = [k \in DOMAIN dnsMap \cup {i} |-> IF k = i THEN e ELSE dnsMap[k]]
           \/ UNCHANGED dnsMap
        /\ thread' = [thread EXCEPT ![t] = Idle]
        /\ UNCHANGED <<cleaner, ticking, sockVars, reader, nReaders, netVars, closed>>

(* setupPivot: close the old socket, listen, protect the new socket, which *)
(* may fail and leaves it open, and store it; then a reader is started.    *)
setupClose(t) ==
    /\ thread[t].pc = "closePivot"
    /\ open' = open \ {pivot}
    /\ thread' = [thread EXCEPT ![t].pc = "listen"]
    /\ UNCHANGED <<mapVars, pivot, created, reader, nReaders, netVars, closed>>

setupListen(t) ==
    /\ thread[t].pc = "listen"
    /\ \/ /\ created < MaxSockets
          /\ created' = created + 1 /\ open' = open \cup {created + 1}
          /\ thread' = [thread EXCEPT ![t].pc = "control", ![t].sock = created + 1]
       \/ thread' = [thread EXCEPT ![t] = Idle] /\ UNCHANGED <<created, open>>
    /\ UNCHANGED <<mapVars, pivot, reader, nReaders, netVars, closed>>

setupControl(t) ==
    /\ thread[t].pc = "control"
    /\ \/ /\ pivot' = thread[t].sock
          /\ thread' = [thread EXCEPT ![t].pc = "reader"]
       \/ thread' = [thread EXCEPT ![t] = Idle] /\ UNCHANGED pivot
    /\ UNCHANGED <<mapVars, open, created, reader, nReaders, netVars, closed>>

(* Fault: the new pivot gets no reader.                                    *)
startReaderNot(t) ==
    /\ thread[t].pc = "reader"
    /\ thread' = [thread EXCEPT ![t] = Idle]
    /\ UNCHANGED <<mapVars, sockVars, nReaders, reader, netVars, closed>>

startReader(t) ==
    /\ thread[t].pc = "reader"
    /\ nReaders' = nReaders + 1
    /\ reader' = [reader EXCEPT ![nReaders + 1] = Starting]
    /\ thread' = [thread EXCEPT ![t] = Idle]
    /\ UNCHANGED <<mapVars, sockVars, netVars, closed>>
-----------------------------------------------------------------------------
(* dnsWaitResponse: every turn of the loop reads from the pivot of that    *)
(* moment.                                                                 *)
ReadPivot(r) ==
    /\ reader[r].pc = "start"
    /\ reader' = [reader EXCEPT ![r].pc = "read", ![r].sock = pivot]
    /\ UNCHANGED <<mapVars, sockVars, thread, nReaders, netVars, closed>>

(* Fault: a failed read is logged and tried again.                         *)
ReadFailsContinues(r) ==
    /\ reader[r].pc = "read" /\ reader[r].sock \notin open
    /\ reader' = [reader EXCEPT ![r].pc = "start"]
    /\ UNCHANGED <<mapVars, sockVars, thread, nReaders, netVars, closed>>

ReadFails(r) ==
    /\ reader[r].pc = "read" /\ reader[r].sock \notin open
    /\ reader' = [reader EXCEPT ![r].pc = "closeMap"]
    /\ UNCHANGED <<mapVars, sockVars, thread, nReaders, netVars, closed>>

(* Who asked, by the id of the answer.                                     *)
AskerOf(i) == dnsMap[i].conn

(* An answer that cannot be unpacked, one without an entry and one with no *)
(* records is dropped; else the entry is kept for the next step.           *)
ReadAnswer(r) ==
    \E q \in inflight, empty \in BOOLEAN :
        /\ reader[r].pc = "read" /\ reader[r].sock \in open
        /\ q.sock = reader[r].sock
        /\ inflight' = inflight \ {q}
        /\ IF q.id \in DOMAIN dnsMap /\ ~empty
           THEN reader' = [reader EXCEPT ![r].pc = "found", ![r].id = q.id,
                     ![r].conn = AskerOf(q.id), ![r].asker = q.client]
           ELSE reader' = [reader EXCEPT ![r].pc = "start"]
        /\ UNCHANGED <<mapVars, sockVars, thread, nReaders, sentQ, delivered, askers,
                       closed>>

(* The entry found earlier is renewed and used, whatever became of it; a   *)
(* connection closed in the meantime refuses the answer.                   *)
WriteFrom(r) ==
    /\ reader[r].pc = "found"
    /\ dnsMap' = [k \in DOMAIN dnsMap |->
          IF k = reader[r].id /\ dnsMap[k].conn = reader[r].conn
          THEN [dnsMap[k] EXCEPT !.old = FALSE] ELSE dnsMap[k]]
    /\ delivered' = IF reader[r].conn \in closed THEN delivered
                    ELSE delivered \cup {[id |-> reader[r].id, asker |-> reader[r].asker,
                                          got |-> reader[r].conn]}
    /\ reader' = [reader EXCEPT ![r] = Starting]
    /\ UNCHANGED <<cleaner, ticking, sockVars, thread, nReaders, inflight, sentQ, askers,
                   closed>>

(* The connections of some entries are closed.                             *)
CloseConns(ids) == closed' = closed \cup {AskerOf(i) : i \in ids}

(* The deferred close: the connections are closed and the tables emptied,  *)
(* then the present pivot is closed and the ticker stopped.                *)
closeMap(r) ==
    /\ reader[r].pc = "closeMap"
    /\ CloseConns(DOMAIN dnsMap)
    /\ dnsMap' = <<>>
    /\ reader' = [reader EXCEPT ![r].pc = "closePivot"]
    /\ UNCHANGED <<cleaner, ticking, sockVars, thread, nReaders, netVars>>

closePivot(r) ==
    /\ reader[r].pc = "closePivot"
    /\ open' = open \ {pivot}
    /\ ticking' = FALSE
    /\ reader' = [reader EXCEPT ![r] = [NotStarted EXCEPT !.pc = "ended"]]
    /\ UNCHANGED <<dnsMap, cleaner, pivot, created, thread, nReaders, netVars, closed>>
-----------------------------------------------------------------------------
(* expireConn: old entries are collected, and their connections closed,    *)
(* under the read lock; the entries are deleted later.                     *)
TimePasses ==
    /\ \E i \in DOMAIN dnsMap : ~dnsMap[i].old
    /\ dnsMap' = [i \in DOMAIN dnsMap |-> [dnsMap[i] EXCEPT !.old = TRUE]]
    /\ UNCHANGED <<cleaner, ticking, sockVars, thread, reader, nReaders, netVars, closed>>

expireCollect ==
    /\ cleaner.pc = "wait" /\ ticking
    /\ \E i \in DOMAIN dnsMap : dnsMap[i].old
    /\ cleaner' = [pc |-> "delete", ids |-> {i \in DOMAIN dnsMap : dnsMap[i].old}]
    /\ CloseConns(cleaner'.ids)
    /\ UNCHANGED <<dnsMap, ticking, sockVars, thread, reader, nReaders, netVars>>

expireDelete ==
    /\ cleaner.pc = "delete"
    /\ dnsMap' = Restrict(dnsMap, DOMAIN dnsMap \ cleaner.ids)
    /\ cleaner' = [pc |-> "wait", ids |-> {}]
    /\ UNCHANGED <<ticking, sockVars, thread, reader, nReaders, netVars, closed>>

(* The context is cancelled: expireConn closes the handler and returns.    *)
quit ==
    /\ cleaner.pc = "wait"
    /\ CloseConns(DOMAIN dnsMap)
    /\ dnsMap' = <<>> /\ open' = open \ {pivot} /\ ticking' = FALSE
    /\ cleaner' = [pc |-> "ended", ids |-> {}]
    /\ UNCHANGED <<pivot, created, thread, reader, nReaders, netVars>>
-----------------------------------------------------------------------------
Reader(r) == ReadPivot(r) \/ ReadFails(r) \/ ReadAnswer(r) \/ WriteFrom(r)
             \/ closeMap(r) \/ closePivot(r)
Receiver(t) == WriteToUDP(t) \/ Register(t) \/ setupClose(t) \/ setupListen(t)
               \/ setupControl(t) \/ startReader(t)

Next ==
    \/ \E t \in Threads :
         Receiver(t) \/ \E c \in Clients, i \in Ids : ReceiveTo(t, c, i)
    \/ \E r \in Sockets : Reader(r)
    \/ TimePasses \/ expireCollect \/ expireDelete \/ quit

Spec == Init /\ [][Next]_vars

(* Goroutines run on; a read of a closed socket returns.                   *)
ReaderStep(r) == ReadPivot(r) \/ ReadFails(r) \/ WriteFrom(r) \/ closeMap(r) \/ closePivot(r)
Fairness ==
    /\ \A r \in Sockets : WF_vars(ReaderStep(r))
    /\ \A t \in Threads : WF_vars(Receiver(t))
FairSpec == Spec /\ Fairness
-----------------------------------------------------------------------------
TypeOK ==
    /\ DOMAIN dnsMap \subseteq Ids
    /\ Range(dnsMap) \subseteq [conn : Clients, old : BOOLEAN]
    /\ pivot \in Sockets /\ open \subseteq Sockets /\ created \in Sockets
    /\ nReaders \in Sockets
    /\ \A t \in Threads : thread[t].pc \in {"idle", "write", "register", "closePivot",
                                            "listen", "control", "reader"}
    /\ \A r \in Sockets : reader[r].pc \in {"none", "start", "read", "found",
                                            "closeMap", "closePivot", "ended"}
    /\ inflight \subseteq [sock : Sockets, id : Ids, client : Clients]
    /\ cleaner.ids \subseteq Ids /\ ticking \in BOOLEAN
    /\ askers \in [Ids -> SUBSET Clients] /\ closed \subseteq Clients

(* dnsMap knows a query by its id alone, and ids of different clients may  *)
(* meet: an answer goes to a client that asked with its id, and to the one *)
(* that asked this very question if no other has used the id, through      *)
(* replacements of the pivot, expiry and registration anew.                *)
AnswerGoesToAsker ==
    \A a \in delivered :
        /\ a.got \in askers[a.id]
        /\ askers[a.id] = {a.asker} => a.got = a.asker

(* A pivot that takes queries has a reader, or one on its way: replaced    *)
(* twice at once, or closed by an old reader, it is never left open with   *)
(* nobody to read the answers.                                             *)
NoDeafPivot ==
    pivot \in open =>
        \/ \E r \in Sockets : reader[r].pc \in {"start", "found"}
        \/ \E r \in Sockets : reader[r].pc = "read" /\ reader[r].sock = pivot
        \/ \E t \in Threads : thread[t].pc = "reader"
        \/ \E r \in Sockets : reader[r].pc \in {"closeMap", "closePivot"}

(* A reader whose socket was closed under it ends, and with it the tables  *)
(* it served are emptied: it does not go on with the next pivot.           *)
Stranded(r) == reader[r].pc \notin {"none", "ended"} /\ reader[r].sock \notin open
StrandedReaderEnds == \A r \in Sockets : []<>~Stranded(r)
==============================================================================
