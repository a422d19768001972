------------------------------- MODULE UdpRelay -------------------------------
(***************************************************************************)
(* The UDP connections of one source address: the udpConn objects of       *)
(* core/udp_conn.go, created one after the other as the entry of udpConns  *)
(* comes and goes, and their relays in stack/udp.go, the sockets of        *)
(* redirectMap.  Connections of different sources share no entry.          *)
(*                                                                         *)
(* Who runs:                                                               *)
(*   lwip       the goroutine in udpRecvFn, which holds lwipMutex          *)
(*   dial(c)    the goroutine newUDPConn starts for connection c           *)
(*   reader(c)  redirectWaitForRemote, started by Connect for c's socket   *)
(*   stop       lwipStack.Close                                            *)
(*                                                                         *)
(* A step is a section of conn.Mutex or rLocker, or one operation on a     *)
(* sync.Map, a channel or a socket.                                        *)
(***************************************************************************)
EXTENDS Integers, Sequences, FiniteSets

CONSTANTS
  MaxConns,  \* connection objects created for the source
  MaxDsts,   \* destinations it sends to
  MaxPkts,   \* packets it sends
  QueueCap,  \* capacity of conn.pending, 64 in the code
  StopAt     \* how many connections may have been created when lwipStack.Close
             \* is called: {} if it never is, 0..MaxConns if at any time

ASSUME UdpBounds ==
  /\ MaxConns \in Nat /\ MaxDsts \in Nat /\ MaxPkts \in Nat
  /\ QueueCap \in Nat /\ StopAt \subseteq Nat

Conns   == 1..MaxConns
Dsts    == 1..MaxDsts

lwip      == <<"lwip", 0>>
stop      == <<"stop", 0>>
dial(c)   == <<"dial", c>>
reader(c) == <<"reader", c>>
Procs == {lwip, stop} \cup {dial(c) : c \in Conns} \cup {reader(c) : c \in Conns}

VARIABLES
  entry,    \* the connection udpConns holds for the source, 0 for none
  state,    \* conn.state of each connection, "none" before it exists
  remote,   \* the destination of the packet a connection was created for
  pending,  \* conn.pending: packets queued before the connection was ready
  relay,    \* redirectMap: the socket of each destination, 0 for none; a socket
            \* is named after the connection whose Connect dialled it
  sock,     \* the sockets: "none", "open", "shut"
  pc,       \* control of each process
  job,      \* local variables: conn, the packet's destination and peerUdp
  made,     \* connections created so far
  pkts,     \* packets the client has sent so far
  late      \* a packet is already past the ctx check when Close cancels

vars == <<entry, state, remote, pending, relay, sock, pc, job, made, pkts, late>>
client == <<pkts, late>>
conns == <<entry, state, remote, pending, made>>
relays == <<relay, sock>>

Locations == {"idle", "store", "enqueue", "check", "lookup", "send",
              "dialing", "register", "connected", "drain", "drained", "failed",
              "fail1", "fail2", "read", "write", "sendto",
              "close1", "close2", "clear1", "clear2", "clear3",
              "range", "unlisten", "done"}

NoJob == [conn |-> 0, dst |-> 0, peer |-> 0]

\* Finish is the end of a call: peerUdp is out of scope, and a process that has
\* come to its own end has no local variables.
Final == {"idle", "failed", "drained", "done"}
Goto(p, l) == pc' = [pc EXCEPT ![p] = l]
Finish(p, l) ==
  /\ Goto(p, l)
  /\ job' = [job EXCEPT ![p] = IF l \in Final THEN NoJob ELSE [@ EXCEPT !.peer = 0]]

------------------------------------------------------------------------------
(* conn.Close, by whoever calls it: the state, then the entry of the source *)

AfterClose(p) == CASE p[1] = "lwip"   -> "idle"
                   [] p[1] = "dial"   -> "failed"
                   [] p[1] = "reader" -> "clear1"
                   [] p[1] = "stop"   -> "unlisten"

\* Connect closes the connection when it cannot dial, and newUDPConn's goroutine
\* closes it again when Connect fails.
Close(p) ==
  /\ pc[p] \in {"close1", "fail1"}
  /\ state' = [state EXCEPT ![job[p].conn] = "closed"]
  /\ Goto(p, IF pc[p] = "fail1" THEN "fail2" ELSE "close2")
  /\ UNCHANGED <<entry, remote, pending, relays, job, made, client>>

\* udpConns.Delete, by source: whichever connection is there.
CloseDelete(p) ==
  /\ pc[p] \in {"close2", "fail2"}
  /\ entry' = 0
  /\ Finish(p, IF pc[p] = "fail2" THEN "close1" ELSE AfterClose(p))
  /\ UNCHANGED <<state, remote, pending, relays, made, client>>

------------------------------------------------------------------------------
(* clearUdpRelay(id): look up, unlock, close, lock, delete *)

AfterClear(p) == IF p[1] = "reader" THEN "done" ELSE "close1"

clearUdpRelay(p) ==
  /\ pc[p] = "clear1"
  /\ IF relay[job[p].dst] = 0
       THEN Finish(p, AfterClear(p))
       ELSE job' = [job EXCEPT ![p].peer = relay[job[p].dst]] /\ Goto(p, "clear2")
  /\ UNCHANGED <<conns, relays, client>>

ClearShut(p) ==
  /\ pc[p] = "clear2"
  /\ sock' = [sock EXCEPT ![job[p].peer] = "shut"]
  /\ Goto(p, "clear3")
  /\ UNCHANGED <<conns, relay, job, client>>

ClearDelete(p) ==
  /\ pc[p] = "clear3"
  /\ relay' = [relay EXCEPT ![job[p].dst] = 0]
  /\ Finish(p, AfterClear(p))
  /\ UNCHANGED <<conns, sock, client>>

------------------------------------------------------------------------------
(* udpPivot.ReceiveTo, called by the lwIP thread and by the drain *)

\* Fault: the relay is found by the connection alone.
LookupBySource(p) ==
  /\ pc[p] = "lookup"
  /\ job' = [job EXCEPT ![p].peer = relay[remote[job[p].conn]]]
  /\ Goto(p, IF relay[remote[job[p].conn]] = 0 THEN "close1" ELSE "send")
  /\ UNCHANGED <<conns, relays, client>>

Lookup(p) ==
  /\ pc[p] = "lookup"
  /\ job' = [job EXCEPT ![p].peer = relay[job[p].dst]]
  /\ Goto(p, IF relay[job[p].dst] = 0 THEN "close1" ELSE "send")
  /\ UNCHANGED <<conns, relays, client>>

\* peerUdp.Write succeeds, or fails (it must on a closed socket).
Send(p) ==
  /\ pc[p] = "send"
  /\ \/ /\ sock[job[p].peer] = "open"
        /\ Finish(p, IF p[1] = "dial" THEN "drain" ELSE "idle")
     \/ Finish(p, "clear1")
  /\ UNCHANGED <<conns, relays, client>>

------------------------------------------------------------------------------
(* The lwIP thread: udpRecvFn *)

\* lwipStack.Write refuses packets once Close has cancelled ctx, except one that
\* passed the check before; then udpConns.Load: a packet that finds no connection makes one, whose goroutine
\* runs at once.
udpRecvFn ==
  /\ pc[lwip] = "idle"
  /\ pc[stop] = "idle" \/ (late /\ pc[stop] # "done")
  /\ late' = (late /\ pc[stop] = "idle")
  /\ pkts < MaxPkts /\ pkts' = pkts + 1
  /\ \E d \in Dsts :
       IF entry # 0
         THEN /\ job' = [job EXCEPT ![lwip] = [conn |-> entry, dst |-> d, peer |-> 0]]
              /\ Goto(lwip, "enqueue")
              /\ UNCHANGED <<state, remote, made>>
         ELSE /\ made < MaxConns /\ made' = made + 1
              /\ state' = [state EXCEPT ![made'] = "connecting"]
              /\ remote' = [remote EXCEPT ![made'] = d]
              /\ LET new == [conn |-> made', dst |-> d, peer |-> 0]
                 IN  job' = [job EXCEPT ![lwip] = new, ![dial(made')] = new]
              /\ pc' = [pc EXCEPT ![lwip] = "store", ![dial(made')] = "dialing"]
  /\ UNCHANGED <<entry, pending, relays>>

Store ==
  /\ pc[lwip] = "store"
  /\ entry' = job[lwip].conn
  /\ Goto(lwip, "enqueue")
  /\ UNCHANGED <<state, remote, pending, relays, job, made, client>>

\* Faults: one packet too many or too few is queued, or the state is not looked
\* at under the lock.
EarlyOverfull(c) == state[c] = "connecting" /\ Len(pending[c]) <= QueueCap
EarlyUnderfull(c) == state[c] = "connecting" /\ Len(pending[c]) < QueueCap - 1
EarlyUnchecked(c) == Len(pending[c]) < QueueCap

Early(c) == state[c] = "connecting" /\ Len(pending[c]) < QueueCap

\* enqueueEarlyPacket.
enqueueEarlyPacket ==
  /\ pc[lwip] = "enqueue"
  /\ LET c == job[lwip].conn
     IN IF Early(c)
          THEN /\ pending' = [pending EXCEPT ![c] = Append(@, job[lwip].dst)]
               /\ Finish(lwip, "idle")
          ELSE Finish(lwip, "check") /\ UNCHANGED pending
  /\ UNCHANGED <<entry, state, remote, relays, made, client>>

checkState ==
  /\ pc[lwip] = "check"
  /\ Finish(lwip, IF state[job[lwip].conn] = "connected" THEN "lookup" ELSE "idle")
  /\ UNCHANGED <<conns, relays, client>>

------------------------------------------------------------------------------
(* dial: Connect, then the queued packets *)

DialFails(c) ==
  /\ pc[dial(c)] = "dialing" /\ Goto(dial(c), "fail1")
  /\ UNCHANGED <<conns, relays, job, client>>

DialSucceeds(c) ==
  /\ pc[dial(c)] = "dialing" /\ Goto(dial(c), "register")
  /\ sock' = [sock EXCEPT ![c] = "open"]
  /\ UNCHANGED <<conns, relay, job, client>>

\* redirectMap takes the socket, over one that may be there, and the reader
\* starts.
Connect(c) ==
  /\ pc[dial(c)] = "register"
  /\ relay' = [relay EXCEPT ![remote[c]] = c]
  /\ pc' = [pc EXCEPT ![dial(c)] = "connected", ![reader(c)] = "read"]
  /\ job' = [job EXCEPT ![reader(c)] = [conn |-> c, dst |-> remote[c], peer |-> 0]]
  /\ UNCHANGED <<conns, sock, client>>

\* The state is set whatever it has become.
Connected(c) ==
  /\ pc[dial(c)] = "connected" /\ Goto(dial(c), "drain")
  /\ state' = [state EXCEPT ![c] = "connected"]
  /\ UNCHANGED <<entry, remote, pending, relays, job, made, client>>

\* Fault: the drain waits for a packet when the queue is empty.
DrainBlocking(c) ==
  /\ pc[dial(c)] = "drain" /\ pending[c] # <<>>
  /\ job' = [job EXCEPT ![dial(c)].dst = Head(pending[c])]
  /\ pending' = [pending EXCEPT ![c] = Tail(@)]
  /\ Goto(dial(c), "lookup")
  /\ UNCHANGED <<entry, state, remote, relays, made, client>>

Drain(c) ==
  /\ pc[dial(c)] = "drain"
  /\ IF pending[c] = <<>>
       THEN Finish(dial(c), "drained") /\ UNCHANGED pending
       ELSE /\ job' = [job EXCEPT ![dial(c)].dst = Head(pending[c])]
            /\ pending' = [pending EXCEPT ![c] = Tail(@)]
            /\ Goto(dial(c), "lookup")
  /\ UNCHANGED <<entry, state, remote, relays, made, client>>

------------------------------------------------------------------------------
(* reader: redirectWaitForRemote *)

\* peerUdp.Read returns data, or an error (it must on a closed socket).
Read(c) ==
  /\ pc[reader(c)] = "read"
  /\ \E l \in (IF sock[c] = "open" THEN {"write", "close1"} ELSE {"close1"}) :
       Goto(reader(c), l)
  /\ UNCHANGED <<conns, relays, job, client>>

\* WriteFrom: an empty packet is skipped; checkState, then udp_sendto without
\* lwipMutex, unless the address of the target cannot be converted.
WriteFrom(c) ==
  /\ pc[reader(c)] = "write"
  /\ \E l \in {"read", "close1"} \cup (IF state[c] = "connected" THEN {"sendto"} ELSE {}) :
       Goto(reader(c), l)
  /\ UNCHANGED <<conns, relays, job, client>>

Sendto(c) ==
  /\ pc[reader(c)] = "sendto" /\ Goto(reader(c), "read")
  /\ UNCHANGED <<conns, relays, job, client>>

------------------------------------------------------------------------------
(* stop: lwipStack.Close *)

StackClose ==
  /\ made \in StopAt /\ pc[stop] = "idle" /\ Goto(stop, "range")
  /\ UNCHANGED <<conns, relays, job, client>>

StackRange ==
  /\ pc[stop] = "range"
  /\ job' = [job EXCEPT ![stop].conn = entry]
  /\ Goto(stop, IF entry = 0 THEN "unlisten" ELSE "close1")
  /\ UNCHANGED <<conns, relays, client>>

\* udp_remove, under lwipMutex.
StackUnlisten ==
  /\ pc[stop] = "unlisten" /\ pc[lwip] = "idle" /\ Finish(stop, "done")
  /\ UNCHANGED <<conns, relays, client>>

------------------------------------------------------------------------------
Init ==
  /\ entry = 0 /\ made = 0
  /\ state = [c \in Conns |-> "none"] /\ remote = [c \in Conns |-> 0]
  /\ pending = [c \in Conns |-> <<>>]
  /\ relay = [d \in Dsts |-> 0] /\ sock = [c \in Conns |-> "none"]
  /\ pc = [p \in Procs |-> "idle"] /\ job = [p \in Procs |-> NoJob]
  /\ pkts = 0 /\ late = TRUE

Closing(p) == Close(p) \/ CloseDelete(p)
Clearing(p) == clearUdpRelay(p) \/ ClearShut(p) \/ ClearDelete(p)
Handler(p) == Lookup(p) \/ Send(p)
Lwip == udpRecvFn \/ Store \/ enqueueEarlyPacket \/ checkState
Dial(c) == \/ DialFails(c) \/ DialSucceeds(c) \/ Connect(c) \/ Connected(c)
           \/ Drain(c)
Reader(c) == Read(c) \/ WriteFrom(c) \/ Sendto(c)
Stop == StackClose \/ StackRange \/ StackUnlisten

Next ==
  \/ \E p \in Procs : Closing(p) \/ Clearing(p) \/ Handler(p)
  \/ Lwip \/ Stop
  \/ \E c \in Conns : Dial(c) \/ Reader(c)

Spec == Init /\ [][Next]_vars
------------------------------------------------------------------------------
(* Safety *)

Jobs == [conn : 0..MaxConns, dst : 0..MaxDsts, peer : 0..MaxConns]

\* Every variable keeps its type; in particular the queue of early packets never
\* holds more than its capacity.
TypeOK ==
  /\ entry \in 0..MaxConns /\ made \in 0..MaxConns
  /\ state \in [Conns -> {"none", "connecting", "connected", "closed"}]
  /\ remote \in [Conns -> 0..MaxDsts]
  /\ pending \in [Conns -> Seq(Dsts)]
  /\ \A c \in Conns : Len(pending[c]) <= QueueCap
  /\ relay \in [Dsts -> 0..MaxConns] /\ sock \in [Conns -> {"none", "open", "shut"}]
  /\ pc \in [Procs -> Locations] /\ job \in [Procs -> Jobs]
  /\ pkts \in 0..MaxPkts /\ late \in BOOLEAN

\* A packet is written only to a socket that was dialled to the packet's own
\* destination, although connections are found by source alone and relays are
\* replaced and removed by id while the lock is not held.
RelayLeadsToTarget ==
  /\ \A d \in Dsts : relay[d] # 0 => remote[relay[d]] = d /\ sock[relay[d]] # "none"
  /\ \A p \in Procs : pc[p] = "send" => remote[job[p].peer] = job[p].dst

\* The goroutine that drains the queue leaves no packet behind: nobody adds to a
\* queue that has been found empty and abandoned, so a packet accepted before the
\* connection was ready is passed on once it is.
NoneLeftBehind == \A c \in Conns : pc[dial(c)] = "drained" => pending[c] = <<>>

\* The lwIP thread gives up on a packet of a connection that is still connecting
\* only because the queue is full, whatever happened between its two looks at the
\* state.
DroppedOnlyWhenFull ==
  pc[lwip] = "check" /\ state[job[lwip].conn] = "connecting" =>
    Len(pending[job[lwip].conn]) = QueueCap

\* The queue of a connection is first in, first out, it grows only while the
\* connection is connecting and shrinks only once it is not: filling and draining,
\* by two goroutines, never overlap, so an early packet is neither lost, repeated
\* nor overtaken (enqueueEarlyPacket and the loop in newUDPConn).
FillsThenDrains ==
  [][\A c \in Conns :
       \/ pending'[c] = pending[c]
       \/ state[c] = "connecting" /\ \E d \in Dsts : pending'[c] = Append(pending[c], d)
       \/ state[c] # "connecting" /\ pending[c] # <<>> /\ pending'[c] = Tail(pending[c])]_vars

\* A socket that has been closed is never dialled again, although clearUdpRelay
\* closes what it looked up before and connections reuse the destination.
SocketsEndForGood ==
  [][\A c \in Conns :
       \/ sock'[c] = sock[c]
       \/ sock[c] = "none" /\ sock'[c] = "open"
       \/ sock[c] # "none" /\ sock'[c] = "shut"]_vars

------------------------------------------------------------------------------
(* Liveness: every goroutine that can run does.  Nothing is assumed of the     *)
(* client, of the dial, or of what the targets send.                          *)

DialStep(c) ==
  \/ Closing(dial(c)) \/ Clearing(dial(c)) \/ Handler(dial(c))
  \/ Connect(c) \/ Connected(c) \/ Drain(c)
ReaderStep(c) ==
  \/ Closing(reader(c)) \/ Clearing(reader(c))
  \/ WriteFrom(c) \/ Sendto(c)
  \/ sock[c] = "shut" /\ Read(c)
LwipStep ==
  \/ Closing(lwip) \/ Clearing(lwip) \/ Handler(lwip)
  \/ Store \/ enqueueEarlyPacket \/ checkState
StopStep == Closing(stop) \/ StackRange \/ StackUnlisten

\* StackUnlisten competes with udpRecvFn for lwipMutex, hence strong fairness.
Fairness ==
  /\ WF_vars(LwipStep) /\ SF_vars(StopStep)
  /\ \A c \in Conns : WF_vars(DialStep(c)) /\ WF_vars(ReaderStep(c))

FairSpec == Spec /\ Fairness

\* Once connected, all queued packets are sent, or the relay turned out broken.
Draining(c) == pc[dial(c)] \notin {"idle", "drained", "failed"} /\ sock[c] # "none"
QueuedIsDrained == \A c \in Conns : []<>~Draining(c)

------------------------------------------------------------------------------
(* Statements of the repository that the code does not keep *)

\* conn.go, UDPConn: "Close closes the connection."
ClosedStaysClosed ==
  [][\A c \in Conns : state[c] = "closed" => state'[c] = "closed"]_state

\* lwip.go: lwIP runs in a single thread, and lwipMutex sees to it.  The lwIP
\* thread holds it from the packet's arrival to the end of udpRecvFn.
SingleThreaded ==
  ~ \E c \in Conns : pc[reader(c)] = "sendto" /\ pc[lwip] # "idle"

\* lwip.go, Close: the handler's UDP connections "will wait till timeout", so
\* they do end.
HandlerTimesOut ==
  pc[stop] = "done" ~> \A c \in Conns : sock[c] # "open"
==============================================================================
