------------------------------- MODULE TcpConn -------------------------------
(***************************************************************************)
(* One TCP connection accepted from the TUN device: the tcpConn object of  *)
(* core/tcp_conn.go, the callbacks lwIP makes on it, the lwIP protocol     *)
(* control block (pcb) behind it, and the goroutines that use it.          *)
(*                                                                         *)
(* Who runs:                                                               *)
(*   input   the goroutine that writes IP packets into lwIP                *)
(*   tick    the 250 ms timer goroutine (tcp_fasttmr, tcp_slowtmr)         *)
(*   dial    the goroutine newTCPConn starts: Handle, then Connected       *)
(*   up      relay(target, conn): reads conn, writes the target            *)
(*   down    relay(conn, target): reads the target, writes conn            *)
(*   stop    lwipStack.Close                                               *)
(*                                                                         *)
(* lwIP code runs only under lwipMutex, held by `holder'.  The lock is     *)
(* kept from one event of a packet or a tick to the next and while the     *)
(* holder sleeps inside sndPipeWriter.Write, but conn.state changes under  *)
(* conn.Mutex alone, so every section that takes conn.Mutex is a step.     *)
(***************************************************************************)
EXTENDS Integers, FiniteSets

CONSTANTS
  MaxUp,    \* data segments the client sends before its FIN
  MaxDown,  \* units of data the target sends
  SndBuf,   \* capacity of pcb.snd_buf, in units
  Stops     \* whether lwipStack.Close may be called

ASSUME BoundsAssumption ==
  /\ MaxUp \in Nat /\ MaxDown \in Nat
  /\ SndBuf \in Nat \ {0}
  /\ Stops \in BOOLEAN

VARIABLES
  state,     \* conn.state
  inMap,     \* connKey is a key of tcpConns
  keyArg,    \* the C memory passed to tcp_arg: "none", "valid", "freed"
  pipeDone,  \* io.Pipe closed, by its reader or by its writer
  once,      \* closeOnce: "new", "busy", "done"
  tcp,       \* pcb->state, or "FREED" when lwIP deallocated the pcb
  cbs,       \* arg, recv, sent, err and poll of the pcb are set
  rxClosed,  \* TF_RXCLOSED
  refused,   \* pcb->refused_data, NoData for NULL
  sndq,      \* units in the send queue
  finOut,    \* our FIN is queued and not acknowledged
  closePend, \* TF_CLOSEPEND: there was no memory to queue our FIN
  holder,    \* owner of lwipMutex
  at,        \* place in the lwIP callback that runs
  todo,      \* events the owner has still to raise
  cur,       \* the data handed to the recv callback
  seg,       \* the segment in tcp_input
  pc,        \* control of each goroutine
  left,      \* units the Write of `down' has still to enqueue
  target,    \* the relay's connection to the target is open
  rcvNxt,    \* segments accepted by tcp_receive, hence acknowledged
  gotFin,    \* the client's FIN has been accepted
  upRead,    \* last segment handed to the handler's Read
  sent,      \* units the target has sent
  credit,    \* packet, tick already past the ctx check when Close cancels
  faults     \* memory-discipline events observed, see Faults

connVars == <<state, inMap, keyArg, pipeDone, once>>
pcbVars  == <<tcp, cbs, rxClosed, refused, sndq, finOut, closePend>>
lockVars == <<holder, at, todo, cur, seg>>
procVars == <<pc, left, target, sent>>
peerVars == <<rcvNxt, gotFin, upRead, credit>>
vars     == <<connVars, pcbVars, lockVars, procVars, peerVars, faults>>

------------------------------------------------------------------------------
(* Values *)

States == {"new", "connecting", "connected", "writeClosed", "receiveClosed",
           "closing", "aborting", "closed", "errored"}
GeClosing  == {"closing", "aborting", "closed", "errored"}
GeAborting == {"aborting", "closed", "errored"}
Receivable == {"connected", "writeClosed"}
NotReadyNewOnly == {"new"}  \* fault: data during the dial is treated as closed
NotReady   == {"new", "connecting"}
Writable   == {"connecting", "connected", "receiveClosed"}

TcpStates == {"SYN_RCVD", "ESTABLISHED", "CLOSE_WAIT", "FIN_WAIT_1",
              "FIN_WAIT_2", "CLOSING", "LAST_ACK", "TIME_WAIT", "FREED"}
Active == TcpStates \ {"TIME_WAIT", "FREED"}

Goroutines == {"dial", "up", "down", "stop"}
Locations  == {"idle", "dialing", "connect", "flush", "close", "closeW", "shut",
               "abort", "abortL", "read", "piping", "send", "tread", "check",
               "lwrite", "park", "wait", "tclose", "range", "unlisten", "done"}
Owners == {"none", "input", "tick", "dial", "stop"}
Places == {"next", "recv", "pipe", "check", "abort"}
Events == {"pending", "refused", "sent", "closed", "data", "fin", "segment",
           "slow"}
Faults == {"freed_arg", "freed_pcb"}

Data   == [n : 0..MaxUp, fin : BOOLEAN]
NoData == [n |-> 0, fin |-> FALSE]
Segment == [rst : BOOLEAN, data : BOOLEAN, fin : BOOLEAN, ack : 0..SndBuf + 1]
NoSegment == [rst |-> FALSE, data |-> FALSE, fin |-> FALSE, ack |-> 0]

\* The events of one packet or tick are raised in this order: tcp_input first
\* retries the refused data, then tcp_process runs, then SENT, the delayed
\* close, RECV and CLOSED; tcp_tmr runs tcp_fasttmr (the pending FIN, then the
\* refused data) before tcp_slowtmr.
Before(e) ==
  CASE e = "pending" -> {}
    [] e = "refused" -> {"pending"}
    [] e = "sent"    -> {"pending", "refused"}
    [] e = "closed"  -> {"pending", "refused", "sent"}
    [] e = "data"    -> {"pending", "refused", "sent", "closed"}
    [] e = "fin"     -> {"pending", "refused", "sent", "closed", "data"}
    [] e = "segment" -> Events \ {"segment", "slow"}
    [] e = "slow"    -> Events \ {"slow"}

Turn(e) == at = "next" /\ e \in todo /\ Before(e) \cap todo = {}

\* The callback is over; the owner unlocks when nothing is left to raise.
Return(rest) ==
  /\ at' = "next"
  /\ todo' = rest
  /\ holder' = IF rest = {} THEN "none" ELSE holder

Call(place, rest) == at' = place /\ todo' = rest /\ UNCHANGED holder

Lock(who, place, rest) ==
  /\ holder = "none"
  /\ holder' = who
  /\ at' = place
  /\ todo' = rest

\* A goroutine inside its own critical section takes no other step.
At(g, l) == pc[g] = l /\ holder # g
Goto(g, l) == pc' = [pc EXCEPT ![g] = l]

\* canWrite.Broadcast.
Woken(p) == IF p["down"] = "wait" THEN [p EXCEPT !["down"] = "check"] ELSE p

------------------------------------------------------------------------------
(* The pcb: what the Go code and the timers do to it *)

\* tcp_pcb_purge, removal from its list and tcp_free.
freePcb ==
  /\ tcp' = "FREED"
  /\ cbs' = FALSE
  /\ refused' = NoData
  /\ sndq' = 0
  /\ finOut' = FALSE
  /\ closePend' = FALSE
  /\ UNCHANGED rxClosed

\* tcp_close_shutdown_fin: queue a FIN where the state still allows it.
FinState(s) == CASE s \in {"SYN_RCVD", "ESTABLISHED"} -> "FIN_WAIT_1"
                 [] s = "CLOSE_WAIT" -> "LAST_ACK"
                 [] OTHER -> s

\* The FIN is queued, alone or on the last unsent segment, and the flag becomes
\* what the caller makes it; or no segment can be allocated, tcp_send_fin returns
\* ERR_MEM, and tcp_fasttmr will try again.
sendFin(flag) ==
  \/ /\ tcp' = FinState(tcp)
     /\ finOut' = (finOut \/ FinState(tcp) # tcp)
     /\ closePend' = flag
  \/ /\ FinState(tcp) # tcp
     /\ closePend' = TRUE
     /\ UNCHANGED <<tcp, finOut>>

\* tcp_close: a pcb with unread data (refused, or received and not yet passed
\* to tcp_recved) is reset and deallocated, any other one sends its FIN and
\* lingers until the handshake or a timer ends it.
Unread == /\ tcp \in {"ESTABLISHED", "CLOSE_WAIT"}
          /\ refused # NoData \/ cur # NoData

tcpClose ==
  /\ rxClosed' = TRUE
  /\ cbs' = FALSE
  /\ IF Unread
       THEN /\ tcp' = "FREED" /\ refused' = NoData /\ sndq' = 0
            /\ finOut' = FALSE /\ closePend' = FALSE
       ELSE sendFin(closePend) /\ UNCHANGED <<refused, sndq>>

------------------------------------------------------------------------------
(* The connection object *)

\* tcpConns.Load(getConnKeyVal(arg)) in a callback.
Found == cbs /\ inMap

\* Fault: release frees the key memory but leaves the entry in tcpConns.
releaseKeepsEntry ==
  /\ keyArg' = IF inMap THEN "freed" ELSE keyArg
  /\ pipeDone' = TRUE
  /\ UNCHANGED inMap

\* release: the key memory is freed with the map entry, the pipe is closed.
release ==
  /\ inMap' = FALSE
  /\ keyArg' = IF inMap THEN "freed" ELSE keyArg
  /\ pipeDone' = TRUE

\* tcpErrFn followed by Err when the key is found.
ErrFn ==
  IF Found
    THEN /\ release
         /\ state' = "errored"
         /\ pc' = Woken(pc)
         /\ UNCHANGED <<once, left, target, sent>>
    ELSE UNCHANGED <<connVars, procVars>>

\* closeInternal: callbacks removed, released, then tcp_close.
closeInternal ==
  /\ release
  /\ state' = "closed"
  /\ UNCHANGED once
  /\ tcpClose
  /\ UNCHANGED <<procVars, faults>>

\* abortInternal: released first, then tcp_abort, whose TCP_EVENT_ERR (not
\* raised from TIME_WAIT) reads the key memory that release has just freed; the
\* pcb itself may be gone already (see Orphaned).
abortInternal ==
  /\ release
  /\ state' = "closed"
  /\ UNCHANGED once
  /\ freePcb
  /\ UNCHANGED procVars
  /\ faults' = faults \cup
       (IF cbs /\ tcp # "TIME_WAIT" THEN {"freed_arg"} ELSE {}) \cup
       (IF tcp = "FREED" THEN {"freed_pcb"} ELSE {})

\* lwIP drops the pcb and raises TCP_EVENT_ERR while the key is still valid:
\* tcp_abort outside abortInternal, a reset, a timer.
tcpAbort == freePcb /\ ErrFn /\ UNCHANGED faults

------------------------------------------------------------------------------
(* Segments and ticks take lwipMutex *)

\* The segments a client that follows TCP may send now.
ClientMaySend(s) ==
  /\ s.rst => s = [NoSegment EXCEPT !.rst = TRUE]
  /\ s.data => rcvNxt < MaxUp /\ ~gotFin
  /\ s.fin => ~gotFin
  /\ s.ack <= sndq + (IF finOut THEN 1 ELSE 0)
  /\ s # NoSegment \/ tcp = "SYN_RCVD"

\* lwipStack.Write refuses packets once Close has cancelled ctx; the packet
\* and the tick that passed the check before are still processed.
Admitted(w) == pc["stop"] = "idle" \/ w \in credit
Spend(w) == credit' = IF pc["stop"] = "idle" THEN credit ELSE credit \ {w}

\* input, up to tcp_input's retry of the refused data.
Input ==
  /\ tcp \in Active
  /\ Admitted("input") /\ Spend("input")
  /\ \E s \in Segment : ClientMaySend(s) /\ seg' = s
  /\ Lock("input", "next",
          {"segment"} \cup (IF refused # NoData THEN {"refused"} ELSE {}))
  /\ UNCHANGED <<connVars, pcbVars, cur, procVars, rcvNxt, gotFin, upRead, faults>>

\* Fault: tcp_fasttmr does not retry the refused data.
TickWithoutRetry ==
  /\ tcp # "FREED"
  /\ Admitted("tick") /\ Spend("tick")
  /\ Lock("tick", "next",
          {"slow"} \cup (IF closePend /\ tcp # "TIME_WAIT" THEN {"pending"} ELSE {}))
  /\ UNCHANGED <<connVars, pcbVars, cur, seg, procVars, rcvNxt, gotFin, upRead,
                 faults>>

\* The timer goroutine: tcp_tmr runs tcp_fasttmr over the active pcbs and, every
\* other time, tcp_slowtmr.
Tick ==
  /\ tcp # "FREED"
  /\ Admitted("tick") /\ Spend("tick")
  /\ \E slow \in {{}, {"slow"}} :
       LET events == slow
             \cup (IF closePend /\ tcp # "TIME_WAIT" THEN {"pending"} ELSE {})
             \cup (IF refused # NoData /\ tcp # "TIME_WAIT" THEN {"refused"} ELSE {})
       IN  events # {} /\ Lock("tick", "next", events)
  /\ UNCHANGED <<connVars, pcbVars, cur, seg, procVars, rcvNxt, gotFin, upRead,
                 faults>>

------------------------------------------------------------------------------
(* tcp_process: the TCP state machine on the segment just read *)

\* Everything sent, our FIN included, is acknowledged by the segment.
AllAcked == seg.ack = sndq + (IF finOut THEN 1 ELSE 0)

\* pcb->state after the segment; freed states are handled by the events.
NextTcp ==
  CASE tcp \in {"SYN_RCVD", "ESTABLISHED", "CLOSE_WAIT"} ->
         IF seg.fin THEN "CLOSE_WAIT"
         ELSE IF tcp = "SYN_RCVD" THEN "ESTABLISHED" ELSE tcp
    [] tcp = "FIN_WAIT_1" ->
         IF seg.fin THEN (IF AllAcked THEN "TIME_WAIT" ELSE "CLOSING")
         ELSE IF AllAcked THEN "FIN_WAIT_2" ELSE "FIN_WAIT_1"
    [] tcp = "FIN_WAIT_2" -> IF seg.fin THEN "TIME_WAIT" ELSE "FIN_WAIT_2"
    [] tcp = "CLOSING" -> IF AllAcked THEN "TIME_WAIT" ELSE "CLOSING"
    [] OTHER -> tcp

\* tcp_receive takes the acknowledgement and the in-order data, and the state
\* machine decides which events tcp_input raises.  A FIN that comes with data
\* travels with it in cur, so that it is raised (or refused) after it.  SENT is
\* raised for acknowledged data only: recv_acked adds up segment lengths, and a
\* FIN has none.
tcpReceive ==
  /\ sndq' = IF seg.ack > sndq THEN 0 ELSE sndq - seg.ack
  /\ finOut' = (finOut /\ ~AllAcked)
  /\ tcp' = NextTcp
  /\ rcvNxt' = IF seg.data THEN rcvNxt + 1 ELSE rcvNxt
  /\ gotFin' = (gotFin \/ seg.fin)
  /\ cur' = IF seg.data THEN [n |-> rcvNxt + 1, fin |-> seg.fin] ELSE NoData
  /\ seg' = NoSegment
  /\ Return((IF seg.ack > 0 /\ sndq > 0 THEN {"sent"} ELSE {})
            \cup (IF tcp = "LAST_ACK" /\ AllAcked THEN {"closed"} ELSE {})
            \cup (IF seg.data THEN {"data"} ELSE {})
            \cup (IF seg.fin /\ ~seg.data THEN {"fin"} ELSE {}))
  /\ UNCHANGED <<rxClosed, refused, closePend, upRead, credit>>

\* Faults: a lone FIN, or any segment, is let past data that is still refused.
FullForDataOnly == refused # NoData /\ seg.data
FullNever == FALSE

\* Refused data is still refused and the segment carries data or a FIN.
Full == refused # NoData /\ (seg.data \/ seg.fin)

SegmentDropped ==
  /\ Turn("segment") /\ Full
  /\ Return({}) /\ seg' = NoSegment
  /\ UNCHANGED <<connVars, pcbVars, cur, procVars, peerVars, faults>>

\* TF_RESET: the err callback runs and the pcb is deallocated.
SegmentReset ==
  /\ Turn("segment") /\ seg.rst
  /\ tcpAbort
  /\ Return({}) /\ seg' = NoSegment
  /\ UNCHANGED <<cur, peerVars>>

\* SYN_RCVD with the listener still there: tcpAcceptFn and newTCPConn.
SegmentAccept ==
  /\ Turn("segment") /\ ~seg.rst /\ tcp = "SYN_RCVD" /\ pc["stop"] # "done"
  /\ state' = "connecting" /\ inMap' = TRUE /\ keyArg' = "valid"
  /\ cbs' = TRUE
  /\ Goto("dial", "dialing")
  /\ tcpReceive
  /\ UNCHANGED <<pipeDone, once, left, target, sent, faults>>

\* The listener was closed before the handshake ended: tcp_abort.
SegmentUnlistened ==
  /\ Turn("segment") /\ ~seg.rst /\ tcp = "SYN_RCVD" /\ pc["stop"] = "done"
  /\ tcpAbort
  /\ Return({}) /\ seg' = NoSegment
  /\ UNCHANGED <<cur, peerVars>>

SegmentProcess ==
  /\ Turn("segment") /\ ~seg.rst /\ ~Full /\ tcp # "SYN_RCVD"
  /\ tcpReceive
  /\ UNCHANGED <<connVars, cbs, procVars, faults>>

------------------------------------------------------------------------------
(* Events raised on the pcb *)

\* The recv callback returned ERR_OK: a FIN that came with the data is next.
DataTaken(rest) == rest \cup (IF cur.fin THEN {"fin"} ELSE {})

\* tcp_fasttmr clears TF_CLOSEPEND and tries to queue the FIN once more.
RaisePending ==
  /\ Turn("pending")
  /\ sendFin(FALSE)
  /\ Return(todo \ {"pending"})
  /\ UNCHANGED <<connVars, cbs, rxClosed, refused, sndq, cur, seg, procVars,
                 peerVars, faults>>

\* tcp_process_refused_data hands the stored data to the recv callback again.
RaiseRefused ==
  /\ Turn("refused")
  /\ cur' = refused /\ refused' = NoData
  /\ Call("recv", todo \ {"refused"})
  /\ UNCHANGED <<connVars, tcp, cbs, rxClosed, sndq, finOut, closePend, seg,
                 procVars, peerVars, faults>>

\* tcp_input: data for a receive side already shut down aborts the pcb.
RaiseData ==
  /\ Turn("data")
  /\ IF rxClosed
       THEN tcpAbort /\ Return({}) /\ cur' = NoData
       ELSE Call("recv", todo \ {"data"})
            /\ UNCHANGED <<connVars, pcbVars, cur, procVars, faults>>
  /\ UNCHANGED <<seg, peerVars>>

\* tcpRecvFn with data, up to the end of receiveCheck.
RecvFn ==
  /\ at = "recv"
  /\ CASE cbs /\ ~inMap ->  \* unknown key: tcp_abort
            tcpAbort /\ Return({}) /\ cur' = NoData
       [] Found /\ state \in Receivable ->  \* sndPipeWriter.Write begins
            Call("pipe", todo)
            /\ UNCHANGED <<connVars, pcbVars, cur, procVars, faults>>
       [] Found /\ state \in NotReady ->  \* ERR_CONN: lwIP keeps the pbuf
            /\ refused' = cur /\ cur' = NoData
            /\ Return(todo)
            /\ UNCHANGED <<connVars, tcp, cbs, rxClosed, sndq, finOut, closePend,
                           procVars, faults>>
       [] Found /\ state \notin Receivable \cup NotReady ->  \* ERR_CLSD
            /\ rxClosed' = TRUE /\ refused' = NoData /\ cur' = NoData
            /\ Return(DataTaken(todo))
            /\ UNCHANGED <<connVars, tcp, cbs, sndq, finOut, closePend, procVars,
                           faults>>
       [] ~cbs ->  \* tcp_recv_null
            /\ cur' = NoData
            /\ Return(DataTaken(todo))
            /\ UNCHANGED <<connVars, pcbVars, procVars, faults>>
  /\ UNCHANGED <<seg, peerVars>>

\* The handler's Read takes what the lwIP thread offers; tcp_recved follows.
PipeTransfer ==
  /\ at = "pipe" /\ At("up", "piping")
  /\ upRead' = cur.n
  /\ Goto("up", "send")
  /\ cur' = NoData /\ Return(DataTaken(todo))
  /\ UNCHANGED <<connVars, pcbVars, seg, left, target, sent, rcvNxt, gotFin,
                 credit, faults>>

\* sndPipeWriter.Write fails: ERR_CLSD, tcpRecvFn shuts the receive side down.
PipeClosed ==
  /\ at = "pipe" /\ pipeDone
  /\ rxClosed' = TRUE /\ refused' = NoData
  /\ cur' = NoData /\ Return(DataTaken(todo))
  /\ UNCHANGED <<connVars, tcp, cbs, sndq, finOut, closePend, seg, procVars,
                 peerVars, faults>>

\* Fault: the FIN that completes the close is taken for a first one.
setLocalClosedHalf ==
  IF state \in GeClosing \cup {"receiveClosed"}
    THEN UNCHANGED <<state, pipeDone, pc>>
    ELSE pipeDone' = TRUE /\ state' = "receiveClosed" /\ pc' = Woken(pc)

\* tcpRecvFn with a NULL pbuf: setLocalClosed, then checkState.
setLocalClosed ==
  IF state \in GeClosing \cup {"receiveClosed"}
    THEN UNCHANGED <<state, pipeDone, pc>>
    ELSE /\ pipeDone' = TRUE
         /\ state' = IF state = "writeClosed" THEN "closing" ELSE "receiveClosed"
         /\ pc' = Woken(pc)

RaiseFin ==
  /\ Turn("fin")
  /\ IF ~cbs
       THEN Return(todo \ {"fin"}) /\ UNCHANGED <<connVars, pcbVars, procVars, faults>>
       ELSE IF ~inMap
         THEN tcpAbort /\ Return({})
         ELSE /\ setLocalClosed
              /\ Call("check", todo \ {"fin"})
              /\ UNCHANGED <<inMap, keyArg, once, pcbVars, left, target, sent, faults>>
  /\ UNCHANGED <<cur, seg, peerVars>>

\* tcpSentFn and tcpPollFn up to checkState.
NotifyFn(rest) ==
  IF ~cbs
    THEN Return(rest) /\ UNCHANGED <<connVars, pcbVars, procVars, faults>>
    ELSE IF ~inMap
      THEN tcpAbort /\ Return({})
      ELSE Call("check", rest) /\ UNCHANGED <<connVars, pcbVars, procVars, faults>>

RaiseSent ==
  /\ Turn("sent")
  /\ NotifyFn(todo \ {"sent"})
  /\ UNCHANGED <<cur, seg, peerVars>>

\* tcp_input_delayed_close after the last acknowledgement: the err callback is
\* left out for a pcb whose receive side was shut down, registered or not.
RaiseClosed ==
  /\ Turn("closed")
  /\ IF rxClosed THEN UNCHANGED <<connVars, procVars>> ELSE ErrFn
  /\ freePcb
  /\ Return({}) /\ cur' = NoData
  /\ UNCHANGED <<seg, peerVars, faults>>

\* checkState: isClosed and checkClosing.
checkClosing ==
  /\ at = "check"
  /\ CASE state = "closed" ->
            /\ Return(todo)
            /\ UNCHANGED <<connVars, pcbVars, cur, procVars, faults>>
       [] state = "closing" ->
            /\ closeInternal
            /\ Return(IF Unread THEN {} ELSE todo)
            /\ cur' = IF Unread THEN NoData ELSE cur
       [] OTHER ->
            /\ Call("abort", todo)
            /\ UNCHANGED <<connVars, pcbVars, cur, procVars, faults>>
  /\ UNCHANGED <<seg, peerVars>>

\* Fault: checkState ends without its Broadcast.
checkAbortingSilent ==
  /\ at = "abort"
  /\ IF state = "aborting"
       THEN abortInternal /\ Return({}) /\ cur' = NoData /\ seg' = NoSegment
       ELSE /\ Return(todo)
            /\ UNCHANGED <<connVars, pcbVars, cur, seg, procVars, faults>>
  /\ UNCHANGED peerVars

\* checkState: checkAborting, else the Broadcast at its end.
checkAborting ==
  /\ at = "abort"
  /\ IF state = "aborting"
       THEN abortInternal /\ Return({}) /\ cur' = NoData /\ seg' = NoSegment
       ELSE /\ pc' = Woken(pc)
            /\ Return(todo)
            /\ UNCHANGED <<connVars, pcbVars, cur, seg, left, target, sent, faults>>
  /\ UNCHANGED peerVars

\* tcp_slowtmr gives up on the pcb: too many retransmissions of what is queued,
\* FIN_WAIT_2 of a fully closed pcb, SYN_RCVD or LAST_ACK for too long.
Expired == \/ sndq > 0 \/ finOut
           \/ tcp = "FIN_WAIT_2" /\ rxClosed
           \/ tcp \in {"SYN_RCVD", "LAST_ACK"}

SlowRemove ==
  /\ Turn("slow") /\ tcp \in Active /\ Expired
  /\ tcpAbort /\ Return({})
  /\ UNCHANGED <<cur, seg, peerVars>>

SlowTimeWait ==
  /\ Turn("slow") /\ tcp = "TIME_WAIT"
  /\ freePcb /\ Return({})
  /\ UNCHANGED <<connVars, cur, seg, procVars, peerVars, faults>>

\* Fault: no poll callback is registered.
SlowPollUnset ==
  /\ Turn("slow") /\ tcp \in Active
  /\ Return({})
  /\ UNCHANGED <<connVars, pcbVars, cur, seg, procVars, peerVars, faults>>

SlowPoll ==
  /\ Turn("slow") /\ tcp \in Active
  /\ NotifyFn({})
  /\ UNCHANGED <<cur, seg, peerVars>>

\* polltmr has not reached pollinterval and nothing has expired.
SlowIdle ==
  /\ Turn("slow")
  /\ Return({})
  /\ UNCHANGED <<connVars, pcbVars, cur, seg, procVars, peerVars, faults>>

------------------------------------------------------------------------------
(* Goroutines: conn.Close, shared by dial and by both relays *)

AfterClose(g) == CASE g = "dial" -> "abort" [] g = "up" -> "tclose" [] g = "down" -> "done"

\* Fault: Close forgets CloseRead.
CloseEnterWriteOnly(g) ==
  /\ At(g, "close") /\ once # "busy"
  /\ once' = IF once = "new" THEN "busy" ELSE once
  /\ Goto(g, IF once = "new" THEN "closeW" ELSE AfterClose(g))
  /\ UNCHANGED <<state, inMap, keyArg, pipeDone, pcbVars, lockVars, left, target,
                 sent, peerVars, faults>>

\* closeOnce.Do(conn.close): CloseRead, then CloseWrite.  A second caller waits
\* for the first one to return.
CloseEnter(g) ==
  /\ At(g, "close") /\ once # "busy"
  /\ once' = IF once = "new" THEN "busy" ELSE once
  /\ pipeDone' = TRUE
  /\ Goto(g, IF once = "new" THEN "closeW" ELSE AfterClose(g))
  /\ UNCHANGED <<state, inMap, keyArg, pcbVars, lockVars, left, target, sent,
                 peerVars, faults>>

\* CloseWrite, under conn.Mutex.
CloseWrite(g) ==
  /\ At(g, "closeW")
  /\ IF state \in GeClosing \cup {"writeClosed"}
       THEN once' = "done" /\ Goto(g, AfterClose(g)) /\ UNCHANGED state
       ELSE /\ state' = IF state = "receiveClosed" THEN "closing" ELSE "writeClosed"
            /\ Goto(g, "shut") /\ UNCHANGED once
  /\ UNCHANGED <<inMap, keyArg, pipeDone, pcbVars, lockVars, left, target, sent,
                 peerVars, faults>>

\* CloseWrite, under lwipMutex: tcp_shutdown(pcb, 0, 1).  The pcb may have been
\* deallocated since conn.Mutex was released; tcp_pcb_remove left it CLOSED.
CloseWriteShut(g) ==
  /\ At(g, "shut") /\ holder = "none"
  /\ IF tcp \in {"SYN_RCVD", "ESTABLISHED", "CLOSE_WAIT"} THEN sendFin(closePend)
     ELSE UNCHANGED <<tcp, finOut, closePend>>
  /\ faults' = IF tcp = "FREED" THEN faults \cup {"freed_pcb"} ELSE faults
  /\ once' = "done"
  /\ Goto(g, AfterClose(g))
  /\ UNCHANGED <<state, inMap, keyArg, pipeDone, cbs, rxClosed, refused, sndq,
                 lockVars, left, target, sent, peerVars>>

(* Abort, called by dial when Handle fails and by lwipStack.Close *)

AfterAbort(g) == IF g = "stop" THEN "unlisten" ELSE "done"

Abort(g) ==
  /\ At(g, "abort")
  /\ state' = IF state \in GeAborting THEN state ELSE "aborting"
  /\ Goto(g, "abortL")
  /\ UNCHANGED <<inMap, keyArg, pipeDone, once, pcbVars, lockVars, left, target,
                 sent, peerVars, faults>>

AbortCheck(g) ==
  /\ At(g, "abortL")
  /\ Lock(g, "check", {})
  /\ Goto(g, AfterAbort(g))
  /\ UNCHANGED <<connVars, pcbVars, cur, seg, left, target, sent, peerVars, faults>>

(* dial: Handle connects to the target, then newTCPConn's goroutine goes on *)

DialFails ==
  /\ At("dial", "dialing") /\ Goto("dial", "close")
  /\ UNCHANGED <<connVars, pcbVars, lockVars, left, target, sent, peerVars, faults>>

DialSucceeds ==
  /\ At("dial", "dialing")
  /\ pc' = [pc EXCEPT !["dial"] = "connect", !["up"] = "read", !["down"] = "tread"]
  /\ target' = TRUE
  /\ UNCHANGED <<connVars, pcbVars, lockVars, left, sent, peerVars, faults>>

\* Fault: the state is not looked at again after the dial.
ConnectedUnchecked ==
  /\ At("dial", "connect")
  /\ state' = "connected" /\ Goto("dial", "flush")
  /\ UNCHANGED <<inMap, keyArg, pipeDone, once, pcbVars, lockVars, left, target,
                 sent, peerVars, faults>>

Connected ==
  /\ At("dial", "connect")
  /\ IF state # "connecting"
       THEN Goto("dial", "done") /\ UNCHANGED state
       ELSE state' = "connected" /\ Goto("dial", "flush")
  /\ UNCHANGED <<inMap, keyArg, pipeDone, once, pcbVars, lockVars, left, target,
                 sent, peerVars, faults>>

\* pcb.refused_data is read under lwipMutex, on a pcb that may be gone.
Flush ==
  /\ At("dial", "flush") /\ holder = "none"
  /\ Goto("dial", "done")
  /\ faults' = IF tcp = "FREED" THEN faults \cup {"freed_pcb"} ELSE faults
  /\ IF refused # NoData THEN Lock("dial", "next", {"refused"})
     ELSE UNCHANGED <<holder, at, todo>>
  /\ UNCHANGED <<connVars, pcbVars, cur, seg, left, target, sent, peerVars>>

(* up: io.CopyBuffer(target, conn), then conn.Close and target.Close *)

\* conn.Read's look at the state.
UpRead ==
  /\ At("up", "read")
  /\ Goto("up", IF state \in GeClosing \cup {"receiveClosed"} THEN "close" ELSE "piping")
  /\ UNCHANGED <<connVars, pcbVars, lockVars, left, target, sent, peerVars, faults>>

\* sndPipeReader.Read on a closed pipe: EOF.
UpEOF ==
  /\ At("up", "piping") /\ pipeDone
  /\ Goto("up", "close")
  /\ UNCHANGED <<connVars, pcbVars, lockVars, left, target, sent, peerVars, faults>>

\* target.Write succeeds, or fails (it must once the target is closed).
UpSend ==
  /\ At("up", "send")
  /\ \E l \in (IF target THEN {"read", "close"} ELSE {"close"}) : Goto("up", l)
  /\ UNCHANGED <<connVars, pcbVars, lockVars, left, target, sent, peerVars, faults>>

TargetClose(g) ==
  /\ At(g, "tclose")
  /\ target' = FALSE
  /\ Goto(g, IF g = "up" THEN "done" ELSE "close")
  /\ UNCHANGED <<connVars, pcbVars, lockVars, left, sent, peerVars, faults>>

(* down: io.CopyBuffer(conn, target), then target.Close and conn.Close *)

DownData ==
  /\ At("down", "tread") /\ target
  /\ \E k \in 1..MaxDown :
       /\ sent + k <= MaxDown
       /\ sent' = sent + k /\ left' = k
  /\ Goto("down", "check")
  /\ UNCHANGED <<connVars, pcbVars, lockVars, target, peerVars, faults>>

\* The target's EOF or an error, or the other relay closed the target.
DownEOF ==
  /\ At("down", "tread")
  /\ Goto("down", "tclose")
  /\ UNCHANGED <<connVars, pcbVars, lockVars, left, target, sent, peerVars, faults>>

\* conn.Write's writeCheck, canWrite.L held.
DownCheck ==
  /\ At("down", "check")
  /\ Goto("down", IF state \in Writable THEN "lwrite" ELSE "tclose")
  /\ left' = IF state \in Writable THEN left ELSE 0
  /\ UNCHANGED <<connVars, pcbVars, lockVars, target, sent, peerVars, faults>>

\* Fault: the units already queued are forgotten.
RoomIgnoresQueue == SndBuf

\* What conn.Write may still enqueue.
Room == SndBuf - sndq

\* conn.Write under lwipMutex: n units enqueued, ERR_MEM (n = 0), or an error
\* because the pcb no longer sends.
DownWritten(n) ==
  /\ left' = left - n
  /\ Goto("down", IF n = left THEN "tread" ELSE "park")

DownFails == left' = 0 /\ Goto("down", "tclose")

DownWrite ==
  /\ At("down", "lwrite") /\ holder = "none" /\ tcp # "FREED"
  /\ LET n == IF left > Room THEN Room ELSE left
     IN IF n > 0 /\ tcp \notin {"ESTABLISHED", "CLOSE_WAIT"}
          THEN DownFails /\ UNCHANGED sndq
          ELSE \E m \in {0, n} : DownWritten(m) /\ sndq' = sndq + m
  /\ UNCHANGED <<connVars, tcp, cbs, rxClosed, refused, finOut, closePend, lockVars,
                 target, sent, peerVars, faults>>

\* The same on a pcb deallocated after writeCheck: snd_buf and state are stale,
\* so the call may seem to succeed, find no room, or fail.
DownWriteStale ==
  /\ At("down", "lwrite") /\ holder = "none" /\ tcp = "FREED"
  /\ faults' = faults \cup {"freed_pcb"}
  /\ DownWritten(left) \/ DownWritten(0) \/ DownFails
  /\ UNCHANGED <<connVars, pcbVars, lockVars, target, sent, peerVars>>

\* canWrite.Wait puts the writer on the notify list; a Broadcast issued between
\* the unlock of lwipMutex and this step is missed.
DownWait ==
  /\ At("down", "park") /\ Goto("down", "wait")
  /\ UNCHANGED <<connVars, pcbVars, lockVars, left, target, sent, peerVars, faults>>

(* stop: lwipStack.Close *)

StackClose ==
  /\ Stops /\ At("stop", "idle") /\ Goto("stop", "range")
  /\ UNCHANGED <<connVars, pcbVars, lockVars, left, target, sent, peerVars, faults>>

\* tcpConns.Range meets this connection if it is registered by now.
StackRange ==
  /\ At("stop", "range")
  /\ Goto("stop", IF inMap THEN "abort" ELSE "unlisten")
  /\ UNCHANGED <<connVars, pcbVars, lockVars, left, target, sent, peerVars, faults>>

\* The listening pcb is closed, and with it every pcb's listener pointer.
StackUnlisten ==
  /\ At("stop", "unlisten") /\ holder = "none"
  /\ Goto("stop", "done")
  /\ UNCHANGED <<connVars, pcbVars, lockVars, left, target, sent, peerVars, faults>>

------------------------------------------------------------------------------
Init ==
  /\ state = "new" /\ inMap = FALSE /\ keyArg = "none" /\ pipeDone = FALSE
  /\ once = "new"
  /\ tcp = "SYN_RCVD" /\ cbs = FALSE /\ rxClosed = FALSE /\ refused = NoData
  /\ sndq = 0 /\ finOut = FALSE /\ closePend = FALSE
  /\ holder = "none" /\ at = "next" /\ todo = {} /\ cur = NoData /\ seg = NoSegment
  /\ pc = [g \in Goroutines |-> "idle"] /\ left = 0 /\ target = FALSE /\ sent = 0
  /\ rcvNxt = 0 /\ gotFin = FALSE /\ upRead = 0 /\ credit = {"input", "tick"}
  /\ faults = {}

\* Steps of the goroutine that owns lwipMutex, other than the pipe hand-over.
Callback ==
  \/ SegmentDropped \/ SegmentReset \/ SegmentAccept \/ SegmentUnlistened
  \/ SegmentProcess
  \/ RaisePending \/ RaiseRefused \/ RaiseData \/ RecvFn \/ PipeClosed
  \/ RaiseFin \/ RaiseSent \/ RaiseClosed
  \/ checkClosing \/ checkAborting
  \/ SlowRemove \/ SlowTimeWait \/ SlowPoll \/ SlowIdle

Closers == {"dial", "up", "down"}

Close(g) == CloseEnter(g) \/ CloseWrite(g) \/ CloseWriteShut(g)
Aborts(g) == Abort(g) \/ AbortCheck(g)
Dial == DialFails \/ DialSucceeds \/ Connected \/ Flush
Up == UpRead \/ UpEOF \/ UpSend \/ TargetClose("up")
Down == \/ DownData \/ DownEOF \/ DownCheck \/ DownWrite \/ DownWriteStale
        \/ DownWait \/ TargetClose("down")
Stop == StackClose \/ StackRange \/ StackUnlisten

Next ==
  \/ Input \/ Tick \/ Callback \/ PipeTransfer
  \/ \E g \in Closers : Close(g)
  \/ \E g \in {"dial", "stop"} : Aborts(g)
  \/ Dial \/ Up \/ Down \/ Stop

Spec == Init /\ [][Next]_vars

------------------------------------------------------------------------------
(* Safety *)

ConnTypeOK ==
  /\ state \in States /\ inMap \in BOOLEAN /\ keyArg \in {"none", "valid", "freed"}
  /\ pipeDone \in BOOLEAN /\ once \in {"new", "busy", "done"}
PcbTypeOK ==
  /\ tcp \in TcpStates /\ cbs \in BOOLEAN /\ rxClosed \in BOOLEAN
  /\ refused \in Data /\ sndq \in 0..SndBuf /\ finOut \in BOOLEAN
  /\ closePend \in BOOLEAN
LockTypeOK ==
  /\ holder \in Owners /\ at \in Places /\ todo \subseteq Events
  /\ cur \in Data /\ seg \in Segment
ProcTypeOK ==
  /\ pc \in [Goroutines -> Locations] /\ left \in 0..MaxDown
  /\ target \in BOOLEAN /\ sent \in 0..MaxDown
PeerTypeOK ==
  /\ rcvNxt \in 0..MaxUp /\ gotFin \in BOOLEAN /\ upRead \in 0..MaxUp
  /\ credit \subseteq {"input", "tick"} /\ faults \subseteq Faults

\* Every variable keeps its type; in particular conn.Write never queues more
\* than pcb.snd_buf has room for.
TypeOK == ConnTypeOK /\ PcbTypeOK /\ LockTypeOK /\ ProcTypeOK /\ PeerTypeOK

\* lwIP ended the connection without a callback: both directions were closed,
\* the receive side shut down for data nobody would read, and the acknowledgement
\* of our FIN freed the pcb (tcp_input_delayed_close) before a poll released the
\* connection.
Orphaned ==
  /\ tcp = "FREED" /\ rxClosed /\ gotFin
  /\ state \in {"closing", "aborting"}

\* A connection is in tcpConns exactly as long as it is neither closed nor in
\* error, and exactly as long its key memory is allocated, so release runs once;
\* lwIP has callbacks only for a registered connection, so a callback never misses
\* its connection (tcp_abort on an unknown key), never meets a closed one
\* (checkState would return nil and the callback's type assertion panic) and
\* never reads a dead key; and a registered connection has its pcb and its
\* callbacks, with the one exception of an orphaned one.
Registration ==
  /\ inMap <=> state \notin {"new", "closed", "errored"}
  /\ inMap <=> keyArg = "valid"
  /\ cbs => inMap /\ tcp # "FREED"
  /\ inMap => cbs \/ Orphaned

\* The handler learns of the client's FIN only when every segment acknowledged
\* to the client has been read, or been dropped because the handler closed its
\* side; so the tcp_close that follows never turns into a reset for unread data.
FinAfterData ==
  state \in {"receiveClosed", "closing"} =>
    /\ refused = NoData /\ cur = NoData
    /\ upRead = rcvNxt \/ rxClosed

\* Data is dropped on a connection that is still registered only after the
\* handler called Close, or when the connection is being aborted.
NoSilentDiscard ==
  rxClosed /\ inMap => once # "new" \/ state = "aborting"

\* A pcb in TIME_WAIT is polled by no timer, and one in CLOSING only waits to
\* get there: when lwIP is not running, no registered connection is in these
\* states, or nothing would ever release it.
NoOrphanInTimeWait ==
  inMap /\ holder = "none" => tcp \notin {"TIME_WAIT", "CLOSING"}

\* The handler reads the client's segments in order, each one once, whatever
\* was refused while the target was being dialled.
OrderedDelivery == [][upRead' # upRead => upRead' = upRead + 1]_upRead

\* The connection implements the abstract life cycle.
Phase == IF inMap THEN "open" ELSE IF state = "new" THEN "new" ELSE "gone"
ReadOpen == state \in NotReady \cup Receivable
WriteOpen == state \in Writable \cup {"new"}

Lifecycle == INSTANCE ConnLifecycle
  WITH phase <- Phase, rd <- ReadOpen, wr <- WriteOpen, mem <- keyArg

\* A direction once closed never reopens (newTCPConn's goroutine must not undo a
\* FIN or a Close that came while it was dialling), the orderly end needs both
\* directions closed, and the key memory is allocated and freed exactly once.
ImplementsLifecycle == Lifecycle!Spec

------------------------------------------------------------------------------
(* Liveness.  The Go scheduler runs every goroutine that can run, and         *)
(* sync.Mutex hands itself to a waiter that starves, so a goroutine that can  *)
(* go on again and again, when lwipMutex is free, does: strong fairness.  The *)
(* timer goroutine ticks until it is cancelled and tcp_slowtmr polls every    *)
(* eighth time.  Nothing is assumed of the client, of the target or of the    *)
(* dial, except that I/O on a target this program has closed fails.           *)

SlowTick == Tick /\ "slow" \in todo'

DialStep == Close("dial") \/ Aborts("dial") \/ Connected \/ Flush
UpStep   == Close("up") \/ UpRead \/ UpEOF \/ TargetClose("up")
            \/ (~target /\ UpSend)
DownStep == Close("down") \/ DownCheck \/ DownWrite \/ DownWriteStale
            \/ DownWait \/ TargetClose("down") \/ (~target /\ DownEOF)
StopStep == Aborts("stop") \/ StackRange \/ StackUnlisten

Fairness ==
  /\ WF_vars(Callback \/ PipeTransfer)
  /\ SF_vars(SlowTick) /\ SF_vars(SlowPoll)
  /\ SF_vars(DialStep) /\ SF_vars(UpStep) /\ SF_vars(DownStep) /\ SF_vars(StopStep)

FairSpec == Spec /\ Fairness

Running == pc["stop"] = "idle"

\* The lwIP thread, asleep in sndPipeWriter.Write with lwipMutex held, is woken
\* by the handler's Read or by its Close, unless the handler itself is waiting
\* for the target to take the data read before.
LwipThreadUnblocks == at = "pipe" ~> at # "pipe" \/ pc["up"] = "send"

\* A connection closed in both directions, or aborted, is released: if no
\* acknowledgement comes, the poll timer does it, also when our FIN finds no
\* memory; only the acknowledgement that orphans it can keep it registered.
ClosedIsReleased ==
  state \in {"closing", "aborting"} ~> ~inMap \/ Orphaned \/ ~Running

\* Data refused during the dial is handed over once the dial is over, also when
\* the goroutine that dials does not do it because the state moved on.
RefusedIsRetried ==
  refused # NoData /\ state \notin NotReady ~> refused = NoData \/ ~Running

\* A writer that missed the Broadcast of the acknowledgement it waits for is
\* woken by a later poll, as long as the connection is registered with lwIP.
WriterIsWoken ==
  pc["down"] = "wait" ~> pc["down"] # "wait" \/ ~cbs \/ ~Running

------------------------------------------------------------------------------
(* Statements of the repository that the code does not keep *)

\* tcp_conn_map.go: the C memory is what makes the key usable in subsequent
\* callbacks, e.g. tcp_err(), and is freed after the connection ended.
KeyUsableInCallbacks == "freed_arg" \notin faults

\* tcp_conn.go, Abort: once the state says so the pcb was already freed, and
\* must not be used.
PcbNotUsedAfterFree == "freed_pcb" \notin faults

\* tcp_conn.go, tcpClosing: both sides are closed, and "resources deallocation will
\* be triggered at any time in lwIP callbacks"; so while the stack runs the
\* connection is released in the end.
ClosingIsDeallocated ==
  state = "closing" ~> ~inMap \/ ~Running

\* lwip.go, Close: existing connections will be closed.
StopClosesConnections == pc["stop"] = "done" => ~inMap

\* tcp_conn.go: a closed connection has freed its resources, and Broadcast
\* signals the writer to try again; so a Write that waits for buffer space when
\* the connection is closed must return, also if it never touched a freed pcb.
WriterReturns ==
  pc["down"] = "wait" /\ state = "closed" /\ "freed_pcb" \notin faults
    ~> pc["down"] # "wait"
==============================================================================
