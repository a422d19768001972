---------------------------- MODULE TcpConnProofs ----------------------------
(***************************************************************************)
(* Proofs about TcpConn for every number of segments, every amount of data *)
(* and every size of the send buffer.                                      *)
(*                                                                         *)
(* Registration is not inductive: lwIP frees a pcb without a callback in   *)
(* two places.  tcp_slowtmr drops a TIME_WAIT pcb, so the connection must  *)
(* be gone by then, which rests on the FIN that led to TIME_WAIT being     *)
(* always followed by its callback.  The last acknowledgement drops a pcb  *)
(* whose receive side is shut down, so a connection still registered must  *)
(* be closed in both directions by then: only such a one is orphaned.      *)
(***************************************************************************)
EXTENDS TcpConn, TLAPS

\* States in which the handler has closed its side or the connection ended.
Shutting == {"writeClosed", "closing", "aborting"}
FinSent == {"FIN_WAIT_1", "FIN_WAIT_2", "CLOSING", "LAST_ACK", "TIME_WAIT"}

\* Nothing is pending when lwipMutex is free.
LockInv == holder = "none" => todo = {} /\ at = "next"

\* Data is in hand only between tcp_receive, or the retry, and its delivery.
CurInv == cur # NoData => "data" \in todo \/ at \in {"recv", "pipe"}

\* The retry of refused data comes before new data is taken.
RetryInv ==
  "refused" \in todo => cur = NoData /\ at = "next" /\ "data" \notin todo

\* No data is refused while other data is in hand, and data is offered on the
\* pipe only to a connection that was ready for it.
HandInv ==
  /\ "data" \in todo \/ at \in {"recv", "pipe"} => refused = NoData
  /\ at \in {"recv", "pipe"} => "data" \notin todo
  /\ at = "pipe" => state \notin NotReady

\* A segment under way still fits.
SegInv == seg.data => rcvNxt < MaxUp

\* Before it is accepted, nobody works on the connection.
NewInv ==
  state = "new" =>
    /\ \A g \in Closers : pc[g] = "idle"
    /\ pc["stop"] \notin {"abort", "abortL"}

\* lwIP has sent our FIN only if the handler closed its side.
ShutInv == \A g \in Closers : pc[g] = "shut" => state \in Shutting \cup {"closed", "errored"}
FinSentInv == inMap /\ tcp \in FinSent => state \in Shutting

\* The FIN that took the pcb to CLOSING or TIME_WAIT is on its way to the
\* connection, with its callback not yet run or not yet finished.
FinPending ==
  \/ "fin" \in todo
  \/ cur.fin /\ ("data" \in todo \/ at \in {"recv", "pipe"})
  \/ at = "check" /\ state \in {"closing", "aborting"}
  \/ at = "abort" /\ state = "aborting"

FinPendingInv == inMap /\ tcp \in {"CLOSING", "TIME_WAIT"} => FinPending

\* The peer's FIN has been accepted in these states, and a segment under way
\* repeats nothing.
GotFinInv ==
  /\ tcp \in {"CLOSE_WAIT", "LAST_ACK", "CLOSING", "TIME_WAIT"} => gotFin
  /\ gotFin => ~seg.data /\ ~seg.fin

\* Before the handshake ends the connection is new.
SynInv == tcp = "SYN_RCVD" => state = "new" /\ refused = NoData

\* A FIN accepted from the client is known to the connection or kept for it.
EofInv ==
  inMap /\ tcp \in {"CLOSE_WAIT", "LAST_ACK"} =>
    \/ state \in {"receiveClosed", "closing", "aborting"}
    \/ "fin" \in todo \/ cur.fin \/ refused.fin

\* Once the receive side is shut down, nothing is kept for a later retry.
RxInv == rxClosed => state \notin NotReady /\ (inMap => refused = NoData)

\* The last acknowledgement comes alone or with that of data: no FIN and no data
\* is under way any more when the pcb is closed.
ClosedInv ==
  "closed" \in todo =>
    /\ tcp = "LAST_ACK" /\ todo \subseteq {"sent", "closed"} /\ cur = NoData
    /\ at \in {"next", "check", "abort"}

\* A FIN waits for memory only after the handler closed its side, and the timer
\* retries only such a one.
PendInv ==
  /\ closePend => state \in Shutting \cup {"closed", "errored"}
  /\ "pending" \in todo => closePend

\* Only the last acknowledgement of a closing pcb leaves it without a FIN out.
FinOutInv ==  tcp = "LAST_ACK" => finOut \/ "closed" \in todo

\* How the lock, the callbacks under way and the two FINs fit together.
Wiring ==
  /\ LockInv /\ CurInv /\ RetryInv /\ HandInv /\ SegInv
  /\ NewInv /\ ShutInv /\ SynInv /\ GotFinInv
  /\ FinSentInv /\ FinPendingInv /\ EofInv
  /\ RxInv /\ ClosedInv /\ FinOutInv /\ PendInv

\* The inductive invariant.
IInv == TypeOK /\ Registration /\ Wiring

------------------------------------------------------------------------------
(* Types of the pieces shared by several actions *)

\* The finite sets of names are enumerations, expanded everywhere.
USE DEF States, TcpStates, Active, Goroutines, Locations, Owners, Places,
  Events, Faults, GeClosing, GeAborting, Receivable, NotReady, Writable,
  Closers, Shutting, FinSent

\* The NULL pbuf is a value like any other.
LEMMA NoDataType == NoData \in Data /\ NoData.fin = FALSE
BY BoundsAssumption DEF NoData, Data

\* The empty segment carries nothing.
LEMMA NoSegmentType ==
  NoSegment \in Segment /\ NoSegment.data = FALSE /\ NoSegment.fin = FALSE
BY BoundsAssumption DEF NoSegment, Segment

\* Broadcast moves the writer only.
LEMMA WokenType ==
  ASSUME NEW p \in [Goroutines -> Locations]
  PROVE  Woken(p) \in [Goroutines -> Locations]
BY DEF Woken

\* A callback returns or goes on with events of the same kind.
LEMMA ReturnType ==
  ASSUME NEW rest \in SUBSET Events, LockTypeOK, Return(rest)
  PROVE  holder' \in Owners /\ at' \in Places /\ todo' \subseteq Events
BY DEF LockTypeOK, Return

\* A callback goes on at another place.
LEMMA CallType ==
  ASSUME NEW rest \in SUBSET Events, NEW place \in Places, LockTypeOK,
         Call(place, rest)
  PROVE  holder' \in Owners /\ at' \in Places /\ todo' \subseteq Events
BY DEF LockTypeOK, Call

\* A deallocated pcb is a pcb with nothing left in it.
LEMMA FreePcbType ==
  ASSUME PcbTypeOK, freePcb
  PROVE  PcbTypeOK'
<1>1. sndq' \in 0..SndBuf
  BY BoundsAssumption DEF freePcb
<1>2. refused' \in Data
  BY NoDataType DEF freePcb
<1>3. /\ tcp' \in TcpStates /\ cbs' \in BOOLEAN /\ finOut' \in BOOLEAN
      /\ closePend' \in BOOLEAN
  BY DEF freePcb
<1>4. rxClosed' \in BOOLEAN
  BY DEF freePcb, PcbTypeOK
<1> QED
  BY <1>1, <1>2, <1>3, <1>4 DEF PcbTypeOK

\* tcp_close resets or sends the FIN.
LEMMA TcpCloseType ==
  ASSUME PcbTypeOK, tcpClose
  PROVE  PcbTypeOK'
<1>1. sndq' \in 0..SndBuf
  BY BoundsAssumption DEF tcpClose, PcbTypeOK
<1>2. refused' \in Data
  BY NoDataType DEF tcpClose, PcbTypeOK
<1>3. tcp' \in TcpStates
  BY DEF tcpClose, PcbTypeOK, sendFin, FinState
<1>4. finOut' \in BOOLEAN /\ closePend' \in BOOLEAN
  BY DEF tcpClose, PcbTypeOK, sendFin
<1>5. cbs' \in BOOLEAN /\ rxClosed' \in BOOLEAN
  BY DEF tcpClose
<1> QED
  BY <1>1, <1>2, <1>3, <1>4, <1>5 DEF PcbTypeOK

\* The err callback.
LEMMA ErrFnType ==
  ASSUME ConnTypeOK, ProcTypeOK, ErrFn
  PROVE  ConnTypeOK' /\ ProcTypeOK'
<1>1. CASE Found
  <2>1. pc' \in [Goroutines -> Locations]
    BY <1>1, WokenType DEF ErrFn, ProcTypeOK
  <2>2. ConnTypeOK'
    BY <1>1 DEF ErrFn, release, ConnTypeOK
  <2> QED
    BY <1>1, <2>1, <2>2 DEF ErrFn, ProcTypeOK
<1>2. CASE ~Found
  BY <1>2 DEF ErrFn, ConnTypeOK, ProcTypeOK, connVars, procVars
<1> QED
  BY <1>1, <1>2

\* lwIP drops the pcb.
LEMMA TcpAbortType ==
  ASSUME TypeOK, tcpAbort
  PROVE  ConnTypeOK' /\ PcbTypeOK' /\ ProcTypeOK' /\ faults' = faults
BY FreePcbType, ErrFnType DEF TypeOK, tcpAbort

------------------------------------------------------------------------------
(* One lemma per action: each preserves the inductive invariant *)

USE BoundsAssumption, NoDataType, NoSegmentType, WokenType DEF IInv, TypeOK,
  ConnTypeOK, PcbTypeOK, LockTypeOK, ProcTypeOK, PeerTypeOK, Registration,
  Orphaned, Wiring, LockInv, CurInv, RetryInv, HandInv, SegInv, NewInv, ShutInv,
  FinSentInv, FinPendingInv, GotFinInv, SynInv, EofInv, RxInv, ClosedInv,
  FinOutInv, FinPending, PendInv
USE DEF Data, NoData, Segment, NoSegment, connVars, pcbVars, lockVars,
  procVars, peerVars

\* A packet enters lwIP: only the lock and the events to raise change.
LEMMA InputStep ==
  ASSUME IInv, Input
  PROVE  IInv'
BY DEF Input, Admitted, Spend, ClientMaySend, Lock

\* The timer goroutine takes the lock.
LEMMA TickStep ==
  ASSUME IInv, Tick
  PROVE  IInv'
BY DEF Tick, Admitted, Spend, Lock

\* A segment dropped because refused data is still kept.
LEMMA SegmentDroppedStep ==
  ASSUME IInv, SegmentDropped
  PROVE  IInv'
BY DEF SegmentDropped, Turn, Full, Return, Before

\* A reset frees the pcb and, through tcpErrFn, the connection with it.
LEMMA SegmentResetStep ==
  ASSUME IInv, SegmentReset
  PROVE  IInv'
<1>1. ConnTypeOK'
  BY TcpAbortType DEF SegmentReset
<1>2. PcbTypeOK'
  BY TcpAbortType DEF SegmentReset
<1>3. LockTypeOK'
  BY DEF SegmentReset, Turn, tcpAbort, Return, Before, freePcb, ErrFn, Found,
    release, Woken
<1>4. ProcTypeOK'
  BY TcpAbortType DEF SegmentReset
<1>5. PeerTypeOK'
  BY DEF SegmentReset, Turn, tcpAbort, Return, Before, freePcb, ErrFn, Found,
    release, Woken
<1>6. Registration'
  BY DEF SegmentReset, Turn, tcpAbort, Return, Before, freePcb, ErrFn, Found,
    release, Woken
<1>7. Wiring'
  BY DEF SegmentReset, Turn, tcpAbort, Return, Before, freePcb, ErrFn, Found,
    release, Woken
<1> QED
  BY <1>1, <1>2, <1>3, <1>4, <1>5, <1>6, <1>7

\* tcpAcceptFn creates the map entry, the key and the callbacks together.
LEMMA SegmentAcceptStep ==
  ASSUME IInv, SegmentAccept
  PROVE  IInv'
<1>1. ConnTypeOK'
  BY DEF SegmentAccept, Turn, Goto, tcpReceive, Before, AllAcked, NextTcp,
    Return
<1>2. PcbTypeOK'
  BY DEF SegmentAccept, Turn, Goto, tcpReceive, Before, AllAcked, NextTcp,
    Return
<1>3. LockTypeOK'
  BY DEF SegmentAccept, Turn, Goto, tcpReceive, Before, AllAcked, NextTcp,
    Return
<1>4. ProcTypeOK'
  BY DEF SegmentAccept, Turn, Goto, tcpReceive, Before, AllAcked, NextTcp,
    Return
<1>5. PeerTypeOK'
  BY DEF SegmentAccept, Turn, Goto, tcpReceive, Before, AllAcked, NextTcp,
    Return
<1>6. Registration'
  BY DEF SegmentAccept, Turn, Goto, tcpReceive, Before, AllAcked, NextTcp,
    Return
<1>7. Wiring'
  BY DEF SegmentAccept, Turn, Goto, tcpReceive, Before, AllAcked, NextTcp,
    Return
<1> QED
  BY <1>1, <1>2, <1>3, <1>4, <1>5, <1>6, <1>7

\* Without a listener the pcb goes before a connection exists.
LEMMA SegmentUnlistenedStep ==
  ASSUME IInv, SegmentUnlistened
  PROVE  IInv'
<1>1. ConnTypeOK'
  BY TcpAbortType DEF SegmentUnlistened
<1>2. PcbTypeOK'
  BY TcpAbortType DEF SegmentUnlistened
<1>3. LockTypeOK'
  BY DEF SegmentUnlistened, Turn, tcpAbort, Return, Before, freePcb, ErrFn,
    Found, release, Woken
<1>4. ProcTypeOK'
  BY TcpAbortType DEF SegmentUnlistened
<1>5. PeerTypeOK'
  BY DEF SegmentUnlistened, Turn, tcpAbort, Return, Before, freePcb, ErrFn,
    Found, release, Woken
<1>6. Registration'
  BY DEF SegmentUnlistened, Turn, tcpAbort, Return, Before, freePcb, ErrFn,
    Found, release, Woken
<1>7. Wiring'
  BY DEF SegmentUnlistened, Turn, tcpAbort, Return, Before, freePcb, ErrFn,
    Found, release, Woken
<1> QED
  BY <1>1, <1>2, <1>3, <1>4, <1>5, <1>6, <1>7

\* A FIN that reaches CLOSING or TIME_WAIT is pending from this step on.
LEMMA SegmentProcessStep ==
  ASSUME IInv, SegmentProcess
  PROVE  IInv'
BY DEF SegmentProcess, Turn, Full, tcpReceive, Before, AllAcked, NextTcp,
  Return

\* The timer queues the FIN of a connection the handler has closed.
LEMMA RaisePendingStep ==
  ASSUME IInv, RaisePending
  PROVE  IInv'
<1>1. PcbTypeOK'
  BY DEF RaisePending, sendFin, FinState
<1>2. LockTypeOK'
  BY DEF RaisePending, Return
<1>3. Registration' /\ Wiring'
  BY DEF RaisePending, Turn, Before, sendFin, FinState, Return
<1>4. ConnTypeOK' /\ ProcTypeOK' /\ PeerTypeOK'
  BY DEF RaisePending
<1> QED
  BY <1>1, <1>2, <1>3, <1>4

\* The retry takes the refused data in hand, its FIN included.
LEMMA RaiseRefusedStep ==
  ASSUME IInv, RaiseRefused
  PROVE  IInv'
BY DEF RaiseRefused, Turn, Call, Before

\* Data on a shut-down receive side aborts the pcb and the connection.
LEMMA RaiseDataStep ==
  ASSUME IInv, RaiseData
  PROVE  IInv'
<1>1. CASE rxClosed
  <2>1. ConnTypeOK' /\ PcbTypeOK' /\ ProcTypeOK'
    BY <1>1, TcpAbortType DEF RaiseData
  <2>2. LockTypeOK'
    BY <1>1, ZenonT(60) DEF RaiseData, Return
  <2>3. PeerTypeOK'
    BY <1>1 DEF RaiseData, tcpAbort
  <2>4. Registration' /\ Wiring'
    BY <1>1 DEF RaiseData, Turn, Before, Return, tcpAbort, freePcb, ErrFn, Found,
      release, Woken
  <2> QED
    BY <2>1, <2>2, <2>3, <2>4
<1>2. CASE ~rxClosed
  BY <1>2 DEF RaiseData, Turn, Before, Call
<1> QED
  BY <1>1, <1>2

\* receiveCheck: the data, and its FIN, is offered, refused or dropped.
LEMMA RecvFnStep ==
  ASSUME IInv, RecvFn
  PROVE  IInv'
<1>1. cbs => inMap
  OBVIOUS
<1>2. CASE Found /\ state \in Receivable
  <2>1. /\ Call("pipe", todo)
        /\ UNCHANGED <<connVars, pcbVars, cur, seg, procVars, peerVars, faults>>
    BY <1>2 DEF RecvFn, Found
  <2> QED
    BY <1>2, <2>1 DEF RecvFn, Found, Call
<1>3. CASE Found /\ state \in NotReady
  <2>1. /\ refused' = cur /\ cur' = NoData /\ Return(todo)
        /\ UNCHANGED <<connVars, tcp, cbs, rxClosed, sndq, finOut, closePend, seg,
                       procVars, peerVars, faults>>
    BY <1>3 DEF RecvFn, Found
  <2> QED
    BY <1>3, <2>1 DEF RecvFn, Found, Return
<1>4. CASE Found /\ state \notin Receivable \cup NotReady
  <2>1. /\ rxClosed' = TRUE /\ refused' = NoData /\ cur' = NoData
        /\ Return(DataTaken(todo))
        /\ UNCHANGED <<connVars, tcp, cbs, sndq, finOut, closePend, seg, procVars,
                       peerVars, faults>>
    BY <1>4 DEF RecvFn, Found
  <2> QED
    BY <1>4, <2>1 DEF RecvFn, Found, Return, DataTaken
<1>5. CASE ~cbs
  <2>1. /\ cur' = NoData /\ Return(DataTaken(todo))
        /\ UNCHANGED <<connVars, pcbVars, seg, procVars, peerVars, faults>>
    BY <1>5, <1>1 DEF RecvFn, Found
  <2> QED
    BY <1>1, <1>5, <2>1 DEF RecvFn, Found, Return, DataTaken
<1> QED
  BY <1>1, <1>2, <1>3, <1>4, <1>5 DEF Found

\* The handler takes the data; its FIN is the next event.
LEMMA PipeTransferStep ==
  ASSUME IInv, PipeTransfer
  PROVE  IInv'
BY DEF PipeTransfer, At, Goto, Return, DataTaken

\* The handler closed its reader; the FIN is still raised.
LEMMA PipeClosedStep ==
  ASSUME IInv, PipeClosed
  PROVE  IInv'
<1>1. ConnTypeOK'
  BY DEF PipeClosed, Return, DataTaken
<1>2. PcbTypeOK'
  BY DEF PipeClosed, Return, DataTaken
<1>3. LockTypeOK'
  BY DEF PipeClosed, Return, DataTaken
<1>4. ProcTypeOK'
  BY DEF PipeClosed, Return, DataTaken
<1>5. PeerTypeOK'
  BY DEF PipeClosed, Return, DataTaken
<1>6. Registration'
  BY DEF PipeClosed, Return, DataTaken
<1>7. Wiring'
  BY DEF PipeClosed, Return, DataTaken
<1> QED
  BY <1>1, <1>2, <1>3, <1>4, <1>5, <1>6, <1>7

\* setLocalClosed moves a connection that sent its FIN to closing, so that the
\* checkState that follows releases it.
LEMMA RaiseFinStep ==
  ASSUME IInv, RaiseFin
  PROVE  IInv'
<1>1. ConnTypeOK'
  BY DEF RaiseFin, Turn, Return, tcpAbort, setLocalClosed, Call, Before,
    freePcb, ErrFn, Woken, Found, release
<1>2. PcbTypeOK'
  BY DEF RaiseFin, Turn, Return, tcpAbort, setLocalClosed, Call, Before,
    freePcb, ErrFn, Woken, Found, release
<1>3. LockTypeOK'
  BY DEF RaiseFin, Turn, Return, tcpAbort, setLocalClosed, Call, Before,
    freePcb, ErrFn, Woken, Found, release
<1>4. ProcTypeOK'
  BY DEF RaiseFin, Turn, Return, tcpAbort, setLocalClosed, Call, Before,
    freePcb, ErrFn, Woken, Found, release
<1>5. PeerTypeOK'
  BY DEF RaiseFin, Turn, Return, tcpAbort, setLocalClosed, Call, Before,
    freePcb, ErrFn, Woken, Found, release
<1>6. Registration'
  BY DEF RaiseFin, Turn, Return, tcpAbort, setLocalClosed, Call, Before,
    freePcb, ErrFn, Woken, Found, release
<1>7. Wiring'
  BY DEF RaiseFin, Turn, Return, tcpAbort, setLocalClosed, Call, Before,
    freePcb, ErrFn, Woken, Found, release
<1> QED
  BY <1>1, <1>2, <1>3, <1>4, <1>5, <1>6, <1>7

\* The sent callback leaves everything to checkState.
LEMMA RaiseSentStep ==
  ASSUME IInv, RaiseSent
  PROVE  IInv'
BY DEF RaiseSent, Turn, NotifyFn, Before, Return, tcpAbort, Call, freePcb,
  ErrFn, Found, release, Woken

\* The last acknowledgement ends the connection, or orphans it when tcp_input does
\* not raise an error for it: then both its directions are closed.
LEMMA RaiseClosedStep ==
  ASSUME IInv, RaiseClosed
  PROVE  IInv'
<1>1. ConnTypeOK'
  BY DEF RaiseClosed, Turn, ErrFn, freePcb, Return, Before, Found, release,
    Woken
<1>2. PcbTypeOK'
  BY FreePcbType DEF RaiseClosed
<1>3. LockTypeOK'
  BY DEF RaiseClosed, Turn, ErrFn, freePcb, Return, Before, Found, release,
    Woken
<1>4. ProcTypeOK'
  BY DEF RaiseClosed, Turn, ErrFn, freePcb, Return, Before, Found, release,
    Woken
<1>5. PeerTypeOK'
  BY DEF RaiseClosed, Turn, ErrFn, freePcb, Return, Before, Found, release,
    Woken
<1>6. Registration'
  BY DEF RaiseClosed, Turn, ErrFn, freePcb, Return, Before, Found, release,
    Woken
<1>7. Wiring'
  BY DEF RaiseClosed, Turn, ErrFn, freePcb, Return, Before, Found, release,
    Woken
<1> QED
  BY <1>1, <1>2, <1>3, <1>4, <1>5, <1>6, <1>7

\* closeInternal releases the connection before tcp_close.
LEMMA checkClosingStep ==
  ASSUME IInv, checkClosing
  PROVE  IInv'
<1>1. ConnTypeOK'
  BY DEF checkClosing, Return, closeInternal, Unread, Call, release, tcpClose,
    sendFin, FinState
<1>2. PcbTypeOK'
  BY TcpCloseType DEF checkClosing, closeInternal
<1>3. LockTypeOK'
  BY ZenonT(60) DEF checkClosing, Return, closeInternal, Unread, Call, release, tcpClose,
    sendFin, FinState
<1>4. ProcTypeOK'
  BY DEF checkClosing, Return, closeInternal, Unread, Call, release, tcpClose,
    sendFin, FinState
<1>5. PeerTypeOK'
  BY DEF checkClosing, Return, closeInternal, Unread, Call, release, tcpClose,
    sendFin, FinState
<1>6. Registration'
  BY DEF checkClosing, Return, closeInternal, Unread, Call, release, tcpClose,
    sendFin, FinState
<1>7. Wiring'
  BY DEF checkClosing, Return, closeInternal, Unread, Call, release, tcpClose,
    sendFin, FinState
<1> QED
  BY <1>1, <1>2, <1>3, <1>4, <1>5, <1>6, <1>7

\* abortInternal releases the connection and frees the pcb.
LEMMA checkAbortingStep ==
  ASSUME IInv, checkAborting
  PROVE  IInv'
<1>1. CASE state = "aborting"
  <2>1. PcbTypeOK'
    BY <1>1, FreePcbType DEF checkAborting, abortInternal
  <2>2. ConnTypeOK' /\ ProcTypeOK'
    BY <1>1 DEF checkAborting, abortInternal, release
  <2>3. LockTypeOK'
    BY <1>1 DEF checkAborting, Return
  <2>4. PeerTypeOK'
    BY <1>1, ZenonT(60) DEF checkAborting, abortInternal
  <2>5. Registration' /\ Wiring'
    BY <1>1 DEF checkAborting, abortInternal, release, freePcb, Return
  <2> QED
    BY <2>1, <2>2, <2>3, <2>4, <2>5
<1>2. CASE state # "aborting"
  <2>1. /\ at = "abort" /\ pc' = Woken(pc) /\ Return(todo)
        /\ UNCHANGED <<connVars, pcbVars, cur, seg, left, target, sent, peerVars,
                       faults>>
    BY <1>2 DEF checkAborting
  <2>2. ConnTypeOK' /\ PcbTypeOK' /\ PeerTypeOK'
    BY <2>1
  <2>3. LockTypeOK'
    BY <2>1 DEF Return
  <2>4. ProcTypeOK'
    BY <2>1
  <2>5. Registration' /\ Wiring'
    BY <1>2, <2>1 DEF Return, Woken
  <2> QED
    BY <2>2, <2>3, <2>4, <2>5
<1> QED
  BY <1>1, <1>2

\* A timeout frees the pcb and, through tcpErrFn, the connection with it.
LEMMA SlowRemoveStep ==
  ASSUME IInv, SlowRemove
  PROVE  IInv'
<1>1. ConnTypeOK'
  BY TcpAbortType DEF SlowRemove
<1>2. PcbTypeOK'
  BY TcpAbortType DEF SlowRemove
<1>3. LockTypeOK'
  BY DEF SlowRemove, Turn, Expired, tcpAbort, Return, Before, freePcb, ErrFn,
    Found, release, Woken
<1>4. ProcTypeOK'
  BY TcpAbortType DEF SlowRemove
<1>5. PeerTypeOK'
  BY DEF SlowRemove, Turn, Expired, tcpAbort, Return, Before, freePcb, ErrFn,
    Found, release, Woken
<1>6. Registration'
  BY DEF SlowRemove, Turn, Expired, tcpAbort, Return, Before, freePcb, ErrFn,
    Found, release, Woken
<1>7. Wiring'
  BY DEF SlowRemove, Turn, Expired, tcpAbort, Return, Before, freePcb, ErrFn,
    Found, release, Woken
<1> QED
  BY <1>1, <1>2, <1>3, <1>4, <1>5, <1>6, <1>7

\* tcp_slowtmr frees a TIME_WAIT pcb without a callback: by FinPendingInv and
\* LockInv no connection is registered for it.
LEMMA SlowTimeWaitStep ==
  ASSUME IInv, SlowTimeWait
  PROVE  IInv'
<1>1. ConnTypeOK'
  BY DEF SlowTimeWait, Turn, freePcb, Return, Before
<1>2. PcbTypeOK'
  BY FreePcbType DEF SlowTimeWait
<1>3. LockTypeOK'
  BY DEF SlowTimeWait, Turn, freePcb, Return, Before
<1>4. ProcTypeOK'
  BY DEF SlowTimeWait, Turn, freePcb, Return, Before
<1>5. PeerTypeOK'
  BY DEF SlowTimeWait, Turn, freePcb, Return, Before
<1>6. Registration'
  BY DEF SlowTimeWait, Turn, freePcb, Return, Before
<1>7. Wiring'
  BY DEF SlowTimeWait, Turn, freePcb, Return, Before
<1> QED
  BY <1>1, <1>2, <1>3, <1>4, <1>5, <1>6, <1>7

\* The poll callback leaves everything to checkState.
LEMMA SlowPollStep ==
  ASSUME IInv, SlowPoll
  PROVE  IInv'
BY DEF SlowPoll, Turn, NotifyFn, Before, Return, tcpAbort, Call, freePcb,
  ErrFn, Found, release, Woken

\* A tick with nothing to do.
LEMMA SlowIdleStep ==
  ASSUME IInv, SlowIdle
  PROVE  IInv'
BY DEF SlowIdle, Turn, Return, Before

\* closeOnce and CloseRead.
LEMMA CloseEnterStep ==
  ASSUME IInv, NEW g \in Closers, CloseEnter(g)
  PROVE  IInv'
BY DEF CloseEnter, At, Goto, AfterClose

\* CloseWrite under conn.Mutex.
LEMMA CloseWriteStep ==
  ASSUME IInv, NEW g \in Closers, CloseWrite(g)
  PROVE  IInv'
BY DEF CloseWrite, At, Goto, AfterClose

\* tcp_shutdown sends our FIN only for a connection the handler has closed.
LEMMA CloseWriteShutStep ==
  ASSUME IInv, NEW g \in Closers, CloseWriteShut(g)
  PROVE  IInv'
<1>1. ConnTypeOK'
  BY DEF CloseWriteShut, At, sendFin, Goto, AfterClose, FinState
<1>2. PcbTypeOK'
  BY DEF CloseWriteShut, At, sendFin, Goto, AfterClose, FinState
<1>3. LockTypeOK'
  BY DEF CloseWriteShut, At, sendFin, Goto, AfterClose, FinState
<1>4. ProcTypeOK'
  BY DEF CloseWriteShut, At, sendFin, Goto, AfterClose, FinState
<1>5. PeerTypeOK'
  BY DEF CloseWriteShut, At, sendFin, Goto, AfterClose, FinState
<1>6. Registration'
  BY DEF CloseWriteShut, At, sendFin, Goto, AfterClose, FinState
<1>7. Wiring'
  BY DEF CloseWriteShut, At, sendFin, Goto, AfterClose, FinState
<1> QED
  BY <1>1, <1>2, <1>3, <1>4, <1>5, <1>6, <1>7

\* Abort under conn.Mutex.
LEMMA AbortStep ==
  ASSUME IInv, NEW g \in {"dial", "stop"}, Abort(g)
  PROVE  IInv'
BY DEF Abort, At, Goto

\* Abort takes lwipMutex for its checkState.
LEMMA AbortCheckStep ==
  ASSUME IInv, NEW g \in {"dial", "stop"}, AbortCheck(g)
  PROVE  IInv'
BY DEF AbortCheck, At, Lock, Goto, AfterAbort

\* Handle fails.
LEMMA DialFailsStep ==
  ASSUME IInv, DialFails
  PROVE  IInv'
BY DEF DialFails, At, Goto

\* Handle starts the two relays.
LEMMA DialSucceedsStep ==
  ASSUME IInv, DialSucceeds
  PROVE  IInv'
BY DEF DialSucceeds, At

\* The state after the dial.
LEMMA ConnectedStep ==
  ASSUME IInv, Connected
  PROVE  IInv'
BY DEF Connected, At, Goto

\* The refused data is offered right after the dial.
LEMMA FlushStep ==
  ASSUME IInv, Flush
  PROVE  IInv'
<1>1. CASE refused # NoData
  BY <1>1 DEF Flush, At, Goto, Lock
<1>2. CASE refused = NoData
  <2>1. PeerTypeOK'
    BY <1>2 DEF Flush
  <2>2. LockTypeOK'
    BY <1>2 DEF Flush
  <2>3. ProcTypeOK'
    BY <1>2 DEF Flush, Goto
  <2>4. ConnTypeOK' /\ PcbTypeOK'
    BY <1>2 DEF Flush
  <2>5. /\ pc["dial"] = "flush" /\ pc' = [pc EXCEPT !["dial"] = "done"]
        /\ UNCHANGED <<connVars, pcbVars, lockVars, peerVars>>
    BY <1>2 DEF Flush, At, Goto
  <2>6. Registration' /\ Wiring'
    BY <2>5
  <2> QED
    BY <2>1, <2>2, <2>3, <2>4, <2>6
<1> QED
  BY <1>1, <1>2

\* Read looks at the state.
LEMMA UpReadStep ==
  ASSUME IInv, UpRead
  PROVE  IInv'
BY DEF UpRead, At, Goto

\* Read meets a closed pipe.
LEMMA UpEOFStep ==
  ASSUME IInv, UpEOF
  PROVE  IInv'
BY DEF UpEOF, At, Goto

\* The target takes the data or fails.
LEMMA UpSendStep ==
  ASSUME IInv, UpSend
  PROVE  IInv'
BY DEF UpSend, At, Goto

\* A relay closes the target.
LEMMA TargetCloseStep ==
  ASSUME IInv, NEW g \in {"up", "down"}, TargetClose(g)
  PROVE  IInv'
<1>1. ConnTypeOK'
  BY DEF TargetClose, At, Goto
<1>2. PcbTypeOK'
  BY DEF TargetClose, At, Goto
<1>3. LockTypeOK'
  BY DEF TargetClose, At, Goto
<1>4. ProcTypeOK'
  BY DEF TargetClose, At, Goto
<1>5. PeerTypeOK'
  BY DEF TargetClose, At, Goto
<1>6. Registration'
  BY DEF TargetClose, At, Goto
<1>7. Wiring'
  BY DEF TargetClose, At, Goto
<1> QED
  BY <1>1, <1>2, <1>3, <1>4, <1>5, <1>6, <1>7

\* The target sends.
LEMMA DownDataStep ==
  ASSUME IInv, DownData
  PROVE  IInv'
BY DEF DownData, At, Goto

\* The target ends.
LEMMA DownEOFStep ==
  ASSUME IInv, DownEOF
  PROVE  IInv'
BY DEF DownEOF, At, Goto

\* writeCheck.
LEMMA DownCheckStep ==
  ASSUME IInv, DownCheck
  PROVE  IInv'
BY DEF DownCheck, At, Goto

\* Write queues no more than there is room for.
LEMMA DownWriteStep ==
  ASSUME IInv, DownWrite
  PROVE  IInv'
BY DEF DownWrite, At, Room, DownFails, DownWritten, Goto

\* Write on a pcb that was deallocated in the meantime.
LEMMA DownWriteStaleStep ==
  ASSUME IInv, DownWriteStale
  PROVE  IInv'
BY DEF DownWriteStale, At, DownWritten, DownFails, Goto

\* Write waits for room.
LEMMA DownWaitStep ==
  ASSUME IInv, DownWait
  PROVE  IInv'
BY DEF DownWait, At, Goto

\* lwipStack.Close cancels the context.
LEMMA StackCloseStep ==
  ASSUME IInv, StackClose
  PROVE  IInv'
BY DEF StackClose, At, Goto

\* lwipStack.Close visits the connection.
LEMMA StackRangeStep ==
  ASSUME IInv, StackRange
  PROVE  IInv'
BY DEF StackRange, At, Goto

\* lwipStack.Close closes the listener.
LEMMA StackUnlistenStep ==
  ASSUME IInv, StackUnlisten
  PROVE  IInv'
BY DEF StackUnlisten, At, Goto

------------------------------------------------------------------------------
(* The invariants hold in every behaviour *)

HIDE DEF Data, NoData, Segment, NoSegment

\* Initially nothing runs and the connection does not exist yet.
LEMMA InitIInv ==
  ASSUME Init
  PROVE  IInv
<1>1. ConnTypeOK
  BY DEF Init
<1>2. PcbTypeOK
  <2>1. sndq \in 0..SndBuf
    BY DEF Init
  <2> QED
    BY <2>1 DEF Init
<1>3. LockTypeOK
  BY DEF Init
<1>4. ProcTypeOK
  <2>1. pc \in [Goroutines -> Locations]
    BY DEF Init
  <2>2. left \in 0..MaxDown /\ sent \in 0..MaxDown
    BY DEF Init
  <2> QED
    BY <2>1, <2>2 DEF Init
<1>5. PeerTypeOK
  <2>1. rcvNxt \in 0..MaxUp /\ upRead \in 0..MaxUp
    BY DEF Init
  <2> QED
    BY <2>1 DEF Init
<1>6. Registration
  BY DEF Init
<1>7. Wiring
  BY DEF Init
<1> QED
  BY <1>1, <1>2, <1>3, <1>4, <1>5, <1>6, <1>7

\* Nothing changes.
LEMMA StutterStep ==
  ASSUME IInv, UNCHANGED vars
  PROVE  IInv'
BY DEF vars

HIDE DEF IInv, TypeOK, ConnTypeOK, PcbTypeOK, LockTypeOK, ProcTypeOK,
  PeerTypeOK, Registration, Orphaned, Wiring, LockInv, CurInv, RetryInv,
  HandInv, SegInv, NewInv, ShutInv, FinSentInv, FinPendingInv, GotFinInv,
  SynInv, EofInv, RxInv, ClosedInv, FinOutInv, FinPending, PendInv, connVars,
  pcbVars, lockVars, procVars, peerVars

\* Steps of the goroutine that owns lwipMutex.
LEMMA CallbackStep ==
  ASSUME IInv, Callback
  PROVE  IInv'
BY SegmentDroppedStep, SegmentResetStep, SegmentAcceptStep, SegmentUnlistenedStep,
  SegmentProcessStep, RaisePendingStep, RaiseRefusedStep, RaiseDataStep, RecvFnStep, PipeClosedStep,
  RaiseFinStep, RaiseSentStep, RaiseClosedStep, checkClosingStep,
  checkAbortingStep, SlowRemoveStep, SlowTimeWaitStep, SlowPollStep, SlowIdleStep
  DEF Callback

\* Steps of the handler's goroutines and of lwipStack.Close.
LEMMA GoroutineStep ==
  ASSUME IInv,
         \/ \E g \in Closers : Close(g)
         \/ \E g \in {"dial", "stop"} : Aborts(g)
         \/ Dial \/ Up \/ Down \/ Stop
  PROVE  IInv'
<1>1. CASE \E g \in Closers : Close(g)
  BY <1>1, CloseEnterStep, CloseWriteStep, CloseWriteShutStep DEF Close
<1>2. CASE \E g \in {"dial", "stop"} : Aborts(g)
  BY <1>2, AbortStep, AbortCheckStep DEF Aborts
<1>3. CASE Dial
  BY <1>3, DialFailsStep, DialSucceedsStep, ConnectedStep, FlushStep DEF Dial
<1>4. CASE Up
  BY <1>4, UpReadStep, UpEOFStep, UpSendStep, TargetCloseStep DEF Up
<1>5. CASE Down
  BY <1>5, DownDataStep, DownEOFStep, DownCheckStep, DownWriteStep,
    DownWriteStaleStep, DownWaitStep, TargetCloseStep DEF Down
<1>6. CASE Stop
  BY <1>6, StackCloseStep, StackRangeStep, StackUnlistenStep DEF Stop
<1> QED
  BY <1>1, <1>2, <1>3, <1>4, <1>5, <1>6

\* Every step preserves the inductive invariant.
LEMMA NextStep ==
  ASSUME IInv, [Next]_vars
  PROVE  IInv'
BY InputStep, TickStep, CallbackStep, PipeTransferStep, GoroutineStep, StutterStep
  DEF Next

\* The inductive invariant holds whatever lwIP, the handler, the timers and the
\* client do, and in whatever order.
THEOREM InductiveInvariant == Spec => []IInv
<1>1. Init => IInv
  BY InitIInv
<1>2. IInv /\ [Next]_vars => IInv'
  BY NextStep
<1> QED
  BY <1>1, <1>2, PTL DEF Spec

\* Type correctness, for every bound: the queue of the pcb never exceeds
\* snd_buf, whatever the writer has left and the client has acknowledged.
THEOREM TypeCorrect == Spec => []TypeOK
<1>1. IInv => TypeOK
  BY DEF IInv
<1> QED
  BY <1>1, InductiveInvariant, PTL

\* tcpConns and the key memory of a connection live and die together, and with
\* them its callbacks and its pcb, except for a connection closed in both
\* directions that lwIP ended silently: release runs once and no callback meets a
\* dead connection.
THEOREM RegistrationHolds == Spec => []Registration
<1>1. IInv => Registration
  BY DEF IInv
<1> QED
  BY <1>1, InductiveInvariant, PTL

\* No registered connection is left in a state no timer polls when lwIP is not
\* running: the FIN that led there is pending only while the lock is held.
THEOREM NoOrphan == Spec => []NoOrphanInTimeWait
<1>1. IInv => NoOrphanInTimeWait
  BY NoDataType DEF IInv, Wiring, LockInv, CurInv, FinPendingInv, FinPending,
    NoOrphanInTimeWait
<1> QED
  BY <1>1, InductiveInvariant, PTL
==============================================================================
