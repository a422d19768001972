-------------------------- MODULE TcpConnDataProofs --------------------------
(***************************************************************************)
(* Delivery: no segment the client was told is received gets lost, doubled *)
(* or overtaken on its way to the handler, for every number of segments.   *)
(* Rests on the inductive invariant of TcpConnProofs, and relates upRead   *)
(* to rcvNxt through the one segment that may be refused or in hand.       *)
(* The second part shows that the connection implements ConnLifecycle.     *)
(***************************************************************************)
EXTENDS TcpConnProofs

\* The client's segments acknowledged and not yet read: at most one, which is
\* in hand or kept as refused.
Kept == IF cur # NoData \/ refused # NoData THEN 1 ELSE 0

\* What is in hand or refused is the last segment accepted; everything before
\* it has been read, unless the receive side is shut down.
DataInv ==
  /\ cur # NoData => cur.n = rcvNxt
  /\ refused # NoData => refused.n = rcvNxt
  /\ "data" \in todo \/ at \in {"recv", "pipe"} => cur # NoData /\ "fin" \notin todo
  /\ "refused" \in todo => refused # NoData /\ "fin" \notin todo
  /\ inMap /\ ~rxClosed => upRead + Kept = rcvNxt
  /\ at = "recv" /\ inMap => ~rxClosed
  /\ at = "pipe" => inMap /\ ~rxClosed
  /\ tcp = "SYN_RCVD" => rcvNxt = 0 /\ upRead = 0

\* A FIN raised, kept with its data or known to the connection was accepted,
\* and it is raised when no data is kept.
FinInv ==
  /\ "fin" \in todo \/ cur.fin \/ refused.fin => gotFin
  /\ state \in {"receiveClosed", "closing"} => gotFin
  /\ "fin" \in todo /\ inMap => refused = NoData

\* The pipe of a registered connection is closed by the handler's Close, or by
\* the FIN.
PipeInv ==
  /\ tcp = "SYN_RCVD" => ~pipeDone
  /\ pipeDone /\ inMap =>
       once # "new" \/ state \in {"receiveClosed", "closing", "aborting"}

Delivery == DataInv /\ FinInv /\ PipeInv /\ FinAfterData /\ NoSilentDiscard

------------------------------------------------------------------------------
(* One lemma per action, on top of the invariant of TcpConnProofs *)

USE DEF States, TcpStates, Active, Goroutines, Locations, Owners, Places,
  Events, Faults, GeClosing, GeAborting, Receivable, NotReady, Writable,
  Closers, Shutting, FinSent
USE DEF connVars, pcbVars, lockVars, procVars, peerVars
USE DEF Data, NoData, Segment, NoSegment
USE BoundsAssumption, NoDataType, NoSegmentType DEF Delivery, DataInv, Kept,
  FinInv, PipeInv, FinAfterData, NoSilentDiscard, IInv, TypeOK, ConnTypeOK,
  PcbTypeOK, LockTypeOK, ProcTypeOK, PeerTypeOK, Registration, Wiring,
  LockInv, CurInv, RetryInv, HandInv, SegInv, NewInv, ShutInv, FinSentInv,
  FinPendingInv, GotFinInv, SynInv, EofInv, RxInv, ClosedInv, FinOutInv,
  FinPending, PendInv, Orphaned

\* A packet enters lwIP: only the lock and the events to raise change.
LEMMA InputDelivers ==
  ASSUME IInv, Delivery, Input
  PROVE  Delivery'
BY DEF Input, Admitted, Spend, ClientMaySend, Lock

\* The timer goroutine takes the lock.
LEMMA TickDelivers ==
  ASSUME IInv, Delivery, Tick
  PROVE  Delivery'
BY DEF Tick, Admitted, Spend, Lock

\* A segment dropped because refused data is still kept.
LEMMA SegmentDroppedDelivers ==
  ASSUME IInv, Delivery, SegmentDropped
  PROVE  Delivery'
BY DEF SegmentDropped, Turn, Full, Return, Before

\* A reset frees the pcb and, through tcpErrFn, the connection with it.
LEMMA SegmentResetDelivers ==
  ASSUME IInv, Delivery, SegmentReset
  PROVE  Delivery'
BY DEF SegmentReset, Turn, tcpAbort, Return, Before, freePcb, ErrFn, Found,
  release, Woken

\* The first data may come with the acknowledgement that opens the connection.
LEMMA SegmentAcceptDelivers ==
  ASSUME IInv, Delivery, SegmentAccept
  PROVE  Delivery'
BY DEF SegmentAccept, Turn, Goto, tcpReceive, Before, AllAcked, NextTcp,
  Return

\* Without a listener the pcb goes before a connection exists.
LEMMA SegmentUnlistenedDelivers ==
  ASSUME IInv, Delivery, SegmentUnlistened
  PROVE  Delivery'
BY DEF SegmentUnlistened, Turn, tcpAbort, Return, Before, freePcb, ErrFn,
  Found, release, Woken

\* Data is accepted only when nothing is kept, and never after the FIN.
LEMMA SegmentProcessDelivers ==
  ASSUME IInv, Delivery, SegmentProcess
  PROVE  Delivery'
BY DEF SegmentProcess, Turn, Full, tcpReceive, Before, AllAcked, NextTcp,
  Return

\* Our FIN leaves what the client sent alone.
LEMMA RaisePendingDelivers ==
  ASSUME IInv, Delivery, RaisePending
  PROVE  Delivery'
BY DEF RaisePending, Turn, Before, sendFin, FinState, Return

\* The retry takes the refused data in hand, its FIN included.
LEMMA RaiseRefusedDelivers ==
  ASSUME IInv, Delivery, RaiseRefused
  PROVE  Delivery'
BY DEF RaiseRefused, Turn, Call, Before

\* Data on a shut-down receive side aborts the pcb and the connection.
LEMMA RaiseDataDelivers ==
  ASSUME IInv, Delivery, RaiseData
  PROVE  Delivery'
BY DEF RaiseData, Turn, tcpAbort, Return, Call, Before, freePcb, ErrFn, Found,
  release, Woken

\* Data refused during the dial is kept with its FIN; data is dropped only if
\* the connection is being aborted, since a known FIN leaves none in hand.
LEMMA RecvFnDelivers ==
  ASSUME IInv, Delivery, RecvFn
  PROVE  Delivery'
<1>1. /\ (cbs <=> inMap) /\ cur # NoData /\ refused = NoData
      /\ at = "recv" /\ {"data", "refused"} \cap todo = {}
  BY DEF RecvFn
<1>2. CASE Found /\ state \in Receivable
  <2>1. /\ Call("pipe", todo)
        /\ UNCHANGED <<connVars, pcbVars, cur, seg, procVars, peerVars, faults>>
    BY <1>2 DEF RecvFn, Found
  <2>2. ~rxClosed
    BY <1>1, <1>2 DEF Found
  <2> QED
    BY <1>1, <1>2, <2>1, <2>2 DEF Found, Call
<1>3. CASE Found /\ state \in NotReady
  <2>1. /\ refused' = cur /\ cur' = NoData /\ Return(todo)
        /\ UNCHANGED <<connVars, tcp, cbs, rxClosed, sndq, finOut, closePend, seg,
                       procVars, peerVars, faults>>
    BY <1>3 DEF RecvFn, Found
  <2> QED
    BY <1>1, <1>3, <2>1 DEF Found, Return
<1>4. CASE Found /\ state \notin Receivable \cup NotReady
  <2>1. /\ rxClosed' = TRUE /\ refused' = NoData /\ cur' = NoData
        /\ Return(DataTaken(todo))
        /\ UNCHANGED <<connVars, tcp, cbs, sndq, finOut, closePend, seg, procVars,
                       peerVars, faults>>
    BY <1>4 DEF RecvFn, Found
  <2> QED
    BY <1>1, <1>4, <2>1 DEF Found, Return, DataTaken
<1>5. CASE ~cbs
  <2>1. /\ cur' = NoData /\ Return(DataTaken(todo))
        /\ UNCHANGED <<connVars, pcbVars, seg, procVars, peerVars, faults>>
    BY <1>5, <1>1 DEF RecvFn, Found
  <2> QED
    BY <1>1, <1>5, <2>1 DEF Found, Return, DataTaken
<1> QED
  BY <1>1, <1>2, <1>3, <1>4, <1>5 DEF Found

\* The handler reads the only segment it has not read.
LEMMA PipeTransferDelivers ==
  ASSUME IInv, Delivery, PipeTransfer
  PROVE  Delivery'
BY DEF PipeTransfer, At, Goto, Return, DataTaken

\* Only the Close of the handler, an abort or the FIN closes the pipe.
LEMMA PipeClosedDelivers ==
  ASSUME IInv, Delivery, PipeClosed
  PROVE  Delivery'
BY DEF PipeClosed, Return, DataTaken

\* The handler learns of the FIN with nothing kept.
LEMMA RaiseFinDelivers ==
  ASSUME IInv, Delivery, RaiseFin
  PROVE  Delivery'
BY DEF RaiseFin, Turn, Return, tcpAbort, setLocalClosed, Call, Before,
  freePcb, ErrFn, Woken, Found, release

\* The sent callback leaves everything to checkState.
LEMMA RaiseSentDelivers ==
  ASSUME IInv, Delivery, RaiseSent
  PROVE  Delivery'
BY DEF RaiseSent, Turn, NotifyFn, Before, Return, tcpAbort, Call, freePcb,
  ErrFn, Found, release, Woken

\* After the last acknowledgement no registered connection is left behind
\* when tcp_input does not raise an error for it.
LEMMA RaiseClosedDelivers ==
  ASSUME IInv, Delivery, RaiseClosed
  PROVE  Delivery'
BY DEF RaiseClosed, Turn, ErrFn, freePcb, Return, Before, Found, release,
  Woken

\* closeInternal releases the connection before tcp_close.
LEMMA checkClosingDelivers ==
  ASSUME IInv, Delivery, checkClosing
  PROVE  Delivery'
BY DEF checkClosing, Return, closeInternal, Unread, Call, release, tcpClose,
  sendFin, FinState

\* abortInternal releases the connection and frees the pcb.
LEMMA checkAbortingDelivers ==
  ASSUME IInv, Delivery, checkAborting
  PROVE  Delivery'
BY DEF checkAborting, abortInternal, Return, Woken, release, freePcb

\* A timeout frees the pcb and, through tcpErrFn, the connection with it.
LEMMA SlowRemoveDelivers ==
  ASSUME IInv, Delivery, SlowRemove
  PROVE  Delivery'
BY DEF SlowRemove, Turn, Expired, tcpAbort, Return, Before, freePcb, ErrFn,
  Found, release, Woken

\* tcp_slowtmr frees a TIME_WAIT pcb without a callback: by FinPendingInv and
\* LockInv no connection is registered for it.
LEMMA SlowTimeWaitDelivers ==
  ASSUME IInv, Delivery, SlowTimeWait
  PROVE  Delivery'
BY DEF SlowTimeWait, Turn, freePcb, Return, Before

\* The poll callback leaves everything to checkState.
LEMMA SlowPollDelivers ==
  ASSUME IInv, Delivery, SlowPoll
  PROVE  Delivery'
BY DEF SlowPoll, Turn, NotifyFn, Before, Return, tcpAbort, Call, freePcb,
  ErrFn, Found, release, Woken

\* A tick with nothing to do.
LEMMA SlowIdleDelivers ==
  ASSUME IInv, Delivery, SlowIdle
  PROVE  Delivery'
BY DEF SlowIdle, Turn, Return, Before

\* closeOnce and CloseRead.
LEMMA CloseEnterDelivers ==
  ASSUME IInv, Delivery, NEW g \in Closers, CloseEnter(g)
  PROVE  Delivery'
BY DEF CloseEnter, At, Goto, AfterClose

\* Close reaches closing only after the FIN.
LEMMA CloseWriteDelivers ==
  ASSUME IInv, Delivery, NEW g \in Closers, CloseWrite(g)
  PROVE  Delivery'
BY DEF CloseWrite, At, Goto, AfterClose

\* tcp_shutdown sends our FIN only for a connection the handler has closed.
LEMMA CloseWriteShutDelivers ==
  ASSUME IInv, Delivery, NEW g \in Closers, CloseWriteShut(g)
  PROVE  Delivery'
BY DEF CloseWriteShut, At, sendFin, Goto, AfterClose, FinState

\* Abort under conn.Mutex.
LEMMA AbortDelivers ==
  ASSUME IInv, Delivery, NEW g \in {"dial", "stop"}, Abort(g)
  PROVE  Delivery'
BY DEF Abort, At, Goto

\* Abort takes lwipMutex for its checkState.
LEMMA AbortCheckDelivers ==
  ASSUME IInv, Delivery, NEW g \in {"dial", "stop"}, AbortCheck(g)
  PROVE  Delivery'
BY DEF AbortCheck, At, Lock, Goto, AfterAbort

\* Handle fails.
LEMMA DialFailsDelivers ==
  ASSUME IInv, Delivery, DialFails
  PROVE  Delivery'
BY DEF DialFails, At, Goto

\* Handle starts the two relays.
LEMMA DialSucceedsDelivers ==
  ASSUME IInv, Delivery, DialSucceeds
  PROVE  Delivery'
BY DEF DialSucceeds, At

\* The state after the dial.
LEMMA ConnectedDelivers ==
  ASSUME IInv, Delivery, Connected
  PROVE  Delivery'
BY DEF Connected, At, Goto

\* The refused data is offered right after the dial.
LEMMA FlushDelivers ==
  ASSUME IInv, Delivery, Flush
  PROVE  Delivery'
BY DEF Flush, At, Goto, Lock

\* Read looks at the state.
LEMMA UpReadDelivers ==
  ASSUME IInv, Delivery, UpRead
  PROVE  Delivery'
BY DEF UpRead, At, Goto

\* Read meets a closed pipe.
LEMMA UpEOFDelivers ==
  ASSUME IInv, Delivery, UpEOF
  PROVE  Delivery'
BY DEF UpEOF, At, Goto

\* The target takes the data or fails.
LEMMA UpSendDelivers ==
  ASSUME IInv, Delivery, UpSend
  PROVE  Delivery'
BY DEF UpSend, At, Goto

\* A relay closes the target.
LEMMA TargetCloseDelivers ==
  ASSUME IInv, Delivery, NEW g \in {"up", "down"}, TargetClose(g)
  PROVE  Delivery'
BY DEF TargetClose, At, Goto

\* The target sends.
LEMMA DownDataDelivers ==
  ASSUME IInv, Delivery, DownData
  PROVE  Delivery'
BY DEF DownData, At, Goto

\* The target ends.
LEMMA DownEOFDelivers ==
  ASSUME IInv, Delivery, DownEOF
  PROVE  Delivery'
BY DEF DownEOF, At, Goto

\* writeCheck.
LEMMA DownCheckDelivers ==
  ASSUME IInv, Delivery, DownCheck
  PROVE  Delivery'
BY DEF DownCheck, At, Goto

\* Write queues no more than there is room for.
LEMMA DownWriteDelivers ==
  ASSUME IInv, Delivery, DownWrite
  PROVE  Delivery'
BY DEF DownWrite, At, Room, DownFails, DownWritten, Goto

\* Write on a pcb that was deallocated in the meantime.
LEMMA DownWriteStaleDelivers ==
  ASSUME IInv, Delivery, DownWriteStale
  PROVE  Delivery'
BY DEF DownWriteStale, At, DownWritten, DownFails, Goto

\* Write waits for room.
LEMMA DownWaitDelivers ==
  ASSUME IInv, Delivery, DownWait
  PROVE  Delivery'
BY DEF DownWait, At, Goto

\* lwipStack.Close cancels the context.
LEMMA StackCloseDelivers ==
  ASSUME IInv, Delivery, StackClose
  PROVE  Delivery'
BY DEF StackClose, At, Goto

\* lwipStack.Close visits the connection.
LEMMA StackRangeDelivers ==
  ASSUME IInv, Delivery, StackRange
  PROVE  Delivery'
BY DEF StackRange, At, Goto

\* lwipStack.Close closes the listener.
LEMMA StackUnlistenDelivers ==
  ASSUME IInv, Delivery, StackUnlisten
  PROVE  Delivery'
BY DEF StackUnlisten, At, Goto

\* Initially nothing has been accepted.
LEMMA InitDelivers ==
  ASSUME Init
  PROVE  Delivery
BY DEF Init

\* Nothing changes.
LEMMA StutterDelivers ==
  ASSUME IInv, Delivery, UNCHANGED vars
  PROVE  Delivery'
BY DEF vars

\* PipeTransfer hands over the segment that follows the last one read.
LEMMA TransferInOrder ==
  ASSUME IInv, Delivery, PipeTransfer
  PROVE  upRead' = upRead + 1
BY DEF PipeTransfer, At

HIDE DEF Delivery, DataInv, Kept, FinInv, PipeInv, FinAfterData,
  NoSilentDiscard, IInv, TypeOK, ConnTypeOK, PcbTypeOK, LockTypeOK,
  ProcTypeOK, PeerTypeOK, Registration, Wiring, LockInv, CurInv, RetryInv,
  HandInv, SegInv, NewInv, ShutInv, FinSentInv, FinPendingInv, GotFinInv,
  SynInv, EofInv, RxInv, ClosedInv, FinOutInv, FinPending, PendInv, Orphaned

\* Steps of the goroutine that owns lwipMutex.
LEMMA CallbackDelivers ==
  ASSUME IInv, Delivery, Callback
  PROVE  Delivery'
BY SegmentDroppedDelivers, SegmentResetDelivers, SegmentAcceptDelivers,
  SegmentUnlistenedDelivers, SegmentProcessDelivers, RaisePendingDelivers,
  RaiseRefusedDelivers, RaiseDataDelivers, RecvFnDelivers, PipeClosedDelivers, RaiseFinDelivers,
  RaiseSentDelivers, RaiseClosedDelivers, checkClosingDelivers,
  checkAbortingDelivers, SlowRemoveDelivers, SlowTimeWaitDelivers,
  SlowPollDelivers, SlowIdleDelivers
  DEF Callback

\* Steps of the handler's goroutines and of lwipStack.Close.
LEMMA GoroutineDelivers ==
  ASSUME IInv, Delivery,
         \/ \E g \in Closers : Close(g)
         \/ \E g \in {"dial", "stop"} : Aborts(g)
         \/ Dial \/ Up \/ Down \/ Stop
  PROVE  Delivery'
<1>1. CASE \E g \in Closers : Close(g)
  BY <1>1, CloseEnterDelivers, CloseWriteDelivers, CloseWriteShutDelivers DEF Close
<1>2. CASE \E g \in {"dial", "stop"} : Aborts(g)
  BY <1>2, AbortDelivers, AbortCheckDelivers DEF Aborts
<1>3. CASE Dial
  BY <1>3, DialFailsDelivers, DialSucceedsDelivers, ConnectedDelivers,
    FlushDelivers DEF Dial
<1>4. CASE Up
  BY <1>4, UpReadDelivers, UpEOFDelivers, UpSendDelivers, TargetCloseDelivers DEF Up
<1>5. CASE Down
  BY <1>5, DownDataDelivers, DownEOFDelivers, DownCheckDelivers,
    DownWriteDelivers, DownWriteStaleDelivers, DownWaitDelivers,
    TargetCloseDelivers DEF Down
<1>6. CASE Stop
  BY <1>6, StackCloseDelivers, StackRangeDelivers, StackUnlistenDelivers DEF Stop
<1> QED
  BY <1>1, <1>2, <1>3, <1>4, <1>5, <1>6

\* Every step preserves the delivery invariant.
LEMMA NextDelivers ==
  ASSUME IInv, Delivery, [Next]_vars
  PROVE  Delivery'
BY InputDelivers, TickDelivers, CallbackDelivers, PipeTransferDelivers,
  GoroutineDelivers, StutterDelivers DEF Next

\* No other step reads for the handler.
LEMMA OnlyTransferReads ==
  ASSUME [Next]_vars, ~PipeTransfer
  PROVE  upRead' = upRead
<1>1. CASE Input \/ Tick \/ UNCHANGED vars
  BY <1>1 DEF Input, Tick, vars
<1>2. CASE Callback
  BY <1>2 DEF Callback, SegmentDropped, SegmentReset, SegmentAccept,
    SegmentUnlistened, SegmentProcess, tcpReceive, RaisePending, RaiseRefused, RaiseData, RecvFn,
    PipeClosed, RaiseFin, RaiseSent, RaiseClosed, checkClosing, checkAborting,
    SlowRemove, SlowTimeWait, SlowPoll, SlowIdle
<1>3. CASE \E g \in Closers : Close(g)
  BY <1>3 DEF Close, CloseEnter, CloseWrite, CloseWriteShut
<1>4. CASE \E g \in {"dial", "stop"} : Aborts(g)
  BY <1>4 DEF Aborts, Abort, AbortCheck
<1>5. CASE Dial \/ Up \/ Stop
  BY <1>5 DEF Dial, DialFails, DialSucceeds, Connected, Flush, Up, UpRead, UpEOF,
    UpSend, TargetClose, Stop, StackClose, StackRange, StackUnlisten
<1>6. CASE Down
  BY <1>6 DEF Down, DownData, DownEOF, DownCheck, DownWrite, DownWriteStale,
    DownWait, TargetClose
<1> QED
  BY <1>1, <1>2, <1>3, <1>4, <1>5, <1>6 DEF Next

------------------------------------------------------------------------------
(* The delivery properties hold in every behaviour *)

\* The delivery invariant.
THEOREM DeliveryInvariant == Spec => []Delivery
<1>1. Init => Delivery
  BY InitDelivers
<1>2. IInv /\ Delivery /\ [Next]_vars => Delivery'
  BY NextDelivers
<1> QED
  BY <1>1, <1>2, InductiveInvariant, PTL DEF Spec

\* The handler learns of the client's FIN only after all the data, so closing
\* never resets a client whose data was acknowledged.
THEOREM FinComesLast == Spec => []FinAfterData
<1>1. Delivery => FinAfterData
  BY DEF Delivery
<1> QED
  BY <1>1, DeliveryInvariant, PTL

\* A registered connection drops data only after the handler's Close, or while
\* it is aborted.
THEOREM NothingDropped == Spec => []NoSilentDiscard
<1>1. Delivery => NoSilentDiscard
  BY DEF Delivery
<1> QED
  BY <1>1, DeliveryInvariant, PTL

\* The handler reads every segment once and in order.
THEOREM ReadsInOrder == Spec => OrderedDelivery
<1>1. IInv /\ Delivery /\ [Next]_vars
        => [upRead' # upRead => upRead' = upRead + 1]_upRead
  BY TransferInOrder, OnlyTransferReads
<1> QED
  BY <1>1, InductiveInvariant, DeliveryInvariant, PTL DEF Spec, OrderedDelivery

-----------------------------------------------------------------------------
(* The connection implements ConnLifecycle.  Steps that leave conn.state,  *)
(* the map entry and the key memory alone are stuttering steps; each of    *)
(* the others is one step of the abstract specification.  The inductive    *)
(* invariant is what excludes a step on a connection that does not exist   *)
(* yet, or no longer.                                                      *)

USE DEF States, TcpStates, Active, Goroutines, Locations, Owners, Places,
  Events, Faults, GeClosing, GeAborting, Receivable, NotReady, Writable,
  Closers, Shutting, FinSent
USE DEF connVars, pcbVars, lockVars, procVars, peerVars
USE DEF Phase, ReadOpen, WriteOpen, Lifecycle!vars

\* The abstract state depends on three variables.
LEMMA Untouched ==
  ASSUME UNCHANGED <<state, inMap, keyArg>>
  PROVE  UNCHANGED Lifecycle!vars
OBVIOUS

USE DEF Lifecycle!Next, Lifecycle!Open, Lifecycle!CloseRead,
  Lifecycle!CloseWrite, Lifecycle!Abort, Lifecycle!Finish, Lifecycle!Fail
USE DEF IInv, TypeOK, ConnTypeOK, Registration, Wiring, NewInv, SynInv

\* A reset is Fail, or nothing if the connection never opened.
LEMMA SegmentResetRefines ==
  ASSUME IInv, SegmentReset
  PROVE  [Lifecycle!Next]_(Lifecycle!vars)
BY DEF SegmentReset, Turn, tcpAbort, Return, Before, freePcb, ErrFn, Found,
  release, Woken

\* The accept is Open.
LEMMA SegmentAcceptRefines ==
  ASSUME IInv, SegmentAccept
  PROVE  [Lifecycle!Next]_(Lifecycle!vars)
BY DEF SegmentAccept, Turn, Goto, tcpReceive, Before, AllAcked, NextTcp,
  Return

\* Nothing has been opened yet.
LEMMA SegmentUnlistenedRefines ==
  ASSUME IInv, SegmentUnlistened
  PROVE  [Lifecycle!Next]_(Lifecycle!vars)
BY DEF SegmentUnlistened, Turn, tcpAbort, Return, Before, freePcb, ErrFn,
  Found, release, Woken

\* An abort by lwIP is Fail.
LEMMA RaiseDataRefines ==
  ASSUME IInv, RaiseData
  PROVE  [Lifecycle!Next]_(Lifecycle!vars)
BY DEF RaiseData, Turn, tcpAbort, Return, Call, Before, freePcb, ErrFn, Found,
  release, Woken

\* An unknown key never happens to an open connection.
LEMMA RecvFnRefines ==
  ASSUME IInv, RecvFn
  PROVE  [Lifecycle!Next]_(Lifecycle!vars)
BY DEF RecvFn, tcpAbort, Return, Found, Call, DataTaken, freePcb, ErrFn,
  release, Woken

\* The FIN is CloseRead, unless the direction is closed already.
LEMMA RaiseFinRefines ==
  ASSUME IInv, RaiseFin
  PROVE  [Lifecycle!Next]_(Lifecycle!vars)
BY DEF RaiseFin, Turn, Return, tcpAbort, setLocalClosed, Call, Before,
  freePcb, ErrFn, Woken, Found, release

\* The sent callback closes nothing itself.
LEMMA RaiseSentRefines ==
  ASSUME IInv, RaiseSent
  PROVE  [Lifecycle!Next]_(Lifecycle!vars)
BY DEF RaiseSent, Turn, NotifyFn, Before, Return, tcpAbort, Call, freePcb,
  ErrFn, Found, release, Woken

\* The error after the last acknowledgement is Fail.
LEMMA RaiseClosedRefines ==
  ASSUME IInv, RaiseClosed
  PROVE  [Lifecycle!Next]_(Lifecycle!vars)
BY DEF RaiseClosed, Turn, ErrFn, freePcb, Return, Before, Found, release,
  Woken

\* closeInternal is Finish: both directions are closed.
LEMMA checkClosingRefines ==
  ASSUME IInv, checkClosing
  PROVE  [Lifecycle!Next]_(Lifecycle!vars)
BY DEF checkClosing, Return, closeInternal, Unread, Call, release, tcpClose,
  sendFin, FinState

\* abortInternal is Finish.
LEMMA checkAbortingRefines ==
  ASSUME IInv, checkAborting
  PROVE  [Lifecycle!Next]_(Lifecycle!vars)
BY DEF checkAborting, abortInternal, Return, Woken, release, freePcb

\* A timeout is Fail.
LEMMA SlowRemoveRefines ==
  ASSUME IInv, SlowRemove
  PROVE  [Lifecycle!Next]_(Lifecycle!vars)
BY DEF SlowRemove, Turn, Expired, tcpAbort, Return, Before, freePcb, ErrFn,
  Found, release, Woken

\* The poll callback closes nothing itself.
LEMMA SlowPollRefines ==
  ASSUME IInv, SlowPoll
  PROVE  [Lifecycle!Next]_(Lifecycle!vars)
BY DEF SlowPoll, Turn, NotifyFn, Before, Return, tcpAbort, Call, freePcb,
  ErrFn, Found, release, Woken

\* CloseWrite closes that direction only.
LEMMA CloseWriteRefines ==
  ASSUME IInv, NEW g \in Closers, CloseWrite(g)
  PROVE  [Lifecycle!Next]_(Lifecycle!vars)
BY DEF CloseWrite, At, Goto, AfterClose

\* Abort closes both directions of an open connection.
LEMMA AbortRefines ==
  ASSUME IInv, NEW g \in {"dial", "stop"}, Abort(g)
  PROVE  [Lifecycle!Next]_(Lifecycle!vars)
BY DEF Abort, At, Goto

\* The end of the dial reopens nothing.
LEMMA ConnectedRefines ==
  ASSUME IInv, Connected
  PROVE  [Lifecycle!Next]_(Lifecycle!vars)
BY DEF Connected, At, Goto

HIDE DEF IInv, TypeOK, ConnTypeOK, Registration, Wiring, NewInv, SynInv
HIDE DEF Phase, ReadOpen, WriteOpen, Lifecycle!Next, Lifecycle!vars

\* Steps of the goroutine that owns lwipMutex.
LEMMA CallbackRefines ==
  ASSUME IInv, Callback
  PROVE  [Lifecycle!Next]_(Lifecycle!vars)
<1>1. CASE \/ SegmentDropped \/ SegmentProcess \/ RaisePending \/ RaiseRefused
           \/ PipeClosed \/ SlowTimeWait \/ SlowIdle
  BY <1>1, Untouched DEF SegmentDropped, SegmentProcess, RaisePending,
    RaiseRefused, PipeClosed, SlowTimeWait, SlowIdle
<1> QED
  BY <1>1, SegmentResetRefines, SegmentAcceptRefines, SegmentUnlistenedRefines,
    RaiseDataRefines, RecvFnRefines, RaiseFinRefines, RaiseSentRefines,
    RaiseClosedRefines, checkClosingRefines, checkAbortingRefines,
    SlowRemoveRefines, SlowPollRefines DEF Callback

\* Steps of the handler's goroutines and of lwipStack.Close.
LEMMA GoroutineRefines ==
  ASSUME IInv,
         \/ \E g \in Closers : Close(g)
         \/ \E g \in {"dial", "stop"} : Aborts(g)
         \/ Dial \/ Up \/ Down \/ Stop
  PROVE  [Lifecycle!Next]_(Lifecycle!vars)
<1>1. CASE \E g \in Closers : Close(g)
  BY <1>1, CloseWriteRefines, Untouched DEF Close, CloseEnter, CloseWriteShut
<1>2. CASE \E g \in {"dial", "stop"} : Aborts(g)
  BY <1>2, AbortRefines, Untouched DEF Aborts, AbortCheck
<1>3. CASE Dial
  BY <1>3, ConnectedRefines, Untouched DEF Dial, DialFails, DialSucceeds, Flush
<1>4. CASE Up \/ Stop
  BY <1>4, Untouched DEF Up, UpRead, UpEOF, UpSend, TargetClose, Stop, StackClose,
    StackRange, StackUnlisten
<1>5. CASE Down
  BY <1>5, Untouched DEF Down, DownData, DownEOF, DownCheck, DownWrite,
    DownWriteStale, DownWait, TargetClose
<1> QED
  BY <1>1, <1>2, <1>3, <1>4, <1>5

\* Every step of the connection is a step of the life cycle, or none.
LEMMA NextRefines ==
  ASSUME IInv, [Next]_vars
  PROVE  [Lifecycle!Next]_(Lifecycle!vars)
<1>1. CASE Input \/ Tick \/ PipeTransfer \/ UNCHANGED vars
  BY <1>1, Untouched DEF Input, Tick, PipeTransfer, vars
<1> QED
  BY <1>1, CallbackRefines, GoroutineRefines DEF Next

\* The tcpConn of the source, with lwIP, the timers and all its callers, is an
\* implementation of the abstract life cycle.
THEOREM LifecycleRefinement == Spec => ImplementsLifecycle
<1>1. Init => Lifecycle!Init
  BY DEF Init, Lifecycle!Init, Phase, ReadOpen, WriteOpen
<1>2. IInv /\ [Next]_vars => [Lifecycle!Next]_(Lifecycle!vars)
  BY NextRefines
<1> QED
  BY <1>1, <1>2, InductiveInvariant, PTL DEF Spec, ImplementsLifecycle, Lifecycle!Spec
==============================================================================
