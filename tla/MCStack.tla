------------------------------- MODULE MCStack ------------------------------
(***************************************************************************)
(* Stack on a small instance, and beside its parts the packet buffers and  *)
(* the TCP of lwIP, which TLC alone looks at: the definitions of the       *)
(* buffers and of the sender are recursive and out of the prover's reach.  *)
(***************************************************************************)
EXTENDS Stack, TLC

CONSTANTS NULL, NONE, Pcbs, Few

Net(a, l) == [ip |-> a, len |-> l]
MCInnerLists == {<<Net(0, 1)>>}
MCMustLists == {<<Net(1, 1)>>, <<Net(0, 0)>>}

Sample == INSTANCE ClientHello WITH hello <- s1, pc <- s2, base <- s3, len <- s4,
      index <- s5, Hellos <- {}

MCHellos ==
    {Sample!Client(32, c, n[1], n[2], name, n3, p, 5000) : c \in {2, 256},
        n \in {<<-1, -1>>, <<3, -1>>, <<240, 0>>, <<260, 4>>, <<4, 257>>}, name \in {3, 200, 252},
        n3 \in {-1, 0, 245, 300}, p \in {<<0>>, <<6>>, <<9, 0, 0>>}}
    \cup {Sample!Client(0, 254, n, 2, 12, n3, <<1, 0, 0>>, cut) : n \in {-1, 7}, n3 \in {-1, 3, 250},
        cut \in {30, 44, 47, 60, 299, 301, 303, 304, 306, 310, 318, 325, 340, 400}}

Every == [h \in {"tcp", "reass", "nd6"} |-> CASE h = "tcp" -> 1 [] h = "reass" -> 2 [] OTHER -> 3]

-----------------------------------------------------------------------------
Buf == INSTANCE Pbuf WITH mem <- s1, held <- s2, ooseq <- s3,
      pbuf_free_ooseq_pending <- s4, Ids <- {1, 2, 3}, NULL <- NULL, U16 <- 3,
      BUFSIZE <- 2, Layers <- {1}, MaxLen <- 2, MaxRefs <- 1, Pcbs <- 1,
      Types <- {"POOL"}

Ref == INSTANCE Pbuf WITH mem <- s1, held <- s2, ooseq <- s3,
      pbuf_free_ooseq_pending <- s4, Ids <- {1, 2}, NULL <- NULL, U16 <- 6,
      BUFSIZE <- 3, Layers <- {0, 1}, MaxLen <- 3, MaxRefs <- 2, Pcbs <- 1,
      Types <- {"RAM", "REF", "POOL"}

Bytes == INSTANCE PbufData WITH buf <- s1, flat <- s2, Bytes <- {0, 1}, MaxPbufs <- 3,
      MaxLen <- 2, NONE <- NONE

Sender == INSTANCE TcpSender WITH pcb <- s1, wire <- s2, acks <- s3, peer <- s4,
      lost <- s5, fails <- s6, Wrap <- 32, MSS <- 2, TCP_SND_BUF <- 4,
      TCP_SND_QUEUELEN <- 4, TCP_MAXRTX <- 2, InitCwnd <- 4, ISS <- 30, PeerBuf <- 4,
      WriteSizes <- {3}, ReadSizes <- {1}, MaxBytes <- 6, MaxLoss <- 1, MaxFail <- 0,
      MaxWire <- 2, PeerData <- 0, Closes <- FALSE, Patient <- FALSE

Closer == INSTANCE TcpSender WITH pcb <- s1, wire <- s2, acks <- s3, peer <- s4,
      lost <- s5, fails <- s6, Wrap <- 32, MSS <- 2, TCP_SND_BUF <- 4,
      TCP_SND_QUEUELEN <- 4, TCP_MAXRTX <- 1, InitCwnd <- 4, ISS <- 30, PeerBuf <- 4,
      WriteSizes <- {2}, ReadSizes <- {1}, MaxBytes <- 6, MaxLoss <- 0, MaxFail <- 1,
      MaxWire <- 2, PeerData <- 0, Closes <- TRUE, Patient <- FALSE

Receiver == INSTANCE TcpReceiver WITH pcb <- s1, Wrap <- 64, TCP_WND <- 5, MSS <- 2,
      IRS <- 61, Total <- 7, MaxSeg <- 2, RecvedSizes <- {1, 4}, MaxRefuse <- 1,
      MaxFail <- 1, FinBeyond <- FALSE

Listener == INSTANCE TcpPcbs WITH pcb <- s1, list <- s2, tcp_port <- s3, fails <- s4,
      Pcbs <- Pcbs, Remotes <- {1}, Dialled <- {1, 2}, Prios <- {2}, START <- 2,
      END <- 4, Backlog <- 1, SYN_RCVD_TIMEOUT <- 0, FIN_WAIT_TIMEOUT <- 0, MSL2 <- 0,
      KEEP_IDLE <- 0, KEEP_CNT <- 0, MAXRTX <- 1, Keepalive <- TRUE, Connects <- FALSE,
      MaxFail <- 1

Dialler == INSTANCE TcpPcbs WITH pcb <- s1, list <- s2, tcp_port <- s3, fails <- s4,
      Pcbs <- Few, Remotes <- {1}, Dialled <- {2}, Prios <- {1, 2}, START <- 2,
      END <- 4, Backlog <- 1, SYN_RCVD_TIMEOUT <- 0, FIN_WAIT_TIMEOUT <- 0, MSL2 <- 0,
      KEEP_IDLE <- 0, KEEP_CNT <- 0, MAXRTX <- 1, Keepalive <- TRUE, Connects <- TRUE,
      MaxFail <- 0

ASSUME Buf!PbufAssumption
ASSUME Bytes!DataAssumption
ASSUME Sender!SeqAssumption
ASSUME Sender!SenderAssumption
ASSUME Receiver!ReceiverAssumption
ASSUME Listener!PcbsAssumption

MCInit ==
    \/ Init
    \/ /\ part = "pbuf" /\ Buf!Init
       /\ s5 = 0 /\ s6 = 0 /\ s7 = 0 /\ s8 = 0 /\ s9 = 0 /\ s10 = 0 /\ s11 = 0
       /\ s12 = 0 /\ s13 = 0 /\ s14 = 0
    \/ /\ part = "pbuf_refs" /\ Ref!Init
       /\ s5 = 0 /\ s6 = 0 /\ s7 = 0 /\ s8 = 0 /\ s9 = 0 /\ s10 = 0 /\ s11 = 0
       /\ s12 = 0 /\ s13 = 0 /\ s14 = 0
    \/ /\ part = "pbuf_data" /\ Bytes!Init
       /\ s3 = 0 /\ s4 = 0 /\ s5 = 0 /\ s6 = 0 /\ s7 = 0 /\ s8 = 0 /\ s9 = 0
       /\ s10 = 0 /\ s11 = 0 /\ s12 = 0 /\ s13 = 0 /\ s14 = 0
    \/ /\ part = "sender" /\ Sender!Init
       /\ s7 = 0 /\ s8 = 0 /\ s9 = 0 /\ s10 = 0 /\ s11 = 0 /\ s12 = 0 /\ s13 = 0 /\ s14 = 0
    \/ /\ part = "closer" /\ Closer!Init
       /\ s7 = 0 /\ s8 = 0 /\ s9 = 0 /\ s10 = 0 /\ s11 = 0 /\ s12 = 0 /\ s13 = 0 /\ s14 = 0
    \/ /\ part = "receiver" /\ Receiver!Init
       /\ s2 = 0 /\ s3 = 0 /\ s4 = 0 /\ s5 = 0 /\ s6 = 0 /\ s7 = 0 /\ s8 = 0
       /\ s9 = 0 /\ s10 = 0 /\ s11 = 0 /\ s12 = 0 /\ s13 = 0 /\ s14 = 0
    \/ /\ part = "listener" /\ Listener!Init
       /\ s5 = 0 /\ s6 = 0 /\ s7 = 0 /\ s8 = 0 /\ s9 = 0 /\ s10 = 0 /\ s11 = 0
       /\ s12 = 0 /\ s13 = 0 /\ s14 = 0
    \/ /\ part = "dialler" /\ Dialler!Init
       /\ s5 = 0 /\ s6 = 0 /\ s7 = 0 /\ s8 = 0 /\ s9 = 0 /\ s10 = 0 /\ s11 = 0
       /\ s12 = 0 /\ s13 = 0 /\ s14 = 0

BufKeeps == UNCHANGED <<part, s5, s6, s7, s8, s9, s10, s11, s12, s13, s14>>
BytesKeeps == UNCHANGED <<part, s3, s4, s5, s6, s7, s8, s9, s10, s11, s12, s13, s14>>
SenderKeeps == UNCHANGED <<part, s7, s8, s9, s10, s11, s12, s13, s14>>
ReceiverKeeps == UNCHANGED <<part, s2, s3, s4, s5, s6, s7, s8, s9, s10, s11, s12, s13, s14>>

MCNext ==
    \/ Next
    \/ part = "pbuf" /\ Buf!Next /\ BufKeeps
    \/ part = "pbuf_refs" /\ Ref!Next /\ BufKeeps
    \/ part = "pbuf_data" /\ Bytes!Next /\ BytesKeeps
    \/ part = "sender" /\ Sender!Next /\ SenderKeeps
    \/ part = "closer" /\ Closer!Next /\ SenderKeeps
    \/ part = "receiver" /\ Receiver!Next /\ ReceiverKeeps
    \/ part = "listener" /\ Listener!Next /\ BufKeeps
    \/ part = "dialler" /\ Dialler!Next /\ BufKeeps

MCSpec == MCInit /\ [][MCNext]_vars

-----------------------------------------------------------------------------
(* pbuf.c: a reference count is the number of pointers and nothing leaks,  *)
(* tot_len is the length of the chain, a header never reaches before the   *)
(* buffer, and reads, writes and searches see the bytes of the chain       *)
(* however it is cut.                                                      *)
PbufsCorrect ==
    /\ part = "pbuf" =>
         /\ Buf!TypeOK /\ Buf!RefsExact /\ Buf!TotLen
    /\ part = "pbuf_refs" =>
         /\ Ref!RefsExact /\ Ref!RoomKept
    /\ part = "pbuf_data" =>
         /\ Bytes!TypeOK /\ Bytes!Contents /\ Bytes!ReadsAgree /\ Bytes!SearchAgrees

(* tcp_out.c, tcp_in.c: the queues hold the unacknowledged bytes once,     *)
(* snd_buf and snd_queuelen are exact, what is sent at a sequence number   *)
(* is the byte written there, inside the window, a FIN comes last, and a   *)
(* timer runs as long as bytes are not acknowledged.                       *)
SenderCorrect ==
    /\ part = "sender" =>
         /\ Sender!TypeOK /\ Sender!QueuesHoldTheStream /\ Sender!SpaceIsAccounted
         /\ Sender!WireBytesAreTheStreams /\ Sender!StaysInTheWindow
         /\ Sender!SomeTimerRuns /\ Sender!PersistMeansNothingInFlight
         /\ Sender!AbortsOnlyWhenAllIsAcked
    /\ part = "closer" =>
         /\ Closer!SomeTimerRuns /\ Closer!FinEndsTheStream
         /\ Closer!PersistMeansNothingInFlight /\ Closer!AbortsOnlyWhenAllIsAcked

(* tcp_receive, tcp_recved: the program gets the stream in order, once,    *)
(* and its end last; the out of order queue is sorted without overlaps; no *)
(* byte of the window leaks, what is announced is there, a closed window   *)
(* reopens, and what is in order is acknowledged or will be by a timer.    *)
ReceiverCorrect ==
    /\ part = "receiver" =>
         /\ Receiver!TypeOK /\ Receiver!DeliveredInOrder /\ Receiver!EofAfterAllData
         /\ Receiver!OoseqSortedDisjoint /\ Receiver!WindowIsAccounted
         /\ Receiver!EdgeIsBacked /\ Receiver!WindowReopens /\ Receiver!AckIsScheduled

(* tcp.c, tcp_priv.h: a block is in the one list of its state, the backlog *)
(* counts the connections nobody accepted, no connection points to a       *)
(* closed listener, and a segment belongs to one connection.               *)
BlocksCorrect ==
    /\ part = "listener" =>
         /\ Listener!TypeOK /\ Listener!ListsPartition /\ Listener!BacklogIsExact
         /\ Listener!ListenerIsLive
    /\ part = "dialler" =>
         /\ Dialler!ListsPartition /\ Dialler!UniqueTuples

(* tcp_update_rcv_ann_wnd, tcp_alloc: the right edge of the window never   *)
(* moves back, and a connection is sacrificed only to a higher priority.   *)
TcpStepsCorrect ==
    [][/\ part = "receiver" => Receiver!RightEdgeNeverRetreatsStep
       /\ part = "dialler" => Dialler!KillsOnlyLessStep]_vars
=============================================================================
