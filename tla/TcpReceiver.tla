----------------------------- MODULE TcpReceiver -----------------------------
(***************************************************************************)
(* The receiving half of a TCP connection: the data half of tcp_receive    *)
(* with its queue of out-of-order segments, the delivery in tcp_input, the *)
(* refused data and the delayed acknowledgements (tcp_in.c, tcp.c,         *)
(* tcp_send_empty_ack of tcp_out.c).                                       *)
(*                                                                         *)
(* The peer and the network are one: any piece of the peer's stream inside *)
(* the announced window may arrive at any moment and any number of times,  *)
(* which covers loss, reordering, duplication and retransmission in other  *)
(* pieces.  A byte is its offset in the stream.                            *)
(***************************************************************************)
EXTENDS SeqSpace, Sequences, FiniteSetsExt, SequencesExt

CONSTANTS
    TCP_WND, MSS,
    IRS,            \* sequence number of the first byte of the peer's stream
    Total,          \* length of that stream
    MaxSeg,         \* longest piece of it that arrives
    RecvedSizes,    \* how many bytes the program reports as read at once
    MaxRefuse,      \* times the program's callback refuses data
    MaxFail,        \* acknowledgements that cannot be allocated
    FinBeyond       \* the peer's FIN may lie just behind the window, as the
                    \* one of tcp_output does

ReceiverAssumption ==
    /\ {TCP_WND, MSS, Total, MaxSeg, MaxRefuse, MaxFail} \subseteq Nat
    /\ TCP_WND >= 4 /\ MSS > 0 /\ IRS \in SeqNums /\ FinBeyond \in BOOLEAN
    /\ RecvedSizes \subseteq Nat \ {0} /\ Total + 2 * TCP_WND < Wrap \div 2

VARIABLE pcb    \* the receiving fields of struct tcp_pcb, and of the program
                \* behind its callback: app, the bytes it took, unread, those
                \* not yet reported by tcp_recved, eof; of the peer: acked, the
                \* highest offset acknowledged; forgot, whether tcp_fasttmr gave
                \* an acknowledgement up; refusals and fails so far

vars == pcb

Least(a, b) == IF a < b THEN a ELSE b
Off(s) == SeqSub(s, IRS)
len(seg) == Len(seg.data)
TCP_TCPLEN(seg) == len(seg) + (IF seg.fin THEN 1 ELSE 0)
DataEnd(seg) == SeqAdd(seg.seq, len(seg))
End(seg) == SeqAdd(seg.seq, TCP_TCPLEN(seg))
FIN(seg, set) == [seg EXCEPT !.fin = set]
pbuf_realloc(seg, n) == [seg EXCEPT !.data = SubSeq(@, 1, n)]
Right(p) == SeqAdd(p.rcv_nxt, p.rcv_wnd)

Piece(a, b, fin) ==
    [seq |-> SeqAdd(IRS, a), data |-> [i \in 1 .. b - a |-> a + i - 1], fin |-> fin]

Init ==
    pcb = [state |-> "ESTABLISHED", rcv_nxt |-> IRS, rcv_wnd |-> TCP_WND,
           rcv_ann_wnd |-> TCP_WND, rcv_ann_right_edge |-> SeqAdd(IRS, TCP_WND),
           ooseq |-> <<>>, ACK_DELAY |-> FALSE, ACK_NOW |-> FALSE,
           refused |-> <<>>, refused_fin |-> FALSE,
           recv_data |-> <<>>, GOT_FIN |-> FALSE, asserts |-> TRUE,
           app |-> <<>>, unread |-> 0, eof |-> FALSE, acked |-> 0,
           forgot |-> FALSE, refusals |-> 0, fails |-> 0]
-----------------------------------------------------------------------------
(* The announced window grows only in steps worth announcing.              *)
tcp_update_rcv_ann_wnd(p) ==
    [p EXCEPT !.rcv_ann_wnd =
        IF TCP_SEQ_GEQ(Right(p), SeqAdd(p.rcv_ann_right_edge, Least(TCP_WND \div 2, MSS)))
        THEN p.rcv_wnd
        ELSE IF TCP_SEQ_GT(p.rcv_nxt, p.rcv_ann_right_edge) THEN 0
        ELSE SeqSub(p.rcv_ann_right_edge, p.rcv_nxt)]

(* Fault: the opening of the window is never worth an acknowledgement.     *)
wnd_inflationNone(p) ==
    0

wnd_inflation(p) ==
    IF TCP_SEQ_GEQ(Right(p), SeqAdd(p.rcv_ann_right_edge, Least(TCP_WND \div 2, MSS)))
    THEN SeqSub(Right(p), p.rcv_ann_right_edge) ELSE 0

tcp_ack_now(p) == [p EXCEPT !.ACK_NOW = TRUE]

tcp_ack(p) == IF p.ACK_DELAY THEN tcp_ack_now([p EXCEPT !.ACK_DELAY = FALSE])
              ELSE [p EXCEPT !.ACK_DELAY = TRUE]

(* An acknowledgement is sent, if it can be allocated.                     *)
tcp_output_alloc_header(p) ==
    [p EXCEPT !.rcv_ann_right_edge = SeqAdd(p.rcv_nxt, p.rcv_ann_wnd),
              !.acked = Off(p.rcv_nxt), !.forgot = FALSE]

tcp_send_empty_ack(p, ok) ==
    IF ok THEN [tcp_output_alloc_header(p) EXCEPT !.ACK_DELAY = FALSE, !.ACK_NOW = FALSE]
    ELSE [p EXCEPT !.ACK_DELAY = TRUE, !.ACK_NOW = TRUE, !.fails = @ + 1]

(* tcp_output with nothing to send but the acknowledgement.                *)
tcp_output(p, ok) == IF p.ACK_NOW THEN tcp_send_empty_ack(p, ok) ELSE p
-----------------------------------------------------------------------------
(* The segments of q the new one covers are dropped and leave it their     *)
(* FIN; the new one ends where the next begins.                            *)
Covered(end, q) ==
    SelectInSeq(Append(q, [seq |-> SeqAdd(end, 1), data |-> <<>>, fin |-> FALSE]),
                LAMBDA next : ~TCP_SEQ_GEQ(end, DataEnd(next))) - 1

Absorb(seg, n, q) == FIN(seg, seg.fin \/ \E i \in 1 .. n : q[i].fin)

TrimBefore(seg, end, q) ==
    IF q # <<>> /\ TCP_SEQ_GT(end, Head(q).seq)
    THEN pbuf_realloc(seg, SeqSub(Head(q).seq, seg.seq)) ELSE seg

From(q, n) == SubSeq(q, n, Len(q))

tcp_oos_insert_segment(cseg, next) ==
    LET n == Covered(DataEnd(cseg), next)
        rest == From(next, n + 1)
    IN  IF cseg.fin THEN <<cseg>>
        ELSE <<TrimBefore(Absorb(cseg, n, next), DataEnd(cseg), rest)>> \o rest

(* The last segment of the queue is trimmed to make room for a later one,  *)
(* which is trimmed to the window.                                         *)
Clip(prev, seg) ==
    IF TCP_SEQ_GT(DataEnd(prev), seg.seq)
    THEN pbuf_realloc(prev, SeqSub(seg.seq, prev.seq)) ELSE prev

InWindow(p, seg) ==
    IF TCP_SEQ_GT(End(seg), Right(p))
    THEN pbuf_realloc(FIN(seg, FALSE), SeqSub(Right(p), seg.seq)) ELSE seg

AppendOoseq(p, seg) ==
    LET q == p.ooseq
        n == Len(q)
    IN  IF q[n].fin THEN q
        ELSE [q EXCEPT ![n] = Clip(@, seg)] \o <<InWindow(p, seg)>>

(* A segment that is not in order.  i is the first one of the queue that   *)
(* does not begin before it.                                               *)
InsertOoseq(p, seg) ==
    LET q == p.ooseq
        i == SelectInSeq(q, LAMBDA next : TCP_SEQ_LEQ(seg.seq, next.seq))
        before == IF i > 1 THEN [SubSeq(q, 1, i - 1) EXCEPT ![i - 1] = Clip(@, seg)]
                  ELSE <<>>
    IN  CASE q = <<>> -> <<seg>>
          [] q # <<>> /\ i = 0 -> AppendOoseq(p, seg)
          [] i > 0 /\ q[i].seq = seg.seq ->
                IF len(seg) > len(q[i])
                THEN SubSeq(q, 1, i - 1) \o tcp_oos_insert_segment(seg, From(q, i))
                ELSE q
          [] OTHER -> before \o tcp_oos_insert_segment(seg, From(q, i))
-----------------------------------------------------------------------------
(* A segment that begins before rcv_nxt loses the bytes already here.      *)
TrimFront(p, seg) ==
    LET off == SeqSub(p.rcv_nxt, seg.seq)
    IN  IF TCP_SEQ_BETWEEN(p.rcv_nxt, SeqAdd(seg.seq, 1),
                           SeqAdd(seg.seq, TCP_TCPLEN(seg) - 1))
        THEN [seg EXCEPT !.seq = p.rcv_nxt, !.data = SubSeq(@, off + 1, len(seg))]
        ELSE seg

OldAcked(p, seg) ==
    IF seg = TrimFront(p, seg) /\ TCP_SEQ_LT(seg.seq, p.rcv_nxt)
    THEN tcp_ack_now(p) ELSE p

TrimToWindow(p, seg) ==
    IF TCP_TCPLEN(seg) > p.rcv_wnd THEN pbuf_realloc(FIN(seg, FALSE), p.rcv_wnd) ELSE seg

(* The in-order segment against the queue: what is left of each.           *)
TrimToOoseq(seg, q) ==
    LET n == Covered(End(seg), q)
        got == Absorb(seg, n, q)
    IN  TrimBefore(got, End(got), From(q, n + 1))

RestOfOoseq(seg, q) == IF seg.fin THEN <<>> ELSE From(q, Covered(End(seg), q) + 1)

(* One segment moves from the queue, or the wire, to the program.          *)
Take(p, seg) ==
    [p EXCEPT !.rcv_nxt = SeqAdd(@, TCP_TCPLEN(seg)),
              !.rcv_wnd = @ - TCP_TCPLEN(seg),
              !.recv_data = @ \o seg.data, !.GOT_FIN = @ \/ seg.fin,
              !.asserts = @ /\ p.rcv_wnd >= TCP_TCPLEN(seg)]

(* How many segments of the queue follow rcv_nxt without a gap.            *)
InOrder(p, q) ==
    LET gap(i) == q[i].seq # (IF i = 1 THEN p.rcv_nxt ELSE End(q[i - 1]))
        gaps == {i \in DOMAIN q : gap(i)}
    IN  IF gaps = {} THEN Len(q) ELSE Min(gaps) - 1

DeliverOoseq(p) ==
    LET n == InOrder(p, p.ooseq)
        q == FoldLeft(Take, p, SubSeq(p.ooseq, 1, n))
    IN  [q EXCEPT !.ooseq = From(@, n + 1),
                  !.state = IF \E i \in 1 .. n : p.ooseq[i].fin THEN "CLOSE_WAIT" ELSE @]

tcp_receive(p, seg0, ok) ==
    LET seg == TrimFront(p, seg0)
        a == OldAcked(p, seg0)
        in == TrimToWindow(a, seg)
        taken == Take([a EXCEPT !.ooseq = RestOfOoseq(in, @)],
                      IF in.fin THEN in ELSE TrimToOoseq(in, a.ooseq))
        inside(s) == TCP_SEQ_BETWEEN(s, a.rcv_nxt, SeqAdd(a.rcv_nxt, a.rcv_wnd - 1))
    IN  CASE TCP_TCPLEN(seg0) = 0 \/ p.state = "CLOSE_WAIT" ->
               IF inside(seg0.seq) THEN p ELSE tcp_ack_now(p)
          [] OTHER ->
               IF ~inside(seg.seq) THEN tcp_send_empty_ack(a, ok)
               ELSE IF seg.seq = a.rcv_nxt
               THEN tcp_ack(tcp_update_rcv_ann_wnd(DeliverOoseq(taken)))
               ELSE tcp_send_empty_ack([a EXCEPT !.ooseq = InsertOoseq(a, seg)], ok)

(* tcp_process in the states with an open receiving side.                  *)
tcp_process(p, seg, ok) ==
    LET q == tcp_receive([p EXCEPT !.recv_data = <<>>, !.GOT_FIN = FALSE], seg, ok)
    IN  IF q.GOT_FIN THEN tcp_ack_now([q EXCEPT !.state = "CLOSE_WAIT"]) ELSE q

(* The end of the stream gives its place in the window back.               *)
Closed(p) == [p EXCEPT !.rcv_wnd = IF @ # TCP_WND THEN @ + 1 ELSE @]

(* TCP_EVENT_RECV: the program's callback takes the data or refuses it.    *)
TCP_EVENT_RECV(p, data, fin, takes) ==
    IF takes THEN LET q == [p EXCEPT !.app = @ \o data, !.unread = @ + Len(data),
                                     !.refused = <<>>, !.refused_fin = FALSE]
                  IN  IF fin THEN [Closed(q) EXCEPT !.eof = TRUE] ELSE q
    ELSE [p EXCEPT !.refused = data, !.refused_fin = fin, !.refusals = @ + 1]

tcp_process_refused_data(p, takes) ==
    IF p.refused = <<>> THEN p
    ELSE TCP_EVENT_RECV(p, p.refused, p.refused_fin, takes)

(* What tcp_input hands over after tcp_process.                            *)
Deliver(p, takes) ==
    IF p.recv_data # <<>> THEN TCP_EVENT_RECV(p, p.recv_data, p.GOT_FIN, takes)
    ELSE IF p.GOT_FIN THEN TCP_EVENT_RECV(p, <<>>, TRUE, TRUE) ELSE p

(* takes and ok tell, for each call of the callback and each allocation,   *)
(* how it ends.                                                            *)
tcp_input(seg, takes, ok) ==
    LET p == tcp_process_refused_data(pcb, takes[1])
        q == Deliver(tcp_process(p, seg, ok[1]), takes[2])
    IN  pcb' = IF p.refused # <<>> /\ TCP_TCPLEN(seg) > 0
               THEN IF p.rcv_ann_wnd = 0 THEN tcp_send_empty_ack(p, ok[1]) ELSE p
               ELSE [tcp_output(q, ok[2]) EXCEPT !.recv_data = <<>>, !.GOT_FIN = FALSE]

(* What a peer that keeps to the announced window may send: a piece of the *)
(* stream, or one byte behind a closed window.                             *)
Edge == Off(pcb.rcv_ann_right_edge)
Sendable(a, b, fin) ==
    /\ fin => b = Total
    /\ \/ b + (IF fin /\ ~FinBeyond THEN 1 ELSE 0) <= Edge
       \/ a = Edge /\ (b - a) + (IF fin THEN 1 ELSE 0) = 1

Segments == {<<a, b, fin>> \in (0 .. Total) \X (0 .. Total) \X BOOLEAN :
                /\ a <= b /\ b - a <= MaxSeg /\ (a < b \/ fin)
                /\ Sendable(a, b, fin)}

(* How two calls may end when used of max failures happened.               *)
Results(used, max) ==
    {r \in BOOLEAN \X BOOLEAN : used + Cardinality({i \in 1 .. 2 : ~r[i]}) <= max}
Takes == Results(pcb.refusals, MaxRefuse)
Allocs == Results(pcb.fails, MaxFail)

Arrives ==
    \E s \in Segments, takes \in Takes, ok \in Allocs :
        tcp_input(Piece(s[1], s[2], s[3]), takes, ok)

(* A keep-alive of the peer: no data, the number before rcv_nxt.           *)
KeepaliveArrives ==
    \E takes \in Takes, ok \in Allocs :
        tcp_input([Piece(0, 0, FALSE) EXCEPT !.seq = SeqSub(pcb.rcv_nxt, 1)], takes, ok)

tcp_recved ==
    \E n \in RecvedSizes, ok \in Allocs :
        /\ n <= pcb.unread
        /\ LET p == [pcb EXCEPT !.rcv_wnd = Least(@ + n, TCP_WND), !.unread = @ - n]
               q == tcp_update_rcv_ann_wnd(p)
           IN  pcb' = IF wnd_inflation(p) >= Least(TCP_WND \div 4, 4 * MSS)
                      THEN tcp_output(tcp_ack_now(q), ok[1]) ELSE q

(* The flags are cleared whether or not the acknowledgement was sent.      *)
DelayedAck(p, ok) ==
    IF p.ACK_DELAY
    THEN [tcp_output(tcp_ack_now(p), ok) EXCEPT !.ACK_DELAY = FALSE, !.ACK_NOW = FALSE,
                                                !.forgot = ~ok]
    ELSE p

tcp_fasttmr ==
    \E takes \in Takes, ok \in Allocs :
        pcb' = tcp_process_refused_data(DelayedAck(pcb, ok[1]), takes[1])

(* A segment of the program's own data carries an acknowledgement.         *)
tcp_output_segment ==
    pcb' = [tcp_output_alloc_header(pcb) EXCEPT !.ACK_DELAY = FALSE, !.ACK_NOW = FALSE]

(* Nothing arrived for TCP_OOSEQ_TIMEOUT, or memory ran out.               *)
tcp_free_ooseq ==
    /\ pcb.ooseq # <<>>
    /\ pcb' = [pcb EXCEPT !.ooseq = <<>>]

Next == \/ Arrives \/ KeepaliveArrives \/ tcp_recved \/ tcp_fasttmr
        \/ tcp_output_segment \/ tcp_free_ooseq

Spec == Init /\ [][Next]_vars

(* The program's event loop runs the timers.                               *)
FairSpec == Spec /\ WF_vars(tcp_fasttmr)
-----------------------------------------------------------------------------
TypeOK ==
    /\ pcb.state \in {"ESTABLISHED", "CLOSE_WAIT"}
    /\ pcb.rcv_nxt \in SeqNums /\ pcb.rcv_ann_right_edge \in SeqNums
    /\ {pcb.rcv_wnd, pcb.rcv_ann_wnd, pcb.unread} \subseteq 0 .. TCP_WND
    /\ {pcb.ACK_DELAY, pcb.ACK_NOW, pcb.refused_fin, pcb.eof} \subseteq BOOLEAN
    /\ \A i \in DOMAIN pcb.ooseq : pcb.ooseq[i].seq \in SeqNums

(* What the callback took and what it refused are the first bytes of the   *)
(* stream, in order and once, up to rcv_nxt, however the peer cut them.    *)
DeliveredInOrder ==
    LET got == pcb.app \o pcb.refused
    IN  /\ got = Piece(0, Len(got), FALSE).data
        /\ Off(pcb.rcv_nxt) = Len(got) + (IF pcb.eof \/ pcb.refused_fin THEN 1 ELSE 0)

(* The end of the stream is reported after its last byte.                  *)
EofAfterAllData == pcb.eof => Len(pcb.app) = Total

(* The out-of-order queue is sorted, without overlaps, beyond rcv_nxt and  *)
(* inside the window, its bytes are the stream's, a FIN is its last.       *)
OoseqSortedDisjoint ==
    LET q == pcb.ooseq
    IN  \A i \in DOMAIN q :
            /\ TCP_TCPLEN(q[i]) > 0
            /\ q[i].data = Piece(Off(q[i].seq), Off(q[i].seq) + len(q[i]), FALSE).data
            /\ Off(q[i].seq) > Off(pcb.rcv_nxt)
            /\ q[i].fin => i = Len(q) /\ Off(DataEnd(q[i])) = Total
            /\ i < Len(q) => Off(End(q[i])) <= Off(q[i + 1].seq)

(* LWIP_ASSERT("tcp_receive: ooseq tcplen > rcv_wnd\n").                   *)
OoseqFitsWindow == pcb.asserts

(* Every byte of the window is free, unread, or refused: no sequence of    *)
(* segments, refusals and reads leaks a byte of it.                        *)
WindowIsAccounted ==
    pcb.rcv_wnd + pcb.unread + Len(pcb.refused) + (IF pcb.refused_fin THEN 1 ELSE 0)
        = TCP_WND

(* A promise to the peer is kept: the right edge never moves back, and the *)
(* memory for everything up to it is there.                                *)
RightEdgeNeverRetreatsStep ==
    TCP_SEQ_GEQ(pcb'.rcv_ann_right_edge, pcb.rcv_ann_right_edge)

RightEdgeNeverRetreats == [][RightEdgeNeverRetreatsStep]_vars
EdgeIsBacked == Off(pcb.rcv_ann_right_edge) <= Off(Right(pcb))

(* A peer facing a closed window hears that it opened: once the program    *)
(* read everything, a window was announced or its announcement is due.     *)
(* The exception is the one of AckIsScheduled.                             *)
WindowReopens ==
    (pcb.unread = 0 /\ pcb.refused = <<>> /\ pcb.state = "ESTABLISHED" /\ ~pcb.forgot)
        => (Off(pcb.rcv_ann_right_edge) > Off(pcb.rcv_nxt) \/ pcb.ACK_DELAY \/ pcb.ACK_NOW)

(* What is in order is acknowledged, or the flags that make a timer        *)
(* acknowledge it are set.  The exception: tcp_send_empty_ack asks for a   *)
(* retry when it fails ("let tcp_fasttmr retry sending this ACK"), but     *)
(* when the call came from tcp_fasttmr that function clears the request.   *)
AckIsScheduled ==
    pcb.acked = Off(pcb.rcv_nxt) \/ pcb.ACK_DELAY \/ pcb.ACK_NOW \/ pcb.forgot

(* The peer hears of everything that arrived in order.                     *)
Acked == pcb.acked = Off(pcb.rcv_nxt)
AllIsAcked == []<>Acked
==============================================================================
