------------------------------ MODULE TcpSender ------------------------------
(***************************************************************************)
(* The sending half of a TCP connection: tcp_out.c, the acknowledgement    *)
(* half of tcp_receive (tcp_in.c) and the retransmission and persist       *)
(* timers of tcp_slowtmr (tcp.c), against a peer behind a network that     *)
(* loses, delays and reorders.                                             *)
(*                                                                         *)
(* The connection is established.  A byte is its offset in the stream, so  *)
(* a segment that carries wrong bytes is visible.  Abstracted: headers and *)
(* checksums (module Checksum), the lengths of timeouts (a running timer   *)
(* may expire at any time), the persist back-off slot, whose only          *)
(* use is that length.  Nagle's algorithm is on, as the program never sets *)
(* TF_NODELAY; timestamps, SACK and window scaling are compiled out.       *)
(***************************************************************************)
EXTENDS SeqSpace, Sequences, FiniteSets, SequencesExt

CONSTANTS
    MSS, TCP_SND_BUF, TCP_SND_QUEUELEN, TCP_MAXRTX,
    InitCwnd,       \* LWIP_TCP_CALC_INITIAL_CWND
    ISS,            \* sequence number of the first byte of data
    PeerBuf,        \* receive buffer of the peer, its window when empty
    WriteSizes,     \* lengths of the program's writes
    ReadSizes,      \* how many bytes the peer's application reads at once
    MaxBytes,       \* bytes written
    MaxLoss,        \* segments and acknowledgements lost
    MaxFail,        \* allocations that fail
    MaxWire,        \* messages on the wire, per direction
    PeerData,       \* bytes the peer sends
    Closes,         \* whether the program closes the connection
    Patient         \* timers expire only when nothing is under way

SenderAssumption ==
    /\ {MSS, TCP_SND_BUF, TCP_SND_QUEUELEN, TCP_MAXRTX, InitCwnd, PeerBuf,
        MaxBytes, MaxLoss, MaxFail, MaxWire, PeerData} \subseteq Nat
    /\ MSS > 0 /\ ISS \in SeqNums /\ WriteSizes \cup ReadSizes \subseteq Nat \ {0}
    /\ MaxBytes + 2 * PeerBuf < Wrap \div 2 /\ {Closes, Patient} \subseteq BOOLEAN

VARIABLES
    pcb,        \* the sending fields of struct tcp_pcb
    wire,       \* set of segments on their way to the peer
    acks,       \* set of acknowledgements on their way back
    peer,       \* [nxt, read, fin, seq]: in-order bytes, bytes read, FIN seen,
                \* its own next sequence number
    lost, fails \* losses and failures so far

vars == <<pcb, wire, acks, peer, lost, fails>>

(* F(x), with x evaluated once.                                            *)
With(x, F(_)) == CHOOSE r \in {F(v) : v \in {x}} : TRUE
Least(a, b) == IF a < b THEN a ELSE b
Off(s) == SeqSub(s, ISS)
len(seg) == Len(seg.data)
TCP_TCPLEN(seg) == len(seg) + (IF seg.fin THEN 1 ELSE 0)
End(seg) == SeqAdd(seg.seq, TCP_TCPLEN(seg))
(* Bytes n .. m-1 of the stream.                                           *)
Bytes(n, m) == [i \in 1 .. m - n |-> n + i - 1]
TCP_WND_INC(wnd, inc) == Least(wnd + inc, Wrap \div 2)

tcp_create_segment(p, data, at) ==
    [seq |-> SeqAdd(p.snd_lbb, at), data |-> data, fin |-> FALSE, clen |-> 1,
     cut |-> FALSE]

(* A segment on the wire; a probe may lie beyond the window.  cut marks the *)
(* first part of a segment that tcp_split_unsent_seg divided.               *)
Packet(seg, probe) == [seq |-> seg.seq, data |-> seg.data, fin |-> seg.fin,
                       cut |-> seg.cut, probe |-> probe]

Init ==
    /\ pcb = [state |-> "ESTABLISHED", unsent |-> <<>>, unacked |-> <<>>,
              snd_nxt |-> ISS, lastack |-> ISS, snd_lbb |-> ISS,
              snd_buf |-> TCP_SND_BUF, snd_queuelen |-> 0,
              snd_wnd |-> PeerBuf, snd_wnd_max |-> PeerBuf,
              snd_wl1 |-> 0, snd_wl2 |-> ISS,
              cwnd |-> InitCwnd, ssthresh |-> TCP_SND_BUF, bytes_acked |-> 0,
              dupacks |-> 0, rtime |-> FALSE, nrtx |-> 0, persist |-> FALSE,
              persist_probe |-> 0, unsent_oversize |-> 0, rto_end |-> ISS,
              NAGLEMEMERR |-> FALSE, FIN |-> FALSE, RTO |-> FALSE,
              INFR |-> FALSE, out |-> {}, err |-> FALSE]
    /\ wire = {} /\ acks = {} /\ lost = 0 /\ fails = 0
    /\ peer = [nxt |-> 0, read |-> 0, fin |-> FALSE, seq |-> 0]
-----------------------------------------------------------------------------
(* tcp_write: the bytes fill the oversized buffer of the last unsent       *)
(* segment, then are appended to it as another buffer, then go into new    *)
(* segments.  Nothing is changed before every allocation succeeded.        *)
tcp_write_checks(p, n) ==
    /\ p.state \in {"ESTABLISHED", "CLOSE_WAIT"}
    /\ n <= p.snd_buf
    /\ p.snd_queuelen < TCP_SND_QUEUELEN

mss_local(p) == LET m == Least(MSS, p.snd_wnd_max \div 2)
                IN  IF m > 0 THEN m ELSE MSS

space(p) == IF p.unsent = <<>> THEN 0 ELSE mss_local(p) - len(Last(p.unsent))

oversize_used(p, n) ==
    IF p.unsent = <<>> THEN 0
    ELSE Least(space(p), Least(p.unsent_oversize, n))

concat_len(p, n) ==
    IF p.unsent = <<>> THEN 0
    ELSE IF len(Last(p.unsent)) = 0 THEN 0
    ELSE Least(space(p), n) - oversize_used(p, n)

(* Where the k-th new segment ends, counted from snd_lbb.                  *)
NewSegs(p, n, pos) ==
    LET m == mss_local(p)
        count == (n - pos + m - 1) \div m
        from(k) == pos + (k - 1) * m
        base == Off(p.snd_lbb)
    IN  [k \in 1 .. count |->
            tcp_create_segment(p, Bytes(base + from(k), base + Least(from(k) + m, n)),
                               from(k))]

(* What tcp_pbuf_prealloc leaves at the end of the last buffer.            *)
tcp_pbuf_prealloc(p, n, queue) ==
    LET used == oversize_used(p, n)
        cat == concat_len(p, n)
    IN  CASE queue # <<>> ->
               IF Len(queue) > 1 \/ p.unsent # <<>> \/ p.unacked # <<>>
               THEN mss_local(p) - len(Last(queue)) ELSE 0
          [] queue = <<>> /\ cat > 0 -> space(p) - used - cat
          [] OTHER -> p.unsent_oversize - used

tcp_write(p, n) ==
    LET used == oversize_used(p, n)
        cat == concat_len(p, n)
        queue == NewSegs(p, n, used + cat)
        base == Off(p.snd_lbb)
        last == Len(p.unsent)
        queuelen == p.snd_queuelen + (IF cat > 0 THEN 1 ELSE 0) + Len(queue)
        extended == IF used + cat = 0 THEN p.unsent
                    ELSE [p.unsent EXCEPT
                            ![last].data = @ \o Bytes(base, base + used + cat),
                            ![last].clen = @ + (IF cat > 0 THEN 1 ELSE 0)]
    IN  IF ~tcp_write_checks(p, n) \/ (queue # <<>> /\ queuelen > TCP_SND_QUEUELEN)
        THEN [p EXCEPT !.NAGLEMEMERR = TRUE, !.err = TRUE]
        ELSE [p EXCEPT !.unsent = extended \o queue,
                       !.unsent_oversize = tcp_pbuf_prealloc(p, n, queue),
                       !.snd_lbb = SeqAdd(@, n), !.snd_buf = @ - n,
                       !.snd_queuelen = queuelen]

(* tcp_split_unsent_seg: the head of unsent is cut after split bytes.  The *)
(* FIN, which the code means to move to the remainder, stays on the first  *)
(* part too: TCPH_SET_FLAG adds flags to the header and clears none.       *)
tcp_split_unsent_seg(p, split) ==
    LET useg == Head(p.unsent)
        first == [useg EXCEPT !.data = SubSeq(@, 1, split), !.clen = 1, !.cut = TRUE]
        rest == [seq |-> SeqAdd(useg.seq, split), clen |-> 1, fin |-> useg.fin,
                 data |-> SubSeq(useg.data, split + 1, len(useg)), cut |-> FALSE]
    IN  IF len(useg) <= split THEN p
        ELSE [p EXCEPT !.unsent = <<first, rest>> \o Tail(@),
                       !.snd_queuelen = @ - useg.clen + 2,
                       !.unsent_oversize = IF Len(p.unsent) = 1 THEN 0 ELSE @]

tcp_enqueue_flags(p) ==
    [p EXCEPT !.unsent = Append(@, [tcp_create_segment(p, <<>>, 0) EXCEPT !.fin = TRUE]),
              !.unsent_oversize = 0, !.snd_lbb = SeqAdd(@, 1), !.FIN = TRUE,
              !.snd_queuelen = @ + 1]

tcp_send_fin(p) ==
    IF p.unsent # <<>> /\ ~Last(p.unsent).fin
    THEN [p EXCEPT !.unsent[Len(p.unsent)].fin = TRUE, !.FIN = TRUE]
    ELSE tcp_enqueue_flags(p)
-----------------------------------------------------------------------------
(* tcp_output.  The program's interface (core/output_export.go) accepts    *)
(* every packet, so its error path is never taken.                         *)
Fits(p, seg) == SeqAdd(SeqSub(seg.seq, p.lastack), len(seg))
                    <= Least(p.snd_wnd, p.cwnd)

tcp_do_output_nagle(p) ==
    \/ p.unacked = <<>> \/ p.INFR
    \/ Len(p.unsent) > 1 \/ (p.unsent # <<>> /\ len(Head(p.unsent)) >= MSS)
    \/ p.snd_buf = 0 \/ p.snd_queuelen >= TCP_SND_QUEUELEN

tcp_output_segment(p, seg) ==
    [p EXCEPT !.rtime = TRUE, !.out = @ \cup {Packet(seg, FALSE)}]

(* unacked stays sorted: a retransmitted segment goes back to its place.   *)
Precedes(seg, other) == TCP_SEQ_LT(seg.seq, other.seq)
InsertSorted(seg, q) ==
    LET n == Cardinality({i \in DOMAIN q : Precedes(q[i], seg)})
    IN  SubSeq(q, 1, n) \o <<seg>> \o SubSeq(q, n + 1, Len(q))

SegmentSent(p, seg) ==
    [p EXCEPT !.unsent = Tail(@),
              !.snd_nxt = IF TCP_SEQ_LT(@, End(seg)) THEN End(seg) ELSE @,
              !.unacked = IF TCP_TCPLEN(seg) > 0 THEN InsertSorted(seg, @) ELSE @]

output_done(p) == [p EXCEPT !.NAGLEMEMERR = FALSE,
                            !.unsent_oversize = IF p.unsent = <<>> THEN 0 ELSE @]

RECURSIVE OutputLoop(_)
OutputLoop(p) ==
    IF \/ p.unsent = <<>> \/ ~Fits(p, Head(p.unsent))
       \/ ~tcp_do_output_nagle(p) /\ ~p.NAGLEMEMERR /\ ~p.FIN
    THEN output_done(p)
    ELSE With(SegmentSent(tcp_output_segment(p, Head(p.unsent)), Head(p.unsent)),
              OutputLoop)

tcp_output(p) ==
    IF p.unsent = <<>> THEN [p EXCEPT !.NAGLEMEMERR = FALSE]
    ELSE IF ~Fits(p, Head(p.unsent))
    THEN [p EXCEPT !.NAGLEMEMERR = FALSE,
                   !.persist = @ \/ (Least(p.snd_wnd, p.cwnd) = p.snd_wnd
                                     /\ p.unacked = <<>>),
                   !.persist_probe =
                       IF ~p.persist /\ Least(p.snd_wnd, p.cwnd) = p.snd_wnd
                          /\ p.unacked = <<>> THEN 0 ELSE @]
    ELSE With([p EXCEPT !.persist = FALSE], OutputLoop)
-----------------------------------------------------------------------------
(* Retransmission.                                                         *)
tcp_rexmit_rto_prepare(p) ==
    [p EXCEPT !.unsent = p.unacked \o @, !.unacked = <<>>, !.RTO = TRUE,
              !.rto_end = End(Last(p.unacked))]

tcp_rexmit_rto_commit(p) ==
    With([p EXCEPT !.nrtx = Least(@ + 1, TCP_MAXRTX)], tcp_output)

tcp_rexmit(p) ==
    [p EXCEPT !.unacked = Tail(@), !.unsent = InsertSorted(Head(p.unacked), @),
              !.unsent_oversize =
                 IF \A i \in DOMAIN p.unsent : Precedes(p.unsent[i], Head(p.unacked))
                 THEN 0 ELSE @,
              !.nrtx = Least(@ + 1, TCP_MAXRTX)]

Halved(p) == LET half == Least(p.cwnd, p.snd_wnd) \div 2
             IN  IF half < 2 * MSS THEN 2 * MSS ELSE half

tcp_rexmit_fast(p) ==
    IF p.unacked = <<>> \/ p.INFR THEN p
    ELSE [tcp_rexmit(p) EXCEPT !.ssthresh = Halved(p), !.rtime = TRUE,
                               !.cwnd = Halved(p) + 3 * MSS, !.INFR = TRUE]

(* Fault: the probe takes over the flags of the segment.                   *)
tcp_zero_window_probeFin(p) ==
    LET seg == Head(p.unsent)
        is_fin == seg.fin /\ len(seg) = 0
        probe == [seg EXCEPT !.data = IF is_fin THEN <<>> ELSE SubSeq(@, 1, 1),
                             !.fin = seg.fin]
    IN  [p EXCEPT !.persist_probe = Least(@ + 1, TCP_MAXRTX),
                  !.out = @ \cup {Packet(probe, TRUE)},
                  !.snd_nxt = IF TCP_SEQ_LT(@, SeqAdd(seg.seq, 1))
                              THEN SeqAdd(seg.seq, 1) ELSE @]

tcp_zero_window_probe(p) ==
    LET seg == Head(p.unsent)
        is_fin == seg.fin /\ len(seg) = 0
        probe == [seg EXCEPT !.data = IF is_fin THEN <<>> ELSE SubSeq(@, 1, 1),
                             !.fin = is_fin]
    IN  [p EXCEPT !.persist_probe = Least(@ + 1, TCP_MAXRTX),
                  !.out = @ \cup {Packet(probe, TRUE)},
                  !.snd_nxt = IF TCP_SEQ_LT(@, SeqAdd(seg.seq, 1))
                              THEN SeqAdd(seg.seq, 1) ELSE @]
-----------------------------------------------------------------------------
(* tcp_receive, its first half: the acknowledgement a.                     *)
WindowUpdate(p, a) ==
    IF \/ TCP_SEQ_LT(p.snd_wl1, a.seq)
       \/ p.snd_wl1 = a.seq /\ TCP_SEQ_LT(p.snd_wl2, a.ack)
       \/ p.snd_wl2 = a.ack /\ a.wnd > p.snd_wnd
    THEN [p EXCEPT !.snd_wnd = a.wnd, !.snd_wl1 = a.seq, !.snd_wl2 = a.ack,
                   !.snd_wnd_max = IF @ < a.wnd THEN a.wnd ELSE @]
    ELSE p

(* old is the control block before the window was updated.                 *)
DupAck(old, p, a) ==
    LET same_edge == SeqAdd(p.snd_wl2, p.snd_wnd) = SeqAdd(old.snd_wl2, old.snd_wnd)
        q == [p EXCEPT !.dupacks = @ + 1,
                       !.cwnd = IF p.dupacks + 1 > 3 THEN TCP_WND_INC(@, MSS) ELSE @]
    IN  IF a.len = 0 /\ same_edge /\ p.rtime /\ p.lastack = a.ack
        THEN IF q.dupacks >= 3 THEN tcp_rexmit_fast(q) ELSE q
        ELSE [p EXCEPT !.dupacks = 0]

CongestionWindow(p, acked) ==
    IF p.cwnd < p.ssthresh
    THEN [p EXCEPT !.cwnd = TCP_WND_INC(@, Least(acked, (IF p.RTO THEN 1 ELSE 2) * MSS))]
    ELSE LET ba == TCP_WND_INC(p.bytes_acked, acked)
         IN  IF ba >= p.cwnd
             THEN [p EXCEPT !.bytes_acked = ba - p.cwnd, !.cwnd = TCP_WND_INC(@, MSS)]
             ELSE [p EXCEPT !.bytes_acked = ba]

(* The acknowledged segments at the head of a list.                        *)
tcp_free_acked_segments(q, ackno) ==
    SelectInSeq(Append(q, [seq |-> ackno, data |-> <<>>, fin |-> TRUE, clen |-> 0,
                           cut |-> FALSE]),
                LAMBDA seg : ~TCP_SEQ_LEQ(End(seg), ackno)) - 1

SumOf(q, f(_)) == FoldLeft(LAMBDA acc, seg : acc + f(seg), 0, q)

FreeAcked(p, ackno) ==
    LET a == tcp_free_acked_segments(p.unacked, ackno)
        u == tcp_free_acked_segments(p.unsent, ackno)
        gone == SubSeq(p.unacked, 1, a) \o SubSeq(p.unsent, 1, u)
        clen(seg) == seg.clen
        unacked == SubSeq(p.unacked, a + 1, Len(p.unacked))
        unsent == SubSeq(p.unsent, u + 1, Len(p.unsent))
    IN  [p EXCEPT !.unacked = unacked, !.unsent = unsent,
                  !.rtime = unacked # <<>>,
                  !.unsent_oversize = IF unsent = <<>> THEN 0 ELSE @,
                  !.snd_buf = @ + SumOf(gone, len),
                  !.snd_queuelen = @ - SumOf(gone, clen)]

RtoOver(p) ==
    [p EXCEPT !.RTO = @ /\ ~(IF p.unacked = <<>>
                             THEN p.unsent = <<>> \/ TCP_SEQ_LEQ(p.rto_end, Head(p.unsent).seq)
                             ELSE TCP_SEQ_LEQ(p.rto_end, Head(p.unacked).seq))]

NewAck(p, a) ==
    LET q == IF p.INFR THEN [p EXCEPT !.INFR = FALSE, !.cwnd = p.ssthresh,
                                      !.bytes_acked = 0] ELSE p
        r == [q EXCEPT !.nrtx = 0, !.dupacks = 0, !.lastack = a.ack]
    IN  With(FreeAcked(CongestionWindow(r, SeqSub(a.ack, p.lastack)), a.ack), RtoOver)

tcp_receive_ack(old, a) ==
    LET p == WindowUpdate(old, a)
    IN  IF TCP_SEQ_LEQ(a.ack, p.lastack) THEN DupAck(old, p, a)
        ELSE IF TCP_SEQ_BETWEEN(a.ack, SeqAdd(p.lastack, 1), p.snd_nxt)
        THEN NewAck(p, a)
        ELSE p      \* tcp_send_empty_ack: an acknowledgement of ours only

(* tcp_process: FIN_WAIT_1 ends when everything is acknowledged.           *)
FinAcked(p, a) ==
    IF p.state = "FIN_WAIT_1" /\ a.ack = p.snd_nxt /\ p.unsent = <<>>
    THEN [p EXCEPT !.state = "FIN_WAIT_2"] ELSE p
-----------------------------------------------------------------------------
(* Steps.  What tcp_output emitted goes onto the wire.                     *)
Quiet == acks = {} /\ wire = {}
Open == pcb.state \notin {"CLOSED", "ABORTED"}

Emit(result) ==
    \E p \in {result} :
       /\ wire' = wire \cup p.out
       /\ Cardinality(wire') <= MaxWire
       /\ pcb' = [p EXCEPT !.out = {}, !.err = FALSE]

(* tcpConn.writeInternal: tcp_write, and tcp_output when it succeeded.     *)
Write(n) ==
    /\ pcb.state = "ESTABLISHED"
    /\ Off(pcb.snd_lbb) + n <= MaxBytes
    /\ \E p \in {tcp_write(pcb, n)} : Emit(IF p.err THEN p ELSE tcp_output(p))
    /\ UNCHANGED <<acks, peer, lost, fails>>

(* An allocation of tcp_write failed, or one of tcp_enqueue_flags, after    *)
(* which tcp_fasttmr tries to close again (TF_CLOSEPEND).                   *)
WriteFails ==
    /\ pcb.state = "ESTABLISHED" /\ fails < MaxFail
    /\ pcb' = [pcb EXCEPT !.NAGLEMEMERR = TRUE]
    /\ fails' = fails + 1
    /\ UNCHANGED <<wire, acks, peer, lost>>

(* tcp_close: tcp_close_shutdown_fin of an established connection.         *)
tcp_close_shutdown_fin ==
    /\ Closes /\ pcb.state = "ESTABLISHED"
    /\ Emit(tcp_output([tcp_send_fin(pcb) EXCEPT !.state = "FIN_WAIT_1"]))
    /\ UNCHANGED <<acks, peer, lost, fails>>

(* tcp_input of an acknowledgement: tcp_process, then tcp_output.          *)
tcp_input(a) ==
    /\ Open
    /\ acks' = acks \ {a}
    /\ \E p \in {tcp_receive_ack([pcb EXCEPT !.persist_probe = 0], a)} :
          Emit(With(FinAcked(p, a), tcp_output))
    /\ UNCHANGED <<peer, lost, fails>>

(* tcp_slowtmr.  rtime running: the retransmission timer may expire.       *)
RtoBackoff(p) == [p EXCEPT !.ssthresh = Halved(p), !.cwnd = MSS,
                           !.bytes_acked = 0, !.rtime = TRUE]

RtoExpires ==
    /\ Open /\ pcb.nrtx < TCP_MAXRTX /\ ~pcb.persist /\ pcb.rtime
    /\ Patient => Quiet
    /\ pcb.unacked # <<>> \/ pcb.unsent # <<>>
    /\ \E p \in {IF pcb.unacked # <<>> THEN tcp_rexmit_rto_prepare(pcb) ELSE pcb} :
          Emit(With(RtoBackoff(p), tcp_rexmit_rto_commit))
    /\ UNCHANGED <<acks, peer, lost, fails>>

(* The persist timer ticks.  tcp_slowtmr first asserts that nothing is in  *)
(* flight and something is left to send; a failed assertion stops the      *)
(* program (LWIP_PLATFORM_ASSERT).                                         *)
PersistTicks == Open /\ pcb.nrtx < TCP_MAXRTX /\ pcb.persist
PersistAsserts == pcb.unacked = <<>> /\ pcb.unsent # <<>>

PersistAborts ==
    /\ PersistTicks /\ ~PersistAsserts
    /\ pcb' = [pcb EXCEPT !.state = "ABORTED"]
    /\ UNCHANGED <<wire, acks, peer, lost, fails>>

(* It expires: a probe when the window is zero, else the head of unsent is *)
(* cut to the window.                                                      *)
PersistDue ==
    /\ PersistTicks /\ PersistAsserts /\ pcb.persist_probe < TCP_MAXRTX
    /\ Patient => Quiet

PersistExpires ==
    /\ PersistDue
    /\ Emit(IF pcb.snd_wnd = 0 THEN tcp_zero_window_probe(pcb)
            ELSE With(tcp_split_unsent_seg(pcb, pcb.snd_wnd), tcp_output))
    /\ UNCHANGED <<acks, peer, lost, fails>>

(* Without memory for it the head stays intact; a probe that could not be  *)
(* sent counts.                                                            *)
PersistFails ==
    /\ PersistDue
    /\ pcb.snd_wnd = 0 \/ len(Head(pcb.unsent)) > pcb.snd_wnd
    /\ fails < MaxFail /\ fails' = fails + 1
    /\ pcb' = IF pcb.snd_wnd > 0 THEN pcb
              ELSE [pcb EXCEPT !.persist_probe = Least(@ + 1, TCP_MAXRTX)]
    /\ UNCHANGED <<wire, acks, peer, lost>>

(* Too many retransmissions or probes: tcp_pcb_purge.                      *)
RexmitGivesUp ==
    /\ \/ Open /\ pcb.nrtx >= TCP_MAXRTX
       \/ PersistTicks /\ PersistAsserts /\ pcb.persist_probe >= TCP_MAXRTX
    /\ pcb' = [pcb EXCEPT !.state = "CLOSED", !.unsent = <<>>, !.unacked = <<>>,
                          !.rtime = FALSE, !.persist = FALSE]
    /\ UNCHANGED <<wire, acks, peer, lost, fails>>
-----------------------------------------------------------------------------
(* The peer and the network.                                               *)
Edge == peer.read + PeerBuf
AckNow(n) == [ack |-> SeqAdd(ISS, peer'.nxt + (IF peer'.fin THEN 1 ELSE 0)),
              wnd |-> peer'.read + PeerBuf - peer'.nxt, seq |-> peer.seq, len |-> n]
SendAck(n) == acks' = acks \cup {AckNow(n)} /\ Cardinality(acks') <= MaxWire

(* It takes what is in order and in its window; a FIN ends the stream.     *)
PeerReceives(s) ==
    /\ wire' = wire \ {s}
    /\ LET from == Off(s.seq)
           to == Least(from + Len(s.data), Edge)
           inOrder == from <= peer.nxt /\ ~peer.fin
       IN  peer' = [peer EXCEPT
                      !.nxt = IF inOrder /\ to > @ THEN to ELSE @,
                      !.fin = @ \/ (s.fin /\ inOrder /\ from + Len(s.data) <= Edge
                                    /\ from + Len(s.data) >= peer.nxt)]
    /\ SendAck(0)
    /\ UNCHANGED <<pcb, lost, fails>>

(* Its application reads; the window update is an acknowledgement.         *)
PeerReads(n) ==
    /\ peer.read + n <= peer.nxt
    /\ peer' = [peer EXCEPT !.read = @ + n]
    /\ SendAck(0)
    /\ UNCHANGED <<pcb, wire, lost, fails>>

(* It sends a byte of its own, which carries its window too.               *)
PeerSends ==
    /\ peer.seq < PeerData
    /\ peer' = [peer EXCEPT !.seq = @ + 1]
    /\ SendAck(1)
    /\ UNCHANGED <<pcb, wire, lost, fails>>

Loses ==
    /\ lost < MaxLoss /\ lost' = lost + 1
    /\ \/ \E s \in wire : wire' = wire \ {s} /\ acks' = acks
       \/ \E a \in acks : acks' = acks \ {a} /\ wire' = wire
    /\ UNCHANGED <<pcb, peer, fails>>

Timers == RtoExpires \/ PersistExpires
PeerSteps == (\E s \in wire : PeerReceives(s)) \/ (\E n \in ReadSizes : PeerReads(n))
Inputs == \E a \in acks : tcp_input(a)

Next ==
    \/ \E n \in WriteSizes : Write(n)
    \/ WriteFails
    \/ tcp_close_shutdown_fin
    \/ Inputs \/ Timers \/ PersistFails \/ PersistAborts \/ RexmitGivesUp
    \/ PeerSteps \/ PeerSends \/ Loses

Spec == Init /\ [][Next]_vars
-----------------------------------------------------------------------------
Queue == pcb.unacked \o pcb.unsent

TypeOK ==
    /\ pcb.state \in {"ESTABLISHED", "FIN_WAIT_1", "FIN_WAIT_2", "CLOSED", "ABORTED"}
    /\ {pcb.snd_nxt, pcb.lastack, pcb.snd_lbb, pcb.snd_wl2, pcb.rto_end} \subseteq SeqNums
    /\ pcb.snd_buf \in 0 .. TCP_SND_BUF /\ pcb.snd_queuelen \in Nat
    /\ pcb.unsent_oversize \in 0 .. MSS /\ pcb.out = {}
    /\ peer.nxt \in 0 .. MaxBytes /\ lost \in 0 .. MaxLoss

(* The two queues of an open connection hold every byte that is not        *)
(* acknowledged, once: together, in order of sequence number, their        *)
(* segments follow each other up to the last byte written.                 *)
Sorted == SortSeq(Queue, Precedes)
QueuesHoldTheStream ==
    Open => LET q == Sorted
            IN  /\ \A i \in 1 .. Len(q) - 1 : q[i + 1].seq = SeqAdd(q[i].seq, len(q[i]))
                /\ q # <<>> => /\ TCP_SEQ_LEQ(Head(q).seq, pcb.lastack)
                               /\ Last(q).seq = SeqAdd(pcb.snd_lbb, -len(Last(q)))
                                  \/ Last(q).fin
                /\ q = <<>> => Off(pcb.lastack) >= Off(pcb.snd_lbb)
                /\ pcb.unacked = SortSeq(pcb.unacked, Precedes)
                /\ pcb.unsent = SortSeq(pcb.unsent, Precedes)

(* What snd_buf and snd_queuelen say of the queues.                        *)
SpaceIsAccounted ==
    Open => /\ pcb.snd_buf + SumOf(Queue, len) = TCP_SND_BUF
            /\ pcb.snd_queuelen = SumOf(Queue, LAMBDA seg : seg.clen)
            /\ pcb.unsent_oversize > 0 =>
                 pcb.unsent # <<>> /\ len(Last(pcb.unsent)) + pcb.unsent_oversize <= MSS

(* Every segment ever sent carries the bytes of its sequence numbers.      *)
WireBytesAreTheStreams ==
    \A s \in wire : \A i \in 1 .. Len(s.data) : s.data[i] = Off(s.seq) + i - 1

(* Nothing but a window probe lies beyond what the peer has offered, even  *)
(* when its window updates arrive in another order.                        *)
StaysInTheWindow ==
    \A s \in wire : ~s.probe => Off(s.seq) + Len(s.data) <= Edge

(* As long as bytes are not acknowledged a timer runs that will act, or    *)
(* the failed output is retried.                                           *)
SomeTimerRuns ==
    Open /\ Queue # <<>> => pcb.rtime \/ pcb.persist

(* tcp_slowtmr, "persist ticking with in-flight data": the persist timer    *)
(* and data in flight exclude each other.                                   *)
PersistMeansNothingInFlight == Open /\ pcb.persist => pcb.unacked = <<>>

(* tcp_slowtmr, "persist ticking with empty send buffer": no tick of the    *)
(* persist timer fails an assertion.  Violated: a probe of the only byte    *)
(* left may be acknowledged, and tcp_output with nothing to send leaves the *)
(* timer on.                                                                *)
PersistAssertionsHold == pcb.state # "ABORTED"

(* The one way to that abort: everything written is acknowledged.           *)
AbortsOnlyWhenAllIsAcked ==
    pcb.state = "ABORTED" => Queue = <<>> /\ Off(pcb.lastack) >= Off(pcb.snd_lbb)

(* No byte that is still to be acknowledged lies behind a FIN on the wire,  *)
(* except behind the FIN that tcp_split_unsent_seg left on a first part.    *)
FinEndsTheStream ==
    \A s \in wire : s.fin /\ ~s.cut =>
        \A i \in DOMAIN Queue : \A b \in ToSet(Queue[i].data) :
            b < Off(s.seq) + Len(s.data)

(* Everything written reaches the peer and is acknowledged.                *)
Arrived == Queue = <<>>
AllArrives == []<>Arrived

(* The timers run, the wire delivers, and the peer's program reads.        *)
Progress == Timers \/ Inputs \/ \E s \in wire : PeerReceives(s)
Reading == \E n \in ReadSizes : PeerReads(n)
LiveSpec == Spec /\ WF_vars(Progress) /\ WF_vars(Reading)
==============================================================================
