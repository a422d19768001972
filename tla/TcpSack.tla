------------------------------- MODULE TcpSack -------------------------------
(***************************************************************************)
(* Selective acknowledgements of the receiver (LWIP_TCP_SACK_OUT, off in   *)
(* the program's build): the ranges that tcp_receive keeps beside its      *)
(* queue of out-of-order segments, with a limit on the bytes in the queue  *)
(* (TCP_OOSEQ_BYTES_LIMIT).  The queue itself is TcpReceiver's; here the   *)
(* program reads everything at once.                                       *)
(***************************************************************************)
EXTENDS SeqSpace, Sequences

CONSTANTS TCP_WND, MSS, IRS, Total, MaxSeg, RecvedSizes, MaxRefuse, MaxFail, FinBeyond,
          MAX_SACK_NUM,
          OOSEQ_BYTES       \* TCP_OOSEQ_BYTES_LIMIT

VARIABLES pcb,
          rcv_sacks,        \* the valid ranges, in the order they are sent
          recent            \* the segment that was queued in the last step, if it is kept; or -1

vars == <<pcb, rcv_sacks, recent>>

Recv == INSTANCE TcpReceiver

Range(left, right) == [left |-> left, right |-> right]
Valid(r) == r.left # r.right
Only(q) == SelectSeq(q, Valid)
First(S) == CHOOSE i \in S : \A j \in S : i <= j

-----------------------------------------------------------------------------
Apart(r, left, right) == TCP_SEQ_LEQ(r.right, left) \/ TCP_SEQ_LEQ(right, r.left)

(* tcp_add_sack: the new range goes first, ranges it overlaps are dropped, *)
(* and so is the oldest when there are too many.                           *)
tcp_add_sack(sacks, left, right) ==
    LET others == SelectSeq(sacks, LAMBDA r : Apart(r, left, right))
        kept == SubSeq(others, 1, IF Len(others) < MAX_SACK_NUM THEN Len(others) ELSE MAX_SACK_NUM - 1)
    IN  IF TCP_SEQ_LT(left, right) THEN <<Range(left, right)>> \o kept ELSE sacks

(* tcp_remove_sacks_lt and tcp_remove_sacks_gt: ranges end at seq.         *)
tcp_remove_sacks_lt(sacks, seq) ==
    LET kept == SelectSeq(sacks, LAMBDA r : TCP_SEQ_GT(r.right, seq))
    IN  [i \in DOMAIN kept |-> IF TCP_SEQ_LT(kept[i].left, seq) THEN Range(seq, kept[i].right) ELSE kept[i]]

tcp_remove_sacks_gt(sacks, seq) ==
    LET kept == SelectSeq(sacks, LAMBDA r : TCP_SEQ_LT(r.left, seq))
    IN  [i \in DOMAIN kept |-> IF TCP_SEQ_GT(kept[i].right, seq) THEN Range(kept[i].left, seq) ELSE kept[i]]

-----------------------------------------------------------------------------
(* The segment of q the new one is put behind, 0 for none.                 *)
Prev(q, seg) ==
    LET later == {i \in DOMAIN q : TCP_SEQ_LEQ(seg.seq, q[i].seq)}
    IN  IF later = {} THEN Len(q) ELSE First(later) - 1

(* sackbeg after the search: where the segments up to prev, without a gap, *)
(* begin.                                                                  *)
SackBeg(q, seg, prev) ==
    LET gaps == {i \in 2 .. prev : Recv!DataEnd(q[i - 1]) # q[i].seq}
    IN  IF prev = 0 THEN seg.seq
        ELSE IF gaps = {} THEN q[1].seq ELSE q[CHOOSE i \in gaps : \A j \in gaps : j <= i].seq

(* sackend: where the segments from i on, without a gap, end.              *)
SackEnd(q, i) ==
    LET gaps == {j \in i .. Len(q) : j = Len(q) \/ Recv!DataEnd(q[j]) # q[j + 1].seq}
    IN  Recv!DataEnd(q[First(gaps)])

(* The ranges after a segment was put into the queue q, which is now new.  *)
Queued(q, seg, new, sacks) ==
    LET prev == Prev(q, seg)
        beg == IF prev > 0 /\ prev < Len(new) /\ Recv!DataEnd(new[prev]) # new[prev + 1].seq
               THEN new[prev + 1].seq ELSE SackBeg(q, seg, prev)
    IN  IF q = <<>> THEN Only(<<Range(seg.seq, Recv!DataEnd(seg))>>)
        ELSE IF prev < Len(new) THEN tcp_add_sack(sacks, beg, SackEnd(new, prev + 1)) ELSE sacks

(* The first segment that exceeds the limit; it and all later ones go.     *)
Excess(q) ==
    LET bytes[i \in 0 .. Len(q)] == IF i = 0 THEN 0 ELSE bytes[i - 1] + Recv!len(q[i])
    IN  {i \in DOMAIN q : bytes[i] > OOSEQ_BYTES}

Limited(q) == IF Excess(q) = {} THEN q ELSE SubSeq(q, 1, First(Excess(q)) - 1)
LimitedSacks(q, sacks) ==
    IF Excess(q) = {} THEN sacks ELSE tcp_remove_sacks_gt(sacks, q[First(Excess(q))].seq)

(* After a segment in order: what is below the queue is acknowledged.      *)
InOrder(q, sacks) == IF q = <<>> THEN <<>> ELSE tcp_remove_sacks_lt(sacks, q[1].seq)

(* tcp_receive.                                                            *)
Kept(new, q) == [pcb EXCEPT !.rcv_nxt = new.rcv_nxt, !.state = new.state, !.ooseq = q]

Arrived(seg, new) ==
    IF seg.seq = pcb.rcv_nxt
    THEN /\ pcb' = Kept(new, new.ooseq) /\ recent' = -1
         /\ rcv_sacks' = InOrder(new.ooseq, rcv_sacks)
    ELSE /\ pcb' = Kept(new, Limited(new.ooseq))
         /\ rcv_sacks' = LimitedSacks(new.ooseq, Queued(pcb.ooseq, seg, new.ooseq, rcv_sacks))
         /\ recent' = IF /\ Prev(pcb.ooseq, seg) < Len(new.ooseq)
                         /\ \E i \in DOMAIN Limited(new.ooseq) :
                            /\ TCP_SEQ_BETWEEN(seg.seq, new.ooseq[i].seq,
                                               SeqSub(Recv!DataEnd(new.ooseq[i]), 1))
                            /\ Recv!len(new.ooseq[i]) > 0
                      THEN seg.seq ELSE -1

Arrives(seg) ==
    /\ pcb.state = "ESTABLISHED" /\ TCP_SEQ_GEQ(seg.seq, pcb.rcv_nxt)
    /\ TCP_SEQ_LEQ(Recv!End(seg), SeqAdd(pcb.rcv_nxt, TCP_WND))
    /\ Arrived(seg, Recv!tcp_receive(pcb, seg, TRUE))

(* What is not in the window is only acknowledged.                         *)
Old(seg) == TCP_SEQ_LEQ(Recv!End(seg), pcb.rcv_nxt) /\ UNCHANGED vars

tcp_free_ooseq ==
    /\ pcb.ooseq # <<>>
    /\ pcb' = [pcb EXCEPT !.ooseq = <<>>] /\ rcv_sacks' = <<>> /\ recent' = -1

(* tcp_get_num_sacks: as many ranges as fit beside the other options.      *)
tcp_get_num_sacks(sacks, optlen, room) ==
    LET n == IF optlen + 12 > room THEN 0 ELSE ((room - optlen - 12) \div 8) + 1
    IN  IF n < Len(sacks) THEN n ELSE Len(sacks)

Init == Recv!Init /\ rcv_sacks = <<>> /\ recent = -1

Next ==
    \/ \E a \in 0 .. Total, n \in 1 .. MaxSeg, fin \in BOOLEAN :
            /\ a + n <= Total /\ (fin => a + n = Total)
            /\ (Arrives(Recv!Piece(a, a + n, fin)) \/ Old(Recv!Piece(a, a + n, fin)))
    \/ tcp_free_ooseq

Spec == Init /\ [][Next]_vars

-----------------------------------------------------------------------------
(* What is held: the offsets of the bytes in the queue.                    *)
Bytes(left, right) == {SeqAdd(left, k) : k \in 0 .. SeqSub(right, left) - 1}
Held == UNION {Bytes(pcb.ooseq[i].seq, Recv!DataEnd(pcb.ooseq[i])) : i \in DOMAIN pcb.ooseq}
Block(i) == Bytes(rcv_sacks[i].left, rcv_sacks[i].right)

TypeOK == Recv!TypeOK /\ Len(rcv_sacks) <= MAX_SACK_NUM /\ \A i \in DOMAIN rcv_sacks : Valid(rcv_sacks[i])

(* The peer is told only of bytes that the receiver has, in ranges that do *)
(* not touch what is acknowledged or each other: it may drop its copy of   *)
(* nothing that would be missing.                                          *)
OnlyWhatIsHeld ==
    /\ \A i \in DOMAIN rcv_sacks : Block(i) \subseteq Held /\ pcb.rcv_nxt \notin Block(i)
    /\ \A i, j \in DOMAIN rcv_sacks : i # j => Block(i) \cap Block(j) = {}

(* The first range is the one with the segment that came last, as wide as  *)
(* the bytes around it are held, unless that segment lies behind a last    *)
(* one with FIN; the option has room for it beside the timestamps (12 of   *)
(* 40 bytes).                                                              *)
RecentFirst ==
    recent # -1 =>
        /\ rcv_sacks # <<>> /\ recent \in Block(1)
        /\ SeqSub(rcv_sacks[1].left, 1) \notin Held /\ rcv_sacks[1].right \notin Held
        /\ tcp_get_num_sacks(rcv_sacks, 12, 40) > 0
==============================================================================
