------------------------------ MODULE Checksum ------------------------------
(***************************************************************************)
(* The Internet checksum: its three algorithms, sums over chains of pbufs  *)
(* and pseudo headers (inet_chksum.c), the sum of its data that a TCP      *)
(* segment carries from tcp_write to every time it is sent (tcp_out.c),    *)
(* and the correction of an echo reply (icmp.c).                           *)
(*                                                                         *)
(* The application fills a buffer, arg, and writes it; how much goes to    *)
(* the tail of the last pbuf is free (TcpSender has the rules).  A segment *)
(* may be sent again, get more data, be split and be acknowledged at any   *)
(* time.  A byte has B values, so a u16_t has W and a u32_t W * W; numbers *)
(* are little-endian.  A pbuf is [at, data, rom]: the address of its data  *)
(* modulo 4, and whether it refers to the application's memory.            *)
(***************************************************************************)
EXTENDS Naturals, Sequences

CONSTANTS
    B, Bytes,           \* values of a byte, those that are used
    ALG,                \* LWIP_CHKSUM_ALGORITHM
    MSS, PROTO, ECHO,
    Addrs,              \* u32_t words of the two addresses
    Headers,            \* TCP headers without their checksum
    Ats,                \* addresses of what is written, modulo 4
    MaxArg, MaxWrite,   \* length of the buffer, of what is written
    SND_BUF

VARIABLES
    arg,
    segs,               \* [p, len, chksum, swapped]
    wire                \* the packet just passed to IP

vars == <<arg, segs, wire>>

W == B * B

ChecksumAssumption ==
    /\ {MSS, PROTO, MaxArg, MaxWrite, SND_BUF} \subseteq Nat \ {0}
    /\ Bytes \subseteq 0 .. B - 1 /\ ECHO \in 1 .. B - 1 /\ PROTO < B
    /\ ALG \in 1 .. 3 /\ Ats \subseteq 0 .. 3
    /\ MaxArg * W < W * W                   \* a u32_t holds the sums
    /\ \A h \in Headers : Len(h) % 2 = 0

Least(x, y) == IF x < y THEN x ELSE y

-----------------------------------------------------------------------------
FOLD_U32T(u) == (u \div W) + (u % W)
SWAP_BYTES_IN_WORD(w) == (w % B) * B + ((w \div B) % B)
Not(w) == W - 1 - w

Word(d, i) == d[i] + B * d[i + 1]
Long(d, i) == Word(d, i) + W * Word(d, i + 2)

(* Adds the n words of d from i to acc.                                    *)
Words(d, i, n, acc) ==
    LET sum[k \in 0 .. n] == IF k = 0 THEN acc ELSE sum[k - 1] + Word(d, i + 2 * (k - 1))
    IN  sum[n]

(* Adds n long words, a carry going back in at the other end.              *)
Longs(d, i, n, acc) ==
    LET sum[k \in 0 .. n] ==
            IF k = 0 THEN acc
            ELSE LET old == sum[k - 1]
                     tmp == (old + Long(d, i + 4 * (k - 1))) % (W * W)
                 IN  IF tmp < old THEN tmp + 1 ELSE tmp
    IN  sum[n]

Chksum1(d) ==
    LET n    == Len(d)
        big  == [i \in 1 .. n |-> IF i % 2 = 1 THEN d[i] * B ELSE d[i]]
        sum[i \in 0 .. n] == IF i = 0 THEN 0 ELSE sum[i - 1] + big[i]
        once == FOLD_U32T(sum[n])
    IN  SWAP_BYTES_IN_WORD(IF once >= W THEN FOLD_U32T(once) ELSE once)

(* t: a first byte at an odd address, a last one at an even one.           *)
EndBytes(d, first) ==
    LET left == Len(d) - first
    IN  (IF left % 2 = 1 THEN d[Len(d)] ELSE 0) + (IF first = 1 THEN B * d[1] ELSE 0)

Aligned(at, sum) ==
    LET twice == FOLD_U32T(FOLD_U32T(sum))
    IN  IF at % 2 = 1 THEN SWAP_BYTES_IN_WORD(twice) ELSE twice

First(at, d) == IF at % 2 = 1 /\ Len(d) > 0 THEN 1 ELSE 0

Chksum2(at, d) ==
    LET f == First(at, d)
    IN  Aligned(at, Words(d, f + 1, (Len(d) - f) \div 2, 0) + EndBytes(d, f))

Chksum3(at, d) ==
    LET f    == First(at, d)
        half == IF (at + f) % 4 # 0 /\ Len(d) - f > 1 THEN 1 ELSE 0
        from == f + 2 * half
        two  == 2 * ((Len(d) - from) \div 8)
        long == Longs(d, from + 1, two, Words(d, f + 1, half, 0))
        rest == from + 4 * two
    IN  Aligned(at, Words(d, rest + 1, (Len(d) - rest) \div 2, FOLD_U32T(long)) + EndBytes(d, f))

lwip_standard_chksum(alg, at, d) ==
    CASE alg = 1 -> Chksum1(d) [] alg = 2 -> Chksum2(at, d) [] OTHER -> Chksum3(at, d)

LWIP_CHKSUM(at, d) == lwip_standard_chksum(ALG, at, d)
inet_chksum(at, d) == Not(LWIP_CHKSUM(at, d))

(* The loops over a chain: the first limit bytes of it are added to acc.   *)
ChainSum(p, limit, acc) ==
    LET walk[i \in 0 .. Len(p)] ==
            IF i = 0 THEN [acc |-> acc, left |-> limit, swapped |-> FALSE]
            ELSE LET s == walk[i - 1]
                     n == Least(Len(p[i].data), s.left)
                     a == FOLD_U32T(s.acc + LWIP_CHKSUM(p[i].at, SubSeq(p[i].data, 1, n)))
                     odd == Len(p[i].data) % 2 # 0
                 IN  IF s.left = 0 THEN s
                     ELSE [acc |-> IF odd THEN SWAP_BYTES_IN_WORD(a) ELSE a,
                           left |-> s.left - n, swapped |-> s.swapped # odd]
        end == walk[Len(p)]
    IN  IF end.swapped THEN SWAP_BYTES_IN_WORD(end.acc) ELSE end.acc

TotLen(p) == LET sum[i \in 0 .. Len(p)] == IF i = 0 THEN 0 ELSE sum[i - 1] + Len(p[i].data)
             IN  sum[Len(p)]

inet_chksum_pbuf(p) == Not(ChainSum(p, TotLen(p), 0) % W)

(* Both halves of every word of the addresses.                             *)
AddrSum ==
    LET sum[i \in 0 .. Len(Addrs)] ==
            IF i = 0 THEN 0 ELSE sum[i - 1] + (Addrs[i] % W) + (Addrs[i] \div W)
    IN  FOLD_U32T(FOLD_U32T(sum[Len(Addrs)]))

inet_cksum_pseudo_partial_base(p, proto_len, chksum_len, acc) ==
    LET sum == ChainSum(p, chksum_len, acc)
               + SWAP_BYTES_IN_WORD(PROTO) + SWAP_BYTES_IN_WORD(proto_len)
    IN  Not(FOLD_U32T(FOLD_U32T(sum)) % W)

inet_cksum_pseudo_base(p, proto_len, acc) ==
    inet_cksum_pseudo_partial_base(p, proto_len, TotLen(p), acc)

(* Of IPv4 and IPv6, which differ in the number of words.                  *)
ip_chksum_pseudo(p) == inet_cksum_pseudo_base(p, TotLen(p), AddrSum)
ip_chksum_pseudo_partial(p, chksum_len) ==
    inet_cksum_pseudo_partial_base(p, TotLen(p), chksum_len, AddrSum)

(* icmp_input: the type of the message, ICMP_ECHO, becomes 0.              *)
EchoReplyChksum(chksum) ==
    IF chksum > W - 1 - ECHO THEN (chksum + ECHO + 1) % W ELSE (chksum + ECHO) % W

-----------------------------------------------------------------------------
(* The sum in a segment.                                                   *)

tcp_seg_add_chksum(chksum, len, s) ==
    LET sum == FOLD_U32T(chksum + s.chksum) % W
    IN  [s EXCEPT !.chksum  = IF len % 2 # 0 THEN SWAP_BYTES_IN_WORD(sum) ELSE sum,
                  !.swapped = IF len % 2 # 0 THEN ~ s.swapped ELSE s.swapped]

NoSum == [chksum |-> 0, swapped |-> FALSE]
HdrLen == Len(CHOOSE h \in Headers : TRUE) + 2
Blank == [i \in 1 .. HdrLen |-> 0]
Pbuf(at, d, rom) == [at |-> at, data |-> d, rom |-> rom]
Segment(p, len, s) == [p |-> p, len |-> len, chksum |-> s.chksum, swapped |-> s.swapped]

(* Phase 3: a copy behind the headers, or a pbuf that refers to the data.  *)
NewSegment(copy, at, d) ==
    IF copy
    THEN Segment(<<Pbuf(0, Blank \o d, FALSE)>>, Len(d),
                 tcp_seg_add_chksum(LWIP_CHKSUM(HdrLen, d), Len(d), NoSum))
    ELSE LET chksum == Not(inet_chksum(at, d))
             odd    == Len(d) % 2 = 1
         IN  Segment(<<Pbuf(0, Blank, FALSE), Pbuf(at, d, TRUE)>>, Len(d),
                     [chksum |-> IF odd THEN SWAP_BYTES_IN_WORD(chksum) ELSE chksum, swapped |-> odd])

NewSegments(copy, at, d) ==
    [k \in 1 .. ((Len(d) + MSS - 1) \div MSS) |->
        NewSegment(copy, (at + (k - 1) * MSS) % 4,
                   SubSeq(d, (k - 1) * MSS + 1, Least(k * MSS, Len(d))))]

(* Phase 1: into the tail of the last pbuf.                                *)
Oversized(s, d) ==
    LET n    == Len(s.p)
        last == s.p[n]
        sum  == tcp_seg_add_chksum(LWIP_CHKSUM((last.at + Len(last.data)) % 4, d), Len(d), s)
    IN  IF d = <<>> THEN s
        ELSE [sum EXCEPT !.p[n].data = @ \o d, !.len = @ + Len(d)]

(* Phase 2: another pbuf, or more of the one that refers to data.          *)
Concatenated(s, d, copy, at, extend) ==
    LET n      == Len(s.p)
        own    == tcp_seg_add_chksum(IF copy THEN LWIP_CHKSUM(0, d) ELSE Not(inet_chksum(at, d)),
                                     Len(d), NoSum)
        concat == IF own.swapped THEN SWAP_BYTES_IN_WORD(own.chksum) ELSE own.chksum
        sum    == tcp_seg_add_chksum(concat, Len(d), s)
    IN  IF d = <<>> THEN s
        ELSE IF extend THEN [sum EXCEPT !.p[n].data = @ \o d, !.len = @ + Len(d)]
        ELSE [sum EXCEPT !.p = Append(@, Pbuf(IF copy THEN 0 ELSE at, d, ~ copy)), !.len = @ + Len(d)]

Queued == LET sum[i \in 0 .. Len(segs)] == IF i = 0 THEN 0 ELSE sum[i - 1] + segs[i].len
          IN  sum[Len(segs)]

(* o bytes of arg, at address at, find place in the tail of the last pbuf. *)
tcp_write(copy, at, o) ==
    LET n     == Len(segs)
        s     == segs[n]
        c     == IF n = 0 THEN 0 ELSE Least(MSS - s.len - o, Len(arg) - o)
        last  == s.p[Len(s.p)]
        extend == ~ copy /\ o = 0 /\ last.rom /\ (last.at + Len(last.data)) % 4 = at
        mid   == Concatenated(Oversized(s, SubSeq(arg, 1, o)), SubSeq(arg, o + 1, o + c),
                              copy, (at + o) % 4, extend)
        new   == NewSegments(copy, (at + o + c) % 4, SubSeq(arg, o + c + 1, Len(arg)))
    IN  /\ arg # <<>> /\ Len(arg) <= MaxWrite
        /\ IF n = 0 THEN o = 0
           ELSE o <= Least(MSS - s.len, Len(arg)) /\ (o > 0 => ~ last.rom)
        /\ Queued + Len(arg) <= SND_BUF
        /\ segs' = (IF n = 0 THEN <<>> ELSE [segs EXCEPT ![n] = mid]) \o new
        /\ arg' = <<>> /\ wire' = <<>>

(* The chain p, cut after len bytes: pbuf_realloc.                         *)
Trimmed(p, len) ==
    LET keep[i \in 0 .. Len(p)] ==
            IF i = 0 THEN [p |-> <<>>, left |-> len]
            ELSE LET s == keep[i - 1]
                     n == Least(Len(p[i].data), s.left)
                 IN  IF s.left = 0 THEN s
                     ELSE [p |-> Append(s.p, [p[i] EXCEPT !.data = SubSeq(@, 1, n)]),
                           left |-> s.left - n]
    IN  keep[Len(p)].p

RECURSIVE Flat(_)
Flat(p) == IF p = <<>> THEN <<>> ELSE Head(p).data \o Flat(Tail(p))

(* The sum of the payload, computed anew over the pbufs behind offset.     *)
Resummed(p, offset) ==
    LET sum[i \in 0 .. Len(p)] ==
            IF i = 0 THEN [s |-> NoSum, off |-> offset, found |-> FALSE]
            ELSE LET r == sum[i - 1]
                     q == p[i]
                     n == Len(q.data) - r.off
                 IN  IF ~ r.found /\ r.off > Len(q.data)
                     THEN [r EXCEPT !.off = @ - Len(q.data)]
                     ELSE [s |-> tcp_seg_add_chksum(
                                     Not(inet_chksum((q.at + r.off) % 4,
                                                     SubSeq(q.data, r.off + 1, Len(q.data)))), n, r.s),
                           off |-> 0, found |-> TRUE]
    IN  sum[Len(p)].s

tcp_split_unsent_seg(i, split) ==
    LET useg  == segs[i]
        bytes == Flat(useg.p)
        d     == SubSeq(bytes, Len(bytes) - useg.len + split + 1, Len(bytes))
        p     == Trimmed(useg.p, Len(bytes) - Len(d))
        seg   == Segment(<<Pbuf(0, Blank \o d, FALSE)>>, Len(d),
                         tcp_seg_add_chksum(Not(inet_chksum(HdrLen, d)), Len(d), NoSum))
    IN  /\ split < useg.len
        /\ segs' = SubSeq(segs, 1, i - 1)
                   \o <<Segment(p, split, Resummed(p, TotLen(p) - split)), seg>>
                   \o SubSeq(segs, i + 1, Len(segs))
        /\ wire' = <<>> /\ UNCHANGED arg

(* The chain with the header h and its checksum in front.  It is written   *)
(* anew each time, so what it was stays out of the state.                  *)
WithHeader(p, h, chksum) ==
    [p EXCEPT ![1].data = h \o <<chksum % B, chksum \div B>> \o SubSeq(@, HdrLen + 1, Len(@))]

tcp_output_segment(i, h) ==
    LET s    == segs[i]
        p    == WithHeader(s.p, h, 0)
        acc  == Not(ip_chksum_pseudo_partial(p, HdrLen))
                + (IF s.swapped THEN SWAP_BYTES_IN_WORD(s.chksum) ELSE s.chksum)
        out  == WithHeader(p, h, Not(FOLD_U32T(acc) % W))
    IN  wire' = out /\ UNCHANGED <<arg, segs>>

(* tcp_free_acked_segments.                                                *)
Acked == segs # <<>> /\ segs' = Tail(segs) /\ wire' = <<>> /\ UNCHANGED arg

(* The application fills its buffer, or starts it afresh.                  *)
Fill(b) ==
    /\ arg' = IF Len(arg) < (IF segs = <<>> THEN MaxArg ELSE MaxWrite) THEN Append(arg, b) ELSE <<b>>
    /\ wire' = <<>> /\ UNCHANGED segs

Init == arg = <<>> /\ segs = <<>> /\ wire = <<>>

Next ==
    \/ \E b \in Bytes : Fill(b)
    \/ \E copy \in BOOLEAN, at \in Ats, o \in 0 .. MaxWrite : tcp_write(copy, at, o)
    \/ \E i \in DOMAIN segs, split \in 1 .. MSS : tcp_split_unsent_seg(i, split)
    \/ \E i \in DOMAIN segs, h \in Headers : tcp_output_segment(i, h)
    \/ Acked

Spec == Init /\ [][Next]_vars

-----------------------------------------------------------------------------
TypeOK ==
    /\ arg \in Seq(Bytes)
    /\ \A i \in DOMAIN segs : segs[i].chksum \in 0 .. W - 1 /\ segs[i].swapped \in BOOLEAN
                              /\ segs[i].len \in 1 .. MSS /\ TotLen(segs[i].p) = HdrLen + segs[i].len

(* The definition: the words added in arithmetic modulo W - 1, where the   *)
(* sum of words that are not all zero is not zero.                         *)
Reference(d) ==
    LET even == IF Len(d) % 2 = 0 THEN d ELSE Append(d, 0)
        sum  == Words(even, 1, Len(even) \div 2, 0)
    IN  IF sum = 0 THEN 0 ELSE 1 + ((sum - 1) % (W - 1))

(* The three algorithms of lwip_standard_chksum compute the same sum       *)
(* wherever in memory the data lies.                                       *)
AlgorithmsAgree ==
    \A alg \in 1 .. 3, at \in 0 .. 3 : lwip_standard_chksum(alg, at, arg) = Reference(arg)

(* Every way to hold d in two pbufs at any address.                        *)
Chains(d) ==
    {<<Pbuf(a, SubSeq(d, 1, k), FALSE), Pbuf(b, SubSeq(d, k + 1, Len(d)), FALSE)>> :
        k \in 0 .. Len(d), a \in 0 .. 1, b \in 0 .. 1}

(* A segment that is sent, for the first time or again, after any writes   *)
(* and splits, has a checksum that its receiver finds right whatever pbufs *)
(* it arrives in (tcp_input: ip_chksum_pseudo is 0).                       *)
ReceiverAccepts == wire # <<>> => \A p \in Chains(Flat(wire)) : ip_chksum_pseudo(p) = 0

(* What a segment says of its data is true: tcp_output_segment with        *)
(* TCP_CHECKSUM_ON_COPY_SANITY_CHECK would never complain.                 *)
SumIsOfData ==
    \A i \in DOMAIN segs :
        LET s == segs[i]
            d == SubSeq(Flat(s.p), HdrLen + 1, HdrLen + s.len)
        IN  (IF s.swapped THEN SWAP_BYTES_IN_WORD(s.chksum) ELSE s.chksum) = Reference(d)

(* A reply to an echo request with a right checksum has a right one too,   *)
(* without being summed again.                                             *)
EchoRight ==
    LET c == inet_chksum_pbuf(<<Pbuf(0, <<ECHO, 0, 0, 0>> \o arg, FALSE)>>)
        r == EchoReplyChksum(c)
    IN  \A p \in Chains(<<0, 0, r % B, r \div B>> \o arg) : inet_chksum_pbuf(p) = 0
=============================================================================
