----------------------------- MODULE TcpOptions -----------------------------
(***************************************************************************)
(* The options of TCP headers between two ends: how they are built and     *)
(* parsed, and what the ends agree on through them (segment size, window   *)
(* scale, timestamps, selective acknowledgements).  tcp_parseopt and the   *)
(* split of the header over pbufs in tcp_input of tcp_in.c, the functions  *)
(* tcp_build_* and tcp_output_* of tcp_out.c, tcp_eff_send_mss_netif.      *)
(*                                                                         *)
(* Each end may be compiled with other features; the program is compiled   *)
(* with none of the three (in lwipopts.h timestamps are in a comment) and  *)
(* sends the segment size only.  A segment on the wire may be delivered    *)
(* several times, or be lost, and is when the wire is full.  The ends send *)
(* no data, which is TcpSender's and TcpReceiver's: keep-alives and        *)
(* acknowledgements go to and fro.                                         *)
(***************************************************************************)
EXTENDS SeqSpace, Sequences, FiniteSets

CONSTANTS
    TCP_MSS, TCP_WND, W16,      \* W16 is 0xFFFF
    HLENS,                      \* headers of IP and TCP
    INITIAL_MSS, Now,           \* sys_now(), of both
    Configs,                    \* [own, scale, mtu, pad] of an end: pad is
                                \* what an other stack puts before its options
    Rooms,                      \* of pbufs for options
    MaxWire, Beyond             \* bytes that may lie behind the options

VARIABLES cfg, pcb, wire

vars == <<cfg, pcb, wire>>

OptionsAssumption ==
    /\ {TCP_MSS, TCP_WND, W16, HLENS, INITIAL_MSS, Now, MaxWire} \subseteq Nat
    /\ \A c \in Configs : c.own \subseteq {"ws", "ts", "sack"} /\ c.scale <= 14

Ends == {"a", "b"}
Peer(e) == IF e = "a" THEN "b" ELSE "a"
Least(x, y) == IF x < y THEN x ELSE y
B2(n) == <<n \div 256, n % 256>>
B4(n) == <<0, 0>> \o B2(n)
Shift(n, k) == n * 2 ^ k
ShiftDown(n, k) == n \div 2 ^ k

-----------------------------------------------------------------------------
(* Building.  flags are the TF_SEG_OPTS_ flags of a segment.               *)
tcp_eff_send_mss_netif(sendmss, mtu) ==
    IF mtu = 0 THEN sendmss
    ELSE Least(sendmss, IF mtu > HLENS THEN mtu - HLENS ELSE 0)

OptLength(flags) ==
      (IF "mss" \in flags THEN 4 ELSE 0) + (IF "ts" \in flags THEN 12 ELSE 0)
    + (IF "ws" \in flags THEN 4 ELSE 0) + (IF "sack" \in flags THEN 4 ELSE 0)

tcp_build_timestamp_option(e) == <<1, 1, 8, 10>> \o B4(Now) \o B4(pcb[e].ts_recent)
tcp_build_wnd_scale_option(e) == <<1, 3, 3, cfg[e].scale>>
TCP_BUILD_MSS_OPTION(e) == <<2, 4>> \o B2(tcp_eff_send_mss_netif(TCP_MSS, cfg[e].mtu))

(* tcp_output_segment and tcp_output_fill_options write them in this order. *)
Options(e, flags) ==
       cfg[e].pad
    \o (IF "mss" \in flags THEN TCP_BUILD_MSS_OPTION(e) ELSE <<>>)
    \o (IF "ts" \in flags THEN tcp_build_timestamp_option(e) ELSE <<>>)
    \o (IF "ws" \in flags THEN tcp_build_wnd_scale_option(e) ELSE <<>>)
    \o (IF "sack" \in flags THEN <<1, 1, 4, 2>> ELSE <<>>)

(* The options of a SYN, or of the FIN (tcp_enqueue_flags).                *)
enqueue_flags(e, p) == {"mss"} \cup (IF p.state = "SYN_RCVD" THEN p.use ELSE cfg[e].own)

DataFlags(p) == p.use \cap {"ts"}

(* The window in the header: without scale in a SYN.                       *)
Wnd(p, syn) == Least(W16, IF syn THEN p.rcv_ann_wnd ELSE ShiftDown(p.rcv_ann_wnd, p.rcv_scale))

Segment(e, p, syn, ack, seq, flags) ==
    [from |-> e, syn |-> syn, ack |-> ack, seq |-> seq,
     ackno |-> IF ack THEN p.rcv_nxt ELSE 0, wnd |-> Wnd(p, syn),
     opts |-> Options(e, flags)]

Out(seg) == wire' = IF Cardinality(wire) < MaxWire THEN wire \cup {seg} ELSE wire
Sent(p) == [p EXCEPT !.ts_lastacksent = p.rcv_nxt]

-----------------------------------------------------------------------------
(* Parsing.  The options lie in the first pbuf, or go on in the second.    *)
tcp_get_next_optbyte(first, second, beyond, i) ==
    CASE i < Len(first) -> first[i + 1]
      [] i >= Len(first) /\ i - Len(first) < Len(second) -> second[i - Len(first) + 1]
      [] OTHER -> beyond

KindOf(byte) == CASE byte = 2 -> "mss" [] byte = 3 -> "ws" [] byte = 4 -> "sack"
                  [] byte = 8 -> "ts" [] OTHER -> "other"
LengthOf(kind) == CASE kind = "mss" -> 4 [] kind = "ws" -> 3 [] kind = "sack" -> 2 [] OTHER -> 10

Fits(i, kind, n) == i + LengthOf(kind) <= n

(* The options that tcp_parseopt finds for an end with the features own:   *)
(* it stops at an end marker and at the first that is not well formed.     *)
Found(own, first, second, beyond) ==
    LET n == Len(first) + Len(second)
        at(i) == tcp_get_next_optbyte(first, second, beyond, i)
        f[i \in 0 .. n + 255] ==
            IF i >= n \/ at(i) = 0 THEN <<>>
            ELSE IF at(i) = 1 THEN f[i + 1]
            ELSE LET kind == KindOf(at(i))
                 IN  IF kind = "mss" \/ kind \in own
                     THEN IF at(i + 1) = LengthOf(kind) /\ Fits(i, kind, n)
                          THEN <<[kind |-> kind,
                                  value |-> CASE kind = "mss" -> at(i + 2) * 256 + at(i + 3)
                                              [] kind = "ws" -> at(i + 2)
                                              [] kind = "ts" -> at(i + 4) * 256 + at(i + 5)
                                              [] OTHER -> 0]>>
                               \o f[i + LengthOf(kind)]
                          ELSE <<>>
                     ELSE IF at(i + 1) < 2 THEN <<>> ELSE f[i + at(i + 1)]
    IN  f[0]

tcplen(seg) == IF seg.syn THEN 1 ELSE 0

(* One option changes the block.                                           *)
Takes(e, p, seg, o) ==
    CASE o.kind = "mss" -> [p EXCEPT !.mss = IF o.value > TCP_MSS \/ o.value = 0 THEN TCP_MSS ELSE o.value]
      [] o.kind = "ws" ->
            IF seg.syn /\ "ws" \notin p.use
            THEN [p EXCEPT !.use = @ \cup {"ws"}, !.snd_scale = Least(o.value, 14), !.rcv_scale = cfg[e].scale,
                           !.rcv_ann_wnd = TCP_WND]
            ELSE p
      [] o.kind = "ts" ->
            IF seg.syn THEN [p EXCEPT !.use = @ \cup {"ts"}, !.ts_recent = o.value]
            ELSE IF TCP_SEQ_BETWEEN(p.ts_lastacksent, seg.seq, SeqAdd(seg.seq, tcplen(seg)))
            THEN [p EXCEPT !.ts_recent = o.value] ELSE p
      [] OTHER -> IF seg.syn THEN [p EXCEPT !.use = @ \cup {"sack"}] ELSE p

tcp_parseopt(e, p, seg, found) ==
    LET f[i \in 0 .. Len(found)] == IF i = 0 THEN p ELSE Takes(e, f[i - 1], seg, found[i])
    IN  f[Len(found)]

Parsed(e, p, seg, cut) ==
    tcp_parseopt(e, p, seg, Found(cfg[e].own, SubSeq(seg.opts, 1, cut),
                                  SubSeq(seg.opts, cut + 1, Len(seg.opts)), 0))

-----------------------------------------------------------------------------
(* The ends.                                                               *)
Alloc == [state |-> "CLOSED", mss |-> INITIAL_MSS, use |-> {},
          snd_scale |-> 0, rcv_scale |-> 0, rcv_ann_wnd |-> Least(TCP_WND, W16), snd_wnd |-> 0,
          wl1 |-> 0, wl2 |-> 0, rcv_nxt |-> 0, snd_nxt |-> 0, lastack |-> 0,
          ts_recent |-> 0, ts_lastacksent |-> 0, flags |-> {}, owes |-> FALSE,
          again |-> FALSE]      \* the SYN came again in SYN_RCVD

tcp_connect ==
    /\ pcb["a"].state = "CLOSED"
    /\ LET p == [Alloc EXCEPT !.state = "SYN_SENT", !.snd_nxt = 1, !.snd_wnd = TCP_WND,
                              !.flags = enqueue_flags("a", Alloc),
                              !.mss = tcp_eff_send_mss_netif(INITIAL_MSS, cfg["a"].mtu)]
       IN  /\ pcb' = [pcb EXCEPT !["a"] = Sent(p)]
           /\ Out(Segment("a", p, TRUE, FALSE, 0, p.flags)) /\ UNCHANGED cfg

(* A SYN is sent again with the options it was queued with.                *)
Again(e, p) == Segment(e, p, TRUE, p.state = "SYN_RCVD", 0, p.flags)

Rexmit(e) ==
    /\ pcb[e].state \in {"SYN_SENT", "SYN_RCVD"}
    /\ Out(Again(e, pcb[e])) /\ pcb' = [pcb EXCEPT ![e] = Sent(@)] /\ UNCHANGED cfg

Eff(e, p) == [p EXCEPT !.mss = tcp_eff_send_mss_netif(@, cfg[e].mtu)]

tcp_listen_input(e, seg, cut) ==
    LET new == [Alloc EXCEPT !.state = "SYN_RCVD", !.rcv_nxt = SeqAdd(seg.seq, 1), !.snd_nxt = 1,
                             !.wl1 = SeqSub(seg.seq, 1)]
        p == Eff(e, [Parsed(e, new, seg, cut) EXCEPT !.snd_wnd = seg.wnd])
        q == [p EXCEPT !.flags = enqueue_flags(e, p)]
    IN  /\ seg.syn /\ ~seg.ack
        /\ pcb' = [pcb EXCEPT ![e] = Sent(q)] /\ Out(Again(e, q))

(* tcp_receive of a segment without data.                                  *)
Updates(p, seg) == \/ TCP_SEQ_LT(p.wl1, seg.seq)
                   \/ p.wl1 = seg.seq /\ TCP_SEQ_LT(p.wl2, seg.ackno)
                   \/ p.wl2 = seg.ackno /\ Shift(seg.wnd, p.snd_scale) > p.snd_wnd

Windowed(p, seg) ==
    IF Updates(p, seg)
    THEN [p EXCEPT !.snd_wnd = Shift(seg.wnd, p.snd_scale), !.wl1 = seg.seq, !.wl2 = seg.ackno] ELSE p

tcp_receive(p, seg) ==
    LET w == Windowed(p, seg)
    IN  [w EXCEPT !.lastack = IF TCP_SEQ_BETWEEN(seg.ackno, SeqAdd(@, 1), w.snd_nxt) THEN seg.ackno ELSE @,
                  !.owes = @ \/ ~TCP_SEQ_BETWEEN(seg.seq, p.rcv_nxt, SeqAdd(p.rcv_nxt, p.rcv_ann_wnd - 1))]

(* tcp_process.                                                            *)
SynSent(e, p, seg) ==
    IF seg.syn /\ seg.ack /\ seg.ackno = SeqAdd(p.lastack, 1)
    THEN Eff(e, [p EXCEPT !.rcv_nxt = SeqAdd(seg.seq, 1), !.lastack = seg.ackno, !.snd_wnd = seg.wnd,
                          !.wl1 = SeqSub(seg.seq, 1), !.state = "ESTABLISHED", !.owes = TRUE])
    ELSE p

SynRcvd(p, seg) ==
    IF seg.ack /\ TCP_SEQ_BETWEEN(seg.ackno, SeqAdd(p.lastack, 1), p.snd_nxt)
    THEN tcp_receive([p EXCEPT !.state = "ESTABLISHED"], seg) ELSE p

tcp_process(e, seg, cut) ==
    LET p == Parsed(e, pcb[e], seg, cut)
        repeat == p.state = "SYN_RCVD" /\ seg.syn
        q == CASE p.state = "SYN_SENT" -> SynSent(e, p, seg)
               [] p.state = "SYN_RCVD" -> [SynRcvd(p, seg) EXCEPT !.again = @ \/ seg.syn]
               [] OTHER -> tcp_receive(p, seg)
    IN  IF seg.syn /\ pcb[e].state = "ESTABLISHED"
        THEN pcb' = [pcb EXCEPT ![e].owes = TRUE] /\ UNCHANGED wire
        ELSE /\ pcb' = [pcb EXCEPT ![e] = IF repeat THEN Sent(q) ELSE q]
             /\ IF repeat THEN Out(Again(e, q)) ELSE UNCHANGED wire

(* tcp_input: the first pbuf holds room[1] bytes of options at most, and   *)
(* the second room[2]; options in three pbufs are not accepted.            *)
Handled(e, seg, cut) ==
    IF pcb[e].state = "LISTEN" THEN tcp_listen_input(e, seg, cut)
    ELSE pcb[e].state # "CLOSED" /\ tcp_process(e, seg, cut)

tcp_input(seg, room) ==
    LET cut == Least(room[1], Len(seg.opts))
    IN  IF Len(seg.opts) - cut > room[2] THEN UNCHANGED vars
        ELSE Handled(Peer(seg.from), seg, cut) /\ UNCHANGED cfg

tcp_send_empty_ack(e) ==
    /\ pcb[e].state = "ESTABLISHED" /\ pcb[e].owes
    /\ Out(Segment(e, pcb[e], FALSE, TRUE, pcb[e].snd_nxt, DataFlags(pcb[e])))
    /\ pcb' = [pcb EXCEPT ![e] = [Sent(@) EXCEPT !.owes = FALSE]] /\ UNCHANGED cfg

tcp_keepalive(e) ==
    /\ pcb[e].state = "ESTABLISHED"
    /\ Out(Segment(e, pcb[e], FALSE, TRUE, SeqSub(pcb[e].snd_nxt, 1), {}))
    /\ UNCHANGED <<cfg, pcb>>

Lost(seg) == wire' = wire \ {seg} /\ UNCHANGED <<cfg, pcb>>

Init ==
    /\ cfg \in [Ends -> Configs] /\ wire = {}
    /\ pcb = [e \in Ends |-> IF e = "a" THEN Alloc ELSE [Alloc EXCEPT !.state = "LISTEN"]]

Next ==
    \/ tcp_connect \/ \E seg \in wire : Lost(seg) \/ \E room \in Rooms : tcp_input(seg, room)
    \/ \E e \in Ends : Rexmit(e) \/ tcp_send_empty_ack(e) \/ tcp_keepalive(e)

Spec == Init /\ [][Next]_vars

-----------------------------------------------------------------------------
TypeOK ==
    \A e \in Ends :
        /\ pcb[e].state \in {"CLOSED", "LISTEN", "SYN_SENT", "SYN_RCVD", "ESTABLISHED"}
        /\ pcb[e].mss \in 0 .. TCP_MSS /\ pcb[e].snd_scale \in 0 .. 14 /\ pcb[e].snd_wnd <= TCP_WND

(* What is parsed is what was built, whatever the other stack puts before  *)
(* it and wherever the header is split over pbufs, and the space reserved  *)
(* for the options is filled.  Of options that are cut off the whole ones  *)
(* before the cut count, and no byte behind them matters.                  *)
Said(own, e, flags) ==
    SelectSeq(<<[kind |-> "mss", value |-> tcp_eff_send_mss_netif(TCP_MSS, cfg[e].mtu)],
                [kind |-> "ts", value |-> Now], [kind |-> "ws", value |-> cfg[e].scale],
                [kind |-> "sack", value |-> 0]>>,
              LAMBDA o : o.kind \in flags /\ (o.kind = "mss" \/ o.kind \in own))

Understood(own, opts, said) ==
    \A k \in 0 .. Len(opts), x \in Beyond :
        LET head == SubSeq(opts, 1, k)
            cut == Found(own, head, <<>>, x)
        IN  /\ Found(own, head, SubSeq(opts, k + 1, Len(opts)), x) = said
            /\ cut = SubSeq(said, 1, Len(cut))
            /\ Len(cut) < Len(said) => k < Len(opts)

ParsedAsBuilt ==
    wire = {} => \A e \in Ends : \A flags \in {DataFlags(pcb[e]), pcb[e].flags} :
        /\ Len(Options(e, flags)) = Len(cfg[e].pad) + OptLength(flags)
        /\ Understood(cfg[Peer(e)].own, Options(e, flags), Said(cfg[Peer(e)].own, e, flags))

(* Once the one that connected is established, both ends use the same      *)
(* features, those both have, and each knows the scale of the other's      *)
(* windows, however often the SYN and its answer were sent.                *)
Agreed ==
    pcb["a"].state = "ESTABLISHED" =>
        /\ pcb["a"].use = cfg["a"].own \cap cfg["b"].own /\ pcb["b"].use = pcb["a"].use
        /\ \A e \in Ends : pcb[e].snd_scale = pcb[Peer(e)].rcv_scale

(* No end believes in a larger window than the other has, also from old    *)
(* segments and from the SYN, which are scaled differently; and what it    *)
(* learns from a segment without SYN is short of it by the scale at most.  *)
WindowsTrue ==
    \A e \in Ends :
        LET own == pcb[Peer(e)]
        IN  pcb[e].state = "ESTABLISHED" =>
                /\ pcb[e].snd_wnd <= own.rcv_ann_wnd
                /\ \A seg \in wire : seg.from = Peer(e) /\ ~seg.syn =>
                      /\ Shift(seg.wnd, pcb[e].snd_scale) <= own.rcv_ann_wnd
                      /\ \/ seg.wnd = W16
                         \/ Shift(seg.wnd + 1, pcb[e].snd_scale) > own.rcv_ann_wnd

(* Segments fit the other end and the interface, unless the SYN came       *)
(* twice: it is parsed again and the size then no longer limited.          *)
MssFits ==
    \A e \in Ends : pcb[e].state \in {"SYN_RCVD", "ESTABLISHED"} =>
        /\ pcb[e].mss <= tcp_eff_send_mss_netif(TCP_MSS, cfg[Peer(e)].mtu)
        /\ pcb[e].again \/ pcb[e].mss <= tcp_eff_send_mss_netif(TCP_MSS, cfg[e].mtu)
=============================================================================
