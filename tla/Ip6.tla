-------------------------------- MODULE Ip6 --------------------------------
(***************************************************************************)
(* IPv6 and ICMPv6 (ip6.c, icmp6.c) without neighbour discovery: hosts     *)
(* with interfaces on wires, as in module Ip4.  An address is              *)
(* [s, n, h, z]: its scope, net, host and zone; the zone is the interface  *)
(* a link-local address belongs to, 0 for none, and is not sent.  A packet *)
(* has a sequence of extension headers in front of its protocol; of the    *)
(* options only the action of the first unknown one matters.  Reassembly   *)
(* (module Ip6Frag) completes a datagram or not, memory is there or not.   *)
(* The program is compiled with TUN2SOCKS and without LWIP_IPV6_FORWARD.   *)
(***************************************************************************)
EXTENDS Integers, Sequences, FiniteSetsExt, SequencesExt

CONSTANTS
    TUN2SOCKS, LWIP_IPV6_FORWARD,
    Netifs,         \* [host -> Seq([mtu, wire, addrs: Seq(address)])]
    Static,         \* addresses that have no lifetime
    Default, NdRoute,   \* [host -> netif, 0 for none]: netif_default, nd6_find_route
    Changing,       \* address slots <<host, netif, index>> the state of which changes
    Dests,          \* destinations ip6_select_source_address is asked about
    Foreign, Sends, \* as in module Ip4
    IP6_HLEN, FRAG_HLEN, Unit, ICMP6_HLEN, DATASIZE, ICMP6_HL

VARIABLES
    addr_state,     \* [host -> [netif -> Seq({"invalid", "tentative", "deprecated", "preferred"})]]
    flight          \* set of [at, inp, pkt, from, by, born]

vars == <<addr_state, flight>>

Hosts == DOMAIN Netifs
At(a, z) == [a EXCEPT !.z = z]
ANY6 == [s |-> 0, n |-> 0, h |-> 0, z |-> 0]

-----------------------------------------------------------------------------
(* ip6_addr.h, ip6_zone.h.  Scopes: 1 and 2 interface- and link-local, 5   *)
(* site-local, 8 unique local, 14 global, 100 loopback, 101 mapped;        *)
(* multicast addresses are at net 255.  Interfaces are up.                 *)
isany(a) == a.s = 0
isloopback(a) == a.s = 100
ismulticast(a) == a.n = 255
islinklocal(a) == a.s = 2 /\ ~ismulticast(a)
allnodes(a) == ismulticast(a) /\ a.h = 1 /\ a.s \in {1, 2}
solicitednode(a) == ismulticast(a) /\ a.h >= 100
has_scope(a, unknown) == islinklocal(a) \/ (unknown /\ ismulticast(a) /\ a.s \in {1, 2})
assign_zone(a, unknown, i) == IF has_scope(a, unknown) THEN At(a, i) ELSE a
Valid(h, i) == {k \in DOMAIN Netifs[h][i].addrs :
                   addr_state[h][i][k] \in {"deprecated", "preferred"}}
Addr(h, i, k) == assign_zone(Netifs[h][i].addrs[k], FALSE, i)

First(s) == IF s = {} THEN 0 ELSE Min(s)

ip6_route(h, src, dst) ==
    LET own == {i \in DOMAIN Netifs[h] : \E k \in Valid(h, i) : At(Addr(h, i, k), 0) = At(src, 0)}
        near == {i \in DOMAIN Netifs[h] : \E k \in Valid(h, i) :
                    LET a == Addr(h, i, k)
                    IN  a.n = dst.n /\ a.s = dst.s /\ (At(a, 0) \in Static \/ a.h = dst.h)}
        exact == {i \in DOMAIN Netifs[h] : ~isany(src) /\ \E k \in Valid(h, i) : Addr(h, i, k) = src}
    IN  IF TUN2SOCKS THEN 1
        ELSE IF Len(Netifs[h]) = 1 THEN IF dst.z \in {0, 1} THEN 1 ELSE 0
        ELSE IF dst.z # 0 THEN dst.z
        ELSE IF has_scope(dst, TRUE) \/ has_scope(src, FALSE) \/ isloopback(src)
             THEN IF src.z # 0 THEN src.z ELSE First(own)
        ELSE IF near # {} THEN Min(near)
        ELSE IF NdRoute[h] # 0 THEN NdRoute[h]
        ELSE IF exact # {} THEN Min(exact)
        ELSE Default[h]

(* The scope ip6_select_source_address counts with.                        *)
DestScope(d) == IF isloopback(d) THEN 2 ELSE IF d.s \in {0, 101} THEN 14 ELSE d.s
CandScope(a) == IF a.s \in {14, 2, 8, 5} THEN a.s ELSE 15

(* Rules 2, 3 and 8.                                                       *)
Better(c, best, scope) ==
    \/ best.k = 0
    \/ c.scope < best.scope /\ c.scope >= scope
    \/ c.scope > best.scope /\ best.scope < scope
    \/ c.scope = best.scope /\ (c.pref > best.pref
                                \/ (c.pref = best.pref /\ c.bits > best.bits))

(* The index of the address, 0 for none.                                   *)
ip6_select_source_address(h, i, dst) ==
    LET cand(k) == LET a == Addr(h, i, k)
                   IN  [k |-> k, scope |-> CandScope(a),
                        pref |-> IF addr_state[h][i][k] = "preferred" THEN 1 ELSE 0,
                        bits |-> IF a.n = dst.n /\ a.s = dst.s THEN 1 ELSE 0]
        same == {k \in Valid(h, i) : At(Addr(h, i, k), 0) = At(dst, 0)}
        best[k \in 0 .. Len(Netifs[h][i].addrs)] ==
            IF k = 0 THEN [k |-> 0, scope |-> 0, pref |-> 0, bits |-> 0]
            ELSE IF k \in Valid(h, i) /\ Better(cand(k), best[k - 1], DestScope(dst))
                 THEN cand(k) ELSE best[k - 1]
    IN  IF same # {} THEN Min(same) ELSE best[Len(Netifs[h][i].addrs)].k

-----------------------------------------------------------------------------
(* Output: a set of [netif, pkt, by].                                      *)

(* ip6_frag (module Ip6Frag has the details).                              *)
Cut6(h, i, p, by) ==
    LET mtu == Netifs[h][i].mtu
        most == ((mtu - IP6_HLEN - FRAG_HLEN) \div Unit) * Unit
        size == p.plen
        piece(k) == [p EXCEPT !.plen = FRAG_HLEN + Min({most, size - k * most}),
                       !.exts = <<[t |-> "frag", act |-> 0, fits |-> TRUE, whole |-> size]>>]
    IN  IF mtu = 0 \/ p.plen + IP6_HLEN <= mtu
        THEN {[netif |-> i, pkt |-> p, by |-> by]}
        ELSE {[netif |-> i, pkt |-> piece(k), by |-> by] : k \in 0 .. (size - 1) \div most}

(* ip6_output_if_src: a packet for an address of the interface goes to     *)
(* netif_loop_output.                                                      *)
ip6_output_if_src(h, i, src, dst0, hl, proto, plen, icmp, by, room) ==
    LET dst == IF dst0.z = 0 THEN assign_zone(dst0, TRUE, i) ELSE dst0
        p == [src |-> src, dst |-> dst, hl |-> hl, proto |-> proto, plen |-> plen,
              exts |-> <<>>, icmp |-> icmp]
    IN  IF ~room THEN [err |-> "BUF", out |-> {}]
        ELSE IF \E k \in Valid(h, i) : Addr(h, i, k) = dst THEN [err |-> "OK", out |-> {}]
        ELSE [err |-> "OK", out |-> Cut6(h, i, p, by)]

ip6_output_if(h, i, src, dst, hl, proto, plen, icmp, by, room) ==
    LET k == ip6_select_source_address(h, i, dst)
    IN  IF ~isany(src) THEN ip6_output_if_src(h, i, src, dst, hl, proto, plen, icmp, by, room)
        ELSE IF k = 0 THEN [err |-> "RTE", out |-> {}]
        ELSE ip6_output_if_src(h, i, Addr(h, i, k), dst, hl, proto, plen, icmp, by, room)

ip6_output(h, src, dst, hl, proto, plen, room) ==
    LET i == ip6_route(h, src, dst)
    IN  IF i = 0 THEN [err |-> "RTE", out |-> {}]
        ELSE ip6_output_if(h, i, src, dst, hl, proto, plen, "none", "app", room)

(* icmp6_send_response and icmp6_send_response_with_addrs_and_netif.       *)
icmp6_send_response(h, netif, p, type, mem) ==
    LET k == ip6_select_source_address(h, netif, p.src)
    IN  IF k = 0 \/ ~mem THEN {}
        ELSE ip6_output_if(h, netif, Addr(h, netif, k), p.src, ICMP6_HL, "icmp6",
                           ICMP6_HLEN + IP6_HLEN + DATASIZE, type, "answer", TRUE).out

(* icmp6_input.  Neighbour discovery is module Nd6.                        *)
icmp6_input(h, inp, p, mem) ==
    IF p.plen < ICMP6_HLEN \/ p.icmp # "ereq" \/ ismulticast(p.dst) \/ ~mem THEN {}
    ELSE ip6_output_if(h, inp, p.dst, p.src, ICMP6_HL, "icmp6", p.plen, "erep", "answer",
                       TRUE).out

-----------------------------------------------------------------------------
(* Input: the set of what leaves.                                          *)

Error(h, netif, p, type, mem) ==
    IF p.proto = "icmp6" THEN {} ELSE icmp6_send_response(h, netif, p, type, mem)

ip6_forward(h, inp, p, mem) ==
    LET i == ip6_route(h, ANY6, p.dst)
        q == [p EXCEPT !.hl = @ - 1]
    IN  IF islinklocal(p.dst) \/ isloopback(p.dst) THEN {}
        ELSE IF i = 0 THEN Error(h, inp, p, "dur", mem)
        ELSE IF (p.src.z # 0 /\ p.src.z # i) \/ isloopback(p.src) \/ i = inp THEN {}
        ELSE IF q.hl = 0 THEN Error(h, inp, q, "te", mem)
        ELSE IF Netifs[h][i].mtu # 0 /\ p.plen + IP6_HLEN > Netifs[h][i].mtu
             THEN Error(h, inp, q, "ptb", mem)
        ELSE {[netif |-> i, pkt |-> q, by |-> "forward"]}

ip6_input_accept(h, i, p) ==
    TUN2SOCKS \/ \E k \in Valid(h, i) : Addr(h, i, k) = p.dst

(* The interface the packet is taken for, 0 for none.                      *)
Accepts6(h, inp, p) ==
    LET solicited == solicitednode(p.dst)
                     /\ \E k \in Valid(h, inp) : Addr(h, inp, k).h + 100 = p.dst.h
        others == {i \in DOMAIN Netifs[h] \ {inp} : ip6_input_accept(h, i, p)}
    IN  IF ismulticast(p.dst) THEN IF allnodes(p.dst) \/ solicited THEN inp ELSE 0
        ELSE IF ip6_input_accept(h, inp, p) THEN inp
        ELSE IF isloopback(p.dst) \/ isloopback(p.src) \/ others = {} THEN 0
        ELSE Min(others)

(* What extension header e makes of the packet: "next", "drop", "problem"  *)
(* or "reass".  Unknown options say themselves what is to be done.         *)
Extension(e, p) ==
    IF ~e.fits THEN "drop"
    ELSE CASE e.t \in {"hbh", "dest"} ->
                 IF e.act = 0 THEN "next"
                 ELSE IF e.act = 1 \/ (e.act = 3 /\ ismulticast(p.dst)) THEN "drop"
                 ELSE "problem"
           [] e.t = "rout" -> IF e.act = 0 THEN "next" ELSE "problem"    \* segments left
           [] OTHER -> IF e.act = 1 THEN "problem" ELSE IF e.act = 2 THEN "next" ELSE "reass"

(* Where the walk along the headers stops; a hop-by-hop header is only     *)
(* allowed as the first.                                                   *)
Walk(p) ==
    LET es == p.exts
        stop == {i \in DOMAIN es : \/ Extension(es[i], p) # "next"
                                   \/ i < Len(es) /\ es[i + 1].t = "hbh"}
        i == Min(stop)
    IN  IF stop = {} THEN [what |-> "next", at |-> 0]
        ELSE IF Extension(es[i], p) # "next" THEN [what |-> Extension(es[i], p), at |-> i]
        ELSE [what |-> "problem", at |-> i]

Deliver(h, netif, inp, p, raw, mem) ==
    IF raw = "EATEN" \/ p.proto \in {"none", "tcp", "udp"} THEN {}
    ELSE IF p.proto = "icmp6" THEN icmp6_input(h, inp, p, mem)
    ELSE IF raw = "DELIVERED" \/ ismulticast(p.dst) THEN {}
    ELSE icmp6_send_response(h, netif, p, "pp", mem)

(* The headers, and then the protocol.  ip6_reass leaves the headers in    *)
(* front of the fragment header in the datagram, which are walked again;   *)
(* a hop-by-hop header among them is then refused as one that comes late.  *)
Headers(h, netif, inp, p, raw, mem, done) ==
    LET w == Walk(p)
        whole == [p EXCEPT !.exts = RemoveAt(p.exts, w.at), !.plen = p.exts[w.at].whole]
        again == Walk(whole)
        late == whole.exts # <<>> /\ whole.exts[1].t = "hbh"
    IN  IF w.what = "drop" THEN {}
        ELSE IF w.what = "problem" THEN icmp6_send_response(h, netif, p, "pp", mem)
        ELSE IF w.what = "next" THEN Deliver(h, netif, inp, p, raw, mem)
        ELSE IF ~done THEN {}
        ELSE IF late \/ again.what = "problem"
             THEN icmp6_send_response(h, netif, whole, "pp", mem)
        ELSE IF again.what = "next" THEN Deliver(h, netif, inp, whole, raw, mem)
        ELSE {}

(* ip6_input; short: the packet is shorter than its header says.           *)
ip6_input(h, inp, pkt, raw, mem, done) ==
    LET p == [pkt EXCEPT !.dst = assign_zone(@, TRUE, inp), !.src = assign_zone(@, FALSE, inp)]
        netif == Accepts6(h, inp, p)
    IN  IF \/ p.icmp = "short" \/ 101 \in {p.dst.s, p.src.s} \/ ismulticast(p.src)
           \/ isany(p.src) /\ ~solicitednode(p.dst)
        THEN {}
        ELSE IF netif = 0
             THEN IF LWIP_IPV6_FORWARD /\ ~ismulticast(p.dst) THEN ip6_forward(h, inp, p, mem)
                  ELSE {}
        ELSE Headers(h, netif, inp, p, raw, mem, done)

-----------------------------------------------------------------------------
(* The interface at the other end of the wire gets the packet without its  *)
(* zones.  born: the wire the packet was first sent on.                    *)
OnWire(h, out, born) ==
    UNION {{[at |-> g, inp |-> j, from |-> <<h, o.netif>>, by |-> o.by,
             pkt |-> [o.pkt EXCEPT !.src = At(@, 0), !.dst = At(@, 0)],
             born |-> IF o.by = "forward" THEN born ELSE Netifs[h][o.netif].wire] :
              j \in {k \in DOMAIN Netifs[g] : /\ Netifs[g][k].wire = Netifs[h][o.netif].wire
                                              /\ g # h}} :
           o \in out, g \in Hosts}

Init == /\ addr_state = [h \in Hosts |-> [i \in DOMAIN Netifs[h] |->
                           [k \in DOMAIN Netifs[h][i].addrs |-> "preferred"]]]
        /\ flight = {}

Handle(f, raw, mem, done) ==
    /\ f \in flight /\ UNCHANGED addr_state
    /\ flight' = (flight \ {f})
         \cup OnWire(f.at, ip6_input(f.at, f.inp, f.pkt, raw, mem, done), f.born)

Send(a, room) ==
    /\ flight = {} /\ UNCHANGED addr_state
    /\ flight' = OnWire(a.host, ip6_output(a.host, a.src, a.dst, ICMP6_HL, "udp", a.size,
                                           room).out, "none")

Arrive(x) == /\ flight = {} /\ UNCHANGED addr_state
             /\ flight' = {[at |-> x[1], inp |-> x[2], pkt |-> x[3], from |-> <<0, 0>>,
                            by |-> "foreign", born |-> Netifs[x[1]][x[2]].wire]}

(* The state of an address changes (netif_ip6_addr_set_state, module Nd6). *)
SetState(x, s) == /\ flight = {} /\ UNCHANGED flight
                  /\ addr_state' = [addr_state EXCEPT ![x[1]][x[2]][x[3]] = s]

Progress == \E f \in flight, raw \in {"NONE", "DELIVERED", "EATEN"}, mem, done \in BOOLEAN :
               Handle(f, raw, mem, done)

Next ==
    \/ Progress
    \/ \E a \in Sends, room \in BOOLEAN : Send(a, room)
    \/ \E x \in Foreign : Arrive(x)
    \/ \E x \in Changing, s \in {"invalid", "tentative", "deprecated", "preferred"} :
          SetState(x, s)

Spec == Init /\ [][Next]_vars

(* Packets on a wire arrive.                                               *)
FairSpec == Spec /\ WF_vars(Progress)

-----------------------------------------------------------------------------
TypeOK == \A f \in flight : /\ f.at \in Hosts /\ f.inp \in DOMAIN Netifs[f.at]
                            /\ f.pkt.hl \in Nat /\ f.pkt.src.z = 0 /\ f.pkt.dst.z = 0

(* The scan of ip6_select_source_address, which keeps one best candidate,  *)
(* finds what the rules of RFC 6724 it cites ask for, in whatever order    *)
(* the addresses are: among the valid ones one of the smallest scope that  *)
(* is large enough, or of the largest there is; of these a preferred one   *)
(* if there is one; of these one in the net of the destination.            *)
BestSource ==
    flight = {} => \A h \in Hosts : \A i \in DOMAIN Netifs[h], d \in Dests :
       LET k == ip6_select_source_address(h, i, d)
           sc(j) == CandScope(Addr(h, i, j))
           enough == {j \in Valid(h, i) : sc(j) >= DestScope(d)}
           best == IF enough = {} THEN {j \in Valid(h, i) : \A l \in Valid(h, i) : sc(l) <= sc(j)}
                   ELSE {j \in enough : \A l \in enough : sc(l) >= sc(j)}
           pref == {j \in best : addr_state[h][i][j] = "preferred"}
           mine == IF pref = {} THEN best ELSE pref
           near == {j \in mine : Addr(h, i, j).n = d.n /\ Addr(h, i, j).s = d.s}
           same == {j \in Valid(h, i) : At(Addr(h, i, j), 0) = d}
       IN  IF Valid(h, i) = {} THEN k = 0
           ELSE k \in (IF same # {} THEN same ELSE IF near # {} THEN near ELSE mine)

(* Nothing leaves that is longer than the wire carries.                    *)
FitsWire6 == \A f \in flight : f.from[1] = 0 \/
                LET mtu == Netifs[f.from[1]][f.from[2]].mtu
                IN  mtu = 0 \/ f.pkt.plen + IP6_HLEN <= mtu

(* A packet with a link-local source or destination never gets from its    *)
(* link to another one: its receiver would take it for a neighbour's.      *)
ScopeKept == \A f \in flight : islinklocal(f.pkt.src) \/ islinklocal(f.pkt.dst)
                               => f.born = Netifs[f.at][f.inp].wire

(* What a packet sets off ends: no ring of routes and no two hosts that    *)
(* answer each other keep it alive, although an error may be the answer to *)
(* an error that has options.                                              *)
Quiet == flight = {}
AnswersEnd == []<>Quiet
=============================================================================
