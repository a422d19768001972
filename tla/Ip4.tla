-------------------------------- MODULE Ip4 --------------------------------
(***************************************************************************)
(* IPv4 and ICMP (ip4.c, icmp.c): a few hosts that run the stack, each     *)
(* with its list of interfaces, and the wires between them.  A packet is   *)
(* put on a wire, is handled by ip4_input of the host at the other end,    *)
(* and may be delivered, forwarded, fragmented or answered.                *)
(*                                                                         *)
(* An address is <<net, host>>; the netmask covers net.  Lengths are       *)
(* small.  A fragment carries the length of its datagram (orig); whether   *)
(* ip4_reass completes the datagram is a choice (module Ip4Frag), and so   *)
(* is whether memory is there.  What raw blocks do is module RawPcb.       *)
(* ip_data is only read while a packet is handled, and left out.           *)
(*                                                                         *)
(* The program is compiled with TUN2SOCKS and without IP_FORWARD: its one  *)
(* interface takes every packet, and everything leaves by it.  The other   *)
(* values stand for the branches the configuration leaves out.             *)
(***************************************************************************)
EXTENDS Integers, Sequences, FiniteSetsExt, SequencesExt

CONSTANTS
    TUN2SOCKS, IP_FORWARD,
    Netifs,         \* [host -> Seq([ip, gw, broadcast, mtu, wire])]
    Default,        \* [host -> netif_default, 0 for none]
    Changing,       \* interfaces <<host, netif>> that go up and down
    Foreign,        \* packets others put on a wire: set of <<host, netif, packet>>
    Sends,          \* arguments of ip4_output: set of [host, src, dst, size, opt]
    IP_HLEN, OPT_MAX, Unit, ICMP_HLEN, DATASIZE, ICMP_TTL, HostMax

VARIABLES
    up,             \* [host -> [netif -> BOOLEAN]], link included
    flight,         \* packets on the wires: set of [at, inp, pkt, from, why]
    ip_id           \* [host -> Nat], modulo 2

vars == <<up, flight, ip_id>>

Hosts == DOMAIN Netifs

-----------------------------------------------------------------------------
(* ip4_addr.h and ip4_addr.c.                                              *)
ANY == <<0, 0>>
BROADCAST == <<255, HostMax>>
ismulticast(a) == a[1] = 224
isloopback(a) == a[1] = 127
islinklocal(a) == a[1] = 169
isexperimental(a) == a[1] \in {240, 255}

(* ip4_addr_isbroadcast_u32.                                               *)
isbroadcast(a, f) ==
    \/ a \in {ANY, BROADCAST}
    \/ f.broadcast /\ a # f.ip /\ a[1] = f.ip[1] /\ a[2] = HostMax

ip4_route(h, dst) ==
    LET l == Netifs[h]
        ok(i) == up[h][i] /\ l[i].ip # ANY
        near == {i \in DOMAIN l : ok(i) /\ (dst[1] = l[i].ip[1]
                                            \/ (~l[i].broadcast /\ dst = l[i].gw))}
    IN  IF TUN2SOCKS THEN 1
        ELSE IF near # {} THEN Min(near)
        ELSE IF Default[h] = 0 \/ ~ok(Default[h]) \/ isloopback(dst) THEN 0
        ELSE Default[h]

-----------------------------------------------------------------------------
(* Output.  What leaves is a set of [netif, pkt, why, loop]; why: who sent *)
(* it, and which packet an answer is about.                                *)
By(who) == [by |-> who, src |-> ANY, dst |-> ANY, icmp |-> "none"]
About(p) == [by |-> "answer", src |-> p.src, dst |-> p.dst, icmp |-> p.icmp]

(* ip4_frag, as far as it matters here (module Ip4Frag has the details).   *)
Cut(h, i, p, why) ==
    LET mtu == Netifs[h][i].mtu
        most == ((mtu - p.hlen) \div Unit) * Unit
        size == p.tot - p.hlen
        piece(k) == [p EXCEPT !.off = @ + k * most, !.mf = p.mf \/ (k + 1) * most < size,
                              !.tot = p.hlen + Min({most, size - k * most}),
                              !.len = p.hlen + Min({most, size - k * most})]
    IN  IF mtu = 0 \/ p.tot <= mtu
        THEN {[netif |-> i, pkt |-> p, why |-> why, loop |-> FALSE]}
        ELSE {[netif |-> i, pkt |-> piece(k), why |-> why, loop |-> FALSE] :
                 k \in 0 .. (size - 1) \div most}

(* The tail of ip4_output_if_opt_src: a packet for the interface's own     *)
(* address goes to netif_loop_output.                                      *)
Emit(h, i, p, why) ==
    IF p.dst = Netifs[h][i].ip THEN {[netif |-> i, pkt |-> p, why |-> why, loop |-> TRUE]}
    ELSE Cut(h, i, p, why)

(* ip4_output_if_opt and ip4_output_if_opt_src with a header to write.     *)
(* room: the buffer has room for headers.                                  *)
ip4_output_if_opt(h, i, src, dst, ttl, proto, size, opt, icmp, why, room) ==
    IF opt > OPT_MAX THEN [err |-> "VAL", out |-> {}, id |-> 0]
    ELSE IF ~room THEN [err |-> "BUF", out |-> {}, id |-> 0]
    ELSE LET hlen == IP_HLEN + ((opt + 1) \div 2) * 2
         IN  [err |-> "OK", id |-> 1,
              out |-> Emit(h, i, [v |-> 4, src |-> IF src = ANY THEN Netifs[h][i].ip ELSE src,
                         dst |-> dst, ttl |-> ttl, proto |-> proto, hlen |-> hlen,
                         len |-> hlen + size, tot |-> hlen + size, df |-> FALSE, mf |-> FALSE,
                         off |-> 0, orig |-> hlen + size, icmp |-> icmp, ll |-> "host"], why)]

ip4_output(h, src, dst, ttl, proto, size, opt, room) ==
    LET i == ip4_route(h, dst)
    IN  IF i = 0 THEN [err |-> "RTE", out |-> {}, id |-> 0]
        ELSE ip4_output_if_opt(h, i, src, dst, ttl, proto, size, opt, "none", By("app"), room)

Dropped == [out |-> {}, id |-> 0]

(* icmp_send_response: the answer quotes the header and DATASIZE bytes.    *)
icmp_send_response(h, p, type, mem) ==
    LET i == ip4_route(h, p.src)
    IN  IF ~mem \/ i = 0 THEN Dropped
        ELSE ip4_output_if_opt(h, i, ANY, p.src, ICMP_TTL, "icmp",
                               ICMP_HLEN + IP_HLEN + DATASIZE, 0, type, About(p), TRUE)

icmp_dest_unreach(h, p, mem) == icmp_send_response(h, p, "dur", mem)

icmp_time_exceeded(h, p, mem) == icmp_send_response(h, p, "te", mem)

-----------------------------------------------------------------------------
(* Input.                                                                  *)

(* Fault: every type that is not understood is sent back.                  *)
icmp_inputAll(h, netif, inp, p, mem) ==
    IF p.tot - p.hlen < 1 \/ (p.icmp = "echo" /\ p.tot - p.hlen < ICMP_HLEN) THEN Dropped
    ELSE IF \/ ismulticast(p.dst) \/ isbroadcast(p.dst, Netifs[h][netif])
            \/ ~mem
         THEN Dropped
    ELSE [id |-> 0, out |-> Emit(h, inp, [p EXCEPT !.src = p.dst, !.dst = p.src,
                                          !.ttl = ICMP_TTL, !.icmp = "er"], About(p))]

(* icmp_input.  Without room in front of the payload the packet is copied  *)
(* (mem: there is room, or memory).  The request's own header, with its    *)
(* options, becomes the header of the reply.                               *)
icmp_input(h, netif, inp, p, mem) ==
    IF p.tot - p.hlen < 1 \/ (p.icmp = "echo" /\ p.tot - p.hlen < ICMP_HLEN) THEN Dropped
    ELSE IF \/ p.icmp # "echo"
            \/ ismulticast(p.dst) \/ isbroadcast(p.dst, Netifs[h][netif])
            \/ ~mem
         THEN Dropped
    ELSE [id |-> 0, out |-> Emit(h, inp, [p EXCEPT !.src = p.dst, !.dst = p.src,
                                          !.ttl = ICMP_TTL, !.icmp = "er"], About(p))]

ip4_canforward(p) ==
    /\ p.ll = "host" /\ ~ismulticast(p.dst) /\ ~isexperimental(p.dst)
    /\ p.dst[1] # 0 /\ ~isloopback(p.dst)

(* ip4_forward.  A packet that is too long is cut if it may be, else its   *)
(* sender is told.                                                         *)
ip4_forward(h, inp, p, mem) ==
    LET i == ip4_route(h, p.dst)
        q == [p EXCEPT !.ttl = @ - 1]
    IN  IF ~ip4_canforward(p) \/ islinklocal(p.dst) \/ i \in {0, inp} THEN Dropped
        ELSE IF q.ttl = 0
             THEN IF p.proto = "icmp" THEN Dropped ELSE icmp_time_exceeded(h, q, mem)
        ELSE IF Netifs[h][i].mtu # 0 /\ p.tot > Netifs[h][i].mtu /\ p.df
             THEN icmp_dest_unreach(h, q, mem)
        ELSE [id |-> 0, out |-> Cut(h, i, q, By("forward"))]

ip4_input_accept(h, i, p) ==
    \/ TUN2SOCKS
    \/ /\ up[h][i] /\ Netifs[h][i].ip # ANY
       /\ p.dst = Netifs[h][i].ip \/ isbroadcast(p.dst, Netifs[h][i])

(* The interface ip4_input takes the packet for, 0 for none.               *)
Accepts(h, inp, p) ==
    IF ismulticast(p.dst) THEN IF up[h][inp] /\ Netifs[h][inp].ip # ANY THEN inp ELSE 0
    ELSE IF ip4_input_accept(h, inp, p) THEN inp
    ELSE IF isloopback(p.dst) THEN 0
    ELSE LET others == {i \in DOMAIN Netifs[h] \ {inp} : ip4_input_accept(h, i, p)}
         IN  IF others = {} THEN 0 ELSE Min(others)

(* The packet goes to the protocol; raw: what raw_input said.  udp_input   *)
(* answers for a port nobody has (icmp = "closed").                        *)
Dispatch(h, netif, inp, p, raw, mem) ==
    LET one == ~isbroadcast(p.dst, Netifs[h][netif]) /\ ~ismulticast(p.dst)
    IN  IF raw = "EATEN" \/ p.proto = "tcp" THEN Dropped
        ELSE IF p.proto = "icmp" THEN icmp_input(h, netif, inp, p, mem)
        ELSE IF p.proto = "udp"
             THEN IF p.icmp = "closed" /\ one THEN icmp_dest_unreach(h, p, mem) ELSE Dropped
        ELSE IF raw = "DELIVERED" \/ ~one THEN Dropped
        ELSE icmp_dest_unreach(h, p, mem)

(* ip4_input, which ip_input calls for what is not version 6.  done: what  *)
(* ip4_reass returns for a fragment is the whole datagram.                 *)
ip4_input(h, inp, pkt, raw, mem, done) ==
    LET p == [pkt EXCEPT !.tot = Min({@, pkt.len})]      \* pbuf_realloc
        netif == Accepts(h, inp, p)
        fragment == p.mf \/ p.off > 0
        whole == [p EXCEPT !.mf = FALSE, !.off = 0, !.len = p.orig, !.tot = p.orig]
    IN  IF \/ p.v # 4
           \/ p.hlen > p.tot \/ p.len > p.tot \/ p.hlen < IP_HLEN
           \/ isbroadcast(p.src, Netifs[h][inp]) \/ ismulticast(p.src)
        THEN Dropped
        ELSE IF netif = 0
             THEN IF IP_FORWARD /\ ~isbroadcast(p.dst, Netifs[h][inp])
                  THEN ip4_forward(h, inp, p, mem) ELSE Dropped
        ELSE IF fragment /\ (~done \/ p.hlen # IP_HLEN) THEN Dropped
        ELSE Dispatch(h, netif, inp, IF fragment THEN whole ELSE p, raw, mem)

-----------------------------------------------------------------------------
(* netif->output: the packet is on the wire, and reaches the interface at  *)
(* its other end; what goes to netif_loop_output stays in the queue of the *)
(* interface until netif_poll, which the program never calls.              *)
OnWire(h, out) ==
    UNION {{[at |-> g, inp |-> j, pkt |-> [o.pkt EXCEPT !.ll =
               IF ismulticast(o.pkt.dst) THEN "mcast"
               ELSE IF isbroadcast(o.pkt.dst, Netifs[h][o.netif]) THEN "bcast" ELSE "host"],
             from |-> <<h, o.netif>>, why |-> o.why] :
              j \in {k \in DOMAIN Netifs[g] : /\ Netifs[g][k].wire = Netifs[h][o.netif].wire
                                              /\ g # h}} :
           o \in {x \in out : ~x.loop}, g \in Hosts}

Init == /\ up = [h \in Hosts |-> [i \in DOMAIN Netifs[h] |-> TRUE]]
        /\ flight = {} /\ ip_id = [h \in Hosts |-> 0]

Handle(f, raw, mem, done) ==
    LET r == ip4_input(f.at, f.inp, f.pkt, raw, mem, done)
    IN  /\ f \in flight
        /\ flight' = (flight \ {f}) \cup OnWire(f.at, r.out)
        /\ ip_id' = [ip_id EXCEPT ![f.at] = (@ + r.id) % 2]
        /\ UNCHANGED up

(* An application sends, or a packet comes from somewhere else.            *)
Send(a, room) ==
    LET r == ip4_output(a.host, a.src, a.dst, ICMP_TTL, "udp", a.size, a.opt, room)
    IN  /\ flight = {} /\ flight' = OnWire(a.host, r.out)
        /\ ip_id' = [ip_id EXCEPT ![a.host] = (@ + r.id) % 2] /\ UNCHANGED up

Arrive(x) == /\ flight = {} /\ UNCHANGED <<up, ip_id>>
             /\ flight' = {[at |-> x[1], inp |-> x[2], pkt |-> x[3], from |-> <<0, 0>>,
                            why |-> By("foreign")]}

Turn(x) == /\ up' = [up EXCEPT ![x[1]][x[2]] = ~@] /\ UNCHANGED <<flight, ip_id>>

Next ==
    \/ \E f \in flight, raw \in {"NONE", "DELIVERED", "EATEN"}, mem, done \in BOOLEAN :
          Handle(f, raw, mem, done)
    \/ \E a \in Sends, room \in BOOLEAN : Send(a, room)
    \/ \E x \in Foreign : Arrive(x)
    \/ \E x \in Changing : Turn(x)

(* Packets on a wire arrive.                                               *)
Progress == \E f \in flight, raw \in {"NONE", "DELIVERED", "EATEN"}, mem, done \in BOOLEAN :
               Handle(f, raw, mem, done)

Spec == Init /\ [][Next]_vars
FairSpec == Spec /\ WF_vars(Progress)

-----------------------------------------------------------------------------
TypeOK == /\ \A f \in flight : /\ f.at \in Hosts /\ f.inp \in DOMAIN Netifs[f.at]
                               /\ f.pkt.ttl \in Nat /\ f.pkt.off \in Nat
          /\ \A h \in Hosts : ip_id[h] \in 0 .. 1

(* Nothing a host puts on a wire is longer than the wire carries, whoever  *)
(* wrote it: applications, ip4_forward, or icmp_input returning a request. *)
FitsWire == \A f \in flight : f.from[1] = 0 \/
               LET mtu == Netifs[f.from[1]][f.from[2]].mtu
               IN  mtu = 0 \/ (f.pkt.tot <= mtu /\ f.pkt.hlen <= f.pkt.tot)

(* An answer of ICMP is never caused by an answer of ICMP, nor by a packet *)
(* that went to many, nor by one without an address to answer to: two      *)
(* hosts never answer each other for ever, and a broadcast makes no storm. *)
NoStorm ==
    \A f \in flight : f.why.by = "answer" =>
       /\ f.why.icmp \notin {"dur", "te", "er"}
       /\ ~ismulticast(f.why.dst) /\ f.why.dst # BROADCAST
       /\ ~isbroadcast(f.why.dst, Netifs[f.from[1]][f.from[2]])
       /\ ~ismulticast(f.why.src) /\ f.why.src \notin {ANY, BROADCAST}

(* What a packet sets off ends, however the routes of the hosts point at   *)
(* each other.                                                             *)
Quiet == flight = {}
Ends == []<>Quiet
=============================================================================
