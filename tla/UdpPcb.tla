------------------------------- MODULE UdpPcb -------------------------------
(***************************************************************************)
(* The UDP control blocks of lwIP (udp.c): the list udp_pcbs, ports, which *)
(* block an arriving datagram goes to, and what is sent.  Compiled with    *)
(* TUN2SOCKS, as in the program, the first block of the list receives all, *)
(* and the caller of udp_sendto names the source.                          *)
(*                                                                         *)
(* An address is [type, a]: type 4, 6, or 46 (IPADDR_TYPE_ANY), a = 0 the  *)
(* wildcard, 254 the broadcast address of the subnet, 255 of all networks. *)
(* Which interface a datagram leaves by is ip_route's decision (module     *)
(* Ip4); the checksum is computed in module Checksum.                      *)
(***************************************************************************)
EXTENDS Integers, Sequences, FiniteSetsExt, SequencesExt

CONSTANTS
    TUN2SOCKS,
    Pcbs,
    Types,          \* of udp_new_ip_type
    BindIps, BindPorts,
    Remotes,        \* set of <<address, port>>
    NetAddrs,       \* IPv4 addresses the interface may get
    NetAddr6,       \* the IPv6 address of the interface
    Packets,        \* set of [src, sport, dst, dport, short]
    START, END      \* UDP_LOCAL_PORT_RANGE_START and _END

UdpAssumption == START \in Nat \ {0} /\ END \in Nat /\ START <= END
                        /\ TUN2SOCKS \in BOOLEAN

VARIABLES
    pcb,        \* [Pcbs -> block], NULL when not allocated
    udp_pcbs,   \* the list
    udp_port,
    netif_ip    \* IPv4 address of the interface, the only one

vars == <<pcb, udp_pcbs, udp_port, netif_ip>>

NULL == [free |-> TRUE]
None == "none"      \* no block
Netif == 1
AnyAddr(type) == [type |-> type, a |-> 0]
isany(ip) == ip.a = 0
InNet(ip) == ip.type = 4 /\ ip.a \in {1, 2}
isbroadcast(ip) == ip.type = 4 /\ ip.a \in {254, 255}

st == [pcb |-> pcb, list |-> udp_pcbs, port |-> udp_port]
Becomes(s) == pcb' = s.pcb /\ udp_pcbs' = s.list /\ udp_port' = s.port

Live == {p \in Pcbs : pcb[p] # NULL}

(* IP_ADDR_PCB_VERSION_MATCH.                                              *)
VersionMatch(local, ip) == local.type \in {46, ip.type}

-----------------------------------------------------------------------------
(* udp_new_port: the next port of the range no block has; 0 if all are     *)
(* taken.                                                                  *)
udp_new_port(s) ==
    LET N == END - START + 1
        Nth(k) == START + ((s.port - START + k) % N)
        free == {k \in 1 .. N : \A p \in ToSet(s.list) : s.pcb[p].local_port # Nth(k)}
    IN  IF free = {} THEN 0 ELSE Nth(Min(free))

(* udp_bind.                                                               *)
Conflict(s, p, ip, port) ==
    \E q \in ToSet(s.list) \ {p} :
       /\ s.pcb[q].local_port = port
       /\ (s.pcb[q].local_ip = ip \/ isany(ip) \/ isany(s.pcb[q].local_ip))

udp_bind(s, p, ip, port) ==
    LET new == IF port = 0 THEN udp_new_port(s) ELSE port
        s2 == IF port = 0 /\ new # 0 THEN [s EXCEPT !.port = new] ELSE s
    IN  IF new = 0 \/ (port # 0 /\ Conflict(s, p, ip, port)) THEN [err |-> "USE", s |-> s2]
        ELSE [err |-> "OK",
              s |-> [s2 EXCEPT !.pcb[p].local_ip = ip, !.pcb[p].local_port = new,
                               !.list = IF p \in ToSet(@) THEN @ ELSE <<p>> \o @]]

(* udp_input_local_match.                                                  *)
udp_input_local_match(b, pkt) ==
    /\ b.netif_idx \in {0, Netif}
    /\ \/ b.local_ip.type = 46
       \/ /\ b.local_ip.type = pkt.dst.type
          /\ IF isbroadcast(pkt.dst)
             THEN isany(b.local_ip) \/ pkt.dst.a = 255 \/ InNet(b.local_ip)
             ELSE isany(b.local_ip) \/ b.local_ip = pkt.dst

Local(b, pkt) == b.local_port = pkt.dport /\ udp_input_local_match(b, pkt)

(* The fully matching block, searched for in the order of the list.        *)
Perfect(b, pkt) == /\ Local(b, pkt) /\ b.remote_port = pkt.sport
                   /\ (isany(b.remote_ip) \/ b.remote_ip = pkt.src)

(* The unconnected block that is kept in mind on the way: the first, or    *)
(* for a broadcast to all networks the one with the interface's address.   *)
Unconnected(list, pkt) ==
    FoldLeft(LAMBDA u, p :
               IF ~Local(pcb[p], pkt) \/ pcb[p].connected THEN u
               ELSE IF u = None THEN p
               ELSE IF pkt.dst.a = 255 /\ pcb[u].local_ip # netif_ip
                       /\ pcb[p].local_ip = netif_ip THEN p
               ELSE u,
             None, list)

(* The loop of udp_input: the block, and the list, in which a fully        *)
(* matching block is moved to the front.                                   *)
Lookup(pkt) ==
    LET matches == {i \in DOMAIN udp_pcbs : Perfect(pcb[udp_pcbs[i]], pkt)}
        i == Min(matches)
    IN  IF TUN2SOCKS
        THEN [to |-> IF udp_pcbs = <<>> THEN None ELSE Head(udp_pcbs), list |-> udp_pcbs]
        ELSE IF matches = {} THEN [to |-> Unconnected(udp_pcbs, pkt), list |-> udp_pcbs]
        ELSE [to |-> udp_pcbs[i], list |-> <<udp_pcbs[i]>> \o RemoveAt(udp_pcbs, i)]

(* udp_input: the block's callback, an ICMP message, or nothing; the       *)
(* packet is freed in the latter two.                                      *)
udp_input(pkt) ==
    LET l == Lookup(pkt)
        for_us == l.to # None \/ pkt.dst \in {netif_ip, NetAddr6}
    IN  [list |-> IF pkt.short THEN udp_pcbs ELSE l.list, to |-> l.to,
         fate |-> IF pkt.short \/ ~for_us THEN "freed"
                  ELSE IF l.to # None THEN IF pcb[l.to].recv THEN "recv" ELSE "freed"
                  ELSE IF isbroadcast(pkt.dst) THEN "freed" ELSE "icmp_port_unreach"]

(* Fault: the bound address is looked for among the IPv6 addresses.        *)
SourceOnly6(b, dst, src) ==
    IF TUN2SOCKS THEN src
    ELSE IF isany(b.local_ip) THEN IF dst.type = 6 THEN NetAddr6 ELSE netif_ip
    ELSE IF b.local_ip = NetAddr6 THEN b.local_ip
    ELSE NULL

(* udp_sendto and the functions it calls: the source, if the block may use *)
(* it, and a port if it has none yet.                                      *)
Source(b, dst, src) ==
    IF TUN2SOCKS THEN src
    ELSE IF isany(b.local_ip) THEN IF dst.type = 6 THEN NetAddr6 ELSE netif_ip
    ELSE IF b.local_ip \in {netif_ip, NetAddr6} THEN b.local_ip
    ELSE NULL

udp_sendto(p, dst, src, sport) ==
    LET b == pcb[p]
        from == Source(b, dst, src)
        bound == IF b.local_port = 0 THEN udp_bind(st, p, b.local_ip, 0)
                 ELSE [err |-> "OK", s |-> st]
        fail(e) == [err |-> e, s |-> st, from |-> NULL, port |-> 0]
    IN  IF ~VersionMatch(b.local_ip, dst) THEN fail("VAL")
        ELSE IF from = NULL THEN fail("RTE")
        ELSE IF ~VersionMatch(b.local_ip, from) THEN fail("VAL")
        ELSE [err |-> bound.err, s |-> bound.s, from |-> from,
              port |-> IF TUN2SOCKS THEN sport ELSE bound.s.pcb[p].local_port]

-----------------------------------------------------------------------------

Init == /\ pcb = [p \in Pcbs |-> NULL] /\ udp_pcbs = <<>> /\ udp_port \in START .. END
        /\ netif_ip \in NetAddrs

(* udp_new_ip_type; udp_new is the one with type 4.                        *)
udp_new(p, type) ==
    /\ pcb[p] = NULL
    /\ pcb' = [pcb EXCEPT ![p] = [local_ip |-> AnyAddr(type), remote_ip |-> AnyAddr(type),
                  local_port |-> 0, remote_port |-> 0, netif_idx |-> 0, connected |-> FALSE,
                  recv |-> FALSE]]
    /\ UNCHANGED <<udp_pcbs, udp_port, netif_ip>>

Bind(p, ip, port) ==
    p \in Live /\ Becomes(udp_bind(st, p, ip, port).s) /\ UNCHANGED netif_ip

udp_bind_netif(p, idx) ==
    /\ p \in Live /\ pcb' = [pcb EXCEPT ![p].netif_idx = idx]
    /\ UNCHANGED <<udp_pcbs, udp_port, netif_ip>>

udp_connect(p, ip, port) ==
    LET b == IF pcb[p].local_port = 0 THEN udp_bind(st, p, pcb[p].local_ip, 0)
             ELSE [err |-> "OK", s |-> st]
    IN  /\ p \in Live /\ UNCHANGED netif_ip
        /\ Becomes(IF b.err # "OK" THEN b.s
                   ELSE [b.s EXCEPT !.pcb[p].remote_ip = ip, !.pcb[p].remote_port = port,
                                    !.pcb[p].connected = TRUE,
                                    !.list = IF p \in ToSet(@) THEN @ ELSE <<p>> \o @])

udp_disconnect(p) ==
    /\ p \in Live
    /\ pcb' = [pcb EXCEPT ![p].remote_ip = AnyAddr(IF pcb[p].local_ip.type = 46 THEN 46
                                               ELSE IF pcb[p].remote_ip.type = 6 THEN 6 ELSE 4),
                          ![p].remote_port = 0, ![p].netif_idx = 0, ![p].connected = FALSE]
    /\ UNCHANGED <<udp_pcbs, udp_port, netif_ip>>

udp_recv(p, fn) ==
    /\ p \in Live /\ pcb' = [pcb EXCEPT ![p].recv = fn]
    /\ UNCHANGED <<udp_pcbs, udp_port, netif_ip>>

udp_remove(p) ==
    /\ p \in Live /\ pcb' = [pcb EXCEPT ![p] = NULL]
    /\ udp_pcbs' = SelectSeq(udp_pcbs, LAMBDA q : q # p)
    /\ UNCHANGED <<udp_port, netif_ip>>

(* netif_set_ipaddr, which calls udp_netif_ip_addr_changed.                *)
AddrChanged(ip) ==
    /\ ip # netif_ip /\ netif_ip' = ip
    /\ pcb' = [p \in Pcbs |-> IF p \in ToSet(udp_pcbs) /\ pcb[p].local_ip = netif_ip
                                 /\ ~isany(ip) /\ ~isany(netif_ip)
                              THEN [pcb[p] EXCEPT !.local_ip = ip] ELSE pcb[p]]
    /\ UNCHANGED <<udp_pcbs, udp_port>>

(* ip4_input lets pass what is for the interface, or anything with         *)
(* TUN2SOCKS.                                                              *)
Accepted(pkt) == TUN2SOCKS \/ pkt.dst \in {netif_ip, NetAddr6} \/ isbroadcast(pkt.dst)

Input(pkt) == /\ Accepted(pkt) /\ udp_pcbs' = udp_input(pkt).list
              /\ UNCHANGED <<pcb, udp_port, netif_ip>>

SendTo(p, dst) == p \in Live /\ Becomes(udp_sendto(p, dst, netif_ip, 1).s) /\ UNCHANGED netif_ip

Next ==
    \/ \E p \in Pcbs :
          \/ \E t \in Types : udp_new(p, t)
          \/ \E ip \in BindIps, port \in BindPorts : Bind(p, ip, port)
          \/ \E idx \in {0, Netif} : udp_bind_netif(p, idx)
          \/ \E r \in Remotes : (udp_connect(p, r[1], r[2]) \/ SendTo(p, r[1]))
          \/ udp_disconnect(p) \/ udp_remove(p)
          \/ \E fn \in BOOLEAN : udp_recv(p, fn)
    \/ \E ip \in NetAddrs : AddrChanged(ip)
    \/ \E pkt \in Packets : Input(pkt)

Spec == Init /\ [][Next]_vars

-----------------------------------------------------------------------------
TypeOK ==
    /\ udp_port \in START .. END /\ netif_ip \in NetAddrs
    /\ ToSet(udp_pcbs) \subseteq Live /\ IsInjective(udp_pcbs)
    /\ \A p \in Live : pcb[p].local_port \in BindPorts \cup (START .. END) \cup {0}

(* The list the input is dispatched from has exactly the blocks that have  *)
(* a port, whatever was bound, connected, sent from, moved to the front or *)
(* removed; only blocks with a port can be found.                          *)
ListedIffBound == \A p \in Live : p \in ToSet(udp_pcbs) <=> pcb[p].local_port # 0

(* Two blocks never compete for a datagram sent to one address...          *)
OneOwner ==
    \A pkt \in Packets : ~isbroadcast(pkt.dst) =>
       Cardinality({p \in ToSet(udp_pcbs) : Local(pcb[p], pkt)}) <= 1

(* ... unless a changed interface address makes two bound addresses equal; *)
(* no other step does it.                                                  *)
OwnersStayUniqueStep ==
    OneOwner /\ netif_ip' = netif_ip => OneOwner'

OwnersStayUnique == [][OwnersStayUniqueStep]_vars

(* udp_new_port fails only when every port of the range is in use, and     *)
(* never returns one that is: implicit binds cannot take a datagram away   *)
(* from another block.                                                     *)
PortsRunOutLate ==
    LET n == udp_new_port(st)
        used == {pcb[p].local_port : p \in ToSet(udp_pcbs)}
    IN  IF n = 0 THEN START .. END \subseteq used ELSE n \in (START .. END) \ used

(* A datagram goes to the connected block that matches it, if there is     *)
(* one, else to an unconnected one, and never to a block connected to      *)
(* another peer or to nobody although somebody waits for it.               *)
Dispatch ==
    ~TUN2SOCKS => \A pkt \in Packets :
       LET r == udp_input(pkt)
           local == {p \in ToSet(udp_pcbs) : Local(pcb[p], pkt)}
           connected == {p \in local : /\ pcb[p].connected /\ pcb[p].remote_ip = pkt.src
                                       /\ pcb[p].remote_port = pkt.sport}
           open == {p \in local : ~pcb[p].connected}
       IN  IF connected # {} THEN r.to \in connected
           ELSE IF open # {} THEN r.to \in open
           ELSE r.to = None

(* Who receives a datagram sent to one address can answer it: udp_sendto   *)
(* to its source is not refused for the version, the route or the source.  *)
AnswerGoes ==
    \A pkt \in Packets :
       LET r == udp_input(pkt)
           reply == udp_sendto(r.to, pkt.src, pkt.dst, pkt.dport)
       IN  r.fate = "recv" /\ Accepted(pkt) /\ ~isbroadcast(pkt.dst)
           => reply.err = "OK" /\ reply.from = pkt.dst /\ reply.port = pkt.dport

(* When the address of the interface changes, what is sent to the new one  *)
(* reaches the blocks that were reached by the old one.                    *)
SocketFollowsStep ==
    \A p \in ToSet(udp_pcbs), pkt \in Packets :
      pkt.dst = netif_ip /\ netif_ip' # netif_ip /\ Local(pcb[p], pkt)
      => Local(pcb'[p], [pkt EXCEPT !.dst = netif_ip'])

SocketFollows == [][SocketFollowsStep]_vars
=============================================================================
