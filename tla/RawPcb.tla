------------------------------- MODULE RawPcb -------------------------------
(***************************************************************************)
(* Raw control blocks (raw.c): blocks that see the IP packets of one       *)
(* protocol before the stack does, and may eat them.  The program makes    *)
(* none, but ip4_input and ip6_input ask raw_input about every packet.     *)
(*                                                                         *)
(* An address is [type, a] as in module UdpPcb; the first byte of a packet *)
(* says the version, and whether a callback eats it is the application's   *)
(* choice; it binds blocks to addresses the interface has.                 *)
(***************************************************************************)
EXTENDS Integers, Sequences, FiniteSetsExt, SequencesExt

CONSTANTS
    Pcbs, Types, Protos,
    Remotes,        \* addresses to connect to
    NetAddrs,       \* IPv4 addresses the interface may get
    NetAddr6,
    Packets         \* set of [src, dst, proto]

VARIABLES pcb, raw_pcbs, netif_ip, out

vars == <<pcb, raw_pcbs, netif_ip, out>>

NULL == [free |-> TRUE]
Netif == 1
None == [what |-> "none"]
AnyAddr(type) == [type |-> type, a |-> 0]
isany(ip) == ip.a = 0
isbroadcast(ip) == ip.type = 4 /\ ip.a = 255
Live == {p \in Pcbs : pcb[p] # NULL}
VersionMatch(local, ip) == local.type \in {46, ip.type}

-----------------------------------------------------------------------------
raw_input_local_match(b, pkt) ==
    /\ b.netif_idx \in {0, Netif}
    /\ \/ b.local_ip.type = 46
       \/ /\ b.local_ip.type = pkt.dst.type
          /\ isany(b.local_ip) \/ (~isbroadcast(pkt.dst) /\ b.local_ip = pkt.dst)

Matches(b, pkt) ==
    /\ b.protocol = pkt.proto /\ raw_input_local_match(b, pkt)
    /\ ~b.connected \/ b.remote_ip = pkt.src

(* raw_input: the blocks are asked in the order of the list until one eats *)
(* the packet; that one is moved to the front.                             *)
raw_input(pkt, eaters) ==
    LET asked == {i \in DOMAIN raw_pcbs : /\ Matches(pcb[raw_pcbs[i]], pkt)
                                          /\ pcb[raw_pcbs[i]].recv}
        eating == {i \in asked : raw_pcbs[i] \in eaters}
        e == Min(eating)
    IN  IF eating = {}
        THEN [ret |-> IF asked = {} THEN "NONE" ELSE "DELIVERED", list |-> raw_pcbs,
              saw |-> {raw_pcbs[i] : i \in asked}]
        ELSE [ret |-> "EATEN", list |-> <<raw_pcbs[e]>> \o RemoveAt(raw_pcbs, e),
              saw |-> {raw_pcbs[i] : i \in {j \in asked : j <= e}}]

(* Without room for a header in p a new pbuf is chained in front of it,    *)
(* for which there may be no memory (mem: there is room or memory).        *)
raw_sendto_if_src(b, dst, src, mem) ==
    IF ~VersionMatch(b.local_ip, src) \/ ~VersionMatch(b.local_ip, dst) THEN [what |-> "VAL"]
    ELSE IF ~mem THEN [what |-> "MEM"]
    ELSE [what |-> "sent", src |-> src, dst |-> dst, proto |-> b.protocol]

raw_sendto(b, dst, mem) ==
    LET src == IF ~isany(b.local_ip) THEN b.local_ip
               ELSE IF dst.type = 6 THEN NetAddr6 ELSE netif_ip
    IN  IF VersionMatch(b.local_ip, dst) THEN raw_sendto_if_src(b, dst, src, mem)
        ELSE [what |-> "VAL"]

-----------------------------------------------------------------------------

Init == pcb = [p \in Pcbs |-> NULL] /\ raw_pcbs = <<>> /\ netif_ip \in NetAddrs /\ out = None

Set(p, b) == /\ p \in Live /\ pcb' = [pcb EXCEPT ![p] = b]
             /\ out' = None /\ UNCHANGED <<raw_pcbs, netif_ip>>

raw_new(p, type, proto) ==
    /\ pcb[p] = NULL
    /\ pcb' = [pcb EXCEPT ![p] = [local_ip |-> AnyAddr(type), remote_ip |-> AnyAddr(type),
                  netif_idx |-> 0, connected |-> FALSE, recv |-> FALSE, protocol |-> proto]]
    /\ raw_pcbs' = <<p>> \o raw_pcbs /\ out' = None /\ UNCHANGED netif_ip

raw_bind(p, ip) == Set(p, [pcb[p] EXCEPT !.local_ip = ip])

raw_bind_netif(p, idx) == Set(p, [pcb[p] EXCEPT !.netif_idx = idx])

raw_connect(p, ip) == Set(p, [pcb[p] EXCEPT !.remote_ip = ip, !.connected = TRUE])

raw_disconnect(p) ==
    Set(p, [pcb[p] EXCEPT !.remote_ip = AnyAddr(IF pcb[p].local_ip.type = 46 THEN 46
                                                ELSE IF @.type = 6 THEN 6 ELSE 4),
                          !.netif_idx = 0, !.connected = FALSE])

raw_recv(p, fn) == Set(p, [pcb[p] EXCEPT !.recv = fn])

raw_remove(p) ==
    /\ p \in Live /\ pcb' = [pcb EXCEPT ![p] = NULL] /\ out' = None
    /\ raw_pcbs' = SelectSeq(raw_pcbs, LAMBDA q : q # p) /\ UNCHANGED netif_ip

(* raw_send is raw_sendto to the peer.                                     *)
Send(p, dst, mem) == /\ p \in Live /\ out' = raw_sendto(pcb[p], dst, mem)
                     /\ UNCHANGED <<pcb, raw_pcbs, netif_ip>>

Input(pkt, eaters) ==
    LET r == raw_input(pkt, eaters)
    IN  /\ raw_pcbs' = r.list
        /\ out' = [what |-> r.ret, pkt |-> pkt, saw |-> r.saw, eaters |-> eaters]
        /\ UNCHANGED <<pcb, netif_ip>>

(* netif_set_ipaddr, which calls raw_netif_ip_addr_changed.                *)
AddrChanged(ip) ==
    /\ ip # netif_ip /\ netif_ip' = ip /\ out' = None
    /\ pcb' = [p \in Pcbs |-> IF p \in Live /\ pcb[p].local_ip = netif_ip
                              THEN [pcb[p] EXCEPT !.local_ip = ip] ELSE pcb[p]]
    /\ UNCHANGED raw_pcbs

Next ==
    \/ \E p \in Pcbs :
          \/ \E t \in Types, proto \in Protos : raw_new(p, t, proto)
          \/ \E ip \in {netif_ip, NetAddr6} : raw_bind(p, ip)
          \/ \E ip \in Remotes : raw_connect(p, ip)
          \/ \E idx \in {0, Netif} : raw_bind_netif(p, idx)
          \/ \E dst \in Remotes, mem \in BOOLEAN : Send(p, dst, mem)
          \/ \E fn \in BOOLEAN : raw_recv(p, fn)
          \/ raw_disconnect(p) \/ raw_remove(p)
    \/ \E ip \in NetAddrs : AddrChanged(ip)
    \/ \E pkt \in Packets, eaters \in SUBSET Pcbs : Input(pkt, eaters)

Spec == Init /\ [][Next]_vars

-----------------------------------------------------------------------------
TypeOK == /\ ToSet(raw_pcbs) = Live /\ IsInjective(raw_pcbs)
          /\ netif_ip \in NetAddrs /\ \A p \in Live : pcb[p].protocol \in Protos

(* What raw_input tells ip4_input is what became of the packet, which is   *)
(* the stack's to free or to pass on unless exactly one block ate it; a    *)
(* block that matches misses a packet only if another one ate it.          *)
EatenOnce ==
    out.what \in {"NONE", "DELIVERED", "EATEN"} =>
       LET match == {p \in Live : Matches(pcb[p], out.pkt) /\ pcb[p].recv}
           ate == out.saw \cap out.eaters
       IN  /\ out.saw \subseteq match /\ Cardinality(ate) <= 1
           /\ out.what = (IF ate # {} THEN "EATEN"
                          ELSE IF match # {} THEN "DELIVERED" ELSE "NONE")
           /\ ate = {} => out.saw = match
           /\ ate # {} => Head(raw_pcbs) \in ate

(* A packet sent carries a source of its version, and after the address of *)
(* the interface changed no bound block goes on sending from the old one.  *)
SourceCurrent ==
    out.what = "sent" => /\ out.src.type = out.dst.type
                         /\ out.src \in {netif_ip, NetAddr6}
=============================================================================
