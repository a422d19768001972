-------------------------------- MODULE Nd6 ---------------------------------
(***************************************************************************)
(* Neighbour discovery for IPv6 (nd6.c): the neighbour cache with its      *)
(* queues of waiting packets, the destination cache, the default routers   *)
(* and the on-link prefixes.  The addresses of the host itself are module  *)
(* Nd6Addr.                                                                *)
(*                                                                         *)
(* An address is a number, a \div 10 its prefix: 0 is link-local, and the  *)
(* address 0 is "::".  own says that the lladdr in an entry belongs to the *)
(* neighbour the entry is for.  A counter that is only compared with a     *)
(* limit stops there (Cap, the age of a destination); the time an entry is *)
(* stale, which nothing reads, and the lengths and hop limits that make    *)
(* nd6_input drop a message are left out.                                  *)
(***************************************************************************)
EXTENDS Integers, Sequences, FiniteSetsExt

CONSTANTS
    NUM_NEIGHBORS, NUM_DESTINATIONS, NUM_ROUTERS, NUM_PREFIXES,
    MAX_SOLICIT,    \* LWIP_ND6_MAX_MULTICAST_SOLICIT
    DELAY_TIME, REACHABLE_TIME,       \* in ticks of nd6_tmr
    Netifs,
    Hosts,          \* neighbours that are asked for and ask
    Routers,        \* link-local addresses that advertise themselves
    Targets,        \* where routers redirect to
    Dests,          \* destinations of packets
    Lifetimes,      \* of routers and prefixes, in ticks
    MTU, Pmtus,     \* of the interfaces; what Packet Too Big messages say
    QMax            \* bound: packets waiting for one neighbour

VARIABLES
    neighbor_cache, destination_cache, default_router_list, prefix_list,
    cached_dest, cached_neighbor,     \* nd6_cached_*_index
    last_router

vars == <<neighbor_cache, destination_cache, default_router_list, prefix_list,
          cached_dest, cached_neighbor, last_router>>

Nd6Assumption == /\ {NUM_NEIGHBORS, NUM_DESTINATIONS, NUM_ROUTERS, NUM_PREFIXES} \subseteq Nat \ {0}
                 /\ {MAX_SOLICIT, DELAY_TIME, REACHABLE_TIME} \subseteq Nat \ {0}
                 /\ 0 \notin Netifs \cup Hosts \cup Routers \cup Targets \cup Dests

Any == 0
NoNetif == 0
Neighbors == 1..NUM_NEIGHBORS
Dst == 1..NUM_DESTINATIONS
Rtr == 1..NUM_ROUTERS
Pfx == 1..NUM_PREFIXES

Cap(n, max) == IF n > max THEN max ELSE n
prefixOf(a) == a \div 10
islinklocal(a) == prefixOf(a) = 0

NO_ENTRY == [state |-> "NO_ENTRY", addr |-> Any, netif |-> NoNetif, isrouter |-> FALSE,
             counter |-> 0, q |-> <<>>, own |-> FALSE]
NoRouter == [entry |-> 0, timer |-> 0]

-----------------------------------------------------------------------------
(* The neighbour cache.                                                    *)

Lowest(S) == IF S = {} THEN 0 ELSE Min(S)

find_neighbor(nc, a) == Lowest({i \in Neighbors : nc[i].addr = a})

(* The entry is free again, unless a router uses it; the lladdr in it is   *)
(* another's from then on.                                                 *)
free_neighbor(nc, i) ==
    IF nc[i].isrouter THEN nc ELSE [nc EXCEPT ![i] = NO_ENTRY]

(* The entries nd6_new_neighbor_cache_entry may take: never a router's.    *)
Victims(nc) == {i \in Neighbors : nc[i].state = "NO_ENTRY" \/ ~nc[i].isrouter}

(* Its order: free, stale, probed, delayed, the reachable one that will be *)
(* stale first, the incomplete one without packets, then with packets,     *)
(* probed most.                                                            *)
Worth(e, i) ==
    LET big == 1000
        longest == (MAX_SOLICIT - e.counter) * NUM_NEIGHBORS + NUM_NEIGHBORS - i
    IN  CASE e.state = "NO_ENTRY"  -> i
          [] e.state = "STALE"     -> big + i
          [] e.state = "PROBE"     -> 2 * big + i
          [] e.state = "DELAY"     -> 3 * big + i
          [] e.state = "REACHABLE" -> 4 * big + e.counter * NUM_NEIGHBORS + i
          [] OTHER                 -> (IF e.q = <<>> THEN 5 ELSE 6) * big + longest

(* nd6_new_neighbor_cache_entry: the index (0: none) and the cache.        *)
new_neighbor(nc) ==
    LET V == Victims(nc)
        i == CHOOSE v \in V : \A w \in V : Worth(nc[v], v) <= Worth(nc[w], w)
    IN  IF V = {} THEN [i |-> 0, nc |-> nc] ELSE [i |-> i, nc |-> free_neighbor(nc, i)]

Known(e, a, netif) ==
    [e EXCEPT !.state = "DELAY", !.counter = DELAY_TIME, !.own = TRUE, !.addr = a,
              !.netif = netif]

Incomplete(e, a, netif) ==
    [e EXCEPT !.state = "INCOMPLETE", !.counter = 1, !.addr = a, !.netif = netif]

Reachable(e) == [e EXCEPT !.state = "REACHABLE", !.counter = REACHABLE_TIME]

(* A lladdr for a learned from a solicitation or a redirect: a new entry   *)
(* or one that was incomplete is usable now and probed soon.               *)
Learn(nc, a, netif) ==
    LET i == find_neighbor(nc, a)
        new == new_neighbor(nc)
    IN  IF i # 0 THEN IF nc[i].state = "INCOMPLETE"
                      THEN [nc EXCEPT ![i] = Known(@, a, netif)] ELSE nc
        ELSE IF new.i = 0 THEN nc ELSE [new.nc EXCEPT ![new.i] = Known(@, a, netif)]

-----------------------------------------------------------------------------
(* Destinations, prefixes and routers.                                     *)

find_destination(dc, a) == Lowest({i \in Dst : dc[i].dest = a})

(* A free entry, else the last one that has not been used since the last   *)
(* tick, else the last one.                                                *)
new_destination(dc) ==
    LET free == {i \in Dst : dc[i].dest = Any}
        aged == {i \in Dst : dc[i].age > 0}
    IN  IF free # {} THEN Min(free) ELSE IF aged # {} THEN Max(aged) ELSE NUM_DESTINATIONS

clear_destination_cache(dc) == [j \in Dst |-> [dc[j] EXCEPT !.dest = Any]]

is_prefix_in_netif(a, netif) ==
    \E i \in Pfx : /\ prefix_list[i].netif = netif /\ prefix_list[i].timer > 0
                   /\ prefix_list[i].prefix = prefixOf(a)

(* The routers nd6_select_router considers: on netif, or on any that is up *)
(* (here all are) when netif is NoNetif.                                   *)
Usable(nc, i, netif) ==
    /\ default_router_list[i].entry # 0
    /\ nc[default_router_list[i].entry].netif \in (IF netif = NoNetif THEN Netifs ELSE {netif})

stateOf(nc, i) == nc[default_router_list[i].entry].state

(* nd6_select_router: a reachable router, else one that is known, else     *)
(* round robin, which only moves on for nd6_find_route.                    *)
select_router(nc, netif) ==
    LET use == {i \in Rtr : Usable(nc, i, netif)}
        reach == {i \in use : stateOf(nc, i) = "REACHABLE"}
        known == {i \in use : stateOf(nc, i) # "INCOMPLETE"}
        from == IF netif = NoNetif THEN (last_router % NUM_ROUTERS) + 1 ELSE last_router
        after(i) == (i - from + NUM_ROUTERS) % NUM_ROUTERS
    IN  IF reach # {} THEN [i |-> Min(reach), last |-> last_router]
        ELSE IF known # {} THEN [i |-> Min(known), last |-> last_router]
        ELSE [last |-> from,
              i |-> IF use = {} THEN 0
                    ELSE CHOOSE i \in use : \A j \in use : after(i) <= after(j)]

(* nd6_get_router, then nd6_new_router: the index in the list (0: no room  *)
(* in the cache or the list) and the cache.  A new entry is probed.        *)
get_router(a, netif) ==
    Lowest({i \in Rtr : LET e == default_router_list[i].entry
                        IN  e # 0 /\ neighbor_cache[e].addr = a
                                  /\ neighbor_cache[e].netif = netif})

new_router(nc, a, netif) ==
    LET known == find_neighbor(nc, a)
        new == new_neighbor(nc)
        e == IF known # 0 THEN known ELSE new.i
        nc1 == IF known # 0 THEN nc ELSE [new.nc EXCEPT ![e] = Incomplete(@, a, netif)]
        listed == {i \in Rtr : default_router_list[i].entry = e}
        free == {i \in Rtr : default_router_list[i].entry = 0}
    IN  IF e = 0 THEN [i |-> 0, e |-> 0, nc |-> nc]
        ELSE IF listed \cup free = {}
             THEN [i |-> 0, e |-> e, nc |-> [nc1 EXCEPT ![e].isrouter = FALSE]]
             ELSE [i |-> Min(IF listed # {} THEN listed ELSE free), e |-> e,
                   nc |-> [nc1 EXCEPT ![e].isrouter = TRUE]]

get_onlink_prefix(p, netif) ==
    Lowest({i \in Pfx : prefix_list[i].prefix = p /\ prefix_list[i].netif = netif})

new_onlink_prefix ==
    Lowest({i \in Pfx : prefix_list[i].netif = NoNetif \/ prefix_list[i].timer = 0})

-----------------------------------------------------------------------------
Init ==
    /\ neighbor_cache = [i \in Neighbors |-> NO_ENTRY]
    /\ destination_cache = [i \in Dst |-> [dest |-> Any, hop |-> Any, age |-> 0, pmtu |-> 0]]
    /\ default_router_list = [i \in Rtr |-> NoRouter]
    /\ prefix_list = [i \in Pfx |-> [prefix |-> 0, netif |-> NoNetif, timer |-> 0]]
    /\ cached_dest = 1 /\ cached_neighbor = 1 /\ last_router = 1

Keep == UNCHANGED <<destination_cache, default_router_list, prefix_list, cached_dest,
                    cached_neighbor, last_router>>

(* nd6_send_q: everything that waits goes out.                             *)
send_q(e) == [e EXCEPT !.q = <<>>]

(* A neighbour advertisement.  To a multicast address it only replaces a   *)
(* lladdr; otherwise it confirms the neighbour.                            *)
InputNA(a, netif, multicast, override, opt) ==
    LET i == find_neighbor(neighbor_cache, a)
        copies == override \/ neighbor_cache[i].state = "INCOMPLETE"
    IN  /\ i # 0
        /\ IF multicast
           THEN opt /\ override /\ neighbor_cache' = [neighbor_cache EXCEPT ![i].own = TRUE]
           ELSE /\ copies => opt
                /\ neighbor_cache' = [neighbor_cache EXCEPT ![i] =
                      send_q(Reachable([@ EXCEPT !.netif = netif, !.own = @ \/ copies]))]
        /\ Keep

(* A neighbour solicitation from a.                                        *)
InputNS(a, netif) == neighbor_cache' = Learn(neighbor_cache, a, netif) /\ Keep

(* A router advertisement: the router is entered, its lladdr used if none  *)
(* was known, a prefix entered if it has a lifetime or is known.           *)
InputRA(a, netif, lifetime, opt, prefix, valid) ==
    LET got == get_router(a, netif)
        new == new_router(neighbor_cache, a, netif)
        i == IF got # 0 THEN got ELSE new.i
        e == IF got # 0 THEN default_router_list[got].entry ELSE new.e
        nc == IF got # 0 THEN neighbor_cache ELSE new.nc
        old == get_onlink_prefix(prefix, netif)
        p == IF prefix = 0 THEN 0
             ELSE IF old # 0 \/ valid = 0 THEN old ELSE new_onlink_prefix
    IN  /\ IF i = 0 THEN neighbor_cache' = nc /\ UNCHANGED <<default_router_list, prefix_list>>
           ELSE /\ default_router_list' = [default_router_list EXCEPT
                                              ![i] = [entry |-> e, timer |-> lifetime]]
                /\ neighbor_cache' = IF opt /\ nc[e].state = "INCOMPLETE"
                                     THEN [nc EXCEPT ![e] = [Reachable(@) EXCEPT !.own = TRUE]] ELSE nc
                /\ prefix_list' = IF p = 0 THEN prefix_list
                                  ELSE [prefix_list EXCEPT ![p] = [prefix |-> prefix,
                                             netif |-> netif, timer |-> valid]]
        /\ UNCHANGED <<destination_cache, cached_dest, cached_neighbor, last_router>>

(* A redirect of a destination that is in use.                             *)
InputRD(d, target, netif, opt) ==
    LET i == find_destination(destination_cache, d)
    IN  /\ i # 0
        /\ destination_cache' = [destination_cache EXCEPT ![i].hop = target]
        /\ neighbor_cache' = IF opt THEN Learn(neighbor_cache, target, netif) ELSE neighbor_cache
        /\ UNCHANGED <<default_router_list, prefix_list, cached_dest, cached_neighbor, last_router>>

(* A packet to d was too big on its way.                                   *)
InputPTB(d, pmtu) ==
    LET i == find_destination(destination_cache, d)
    IN  /\ i # 0
        /\ destination_cache' = [destination_cache EXCEPT ![i].pmtu = pmtu]
        /\ UNCHANGED <<neighbor_cache, default_router_list, prefix_list, cached_dest,
                       cached_neighbor, last_router>>

(* nd6_get_destination_mtu, for a packet through an interface.             *)
destination_mtu(d) ==
    LET i == find_destination(destination_cache, d)
    IN  IF i # 0 /\ destination_cache[i].pmtu > 0 THEN destination_cache[i].pmtu ELSE MTU

-----------------------------------------------------------------------------
(* nd6_tmr, its part for neighbours: whoever does not answer MAX_SOLICIT   *)
(* probes is forgotten, but for routers.                                   *)
tick(nc, i) ==
    LET e == nc[i]
    IN  CASE e.state \in {"INCOMPLETE", "PROBE"} ->
               IF e.counter >= MAX_SOLICIT /\ ~e.isrouter THEN free_neighbor(nc, i)[i]
               ELSE [e EXCEPT !.counter = Cap(@ + 1, MAX_SOLICIT)]
          [] e.state = "REACHABLE" ->
               IF e.counter <= 1 THEN [send_q(e) EXCEPT !.state = "STALE", !.counter = 0]
               ELSE [send_q(e) EXCEPT !.counter = @ - 1]
          [] e.state = "DELAY" ->
               IF e.counter <= 1 THEN [e EXCEPT !.state = "PROBE", !.counter = 0]
               ELSE [e EXCEPT !.counter = @ - 1]
          [] OTHER -> e

(* Fault: the destinations behind a router stay when it expires.           *)
behindNone(dc, gone) == {j \in Dst : dc[j].hop \in gone /\ dc[j].dest = Any}

(* The destinations that are forgotten with the routers gone.              *)
behind(dc, gone) == {j \in Dst : dc[j].hop \in gone}

nd6_tmr ==
    LET nc == [i \in Neighbors |-> tick(neighbor_cache, i)]
        used == {i \in Rtr : default_router_list[i].entry # 0}
        old == {i \in used : default_router_list[i].timer <= 1}
        entries == {default_router_list[i].entry : i \in old}
        lost == behind(destination_cache, {nc[e].addr : e \in entries})
    IN  /\ neighbor_cache' = [i \in Neighbors |-> IF i \in entries
                                 THEN [nc[i] EXCEPT !.isrouter = FALSE] ELSE nc[i]]
        /\ destination_cache' = [j \in Dst |-> [destination_cache[j] EXCEPT
                                    !.age = 1, !.dest = IF j \in lost THEN Any ELSE @]]
        /\ default_router_list' = [i \in Rtr |-> IF i \in old THEN NoRouter
                ELSE IF i \in used THEN [default_router_list[i] EXCEPT !.timer = @ - 1]
                ELSE default_router_list[i]]
        /\ prefix_list' = [i \in Pfx |->
               IF prefix_list[i].netif = NoNetif THEN prefix_list[i]
               ELSE IF prefix_list[i].timer <= 1
                    THEN [prefix_list[i] EXCEPT !.timer = 0, !.netif = NoNetif]
                    ELSE [prefix_list[i] EXCEPT !.timer = @ - 1]]
        /\ UNCHANGED <<cached_dest, cached_neighbor, last_router>>

-----------------------------------------------------------------------------
(* nd6_get_next_hop_entry, first half: the destination's entry, from the   *)
(* index that was used last, the cache, or made anew (on-link, or by a     *)
(* router; r = 0: no route).                                               *)
destination_of(d, netif) ==
    LET at == IF destination_cache[cached_dest].dest = d THEN cached_dest
              ELSE find_destination(destination_cache, d)
        new == new_destination(destination_cache)
        r == select_router(neighbor_cache, netif).i
        onlink == islinklocal(d) \/ is_prefix_in_netif(d, netif)
        hop == IF onlink THEN d ELSE neighbor_cache[default_router_list[r].entry].addr
    IN  IF at # 0 THEN [i |-> at, ok |-> TRUE, dc |-> destination_cache]
        ELSE IF ~onlink /\ r = 0
             THEN [i |-> new, ok |-> FALSE, dc |-> [destination_cache EXCEPT ![new].dest = Any]]
             ELSE [i |-> new, ok |-> TRUE,
                   dc |-> [destination_cache EXCEPT ![new] = [@ EXCEPT !.dest = d, !.hop = hop,
                                                                 !.pmtu = MTU]]]

(* Second half: the neighbour it goes through; a new one is probed.        *)
neighbor_of(hop, netif) ==
    LET at == IF neighbor_cache[cached_neighbor].addr = hop THEN cached_neighbor
              ELSE find_neighbor(neighbor_cache, hop)
        new == new_neighbor(neighbor_cache)
    IN  IF at # 0 THEN [i |-> at, nc |-> neighbor_cache]
        ELSE IF new.i = 0 THEN [i |-> 0, nc |-> neighbor_cache]
        ELSE [i |-> new.i, nc |-> [new.nc EXCEPT ![new.i] = Incomplete(@, hop, netif)]]

(* nd6_queue_packet: without memory for a copy or an entry, the oldest     *)
(* ones make room; it may be in vain.                                      *)
queue_packet(e, d, drop, ok) ==
    [e EXCEPT !.q = SubSeq(@, drop + 1, Len(@)) \o (IF ok THEN <<d>> ELSE <<>>)]

(* nd6_get_next_hop_addr_or_queue: a packet to d goes to the neighbour's   *)
(* lladdr or waits for it.                                                 *)
next_hop_addr_or_queue(d, netif, drop, ok) ==
    LET to == destination_of(d, netif)
        nb == neighbor_of(to.dc[to.i].hop, netif)
        e == nb.nc[nb.i]
    IN  /\ cached_dest' = to.i
        /\ IF ~to.ok \/ nb.i = 0
           THEN /\ drop = 0 /\ ok
                /\ destination_cache' = to.dc /\ UNCHANGED <<neighbor_cache, cached_neighbor>>
           ELSE /\ destination_cache' = [to.dc EXCEPT ![to.i].age = 0]
                /\ cached_neighbor' = nb.i
                /\ IF e.state = "INCOMPLETE"
                   THEN /\ drop <= Len(e.q) /\ (ok \/ drop > 0 \/ e.q = <<>>)
                        /\ Len(e.q) - drop < QMax
                        /\ neighbor_cache' = [nb.nc EXCEPT ![nb.i] = queue_packet(@, d, drop, ok)]
                   ELSE /\ drop = 0 /\ ok
                        /\ neighbor_cache' = IF e.state # "STALE" THEN nb.nc
                              ELSE [nb.nc EXCEPT ![nb.i].state = "DELAY",
                                                 ![nb.i].counter = DELAY_TIME]
        /\ UNCHANGED <<default_router_list, prefix_list, last_router>>

(* nd6_find_route, for packets that no address of an interface matches:    *)
(* only the round robin among the routers has a state.                     *)
find_route(a) ==
    /\ \A i \in Pfx : prefix_list[i].netif # NoNetif => prefix_list[i].prefix # prefixOf(a)
    /\ last_router' = select_router(neighbor_cache, NoNetif).last
    /\ UNCHANGED <<neighbor_cache, destination_cache, default_router_list, prefix_list,
                   cached_dest, cached_neighbor>>

(* TCP made progress: the next hop to d is alive.                          *)
reachability_hint(d) ==
    LET j == IF destination_cache[cached_dest].dest = d THEN cached_dest
             ELSE find_destination(destination_cache, d)
        hop == destination_cache[j].hop
        i == IF neighbor_cache[cached_neighbor].addr = hop THEN cached_neighbor
             ELSE find_neighbor(neighbor_cache, hop)
    IN  /\ j # 0 /\ i # 0
        /\ neighbor_cache[i].state \notin {"INCOMPLETE", "NO_ENTRY"}
        /\ neighbor_cache' = [neighbor_cache EXCEPT ![i] = Reachable(@)] /\ Keep

(* The interface goes: its prefixes, neighbours and routers, and all       *)
(* destinations.                                                           *)
cleanup_netif(netif) ==
    LET mine == {i \in Neighbors : neighbor_cache[i].netif = netif}
    IN  /\ prefix_list' = [i \in Pfx |-> IF prefix_list[i].netif # netif THEN prefix_list[i]
                                         ELSE [prefix_list[i] EXCEPT !.netif = NoNetif]]
        /\ default_router_list' = [i \in Rtr |-> IF default_router_list[i].entry \in mine
                THEN [default_router_list[i] EXCEPT !.entry = 0] ELSE default_router_list[i]]
        /\ neighbor_cache' = [i \in Neighbors |-> IF i \in mine
                THEN NO_ENTRY ELSE neighbor_cache[i]]
        /\ destination_cache' = clear_destination_cache(destination_cache)
        /\ UNCHANGED <<cached_dest, cached_neighbor, last_router>>

Next ==
    \/ \E n \in Netifs :
          \/ \E a \in Hosts \cup Routers \cup Targets, m, o, opt \in BOOLEAN : InputNA(a, n, m, o, opt)
          \/ \E a \in Hosts : InputNS(a, n)
          \/ \E a \in Routers, l \in Lifetimes, opt \in BOOLEAN :
                \E p \in {0} \cup {prefixOf(d) : d \in Dests}, v \in Lifetimes :
                   InputRA(a, n, l, opt, p, v)
          \/ \E d \in Dests, t \in Targets, opt \in BOOLEAN : InputRD(d, t, n, opt)
          \/ \E d \in Dests, drop \in 0..QMax, ok \in BOOLEAN :
                next_hop_addr_or_queue(d, n, drop, ok)
          \/ cleanup_netif(n)
    \/ nd6_tmr
    \/ \E d \in Dests, m \in Pmtus : InputPTB(d, m)
    \/ \E d \in Dests : find_route(d)
    \/ \E d \in Dests : reachability_hint(d)

Spec == Init /\ [][Next]_vars

-----------------------------------------------------------------------------
TypeOK ==
    /\ \A i \in Neighbors :
          /\ neighbor_cache[i].state \in {"NO_ENTRY", "INCOMPLETE", "REACHABLE", "STALE", "DELAY",
                                        "PROBE"}
          /\ Len(neighbor_cache[i].q) <= QMax
          /\ neighbor_cache[i].state = "NO_ENTRY" => neighbor_cache[i] = NO_ENTRY
    /\ \A i \in Dst : destination_cache[i].dest \in Dests \cup {Any}
    /\ \A i \in Rtr : default_router_list[i].entry \in 0..NUM_NEIGHBORS
    /\ cached_dest \in Dst /\ cached_neighbor \in Neighbors /\ last_router \in Rtr

(* No neighbour, destination or prefix has two entries, whatever order     *)
(* messages, packets and evictions come in: the index that was used last   *)
(* (nd6_cached_*_index) finds what a search would.                         *)
OneEntryEach ==
    /\ \A i, j \in Neighbors : i < j /\ neighbor_cache[i].addr = neighbor_cache[j].addr
                               => neighbor_cache[i].addr = Any
    /\ \A i, j \in Dst : i < j /\ destination_cache[i].dest = destination_cache[j].dest
                         => destination_cache[i].dest = Any
    /\ \A i, j \in Pfx : i < j /\ prefix_list[i].netif = prefix_list[j].netif
                               /\ prefix_list[i].prefix = prefix_list[j].prefix
                         => prefix_list[i].netif = NoNetif

(* The default router list points at entries in use, each once, and        *)
(* isrouter, which keeps them from being evicted and forgotten, is set on  *)
(* these only: an entry never stays for good after its router left.        *)
RoutersAreEntries ==
    /\ \A i \in Rtr : LET e == default_router_list[i].entry
                       IN  e # 0 => neighbor_cache[e].state # "NO_ENTRY"
    /\ \A i, j \in Rtr : i < j /\ default_router_list[i].entry = default_router_list[j].entry
                         => default_router_list[i].entry = 0
    /\ \A i \in Neighbors : neighbor_cache[i].isrouter
                             <=> \E r \in Rtr : default_router_list[r].entry = i

(* The lladdr packets are sent to is the neighbour's own, never one that   *)
(* an entry kept from the neighbour it was used for before.                *)
LladdrIsTheirs ==
    \A i \in Neighbors : neighbor_cache[i].state \notin {"NO_ENTRY", "INCOMPLETE"}
                         => neighbor_cache[i].own

(* A destination is reached directly, over a router that has not expired,  *)
(* or where a router redirected it; and no packet waits on an entry that   *)
(* is stale, for which nothing would send it.                              *)
NextHopLives ==
    /\ \A j \in Dst : LET d == destination_cache[j]
                       IN  d.dest # Any => \/ d.hop \in {d.dest} \cup Targets
                                           \/ \E r \in Rtr : LET e == default_router_list[r].entry
                                                             IN  e # 0 /\ neighbor_cache[e].addr = d.hop
    /\ \A i \in Neighbors : neighbor_cache[i].state = "STALE" => neighbor_cache[i].q = <<>>

(* The path MTU learned for one destination is not that of the next one    *)
(* to use its entry.                                                       *)
PmtuNotInheritedStep ==
    \A j \in Dst, d \in Dests :
       destination_cache[j].dest # d /\ destination_cache'[j].dest = d
       => destination_mtu(d)' = MTU

PmtuNotInherited == [][PmtuNotInheritedStep]_vars

(* Nobody waits for good for a neighbour that does not answer.             *)
Waiting(i) == neighbor_cache[i].q # <<>> /\ ~neighbor_cache[i].isrouter
NobodyWaits == \A i \in Neighbors : []<>~Waiting(i)
=============================================================================
