------------------------------- MODULE Dhcp6 --------------------------------
(***************************************************************************)
(* dhcp6.c: the stateless DHCPv6 client (compiled out of the program's     *)
(* build).  Router advertisements ask for configuration and call it off    *)
(* again; answers may be late, repeated, or of an exchange that was given  *)
(* up, and may be cut short.                                               *)
(***************************************************************************)
EXTENDS Integers, FiniteSets, Sequences

CONSTANTS Netifs, Xids, TRIES_MAX,
          Servers,          \* the lists of name servers an answer may have
          MAX_SERVERS,      \* DNS_MAX_SERVERS
          InFlight          \* bound: answers on their way

VARIABLES dhcp6, refcount, dns, net,
          applied           \* answers that were used in the last step

vars == <<dhcp6, refcount, dns, net, applied>>

OFF == [state |-> "OFF", tries |-> 0, timer |-> FALSE, xid |-> 0, pcb |-> FALSE]

stateless_enabled(n) == dhcp6[n].state \in {"STATELESS_IDLE", "REQUESTING_CONFIG"}

dhcp6_set_state(d, s) ==
    IF d.state = s THEN d ELSE [d EXCEPT !.state = s, !.tries = 0, !.timer = FALSE]

(* What is on its way when an exchange ends is old.                        *)
Ended(n) == {[r EXCEPT !.old = @ \/ r.to = n] : r \in net}

-----------------------------------------------------------------------------
(* dhcp6_enable_stateless with dhcp6_get_struct.                           *)
enable_stateless(n, ok) ==
    /\ ~stateless_enabled(n) /\ (refcount > 0 \/ ok)
    /\ dhcp6' = [dhcp6 EXCEPT ![n] = [dhcp6_set_state(@, "STATELESS_IDLE") EXCEPT !.pcb = TRUE]]
    /\ refcount' = IF dhcp6[n].pcb THEN refcount ELSE refcount + 1
    /\ applied' = {} /\ UNCHANGED <<dns, net>>

dhcp6_disable(n) ==
    /\ dhcp6[n].state # "OFF"
    /\ dhcp6' = [dhcp6 EXCEPT ![n] = [dhcp6_set_state(@, "OFF") EXCEPT !.pcb = FALSE]]
    /\ refcount' = IF dhcp6[n].pcb THEN refcount - 1 ELSE refcount
    /\ net' = Ended(n) /\ applied' = {} /\ UNCHANGED dns

-----------------------------------------------------------------------------
(* dhcp6_create_msg: a new exchange has a new identifier, a random one     *)
(* that no answer on its way has.                                          *)
create_msg(d) == IF d.tries = 0 THEN Xids \ {r.xid : r \in net} ELSE {d.xid}

information_request(n) == \E xid \in create_msg(dhcp6[n]) :
    /\ dhcp6' = [dhcp6 EXCEPT ![n] =
            LET d == dhcp6_set_state([@ EXCEPT !.xid = xid], "REQUESTING_CONFIG")
            IN  [d EXCEPT !.tries = IF @ < TRIES_MAX THEN @ + 1 ELSE @, !.timer = TRUE]]
    /\ UNCHANGED <<refcount, dns, net>>

(* dhcp6_nd6_ra_trigger.                                                   *)
ra_trigger(n, other_config) ==
    /\ applied' = {}
    /\ \/ other_config /\ dhcp6[n].state = "STATELESS_IDLE" /\ information_request(n)
       \/ /\ ~other_config /\ dhcp6[n].state = "REQUESTING_CONFIG"
          /\ dhcp6' = [dhcp6 EXCEPT ![n] = dhcp6_set_state(@, "STATELESS_IDLE")]
          /\ net' = Ended(n) /\ UNCHANGED <<refcount, dns>>

(* dhcp6_tmr and dhcp6_timeout.                                            *)
dhcp6_tmr(n) ==
    /\ dhcp6[n].timer /\ applied' = {}
    /\ IF dhcp6[n].state = "REQUESTING_CONFIG" THEN information_request(n)
       ELSE /\ dhcp6' = [dhcp6 EXCEPT ![n].timer = FALSE]
            /\ UNCHANGED <<refcount, dns, net>>

-----------------------------------------------------------------------------
(* A server answers the request that is waiting.                           *)
Answer(n, s, cut) ==
    /\ dhcp6[n].state = "REQUESTING_CONFIG" /\ Cardinality(net) < InFlight
    /\ net' = net \cup {[to |-> n, xid |-> dhcp6[n].xid, servers |-> s, cut |-> cut, old |-> FALSE]}
    /\ applied' = {} /\ UNCHANGED <<dhcp6, refcount, dns>>

(* dhcp6_handle_config_reply: servers are set one by one, up to the one    *)
(* that is cut off.                                                        *)
handle_config_reply(r) ==
    [i \in DOMAIN dns |-> IF i <= Len(r.servers) /\ ~(r.cut /\ i = Len(r.servers))
                          THEN r.servers[i] ELSE dns[i]]

(* dhcp6_recv; an answer may come twice.                                   *)
Accepts(r) == /\ dhcp6[r.to].pcb /\ dhcp6[r.to].xid = r.xid
              /\ dhcp6[r.to].state = "REQUESTING_CONFIG"

dhcp6_recv(r, again) ==
    /\ IF Accepts(r)
       THEN /\ dhcp6' = [dhcp6 EXCEPT ![r.to] = dhcp6_set_state(@, "STATELESS_IDLE")]
            /\ dns' = handle_config_reply(r) /\ applied' = {r}
            /\ net' = {[q EXCEPT !.old = @ \/ q.to = r.to] : q \in IF again THEN net ELSE net \ {r}}
       ELSE /\ net' = (IF again THEN net ELSE net \ {r}) /\ applied' = {}
            /\ UNCHANGED <<dhcp6, dns>>
    /\ UNCHANGED refcount

Init == /\ dhcp6 = [n \in Netifs |-> OFF] /\ refcount = 0 /\ net = {} /\ applied = {}
        /\ dns = [i \in 1 .. MAX_SERVERS |-> 0]

Next ==
    \/ \E n \in Netifs : \/ \E b \in BOOLEAN : enable_stateless(n, b) \/ ra_trigger(n, b)
                         \/ dhcp6_disable(n) \/ dhcp6_tmr(n)
                         \/ \E s \in Servers, cut \in BOOLEAN : Answer(n, s, cut)
    \/ \E r \in net, again \in BOOLEAN : dhcp6_recv(r, again)

Spec == Init /\ [][Next]_vars

-----------------------------------------------------------------------------
TypeOK == /\ \A n \in Netifs : /\ dhcp6[n].state \in {"OFF", "STATELESS_IDLE", "REQUESTING_CONFIG"}
                               /\ dhcp6[n].tries \in 0 .. TRIES_MAX
          /\ refcount \in 0 .. Cardinality(Netifs)

(* No answer of an exchange that was finished, called off or disabled is   *)
(* used for a later one.                                                   *)
NoOldAnswer == \A r \in applied : ~r.old

(* The UDP block is there exactly while a client is enabled, and a request *)
(* without an answer is repeated.                                          *)
ClientsServed ==
    /\ refcount = Cardinality({n \in Netifs : dhcp6[n].pcb})
    /\ \A n \in Netifs : /\ dhcp6[n].pcb <=> dhcp6[n].state # "OFF"
                         /\ dhcp6[n].timer <=> dhcp6[n].state = "REQUESTING_CONFIG"
=============================================================================
