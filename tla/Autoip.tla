------------------------------- MODULE Autoip -------------------------------
(***************************************************************************)
(* autoip.c: hosts on one link choose IPv4 link-local addresses (AutoIP is *)
(* compiled out of the program's build).  Every host runs the code; ARP    *)
(* packets reach the hosts it is connected to, in any order, before the    *)
(* next timer step, and a link may be cut in two and joined again.         *)
(*                                                                         *)
(* The waiting times between the steps of a host are left out: any host    *)
(* may be the next one.                                                    *)
(***************************************************************************)
EXTENDS Integers, FiniteSets

CONSTANTS
    Hosts, Seed,                \* and the address its hardware address gives
    RANGE_START, RANGE_END, MOD,    \* the low 16 bits of the addresses
    TRIED,                      \* tried_llipaddr wraps here (256)
    PROBE_NUM, ANNOUNCE_NUM,
    Splits                      \* whether the link may be cut

VARIABLES auto, ip, inbox, joined

vars == <<auto, ip, inbox, joined>>

AutoipAssumption ==
    /\ 0 < RANGE_START /\ RANGE_START < RANGE_END /\ RANGE_END < MOD
    /\ \A h \in Hosts : Seed[h] \in 0 .. MOD - 1

OFF == [state |-> "OFF", sent |-> 0, lla |-> 0, tried |-> 0, conflict |-> FALSE]

autoip_create_addr(h, tried) ==
    LET a == (RANGE_START + Seed[h] + tried) % MOD
        n == RANGE_END - RANGE_START + 1
    IN  IF a < RANGE_START THEN a + n ELSE IF a > RANGE_END THEN a - n ELSE a

-----------------------------------------------------------------------------
(* ARP, as etharp.c sends it: a request from the interface's address, and  *)
(* an answer to one for it.                                                *)
Reaches(h, g) == h # g /\ joined
Broadcast(h, sip, dip) ==
    [g \in Hosts |-> IF Reaches(h, g) THEN inbox[g] \cup {[from |-> h, sip |-> sip, dip |-> dip,
                                                          request |-> TRUE]}
                     ELSE inbox[g]]

autoip_arp_probe(h) == Broadcast(h, ip[h], auto[h].lla)
autoip_arp_announce(h) == Broadcast(h, ip[h], ip[h])

Set(h, d, a) == auto' = [auto EXCEPT ![h] = d] /\ ip' = [ip EXCEPT ![h] = a]

(* autoip_start, autoip_start_probing: any address of the interface goes.  *)
Started(h, tried) == [OFF EXCEPT !.state = "PROBING", !.tried = tried,
                                 !.lla = autoip_create_addr(h, tried)]
Restarted(h) == Started(h, (auto[h].tried + 1) % TRIED)

Quiet == \A h \in Hosts : inbox[h] = {}

autoip_start(h) == /\ auto[h].state = "OFF" /\ Quiet
                   /\ Set(h, Started(h, auto[h].tried), 0) /\ UNCHANGED <<inbox, joined>>

autoip_stop(h) == /\ auto[h].state # "OFF" /\ Quiet
                  /\ Set(h, [auto[h] EXCEPT !.state = "OFF"], 0) /\ UNCHANGED <<inbox, joined>>

(* The link comes up again: the address is kept and probed for.            *)
autoip_network_changed(h) ==
    /\ auto[h].state # "OFF" /\ Quiet
    /\ Set(h, [auto[h] EXCEPT !.state = "PROBING", !.sent = 0], ip[h])
    /\ UNCHANGED <<inbox, joined>>

-----------------------------------------------------------------------------
(* autoip_tmr.                                                             *)
Probe(h) ==
    /\ auto[h].state = "PROBING" /\ auto[h].sent < PROBE_NUM
    /\ inbox' = autoip_arp_probe(h)
    /\ Set(h, [auto[h] EXCEPT !.sent = @ + 1], ip[h])

Bind(h) ==
    /\ auto[h].state = "PROBING" /\ auto[h].sent >= PROBE_NUM
    /\ Set(h, [auto[h] EXCEPT !.state = "ANNOUNCING", !.sent = 1], auto[h].lla)
    /\ UNCHANGED inbox

Announce(h) ==
    /\ auto[h].state = "ANNOUNCING"
    /\ inbox' = autoip_arp_announce(h)
    /\ Set(h, IF auto[h].sent + 1 >= ANNOUNCE_NUM THEN [auto[h] EXCEPT !.state = "BOUND", !.sent = 0]
              ELSE [auto[h] EXCEPT !.sent = @ + 1], ip[h])

(* lastconflict has run down.                                              *)
Calm(h) == /\ auto[h].conflict /\ Set(h, [auto[h] EXCEPT !.conflict = FALSE], ip[h])
           /\ UNCHANGED inbox

autoip_tmr(h) == Quiet /\ (Probe(h) \/ Bind(h) \/ Announce(h) \/ Calm(h)) /\ UNCHANGED joined

-----------------------------------------------------------------------------
(* autoip_handle_arp_conflict: defend the address once, then give it up.   *)
Conflict(h, rest) ==
    IF auto[h].conflict
    THEN Set(h, Restarted(h), 0) /\ inbox' = rest
    ELSE /\ Set(h, [auto[h] EXCEPT !.conflict = TRUE], ip[h])
         /\ inbox' = [g \in Hosts |-> IF Reaches(h, g)
                                      THEN rest[g] \cup {[from |-> h, sip |-> ip[h], dip |-> ip[h],
                                                          request |-> TRUE]} ELSE rest[g]]

(* autoip_arp_reply, called for every ARP packet.                          *)
Probed(h, m) == m.sip = auto[h].lla \/ (m.sip = 0 /\ m.dip = auto[h].lla)

autoip_arp_reply(h, m, rest) ==
    CASE auto[h].state = "PROBING" /\ Probed(h, m) -> Set(h, Restarted(h), 0) /\ inbox' = rest
      [] auto[h].state \in {"ANNOUNCING", "BOUND"} /\ m.sip = auto[h].lla -> Conflict(h, rest)
      [] OTHER -> UNCHANGED <<auto, ip>> /\ inbox' = rest

(* etharp_input also answers a request for the interface's address.        *)
Receive(h) == \E m \in inbox[h] :
    LET answer == IF m.request /\ ip[h] # 0 /\ m.dip = ip[h] /\ Reaches(h, m.from)
                  THEN {[from |-> h, sip |-> ip[h], dip |-> m.sip, request |-> FALSE]} ELSE {}
    IN  /\ autoip_arp_reply(h, m, [inbox EXCEPT ![h] = @ \ {m}, ![m.from] = @ \cup answer])
        /\ UNCHANGED joined

(* A host that uses its address sends ARP requests.                        *)
Talk(h) == /\ Quiet /\ ip[h] # 0 /\ inbox' = Broadcast(h, ip[h], 0) /\ UNCHANGED <<auto, ip, joined>>

Cut == Splits /\ Quiet /\ joined' = ~joined /\ UNCHANGED <<auto, ip, inbox>>

Init == /\ auto = [h \in Hosts |-> OFF] /\ ip = [h \in Hosts |-> 0]
        /\ inbox = [h \in Hosts |-> {}] /\ joined = TRUE

Next == \/ \E h \in Hosts : \/ autoip_start(h) \/ autoip_stop(h) \/ autoip_network_changed(h)
                            \/ autoip_tmr(h) \/ Receive(h) \/ Talk(h)
        \/ Cut

Spec == Init /\ [][Next]_vars

-----------------------------------------------------------------------------
TypeOK ==
    /\ \A h \in Hosts : /\ auto[h].state \in {"OFF", "PROBING", "ANNOUNCING", "BOUND"}
                        /\ auto[h].state # "OFF" => auto[h].lla \in RANGE_START .. RANGE_END
                        /\ ip[h] \in {0, auto[h].lla}
    /\ joined \in BOOLEAN

Duplicate == \E g, h \in Hosts : g # h /\ ip[g] # 0 /\ ip[g] = ip[h]

(* On a link that was never cut no two hosts use one address, however      *)
(* their probes, announcements, stops and restarts interleave.             *)
NoTwoOwners == ~Splits /\ Quiet => ~Duplicate

(* A host uses an address only after it has probed for it, and has one     *)
(* whenever it says so (autoip_supplied_address).                          *)
SuppliedIsSet == \A h \in Hosts : auto[h].state \in {"ANNOUNCING", "BOUND"} => ip[h] = auto[h].lla

(* Two hosts that found one address on both sides of a cut do not keep it  *)
(* once the link is joined and they talk.                                  *)
Clash == joined /\ Duplicate
ConflictEnds == []<>~Clash
=============================================================================
