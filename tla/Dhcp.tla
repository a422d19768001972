-------------------------------- MODULE Dhcp --------------------------------
(***************************************************************************)
(* dhcp.c: the DHCP client of an interface (LWIP_DHCP is 0 in the          *)
(* program's build).  A server is anybody who answers with the transaction *)
(* id of the client: offers, acknowledgements and refusals come at any     *)
(* time, with any address and lease.                                       *)
(*                                                                         *)
(* Time has two grains: the fine timer's timeout is armed or not and may   *)
(* end at any time, the lease is counted by the coarse timer.  The timers  *)
(* visit all interfaces; here each has its own tick, they only share the   *)
(* UDP block.                                                              *)
(***************************************************************************)
EXTENDS Integers, FiniteSets

CONSTANTS
    Netifs,
    Addrs, Leases,      \* a lease is [t0, t1, t2]; NotGiven for an absent option
    Infinite,           \* 0xffffffff
    TMAX,               \* 0xffff coarse ticks
    U32,                \* 2^32
    MAX_REQUESTS,       \* 5 retries of a request
    COOP_TRIES, TRIES_MAX,
    ETHARP,             \* the address is looked for with ARP first
    Restarts            \* dhcp_start is called for a running client

VARIABLES dhcp, ip, link, autoip, refcount,
          left          \* of the lease of ip, in coarse ticks

vars == <<dhcp, ip, link, autoip, refcount, left>>

NotGiven == -1
REBOOT_TRIES == 2

DhcpAssumption == /\ 0 \notin Addrs /\ TMAX > 0 /\ COOP_TRIES <= TRIES_MAX
                  /\ \A l \in Leases : l.t0 * 7 < U32 \/ l.t0 = Infinite

OFF == [state |-> "OFF", tries |-> 0, timer |-> FALSE, offered |-> 0,
        t0_lease |-> 0, t1 |-> 0, t2 |-> 0, t0_timeout |-> 0, t1_timeout |-> 0, t2_timeout |-> 0,
        t1_renew_time |-> 0, t2_rebind_time |-> 0, lease_used |-> 0, pcb |-> FALSE, coop |-> FALSE]

(* A handler transforms m: the client d and what it shares.                *)
At(n) == [d |-> dhcp[n], ip |-> ip[n], autoip |-> autoip[n], refs |-> refcount, left |-> left[n]]
Becomes(n, m) == /\ dhcp' = [dhcp EXCEPT ![n] = m.d] /\ ip' = [ip EXCEPT ![n] = m.ip]
                 /\ autoip' = [autoip EXCEPT ![n] = m.autoip] /\ refcount' = m.refs
                 /\ left' = [left EXCEPT ![n] = m.left]

dhcp_set_state(m, s) ==
    IF m.d.state = s THEN m
    ELSE [m EXCEPT !.d.state = s, !.d.tries = 0, !.d.timer = FALSE]

(* What every function that sends a message ends with.                     *)
Tried(m) == [m EXCEPT !.d.tries = IF @ < TRIES_MAX THEN @ + 1 ELSE @, !.d.timer = TRUE]

(* netif_set_addr.                                                         *)
SetAddr(m, a, lease) == [m EXCEPT !.ip = a, !.left = lease]

autoip_stop(m) == IF m.d.coop THEN [m EXCEPT !.autoip = FALSE, !.d.coop = FALSE] ELSE m

-----------------------------------------------------------------------------
(* The messages.                                                           *)
Coop(m) == IF m.d.tries >= COOP_TRIES /\ ~m.d.coop
           THEN [m EXCEPT !.d.coop = TRUE, !.autoip = TRUE] ELSE m

dhcp_discover(m) ==
    Coop(Tried(dhcp_set_state([m EXCEPT !.d.offered = 0], "SELECTING")))
dhcp_select(m) == Tried(dhcp_set_state(m, "REQUESTING"))
dhcp_check(m) == Tried(dhcp_set_state(m, "CHECKING"))
dhcp_renew(m) == Tried(dhcp_set_state(m, "RENEWING"))
dhcp_rebind(m) == Tried(dhcp_set_state(m, "REBINDING"))
dhcp_reboot(m) == Tried(dhcp_set_state(m, "REBOOTING"))

(* Fault: no timeout after a refusal.                                      *)
dhcp_declineSilent(m) == dhcp_set_state(m, "BACKING_OFF")

dhcp_decline(m) == Tried(dhcp_set_state(m, "BACKING_OFF"))

dhcp_supplied_address(n) == dhcp[n].state \in {"BOUND", "RENEWING", "REBINDING"}

-----------------------------------------------------------------------------
(* The leases: rounded to coarse ticks, at least one.                      *)
Ticks(t) == IF t = 0 THEN 1 ELSE IF t > TMAX THEN TMAX ELSE t

dhcp_bind(m) ==
    LET d == m.d
        t0 == IF d.t0_lease = Infinite THEN d.t0_timeout ELSE Ticks(d.t0_lease)
        t1 == IF d.t1 = Infinite THEN d.t1_timeout ELSE Ticks(d.t1)
        t2 == IF d.t2 = Infinite THEN d.t2_timeout ELSE Ticks(d.t2)
    IN  SetAddr(dhcp_set_state(autoip_stop([m EXCEPT
            !.d.lease_used = 0, !.d.t0_timeout = t0, !.d.t2_timeout = t2,
            !.d.t1_timeout = IF t1 >= t2 /\ t2 > 0 THEN 0 ELSE t1,
            !.d.t1_renew_time = IF d.t1 = Infinite THEN @ ELSE t1,
            !.d.t2_rebind_time = IF d.t2 = Infinite THEN @ ELSE t2]), "BOUND"),
            d.offered, IF d.t0_lease = Infinite THEN Infinite ELSE Ticks(d.t0_lease))

dhcp_handle_ack(m, a, l) ==
    LET t0 == IF l.t0 = NotGiven THEN m.d.t0_lease ELSE l.t0
    IN  [m EXCEPT !.d.t0_lease = t0, !.d.offered = a,
                  !.d.t1 = IF l.t1 = NotGiven THEN t0 \div 2 ELSE l.t1,
                  !.d.t2 = IF l.t2 = NotGiven THEN ((t0 * 7) % U32) \div 8 ELSE l.t2]

dhcp_handle_nak(m) ==
    dhcp_discover(SetAddr(dhcp_set_state(m, "BACKING_OFF"), 0, 0))

dhcp_handle_offer(m, a) == dhcp_select([m EXCEPT !.d.timer = FALSE, !.d.offered = a])

(* dhcp_recv.                                                              *)
RecvAck(n, a, l) ==
    LET m == dhcp_handle_ack(At(n), a, l)
    IN  \/ dhcp[n].state = "REQUESTING" /\ Becomes(n, IF ETHARP THEN dhcp_check(m) ELSE dhcp_bind(m))
        \/ dhcp[n].state \in {"REBOOTING", "REBINDING", "RENEWING"} /\ Becomes(n, dhcp_bind(m))

Recv(n) ==
    /\ dhcp[n].pcb
    /\ \/ \E a \in Addrs, l \in Leases : RecvAck(n, a, l)
       \/ /\ dhcp[n].state \in {"REBOOTING", "REQUESTING", "REBINDING", "RENEWING"}
          /\ Becomes(n, dhcp_handle_nak(At(n)))
       \/ /\ dhcp[n].state = "SELECTING"
          /\ \E a \in Addrs : Becomes(n, dhcp_handle_offer(At(n), a))
    /\ UNCHANGED link

-----------------------------------------------------------------------------
(* Start and stop.  The block dhcp_pcb is shared by all clients.           *)
dec_pcb_refcount(m) == [m EXCEPT !.refs = @ - 1, !.d.pcb = FALSE]

dhcp_release_and_stop(m) ==
    LET zero == SetAddr([m EXCEPT !.d.offered = 0, !.d.t0_lease = 0, !.d.t1 = 0, !.d.t2 = 0,
                                  !.d.t1_renew_time = 0, !.d.t2_rebind_time = 0,
                                  !.d.lease_used = 0, !.d.t0_timeout = 0], 0, 0)
    IN  IF m.d.state = "OFF" THEN m
        ELSE IF m.d.pcb THEN dec_pcb_refcount(dhcp_set_state(autoip_stop(zero), "OFF"))
                        ELSE dhcp_set_state(autoip_stop(zero), "OFF")

(* ok: a UDP block can be allocated if there is none.                      *)
dhcp_start(m, up, ok) ==
    LET off == [(IF m.d.pcb THEN dec_pcb_refcount(m) ELSE m) EXCEPT !.d = OFF]
        on == [off EXCEPT !.d.pcb = TRUE, !.refs = @ + 1]
    IN  IF off.refs = 0 /\ ~ok THEN off
        ELSE IF up THEN dhcp_discover(on) ELSE dhcp_set_state(on, "INIT")

Start(n, ok) == /\ Restarts \/ dhcp[n].state = "OFF"
                /\ Becomes(n, dhcp_start(At(n), link[n], ok)) /\ UNCHANGED link

Stop(n) == /\ dhcp[n].state # "OFF"
           /\ Becomes(n, dhcp_release_and_stop(At(n))) /\ UNCHANGED link

-----------------------------------------------------------------------------
(* The timers.                                                             *)
dhcp_t1_timeout(m) ==
    IF m.d.state \notin {"REQUESTING", "BOUND", "RENEWING"} THEN m
    ELSE LET half == (m.d.t2_timeout - m.d.lease_used) \div 2
         IN  [dhcp_renew(m) EXCEPT !.d.t1_renew_time = IF half >= 1 THEN half ELSE @]

dhcp_t2_timeout(m) ==
    IF m.d.state \notin {"REQUESTING", "BOUND", "RENEWING", "REBINDING"} THEN m
    ELSE LET half == (m.d.t0_timeout - m.d.lease_used) \div 2
         IN  [dhcp_rebind(m) EXCEPT !.d.t2_rebind_time = IF half >= 1 THEN half ELSE @]

Less(t) == IF t = 0 THEN 0 ELSE t - 1

(* dhcp_coarse_tmr.  When T2 is due, T1 is not counted.                    *)
Coarse(m, up, ok) ==
    LET used == IF m.d.t0_timeout # 0 THEN m.d.lease_used + 1 ELSE m.d.lease_used
        d == m.d
        older == [m EXCEPT !.d.lease_used = used, !.d.t2_rebind_time = Less(@)]
    IN  IF d.state = "OFF" THEN m
        ELSE IF d.t0_timeout # 0 /\ used = d.t0_timeout
             THEN dhcp_start(dhcp_release_and_stop([m EXCEPT !.d.lease_used = used]), up, ok)
        ELSE IF d.t2_rebind_time = 1 THEN dhcp_t2_timeout(older)
        ELSE IF d.t1_renew_time = 1 THEN dhcp_t1_timeout([older EXCEPT !.d.t1_renew_time = 0])
        ELSE [older EXCEPT !.d.t1_renew_time = Less(@)]

Aged(m) == [m EXCEPT !.left = IF @ \in {0, Infinite} THEN @ ELSE @ - 1]

dhcp_coarse_tmr(n, ok) == Becomes(n, Coarse(Aged(At(n)), link[n], ok)) /\ UNCHANGED link

dhcp_timeout(m, up, ok) ==
    CASE m.d.state \in {"BACKING_OFF", "SELECTING"} -> dhcp_discover(m)
      [] m.d.state = "REQUESTING" -> IF m.d.tries <= MAX_REQUESTS THEN dhcp_select(m)
                                     ELSE dhcp_start(dhcp_release_and_stop(m), up, ok)
      [] m.d.state = "CHECKING" -> IF m.d.tries <= 1 THEN dhcp_check(m) ELSE dhcp_bind(m)
      [] m.d.state = "REBOOTING" -> IF m.d.tries < REBOOT_TRIES THEN dhcp_reboot(m)
                                    ELSE dhcp_discover(m)
      [] OTHER -> m

dhcp_fine_tmr(n, ok) ==
    /\ dhcp[n].timer
    /\ Becomes(n, dhcp_timeout([At(n) EXCEPT !.d.timer = FALSE], link[n], ok))
    /\ UNCHANGED link

-----------------------------------------------------------------------------
(* Somebody has the address that was offered.                              *)
dhcp_arp_reply(n) == /\ dhcp[n].state = "CHECKING"
                     /\ Becomes(n, dhcp_decline(At(n))) /\ UNCHANGED link

(* netif_set_link_up calls dhcp_network_changed.                           *)
network_changed(m) ==
    CASE m.d.state \in {"REBINDING", "RENEWING", "BOUND", "REBOOTING"} ->
             dhcp_reboot([m EXCEPT !.d.tries = 0])
      [] m.d.state = "OFF" -> m
      [] OTHER -> dhcp_discover([autoip_stop(m) EXCEPT !.d.tries = 0])

LinkUp(n) == /\ ~link[n] /\ link' = [link EXCEPT ![n] = TRUE]
             /\ Becomes(n, network_changed(At(n)))
LinkDown(n) == /\ link[n] /\ link' = [link EXCEPT ![n] = FALSE]
               /\ UNCHANGED <<dhcp, ip, autoip, refcount, left>>

-----------------------------------------------------------------------------
Init == /\ dhcp = [n \in Netifs |-> OFF] /\ ip = [n \in Netifs |-> 0]
        /\ link = [n \in Netifs |-> TRUE] /\ autoip = [n \in Netifs |-> FALSE]
        /\ refcount = 0 /\ left = [n \in Netifs |-> 0]

Next == \E n \in Netifs :
    \/ \E ok \in BOOLEAN : Start(n, ok) \/ dhcp_coarse_tmr(n, ok) \/ dhcp_fine_tmr(n, ok)
    \/ Stop(n) \/ Recv(n) \/ dhcp_arp_reply(n) \/ LinkUp(n) \/ LinkDown(n)

Spec == Init /\ [][Next]_vars

-----------------------------------------------------------------------------
TypeOK ==
    /\ \A n \in Netifs :
          /\ dhcp[n].state \in {"OFF", "INIT", "SELECTING", "REQUESTING", "CHECKING", "BOUND",
                                "RENEWING", "REBINDING", "REBOOTING", "BACKING_OFF"}
          /\ dhcp[n].tries \in 0 .. TRIES_MAX /\ dhcp[n].timer \in BOOLEAN
          /\ dhcp[n].t0_timeout \in 0 .. TMAX /\ dhcp[n].lease_used \in 0 .. TMAX
          /\ ip[n] \in {0} \cup Addrs
    /\ refcount \in 0 .. Cardinality(Netifs)

(* Through renewals, refusals, reboots and lost links: an address is never *)
(* used after its lease has ended.                                         *)
LeaseHonoured == \A n \in Netifs : ip[n] # 0 /\ ~Restarts => left[n] # 0

(* A client that waits for an answer has a timeout, or a lease that ends:  *)
(* it does not wait for ever.                                              *)
NeverStuck ==
    \A n \in Netifs :
        dhcp[n].state \in {"SELECTING", "REQUESTING", "CHECKING", "BACKING_OFF", "REBOOTING"}
        => dhcp[n].timer

(* The shared UDP block is there while somebody runs, and no longer.       *)
PcbCounted ==
    /\ refcount = Cardinality({n \in Netifs : dhcp[n].pcb})
    /\ \A n \in Netifs : dhcp[n].pcb <=> dhcp[n].state # "OFF"

(* DHCP and AutoIP do not both configure an interface.                     *)
OneConfigures ==
    \A n \in Netifs : /\ ~Restarts => (autoip[n] <=> dhcp[n].coop)
                      /\ dhcp[n].state = "BOUND" => ~dhcp[n].coop
=============================================================================
