------------------------------- MODULE Netif --------------------------------
(***************************************************************************)
(* netif.c: the list of interfaces and their numbers, the default, their   *)
(* IPv4 settings and flags, what is reported to whom when they change, and *)
(* the queue of packets an interface sends to itself.                      *)
(*                                                                         *)
(* The program has one interface, the loopback one netif_init adds, whose  *)
(* output it replaces.  IPv6 addresses are in module Nd6Addr.              *)
(***************************************************************************)
EXTENDS Integers, Sequences, FiniteSetsExt, SequencesExt

CONSTANTS
    Netifs,
    TOP,            \* 255: numbers run from 0 to TOP - 1
    Ips, Masks, Gws,    \* 0 is "any"
    Settings,       \* the [ip, mask, gw] that are set together
    LOOPBACK_MAX    \* LWIP_LOOPBACK_MAX_PBUFS

VARIABLES
    netif,          \* the structures, on the list or not
    netif_list, netif_num, netif_default,
    used,           \* local addresses of active TCP blocks
    picture,        \* what a listener for extended callbacks knows
    views           \* of the last step: the settings asked for together, and the
                    \* ones seen by status callbacks

vars == <<netif, netif_list, netif_num, netif_default, used, picture, views>>

NetifAssumption == Cardinality(Netifs) <= TOP /\ 0 \in Ips \cap Masks \cap Gws

None == 0
Zero == [ip |-> 0, mask |-> 0, gw |-> 0]
Listed == Range(netif_list)
View(s) == [ip |-> s.ip, mask |-> s.mask, gw |-> s.gw]

(* A step is a sequence of changes of one interface, with what is told     *)
(* between them: m is the interface, the local addresses, the listener's   *)
(* picture of it and the views so far.                                     *)
NoViews == [want |-> {}, seen |-> {}]
At(n) == [s |-> netif[n], used |-> used, pic |-> picture[n], views |-> NoViews]
Becomes(n, m) == /\ netif' = [netif EXCEPT ![n] = m.s] /\ used' = m.used
                 /\ picture' = [picture EXCEPT ![n] = m.pic] /\ views' = m.views

status_callback(m) == [m EXCEPT !.views.seen = @ \cup {View(m.s)}]

(* netif_do_ip_addr_changed, for TCP: connections of the old address end.  *)
do_ip_addr_changed(m, old) == [m EXCEPT !.used = @ \ ({old} \ {0})]

(* netif_issue_reports, to the neighbours.                                 *)
issue_reports(m) ==
    IF m.s.link /\ m.s.up /\ m.s.ip # 0 THEN [m EXCEPT !.s.announced = m.s.ip] ELSE m

-----------------------------------------------------------------------------
(* The settings.                                                           *)
do_set_ipaddr(m, ip) ==
    IF m.s.ip = ip THEN m
    ELSE status_callback(issue_reports(
            [do_ip_addr_changed(m, m.s.ip) EXCEPT !.s.ip = ip]))

do_set_netmask(m, mask) == [m EXCEPT !.s.mask = mask]
do_set_gw(m, gw) == [m EXCEPT !.s.gw = gw]

(* netif_invoke_ext_callback for changed settings.                         *)
SettingsTold(m) == [m EXCEPT !.pic.ip = m.s.ip, !.pic.mask = m.s.mask, !.pic.gw = m.s.gw]

set_ipaddr(n, ip) == /\ netif[n].ip # ip
                     /\ Becomes(n, SettingsTold(do_set_ipaddr(At(n), ip)))
set_netmask(n, mask) == /\ netif[n].mask # mask
                        /\ Becomes(n, SettingsTold(do_set_netmask(At(n), mask)))
set_gw(n, gw) == netif[n].gw # gw /\ Becomes(n, SettingsTold(do_set_gw(At(n), gw)))

(* netif_set_addr: the address is removed first and set last.              *)
set_addr(m, t) ==
    SettingsTold(IF t.ip = 0
                 THEN do_set_gw(do_set_netmask(do_set_ipaddr(m, 0), t.mask), t.gw)
                 ELSE do_set_ipaddr(do_set_gw(do_set_netmask(m, t.mask), t.gw), t.ip))

SetAddr(n, t) == Becomes(n, set_addr([At(n) EXCEPT !.views.want = {t}], t))

-----------------------------------------------------------------------------
(* Up and down, link up and link down.                                     *)
Down(m) == [m EXCEPT !.s.announced = 0]

netif_set_up(m) ==
    IF m.s.up THEN m
    ELSE issue_reports([status_callback([m EXCEPT !.s.up = TRUE]) EXCEPT !.pic.up = TRUE])

netif_set_down(m) ==
    IF ~m.s.up THEN m
    ELSE status_callback(Down([m EXCEPT !.pic.up = FALSE, !.s.up = FALSE]))

netif_set_link_up(m) ==
    IF m.s.link THEN m
    ELSE [issue_reports([m EXCEPT !.s.link = TRUE]) EXCEPT !.pic.link = TRUE]

netif_set_link_down(m) ==
    IF ~m.s.link THEN m ELSE Down([m EXCEPT !.s.link = FALSE, !.pic.link = FALSE])

Flags(n) == \/ Becomes(n, netif_set_up(At(n))) \/ Becomes(n, netif_set_down(At(n)))
            \/ Becomes(n, netif_set_link_up(At(n))) \/ Becomes(n, netif_set_link_down(At(n)))

-----------------------------------------------------------------------------
(* Fault: the next number, used or not.                                    *)
free_numNext(taken) == netif_num % TOP

(* netif_add looks for a number from netif_num on, around the end.         *)
free_num(taken) ==
    LET k == CHOOSE i \in 0 .. TOP - 1 : /\ (netif_num + i) % TOP \notin taken
                                         /\ \A j \in 0 .. i - 1 : (netif_num + j) % TOP \in taken
    IN  (netif_num + k) % TOP

Fresh == [ip |-> 0, mask |-> 0, gw |-> 0, up |-> FALSE, link |-> FALSE, num |-> 0,
        announced |-> 0, loop |-> <<>>, loop_cnt |-> 0]

Absent == [present |-> FALSE, up |-> FALSE, link |-> FALSE, ip |-> 0, mask |-> 0, gw |-> 0]

(* What an interface off the list was like does not matter: netif_add      *)
(* starts afresh.                                                          *)
Gone(m) == [m EXCEPT !.s = Fresh, !.pic = IF @.present THEN @ ELSE Absent]

(* netif_add: the driver's init may find the link up, and may fail.        *)
netif_add(n, t, link, ok) ==
    LET m == set_addr([At(n) EXCEPT !.s = [Fresh EXCEPT !.num = netif_num]], t)
        num == free_num({netif[i].num : i \in Listed})
    IN  /\ n \notin Listed
        /\ IF ok
           THEN /\ Becomes(n, [m EXCEPT !.s.link = link, !.s.num = num,
                                        !.pic = [present |-> TRUE, up |-> FALSE, link |-> link,
                                                 ip |-> t.ip, mask |-> t.mask, gw |-> t.gw]])
                /\ netif_num' = (IF num = TOP - 1 THEN 0 ELSE num + 1)
                /\ netif_list' = <<n>> \o netif_list
           ELSE Becomes(n, Gone(m)) /\ UNCHANGED <<netif_num, netif_list>>
        /\ UNCHANGED netif_default

netif_remove(n) ==
    LET m == [At(n) EXCEPT !.pic.present = FALSE]
    IN  /\ n \in Listed
        /\ Becomes(n, Gone(netif_set_down(do_ip_addr_changed(m, netif[n].ip))))
        /\ netif_default' = IF netif_default = n THEN None ELSE netif_default
        /\ netif_list' = SelectSeq(netif_list, LAMBDA i : i # n)
        /\ UNCHANGED netif_num

netif_set_default(n) == /\ n = None \/ n \in Listed
                        /\ netif_default' = n /\ views' = NoViews
                        /\ UNCHANGED <<netif, netif_list, netif_num, used, picture>>

-----------------------------------------------------------------------------
(* netif_loop_output: a copy is queued, one buffer long; netif_poll takes  *)
(* one packet off before it hands it to ip_input, which may answer.        *)
Loop(n, q, cnt) ==
    /\ netif' = [netif EXCEPT ![n].loop = q, ![n].loop_cnt = cnt] /\ views' = NoViews
    /\ UNCHANGED <<netif_list, netif_num, netif_default, used, picture>>

netif_loop_output(n, p) ==
    /\ netif[n].loop_cnt + 1 <= LOOPBACK_MAX
    /\ Loop(n, Append(netif[n].loop, p), netif[n].loop_cnt + 1)

netif_poll(n) == netif[n].loop # <<>> /\ Loop(n, Tail(netif[n].loop), netif[n].loop_cnt - 1)

(* A connection from the address of an interface that is up.               *)
Connect(n) == /\ netif[n].up /\ netif[n].ip # 0
              /\ used' = used \cup {netif[n].ip} /\ views' = NoViews
              /\ UNCHANGED <<netif, netif_list, netif_num, netif_default, picture>>

(* netif_get_by_index, netif_find.                                         *)
get_by_index(idx) == LET i == SelectInSeq(netif_list, LAMBDA n : netif[n].num + 1 = idx)
                     IN  IF idx = 0 \/ i = 0 THEN None ELSE netif_list[i]

-----------------------------------------------------------------------------
Init == /\ netif = [n \in Netifs |-> Fresh] /\ netif_list = <<>> /\ netif_num = 0
        /\ netif_default = None /\ used = {} /\ views = NoViews
        /\ picture = [n \in Netifs |-> Absent]

Change(n) == /\ \/ \E ip \in Ips : set_ipaddr(n, ip)
                \/ \E gw \in Gws : set_gw(n, gw)
                \/ \E mask \in Masks : set_netmask(n, mask)
                \/ \E t \in Settings : SetAddr(n, t)
                \/ Flags(n)
             /\ UNCHANGED <<netif_list, netif_num, netif_default>>

Next ==
    \/ \E n \in Netifs, t \in Settings, link, ok \in BOOLEAN : netif_add(n, t, link, ok)
    \/ \E n \in Listed : \/ Change(n) \/ netif_remove(n) \/ netif_set_default(n) \/ Connect(n)
                         \/ netif_loop_output(n, n) \/ netif_poll(n)
    \/ netif_set_default(None)

Spec == Init /\ [][Next]_vars

-----------------------------------------------------------------------------
TypeOK ==
    /\ \A n \in Netifs : /\ netif[n].num \in 0 .. TOP - 1 /\ netif[n].ip \in Ips
                         /\ netif[n].gw \in Gws /\ netif[n].mask \in Masks
    /\ netif_num \in 0 .. TOP - 1 /\ IsInjective(netif_list)
    /\ netif_default \in {None} \cup Listed

(* Numbers wrap and are used again, and yet an index names one interface   *)
(* of the list at any time.                                                *)
IndexNamesOne == \A n \in Listed : get_by_index(netif[n].num + 1) = n

(* Whatever came first, the address, the link or the flag: the neighbours  *)
(* of an interface that is ready know its present address.                 *)
NeighboursKnow ==
    \A n \in Listed : netif[n].up /\ netif[n].link /\ netif[n].ip # 0
                      => netif[n].announced = netif[n].ip

(* A listener that only keeps what the callbacks tell it knows the list,   *)
(* the flags and the settings.                                             *)
PictureTrue ==
    \A n \in Netifs : /\ picture[n].present <=> n \in Listed
                      /\ n \in Listed => /\ picture[n].up = netif[n].up
                                         /\ picture[n].link = netif[n].link
                                         /\ View(picture[n]) = View(netif[n])

(* No connection stays on an address that no interface has.                *)
NoneOnLostAddress == used \subseteq {netif[n].ip : n \in Listed}

(* The queue of an interface is counted exactly.                           *)
LoopCounted == \A n \in Netifs : /\ netif[n].loop_cnt = Len(netif[n].loop)
                                 /\ netif[n].loop_cnt <= LOOPBACK_MAX

(* A status callback of netif_set_addr never sees an address with another  *)
(* one's mask or gateway.                                                  *)
NoMixedView == \A t \in views.want : \A v \in views.seen : v.ip = 0 \/ v = t
=============================================================================
