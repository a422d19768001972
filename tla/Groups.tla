------------------------------- MODULE Groups -------------------------------
(***************************************************************************)
(* igmp.c and mld6.c: the multicast groups a host is a member of (both     *)
(* compiled out of the program's build).  Applications join and leave,     *)
(* routers ask, other members of a group answer before this host does, and *)
(* memory for a group or a message may be missing.  Address 0 is the group *)
(* of all systems, which IGMP joins when an interface starts and never     *)
(* reports.  Time passes in ticks of the protocol's timer.                 *)
(***************************************************************************)
EXTENDS Integers, FiniteSets

CONSTANTS MLD,              \* mld6.c, or igmp.c
          Netifs, Addrs,    \* interfaces, and groups to join
          JOIN_TMR,         \* JOIN_DELAYING_MEMBER_TMR
          V1_TMR,           \* IGMP_V1_DELAYING_MEMBER_TMR
          Resps,            \* longest delays that queries allow, as the code reads them
          UseMax            \* bound: joins of one group

GroupsAssumption == 0 \notin Addrs /\ (\A n \in Netifs : n # 0) /\ JOIN_TMR \in Nat /\ V1_TMR \in Nat

VARIABLES group,            \* netif_igmp_data, netif_mld6_data
          filter,           \* the groups the driver was told to receive
          joins,            \* how often applications joined, less how often they left
          reporter,         \* who reported a group last on the link
          sent              \* messages of the last step

vars == <<group, filter, joins, reporter, sent>>

NONE == [state |-> "NON_MEMBER", timer |-> 0, last |-> FALSE, use |-> 0]
All == Addrs \cup {0}
Has(n) == {a \in All : group[n][a] # NONE}

-----------------------------------------------------------------------------
(* igmp_start_timer: a random delay, but at least one tick.                *)
start_timer(max) == IF max > 2 THEN 1 .. max - 1 ELSE {1}

(* mld6_delayed_report's delay.                                            *)
report_delay(max) == IF max > 1 THEN 1 .. max - 1 ELSE {1}

Delays(max) == IF MLD THEN report_delay(max) ELSE start_timer(max)

(* igmp_delaying_member and mld6_delayed_report: a report that is due      *)
(* already is not put off.  IGMP compares the longest delay, MLD the one   *)
(* that was drawn.                                                         *)
Due(g, t) == g.state = "IDLE" \/ (g.state = "DELAYING" /\ (g.timer = 0 \/ t < g.timer))

Delayed(g, max, t) ==
    IF Due(g, IF MLD THEN t ELSE max) THEN [g EXCEPT !.timer = t, !.state = "DELAYING"] ELSE g

(* igmp_send and mld6_send: a report makes this host the last reporter.    *)
Report(n, a, ok) == IF ok THEN {[netif |-> n, addr |-> a, kind |-> "report"]} ELSE {}

Reported(r, n, a, ok) == [r EXCEPT ![n][a] = IF ok THEN "us" ELSE @]

-----------------------------------------------------------------------------
(* igmp_start and igmp_stop, mld6_stop.                                    *)
igmp_start(n) ==
    /\ ~MLD /\ group[n][0] = NONE
    /\ group' = [group EXCEPT ![n][0] = [NONE EXCEPT !.state = "IDLE", !.use = 1]]
    /\ filter' = [filter EXCEPT ![n] = @ \cup {0}]
    /\ joins' = [joins EXCEPT ![n][0] = 1] /\ sent' = {} /\ UNCHANGED reporter

stop(n) ==
    /\ Has(n) # {}
    /\ group' = [group EXCEPT ![n] = [a \in All |-> NONE]]
    /\ filter' = [filter EXCEPT ![n] = @ \ Has(n)]
    /\ joins' = [joins EXCEPT ![n] = [a \in All |-> 0]]
    /\ reporter' = [reporter EXCEPT ![n] = [a \in All |-> "none"]] /\ sent' = {}

(* igmp_joingroup_netif with igmp_lookup_group: the groups after the join. *)
igmp_joined(g, t, ok) ==
    IF g.state # "NON_MEMBER" THEN [g EXCEPT !.use = @ + 1]
    ELSE [g EXCEPT !.use = @ + 1, !.state = "DELAYING", !.timer = t, !.last = ok]

(* mld6_joingroup_netif with mld6_new_group.                               *)
mld6_joined(g, t, ok) ==
    IF g # NONE THEN [g EXCEPT !.use = @ + 1]
    ELSE Delayed([g EXCEPT !.use = @ + 1, !.state = "IDLE", !.last = ok], JOIN_TMR, t)

CanJoin(n) == MLD \/ group[n][0] # NONE

(* joingroup for the interfaces that match: the first one without memory   *)
(* ends it, and leaves the joins before it as they are.                    *)
joingroup(ns, a, upto, t, ok) == LET new == {n \in ns : n <= upto /\ group[n][a] = NONE} IN
    /\ \A n \in ns : CanJoin(n) /\ joins[n][a] < UseMax
    /\ \E n \in ns : n <= upto
    /\ group' = [n \in Netifs |-> IF n \in ns /\ n <= upto
                    THEN [group[n] EXCEPT ![a] = IF MLD THEN mld6_joined(@, t, ok) ELSE igmp_joined(@, t, ok)]
                    ELSE group[n]]
    /\ filter' = [n \in Netifs |-> IF n \in new THEN filter[n] \cup {a} ELSE filter[n]]
    /\ joins' = [n \in Netifs |-> IF n \in ns /\ n <= upto THEN [joins[n] EXCEPT ![a] = @ + 1] ELSE joins[n]]
    /\ reporter' = [n \in Netifs |-> IF n \in new THEN Reported(reporter, n, a, ok)[n] ELSE reporter[n]]
    /\ sent' = UNION {Report(n, a, ok) : n \in new}

(* leavegroup_netif: the last to leave removes the group, and says so if   *)
(* this host was the last one to report it.                                *)
Gone(g) == g.use <= 1

leavegroup(n, a, ok) == LET g == group[n][a] IN
    /\ g # NONE /\ joins[n][a] > 0
    /\ joins' = [joins EXCEPT ![n][a] = @ - 1]
    /\ IF Gone(g)
       THEN /\ group' = [group EXCEPT ![n][a] = NONE]
            /\ filter' = [filter EXCEPT ![n] = @ \ {a}]
            /\ sent' = IF g.last /\ ok THEN {[netif |-> n, addr |-> a, kind |-> "leave"]} ELSE {}
            /\ reporter' = [reporter EXCEPT ![n][a] = "none"]
       ELSE /\ group' = [group EXCEPT ![n][a].use = @ - 1]
            /\ sent' = {} /\ UNCHANGED <<filter, reporter>>

-----------------------------------------------------------------------------
(* A query for all groups (igmp_input, mld6_input), and the link coming    *)
(* back (report_groups): every group but that of all systems is due.       *)
Queried(n, as, max, t) ==
    /\ group' = [group EXCEPT ![n] = [a \in All |->
            IF a \in as /\ @[a] # NONE THEN Delayed(@[a], max, t) ELSE @[a]]]
    /\ sent' = {} /\ UNCHANGED <<filter, joins, reporter>>

query_all(n, resp, t) == LET max == IF ~MLD /\ resp = 0 THEN V1_TMR ELSE resp IN
    CanJoin(n) /\ t \in Delays(max) /\ Queried(n, Addrs, max, t)

query_group(n, a, resp, t) == t \in Delays(resp) /\ Queried(n, {a}, resp, t)

report_groups(n, t) == t \in Delays(JOIN_TMR) /\ Queried(n, Addrs, JOIN_TMR, t)

(* Another member reports a group: this host need not.                     *)
report_heard(n, a) ==
    /\ group[n][a] # NONE
    /\ group' = IF group[n][a].state = "DELAYING"
                THEN [group EXCEPT ![n][a] = [@ EXCEPT !.timer = 0, !.state = "IDLE", !.last = FALSE]]
                ELSE group
    /\ reporter' = [reporter EXCEPT ![n][a] = "other"] /\ sent' = {} /\ UNCHANGED <<filter, joins>>

(* igmp_tmr with igmp_timeout, mld6_tmr.                                   *)
Expires(n, a) == group[n][a].timer = 1 /\ group[n][a].state = "DELAYING" /\ a # 0

Ticked(n, a, ok) ==
    IF Expires(n, a)
    THEN [group[n][a] EXCEPT !.timer = 0, !.state = "IDLE", !.last = @ \/ ok]
    ELSE [group[n][a] EXCEPT !.timer = IF @ > 0 THEN @ - 1 ELSE 0]

tmr(ok) ==
    /\ group' = [n \in Netifs |-> [a \in All |-> Ticked(n, a, ok)]]
    /\ sent' = UNION {UNION {Report(n, a, ok) : a \in {b \in All : Expires(n, b)}} : n \in Netifs}
    /\ reporter' = [n \in Netifs |-> [a \in All |->
                        IF Expires(n, a) /\ ok THEN "us" ELSE reporter[n][a]]]
    /\ UNCHANGED <<filter, joins>>

Init ==
    /\ group = [n \in Netifs |-> [a \in All |-> NONE]] /\ filter = [n \in Netifs |-> {}]
    /\ joins = [n \in Netifs |-> [a \in All |-> 0]]
    /\ reporter = [n \in Netifs |-> [a \in All |-> "none"]] /\ sent = {}

Next ==
    \/ \E ok \in BOOLEAN : tmr(ok)
    \/ \E ns \in SUBSET Netifs, a \in Addrs, upto \in Netifs, t \in Delays(JOIN_TMR), ok \in BOOLEAN :
            joingroup(ns, a, upto, t, ok)
    \/ \E n \in Netifs :
        \/ igmp_start(n) \/ stop(n)
        \/ \E a \in Addrs, ok \in BOOLEAN : leavegroup(n, a, ok)
        \/ \E a \in Addrs : report_heard(n, a)
        \/ \E t \in Delays(JOIN_TMR) : report_groups(n, t)
        \/ \E resp \in Resps, t \in 1 .. V1_TMR : query_all(n, resp, t)
        \/ \E a \in Addrs, resp \in Resps, t \in 1 .. V1_TMR : query_group(n, a, resp, t)

Spec == Init /\ [][Next]_vars

-----------------------------------------------------------------------------
TypeOK ==
    \A n \in Netifs, a \in All :
        LET g == group[n][a]
        IN  /\ g.state \in {"NON_MEMBER", "DELAYING", "IDLE"} /\ g.last \in BOOLEAN
            /\ g.timer \in Nat /\ g.use \in 0 .. UseMax

(* The host receives a group exactly as long as an application that joined *)
(* it has not left it, whatever fails on the way.                          *)
MembershipCounted ==
    \A n \in Netifs, a \in All : /\ (joins[n][a] > 0) <=> (a \in filter[n])
                                 /\ group[n][a].use = joins[n][a]

(* A member that owes a report has a timer, so no query and no join stays  *)
(* unreported because the timer was lost.                                  *)
ReportsComing ==
    \A n \in Netifs, a \in Addrs : (group[n][a].state = "DELAYING") <=> (group[n][a].timer > 0)

(* When this host was the last to report a group, it knows, and will tell  *)
(* the routers that it leaves.                                             *)
LeaveWillBeTold ==
    \A n \in Netifs, a \in Addrs : (group[n][a] # NONE /\ reporter[n][a] = "us") => group[n][a].last

(* A query never puts off a report that is due.                            *)
NeverPutOffStep ==
    \A n \in Netifs, a \in Addrs :
         (/\ group[n][a].state = "DELAYING" /\ group'[n][a].state = "DELAYING")
         => group'[n][a].timer <= group[n][a].timer

NeverPutOff == [][NeverPutOffStep]_vars
=============================================================================
