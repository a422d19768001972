------------------------------ MODULE Nd6Addr -------------------------------
(***************************************************************************)
(* The IPv6 addresses of an interface: how netif.c adds and changes them,  *)
(* how nd6.c forms them from the prefixes routers advertise, looks for     *)
(* duplicates, lets them expire, and solicits routers.                     *)
(*                                                                         *)
(* An address is [net, host]; slot 0 holds the link-local one, whose host  *)
(* part the formed addresses take over.  A valid life of 0 means static.   *)
(* out has the messages sent and the addresses whose loss was reported to  *)
(* TCP, UDP and raw blocks in the last step.                               *)
(***************************************************************************)
EXTENDS Integers, FiniteSetsExt

CONSTANTS
    NUM_ADDRESSES,
    DUP_DETECT_ATTEMPTS, MAX_SOLICIT,
    RS_INTERVAL,        \* ticks of nd6_tmr between two solicitations
    TWO_HOURS, INFINITE,
    Prefixes,           \* that are advertised
    Lives,              \* lifetimes advertised
    MTU, Mtus,          \* the interface's, and those advertised
    MIN_MTU,
    Statics             \* addresses the application adds

VARIABLES addr, mtu6, rs_count, rs_reduction, up, out

vars == <<addr, mtu6, rs_count, rs_reduction, up, out>>

Slots == 0 .. NUM_ADDRESSES - 1
Host == 1
LinkLocal == [net |-> 0, host |-> Host]
Any == [net |-> 0, host |-> 0]
INVALID == [a |-> Any, state |-> "INVALID", count |-> 0, valid |-> 0, pref |-> 0]
isvalid(s) == s.state \in {"PREFERRED", "DEPRECATED"}
isstatic(s) == s.valid = 0
Idle == [sent |-> {}, gone |-> {}]
State == [addr |-> addr, gone |-> {}]

-----------------------------------------------------------------------------
(* Fault: only an address that is removed is reported.                     *)
set_stateRemoved(m, i, state) ==
    [addr |-> [m.addr EXCEPT ![i].state = state, ![i].count = 0],
     gone |-> IF isvalid(m.addr[i]) /\ state = "INVALID"
              THEN m.gone \cup {m.addr[i].a} ELSE m.gone]

(* netif_ip6_addr_set_state: blocks bound to an address that is not valid  *)
(* any more are told.                                                      *)
set_state(m, i, state) ==
    [addr |-> [m.addr EXCEPT ![i].state = state, ![i].count = 0],
     gone |-> IF isvalid(m.addr[i]) /\ state \notin {"PREFERRED", "DEPRECATED"}
              THEN m.gone \cup {m.addr[i].a} ELSE m.gone]

(* nd6_duplicate_addr_detected: with the link-local address go the ones    *)
(* that were formed with its host part.                                    *)
duplicate_addr_detected(m, i) ==
    LET also == {j \in Slots \ {0} : m.addr[j].state # "INVALID" /\ ~isstatic(m.addr[j])}
    IN  FoldSet(LAMBDA j, n : set_state(n, j, "DUPLICATED"), m,
                IF i = 0 THEN {0} \cup also ELSE {i})

(* netif_get_ip6_addr_match.                                               *)
Matching(a) == {i \in Slots : addr[i].state # "INVALID" /\ addr[i].a = a}

Becomes(m, sent) == addr' = m.addr /\ out' = [sent |-> sent, gone |-> m.gone]
Rest == UNCHANGED <<mtu6, rs_count, rs_reduction, up>>

(* netif_create_ip6_linklocal_address.                                     *)
create_linklocal == /\ Becomes(set_state([State EXCEPT !.addr[0].a = LinkLocal], 0, "TENTATIVE"), {})
                    /\ Rest

(* netif_add_ip6_address: slot 0 is only for a link-local address.         *)
add_address(a) ==
    LET free == {i \in Slots \ {0} : addr[i].state = "INVALID"}
    IN  /\ Matching(a) = {} /\ free # {}
        /\ Becomes(set_state([State EXCEPT !.addr[Min(free)].a = a], Min(free), "TENTATIVE"), {})
        /\ Rest

(* netif_ip6_addr_set_parts: blocks follow an address that is valid.       *)
set_parts(i, a) ==
    /\ addr[i].a # a /\ isstatic(addr[i]) /\ Matching(a) = {}
    /\ addr' = [addr EXCEPT ![i].a = a]
    /\ out' = [sent |-> {}, gone |-> IF isvalid(addr[i]) THEN {addr[i].a} ELSE {}]
    /\ Rest

-----------------------------------------------------------------------------
(* The messages.                                                           *)
nd6_send_ns(A, target, anySrc) ==
    LET src == IF ~anySrc /\ isvalid(A[0]) THEN A[0].a ELSE Any
    IN  [type |-> "NS", src |-> src, opt |-> src # Any, target |-> target]

nd6_send_na(target) == [type |-> "NA", src |-> target, opt |-> TRUE, target |-> target]

nd6_send_rs(A) ==
    LET src == IF isvalid(A[0]) THEN A[0].a ELSE Any
    IN  [type |-> "RS", src |-> src, opt |-> src # Any, target |-> Any]

(* An advertisement to all nodes: somebody else has our address.           *)
InputNA(a) ==
    LET ours == {i \in Matching(a) : addr[i].state # "DUPLICATED"}
    IN  ours # {} /\ Becomes(duplicate_addr_detected(State, Min(ours)), {}) /\ Rest

(* A solicitation by somebody without an address, who looks for duplicates *)
(* of a as well.                                                           *)
InputNSAny(a) ==
    LET ours == Matching(a)
        tentative == {i \in ours : addr[i].state = "TENTATIVE"}
    IN  /\ \E i \in ours : isvalid(addr[i]) \/ i \in tentative
        /\ Becomes(FoldSet(LAMBDA i, m : duplicate_addr_detected(m, i), State, tentative),
                   {nd6_send_na(a)})
        /\ Rest

(* A solicitation by a neighbour (module Nd6).                             *)
InputNS(a) == /\ \E i \in Matching(a) : isvalid(addr[i])
              /\ out' = [Idle EXCEPT !.sent = {nd6_send_na(a)}]
              /\ UNCHANGED addr /\ Rest

-----------------------------------------------------------------------------
(* nd6_process_autoconfig_prefix.  The valid life of an address is never   *)
(* cut to less than two hours by an advertisement, which has no signature. *)
Renewed(s, valid, pref) ==
    [s EXCEPT !.valid = IF valid > TWO_HOURS \/ valid > @ THEN valid
                        ELSE IF @ > TWO_HOURS THEN TWO_HOURS ELSE @,
              !.state = IF pref > 0 /\ @ = "DEPRECATED" THEN "PREFERRED" ELSE @,
              !.pref = pref]

Formed(prefix) == [net |-> prefix, host |-> addr[0].a.host]

autoconfig(prefix, valid, pref) ==
    LET mine == {i \in Slots \ {0} : /\ addr[i].state # "INVALID" /\ ~isstatic(addr[i])
                                     /\ addr[i].a.net = prefix}
        free == {i \in Slots \ {0} : addr[i].state = "INVALID"}
    IN  IF pref > valid THEN addr
        ELSE IF mine # {} THEN [addr EXCEPT ![Min(mine)] = Renewed(@, valid, pref)]
        ELSE IF \/ valid = 0 \/ addr[0].state \in {"INVALID", "DUPLICATED"} \/ free = {}
                \/ Matching(Formed(prefix)) \ {0} # {}
        THEN addr
        ELSE [addr EXCEPT ![Min(free)] = [a |-> Formed(prefix), state |-> "TENTATIVE",
                                          count |-> 0, valid |-> valid, pref |-> pref]]

(* A router advertisement, with one option: an MTU or a prefix.  Before    *)
(* the first solicitation one is sent nevertheless.                        *)
Solicited(ok) ==
    /\ rs_count' = (IF rs_count < MAX_SOLICIT \/ ok THEN 0 ELSE 1)
    /\ out' = [Idle EXCEPT !.sent = IF rs_count = MAX_SOLICIT /\ ok
                                    THEN {nd6_send_rs(addr)} ELSE {}]

RAPrefix(prefix, valid, pref, ok) ==
    /\ Solicited(ok) /\ addr' = autoconfig(prefix, valid, pref)
    /\ UNCHANGED <<mtu6, rs_reduction, up>>

RAMtu(mtu, ok) ==
    /\ Solicited(ok)
    /\ mtu6' = IF mtu < MIN_MTU THEN mtu6
               ELSE IF MTU # 0 /\ MTU < mtu THEN MTU ELSE mtu
    /\ UNCHANGED <<addr, rs_reduction, up>>

-----------------------------------------------------------------------------
(* nd6_tmr, its part for addresses: first their lifetimes,                 *)
Down(life) == IF life = INFINITE THEN life ELSE life - 1

Aged(m, i) ==
    LET s == m.addr[i]
        older == [m EXCEPT !.addr[i].valid = Down(@),
                           !.addr[i].pref = IF @ <= 1 THEN 0 ELSE Down(@)]
    IN  IF s.state = "INVALID" \/ isstatic(s) THEN m
        ELSE IF s.valid <= 1
             THEN set_state([m EXCEPT !.addr[i].valid = 0, !.addr[i].pref = 0], i, "INVALID")
             ELSE IF s.pref <= 1 /\ s.state = "PREFERRED"
                  THEN set_state(older, i, "DEPRECATED") ELSE older

(* then the search for duplicates.                                         *)
Probed(m, i) ==
    LET s == m.addr[i]
    IN  IF s.state # "TENTATIVE" THEN m
        ELSE IF s.count >= DUP_DETECT_ATTEMPTS
             THEN set_state(m, i, IF ~isstatic(s) /\ s.pref = 0 THEN "DEPRECATED" ELSE "PREFERRED")
             ELSE IF up THEN [m EXCEPT !.addr[i].count = @ + 1] ELSE m

Ticked(m) == FoldSet(LAMBDA i, n : Probed(Aged(n, i), i), m, Slots)

nd6_tmr(ok) ==
    LET m == Ticked(State)
        probes == {nd6_send_ns(m.addr, m.addr[i].a, TRUE) :
                      i \in {j \in Slots : m.addr[j].count > addr[j].count}}
        solicits == /\ rs_reduction = 0 /\ rs_count > 0 /\ up
                    /\ m.addr[0].state \notin {"INVALID", "DUPLICATED"} /\ ok
    IN  /\ Becomes(m, probes \cup (IF solicits THEN {nd6_send_rs(m.addr)} ELSE {}))
        /\ rs_reduction' = IF rs_reduction = 0 THEN RS_INTERVAL - 1 ELSE rs_reduction - 1
        /\ rs_count' = IF solicits THEN rs_count - 1 ELSE rs_count
        /\ UNCHANGED <<mtu6, up>>

(* netif_set_up and netif_set_link_up end with nd6_restart_netif.          *)
SetUp(b) == /\ up # b /\ up' = b /\ out' = Idle
            /\ rs_count' = IF b THEN MAX_SOLICIT ELSE rs_count
            /\ UNCHANGED <<addr, mtu6, rs_reduction>>

(* netif_add.                                                              *)
Init == /\ addr = [i \in Slots |-> INVALID] /\ mtu6 = MTU
        /\ rs_count = MAX_SOLICIT /\ rs_reduction = 0 /\ up = FALSE /\ out = Idle

Next ==
    \/ create_linklocal
    \/ \E a \in Statics : add_address(a) \/ \E i \in Slots \ {0} : set_parts(i, a)
    \/ \E i \in Slots : \/ InputNA(addr[i].a) \/ InputNSAny(addr[i].a) \/ InputNS(addr[i].a)
    \/ \E ok \in BOOLEAN : \/ \E p \in Prefixes, v, q \in Lives : RAPrefix(p, v, q, ok)
                           \/ \E m \in Mtus : RAMtu(m, ok)
                           \/ nd6_tmr(ok)
    \/ \E b \in BOOLEAN : SetUp(b)

Spec == Init /\ [][Next]_vars

-----------------------------------------------------------------------------
TypeOK ==
    /\ \A i \in Slots : /\ addr[i].state \in {"INVALID", "TENTATIVE", "PREFERRED", "DEPRECATED",
                                              "DUPLICATED"}
                        /\ addr[i].count \in 0 .. DUP_DETECT_ATTEMPTS
                        /\ addr[i].valid \in 0 .. INFINITE /\ addr[i].pref \in 0 .. INFINITE
    /\ mtu6 \in {MTU} \cup MIN_MTU .. MTU /\ rs_count \in 0 .. MAX_SOLICIT

(* Whatever the order of advertisements, additions and expiry: no address  *)
(* is configured twice nor a prefix used twice, a deprecated address has   *)
(* no preferred life left, and while the link-local address is known to be *)
(* a duplicate, no address formed with its host part is in use.            *)
AddressesSound ==
    /\ \A i, j \in Slots : i < j /\ addr[i].state # "INVALID" /\ addr[j].state # "INVALID"
          => /\ addr[i].a # addr[j].a
             /\ ~isstatic(addr[i]) /\ ~isstatic(addr[j]) => addr[i].a.net # addr[j].a.net
    /\ \A i \in Slots : addr[i].state = "DEPRECATED" => addr[i].pref = 0
    /\ addr[0].state = "DUPLICATED" =>
          \A i \in Slots : ~isstatic(addr[i]) => addr[i].state \in {"INVALID", "DUPLICATED"}

(* A message without a source has no link-layer address in it, and one     *)
(* that has a source other than the address it defends uses a valid one.   *)
SourcesValid ==
    \A s \in out.sent : /\ s.src = Any <=> ~s.opt
                        /\ s.type = "NA" \/ s.src = Any \/ \E i \in Slots : isvalid(addr[i]) /\ addr[i].a = s.src

(* Blocks bound to an address learn when it is gone; an address that was a *)
(* duplicate is searched for again before it is used.                      *)
LossIsToldStep ==
    \A i \in Slots :
       /\ isvalid(addr[i]) /\ ~(isvalid(addr'[i]) /\ addr'[i].a = addr[i].a)
          => addr[i].a \in out'.gone
       /\ addr[i].state = "DUPLICATED" => ~isvalid(addr'[i])

LossIsTold == [][LossIsToldStep]_vars

(* An advertisement neither makes an address static nor cuts its life to   *)
(* less than two hours.                                                    *)
TwoHourRuleStep ==
    \A i \in Slots :
       ~isstatic(addr[i]) /\ addr[i].state # "INVALID" /\ UNCHANGED rs_reduction
       => addr'[i].valid >= (IF addr[i].valid < TWO_HOURS THEN addr[i].valid ELSE TWO_HOURS)

TwoHourRule == [][TwoHourRuleStep]_vars
=============================================================================
