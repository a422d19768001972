------------------------------- MODULE Timeouts -------------------------------
(***************************************************************************)
(* The list of timeouts and the timers that lwIP runs from it              *)
(* (timeouts.c), checked from a loop of core/lwip.go.                      *)
(*                                                                         *)
(* Times are in milliseconds modulo 2^32 in the code and modulo M here.    *)
(* Every entry also carries, as history, left: how long it still has to    *)
(* wait in real time, negative when it is late.                            *)
(***************************************************************************)
EXTENDS Integers, Sequences, FiniteSetsExt, SequencesExt

CONSTANTS
    M,              \* 2^32
    Cyclic,         \* the handlers of lwip_cyclic_timers other than tcp_tmr
    Interval,       \* [Cyclic \cup {"tcp"} -> milliseconds]
    User, Msecs,    \* handlers of timeouts set with sys_timeout, and how long
    MaxGap,         \* longest time between two calls of sys_check_timeouts
    MaxRun          \* milliseconds a call of sys_check_timeouts may take

LWIP_MAX_TIMEOUT == (M \div 2) - 1

TimeoutsAssumption ==
    /\ {M, MaxGap, MaxRun} \subseteq Nat
    /\ Interval \in [Cyclic \cup {"tcp"} -> 1 .. M \div 4] /\ Msecs \subseteq 1 .. M \div 4
    /\ \A d \in Msecs \cup {Interval[h] : h \in DOMAIN Interval} :
          d + MaxGap + 2 * MaxRun <= LWIP_MAX_TIMEOUT
    /\ IsFiniteSet(Cyclic) /\ Cyclic \cap User = {}
    /\ {"tcp", "check", "idle"} \cap (Cyclic \cup User) = {}

VARIABLES
    clock,                      \* sys_now()
    next_timeout,               \* Seq([time, h, left])
    current_timeout_due_time,
    tcpip_tcp_timer_active,
    pcbs,                       \* whether tcp_active_pcbs or tcp_tw_pcbs has one
    running,                    \* the handler sys_check_timeouts runs, "check"
                                \* between two handlers, "idle" outside
    now,                        \* its local variable
    gap                         \* history: time since the last call began

vars == <<clock, next_timeout, current_timeout_due_time, tcpip_tcp_timer_active, pcbs,
          running, now, gap>>

Handlers == Cyclic \cup {"tcp"} \cup User
Entry == [time : 0 .. M - 1, h : Handlers, left : Int]

TypeOK ==
    /\ clock \in 0 .. M - 1 /\ now \in 0 .. M - 1 /\ current_timeout_due_time \in 0 .. M - 1
    /\ next_timeout \in Seq(Entry)
    /\ {tcpip_tcp_timer_active, pcbs} \subseteq BOOLEAN
    /\ running \in Handlers \cup {"check", "idle"} /\ gap \in 0 .. MaxGap + MaxRun

TIME_LESS_THAN(t, compare_to) == (t - compare_to) % M > LWIP_MAX_TIMEOUT

(* Fault: times are compared as numbers.                                   *)
sys_timeout_absPlain(list, e) ==
    LET later == {i \in DOMAIN list : e.time < list[i].time}
        at == IF later = {} THEN Len(list) + 1 ELSE Min(later)
    IN  InsertAt(list, at, e)

(* The entry goes behind those that are due no later.                      *)
sys_timeout_abs(list, e) ==
    LET later == {i \in DOMAIN list : TIME_LESS_THAN(e.time, list[i].time)}
        at == IF later = {} THEN Len(list) + 1 ELSE Min(later)
    IN  InsertAt(list, at, e)

sys_timeout(list, msecs, h) ==
    sys_timeout_abs(list, [time |-> (clock + msecs) % M, h |-> h, left |-> msecs])

(* The timer of a TCP connection is set when the first connection appears. *)
tcp_timer_needed(list) ==
    IF ~tcpip_tcp_timer_active /\ pcbs'
    THEN sys_timeout(list, Interval["tcp"], "tcp") ELSE list

(* The loop of sys_timeout over lwip_cyclic_timers: an entry for each, in   *)
(* the order of the intervals.                                             *)
sys_timeouts_init ==
    LET n == Cardinality(Cyclic)
        entry(h) == [time |-> (clock + Interval[h]) % M, h |-> h, left |-> Interval[h]]
        order == {s \in Bijection(1 .. n, Cyclic) :
                     \A i, j \in 1 .. n : i < j => Interval[s[i]] <= Interval[s[j]]}
    IN  {[i \in 1 .. n |-> entry(s[i])] : s \in order}

Init ==
    /\ clock \in 0 .. M - 1 /\ next_timeout \in sys_timeouts_init
    /\ current_timeout_due_time = 0 /\ tcpip_tcp_timer_active = FALSE /\ pcbs = FALSE
    /\ running = "idle" /\ now = 0 /\ gap = 0

-----------------------------------------------------------------------------

(* Time passes, while nothing runs or while handlers do.                   *)
Passes ==
    /\ gap < (IF running = "idle" THEN MaxGap ELSE MaxGap + MaxRun)
    /\ running # "idle" => (clock - now) % M < MaxRun
    /\ clock' = (clock + 1) % M /\ gap' = gap + 1
    /\ next_timeout' = [i \in DOMAIN next_timeout |->
                           [next_timeout[i] EXCEPT !.left = @ - 1]]
    /\ UNCHANGED <<current_timeout_due_time, tcpip_tcp_timer_active, pcbs, running, now>>

(* TCP_REG, from a segment or from a handler; tcp_timer_needed ends it.    *)
NewConnection ==
    /\ ~pcbs /\ pcbs' = TRUE
    /\ next_timeout' = tcp_timer_needed(next_timeout)
    /\ tcpip_tcp_timer_active' = TRUE
    /\ UNCHANGED <<clock, current_timeout_due_time, running, now, gap>>

LastConnectionEnds ==
    /\ pcbs /\ pcbs' = FALSE
    /\ UNCHANGED <<clock, next_timeout, current_timeout_due_time, tcpip_tcp_timer_active,
                   running, now, gap>>

Set(h, msecs) ==
    /\ h \in User /\ \A i \in DOMAIN next_timeout : next_timeout[i].h # h
    /\ next_timeout' = sys_timeout(next_timeout, msecs, h)
    /\ UNCHANGED <<clock, current_timeout_due_time, tcpip_tcp_timer_active, pcbs, running,
                   now, gap>>

(* The first entry with this handler is removed.                           *)
sys_untimeout(h) ==
    LET found == {i \in DOMAIN next_timeout : next_timeout[i].h = h}
    IN  /\ h \in User /\ found # {}
        /\ next_timeout' = RemoveAt(next_timeout, Min(found))
        /\ UNCHANGED <<clock, current_timeout_due_time, tcpip_tcp_timer_active, pcbs,
                       running, now, gap>>

sys_check_timeouts ==
    /\ running = "idle" /\ running' = "check" /\ now' = clock /\ gap' = 0
    /\ UNCHANGED <<clock, next_timeout, current_timeout_due_time, tcpip_tcp_timer_active, pcbs>>

(* The loop: the first entry if it is due, otherwise the end.              *)
Take ==
    /\ running = "check" /\ next_timeout # <<>>
    /\ ~TIME_LESS_THAN(now, Head(next_timeout).time)
    /\ running' = Head(next_timeout).h
    /\ current_timeout_due_time' = Head(next_timeout).time
    /\ next_timeout' = Tail(next_timeout)
    /\ UNCHANGED <<clock, tcpip_tcp_timer_active, pcbs, now, gap>>

CheckEnds ==
    /\ running = "check"
    /\ next_timeout = <<>> \/ TIME_LESS_THAN(now, Head(next_timeout).time)
    /\ running' = "idle"
    /\ UNCHANGED <<clock, next_timeout, current_timeout_due_time, tcpip_tcp_timer_active, pcbs,
                   now, gap>>

(* The end of lwip_cyclic_timer: again an interval after the time it was   *)
(* due, or after now when that is past.                                    *)
(* Fault: the next interval begins when the handler ends.                  *)
lwip_cyclic_timerDrifts(h) ==
    /\ running = h /\ h \in Cyclic
    /\ next_timeout' = sys_timeout(next_timeout, Interval[h], h)
    /\ running' = "check"
    /\ UNCHANGED <<clock, current_timeout_due_time, tcpip_tcp_timer_active, pcbs, now, gap>>

lwip_cyclic_timer(h) ==
    /\ running = h /\ h \in Cyclic
    /\ LET due == (current_timeout_due_time + Interval[h]) % M
       IN  next_timeout' =
             IF TIME_LESS_THAN(due, clock) THEN sys_timeout(next_timeout, Interval[h], h)
             ELSE sys_timeout_abs(next_timeout,
                      [time |-> due, h |-> h, left |-> (due - clock) % M])
    /\ running' = "check"
    /\ UNCHANGED <<clock, current_timeout_due_time, tcpip_tcp_timer_active, pcbs, now, gap>>

(* The end of tcpip_tcp_timer, after tcp_tmr.                              *)
tcpip_tcp_timer ==
    /\ running = "tcp" /\ running' = "check" /\ UNCHANGED pcbs
    /\ IF pcbs
       THEN /\ next_timeout' = sys_timeout(next_timeout, Interval["tcp"], "tcp")
            /\ UNCHANGED tcpip_tcp_timer_active
       ELSE tcpip_tcp_timer_active' = FALSE /\ UNCHANGED next_timeout
    /\ UNCHANGED <<clock, current_timeout_due_time, now, gap>>

UserHandler(h) ==
    /\ running = h /\ h \in User /\ running' = "check"
    /\ UNCHANGED <<clock, next_timeout, current_timeout_due_time, tcpip_tcp_timer_active, pcbs,
                   now, gap>>

(* RestartTimeouts: the first entry is due now, the others keep their      *)
(* distance to it.                                                         *)
sys_restart_timeouts ==
    /\ running = "idle" /\ next_timeout # <<>>
    /\ LET base == Head(next_timeout)
       IN  next_timeout' = [i \in DOMAIN next_timeout |->
              [next_timeout[i] EXCEPT !.time = ((@ - base.time) + clock) % M,
                                      !.left = @ - base.left]]
    /\ UNCHANGED <<clock, current_timeout_due_time, tcpip_tcp_timer_active, pcbs, running, now,
                   gap>>

Handler == \/ Take \/ CheckEnds \/ tcpip_tcp_timer
           \/ \E h \in Cyclic : lwip_cyclic_timer(h)
           \/ \E h \in User : UserHandler(h)

Next ==
    \/ Passes \/ NewConnection \/ LastConnectionEnds
    \/ \E h \in User, msecs \in Msecs : Set(h, msecs)
    \/ \E h \in User : sys_untimeout(h)
    \/ sys_check_timeouts \/ sys_restart_timeouts \/ Handler

Spec == Init /\ [][Next]_vars

(* The loop of core/lwip.go calls sys_check_timeouts again and again, and  *)
(* a call runs to its end.                                                 *)
FairSpec == Spec /\ WF_vars(sys_check_timeouts) /\ WF_vars(Handler) /\ WF_vars(Passes)

-----------------------------------------------------------------------------

(* sys_timeouts_sleeptime: how long until the next call has work to do.    *)
sys_timeouts_sleeptime ==
    IF TIME_LESS_THAN(Head(next_timeout).time, clock) THEN 0
    ELSE (Head(next_timeout).time - clock) % M

(* The clock wraps around and entries may be late, yet the list is in the  *)
(* order of the real due times: no entry hides one that is due before it.  *)
Ordered ==
    \A i, j \in DOMAIN next_timeout : i < j => next_timeout[i].left <= next_timeout[j].left

(* The time to sleep is exact in the same circumstances.                   *)
SleepsExactly ==
    next_timeout # <<>> => sys_timeouts_sleeptime = Max({0, Head(next_timeout).left})

(* No handler runs before its time and, once a call of sys_check_timeouts  *)
(* is over, none that was due when it began is left.                       *)
OnTimeStep ==
    /\ running' \in Handlers /\ running = "check" => Head(next_timeout).left <= 0
    /\ running = "check" /\ running' = "idle" =>
         \A i \in DOMAIN next_timeout : next_timeout[i].left > -((clock - now) % M)

OnTime == [][OnTimeStep]_vars

(* Exactly one entry drives each cyclic timer; connections are driven by   *)
(* exactly one, and tcpip_tcp_timer_active says whether there is one, so   *)
(* that TCP neither stalls nor runs too fast.                              *)
OneEntryEach ==
    LET entries(h) == Cardinality({i \in DOMAIN next_timeout : next_timeout[i].h = h})
                      + (IF running = h THEN 1 ELSE 0)
    IN  /\ \A h \in Cyclic : entries(h) = 1
        /\ entries("tcp") = (IF tcpip_tcp_timer_active THEN 1 ELSE 0)
        /\ pcbs => tcpip_tcp_timer_active

(* A cyclic timer that is handled in time keeps its phase: it is due again *)
(* exactly one interval after it was due, whenever the handler ran.  One   *)
(* that is late by more than an interval is not run twice to catch up.     *)
NoDriftNoBurstStep ==
    \A h \in Cyclic : running = h /\ running' = "check" =>
      \E i \in DOMAIN next_timeout' :
         /\ next_timeout'[i].h = h /\ next_timeout'[i].left >= 0
         /\ ~TIME_LESS_THAN((current_timeout_due_time + Interval[h]) % M, clock) =>
              next_timeout'[i].time = (current_timeout_due_time + Interval[h]) % M

NoDriftNoBurst == [][NoDriftNoBurstStep]_vars

(* A call of sys_check_timeouts ends, and every cyclic timer keeps running.*)
Idle == running = "idle"
Runs(h) == running = h
ChecksEnd == []<>Idle
TimersRun == \A h \in Cyclic : []<>Runs(h)
=============================================================================
