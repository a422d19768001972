-------------------------------- MODULE Stack --------------------------------
(***************************************************************************)
(* The parts of the program around the connections, and the timers of      *)
(* lwIP.  They share no state, so they are put side by side: part says     *)
(* which of them a behaviour is about.  Each is the component with its     *)
(* proofs, so that what they show of the component is cited, at the end,   *)
(* for the whole and for every value of the constants.                     *)
(***************************************************************************)
EXTENDS Integers, Sequences, TLAPS

CONSTANTS
    AddrBits, InnerLists, MustLists, Rules, Hosts, Ports, MaxConns, MaxSetups,
                                                            \* Routing
    Clients, Ids, Threads, MaxSockets, MaxQueries,          \* DnsHandler
    M, Cyclic, Interval, User, Msecs, MaxGap, MaxRun,       \* Timeouts
    Hellos                                                  \* ClientHello

VARIABLES
    part,       \* the component that runs
    s1, s2, s3, s4, s5, s6, s7, s8, s9, s10, s11, s12, s13, s14
                \* its variables, in the order of its vars

vars == <<part, s1, s2, s3, s4, s5, s6, s7, s8, s9, s10, s11, s12, s13, s14>>

Route == INSTANCE RoutingProofs WITH innerIpMasks <- s1, mustHitMasks <- s2, global <- s3,
      matcher <- s4, ipToDomain <- s5, counter <- s6, lists <- s7, setup <- s8,
      conns <- s9, dead <- s10

Dns == INSTANCE DnsHandlerProofs WITH dnsMap <- s1, pivot <- s2, open <- s3, created <- s4,
      thread <- s5, reader <- s6, nReaders <- s7, inflight <- s8, sentQ <- s9,
      cleaner <- s10, ticking <- s11, delivered <- s12, askers <- s13, closed <- s14

Due == INSTANCE TimeoutsProofs WITH clock <- s1, next_timeout <- s2,
      current_timeout_due_time <- s3, tcpip_tcp_timer_active <- s4, pcbs <- s5,
      running <- s6, now <- s7, gap <- s8

Hello == INSTANCE ClientHelloProofs WITH hello <- s1, pc <- s2, base <- s3, len <- s4,
      index <- s5

ASSUME RouteAssumption ==
    Route!SizesAssumption /\ Route!ListsAssumption /\ Route!CanonicalLists
ASSUME DnsHandlerAssumption == Dns!DnsAssumption
ASSUME DueAssumption == Due!TimeoutsAssumption
ASSUME RecordAssumption == Hello!HelloAssumption

Init ==
    \/ part = "routing" /\ Route!Init /\ s11 = 0 /\ s12 = 0 /\ s13 = 0 /\ s14 = 0
    \/ part = "dns" /\ Dns!Init
    \/ /\ part = "timeouts" /\ Due!Init
       /\ s9 = 0 /\ s10 = 0 /\ s11 = 0 /\ s12 = 0 /\ s13 = 0 /\ s14 = 0
    \/ /\ part = "hello" /\ Hello!Init
       /\ s6 = 0 /\ s7 = 0 /\ s8 = 0 /\ s9 = 0 /\ s10 = 0 /\ s11 = 0 /\ s12 = 0
       /\ s13 = 0 /\ s14 = 0

RouteKeeps == UNCHANGED <<part, s11, s12, s13, s14>>
DnsKeeps == UNCHANGED <<part>>
DueKeeps == UNCHANGED <<part, s9, s10, s11, s12, s13, s14>>
HelloKeeps == UNCHANGED <<part, s6, s7, s8, s9, s10, s11, s12, s13, s14>>

Next ==
    \/ part = "routing" /\ Route!Next /\ RouteKeeps
    \/ part = "dns" /\ Dns!Next /\ DnsKeeps
    \/ part = "timeouts" /\ Due!Next /\ DueKeeps
    \/ part = "hello" /\ Hello!Next /\ HelloKeeps

Spec == Init /\ [][Next]_vars

-----------------------------------------------------------------------------
(* stack/bypass.go, stack/stackV1.go: a connection is routed as the lists  *)
(* say, an address has only names that were seen for it, and the first     *)
(* packet of a connection is inspected.                                    *)
RoutingCorrect ==
    /\ part = "routing" =>
         /\ Route!TypeOK /\ Route!DecisionMatchesLists /\ Route!NamesWereSeen
         /\ Route!FirstIsInspected

(* stack/dns.go: an answer goes to a client that asked with its id, and to *)
(* the one that asked unless two used the id; the socket queries are sent  *)
(* through has a reader, through replacements and failures.                *)
DnsCorrect ==
    /\ part = "dns" =>
         /\ Dns!TypeOK /\ Dns!AnswerGoesToAsker /\ Dns!NoDeafPivot

(* utils/common.go: a name that is reported is the one the client asked    *)
(* for, and the parser reads no byte past what arrived, where the fields   *)
(* it skips are shorter than 256 bytes.                                    *)
HelloCorrect ==
    /\ part = "hello" =>
         /\ Hello!FoundIsTheName /\ Hello!NeverPanics

(* timeouts.c: the list is ordered by what is left across the wrap of the  *)
(* clock, the time to sleep is exact, and exactly one entry drives each    *)
(* timer.                                                                  *)
TimeoutsCorrect ==
    /\ part = "timeouts" =>
         /\ Due!TypeOK /\ Due!Ordered /\ Due!SleepsExactly /\ Due!OneEntryEach

(* sys_check_timeouts, lwip_cyclic_timer: no handler runs early, none that *)
(* is due is left, a timer keeps its phase and does not catch up in        *)
(* bursts.                                                                 *)
TimersKeepTimeStep ==
    part = "timeouts" => Due!OnTimeStep /\ Due!NoDriftNoBurstStep

TimersKeepTime == [][TimersKeepTimeStep]_vars

-----------------------------------------------------------------------------
(* The invariant is that of the part that runs; a step is one of that      *)
(* part, and no other part's invariant is asked for.                       *)
IInv ==
    /\ part = "routing" => Route!IInv
    /\ part = "dns" => Dns!IInv
    /\ part = "timeouts" => Due!IInv
    /\ part = "hello" => Hello!IInv

LEMMA InitIInv == Init => IInv
<1>1. part = "routing" /\ Route!Init => Route!IInv
  BY RouteAssumption, Route!InitHolds
<1>2. part = "dns" /\ Dns!Init => Dns!IInv
  BY DnsHandlerAssumption, Dns!InitIInv
<1>3. part = "timeouts" /\ Due!Init => Due!IInv
  BY DueAssumption, Due!InitIInv
<1>4. part = "hello" /\ Hello!Init => Hello!IInv
  BY RecordAssumption, Hello!InitIInv
<1> QED BY <1>1, <1>2, <1>3, <1>4 DEF Init, IInv

(* A step of the whole is one of the part that runs, or changes nothing.   *)
LEMMA PartSteps ==
  ASSUME [Next]_vars
  PROVE  /\ part' = part
         /\ part = "routing" => [Route!Next]_(Route!vars)
         /\ part = "dns" => [Dns!Next]_(Dns!vars)
         /\ part = "timeouts" => [Due!Next]_(Due!vars)
         /\ part = "hello" => [Hello!Next]_(Hello!vars)
<1>1. CASE Next
  BY <1>1 DEF Next, RouteKeeps, DnsKeeps, DueKeeps, HelloKeeps
<1>2. CASE UNCHANGED vars
  BY <1>2 DEF vars, Route!vars, Dns!vars, Due!vars, Hello!vars
<1> QED BY <1>1, <1>2

LEMMA NextIInv ==
  ASSUME IInv, [Next]_vars
  PROVE  IInv'
<1>1. part' = part
  BY PartSteps
<1>2. ASSUME part = "routing" PROVE Route!IInv'
  <2>1. Route!IInv /\ [Route!Next]_(Route!vars)
    BY <1>2, PartSteps DEF IInv
  <2> QED BY <2>1, RouteAssumption, Route!NextKeeps
<1>3. ASSUME part = "dns" PROVE Dns!IInv'
  <2>1. Dns!IInv /\ [Dns!Next]_(Dns!vars)
    BY <1>3, PartSteps DEF IInv
  <2> QED BY <2>1, DnsHandlerAssumption, Dns!NextIInv
<1>4. ASSUME part = "timeouts" PROVE Due!IInv'
  <2>1. Due!IInv /\ [Due!Next]_(Due!vars)
    BY <1>4, PartSteps DEF IInv
  <2> QED BY <2>1, DueAssumption, Due!NextIInv
<1>5. ASSUME part = "hello" PROVE Hello!IInv'
  <2>1. Hello!IInv /\ [Hello!Next]_(Hello!vars)
    BY <1>5, PartSteps DEF IInv
  <2> QED BY <2>1, RecordAssumption, Hello!NextIInv
<1> QED BY <1>1, <1>2, <1>3, <1>4, <1>5 DEF IInv

LEMMA Invariant == Spec => []IInv
<1>1. IInv /\ [Next]_vars => IInv'
  BY NextIInv
<1> QED BY <1>1, InitIInv, PTL DEF Spec

-----------------------------------------------------------------------------

(* Handle decides about a connection as the lists say, though it reads     *)
(* three tables at three moments and the loaders take no lock; the proxy   *)
(* is asked to reach a name only if a packet to the address carried it;    *)
(* WriteToStack inspects the packet that carries a port's first name.      *)
THEOREM RoutingIsCorrect == Spec => []RoutingCorrect
<1>1. IInv => RoutingCorrect
  BY RouteAssumption, Route!IInvCorrect DEF IInv, RoutingCorrect
<1> QED BY <1>1, Invariant, PTL

(* dnsWaitResponse hands an answer to a client that asked with its id, the *)
(* right one unless two clients used the id, and an open pivot has a       *)
(* reader, or one is about to start or to close it, however ReceiveTo,     *)
(* setupPivot, the readers and the cleaner interleave.                     *)
THEOREM DnsIsCorrect == Spec => []DnsCorrect
<1>1. IInv => DnsCorrect
  BY DnsHandlerAssumption, Dns!IInvCorrect DEF IInv, DnsCorrect
<1> QED BY <1>1, Invariant, PTL

(* GetSNIBlock reports the server name or nothing, although the length of  *)
(* the extensions is computed in a byte, and no slice reaches past what    *)
(* arrived: for any extensions and any bytes in them, as long as the       *)
(* cipher list and each extension before the name are under 256 bytes.     *)
THEOREM HelloIsCorrect == Spec => []HelloCorrect
<1>1. IInv => HelloCorrect
  BY RecordAssumption, Hello!IInvCorrect DEF IInv, HelloCorrect
<1> QED BY <1>1, Invariant, PTL

(* sys_timeout_abs keeps the list in the order of the real due times where *)
(* the clock wraps around, sys_timeouts_sleeptime is exact, and one entry  *)
(* drives each timer, for every width of the clock and every table of      *)
(* cyclic timers.                                                          *)
THEOREM TimeoutsAreCorrect == Spec => []TimeoutsCorrect
<1>1. IInv => TimeoutsCorrect
  BY DueAssumption, Due!IInvCorrect DEF IInv, TimeoutsCorrect
<1> QED BY <1>1, Invariant, PTL

(* sys_check_timeouts runs no handler early and leaves none that was due   *)
(* when it was called; lwip_cyclic_timer keeps a timer's phase and does    *)
(* not catch up in bursts.                                                 *)
THEOREM TimersAreOnTime == Spec => TimersKeepTime
<1>1. IInv /\ [Next]_vars => [TimersKeepTimeStep]_vars
  <2> SUFFICES ASSUME IInv, [Next]_vars, part = "timeouts"
               PROVE  Due!OnTimeStep /\ Due!NoDriftNoBurstStep
    BY DEF TimersKeepTimeStep
  <2>1. Due!IInv /\ [Due!Next]_(Due!vars)
    BY PartSteps DEF IInv
  <2> QED BY <2>1, DueAssumption, Due!HandlerSteps
<1> QED BY <1>1, Invariant, PTL DEF Spec, TimersKeepTime
=============================================================================
