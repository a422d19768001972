------------------------------ MODULE TcpTimers ------------------------------
(***************************************************************************)
(* How the TCP timers walk the lists of control blocks while the           *)
(* callbacks they invoke change these lists (tcp.c): the cursor, the       *)
(* previous block, last_timer and tcp_active_pcbs_changed.  What a tick    *)
(* does to a connection is in modules TcpSender, TcpReceiver and TcpPcbs;  *)
(* here a tick ends the connection or does not.                            *)
(*                                                                         *)
(* A callback is any sequence of at most MaxOps calls on any block, which  *)
(* is what lwIP allows a program; the error callback of an address change  *)
(* is the exception, see AddrErr.                                          *)
(***************************************************************************)
EXTENDS Integers, Sequences, FiniteSetsExt, SequencesExt

CONSTANTS
    Pcbs,
    NULL, Wild,      \* the null pointer; what a read of freed memory returns
    Addrs, ANY,      \* addresses of the interface, the wildcard
    CtrMod,          \* tcp_timer_ctr is a u8_t: 256
    PollInterval,
    MaxOps

TimersAssumption ==
    /\ {CtrMod, PollInterval, MaxOps} \subseteq Nat /\ CtrMod > 1
    /\ NULL \notin Pcbs /\ Wild \notin Pcbs /\ ANY \notin Addrs

VARIABLES
    active, bound, tw,   \* tcp_active_pcbs, tcp_bound_pcbs, tcp_tw_pcbs
    local_ip,            \* [Pcbs -> address]
    last_timer, polltmr, \* [Pcbs -> Nat]
    refused,             \* blocks with refused_data
    netif_ip,            \* the address of the interface
    tcp_timer, tcp_timer_ctr, tcp_active_pcbs_changed,
    pc,                  \* where the running function stands
    pcb, prev,           \* its local variables
    ops,                 \* calls the running callback may still make
    ticked, present,     \* history: blocks ticked in this run; blocks active
                         \* since it began
    missed               \* history: [Pcbs -> runs that passed it over]

lists == <<active, bound, tw>>
history == <<ticked, present, missed>>
vars == <<active, bound, tw, local_ip, last_timer, polltmr, refused, netif_ip,
          tcp_timer, tcp_timer_ctr, tcp_active_pcbs_changed, pc, pcb, prev, ops,
          ticked, present, missed>>

Scans == {"slow", "tw", "fast", "addrActive", "addrBound"}
Callbacks == {"slowErr", "poll", "recv"}

Live == ToSet(active) \cup ToSet(bound) \cup ToSet(tw)

TypeOK ==
    /\ {active, bound, tw} \subseteq Seq(Pcbs)
    /\ local_ip \in [Pcbs -> Addrs \cup {ANY}] /\ netif_ip \in Addrs \cup {ANY}
    /\ last_timer \in [Pcbs -> 0 .. CtrMod - 1] /\ tcp_timer_ctr \in 0 .. CtrMod - 1
    /\ polltmr \in [Pcbs -> 0 .. PollInterval] /\ refused \subseteq ToSet(active)
    /\ tcp_timer \in 0 .. 1 /\ tcp_active_pcbs_changed \in BOOLEAN
    /\ pc \in {"idle", "addrErrActive", "addrErrBound"} \cup Scans \cup Callbacks
    /\ {pcb, prev} \subseteq Pcbs \cup {NULL} /\ ops \in 0 .. MaxOps
    /\ ticked \cup present \subseteq Pcbs /\ missed \in [Pcbs -> Nat]

Head1(s) == IF s = <<>> THEN NULL ELSE s[1]

(* p->next, read from memory: a freed block holds anything.                *)
NextOf(p) ==
    LET after(s) == LET i == CHOOSE k \in DOMAIN s : s[k] = p
                    IN  IF i = Len(s) THEN NULL ELSE s[i + 1]
    IN  CASE p \in ToSet(active) -> after(active)
          [] p \in ToSet(bound)  -> after(bound)
          [] p \in ToSet(tw)     -> after(tw)
          [] OTHER               -> Wild

Init ==
    /\ active = <<>> /\ bound = <<>> /\ tw = <<>>
    /\ local_ip = [p \in Pcbs |-> ANY] /\ netif_ip \in Addrs \cup {ANY}
    /\ last_timer = [p \in Pcbs |-> 0] /\ polltmr = [p \in Pcbs |-> 0]
    /\ refused = {} /\ tcp_timer = 0 /\ tcp_timer_ctr = 0
    /\ tcp_active_pcbs_changed = FALSE
    /\ pc = "idle" /\ pcb = NULL /\ prev = NULL /\ ops = 0
    /\ ticked = {} /\ present = {} /\ missed = [p \in Pcbs |-> 0]

-----------------------------------------------------------------------------
(* Calls on control blocks: between two runs, or from a callback.          *)

MayCall == pc = "idle" \/ (pc \in Callbacks /\ ops > 0)
Called == ops' = (IF pc = "idle" THEN 0 ELSE ops - 1)
          /\ UNCHANGED <<netif_ip, tcp_timer, tcp_timer_ctr, pc, pcb, prev, ticked>>

(* TCP_REG_ACTIVE and TCP_RMV_ACTIVE: the list, and the note that it       *)
(* changed.                                                                *)
TCP_REG_ACTIVE(p) == active' = <<p>> \o active /\ tcp_active_pcbs_changed' = TRUE

TCP_RMV_ACTIVE(p) ==
    /\ active' = Remove(active, p) /\ refused' = refused \ {p}
    /\ present' = present \ {p} /\ tcp_active_pcbs_changed' = TRUE

(* A new block, ticked from the next run on, bound to an address.          *)
(* The second case is the block tcp_listen_input makes for a SYN: no       *)
(* callback receives segments.                                             *)
tcp_new(p, a) ==
    /\ MayCall /\ p \notin Live
    /\ last_timer' = [last_timer EXCEPT ![p] = tcp_timer_ctr]
    /\ polltmr' = [polltmr EXCEPT ![p] = 0] /\ missed' = [missed EXCEPT ![p] = 0]
    /\ local_ip' = [local_ip EXCEPT ![p] = a]
    /\ \/ bound' = <<p>> \o bound /\ UNCHANGED <<active, tcp_active_pcbs_changed>>
       \/ TCP_REG_ACTIVE(p) /\ pc = "idle" /\ UNCHANGED bound
    /\ Called /\ UNCHANGED <<tw, refused, present>>

tcp_connect(p) ==
    /\ MayCall /\ p \in ToSet(bound)
    /\ bound' = Remove(bound, p) /\ TCP_REG_ACTIVE(p)
    /\ Called /\ UNCHANGED <<tw, local_ip, last_timer, polltmr, refused, present, missed>>

(* tcp_abort, and a close that frees the block.                            *)
tcp_abandon(p) ==
    /\ MayCall /\ p \in Live
    /\ \/ p \in ToSet(active) /\ TCP_RMV_ACTIVE(p) /\ UNCHANGED <<bound, tw>>
       \/ /\ p \notin ToSet(active) /\ bound' = Remove(bound, p) /\ tw' = Remove(tw, p)
          /\ UNCHANGED <<active, refused, present, tcp_active_pcbs_changed>>
    /\ Called /\ UNCHANGED <<local_ip, last_timer, polltmr, missed>>

(* The last FIN of a connection arrives.                                   *)
TimeWait(p) ==
    /\ pc = "idle" /\ p \in ToSet(active)
    /\ TCP_RMV_ACTIVE(p) /\ tw' = <<p>> \o tw
    /\ Called /\ UNCHANGED <<bound, local_ip, last_timer, polltmr, missed>>

(* A receive callback that does not take the data.                         *)
Refuse(p) ==
    /\ pc = "idle" /\ p \in ToSet(active) \ refused /\ refused' = refused \cup {p}
    /\ UNCHANGED <<lists, local_ip, last_timer, polltmr, netif_ip, tcp_timer, tcp_timer_ctr,
                   tcp_active_pcbs_changed, pc, pcb, prev, ops, history>>

-----------------------------------------------------------------------------
(* tcp_tmr: the fast timer every time, then the slow timer every second    *)
(* time.                                                                   *)

StartScan(where) == pc' = where /\ pcb' = Head1(active) /\ prev' = NULL

Starts(where) ==
    /\ tcp_timer_ctr' = (tcp_timer_ctr + 1) % CtrMod
    /\ StartScan(where) /\ ticked' = {} /\ present' = ToSet(active)
    /\ UNCHANGED <<lists, local_ip, last_timer, polltmr, refused, netif_ip,
                   tcp_active_pcbs_changed, ops, missed>>

(* A run ends: who was there all the time and was passed over.             *)
Counted ==
    missed' = [p \in Pcbs |-> missed[p] + (IF p \in present \ ticked THEN 1 ELSE 0)]

tcp_tmr ==
    /\ pc = "idle" /\ Starts("fast") /\ UNCHANGED tcp_timer

(* Fault: every scan ticks every block.                                    *)
TickAgain ==
    /\ last_timer' = [last_timer EXCEPT ![pcb] = tcp_timer_ctr]
    /\ ticked' = ticked \cup {pcb}

(* A tick of block pcb, the first in this run.                             *)
Tick ==
    /\ last_timer[pcb] # tcp_timer_ctr
    /\ last_timer' = [last_timer EXCEPT ![pcb] = tcp_timer_ctr]
    /\ ticked' = ticked \cup {pcb}

(* A block that was ticked before the scan restarted.                      *)
Skip ==
    /\ pc \in {"slow", "fast"} /\ pcb # NULL /\ last_timer[pcb] = tcp_timer_ctr
    /\ prev' = (IF pc = "slow" THEN pcb ELSE NULL) /\ pcb' = NextOf(pcb)
    /\ UNCHANGED <<lists, local_ip, last_timer, polltmr, refused, netif_ip, tcp_timer,
                   tcp_timer_ctr, tcp_active_pcbs_changed, pc, ops, history>>

(* The connection has timed out: it is unlinked through prev, freed, and   *)
(* its error callback runs.                                                *)
SlowRemove ==
    /\ pc = "slow" /\ pcb # NULL /\ Tick
    /\ active' = (IF prev # NULL THEN Remove(active, NextOf(prev)) ELSE Tail(active))
    /\ refused' = refused \ {pcb} /\ present' = present \ {pcb}
    /\ pcb' = NextOf(pcb) /\ tcp_active_pcbs_changed' = FALSE
    /\ pc' = "slowErr" /\ ops' = MaxOps
    /\ UNCHANGED <<bound, tw, local_ip, polltmr, netif_ip, tcp_timer, tcp_timer_ctr, prev,
                   missed>>

(* It stays; every PollInterval ticks the poll callback runs.              *)
SlowKeep ==
    /\ pc = "slow" /\ pcb # NULL /\ Tick
    /\ prev' = pcb /\ pcb' = NextOf(pcb)
    /\ IF polltmr[pcb] + 1 >= PollInterval
       THEN /\ polltmr' = [polltmr EXCEPT ![pcb] = 0]
            /\ tcp_active_pcbs_changed' = FALSE /\ pc' = "poll" /\ ops' = MaxOps
       ELSE /\ polltmr' = [polltmr EXCEPT ![pcb] = @ + 1]
            /\ UNCHANGED <<tcp_active_pcbs_changed, pc, ops>>
    /\ UNCHANGED <<lists, local_ip, refused, netif_ip, tcp_timer, tcp_timer_ctr, present,
                   missed>>

(* The callback returns: start again if the list is not what it was.       *)
(* Fault: the scan goes on from where it was.                              *)
ReturnsGoesOn ==
    /\ pc \in {"slowErr", "poll"} /\ pc' = "slow" /\ ops' = 0
    /\ UNCHANGED <<lists, local_ip, last_timer, polltmr, refused, netif_ip, tcp_timer,
                   tcp_timer_ctr, tcp_active_pcbs_changed, pcb, prev, history>>

Returns ==
    /\ pc \in {"slowErr", "poll"} /\ ops' = 0
    /\ IF tcp_active_pcbs_changed THEN StartScan("slow")
       ELSE pc' = "slow" /\ UNCHANGED <<pcb, prev>>
    /\ UNCHANGED <<lists, local_ip, last_timer, polltmr, refused, netif_ip, tcp_timer,
                   tcp_timer_ctr, tcp_active_pcbs_changed, history>>

(* All active blocks are done: the TIME_WAIT blocks, without callbacks.    *)
SlowEnd ==
    /\ pc = "slow" /\ pcb = NULL
    /\ pc' = "tw" /\ pcb' = Head1(tw) /\ prev' = NULL /\ Counted
    /\ UNCHANGED <<lists, local_ip, last_timer, polltmr, refused, netif_ip, tcp_timer,
                   tcp_timer_ctr, tcp_active_pcbs_changed, ops, ticked, present>>

TwStep ==
    /\ pc = "tw" /\ pcb # NULL /\ pcb' = NextOf(pcb)
    /\ \/ /\ tw' = (IF prev # NULL THEN Remove(tw, NextOf(prev)) ELSE Tail(tw))
          /\ UNCHANGED prev
       \/ prev' = pcb /\ UNCHANGED tw
    /\ UNCHANGED <<active, bound, local_ip, last_timer, polltmr, refused, netif_ip, tcp_timer,
                   tcp_timer_ctr, tcp_active_pcbs_changed, pc, ops, history>>

TwEnd ==
    /\ pc = "tw" /\ pcb = NULL /\ pc' = "idle" /\ prev' = NULL
    /\ ticked' = {} /\ present' = {}
    /\ UNCHANGED <<lists, local_ip, last_timer, polltmr, refused, netif_ip, tcp_timer,
                   tcp_timer_ctr, tcp_active_pcbs_changed, pcb, ops, missed>>

(* tcp_fasttmr: the successor is read before the data is offered again.    *)
FastStep ==
    /\ pc = "fast" /\ pcb # NULL /\ Tick
    /\ IF pcb \in refused
       THEN /\ prev' = NextOf(pcb)          \* the local variable next
            /\ tcp_active_pcbs_changed' = FALSE /\ pc' = "recv" /\ ops' = MaxOps
            /\ refused' = refused \ {pcb} /\ UNCHANGED pcb
       ELSE pcb' = NextOf(pcb) /\ UNCHANGED <<prev, tcp_active_pcbs_changed, pc, ops, refused>>
    /\ UNCHANGED <<lists, local_ip, polltmr, netif_ip, tcp_timer, tcp_timer_ctr, present,
                   missed>>

(* tcp_process_refused_data returns; data that is refused again is kept,   *)
(* unless the callback aborted the connection.                             *)
FastReturns ==
    /\ pc = "recv" /\ ops' = 0
    /\ refused' \in {refused} \cup (IF pcb \in ToSet(active) THEN {refused \cup {pcb}} ELSE {})
    /\ IF tcp_active_pcbs_changed THEN StartScan("fast")
       ELSE pc' = "fast" /\ pcb' = prev /\ prev' = NULL
    /\ UNCHANGED <<lists, local_ip, last_timer, polltmr, netif_ip, tcp_timer, tcp_timer_ctr,
                   tcp_active_pcbs_changed, history>>

(* The end of tcp_fasttmr; tcp_tmr calls tcp_slowtmr when tcp_timer is odd.*)
FastEnd ==
    /\ pc = "fast" /\ pcb = NULL /\ Counted
    /\ tcp_timer' = 1 - tcp_timer
    /\ IF tcp_timer' = 1
       THEN /\ tcp_timer_ctr' = (tcp_timer_ctr + 1) % CtrMod
            /\ StartScan("slow") /\ present' = ToSet(active)
       ELSE /\ pc' = "idle" /\ prev' = NULL /\ present' = {}
            /\ UNCHANGED <<pcb, tcp_timer_ctr>>
    /\ ticked' = {}
    /\ UNCHANGED <<lists, local_ip, last_timer, polltmr, refused, netif_ip,
                   tcp_active_pcbs_changed, ops>>

-----------------------------------------------------------------------------
(* tcp_netif_ip_addr_changed: connections from the old address are         *)
(* aborted.  prev holds the old address' successor pointer next.           *)

tcp_netif_ip_addr_changed(a) ==
    /\ pc = "idle" /\ a # netif_ip /\ netif_ip' = a
    /\ IF netif_ip = ANY THEN UNCHANGED <<pc, pcb, prev>> ELSE StartScan("addrActive")
    /\ UNCHANGED <<lists, local_ip, last_timer, polltmr, refused, tcp_timer, tcp_timer_ctr,
                   tcp_active_pcbs_changed, ops, history>>

OldAddr(p) == local_ip[p] \notin {ANY, netif_ip}

AddrStep ==
    /\ pc \in {"addrActive", "addrBound"} /\ pcb # NULL
    /\ IF OldAddr(pcb)
       THEN /\ prev' = NextOf(pcb)
            /\ IF pc = "addrActive" THEN TCP_RMV_ACTIVE(pcb) /\ UNCHANGED bound
               ELSE /\ bound' = Remove(bound, pcb)
                    /\ UNCHANGED <<active, refused, present, tcp_active_pcbs_changed>>
            /\ pc' = (IF pc = "addrActive" THEN "addrErrActive" ELSE "addrErrBound")
            /\ UNCHANGED pcb
       ELSE /\ pcb' = NextOf(pcb)
            /\ UNCHANGED <<active, bound, refused, present, tcp_active_pcbs_changed, prev, pc>>
    /\ UNCHANGED <<tw, local_ip, last_timer, polltmr, netif_ip, tcp_timer, tcp_timer_ctr, ops,
                   ticked, missed>>

(* The error callback of tcp_abort.  The walk does not look at             *)
(* tcp_active_pcbs_changed, so it is safe only because this program's      *)
(* callback (tcpErrFn, core/tcp_callback_export.go) touches no other       *)
(* control block.                                                          *)
AddrErr ==
    /\ pc \in {"addrErrActive", "addrErrBound"}
    /\ pc' = (IF pc = "addrErrActive" THEN "addrActive" ELSE "addrBound")
    /\ pcb' = prev /\ prev' = NULL
    /\ UNCHANGED <<lists, local_ip, last_timer, polltmr, refused, netif_ip, tcp_timer,
                   tcp_timer_ctr, tcp_active_pcbs_changed, ops, history>>

AddrEnd ==
    /\ pc \in {"addrActive", "addrBound"} /\ pcb = NULL /\ prev' = NULL
    /\ IF pc = "addrActive" THEN pc' = "addrBound" /\ pcb' = Head1(bound)
       ELSE pc' = "idle" /\ UNCHANGED pcb
    /\ UNCHANGED <<lists, local_ip, last_timer, polltmr, refused, netif_ip, tcp_timer,
                   tcp_timer_ctr, tcp_active_pcbs_changed, ops, history>>

Next ==
    \/ \E p \in Pcbs, a \in {ANY, netif_ip} : tcp_new(p, a)
    \/ \E p \in Pcbs : tcp_connect(p) \/ tcp_abandon(p) \/ TimeWait(p) \/ Refuse(p)
    \/ tcp_tmr \/ Skip \/ SlowRemove \/ SlowKeep \/ Returns \/ SlowEnd \/ TwStep \/ TwEnd
    \/ FastStep \/ FastReturns \/ FastEnd
    \/ \E a \in Addrs \cup {ANY} : tcp_netif_ip_addr_changed(a)
    \/ AddrStep \/ AddrErr \/ AddrEnd

Timer == \/ tcp_tmr \/ Skip \/ SlowRemove \/ SlowKeep \/ Returns \/ SlowEnd \/ TwStep \/ TwEnd
         \/ FastStep \/ FastReturns \/ FastEnd \/ AddrStep \/ AddrErr \/ AddrEnd

Spec == Init /\ [][Next]_vars

(* The timer is called again and again (core/lwip.go) and a run, once      *)
(* begun, is not interrupted.                                              *)
FairSpec == Spec /\ WF_vars(Timer)

-----------------------------------------------------------------------------
(* Whenever a scan is about to use its pointers they are what the list     *)
(* says: the cursor is a block of the list it walks, and prev, through     *)
(* which the code unlinks, is the block before it.                         *)
CursorIsLive ==
    LET walked == CASE pc \in {"slow", "fast", "addrActive"} -> active
                    [] pc = "addrBound" -> bound
                    [] pc = "tw" -> tw
                    [] OTHER -> <<>>
    IN  pc \in Scans =>
          /\ pcb \in ToSet(walked) \cup {NULL}
          /\ pc \in {"slow", "tw"} =>
               IF prev = NULL THEN pcb = Head1(walked)
               ELSE prev \in ToSet(walked) /\ pcb = NextOf(prev)

(* A block is in one list, once.                                           *)
ListsAreDisjoint ==
    Len(active) + Len(bound) + Len(tw) = Cardinality(Live)

(* No block is ticked twice by one run of a timer, however often the scan  *)
(* restarts, not even one that was freed and allocated again meanwhile.    *)
TickedOnceStep ==
    \A p \in ticked : pc \in {"slow", "fast"} => last_timer'[p] = last_timer[p]

TickedOnce == [][TickedOnceStep]_vars

(* However often scans restart, a connection is passed over at most once,  *)
(* and then because tcp_timer_ctr had wrapped around while it was bound.   *)
NotStarved == \A p \in Pcbs : missed[p] <= 1

(* After an address change no bound or active block uses the old address.  *)
NoOldAddress ==
    pc = "idle" => \A p \in ToSet(active) \cup ToSet(bound) : ~OldAddr(p)

(* Every run ends: a scan cannot be restarted for ever.                    *)
Idle == pc = "idle"
RunEnds == []<>Idle
=============================================================================
