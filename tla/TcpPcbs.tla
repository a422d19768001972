------------------------------- MODULE TcpPcbs -------------------------------
(***************************************************************************)
(* The TCP control blocks as a population: allocation under memory         *)
(* pressure, ports, listening with a backlog, passive and active opens,    *)
(* the lookup of incoming segments, the states up to TIME_WAIT and the     *)
(* timeouts that end them (tcp.c, tcp_in.c).                               *)
(*                                                                         *)
(* Segments keep what the state machine looks at: flags, where the         *)
(* sequence number lies, whether all that was sent is acknowledged.  The   *)
(* data path is modules TcpSender and TcpReceiver, the iteration of the    *)
(* timers over the lists is module TcpTimers.                              *)
(***************************************************************************)
EXTENDS Integers, Sequences, FiniteSetsExt, SequencesExt

CONSTANTS
    Pcbs,               \* the control blocks memory has room for
    Remotes,            \* remote endpoints
    Dialled,            \* local ports the remotes send to
    Prios,              \* priorities the program uses
    START, END,         \* TCP_LOCAL_PORT_RANGE_START, _END
    Backlog,
    SYN_RCVD_TIMEOUT, FIN_WAIT_TIMEOUT, MSL2, KEEP_IDLE, KEEP_CNT,   \* in ticks
    MAXRTX,
    Keepalive,          \* whether SOF_KEEPALIVE is set
    Connects,           \* whether blocks are used beyond the one listener the
                        \* program creates (core/lwip.go)
    MaxFail             \* segments that cannot be allocated

PcbsAssumption ==
    /\ {START, END, Backlog, SYN_RCVD_TIMEOUT, FIN_WAIT_TIMEOUT, MSL2,
        KEEP_IDLE, KEEP_CNT, MAXRTX, MaxFail} \subseteq Nat
    /\ 0 < START /\ START < END /\ Dialled \subseteq Nat \ {0} /\ Prios \subseteq 1 .. 127
    /\ {Keepalive, Connects} \subseteq BOOLEAN

VARIABLES
    pcb,        \* [Pcbs -> struct tcp_pcb or tcp_pcb_listen]
    list,       \* the lists tcp_listen_pcbs, tcp_bound_pcbs, tcp_active_pcbs,
                \* tcp_tw_pcbs; "new": returned by tcp_new, in no list yet
    tcp_port,   \* the last port tcp_new_port gave out
    fails

vars == <<pcb, list, tcp_port, fails>>

None == "none"
NUM_TCP_PCB_LISTS == {"listen", "bound", "active", "tw"}
MaxAge == Max({SYN_RCVD_TIMEOUT, FIN_WAIT_TIMEOUT, MSL2, KEEP_IDLE + KEEP_CNT}) + 1

Free == [state |-> "FREE", lport |-> 0, remote |-> None, prio |-> 0, age |-> 0,
         nrtx |-> 0, keep |-> 0, BACKLOGPEND |-> FALSE, CLOSEPEND |-> FALSE,
         RXCLOSED |-> FALSE, unread |-> FALSE, listener |-> None, pending |-> 0]

(* The memory of the whole module is one record, so that the functions of  *)
(* the code compose: m.pcb, m.list, m.port.                                *)
Mem == [pcb |-> pcb, list |-> list, port |-> tcp_port, fails |-> fails]
Becomes(m) == pcb' = m.pcb /\ list' = m.list /\ tcp_port' = m.port /\ fails' = m.fails

(* Whether the next segment can be allocated.                              *)
Allocs == {TRUE} \cup (IF fails < MaxFail THEN {FALSE} ELSE {})

Init ==
    /\ pcb = [p \in Pcbs |-> Free]
    /\ list = [l \in NUM_TCP_PCB_LISTS \cup {"new"} |-> <<>>]
    /\ tcp_port \in START .. END - 1
    /\ fails = 0

TCP_REG(m, l, p) == [m EXCEPT !.list[l] = <<p>> \o @]
TCP_RMV(m, l, p) == [m EXCEPT !.list[l] = Remove(@, p)]
tcp_free(m, p) == [m EXCEPT !.pcb[p] = Free]
Allocated(m) == {p \in Pcbs : m.pcb[p].state # "FREE"}
memp_malloc(m) == IF Allocated(m) = Pcbs THEN None
                  ELSE CHOOSE p \in Pcbs : p \notin Allocated(m)
-----------------------------------------------------------------------------
(* The backlog of a listener counts the blocks that wait to be accepted.   *)
tcp_backlog_accepted(m, p) ==
    LET l == m.pcb[p].listener
    IN  IF m.pcb[p].BACKLOGPEND /\ l # None
        THEN [m EXCEPT !.pcb[l].pending = @ - 1, !.pcb[p].BACKLOGPEND = FALSE] ELSE m

(* Fault: a connection that ends keeps its place in the backlog.           *)
tcp_pcb_purgeKeeps(m, p) ==
    IF m.pcb[p].state \in {"CLOSED", "TIME_WAIT", "LISTEN"} THEN m
    ELSE [m EXCEPT !.pcb[p].nrtx = 0]

tcp_pcb_purge(m, p) ==
    IF m.pcb[p].state \in {"CLOSED", "TIME_WAIT", "LISTEN"} THEN m
    ELSE [tcp_backlog_accepted(m, p) EXCEPT !.pcb[p].nrtx = 0]

tcp_pcb_remove(m, l, p) ==
    [tcp_pcb_purge(TCP_RMV(m, l, p), p) EXCEPT !.pcb[p].state = "CLOSED",
                                               !.pcb[p].lport = 0]

tcp_abandon(m, p) ==
    CASE m.pcb[p].state = "TIME_WAIT" -> tcp_free(tcp_pcb_remove(m, "tw", p), p)
      [] m.pcb[p].state = "CLOSED" ->
           tcp_free(TCP_RMV(m, IF m.pcb[p].lport # 0 THEN "bound" ELSE "new", p), p)
      [] OTHER -> tcp_free(tcp_backlog_accepted(tcp_pcb_remove(m, "active", p), p), p)
-----------------------------------------------------------------------------
(* The FIN is queued, or the close stays pending until memory is there.    *)
tcp_close_shutdown_fin(m, p, ok) ==
    LET s == m.pcb[p].state
        q == IF s = "SYN_RCVD" THEN tcp_backlog_accepted(m, p) ELSE m
    IN  IF s \notin {"SYN_RCVD", "ESTABLISHED", "CLOSE_WAIT"} THEN m
        ELSE IF ~ok THEN [m EXCEPT !.pcb[p].CLOSEPEND = TRUE, !.fails = @ + 1]
        ELSE [q EXCEPT !.pcb[p].state = IF s = "CLOSE_WAIT" THEN "LAST_ACK"
                                        ELSE "FIN_WAIT_1"]

tcp_handle_closepend(m, ok) ==
    FoldLeft(LAMBDA q, p : IF q.pcb[p].CLOSEPEND
                           THEN tcp_close_shutdown_fin(
                                    [q EXCEPT !.pcb[p].CLOSEPEND = FALSE], p, ok)
                           ELSE q,
             m, m.list["active"])

(* The longest inactive block of a list among some, the last of equals.    *)
inactive(m, l, some) ==
    LET q == SelectSeq(m.list[l], LAMBDA p : p \in some)
        oldest == {i \in DOMAIN q : \A j \in DOMAIN q : m.pcb[q[j]].age <= m.pcb[q[i]].age}
    IN  IF q = <<>> THEN None ELSE q[CHOOSE i \in oldest : \A j \in oldest : j <= i]

Kill(m, victim) == IF victim = None THEN m ELSE tcp_abandon(m, victim)

tcp_kill_timewait(m) == Kill(m, inactive(m, "tw", Pcbs))

tcp_kill_state(m, s) == Kill(m, inactive(m, "active", {p \in Pcbs : m.pcb[p].state = s}))

(* Fault: a block of the same priority may be killed as well.              *)
tcp_kill_prioSame(m, prio) ==
    LET lower == {m.pcb[m.list["active"][i]].prio : i \in DOMAIN m.list["active"]}
                    \cap 0 .. prio
    IN  IF lower = {} THEN m
        ELSE Kill(m, inactive(m, "active", {p \in Pcbs : m.pcb[p].prio = Min(lower)}))

(* Only a lower priority is killed, the lowest one first.                  *)
tcp_kill_prio(m, prio) ==
    LET lower == {m.pcb[m.list["active"][i]].prio : i \in DOMAIN m.list["active"]}
                    \cap 0 .. prio - 1
    IN  IF lower = {} THEN m
        ELSE Kill(m, inactive(m, "active", {p \in Pcbs : m.pcb[p].prio = Min(lower)}))

(* The four ways to get memory back, each only tried while there is none.  *)
Reclaim(m, prio, ok) ==
    LET kill(q, stage) ==
            CASE stage = "closed" -> tcp_kill_timewait(tcp_handle_closepend(q, ok))
              [] stage = "prio" -> tcp_kill_prio(q, prio)
              [] OTHER -> tcp_kill_state(q, stage)
        tried(q, stage) == IF memp_malloc(q) # None THEN q ELSE kill(q, stage)
    IN  FoldLeft(tried, m, <<"closed", "LAST_ACK", "CLOSING", "prio">>)

Initialised(m, p, prio) ==
    [mem |-> IF p = None THEN m
             ELSE [m EXCEPT !.pcb[p] = [Free EXCEPT !.state = "CLOSED", !.prio = prio]],
     p |-> p]

(* [mem, p]: p is None when nothing could be reclaimed.                    *)
tcp_alloc(m, prio, ok) ==
    LET r == Reclaim(m, prio, ok) IN Initialised(r, memp_malloc(r), prio)
-----------------------------------------------------------------------------
(* tcp_new_port tries every port of the range once, starting behind the    *)
(* last one.                                                               *)
PortsInUse(m) == {m.pcb[p].lport : p \in UNION {Range(m.list[l]) : l \in NUM_TCP_PCB_LISTS}}
PortAfter(port, n) == START + ((port - START + n) % (END - START))

tcp_new_port(m) ==
    LET free == {n \in 1 .. END - START : PortAfter(m.port, n) \notin PortsInUse(m)}
    IN  IF free = {} THEN 0 ELSE PortAfter(m.port, Min(free))

TryPort(m) == [m EXCEPT !.port = IF tcp_new_port(m) = 0 THEN PortAfter(@, 1)
                                 ELSE tcp_new_port(m)]

tcp_new(prio) ==
    \E ok \in Allocs :
      LET r == tcp_alloc(Mem, prio, ok)
      IN  Becomes(IF r.p = None THEN r.mem ELSE TCP_REG(r.mem, "new", r.p))

(* port 0 asks for any.  An address in use leaves the block as it is.      *)
tcp_bind(p, port) ==
    LET n == IF port = 0 THEN tcp_new_port(Mem) ELSE port
        m == IF port = 0 THEN TryPort(Mem) ELSE Mem
    IN  /\ p \in Range(list["new"])
        /\ Becomes(IF n = 0 \/ (port # 0 /\ port \in PortsInUse(Mem)) THEN m
                   ELSE TCP_REG([TCP_RMV(m, "new", p) EXCEPT !.pcb[p].lport = n],
                                "bound", p))

(* The block of a listener is a smaller one; the old one is freed.         *)
tcp_listen_with_backlog(p) ==
    LET l == memp_malloc(Mem)
        m == [Mem EXCEPT !.pcb[l] = [Free EXCEPT !.state = "LISTEN",
                                        !.lport = pcb[p].lport, !.prio = pcb[p].prio]]
        from == IF pcb[p].lport # 0 THEN "bound" ELSE "new"
    IN  /\ pcb[p].state = "CLOSED"
        /\ IF l = None THEN UNCHANGED vars
           ELSE Becomes(TCP_REG(tcp_free(TCP_RMV(m, from, p), p), "listen", l))

tcp_connect(p, remote) ==
    LET old == pcb[p].lport
        n == IF old = 0 THEN tcp_new_port(Mem) ELSE old
        m == IF old = 0 THEN TryPort(Mem) ELSE Mem
    IN  /\ pcb[p].state = "CLOSED"
        /\ Becomes(IF n = 0 THEN m
                   ELSE TCP_REG([TCP_RMV(m, IF old = 0 THEN "new" ELSE "bound", p)
                                    EXCEPT !.pcb[p].lport = n, !.pcb[p].remote = remote,
                                           !.pcb[p].state = "SYN_SENT"],
                                "active", p))
-----------------------------------------------------------------------------
(* Closing.  Unread data turns the close into a reset.                     *)
tcp_remove_listener(m, l) ==
    [m EXCEPT !.pcb = [p \in Pcbs |->
        IF m.pcb[p].listener = l
           /\ \E k \in {"bound", "active", "tw"} : p \in Range(m.list[k])
        THEN [m.pcb[p] EXCEPT !.listener = None] ELSE m.pcb[p]]]

tcp_close_shutdown(m, p, ok) ==
    CASE m.pcb[p].state \in {"ESTABLISHED", "CLOSE_WAIT"} /\ m.pcb[p].unread ->
            tcp_free(TCP_RMV(tcp_pcb_purge(m, p), "active", p), p)
      [] m.pcb[p].state = "CLOSED" -> tcp_abandon(m, p)
      [] m.pcb[p].state = "LISTEN" ->
            tcp_free(tcp_pcb_remove(tcp_remove_listener(m, p), "listen", p), p)
      [] m.pcb[p].state = "SYN_SENT" -> tcp_free(tcp_pcb_remove(m, "active", p), p)
      [] OTHER -> tcp_close_shutdown_fin(m, p, ok)

tcp_close(p) ==
    /\ pcb[p].state \notin {"FREE", "TIME_WAIT"} /\ ~pcb[p].RXCLOSED
    /\ \E ok \in Allocs :
         Becomes(tcp_close_shutdown([Mem EXCEPT !.pcb[p].RXCLOSED = pcb[p].state # "LISTEN"],
                                    p, ok))

tcp_abort(p) ==
    /\ pcb[p].state \notin {"FREE", "LISTEN", "TIME_WAIT"} /\ ~pcb[p].RXCLOSED
    /\ Becomes(tcp_abandon(Mem, p))

tcp_recved(p) ==
    /\ pcb[p].unread
    /\ Becomes([Mem EXCEPT !.pcb[p].unread = FALSE])

(* The fast timer retries a close that could not queue its FIN.            *)
tcp_fasttmr(p) ==
    /\ p \in Range(list["active"]) /\ pcb[p].CLOSEPEND
    /\ \E ok \in Allocs :
         Becomes(tcp_close_shutdown_fin([Mem EXCEPT !.pcb[p].CLOSEPEND = FALSE], p, ok))
-----------------------------------------------------------------------------
(* Segments.  "next": the sequence number is rcv_nxt.                      *)
Segment ==
    [flag : {"SYN", "SYNACK"}, next : {FALSE}, all : BOOLEAN]
        \cup [flag : {"ACK"}, next : {TRUE}, all : BOOLEAN]
        \cup [flag : {"DATA", "FIN", "RST"}, next : BOOLEAN, all : BOOLEAN]
HasAck(seg) == seg.flag \in {"SYNACK", "ACK", "DATA", "FIN"}

(* A new block for the connection, if its SYN|ACK can be queued.           *)
SynReceived(r, l, port, remote, ok) ==
    LET a == TCP_REG([r.mem EXCEPT
                !.pcb[l].pending = @ + 1,
                !.pcb[r.p] = [@ EXCEPT !.BACKLOGPEND = TRUE, !.state = "SYN_RCVD",
                                 !.lport = port, !.remote = remote, !.listener = l]],
                "active", r.p)
    IN  IF r.p = None THEN r.mem
        ELSE IF ok THEN a ELSE [tcp_abandon(a, r.p) EXCEPT !.fails = @ + 1]

tcp_listen_input(m, l, port, remote, seg, ok) ==
    IF seg.flag # "SYN" \/ m.pcb[l].pending >= Backlog THEN m
    ELSE SynReceived(tcp_alloc(m, m.pcb[l].prio, ok), l, port, remote, ok)

tcp_timewait_input(m, p, seg) ==
    IF seg.flag = "FIN" THEN [m EXCEPT !.pcb[p].age = 0] ELSE m

TimeWait(m, p) ==
    TCP_REG([TCP_RMV(tcp_pcb_purge(m, p), "active", p) EXCEPT !.pcb[p].state = "TIME_WAIT"],
            "tw", p)

Reset(m, p) == tcp_free(tcp_pcb_remove(m, "active", p), p)

(* The callback of the listener accepts the connection or refuses it.      *)
Accept(m, p, takes) ==
    LET q == [m EXCEPT !.pcb[p].state = "ESTABLISHED"]
    IN  IF m.pcb[p].listener # None /\ takes THEN tcp_backlog_accepted(q, p)
        ELSE tcp_abandon(IF m.pcb[p].listener = None THEN q
                         ELSE tcp_backlog_accepted(q, p), p)

(* tcp_receive as the state machine sees it: data is handed over, and      *)
(* aborts a connection whose receiving side is closed.                     *)
Received(m, p, seg) ==
    IF seg.flag = "DATA" /\ seg.next
       /\ m.pcb[p].state \in {"ESTABLISHED", "FIN_WAIT_1", "FIN_WAIT_2"}
    THEN IF m.pcb[p].RXCLOSED THEN tcp_abandon(m, p)
         ELSE [m EXCEPT !.pcb[p].unread = TRUE]
    ELSE m

(* What the segment does in each state, after its data was received.       *)
Switch(m, p, seg) ==
    LET s == m.pcb[p].state
        fin == seg.flag = "FIN" /\ seg.next
        to(t) == [m EXCEPT !.pcb[p].state = t]
    IN  CASE s = "ESTABLISHED" /\ fin -> to("CLOSE_WAIT")
          [] s = "FIN_WAIT_1" /\ fin -> IF seg.all THEN TimeWait(m, p) ELSE to("CLOSING")
          [] s = "FIN_WAIT_1" /\ ~fin /\ seg.all -> to("FIN_WAIT_2")
          [] s = "FIN_WAIT_2" /\ fin -> TimeWait(m, p)
          [] s = "CLOSING" /\ seg.all -> TimeWait(m, p)
          [] s = "LAST_ACK" /\ seg.all -> Reset(m, p)
          [] OTHER -> m

(* Fault: any segment restarts the timeout of a closed connection.         *)
tcp_processHears(m, p, seg, takes) ==
    LET s == m.pcb[p].state
        heard == [m EXCEPT !.pcb[p].age = 0,
                           !.pcb[p].keep = 0]
        acks == [heard EXCEPT !.pcb[p].nrtx = IF seg.all THEN 0 ELSE @]
    IN  CASE seg.flag = "RST" ->
               IF (IF s = "SYN_SENT" THEN seg.all ELSE seg.next) THEN Reset(m, p) ELSE m
          [] seg.flag \in {"SYN", "SYNACK"} /\ s \notin {"SYN_SENT", "SYN_RCVD"} -> m
          [] s = "SYN_SENT" /\ seg.flag # "RST" ->
               IF seg.flag = "SYNACK" /\ seg.all
               THEN [acks EXCEPT !.pcb[p].state = "ESTABLISHED"] ELSE heard
          [] s = "SYN_RCVD" /\ seg.flag # "RST" ->
               IF HasAck(seg) /\ seg.all
               THEN LET q == Accept(acks, p, takes)
                    IN  IF q.pcb[p].state # "ESTABLISHED" THEN q
                        ELSE Switch(Received(q, p, seg), p, seg)
               ELSE heard
          [] OTHER -> LET q == Received(acks, p, seg)
                      IN  IF q.pcb[p].state # "FREE" THEN Switch(q, p, seg) ELSE q

tcp_process(m, p, seg, takes) ==
    LET s == m.pcb[p].state
        heard == [m EXCEPT !.pcb[p].age = IF m.pcb[p].RXCLOSED THEN @ ELSE 0,
                           !.pcb[p].keep = 0]
        acks == [heard EXCEPT !.pcb[p].nrtx = IF seg.all THEN 0 ELSE @]
    IN  CASE seg.flag = "RST" ->
               IF (IF s = "SYN_SENT" THEN seg.all ELSE seg.next) THEN Reset(m, p) ELSE m
          [] seg.flag \in {"SYN", "SYNACK"} /\ s \notin {"SYN_SENT", "SYN_RCVD"} -> m
          [] s = "SYN_SENT" /\ seg.flag # "RST" ->
               IF seg.flag = "SYNACK" /\ seg.all
               THEN [acks EXCEPT !.pcb[p].state = "ESTABLISHED"] ELSE heard
          [] s = "SYN_RCVD" /\ seg.flag # "RST" ->
               IF HasAck(seg) /\ seg.all
               THEN LET q == Accept(acks, p, takes)
                    IN  IF q.pcb[p].state # "ESTABLISHED" THEN q
                        ELSE Switch(Received(q, p, seg), p, seg)
               ELSE heard
          [] OTHER -> LET q == Received(acks, p, seg)
                      IN  IF q.pcb[p].state # "FREE" THEN Switch(q, p, seg) ELSE q

(* The lookup: the active blocks, found ones to the front, then those in   *)
(* TIME_WAIT, then the first listener, whatever its port.                  *)
Found(m, l, port, remote) ==
    SelectInSeq(m.list[l], LAMBDA p : m.pcb[p].lport = port /\ m.pcb[p].remote = remote)

tcp_input(port, remote, seg) ==
    LET i == Found(Mem, "active", port, remote)
        j == Found(Mem, "tw", port, remote)
        p == list["active"][i]
    IN  CASE i > 0 ->
               \E takes \in IF pcb[p].state = "SYN_RCVD" THEN BOOLEAN ELSE {TRUE} :
                 Becomes(tcp_process([Mem EXCEPT !.list["active"] = <<p>> \o Remove(@, p)],
                                     p, seg, takes))
          [] i = 0 /\ j > 0 -> Becomes(tcp_timewait_input(Mem, list["tw"][j], seg))
          [] i = 0 /\ j = 0 /\ list["listen"] # <<>> ->
               \E ok \in Allocs :
                 Becomes(tcp_listen_input(Mem, Head(list["listen"]), port, remote, seg, ok))
          [] OTHER -> UNCHANGED vars
-----------------------------------------------------------------------------
(* tcp_slowtmr: one tick of every block.  In the states where something    *)
(* sent is unacknowledged it counts a retransmission.                      *)
Unacked(b) == b.state \in {"SYN_SENT", "SYN_RCVD", "FIN_WAIT_1", "CLOSING", "LAST_ACK"}

Expired(b) ==
    \/ b.nrtx >= MAXRTX
    \/ b.state = "FIN_WAIT_2" /\ b.RXCLOSED /\ b.age > FIN_WAIT_TIMEOUT
    \/ Keepalive /\ b.state \in {"ESTABLISHED", "CLOSE_WAIT"} /\ b.age > KEEP_IDLE + KEEP_CNT
    \/ b.state = "SYN_RCVD" /\ b.age > SYN_RCVD_TIMEOUT
    \/ b.state = "LAST_ACK" /\ b.age > MSL2

tcp_keepalive(b) ==
    IF Keepalive /\ b.state \in {"ESTABLISHED", "CLOSE_WAIT"} /\ b.age > KEEP_IDLE + b.keep
    THEN [b EXCEPT !.keep = @ + 1] ELSE b

Aged(b) == [b EXCEPT !.age = Min({@ + 1, MaxAge})]
Retransmitted(b) == [b EXCEPT !.nrtx = IF Unacked(b) THEN Min({@ + 1, MAXRTX}) ELSE @]

tcp_slowtmr ==
    LET live == Range(list["active"]) \cup Range(list["tw"])
        m == [Mem EXCEPT !.pcb = [p \in Pcbs |-> IF p \in live THEN Aged(pcb[p]) ELSE pcb[p]]]
        tick(q, p) == IF Expired(q.pcb[p]) THEN Reset(q, p)
                      ELSE [q EXCEPT !.pcb[p] = Retransmitted(tcp_keepalive(@))]
        tw(q, p) == IF q.pcb[p].age > MSL2 THEN tcp_free(TCP_RMV(q, "tw", p), p) ELSE q
    IN  Becomes(FoldLeft(tw, FoldLeft(tick, m, list["active"]), list["tw"]))

Input == \E port \in Dialled \cup {pcb[p].lport : p \in Range(list["active"])},
            remote \in Remotes, seg \in Segment : tcp_input(port, remote, seg)

(* A bound port that remotes send to is not used to connect: every segment *)
(* goes to the listener, so the port may already have a connection.        *)
Connect == /\ Connects
           /\ \E p \in Pcbs, r \in Remotes :
                 pcb[p].lport \notin Dialled /\ tcp_connect(p, r)

Next ==
    \/ \E prio \in Prios :
          (Connects \/ \A l \in DOMAIN list : list[l] = <<>>) /\ tcp_new(prio)
    \/ \E p \in Pcbs : tcp_bind(p, 0)
    \/ \E p \in Pcbs, port \in Dialled : Connects /\ tcp_bind(p, port)
    \/ \E p \in Pcbs : tcp_listen_with_backlog(p)
    \/ \E p \in Pcbs : tcp_close(p)
    \/ \E p \in Pcbs : tcp_abort(p)
    \/ \E p \in Pcbs : tcp_recved(p)
    \/ \E p \in Pcbs : tcp_fasttmr(p)
    \/ Connect
    \/ Input
    \/ tcp_slowtmr

Spec == Init /\ [][Next]_vars

(* The program's event loop runs both timers.                              *)
FairSpec == Spec /\ WF_vars(tcp_slowtmr) /\ \A p \in Pcbs : WF_vars(tcp_fasttmr(p))
-----------------------------------------------------------------------------
States == {"FREE", "CLOSED", "LISTEN", "SYN_SENT", "SYN_RCVD", "ESTABLISHED",
           "FIN_WAIT_1", "FIN_WAIT_2", "CLOSE_WAIT", "CLOSING", "LAST_ACK", "TIME_WAIT"}

TypeOK ==
    /\ \A p \in Pcbs : /\ pcb[p].state \in States
                        /\ pcb[p].age \in 0 .. MaxAge /\ pcb[p].nrtx \in 0 .. MAXRTX
                        /\ pcb[p].pending \in 0 .. Backlog
                        /\ pcb[p].keep \in 0 .. KEEP_CNT + 1
    /\ tcp_port \in START .. END - 1

(* tcp_pcbs_sane and more: every block that is not free is in one list,    *)
(* once, and the list fits its state, whichever way it was killed, moved   *)
(* to the front or timed out.                                              *)
ListsPartition ==
    LET of == [l \in DOMAIN list |->
                 CASE l \in {"new", "bound"} -> {"CLOSED"} [] l = "listen" -> {"LISTEN"}
                   [] l = "tw" -> {"TIME_WAIT"}
                   [] l = "active" -> States \ {"FREE", "CLOSED", "LISTEN", "TIME_WAIT"}]
        places(p) == {<<l, i>> \in (DOMAIN list) \X (1 .. Cardinality(Pcbs)) :
                         i <= Len(list[l]) /\ list[l][i] = p}
    IN  \A p \in Pcbs :
            /\ Cardinality(places(p)) = IF pcb[p].state = "FREE" THEN 0 ELSE 1
            /\ \A x \in places(p) : pcb[p].state \in of[x[1]]

(* A segment belongs to one connection at most.                            *)
UniqueTuples ==
    \A p, q \in Range(list["active"]) \cup Range(list["tw"]) :
        p # q => <<pcb[p].lport, pcb[p].remote>> # <<pcb[q].lport, pcb[q].remote>>

(* A listener counts exactly the connections nobody accepted yet; a        *)
(* connection that ends in any other way gives its place back.             *)
BacklogIsExact ==
    \A l \in Range(list["listen"]) :
        pcb[l].pending = Cardinality({p \in Pcbs : pcb[p].listener = l /\ pcb[p].BACKLOGPEND})

(* No connection points to a listener that was closed.                     *)
ListenerIsLive ==
    \A p \in Pcbs : pcb[p].listener # None => pcb[pcb[p].listener].state = "LISTEN"

(* A connection the program holds is sacrificed for a new one only to a    *)
(* higher priority, and only when no dying one was left to take.           *)
KillsOnlyLessStep ==
    \A p \in Pcbs :
      (pcb[p].state \in {"SYN_SENT", "ESTABLISHED", "FIN_WAIT_1", "FIN_WAIT_2", "CLOSE_WAIT"}
       /\ ~pcb[p].RXCLOSED /\ pcb'[p].state \in {"CLOSED", "SYN_RCVD"})
      => /\ pcb[p].prio < pcb'[p].prio
         /\ \A q \in Pcbs : pcb[q].state \notin {"TIME_WAIT", "LAST_ACK", "CLOSING"}

KillsOnlyLess == [][KillsOnlyLessStep]_vars

(* A connection the program closed is gone, or in TIME_WAIT, in the end,   *)
(* whatever the peer sends.                                                *)
Gone(p) == pcb[p].state \in {"FREE", "TIME_WAIT"} \/ ~pcb[p].RXCLOSED
ClosedIsFreed == \A p \in Pcbs : []<>Gone(p)

(* A full backlog drains, whatever the peers send.                         *)
BacklogFull(l) == pcb[l].state = "LISTEN" /\ pcb[l].pending >= Backlog
BacklogDrains == \A l \in Pcbs : []<>~BacklogFull(l)
==============================================================================
