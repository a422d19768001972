------------------------------- MODULE Etharp -------------------------------
(***************************************************************************)
(* etharp.c: the cache of hardware addresses (compiled out of the          *)
(* program's build), with queues for packets and static entries.  The      *)
(* hosts of the link speak at any time and change their hardware address;  *)
(* an entry that is needed for another host is evicted, and every          *)
(* allocation may fail.                                                    *)
(***************************************************************************)
EXTENDS Integers, FiniteSets, Sequences

CONSTANTS TABLE_SIZE, MAXAGE, MAXPENDING, QUEUE_LEN,
          UNICAST, BROADCAST,   \* ages at which an entry in use is asked for again
          Netifs, Hosts,        \* the hosts of every link
          Gw,                   \* the gateway of each interface, 0 for none
          Macs,                 \* hardware addresses a host may have
          Statics               \* hosts that may get static entries

EtharpAssumption == /\ MAXPENDING <= MAXAGE /\ UNICAST <= BROADCAST /\ BROADCAST <= MAXAGE
                    /\ 0 \notin Macs \cup Hosts

VARIABLES arp_table,
          hint,             \* etharp_cached_entry
          heard,            \* the address that each known host told last
          out               \* the frames of the last step

vars == <<arp_table, hint, heard, out>>

Table == 1 .. TABLE_SIZE
EMPTY == [state |-> "EMPTY", ip |-> 0, netif |-> 0, eth |-> 0, ctime |-> 0, q |-> <<>>]
StableStates == {"STABLE", "REREQUESTING_1", "REREQUESTING_2", "STATIC"}
Stable(e) == e.state \in StableStates
Last(S) == CHOOSE i \in S : \A j \in S : j <= i
First(S) == CHOOSE i \in S : \A j \in S : i <= j

Request(n, ip, to) == [kind |-> "request", netif |-> n, ip |-> ip, eth |-> to, for |-> ip]
Frame(n, ip, to, packet) == [kind |-> "ip", netif |-> n, ip |-> ip, eth |-> to, for |-> packet]

-----------------------------------------------------------------------------
(* etharp_free_entry and free_etharp_q.                                    *)
free_entry(t, i) == [t EXCEPT ![i] = EMPTY]

(* etharp_find_entry: the entry of a host on an interface (0: on any), or, *)
(* for a new one, an empty entry, else the oldest of those that are needed *)
(* least.  Entries are numbered from 1, and 0 is an error.                 *)
Entries(t, ip, n) == {i \in Table : t[i].state # "EMPTY" /\ t[i].ip = ip /\ n \in {0, t[i].netif}}
OldestOf(t, S) == Last({i \in S : \A j \in S : t[j].ctime <= t[i].ctime})

Recyclable(t) ==
    LET dynamic == {i \in Table : Stable(t[i]) /\ t[i].state # "STATIC"}
        pending == {i \in Table : t[i].state = "PENDING" /\ t[i].q = <<>>}
        queued == {i \in Table : t[i].state = "PENDING" /\ t[i].q # <<>>}
    IN  IF dynamic # {} THEN dynamic ELSE IF pending # {} THEN pending ELSE queued

find_entry(t, ip, n, hard) ==
    LET empty == {i \in Table : t[i].state = "EMPTY"}
    IN  IF Entries(t, ip, n) # {} THEN First(Entries(t, ip, n))
        ELSE IF ~hard THEN 0
        ELSE IF empty # {} THEN First(empty)
        ELSE IF Recyclable(t) # {} THEN OldestOf(t, Recyclable(t)) ELSE 0

(* The table with entry i made ready for a host that has none yet.         *)
Claimed(t, i, ip, n) ==
    IF i \in Entries(t, ip, n) THEN t
    ELSE [free_entry(t, i) EXCEPT ![i].ip = ip, ![i].netif = n]

-----------------------------------------------------------------------------
(* etharp_update_arp_entry: the address is stored and what was queued for  *)
(* it is sent; a message never changes a static entry.                     *)
Updated(t, i, n, eth, static) ==
    [t EXCEPT ![i] = [@ EXCEPT !.state = IF static THEN "STATIC" ELSE "STABLE", !.netif = n,
                               !.eth = eth, !.ctime = 0, !.q = <<>>]]

Flushed(e, n, eth) == {Frame(n, e.ip, eth, e.q[k]) : k \in DOMAIN e.q}

update_arp_entry(n, ip, eth, hard, static, i, frames) ==
    IF i = 0 \/ (i \in Entries(arp_table, ip, n) /\ arp_table[i].state = "STATIC" /\ ~static)
    THEN arp_table' = arp_table /\ heard' = heard /\ out' = frames
    ELSE /\ arp_table' = Updated(Claimed(arp_table, i, ip, n), i, n, eth, static)
         /\ heard' = [heard EXCEPT ![n][ip] = eth]
         /\ out' = frames \cup Flushed(Claimed(arp_table, i, ip, n)[i], n, eth)

(* etharp_input: a message from a host; one for this interface makes an    *)
(* entry, and a request for it is answered.                                *)
etharp_input(n, ip, eth, for_us, op) ==
    /\ update_arp_entry(n, ip, eth, for_us, FALSE, find_entry(arp_table, ip, n, for_us),
            IF for_us /\ op = "request"
            THEN {[kind |-> "reply", netif |-> n, ip |-> ip, eth |-> eth, for |-> ip]} ELSE {})
    /\ UNCHANGED hint

(* etharp_add_static_entry and etharp_remove_static_entry; the interface   *)
(* is the one ip4_route finds.                                             *)
add_static(n, ip, eth) ==
    /\ find_entry(arp_table, ip, n, TRUE) # 0
    /\ update_arp_entry(n, ip, eth, TRUE, TRUE, find_entry(arp_table, ip, n, TRUE), {})
    /\ UNCHANGED hint

remove_static(ip) == LET i == find_entry(arp_table, ip, 0, FALSE) IN
    /\ i # 0 /\ arp_table[i].state = "STATIC"
    /\ arp_table' = free_entry(arp_table, i) /\ out' = {} /\ UNCHANGED <<hint, heard>>

etharp_cleanup_netif(n) ==
    /\ \E i \in Table : arp_table[i].state # "EMPTY" /\ arp_table[i].netif = n
    /\ arp_table' = [i \in Table |-> IF arp_table[i].netif = n THEN free_entry(arp_table, i)[i]
                                     ELSE arp_table[i]]
    /\ out' = {} /\ UNCHANGED <<hint, heard>>

-----------------------------------------------------------------------------
(* etharp_tmr.                                                             *)
Aged(e) ==
    LET old == [e EXCEPT !.ctime = @ + 1]
    IN  CASE e.state \in {"EMPTY", "STATIC"} -> e
          [] old.ctime >= MAXAGE \/ (e.state = "PENDING" /\ old.ctime >= MAXPENDING) -> EMPTY
          [] e.state = "REREQUESTING_1" -> [old EXCEPT !.state = "REREQUESTING_2"]
          [] e.state = "REREQUESTING_2" -> [old EXCEPT !.state = "STABLE"]
          [] OTHER -> old

etharp_tmr ==
    /\ arp_table' = [i \in Table |-> Aged(arp_table[i])]
    /\ out' = {Request(e.netif, e.ip, 0) : e \in {Aged(arp_table[i]) : i \in
                    {j \in Table : Aged(arp_table[j]).state = "PENDING"}}}
    /\ UNCHANGED <<hint, heard>>

(* etharp_output_to_arp_index: an entry in use is asked for again before   *)
(* it gets too old, first at its host, then at all.                        *)
output_to_arp_index(n, i, mem) ==
    LET e == arp_table[i]
        ask == e.state = "STABLE" /\ e.ctime >= UNICAST /\ mem
    IN  /\ out' = {Frame(n, e.ip, e.eth, e.ip)} \cup
                  (IF ask THEN {Request(n, e.ip, IF e.ctime >= BROADCAST THEN 0 ELSE e.eth)} ELSE {})
        /\ arp_table' = IF ask THEN [arp_table EXCEPT ![i].state = "REREQUESTING_1"] ELSE arp_table

(* etharp_query for a packet: it is sent or queued, and the oldest of a    *)
(* queue that is full is dropped.                                          *)
Enqueue(q, ip) == IF Len(q) >= QUEUE_LEN THEN Append(Tail(q), ip) ELSE Append(q, ip)

Queried(n, ip, i, t, mem) ==
    IF Stable(t[i])
    THEN /\ arp_table' = t /\ hint' = i /\ out' = {Frame(n, ip, t[i].eth, ip)}
    ELSE /\ arp_table' = [t EXCEPT ![i].state = "PENDING",
                                   ![i].q = IF mem THEN Enqueue(@, ip) ELSE @]
         /\ out' = (IF t[i].state = "EMPTY" THEN {Request(n, ip, 0)} ELSE {})
         /\ UNCHANGED hint

etharp_query(n, ip, mem) == LET i == find_entry(arp_table, ip, n, TRUE) IN
    /\ i # 0
    /\ Queried(n, ip, i, Claimed(arp_table, i, ip, n), mem) /\ UNCHANGED heard

(* etharp_output: the next hop is the host or the gateway; the entry that  *)
(* was used last is tried first.  A broadcast needs no entry.              *)
NextHop(n, ip, onlink) == IF onlink THEN ip ELSE Gw[n]

Usable(i, n, hop) == /\ Stable(arp_table[i]) /\ arp_table[i].netif = n /\ arp_table[i].ip = hop
Found(n, hop) == {i \in Table : Usable(i, n, hop)}

etharp_output(n, ip, onlink, mem) == LET hop == NextHop(n, ip, onlink) IN
    /\ hop # 0
    /\ IF Usable(hint, n, hop)
       THEN output_to_arp_index(n, hint, mem) /\ UNCHANGED <<hint, heard>>
       ELSE IF Found(n, hop) # {}
       THEN /\ output_to_arp_index(n, First(Found(n, hop)), mem)
            /\ hint' = First(Found(n, hop)) /\ UNCHANGED heard
       ELSE etharp_query(n, hop, mem)

Init ==
    /\ arp_table = [i \in Table |-> EMPTY] /\ hint = 1 /\ out = {}
    /\ heard = [n \in Netifs |-> [h \in Hosts |-> 0]]

Next ==
    \/ etharp_tmr
    \/ \E n \in Netifs :
        \/ etharp_cleanup_netif(n)
        \/ \E h \in Hosts, b, mem \in BOOLEAN : etharp_output(n, h, b, mem)
        \/ \E h \in Hosts, m \in Macs : \/ \E b \in BOOLEAN, op \in {"request", "reply"} :
                                            etharp_input(n, h, m, b, op)
                                        \/ h \in Statics /\ add_static(n, h, m)
    \/ \E h \in Statics : remove_static(h)

Spec == Init /\ [][Next]_vars

-----------------------------------------------------------------------------
TypeOK ==
    /\ hint \in Table
    /\ \A i \in Table : LET e == arp_table[i]
                        IN  /\ e.state \in {"EMPTY", "PENDING"} \cup StableStates
                            /\ e.ctime \in 0 .. (IF e.state = "PENDING" THEN MAXPENDING ELSE MAXAGE) - 1
                            /\ e.q # <<>> => e.state = "PENDING" /\ Len(e.q) <= QUEUE_LEN

(* A host has one entry on each interface.                                 *)
OneEntryEach ==
    \A i, j \in Table : (/\ i # j /\ arp_table[i].state # "EMPTY" /\ arp_table[j].state # "EMPTY")
                        => <<arp_table[i].ip, arp_table[i].netif>> # <<arp_table[j].ip, arp_table[j].netif>>

(* A packet leaves for the host it was meant for, at the address that host *)
(* told last, however entries were evicted and used again meanwhile.       *)
RightFrame ==
    \A f \in out : f.kind = "ip" => f.for = f.ip /\ f.eth = heard[f.netif][f.ip]

(* A static entry is changed by nothing but the two functions for it and   *)
(* the end of its interface.                                               *)
StaticsKeptStep ==
    \A i \in Table : arp_table[i].state = "STATIC" /\ arp_table'[i] # arp_table[i] =>
         \/ arp_table'[i].state = "STATIC" /\ arp_table'[i].ip = arp_table[i].ip
         \/ arp_table'[i] = EMPTY

StaticsKept == [][StaticsKeptStep]_vars
(* No packet waits for good for a host that does not answer.               *)
Queued(i) == arp_table[i].q # <<>>
NothingWaits == \A i \in Table : []<>~Queued(i)
=============================================================================
