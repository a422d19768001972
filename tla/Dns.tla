-------------------------------- MODULE Dns ---------------------------------
(***************************************************************************)
(* dns.c: lwIP's own resolver (compiled out of the program's build), with  *)
(* random source ports and requests that share an entry of the table.      *)
(* Several callers ask for names; servers are replaced; queries and        *)
(* answers are lost, late or repeated, and an answer may be an error, may  *)
(* lack the record that was asked for, or may be cut short.  Names are     *)
(* neither addresses nor "localhost", and callbacks ask nothing.           *)
(***************************************************************************)
EXTENDS Integers, FiniteSets, Sequences

CONSTANTS TABLE_SIZE, MAX_REQUESTS, MAX_SERVERS, MAX_PORTS, MAX_RETRIES, MAX_TTL,
          SEQ,                  \* values of dns_seqno
          Callers, Names, Types, Txids, Ports, Servers, Ttls,
          NewServers,           \* what the servers are replaced by, 0 for none
          Records,              \* the lists of records an answer may have
          InFlight,             \* bound: queries on their way
          LocalMax              \* bound: entries of the local host list

DnsAssumption == /\ MAX_REQUESTS = TABLE_SIZE      \* dns_call_found indexes both
                 /\ Cardinality(Txids) >= TABLE_SIZE /\ Cardinality(Ports) >= MAX_PORTS

VARIABLES dns,              \* the resolver's variables, and what callers know
          servers,          \* dns_servers, 0 where there is none
          local             \* local_hostlist_dynamic

vars == <<dns, servers, local>>

NULL == [of |-> 0, v6 |-> FALSE, local |-> FALSE]
Addr(n, v6) == [of |-> n, v6 |-> v6, local |-> FALSE]
Nothing == [name |-> 0, type |-> ""]

is_v6(t) == t \in {"v6", "v6v4"}
Families(t) == CASE t = "v4" -> {FALSE} [] t = "v6" -> {TRUE} [] OTHER -> BOOLEAN
Fallback(t) == IF t = "v4v6" THEN "v6" ELSE "v4"

Table == 1 .. TABLE_SIZE
First(S) == CHOOSE i \in S : \A j \in S : i <= j
Asking(s) == {i \in Table : s.table[i].state = "ASKING"}

-----------------------------------------------------------------------------
(* Fault: the port is closed without a look at the other entries.          *)
SharedNever(s, i) == FALSE

(* Another query waits for its answer at the port of entry i.              *)
Shared(s, i) == \E j \in Asking(s) \ {i} : s.table[j].pcb = s.table[i].pcb

(* dns_call_found: all who asked are told, and the port is closed unless   *)
(* it is shared.                                                           *)
dns_call_found(s, i, addr) ==
    LET e == s.table[i]
        mine == {r \in DOMAIN s.requests : s.requests[r].who # 0 /\ s.requests[r].idx = i}
        whos == {s.requests[r].who : r \in mine}
    IN  [s EXCEPT
            !.told = @ \cup {[who |-> c, addr |-> addr, asked |-> s.waiting[c]] : c \in whos},
            !.waiting = [c \in Callers |-> IF c \in whos THEN Nothing ELSE @[c]],
            !.requests = [r \in DOMAIN @ |-> IF r \in mine THEN [who |-> 0, idx |-> 1] ELSE @[r]],
            !.pcbs = IF Shared(s, i) \/ e.pcb = MAX_PORTS THEN @ ELSE [@ EXCEPT ![e.pcb] = 0],
            !.table[i].pcb = MAX_PORTS,
            !.table[i].type = IF addr = NULL THEN @ ELSE IF addr.v6 THEN "v6" ELSE "v4"]

UNUSED == [state |-> "UNUSED", name |-> 0, type |-> "v4", txid |-> 0, server |-> 1, tmr |-> 0,
           retries |-> 0, seqno |-> 0, pcb |-> MAX_PORTS, addr |-> NULL, ttl |-> 0]

(* An entry that is given up; what it held is never read again.            *)
Drop(s, i) == [s EXCEPT !.table[i] = UNUSED]
Failed(s, i) == Drop(dns_call_found(s, i, NULL), i)

(* dns_send: a query that cannot be sent is one that is lost.              *)
dns_send(s, i) ==
    LET e == s.table[i]
        q == [txid |-> e.txid, name |-> e.name, v6 |-> is_v6(e.type), server |-> servers[e.server],
              port |-> s.pcbs[e.pcb]]
    IN  IF servers[e.server] = 0 THEN Failed(s, i)
        ELSE IF Cardinality(s.net) < InFlight THEN [s EXCEPT !.net = @ \cup {q}] ELSE s

backupserver_available(e) == e.server + 1 <= MAX_SERVERS /\ servers[e.server + 1] # 0

(* dns_check_entry for an entry that asks: the time between two attempts   *)
(* grows, then the next server is asked.                                   *)
Retry(s, i) ==
    LET e == s.table[i]
        Again(server, retries, tmr) ==
            dns_send([s EXCEPT !.table[i] = [e EXCEPT !.server = server, !.retries = retries,
                                                      !.tmr = tmr]], i)
    IN  CASE e.tmr > 1 -> [s EXCEPT !.table[i].tmr = @ - 1]
          [] e.tmr = 1 /\ e.retries + 1 < MAX_RETRIES -> Again(e.server, e.retries + 1, e.retries + 1)
          [] e.tmr = 1 /\ e.retries + 1 = MAX_RETRIES /\ backupserver_available(e) ->
                Again(e.server + 1, 0, 1)
          [] OTHER -> Failed(s, i)

(* A new entry gets an identifier that no other query has.                 *)
Fresh(s) == Txids \ {s.table[i].txid : i \in Asking(s)}

Start(s, i, txid) ==
    dns_send([s EXCEPT !.table[i] = [@ EXCEPT !.state = "ASKING", !.txid = txid, !.server = 1,
                                              !.tmr = 1, !.retries = 0]], i)

dns_check_entry(s, i) ==
    CASE s.table[i].state = "ASKING" -> Retry(s, i)
      [] s.table[i].state = "DONE" ->
            IF s.table[i].ttl <= 1 THEN Drop(s, i) ELSE [s EXCEPT !.table[i].ttl = @ - 1]
      [] OTHER -> s

(* dns_tmr.                                                                *)
dns_tmr ==
    LET f[i \in 0 .. TABLE_SIZE] ==
            IF i = 0 THEN [dns EXCEPT !.told = {}] ELSE dns_check_entry(f[i - 1], i)
    IN  dns' = f[TABLE_SIZE] /\ UNCHANGED <<servers, local>>

-----------------------------------------------------------------------------
(* dns_correct_response: an answer without a life is told and forgotten.   *)
dns_correct_response(s, i, v6, ttl) ==
    LET addr == Addr(s.table[i].name, v6)
        t == dns_call_found([s EXCEPT !.table[i] = [UNUSED EXCEPT !.state = "DONE",
                    !.name = s.table[i].name, !.seqno = s.table[i].seqno, !.pcb = s.table[i].pcb,
                    !.addr = addr, !.ttl = IF ttl > MAX_TTL THEN MAX_TTL ELSE ttl]], i, addr)
    IN  IF ttl = 0 THEN Drop(t, i) ELSE t

(* dns_compare_name; a name that is cut off or compressed is no name.      *)
dns_compare_name(e, q) == q.name = e.name

(* The answer is for entry i: identifier, server, name and type are those  *)
(* of its query.                                                           *)
Accepts(e, q, from) ==
    /\ from = servers[e.server] /\ dns_compare_name(e, q) /\ q.v6 = is_v6(e.type)

(* The records up to the first one that decides: the one that is asked     *)
(* for, or one that is cut off (dns_skip_name).                            *)
Decides(e, recs) == {k \in DOMAIN recs : recs[k] \in {"cut", IF is_v6(e.type) THEN "aaaa" ELSE "a"}}

HasRecord(s, i, k, recs, ttl) ==
    IF recs[k] = "cut" THEN s ELSE dns_correct_response(s, i, is_v6(s.table[i].type), ttl)

(* No record of the type: the other type is asked for, if it may be.       *)
NoRecord(s, i, txid) ==
    LET e == s.table[i]
    IN  IF e.type \in {"v4v6", "v6v4"}
        THEN Start([s EXCEPT !.table[i].type = Fallback(e.type)], i, txid)
        ELSE Failed(s, i)

(* The server reports an error: the next one is asked at once.             *)
Error(s, i) ==
    IF backupserver_available(s.table[i])
    THEN Retry([s EXCEPT !.table[i].retries = MAX_RETRIES - 1, !.table[i].tmr = 1], i)
    ELSE Failed(s, i)

(* dns_recv: an answer to query q comes to a port that is still open, or   *)
(* was opened again.                                                       *)
Received(s, q, error, recs, ttl, txid) ==
    LET hits == {i \in Asking(s) : s.table[i].txid = q.txid}
        i == First(hits)
    IN  IF hits = {} THEN s
        ELSE IF ~Accepts(s.table[i], q, q.server) THEN s
        ELSE IF error THEN Error(s, i)
        ELSE IF Decides(s.table[i], recs) = {} THEN NoRecord(s, i, txid)
        ELSE HasRecord(s, i, First(Decides(s.table[i], recs)), recs, ttl)

dns_recv(q, error, recs, ttl, txid, again) ==
    /\ \E p \in DOMAIN dns.pcbs : dns.pcbs[p] = q.port
    /\ txid \in Fresh(dns) \cup {q.txid}
    /\ dns' = Received([dns EXCEPT !.told = {}, !.net = IF again THEN @ ELSE @ \ {q}],
                       q, error, recs, ttl, txid)
    /\ UNCHANGED <<servers, local>>

(* A query or its answer is lost.                                          *)
Lose(q) == dns' = [dns EXCEPT !.net = @ \ {q}, !.told = {}] /\ UNCHANGED <<servers, local>>

-----------------------------------------------------------------------------
(* dns_lookup_local and the search of the table.                           *)
lookup_local(n, t) == {k \in DOMAIN local : local[k].name = n /\ local[k].addr.v6 = is_v6(t)}
Cached(n, t) == {i \in Table : /\ dns.table[i].state = "DONE" /\ dns.table[i].name = n
                               /\ dns.table[i].addr.v6 = is_v6(t)}

dns_lookup(n, t) ==
    IF lookup_local(n, t) # {} THEN local[First(lookup_local(n, t))].addr
    ELSE IF Cached(n, t) # {} THEN dns.table[First(Cached(n, t))].addr ELSE NULL

(* The entry for a new query: an unused one, else the oldest answer.       *)
Age(i) == (dns.seqno - dns.table[i].seqno) % SEQ
Free == {i \in Table : dns.table[i].state = "UNUSED"}
Old == {i \in Table : dns.table[i].state = "DONE" /\ Age(i) > 0}
Oldest == First({i \in Old : \A j \in Old : Age(j) <= Age(i)})
Slot == IF Free # {} THEN First(Free) ELSE Oldest
FreeReq == {r \in DOMAIN dns.requests : dns.requests[r].who = 0}

(* dns_alloc_pcb: a new port, or the next one that is open.                *)
NoPcb == {p \in DOMAIN dns.pcbs : dns.pcbs[p] = 0}
NextPcb(k) == (dns.last + k) % MAX_PORTS
OpenAfter == {k \in 1 .. MAX_PORTS : dns.pcbs[NextPcb(k)] # 0}
Pcbs(fits) == IF NoPcb # {} /\ fits THEN {First(NoPcb)}
              ELSE IF OpenAfter # {} THEN {NextPcb(First(OpenAfter))} ELSE {}

(* Queries for the same name and type that wait already.                   *)
Same(n, t) == {i \in Asking(dns) : dns.table[i].name = n /\ dns.table[i].type = t}

Join(c, n, t) ==
    /\ Same(n, t) # {} /\ FreeReq # {}
    /\ dns' = [dns EXCEPT !.requests[First(FreeReq)] = [who |-> c, idx |-> First(Same(n, t))],
                          !.waiting[c] = [name |-> n, type |-> t], !.told = {}]

(* dns_alloc_random_port: the port is one that nobody uses.                *)
Enqueued(c, n, t, p, port, txid) ==
    Start([dns EXCEPT !.table[Slot] = [UNUSED EXCEPT !.name = n, !.type = t, !.seqno = dns.seqno,
                                                     !.pcb = p],
                      !.requests[First(FreeReq)] = [who |-> c, idx |-> Slot],
                      !.waiting[c] = [name |-> n, type |-> t], !.told = {},
                      !.pcbs[p] = IF @ = 0 THEN port ELSE @, !.last = p,
                      !.seqno = (@ + 1) % SEQ], Slot, txid)

dns_enqueue(c, n, t, fits, port, txid) ==
    \/ Join(c, n, t)
    \/ /\ Same(n, t) = {} /\ FreeReq # {} /\ (Free # {} \/ Old # {})
       /\ IF Pcbs(fits) = {} THEN dns' = [Drop(dns, Slot) EXCEPT !.told = {}]
          ELSE \E p \in Pcbs(fits) : dns' = Enqueued(c, n, t, p, port, txid)

(* dns_gethostbyname_addrtype: the local list and the table first, then,   *)
(* if there is a server, a query.                                          *)
Lookup(n, t) ==
    IF dns_lookup(n, t) = NULL /\ t \in {"v4v6", "v6v4"} THEN dns_lookup(n, Fallback(t))
    ELSE dns_lookup(n, t)

gethostbyname(c, n, t, fits, port, txid) ==
    /\ dns.waiting[c] = Nothing
    /\ txid \in Fresh(dns) /\ \A p \in DOMAIN dns.pcbs : dns.pcbs[p] # port
    /\ \/ /\ Lookup(n, t) # NULL
          /\ dns' = [dns EXCEPT !.told = {[who |-> c, addr |-> Lookup(n, t),
                                           asked |-> [name |-> n, type |-> t]]}]
       \/ Lookup(n, t) = NULL /\ servers[1] # 0 /\ dns_enqueue(c, n, t, fits, port, txid)
    /\ UNCHANGED <<servers, local>>

dns_setserver(k, a) ==
    /\ servers[k] # a
    /\ servers' = [servers EXCEPT ![k] = a] /\ dns' = [dns EXCEPT !.told = {}] /\ UNCHANGED local

-----------------------------------------------------------------------------
(* The list of local hosts; the newest entry is the first.                 *)
local_addhost(n, v6) ==
    /\ Len(local) < LocalMax
    /\ local' = <<[name |-> n, addr |-> [Addr(n, v6) EXCEPT !.local = TRUE]]>> \o local
    /\ dns' = [dns EXCEPT !.told = {}] /\ UNCHANGED servers

(* Name 0 stands for every name, and no family for every address.          *)
local_removehost(n, v6s) ==
    LET Keeps(e) == ~((n = 0 \/ e.name = n) /\ e.addr.v6 \in v6s)
    IN  /\ local' = SelectSeq(local, Keeps) /\ local' # local
        /\ dns' = [dns EXCEPT !.told = {}] /\ UNCHANGED servers

Init ==
    /\ dns = [table |-> [i \in Table |-> UNUSED],
              requests |-> [r \in 1 .. MAX_REQUESTS |-> [who |-> 0, idx |-> 1]],
              pcbs |-> [p \in 0 .. MAX_PORTS - 1 |-> 0], last |-> 0, seqno |-> 0,
              net |-> {}, waiting |-> [c \in Callers |-> Nothing], told |-> {}]
    /\ servers \in {[k \in 1 .. MAX_SERVERS |-> IF k = 1 THEN a ELSE 0] : a \in Servers}
    /\ local = <<>>

Next ==
    \/ dns_tmr
    \/ \E c \in Callers, n \in Names, t \in Types, fits \in BOOLEAN, port \in Ports, txid \in Txids :
            gethostbyname(c, n, t, fits, port, txid)
    \/ \E q \in dns.net : \/ Lose(q)
                          \/ \E error, again \in BOOLEAN, recs \in Records, ttl \in Ttls, txid \in Txids :
                                dns_recv(q, error, recs, ttl, txid, again)
    \/ \E k \in 1 .. MAX_SERVERS, a \in NewServers : dns_setserver(k, a)
    \/ \E n \in Names, v6 \in BOOLEAN : local_addhost(n, v6)
    \/ \E n \in Names \cup {0}, v6s \in {{TRUE}, {FALSE}, BOOLEAN} : local_removehost(n, v6s)

Spec == Init /\ [][Next]_vars

-----------------------------------------------------------------------------
TypeOK ==
    /\ \A i \in Table : LET e == dns.table[i]
                        IN  /\ e.state \in {"UNUSED", "ASKING", "DONE"} /\ e.ttl \in 0 .. MAX_TTL
                            /\ e.retries \in 0 .. MAX_RETRIES - 1 /\ e.tmr \in 0 .. MAX_RETRIES
                            /\ e.pcb \in 0 .. MAX_PORTS /\ e.server \in 1 .. MAX_SERVERS
    /\ dns.last \in 0 .. MAX_PORTS - 1 /\ dns.seqno \in 0 .. SEQ - 1

(* Whoever was told to wait has one request, for an entry that still asks  *)
(* for the name: no callback is forgotten, and none comes twice.           *)
NoneForgotten ==
    \A c \in Callers :
        LET mine == {r \in DOMAIN dns.requests : dns.requests[r].who = c}
        IN  IF dns.waiting[c] = Nothing THEN mine = {}
            ELSE /\ Cardinality(mine) = 1
                 /\ \A r \in mine : LET e == dns.table[dns.requests[r].idx]
                                    IN  /\ e.state = "ASKING" /\ e.name = dns.waiting[c].name
                                        /\ is_v6(e.type) \in Families(dns.waiting[c].type)

(* A caller gets an address of the name and of a family it asked for, with *)
(* whatever query an answer on its way belongs to.                         *)
RightAnswer ==
    \A a \in dns.told : a.addr # NULL => /\ a.addr.of = a.asked.name
                                         /\ a.addr.v6 \in Families(a.asked.type)

(* A query that waits has a port that is open and an identifier of its     *)
(* own, and ports are open only for queries that wait.                     *)
PortsSound ==
    /\ \A i \in Asking(dns) : /\ dns.table[i].pcb < MAX_PORTS /\ dns.pcbs[dns.table[i].pcb] # 0
                              /\ \A j \in Asking(dns) \ {i} : dns.table[j].txid # dns.table[i].txid
    /\ \A p \in DOMAIN dns.pcbs :
            dns.pcbs[p] # 0 => \E i \in Asking(dns) : dns.table[i].pcb = p
(* Whoever asks is told, if only that there is no answer.                  *)
Asks(c) == dns.waiting[c] # Nothing
EveryoneIsTold == \A c \in Callers : []<>~Asks(c)
=============================================================================
