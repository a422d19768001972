------------------------------- MODULE Routing -------------------------------
(***************************************************************************)
(* How a connection is routed: the singleton rule tables of stack/rule.go  *)
(* and stack/bypass.go, filled by SetupStack while connections are already *)
(* being handled, the host names WriteToStack finds in packets, and the    *)
(* decision of stackV1.Handle, which reads the tables one after the other. *)
(*                                                                         *)
(* An address is a number of AddrBits bits; a line of a list is a network  *)
(* number and a prefix length.  A host name is a model value, a rule set   *)
(* the set of names its expressions match.                                 *)
(***************************************************************************)
EXTENDS Integers, Sequences, FiniteSets, Functions

CONSTANTS AddrBits,     \* width of an address
          InnerLists,   \* the lists LoadInnerIps may return
          MustLists,    \* the lists LoadMustHitIps may return
          Rules,        \* the rule sets LoadRule may return
          Hosts,        \* host names a packet may carry
          Ports,        \* source ports of the clients
          MaxConns,     \* connections the clients open
          MaxSetups     \* calls of SetupStack

SizesAssumption == AddrBits \in Nat /\ MaxConns \in Nat /\ MaxSetups \in Nat

Addrs == 0 .. (2 ^ AddrBits - 1)
NoHost == "none"
Lines == [ip : Addrs, len : 0 .. AddrBits]

(* A list is a sequence of lines; the rules match names packets carry.     *)
ListsAssumption ==
    /\ InnerLists \subseteq Seq(Lines) /\ MustLists \subseteq Seq(Lines)
    /\ Rules \subseteq SUBSET Hosts /\ NoHost \notin Hosts
Conns == 1 .. MaxConns

VARIABLES
    innerIpMasks, mustHitMasks, \* IpRules: network number -> prefix length
    global,                     \* IpRules.global
    matcher,                    \* Rule.matcher
    ipToDomain,                 \* Rule.ipToDomain
    counter,                    \* stackV1.counter
    lists,                      \* the texts loaded last: [inner, must]
    setup,                      \* SetupStack: [pc, left, n]
    conns,                      \* the clients' connections, in the order opened
    dead                        \* the runtime stopped the program

tables == <<innerIpMasks, mustHitMasks, global>>
vars == <<innerIpMasks, mustHitMasks, global, matcher, ipToDomain, counter,
          lists, setup, conns, dead>>

(* A connection: who opened it, how many packets it sent, and how far      *)
(* Handle is with it.  calm is TRUE while no table changed since Handle    *)
(* began; first, when no earlier connection used its port.                 *)
NewConn(p, a, h) ==
    [port |-> p, ip |-> a, host |-> h, sent |-> 0, pc |-> "syn",
     name |-> NoHost, calm |-> TRUE, known |-> FALSE,
     first |-> \A c \in DOMAIN conns : conns[c].port # p, seen |-> {}]

Mask(a, len) == a - (a % (2 ^ (AddrBits - len)))

(* As in stack/bypass2.txt and stack/must_hit.txt: a line is written with  *)
(* the address of its network, and no address is given two lengths.        *)
CanonicalLists ==
    \A l \in InnerLists \cup MustLists : \A i, j \in DOMAIN l :
        /\ Mask(l[i].ip, l[i].len) = l[i].ip
        /\ l[i].ip = l[j].ip => l[i].len = l[j].len

Init ==
    /\ innerIpMasks = <<>> /\ mustHitMasks = <<>> /\ global = FALSE
    /\ matcher = {} /\ ipToDomain = <<>>
    /\ counter = [p \in Ports |-> 0]
    /\ lists = [inner |-> <<>>, must |-> <<>>]
    /\ setup = [pc |-> "idle", left |-> <<>>, n |-> 0]
    /\ conns = <<>>
    /\ dead = FALSE

Disturb == [c \in DOMAIN conns |-> [conns[c] EXCEPT !.calm = FALSE]]
-----------------------------------------------------------------------------
(* SetupStack: the TCP handler is registered first, the rules, the inner   *)
(* list and the must-hit list are loaded after it.  The loaders take no    *)
(* lock: a table is emptied, and its lines are stored one by one.          *)
SetupBegin ==
    /\ setup.pc = "idle" /\ setup.n < MaxSetups /\ ~dead
    /\ setup' = [pc |-> "rules", left |-> <<>>, n |-> setup.n + 1]
    /\ UNCHANGED <<tables, matcher, ipToDomain, counter, lists, conns, dead>>

Setup ==
    /\ setup.pc = "rules" /\ ~dead
    /\ matcher' \in Rules
    /\ setup' = [setup EXCEPT !.pc = "inners"]
    /\ UNCHANGED <<tables, ipToDomain, counter, lists, conns, dead>>

LoadInners ==
    /\ setup.pc = "inners" /\ ~dead
    /\ \E l \in InnerLists :
          /\ setup' = [setup EXCEPT !.pc = "inner", !.left = l]
          /\ lists' = [lists EXCEPT !.inner = l]
    /\ innerIpMasks' = <<>>
    /\ conns' = Disturb
    /\ UNCHANGED <<mustHitMasks, global, matcher, ipToDomain, counter, dead>>

(* ParseCIDR gives the address as written and the mask; the address is the *)
(* key, so a later line with the same address replaces an earlier one.     *)
Store(masks, line) ==
    [a \in DOMAIN masks \cup {line.ip} |->
        IF a = line.ip THEN line.len ELSE masks[a]]

LoadInnerLine ==
    /\ setup.pc = "inner" /\ setup.left # <<>> /\ ~dead
    /\ innerIpMasks' = Store(innerIpMasks, Head(setup.left))
    /\ setup' = [setup EXCEPT !.left = Tail(@)]
    /\ conns' = Disturb
    /\ UNCHANGED <<mustHitMasks, global, matcher, ipToDomain, counter, lists, dead>>

LoadMustHits ==
    /\ setup.pc = "inner" /\ setup.left = <<>> /\ ~dead
    /\ \E l \in MustLists :
          /\ setup' = [setup EXCEPT !.pc = "must", !.left = l]
          /\ lists' = [lists EXCEPT !.must = l]
    /\ mustHitMasks' = <<>>
    /\ conns' = Disturb
    /\ UNCHANGED <<innerIpMasks, global, matcher, ipToDomain, counter, dead>>

LoadMustHitLine ==
    /\ setup.pc = "must" /\ setup.left # <<>> /\ ~dead
    /\ mustHitMasks' = Store(mustHitMasks, Head(setup.left))
    /\ setup' = [setup EXCEPT !.left = Tail(@)]
    /\ conns' = Disturb
    /\ UNCHANGED <<innerIpMasks, global, matcher, ipToDomain, counter, lists, dead>>

SetupEnd ==
    /\ setup.pc = "must" /\ setup.left = <<>> /\ ~dead
    /\ setup' = [setup EXCEPT !.pc = "idle"]
    /\ UNCHANGED <<tables, matcher, ipToDomain, counter, lists, conns, dead>>

SetGlobal(g) ==
    /\ ~dead /\ g # global
    /\ global' = g
    /\ conns' = Disturb
    /\ UNCHANGED <<innerIpMasks, mustHitMasks, matcher, ipToDomain, counter,
                   lists, setup, dead>>
-----------------------------------------------------------------------------
(* DirectIPAndHost: the first matched name of an address is kept.          *)
DirectIPAndHost(host, ip) ==
    IF ip \in DOMAIN ipToDomain \/ host \notin matcher THEN ipToDomain
    ELSE [a \in DOMAIN ipToDomain \cup {ip} |->
             IF a = ip THEN host ELSE ipToDomain[a]]

(* Fault: only the fourth packet is inspected.                             *)
InspectedFourthOnly(n) == n = 4

(* Only the third and the fourth packet counted for a port are inspected.  *)
Inspected(n) == n \in {3, 4}

(* A client opens a connection; its packets go through WriteToStack.  The  *)
(* first is the SYN, the second completes the handshake and makes lwIP     *)
(* call the handler in a goroutine of its own, the third carries the host. *)
Open(p, a, h) ==
    /\ ~dead /\ setup.n > 0 /\ Len(conns) < MaxConns
    /\ \A c \in DOMAIN conns : conns[c].port = p => conns[c].sent >= 3
    /\ conns' = Append(conns, NewConn(p, a, h))
    /\ UNCHANGED <<tables, matcher, ipToDomain, counter, lists, setup, dead>>

WriteToStack(c) ==
    LET k == conns[c]
        n == counter[k.port] + 1
        payload == k.sent >= 2 /\ k.host # NoHost
    IN  /\ ~dead /\ k.sent < 4
        /\ counter' = [counter EXCEPT ![k.port] = n]
        /\ ipToDomain' = IF Inspected(n) /\ payload
                         THEN DirectIPAndHost(k.host, k.ip) ELSE ipToDomain
        /\ conns' = [conns EXCEPT
              ![c].sent = @ + 1,
              ![c].pc = IF k.sent = 1 /\ @ = "syn" THEN "accepted" ELSE @,
              ![c].seen = IF k.sent = 2 /\ payload THEN matcher ELSE @]
        /\ UNCHANGED <<tables, matcher, lists, setup, dead>>
-----------------------------------------------------------------------------
(* Handle: NeedProxy, IsMustHits and, when neither decided, IsInnerIP.     *)
NeedProxy(c) ==
    /\ ~dead /\ conns[c].pc = "accepted"
    /\ conns' = [conns EXCEPT ![c].pc = "must",
          ![c].name = IF conns[c].ip \in DOMAIN ipToDomain
                      THEN ipToDomain[conns[c].ip] ELSE NoHost,
          ![c].known = conns[c].ip \in DOMAIN ipToDomain,
          ![c].calm = setup.pc \in {"idle", "rules", "inners"}]
    /\ UNCHANGED <<tables, matcher, ipToDomain, counter, lists, setup, dead>>

(* The loop over the map: the address under an entry's mask is its key.    *)
Hit(masks, ip) == \E a \in DOMAIN masks : Mask(ip, masks[a]) = a

MustHit(ip) ==
    /\ DOMAIN mustHitMasks # {}
    /\ global \/ Hit(mustHitMasks, ip)

InnerIP(ip) ==
    \/ DOMAIN innerIpMasks = {}
    \/ ~global /\ Hit(innerIpMasks, ip)

IsMustHits(c) ==
    /\ ~dead /\ conns[c].pc = "must"
    /\ conns' = [conns EXCEPT
          ![c].pc = IF conns[c].name # NoHost THEN "byName"
                    ELSE IF MustHit(conns[c].ip) THEN "proxied" ELSE "inner"]
    /\ UNCHANGED <<tables, matcher, ipToDomain, counter, lists, setup, dead>>

IsInnerIP(c) ==
    /\ ~dead /\ conns[c].pc = "inner"
    /\ conns' = [conns EXCEPT
          ![c].pc = IF InnerIP(conns[c].ip) THEN "direct" ELSE "proxied"]
    /\ UNCHANGED <<tables, matcher, ipToDomain, counter, lists, setup, dead>>

(* A map is read while a loader writes it: the runtime may notice and stop *)
(* the program ("concurrent map iteration and map write").                 *)
ConcurrentMapAccess(c) ==
    /\ ~dead
    /\ \/ conns[c].pc = "must" /\ setup.pc = "must"
       \/ conns[c].pc = "inner" /\ setup.pc = "inner"
    /\ dead' = TRUE
    /\ UNCHANGED <<tables, matcher, ipToDomain, counter, lists, setup, conns>>
-----------------------------------------------------------------------------
Handle(c) == NeedProxy(c) \/ IsMustHits(c) \/ IsInnerIP(c)

Next ==
    \/ SetupBegin \/ Setup \/ LoadInners \/ LoadInnerLine
    \/ LoadMustHits \/ LoadMustHitLine \/ SetupEnd
    \/ \E g \in BOOLEAN : SetGlobal(g)
    \/ \E p \in Ports, a \in Addrs, h \in Hosts \cup {NoHost} : Open(p, a, h)
    \/ \E c \in DOMAIN conns :
          WriteToStack(c) \/ Handle(c) \/ ConcurrentMapAccess(c)

Spec == Init /\ [][Next]_vars
-----------------------------------------------------------------------------
TypeOK ==
    /\ \A t \in {innerIpMasks, mustHitMasks} :
          DOMAIN t \subseteq Addrs /\ Range(t) \subseteq 0 .. AddrBits
    /\ global \in BOOLEAN /\ dead \in BOOLEAN
    /\ matcher \subseteq Hosts
    /\ DOMAIN ipToDomain \subseteq Addrs /\ Range(ipToDomain) \subseteq Hosts
    /\ counter \in [Ports -> Nat]
    /\ lists.inner \in InnerLists \cup {<<>>}
    /\ lists.must \in MustLists \cup {<<>>}
    /\ setup.pc \in {"idle", "rules", "inners", "inner", "must"}
    /\ \A c \in DOMAIN conns :
          /\ conns[c].port \in Ports /\ conns[c].ip \in Addrs
          /\ conns[c].name \in Hosts \cup {NoHost}
          /\ conns[c].pc \in {"syn", "accepted", "must", "inner", "byName",
                              "proxied", "direct"}

(* What the lists describe: an address is listed when some line's network  *)
(* contains it.                                                            *)
Listed(l, ip) == \E i \in DOMAIN l : Mask(ip, l[i].len) = Mask(l[i].ip, l[i].len)

MeantDirect(ip) ==
    /\ IF global THEN lists.must = <<>> ELSE ~Listed(lists.must, ip)
    /\ \/ lists.inner = <<>>
       \/ ~global /\ Listed(lists.inner, ip)

(* A connection handled while no list was being loaded goes where the      *)
(* lists of the device say: by name when its address is cached, else       *)
(* directly exactly when the lists make it an inner address.  Handle reads *)
(* three tables at three moments; the answer is still that of one moment.  *)
DecisionMatchesLists ==
    \A c \in DOMAIN conns :
        LET k == conns[c] IN
        k.calm /\ setup.pc = "idle" =>
            /\ k.pc = "byName" => k.known
            /\ k.pc \in {"proxied", "direct"} =>
                  ~k.known /\ (k.pc = "direct" <=> MeantDirect(k.ip))

(* A name the proxy is asked to reach was carried by a packet to the very  *)
(* address, sent before, and matched by the rules of that time.            *)
NamesWereSeen ==
    \A c \in DOMAIN conns :
        conns[c].name # NoHost =>
            \E b \in DOMAIN conns :
                /\ conns[b].ip = conns[c].ip /\ conns[b].sent >= 3
                /\ conns[b].host = conns[c].name
                /\ \E r \in Rules : conns[c].name \in r

(* The packet that carries the host of a port's first connection is one of *)
(* those inspected: once it is passed on, an address whose host the rules  *)
(* matched is cached.                                                      *)
FirstIsInspected ==
    \A c \in DOMAIN conns :
        /\ conns[c].first /\ conns[c].sent >= 3
        /\ conns[c].host \in conns[c].seen
        => conns[c].ip \in DOMAIN ipToDomain
==============================================================================
