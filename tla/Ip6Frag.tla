------------------------------- MODULE Ip6Frag -------------------------------
(***************************************************************************)
(* Fragments of IPv6 datagrams (ip6_frag.c): ip6_frag, ip6_reass and its   *)
(* timer.  The rules differ from IPv4's: the datagram is queued before the *)
(* limit is checked, the room is made by another loop, the fragment header *)
(* is cut out of the datagram, and holes are looked for piecewise.         *)
(*                                                                         *)
(* Lengths are small; Unit is 8 in the code.  Fragments are those honest   *)
(* senders send, in any order, any number of times; each carries Ext bytes *)
(* of extension headers in front of its fragment header.                   *)
(***************************************************************************)
EXTENDS Integers, Sequences, FiniteSetsExt, SequencesExt

CONSTANTS
    Ids,            \* source, destination and identification of a datagram
    Layout,         \* [Ids -> Seq(Nat)]: the pbufs of the datagram at its sender
    Unit,
    IP6_HLEN,
    IP6_FRAG_HLEN,
    Ext,
    Mtus,           \* what nd6_get_destination_mtu returns
    U16,            \* 2^16
    MAXAGE,         \* IPV6_REASS_MAXAGE
    MAX_PBUFS,      \* IP_REASS_MAX_PBUFS
    NUM_REASSDATA,  \* datagrams there is memory for
    BUFSIZE         \* payload of a pbuf of the pool

(* A fragment never needs more buffers than may wait at all: 10 buffers of *)
(* a size no packet of the program's interface exceeds.                    *)
Frag6Assumption ==
    /\ {Unit, IP6_HLEN, IP6_FRAG_HLEN, U16, MAXAGE, MAX_PBUFS, NUM_REASSDATA, BUFSIZE}
         \subseteq Nat \ {0}
    /\ \A m \in Mtus : /\ m >= IP6_HLEN + IP6_FRAG_HLEN + Unit
                       /\ (m + BUFSIZE - 1) \div BUFSIZE <= MAX_PBUFS
    /\ \A d \in Ids : Layout[d][1] >= IP6_HLEN

VARIABLES
    reassdatagrams,      \* Seq([id, timer, frags, datagram_len, iphdr])
    ip6_reass_pbufcount,
    out                  \* history: what the last step did

vars == <<reassdatagrams, ip6_reass_pbufcount, out>>

(* The outcome of an arrival that completes no datagram.                   *)
Nothing(f) == [what |-> "none", id |-> f.id, f |-> f]

Total(d) == FoldSeq(+, 0, Layout[d]) - IP6_HLEN

-----------------------------------------------------------------------------
(* ip6_frag.                                                               *)

(* The pieces of one fragment, from the place (pbuf i, poff bytes of it    *)
(* used) on; the code moves the pbuf's payload instead.                    *)
RECURSIVE Pieces(_, _, _)
Pieces(pbufs, at, left_to_copy) ==
    LET len == pbufs[at.i] - at.poff
        newpbuflen == Min({left_to_copy, len})
    IN  IF newpbuflen = left_to_copy THEN [at EXCEPT !.poff = @ + newpbuflen]
        ELSE Pieces(pbufs, [i |-> at.i + 1, poff |-> 0], left_to_copy - newpbuflen)

Before(pbufs, at) == FoldSeq(+, 0, SubSeq(pbufs, 1, at.i - 1)) + at.poff - IP6_HLEN

(* A fragment covers the bytes from s to e of the payload.                 *)
RECURSIVE FragLoop(_, _, _, _, _)
FragLoop(d, mtu, at, left, fragment_offset) ==
    LET nfb == ((mtu - (IP6_HLEN + IP6_FRAG_HLEN)) \div Unit) * Unit
        last == left <= nfb
        cop == IF last THEN left ELSE nfb
        end == Pieces(Layout[d], at, cop)
    IN  IF left = 0 THEN <<>>
        ELSE <<[id |-> d, off |-> fragment_offset, len |-> cop, mf |-> ~last,
                s |-> Before(Layout[d], at), e |-> Before(Layout[d], end)]>>
             \o FragLoop(d, mtu, end, left - cop, fragment_offset + cop)

ip6_frag(d, mtu) == FragLoop(d, mtu, [i |-> 1, poff |-> IP6_HLEN], Total(d), 0)

(* ip6_input passes a fragment that is a whole datagram on by itself.      *)
Arriving == {f \in UNION {ToSet(ip6_frag(d, m)) : d \in Ids, m \in Mtus} :
                f.mf \/ f.off > 0}

-----------------------------------------------------------------------------
(* ip6_reass.                                                              *)

clen(f) == (f.len + IP6_HLEN + Ext + IP6_FRAG_HLEN + BUFSIZE - 1) \div BUFSIZE

Pbufs(ipr) == FoldSeq(LAMBDA f, n : n + clen(f), 0, ipr.frags)

State == [q |-> reassdatagrams, n |-> ip6_reass_pbufcount]

Index(q, id) == CHOOSE i \in DOMAIN q : q[i].id = id
Has(q, id) == \E i \in DOMAIN q : q[i].id = id

ip6_reass_free_complete(st, i) ==
    [q |-> RemoveAt(st.q, i), n |-> st.n - Pbufs(st.q[i])]

(* The inner loop of ip6_reass_remove_oldest_datagram: the last of the     *)
(* datagrams with the least time left, the search beginning with the first *)
(* of the list, even if it is the fragment's own.                          *)
Oldest(q, id) ==
    FoldLeft(LAMBDA o, i : IF q[i].id # id /\ q[i].timer <= q[o].timer THEN i ELSE o,
             1, [i \in DOMAIN q |-> i])

(* At least one goes, then more until the fragment fits.  id is that of    *)
(* the fragment's datagram, or "NULL".                                     *)
RECURSIVE ip6_reass_remove_oldest(_, _, _)
ip6_reass_remove_oldest(st, id, needed) ==
    LET o == Oldest(st.q, id)
        st2 == ip6_reass_free_complete(st, o)
    IN  IF st.q = <<>> \/ st.q[o].id = id THEN st
        ELSE IF st2.n + needed > MAX_PBUFS /\ st2.q # <<>>
        THEN ip6_reass_remove_oldest(st2, id, needed)
        ELSE st2

New(f) == [id |-> f.id, timer |-> MAXAGE, frags |-> <<>>, datagram_len |-> 0, iphdr |-> FALSE]

(* The fragment's datagram, found or made.                                 *)
Enqueue(st, f) ==
    LET st2 == IF Len(st.q) < NUM_REASSDATA THEN st
               ELSE ip6_reass_remove_oldest(st, "NULL", clen(f))
    IN  IF Has(st.q, f.id) THEN st ELSE [st2 EXCEPT !.q = <<New(f)>> \o @]

Overlaps(f, g) == f.off = g.off \/ (f.off < g.off + g.len /\ g.off < f.off + f.len)

(* The three validity tests, with the new fragment at place at: no gap     *)
(* among those in front of it, nor before it if it comes last; the first   *)
(* and the last have been received; no gap behind it.                      *)
Valid(frags, at, datagram_len) ==
    LET Joined(i) == frags[i - 1].off + frags[i - 1].len = frags[i].off
    IN  /\ \A i \in 2 .. at - 1 : Joined(i)
        /\ at = Len(frags) /\ at > 1 => Joined(at)
        /\ frags[1].off = 0 /\ datagram_len # 0
        /\ \A i \in at + 1 .. Len(frags) : Joined(i)

(* The payload length of the datagram's header: what follows the IPv6      *)
(* header, computed from the place of the fragment header in the packet,   *)
(* after the headers in front of it have been moved onto it.               *)
plen(datagram_len) ==
    LET iphdr == 0
        payload == iphdr + IP6_HLEN + Ext
        iphdr_ptr == iphdr + IP6_FRAG_HLEN
    IN  (datagram_len + (payload - iphdr_ptr) - IP6_HLEN) % U16

(* The fragment joins its datagram, the k-th, at its place, if it overlaps *)
(* none; the datagram may then be complete.                                *)
Chained(st, f, k, at) ==
    LET new == [st.q[k] EXCEPT !.frags = InsertAt(@, at, f), !.iphdr = @ \/ f.off = 0,
                               !.datagram_len = IF f.mf THEN @ ELSE f.off + f.len]
    IN  IF Valid(new.frags, at, new.datagram_len)
        THEN [q |-> RemoveAt(st.q, k), n |-> st.n + clen(f) - Pbufs(new),
              out |-> [what |-> "datagram", id |-> f.id, frags |-> new.frags, at |-> at,
                       iphdr |-> new.iphdr, plen |-> plen(new.datagram_len)]]
        ELSE [q |-> [st.q EXCEPT ![k] = new], n |-> st.n + clen(f), out |-> Nothing(f)]

Queued(st, f, k) ==
    LET frags == st.q[k].frags
    IN  IF \E i \in DOMAIN frags : Overlaps(f, frags[i]) THEN st @@ [out |-> Nothing(f)]
        ELSE Chained(st, f, k, 1 + Cardinality({i \in DOMAIN frags : frags[i].off < f.off}))

(* Fault: no other datagram makes room.                                    *)
RoomNone(st, f) == st

Room(st, f) == IF st.n + clen(f) > MAX_PBUFS
               THEN ip6_reass_remove_oldest(st, f.id, clen(f)) ELSE st

Taken(st, f) == IF st.n + clen(f) > MAX_PBUFS THEN st @@ [out |-> Nothing(f)]
                ELSE Queued(st, f, Index(st.q, f.id))

ip6_reass(f) ==
    IF f.off > U16 - 1 - f.len THEN State @@ [out |-> Nothing(f)]
    ELSE Taken(Room(Enqueue(State, f), f), f)

-----------------------------------------------------------------------------

Init == /\ reassdatagrams = <<>> /\ ip6_reass_pbufcount = 0
        /\ out = [what |-> "tmr", icmp |-> {}]

Arrives(f) ==
    LET r == ip6_reass(f)
    IN  reassdatagrams' = r.q /\ ip6_reass_pbufcount' = r.n /\ out' = r.out

(* Once a second; the ICMP message goes out when the beginning is there.   *)
ip6_reass_tmr ==
    LET old == {i \in DOMAIN reassdatagrams : reassdatagrams[i].timer = 0}
        kept == SelectSeq(reassdatagrams, LAMBDA r : r.timer > 0)
    IN  /\ reassdatagrams' = [i \in DOMAIN kept |-> [kept[i] EXCEPT !.timer = @ - 1]]
        /\ ip6_reass_pbufcount' = ip6_reass_pbufcount
             - FoldSet(LAMBDA i, n : n + Pbufs(reassdatagrams[i]), 0, old)
        /\ out' = [what |-> "tmr", icmp |-> {reassdatagrams[i].id : i \in
                      {j \in old : reassdatagrams[j].frags[1].off = 0}}]

Next == \/ \E f \in Arriving : Arrives(f)
        \/ ip6_reass_tmr

Spec == Init /\ [][Next]_vars

(* The timer runs for ever (module Timeouts).                              *)
FairSpec == Spec /\ WF_vars(ip6_reass_tmr)

-----------------------------------------------------------------------------
TypeOK ==
    /\ \A i \in DOMAIN reassdatagrams :
          LET r == reassdatagrams[i]
          IN  /\ r.id \in Ids /\ r.timer \in 0 .. MAXAGE
              /\ ToSet(r.frags) \subseteq Arriving /\ r.datagram_len \in 0 .. U16 - 1
    /\ ip6_reass_pbufcount \in 0 .. MAX_PBUFS /\ out.what \in {"none", "datagram", "tmr"}

(* The payload bytes of a completed datagram, in the order of its pbufs.   *)
Bytes == FlattenSeq([i \in DOMAIN out.frags |->
            [k \in 1 .. out.frags[i].e - out.frags[i].s |-> out.frags[i].s + k]])

(* All fragments have been received, as the comment has it, when a         *)
(* datagram is handed on: the bytes are those that were sent.              *)
DeliveredWhole == out.what = "datagram" => Bytes = [k \in 1 .. Total(out.id) |-> k]

(* That much is true: a datagram completed by its first fragment or by its *)
(* last is whole, and otherwise at most the bytes in front of the fragment *)
(* that completed it are missing; its header is the first fragment's.      *)
HoleOnlyInFront ==
    out.what = "datagram" =>
       /\ out.iphdr /\ Bytes[1] = 1 /\ Last(Bytes) = Total(out.id)
       /\ \A k \in 1 .. Len(Bytes) - 1 :
             Bytes[k + 1] = Bytes[k] + 1
             \/ (1 < out.at /\ out.at < Len(out.frags) /\ Bytes[k] = out.frags[out.at - 1].e)

(* The payload length in the header is the length of what follows it.      *)
HeaderLength ==
    out.what = "datagram" => out.plen = Ext + out.frags[Len(out.frags)].off
                                          + out.frags[Len(out.frags)].len

(* The count is exact, no datagram is queued twice, and none is left empty *)
(* in the queue, where the timer would dereference its missing pbuf.       *)
CountExact ==
    /\ ip6_reass_pbufcount = FoldSeq(LAMBDA r, n : n + Pbufs(r), 0, reassdatagrams)
    /\ Len(reassdatagrams) <= NUM_REASSDATA
    /\ \A i, j \in DOMAIN reassdatagrams :
          reassdatagrams[i].id = reassdatagrams[j].id => i = j
    /\ \A i \in DOMAIN reassdatagrams : reassdatagrams[i].frags # <<>>

(* A fragment that overlaps nothing queued is never thrown away because of *)
(* the limits unless its own datagram fills them: others make room.  (The  *)
(* search for the oldest starts with the first of the list; it would find  *)
(* nothing if that were the fragment's own and the oldest of all.)         *)
NewcomerFitsStep ==
    out'.what = "none" =>
      LET q == reassdatagrams'  f == out'.f
          own == IF Has(reassdatagrams, f.id)
                 THEN reassdatagrams[Index(reassdatagrams, f.id)] ELSE New(f)
      IN  \/ Has(q, f.id) /\ f \in ToSet(q[Index(q, f.id)].frags)
          \/ \E i \in DOMAIN own.frags : Overlaps(f, own.frags[i])
          \/ Pbufs(own) + clen(f) > MAX_PBUFS

NewcomerFits == [][NewcomerFitsStep]_vars

(* What makes room is the oldest of the others.                            *)
OldestGoesStep ==
    \A i, j \in DOMAIN reassdatagrams :
      LET r == reassdatagrams[i]  o == reassdatagrams[j]
      IN  out'.what = "none" /\ ~Has(reassdatagrams', r.id)
          => r.id # out'.id /\ ( \/ ~Has(reassdatagrams', o.id)
                                 \/ o.id = out'.id \/ r.timer <= o.timer )

OldestGoes == [][OldestGoesStep]_vars

(* No datagram waits for ever, even if its fragments keep coming.          *)
Waits(d) == \E i \in DOMAIN reassdatagrams : reassdatagrams[i].id = d
ReassemblyEnds == \A d \in Ids : []<>~Waits(d)
=============================================================================
