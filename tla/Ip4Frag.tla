------------------------------- MODULE Ip4Frag -------------------------------
(***************************************************************************)
(* Fragments of IPv4 datagrams (ip4_frag.c): how ip4_frag cuts a datagram, *)
(* what arrives of it, in any order, more than once or not at all, and how *)
(* ip4_reass puts it together under its limits.                            *)
(*                                                                         *)
(* Lengths are small; offsets count units of Unit bytes (8 in the code).   *)
(* The datagrams are what honest senders send: one identification is not   *)
(* used for two datagrams at a time.                                       *)
(***************************************************************************)
EXTENDS Integers, Sequences, FiniteSetsExt, SequencesExt

CONSTANTS
    Ids,            \* source, destination and identification of a datagram
    Layout,         \* [Ids -> Seq(Nat)]: the pbufs of the datagram at its sender
    Unit,
    IP_HLEN,
    Mtus,           \* of the routes datagrams take
    U16,            \* 2^16
    MAXAGE,         \* IP_REASS_MAXAGE
    MAX_PBUFS,      \* IP_REASS_MAX_PBUFS
    NUM_REASSDATA,  \* datagrams there is memory for
    BUFSIZE         \* payload of a pbuf of the pool

FragAssumption ==
    /\ {Unit, IP_HLEN, U16, MAXAGE, MAX_PBUFS, NUM_REASSDATA, BUFSIZE} \subseteq Nat \ {0}
    /\ \A m \in Mtus : m >= IP_HLEN + Unit
    /\ \A d \in Ids : Layout[d][1] >= IP_HLEN

VARIABLES
    reassdatagrams,     \* Seq([id, timer, frags, lastfrag, datagram_len, first])
    ip_reass_pbufcount,
    out                 \* history: what the last step did

vars == <<reassdatagrams, ip_reass_pbufcount, out>>

(* The outcome of an arrival that completes no datagram.                   *)
Nothing(f) == [what |-> "none", id |-> f.id]

Total(d) == FoldSeq(+, 0, Layout[d]) - IP_HLEN      \* bytes of payload

-----------------------------------------------------------------------------
(* ip4_frag.                                                               *)

(* The inner loop: the bytes of one fragment, gathered from the pbufs of   *)
(* the datagram from offset poff of pbuf i on.                             *)
RECURSIVE Gather(_, _, _, _)
Gather(pbufs, i, poff, left_to_copy) ==
    LET newpbuflen == Min({left_to_copy, pbufs[i] - poff})
    IN  IF newpbuflen = 0 THEN Gather(pbufs, i + 1, 0, left_to_copy)
        ELSE IF newpbuflen = left_to_copy THEN [i |-> i, poff |-> poff + newpbuflen]
        ELSE Gather(pbufs, i + 1, 0, left_to_copy - newpbuflen)

(* The bytes of the payload before a place in the chain.                   *)
Before(pbufs, at) == FoldSeq(+, 0, SubSeq(pbufs, 1, at.i - 1)) + at.poff - IP_HLEN

(* The outer loop.  A fragment says where it begins (off), and covers the  *)
(* bytes from s to e of the payload.                                       *)
RECURSIVE FragLoop(_, _, _, _, _)
FragLoop(d, mtu, at, left, ofo) ==
    LET nfb == (mtu - IP_HLEN) \div Unit
        fragsize == Min({left, nfb * Unit})
        end == Gather(Layout[d], at.i, at.poff, fragsize)
        last == left <= mtu - IP_HLEN
    IN  IF left = 0 THEN <<>>
        ELSE <<[id |-> d, off |-> ofo * Unit, len |-> fragsize, mf |-> ~last,
                s |-> Before(Layout[d], at), e |-> Before(Layout[d], end)]>>
             \o FragLoop(d, mtu, end, left - fragsize, ofo + nfb)

ip4_frag(d, mtu) == FragLoop(d, mtu, [i |-> 1, poff |-> IP_HLEN], Total(d), 0)

(* What can arrive: fragments by any route; ip4_frag stops when memory     *)
(* runs out, and the network loses, repeats and reorders.                  *)
Arriving == UNION {ToSet(ip4_frag(d, m)) : d \in Ids, m \in Mtus}

-----------------------------------------------------------------------------
(* ip4_reass.                                                              *)

(* pbuf_clen of a fragment copied into pool buffers.                       *)
clen(f) == (f.len + IP_HLEN + BUFSIZE - 1) \div BUFSIZE

State == [q |-> reassdatagrams, n |-> ip_reass_pbufcount]

Pbufs(ipr) == FoldSeq(LAMBDA f, n : n + clen(f), 0, ipr.frags)

ip_reass_dequeue_datagram(q, i) == RemoveAt(q, i)

(* ip_reass_free_complete_datagram.                                        *)
(* Fault: the count of buffers is not lowered.                             *)
ip_reass_free_completeKeeps(st, i) ==
    [q |-> ip_reass_dequeue_datagram(st.q, i), n |-> st.n]

ip_reass_free_complete(st, i) ==
    [q |-> ip_reass_dequeue_datagram(st.q, i), n |-> st.n - Pbufs(st.q[i])]

(* ip_reass_remove_oldest_datagram: others than the one the fragment       *)
(* belongs to, the oldest first, until enough buffers are free or one      *)
(* other is left.                                                          *)
Oldest(st, id) ==
    LET others == {i \in DOMAIN st.q : st.q[i].id # id}
        least == Min({st.q[i].timer : i \in others})
    IN  Max({i \in others : st.q[i].timer = least})

RECURSIVE ip_reass_remove_oldest(_, _, _, _)
ip_reass_remove_oldest(st, id, needed, freed) ==
    LET others == {i \in DOMAIN st.q : st.q[i].id # id}
        i == Oldest(st, id)
        n == freed + Pbufs(st.q[i])
        st2 == ip_reass_free_complete(st, i)
    IN  IF others = {} THEN [st |-> st, freed |-> freed]
        ELSE IF n < needed /\ Cardinality(others) > 1
        THEN ip_reass_remove_oldest(st2, id, needed, n)
        ELSE [st |-> st2, freed |-> n]

(* ip_reass_chain_frag_into_datagram_and_validate: the fragments in order  *)
(* of their offsets, or NULL when the new one overlaps another.            *)
Overlaps(f, g) == f.off = g.off \/ (f.off < g.off + g.len /\ g.off < f.off + f.len)

Chained(frags, f) ==
    LET at == 1 + Cardinality({i \in DOMAIN frags : frags[i].off < f.off})
    IN  [ok |-> /\ (f.off + f.len) % U16 >= f.off
                /\ \A i \in DOMAIN frags : ~Overlaps(f, frags[i]),
         frags |-> InsertAt(frags, at, f)]

(* No hole between the fragments and nothing missing in front.             *)
Finished(frags) ==
    /\ frags[1].off = 0
    /\ \A i \in 1 .. Len(frags) - 1 : frags[i].off + frags[i].len = frags[i + 1].off

New(f) == [id |-> f.id, timer |-> MAXAGE, frags |-> <<>>, lastfrag |-> FALSE,
           datagram_len |-> 0, first |-> f.off = 0]

(* The datagrams that remain, and how many buffers others gave up for f:   *)
(* enough when nobody had to.                                              *)
Room(st, f, tight) ==
    IF tight THEN ip_reass_remove_oldest(st, f.id, clen(f), 0)
    ELSE [st |-> st, freed |-> clen(f)]

Enlisted(room, f) ==
    IF room.freed < clen(f) \/ Len(room.st.q) >= NUM_REASSDATA THEN room.st
    ELSE [room.st EXCEPT !.q = <<New(f)>> \o @]

Joins(st, f) == \E i \in DOMAIN st.q : st.q[i].id = f.id

(* Fault: every fragment renews the time its datagram may take.            *)
EnqueueRenews(st, f) ==
    IF Joins(st, f)
    THEN [st EXCEPT !.q = [i \in DOMAIN st.q |-> IF st.q[i].id # f.id THEN st.q[i]
                              ELSE [st.q[i] EXCEPT !.first = @ \/ f.off = 0, !.timer = MAXAGE]]]
    ELSE Enlisted(Room(st, f, Len(st.q) >= NUM_REASSDATA), f)

(* The datagram of the fragment, found or made; a new one needs memory,    *)
(* for which another may have to go.                                       *)
Enqueue(st, f) ==
    IF Joins(st, f)
    THEN [st EXCEPT !.q = [i \in DOMAIN st.q |-> IF st.q[i].id # f.id THEN st.q[i]
                              ELSE [st.q[i] EXCEPT !.first = @ \/ f.off = 0]]]
    ELSE Enlisted(Room(st, f, Len(st.q) >= NUM_REASSDATA), f)

(* The fragment in its datagram, the k-th: the last hole that is filled    *)
(* completes it.                                                           *)
Filled(st, f, k, frags) ==
    LET new == [st.q[k] EXCEPT !.frags = frags, !.lastfrag = @ \/ ~f.mf,
                               !.datagram_len = IF f.mf THEN @ ELSE (f.off + f.len) % U16]
    IN  IF new.lastfrag /\ Finished(frags)
        THEN [q |-> ip_reass_dequeue_datagram(st.q, k), n |-> st.n + clen(f) - Pbufs(new),
              out |-> [what |-> "datagram", id |-> f.id, len |-> new.datagram_len,
                       frags |-> frags, first |-> new.first]]
        ELSE [q |-> [st.q EXCEPT ![k] = new], n |-> st.n + clen(f), out |-> Nothing(f)]

(* The rest of ip4_reass once the datagram is there: a fragment that is    *)
(* not taken leaves no empty datagram behind.                              *)
Queued(st, f, k) ==
    LET frags == st.q[k].frags
        c == Chained(frags, f)
    IN  IF ~c.ok \/ (~f.mf /\ f.off + f.len > U16 - 1 - IP_HLEN)
        THEN [q |-> IF frags = <<>> THEN ip_reass_dequeue_datagram(st.q, k) ELSE st.q,
              n |-> st.n, out |-> Nothing(f)]
        ELSE Filled(st, f, k, c.frags)

Enqueued(st, f) ==
    IF Joins(st, f) THEN Queued(st, f, CHOOSE i \in DOMAIN st.q : st.q[i].id = f.id)
    ELSE st @@ [out |-> Nothing(f)]

(* Too many buffers are waiting: the oldest datagrams go; if that is not   *)
(* enough, the fragment.                                                   *)
Taken(room, f) ==
    IF room.freed = 0 \/ room.st.n + clen(f) > MAX_PBUFS THEN room.st @@ [out |-> Nothing(f)]
    ELSE Enqueued(Enqueue(room.st, f), f)

ip4_reass(f) == Taken(Room(State, f, ip_reass_pbufcount + clen(f) > MAX_PBUFS), f)

-----------------------------------------------------------------------------

Init == /\ reassdatagrams = <<>> /\ ip_reass_pbufcount = 0
        /\ out = [what |-> "tmr", icmp |-> {}]

(* A packet that ip4_input accepted: ip4_reass is called for fragments     *)
(* only.                                                                   *)
Arrives(f) ==
    LET r == ip4_reass(f)
    IN  IF f.mf \/ f.off > 0
        THEN reassdatagrams' = r.q /\ ip_reass_pbufcount' = r.n /\ out' = r.out
        ELSE /\ out' = [what |-> "datagram", id |-> f.id, len |-> f.len,
                        frags |-> <<f>>, first |-> TRUE]
             /\ UNCHANGED <<reassdatagrams, ip_reass_pbufcount>>

(* Once a second.  A datagram whose time is over is freed, with an ICMP    *)
(* message to the sender when its beginning has arrived.                   *)
ip_reass_tmr ==
    LET old == {i \in DOMAIN reassdatagrams : reassdatagrams[i].timer = 0}
        kept == SelectSeq(reassdatagrams, LAMBDA r : r.timer > 0)
    IN  /\ reassdatagrams' = [i \in DOMAIN kept |-> [kept[i] EXCEPT !.timer = @ - 1]]
        /\ ip_reass_pbufcount' = ip_reass_pbufcount
             - FoldSet(LAMBDA i, n : n + Pbufs(reassdatagrams[i]), 0, old)
        /\ out' = [what |-> "tmr", icmp |-> {reassdatagrams[i].id : i \in
                      {j \in old : reassdatagrams[j].frags[1].off = 0}}]

Next == \/ \E f \in Arriving : Arrives(f)
        \/ ip_reass_tmr

Spec == Init /\ [][Next]_vars

(* The timer runs for ever (module Timeouts).                              *)
FairSpec == Spec /\ WF_vars(ip_reass_tmr)

-----------------------------------------------------------------------------
TypeOK ==
    /\ \A i \in DOMAIN reassdatagrams :
          LET r == reassdatagrams[i]
          IN  /\ r.id \in Ids /\ r.timer \in 0 .. MAXAGE /\ ToSet(r.frags) \subseteq Arriving
              /\ r.lastfrag \in BOOLEAN /\ r.datagram_len \in 0 .. U16 - 1
    /\ ip_reass_pbufcount \in 0 .. MAX_PBUFS /\ out.what \in {"none", "datagram", "tmr"}

(* A datagram that is handed on is the one that was sent: all of its bytes,*)
(* each once and in order, and the length its header then claims; its      *)
(* header is that of the first fragment.                                   *)
DeliveredWhole ==
    out.what = "datagram" =>
       /\ out.len = Total(out.id) /\ out.first
       /\ FlattenSeq([i \in DOMAIN out.frags |->
             [k \in 1 .. out.frags[i].e - out.frags[i].s |-> out.frags[i].s + k]])
          = [k \in 1 .. Total(out.id) |-> k]

(* ip_reass_pbufcount is the number of buffers in the queues, whatever was *)
(* dropped, evicted, timed out or completed; the code's assertions only    *)
(* bound it from below.  It never exceeds the limit, no datagram is queued *)
(* twice, and none is empty.                                               *)
CountExact ==
    /\ ip_reass_pbufcount = FoldSeq(LAMBDA r, n : n + Pbufs(r), 0, reassdatagrams)
    /\ Len(reassdatagrams) <= NUM_REASSDATA
    /\ \A i, j \in DOMAIN reassdatagrams :
          reassdatagrams[i].id = reassdatagrams[j].id => i = j
    /\ \A i \in DOMAIN reassdatagrams : reassdatagrams[i].frags # <<>>

(* Fragments queued for one datagram never overlap.                        *)
NoOverlap ==
    \A i \in DOMAIN reassdatagrams :
       LET fs == reassdatagrams[i].frags
       IN  \A a, b \in DOMAIN fs : a < b => fs[a].off + fs[a].len <= fs[b].off

(* When a datagram has to make room for a fragment of another one, none of *)
(* the others that stay is older, and its own datagram never goes for it.  *)
OldestGoesStep ==
    \A i, j \in DOMAIN reassdatagrams :
      LET r == reassdatagrams[i]  o == reassdatagrams[j]
          Gone(x) == x.id \notin {reassdatagrams'[k].id : k \in DOMAIN reassdatagrams'}
      IN  out'.what = "none" /\ Gone(r)
          => r.id # out'.id /\ (Gone(o) \/ o.id = out'.id \/ r.timer <= o.timer)

OldestGoes == [][OldestGoesStep]_vars

(* No datagram waits for ever, even if its fragments keep coming.          *)
Waits(d) == \E i \in DOMAIN reassdatagrams : reassdatagrams[i].id = d
ReassemblyEnds == \A d \in Ids : []<>~Waits(d)
=============================================================================
