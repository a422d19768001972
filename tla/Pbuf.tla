--------------------------------- MODULE Pbuf ---------------------------------
(***************************************************************************)
(* Packet buffers as reference counted chains (pbuf.c): who owns a buffer, *)
(* when it is freed, and that the lengths of a chain agree.  The contents  *)
(* are module PbufData.                                                    *)
(*                                                                         *)
(* The users of the module obey its contract, stated as Exclusive: a chain *)
(* is reshaped only by its one owner.  Sizes are small numbers; u16_t      *)
(* arithmetic is modulo U16 and MEM_ALIGNMENT is 1.                        *)
(***************************************************************************)
EXTENDS Integers, Sequences, FiniteSetsExt, SequencesExt

CONSTANTS
    Ids,            \* memory for pbufs
    NULL,
    U16,            \* 2^16
    BUFSIZE,        \* PBUF_POOL_BUFSIZE
    Layers,         \* header room a pbuf_layer asks for
    MaxLen,         \* longest packet a user allocates
    MaxRefs,        \* references users keep to one pbuf
    Pcbs,           \* connections with out-of-sequence data
    Types           \* what users allocate: RAM, POOL, REF, ROM, CUSTOM

PbufAssumption ==
    /\ {U16, BUFSIZE, MaxLen, MaxRefs, Pcbs} \subseteq Nat
    /\ Layers \subseteq 0 .. BUFSIZE - 1 /\ MaxLen < U16

(* PBUF_TYPE_FLAG_STRUCT_DATA_CONTIGUOUS: the payload follows the struct.  *)
Contiguous(type) == type \in {"RAM", "POOL"}

VARIABLES
    mem,            \* [Ids -> struct pbuf or NULL]
    held,           \* [Ids -> references the users own]
    ooseq,          \* Seq(Ids \cup {NULL}): the ooseq data of tcp_active_pcbs
    pbuf_free_ooseq_pending

vars == <<mem, held, ooseq, pbuf_free_ooseq_pending>>

Live(m) == {p \in Ids : m[p] # NULL}

Struct == [next : Ids \cup {NULL}, len : 0 .. U16 - 1, tot_len : 0 .. U16 - 1,
           type : Types \cup {"RAM"}, ref : 1 .. U16, room : 0 .. U16]

TypeOK ==
    /\ mem \in [Ids -> Struct \cup {NULL}] /\ held \in [Ids -> 0 .. MaxRefs]
    /\ ooseq \in Seq(Ids \cup {NULL})
    /\ pbuf_free_ooseq_pending \in BOOLEAN

(* pbuf_init_alloced_pbuf; room is what lies between struct and payload.   *)
pbuf_init(tot_len, len, type, room) ==
    [next |-> NULL, len |-> len, tot_len |-> tot_len, type |-> type, ref |-> 1, room |-> room]

Init ==
    /\ mem = [p \in Ids |-> NULL] /\ held = [p \in Ids |-> 0]
    /\ ooseq = [i \in 1 .. Pcbs |-> NULL] /\ pbuf_free_ooseq_pending = FALSE

-----------------------------------------------------------------------------
(* The functions of the code, on a memory m.                               *)

(* A chain as the sequence of its pbufs.                                   *)
RECURSIVE Chain(_, _)
Chain(m, p) == IF p = NULL THEN <<>> ELSE <<p>> \o Chain(m, m[p].next)

pbuf_clen(m, p) == Len(Chain(m, p))

(* pbuf_free: the references fall one by one along the chain, up to the    *)
(* first pbuf that somebody else still uses.                               *)
RECURSIVE pbuf_free(_, _)
pbuf_free(m, p) ==
    IF p = NULL THEN m
    ELSE IF m[p].ref > 1 THEN [m EXCEPT ![p].ref = @ - 1]
    ELSE pbuf_free([m EXCEPT ![p] = NULL], m[p].next)

(* pbuf_alloc of PBUF_POOL: as many buffers as the length needs; with the  *)
(* last one missing the others are given back.  Returns memory and head.   *)
(* Fault: the part that was allocated is not given back.                   *)
RECURSIVE PoolLeaks(_, _, _, _, _)
PoolLeaks(m, first, last, offset, rem_len) ==
    LET q == CHOOSE x \in Ids : m[x] = NULL
        qlen == Min({rem_len, BUFSIZE - offset})
        new == [m EXCEPT ![q] = pbuf_init(rem_len, qlen, "POOL", offset)]
        linked == IF first = NULL THEN new ELSE [new EXCEPT ![last].next = q]
        head == IF first = NULL THEN q ELSE first
    IN  IF Live(m) = Ids THEN [m |-> m, p |-> NULL]
        ELSE IF rem_len = qlen THEN [m |-> linked, p |-> head]
        ELSE PoolLeaks(linked, head, q, 0, rem_len - qlen)

RECURSIVE Pool(_, _, _, _, _)
Pool(m, first, last, offset, rem_len) ==
    LET q == CHOOSE x \in Ids : m[x] = NULL
        qlen == Min({rem_len, BUFSIZE - offset})
        new == [m EXCEPT ![q] = pbuf_init(rem_len, qlen, "POOL", offset)]
        linked == IF first = NULL THEN new ELSE [new EXCEPT ![last].next = q]
        head == IF first = NULL THEN q ELSE first
    IN  IF Live(m) = Ids THEN [m |-> pbuf_free(m, first), p |-> NULL]
        ELSE IF rem_len = qlen THEN [m |-> linked, p |-> head]
        ELSE Pool(linked, head, q, 0, rem_len - qlen)

(* One block: PBUF_RAM from the heap unless the size overflows, PBUF_REF,  *)
(* PBUF_ROM and custom pbufs without room for headers.                     *)
Single(m, layer, length, type) ==
    LET q == CHOOSE x \in Ids : m[x] = NULL
        payload_len == (layer + length) % U16
    IN  IF Live(m) = Ids \/ (type = "RAM" /\ payload_len < length)
        THEN [m |-> m, p |-> NULL]
        ELSE [m |-> [m EXCEPT ![q] = pbuf_init(length, length, type,
                                     IF type = "RAM" THEN layer ELSE 0)],
              p |-> q]

pbuf_alloc(m, layer, length, type) ==
    IF type = "POOL" THEN Pool(m, NULL, NULL, layer, length)
    ELSE Single(m, layer, length, type)

(* pbuf_cat: the tail's reference goes from the caller to the last pbuf.   *)
pbuf_cat(m, h, t) ==
    LET head == Chain(m, h)
        added == [q \in Ids |-> IF q \in ToSet(head)
                    THEN [m[q] EXCEPT !.tot_len = (@ + m[t].tot_len) % U16] ELSE m[q]]
    IN  [added EXCEPT ![Last(head)].next = t]

(* pbuf_realloc: walk to the pbuf where the new end lies, free the rest.   *)
RECURSIVE ReallocFrom(_, _, _, _)
ReallocFrom(m, q, rem_len, shrink) ==
    IF rem_len > m[q].len
    THEN ReallocFrom([m EXCEPT ![q].tot_len = (@ - shrink) % U16], m[q].next,
                     rem_len - m[q].len, shrink)
    ELSE [pbuf_free(m, m[q].next) EXCEPT
            ![q] = [m[q] EXCEPT !.len = rem_len, !.tot_len = rem_len, !.next = NULL]]

pbuf_realloc(m, p, new_len) ==
    IF new_len >= m[p].tot_len THEN m
    ELSE ReallocFrom(m, p, new_len, m[p].tot_len - new_len)

(* pbuf_add_header, with or without force: fails when the total would      *)
(* overflow, when the room is used up, or when there is no room at all.    *)
pbuf_add_header(m, p, n, force) ==
    LET fits == /\ (n + m[p].tot_len) % U16 >= n
                /\ IF Contiguous(m[p].type) THEN n <= m[p].room ELSE force
    IN  IF n > 0 /\ fits
        THEN [m EXCEPT ![p].len = @ + n, ![p].tot_len = @ + n,
                       ![p].room = IF Contiguous(m[p].type) THEN @ - n ELSE @] ELSE m

pbuf_remove_header(m, p, n) ==
    IF n <= m[p].len
    THEN [m EXCEPT ![p].len = @ - n, ![p].tot_len = @ - n,
                   ![p].room = IF Contiguous(m[p].type) THEN @ + n ELSE @] ELSE m

(* pbuf_free_header: whole pbufs are cut off and freed, the one where the  *)
(* header ends is shortened.  Returns memory and what is left of the chain.*)
RECURSIVE pbuf_free_header(_, _, _)
pbuf_free_header(m, p, free_left) ==
    IF free_left = 0 \/ p = NULL THEN [m |-> m, p |-> p]
    ELSE IF free_left >= m[p].len
    THEN pbuf_free_header(pbuf_free([m EXCEPT ![p].next = NULL], p), m[p].next,
                          free_left - m[p].len)
    ELSE [m |-> pbuf_remove_header(m, p, free_left), p |-> p]

-----------------------------------------------------------------------------
(* What users do.                                                          *)

HasPrevious(p) == \E q \in Live(mem) : mem[q].next = p

(* The whole chain belongs to one user, who holds it by its head.          *)
Exclusive(p) ==
    /\ held[p] = 1 /\ ~HasPrevious(p)
    /\ \A q \in ToSet(Chain(mem, p)) : mem[q].ref = 1

Users == UNCHANGED <<ooseq, pbuf_free_ooseq_pending>>

(* pbuf_alloc; a pool that is empty asks for out-of-sequence data to be    *)
(* dropped (PBUF_POOL_IS_EMPTY).                                           *)
Alloc(layer, length, type) ==
    LET r == pbuf_alloc(mem, layer, length, type)
    IN  /\ mem' = r.m
        /\ held' = (IF r.p = NULL THEN held ELSE [held EXCEPT ![r.p] = @ + 1])
        /\ pbuf_free_ooseq_pending' = (pbuf_free_ooseq_pending \/ (type = "POOL" /\ r.p = NULL))
        /\ UNCHANGED ooseq

Free(p) ==
    /\ held[p] > 0 /\ held' = [held EXCEPT ![p] = @ - 1]
    /\ mem' = pbuf_free(mem, p) /\ Users

pbuf_ref(p) ==
    /\ held[p] > 0 /\ held[p] < MaxRefs /\ held' = [held EXCEPT ![p] = @ + 1]
    /\ mem' = [mem EXCEPT ![p].ref = @ + 1] /\ Users

MayJoin(h, t) ==
    /\ h # t /\ Exclusive(h) /\ held[t] > 0 /\ ~HasPrevious(t)
    /\ h \notin ToSet(Chain(mem, t)) /\ mem[h].tot_len + mem[t].tot_len < U16
    /\ ToSet(Chain(mem, h)) \cap ToSet(Chain(mem, t)) = {}

Cat(h, t) ==
    /\ MayJoin(h, t) /\ mem' = pbuf_cat(mem, h, t)
    /\ held' = [held EXCEPT ![t] = @ - 1] /\ UNCHANGED <<ooseq, pbuf_free_ooseq_pending>>

pbuf_chain(h, t) ==
    /\ MayJoin(h, t)
    /\ mem' = [pbuf_cat(mem, h, t) EXCEPT ![t].ref = @ + 1]
    /\ UNCHANGED <<held, ooseq, pbuf_free_ooseq_pending>>

(* The first pbuf leaves its tail and drops its reference to it.           *)
pbuf_dechain(p) ==
    LET q == mem[p].next
        cut == [mem EXCEPT ![p] = [@ EXCEPT !.next = NULL, !.tot_len = mem[p].len],
                           ![q] = [@ EXCEPT !.tot_len = mem[p].tot_len - mem[p].len]]
    IN  /\ held[p] > 0 /\ ~HasPrevious(p) /\ mem[p].next # NULL
        /\ mem' = pbuf_free(cut, q) /\ UNCHANGED <<held, ooseq, pbuf_free_ooseq_pending>>

Realloc(p, n) ==
    /\ held[p] > 0 /\ Exclusive(p) /\ n < mem[p].tot_len
    /\ mem' = pbuf_realloc(mem, p, n) /\ UNCHANGED held /\ Users

AddHeader(p, n, force) ==
    /\ held[p] > 0 /\ Exclusive(p)
    /\ mem' = pbuf_add_header(mem, p, n, force) /\ mem' # mem /\ UNCHANGED held /\ Users

RemoveHeader(p, n) ==
    /\ held[p] > 0 /\ Exclusive(p)
    /\ mem' = pbuf_remove_header(mem, p, n) /\ mem' # mem /\ UNCHANGED held /\ Users

FreeHeader(p, n) ==
    /\ held[p] > 0 /\ Exclusive(p)
    /\ LET r == pbuf_free_header(mem, p, n)
       IN  /\ mem' = r.m
           /\ held' = [q \in Ids |-> IF q = r.p THEN 1 ELSE IF q = p THEN 0 ELSE held[q]]
    /\ Users

(* pbuf_coalesce: a chain becomes one pbuf if there is memory for a copy   *)
(* (pbuf_clone); otherwise the caller keeps the chain.                     *)
pbuf_coalesce(p, layer) ==
    LET r == pbuf_alloc(mem, layer, mem[p].tot_len, "RAM")
    IN  /\ held[p] > 0 /\ ~HasPrevious(p) /\ mem[p].next # NULL /\ r.p # NULL
        /\ mem' = pbuf_free(r.m, p)
        /\ held' = [held EXCEPT ![p] = @ - 1, ![r.p] = 1] /\ Users

(* TCP keeps data that arrived out of sequence.                            *)
Queue(i, p) ==
    /\ ooseq[i] = NULL /\ Exclusive(p) /\ ooseq' = [ooseq EXCEPT ![i] = p]
    /\ held' = [held EXCEPT ![p] = 0] /\ UNCHANGED <<mem, pbuf_free_ooseq_pending>>

(* PBUF_CHECK_FREE_OOSEQ, from sys_check_timeouts: the first connection    *)
(* with such data loses it.                                                *)
pbuf_free_ooseq ==
    LET full == {i \in DOMAIN ooseq : ooseq[i] # NULL}
    IN  /\ pbuf_free_ooseq_pending /\ pbuf_free_ooseq_pending' = FALSE
        /\ IF full = {} THEN UNCHANGED <<mem, ooseq>>
           ELSE /\ mem' = pbuf_free(mem, ooseq[Min(full)])
                /\ ooseq' = [ooseq EXCEPT ![Min(full)] = NULL]
        /\ UNCHANGED held

Next ==
    \/ \E layer \in Layers, length \in 1 .. MaxLen, type \in Types : Alloc(layer, length, type)
    \/ \E p \in Ids : Free(p) \/ pbuf_ref(p)
    \/ \E h, t \in Ids : Cat(h, t) \/ pbuf_chain(h, t)
    \/ \E p \in Live(mem) : pbuf_dechain(p) \/ \E layer \in Layers : pbuf_coalesce(p, layer)
    \/ \E p \in Live(mem), n \in 1 .. MaxLen :
          \/ Realloc(p, n) \/ RemoveHeader(p, n) \/ FreeHeader(p, n)
          \/ \E force \in BOOLEAN : AddHeader(p, n, force)
    \/ \E i \in 1 .. Pcbs, p \in Live(mem) : Queue(i, p)
    \/ pbuf_free_ooseq

Spec == Init /\ [][Next]_vars

-----------------------------------------------------------------------------
(* The reference count of a pbuf is the number of pointers to it: those of *)
(* users, of the pbuf before it and of TCP's queues.  So nothing is freed  *)
(* while it is used, no pointer is left to what was freed, and nothing     *)
(* leaks, even when an allocation fails half way.                          *)
RefsExact ==
    \A p \in Ids :
       LET refs == held[p] + Cardinality({q \in Live(mem) : mem[q].next = p})
                           + Cardinality({i \in DOMAIN ooseq : ooseq[i] = p})
       IN  IF mem[p] = NULL THEN refs = 0 ELSE mem[p].ref = refs

(* In every chain tot_len is the sum of what follows, as the assertions of *)
(* pbuf_cat and pbuf_dechain say; all of TCP/IP computes with it.          *)
TotLen ==
    \A p \in Live(mem) :
       mem[p].tot_len = mem[p].len + (IF mem[p].next = NULL THEN 0 ELSE mem[mem[p].next].tot_len)

(* Headers are written only into the pbuf's own memory, and packets stay   *)
(* inside the pool's buffers.                                              *)
RoomKept ==
    \A p \in Live(mem) : mem[p].type = "POOL" => mem[p].room + mem[p].len <= BUFSIZE
=============================================================================
