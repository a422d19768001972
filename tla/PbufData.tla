------------------------------- MODULE PbufData -------------------------------
(***************************************************************************)
(* Reading and writing the contents of a chain of pbufs (pbuf.c): every    *)
(* function walks the chain with an offset of its own.  Here a chain is    *)
(* the sequence of the payloads of its pbufs, any of which may be empty,   *)
(* and the reference is the one sequence of bytes the chain stands for.    *)
(***************************************************************************)
EXTENDS Integers, Sequences, FiniteSetsExt, SequencesExt

CONSTANTS
    Bytes,
    MaxPbufs, MaxLen,   \* pbufs in a chain, bytes in a pbuf
    NONE                \* 0xffff, a negative number or NULL: not found

DataAssumption == MaxPbufs \in Nat \ {0} /\ MaxLen \in Nat

VARIABLES
    buf,    \* the chain, Seq(Seq(Bytes))
    flat    \* history: the bytes that were written, in order

vars == <<buf, flat>>

Payloads == UNION {[1 .. n -> Bytes] : n \in 0 .. MaxLen}
Chains == UNION {[1 .. n -> Payloads] : n \in 1 .. MaxPbufs}
Layouts == UNION {[1 .. n -> 0 .. MaxLen] : n \in 1 .. MaxPbufs}

tot_len(c) == FoldSeq(LAMBDA p, n : n + Len(p), 0, c)

TypeOK == buf \in Chains /\ flat \in Seq(Bytes)

Init == /\ \E l \in Layouts : buf = [i \in DOMAIN l |-> [j \in 1 .. l[i] |-> Min(Bytes)]]
        /\ flat = FlattenSeq(buf)

-----------------------------------------------------------------------------

(* pbuf_skip: the rest of the chain from the pbuf that holds the offset,   *)
(* and the offset into it.                                                 *)
RECURSIVE pbuf_skip(_, _)
pbuf_skip(c, offset) ==
    IF c # <<>> /\ Len(Head(c)) <= offset
    THEN pbuf_skip(Tail(c), offset - Len(Head(c)))
    ELSE [q |-> c, offset |-> offset]

(* pbuf_copy_partial: what is copied out.                                  *)
RECURSIVE pbuf_copy_partial(_, _, _)
pbuf_copy_partial(c, len, offset) ==
    IF len = 0 \/ c = <<>> THEN <<>>
    ELSE IF offset # 0 /\ offset >= Len(Head(c))
    THEN pbuf_copy_partial(Tail(c), len, offset - Len(Head(c)))
    ELSE LET n == Min({len, Len(Head(c)) - offset})
         IN  SubSeq(Head(c), offset + 1, offset + n)
             \o pbuf_copy_partial(Tail(c), len - n, 0)

(* pbuf_get_contiguous: a pointer into the pbuf when the bytes are all     *)
(* there, otherwise a copy, if there are enough.                           *)
pbuf_get_contiguous(c, len, offset) ==
    LET at == pbuf_skip(c, offset)
        copied == pbuf_copy_partial(at.q, len, at.offset)
    IN  IF at.q = <<>> THEN NONE
        ELSE IF Len(Head(at.q)) >= at.offset + len
        THEN SubSeq(Head(at.q), at.offset + 1, at.offset + len)
        ELSE IF Len(copied) # len THEN NONE ELSE copied

pbuf_try_get_at(c, offset) ==
    LET at == pbuf_skip(c, offset)
    IN  IF at.q # <<>> /\ Len(Head(at.q)) > at.offset THEN Head(at.q)[at.offset + 1] ELSE NONE

(* pbuf_get_at: a byte that does not exist reads as zero.                  *)
pbuf_get_at(c, offset) ==
    LET b == pbuf_try_get_at(c, offset) IN IF b = NONE THEN 0 ELSE b

(* pbuf_memcmp: zero, or one more than the first place that differs.       *)
pbuf_memcmp(c, offset, s) ==
    LET at == pbuf_skip(c, offset)
        differ == {i \in DOMAIN s : pbuf_get_at(at.q, at.offset + i - 1) # s[i]}
    IN  IF tot_len(c) < offset + Len(s) THEN NONE
        ELSE IF differ = {} THEN 0 ELSE Min(differ)

(* pbuf_memfind, and pbuf_strstr of a string that is not empty.            *)
pbuf_memfind(c, s, start) ==
    LET found == {i \in start .. tot_len(c) - Len(s) : pbuf_memcmp(c, i, s) = 0}
    IN  IF tot_len(c) < Len(s) + start \/ found = {} THEN NONE ELSE Min(found)

-----------------------------------------------------------------------------

(* pbuf_take: the data is spread over the chain from its beginning.        *)
RECURSIVE Spread(_, _)
Spread(c, data) ==
    IF c = <<>> \/ data = <<>> THEN c
    ELSE LET n == Min({Len(data), Len(Head(c))})
         IN  <<SubSeq(data, 1, n) \o SubSeq(Head(c), n + 1, Len(Head(c)))>>
             \o Spread(Tail(c), SubSeq(data, n + 1, Len(data)))

pbuf_take(data) ==
    /\ tot_len(buf) >= Len(data)
    /\ buf' = Spread(buf, data)
    /\ flat' = data \o SubSeq(flat, Len(data) + 1, Len(flat))

(* pbuf_take_at: the first pbuf from an offset, the rest as pbuf_take.     *)
TakeAt(c, data, offset) ==
    LET at == pbuf_skip(c, offset)
        first == Head(at.q)
        n == Min({Len(first) - at.offset, Len(data)})
    IN  SubSeq(c, 1, Len(c) - Len(at.q))
        \o <<SubSeq(first, 1, at.offset) \o SubSeq(data, 1, n)
             \o SubSeq(first, at.offset + n + 1, Len(first))>>
        \o Spread(Tail(at.q), SubSeq(data, n + 1, Len(data)))

pbuf_take_at(data, offset) ==
    LET at == pbuf_skip(buf, offset)
    IN  /\ at.q # <<>> /\ tot_len(at.q) >= at.offset + Len(data)
        /\ buf' = TakeAt(buf, data, offset)
        /\ flat' = SubSeq(flat, 1, offset) \o data
                   \o SubSeq(flat, offset + Len(data) + 1, Len(flat))

pbuf_put_at(offset, b) ==
    LET at == pbuf_skip(buf, offset)
        i == Len(buf) - Len(at.q) + 1
    IN  /\ at.q # <<>> /\ Len(Head(at.q)) > at.offset
        /\ buf' = [buf EXCEPT ![i][at.offset + 1] = b]
        /\ flat' = [flat EXCEPT ![offset + 1] = b]

(* pbuf_copy into a chain of any layout that is long enough: one step      *)
(* copies what is left of either pbuf.  The copy ends with an error when a *)
(* pbuf that looks like the last of its packet has a successor, which is   *)
(* how the code recognises packet queues.                                  *)
LooksLast(c) == c # <<>> /\ Len(Head(c)) = tot_len(c) /\ Len(c) > 1

RECURSIVE CopyLoop(_, _, _, _)
CopyLoop(to, from, done, doneFrom) ==
    LET n == Min({Len(Head(to)) - done, Len(Head(from)) - doneFrom})
        written == SubSeq(Head(to), 1, done) \o SubSeq(Head(from), doneFrom + 1, doneFrom + n)
                   \o SubSeq(Head(to), done + n + 1, Len(Head(to)))
        endFrom == doneFrom + n >= Len(Head(from))
        endTo == done + n = Len(Head(to))
        from2 == IF endFrom THEN Tail(from) ELSE from
        to2 == IF endTo THEN Tail(to) ELSE <<written>> \o Tail(to)
        copied == IF endTo THEN <<written>> ELSE <<>>
        rest == CopyLoop(to2, from2, IF endTo THEN 0 ELSE done + n,
                         IF endFrom THEN 0 ELSE doneFrom + n)
    IN  IF (endTo /\ to2 = <<>> /\ from2 # <<>>) \/ LooksLast(from2) \/ LooksLast(to2)
        THEN NONE
        ELSE IF from2 = <<>> THEN copied \o to2
        ELSE IF rest = NONE THEN NONE ELSE copied \o rest

pbuf_copy(to, from) == IF tot_len(to) < tot_len(from) THEN NONE ELSE CopyLoop(to, from, 0, 0)

(* A packet without an empty pbuf behind its end.                          *)
Packet(c) == Len(c) = 1 \/ Last(c) # <<>>

(* pbuf_clone, and pbuf_coalesce with a layout of one pbuf.                *)
pbuf_clone(l) ==
    LET to == [i \in DOMAIN l |-> [j \in 1 .. l[i] |-> Min(Bytes)]]
    IN  /\ Packet(buf) /\ Packet(to) /\ tot_len(to) = tot_len(buf)
        /\ buf' = pbuf_copy(to, buf) /\ UNCHANGED flat

Data == UNION {[1 .. n -> Bytes] : n \in 1 .. MaxLen + 1}

Next ==
    \/ \E d \in Data : pbuf_take(d)
    \/ \E d \in Data, offset \in 0 .. MaxPbufs * MaxLen : pbuf_take_at(d, offset)
    \/ \E offset \in 0 .. MaxPbufs * MaxLen, b \in Bytes : pbuf_put_at(offset, b)
    \/ \E l \in Layouts : pbuf_clone(l)

Spec == Init /\ [][Next]_vars

-----------------------------------------------------------------------------
(* However it was written and copied, the chain holds the bytes that were  *)
(* written, wherever the borders of its pbufs lie.                         *)
Contents == FlattenSeq(buf) = flat

Ref(offset, len) == SubSeq(flat, offset + 1, offset + len)

(* Reading a range through the chain gives that range, cut at the end; a   *)
(* contiguous view exists exactly for ranges that lie inside and begin     *)
(* before the end; one byte is found exactly inside.                       *)
ReadsAgree ==
    \A offset \in 0 .. Len(flat) + 1, len \in 0 .. Len(flat) + 1 :
       /\ pbuf_copy_partial(buf, len, offset) =
             Ref(offset, Min({len, Max({0, Len(flat) - offset})}))
       /\ pbuf_get_contiguous(buf, len, offset) =
             (IF offset < Len(flat) /\ offset + len <= Len(flat) THEN Ref(offset, len) ELSE NONE)
       /\ pbuf_try_get_at(buf, offset) = (IF offset < Len(flat) THEN flat[offset + 1] ELSE NONE)

(* pbuf_memcmp finds the first difference and pbuf_memfind the first place *)
(* where a string occurs, across borders and up to the last byte.          *)
SearchAgrees ==
    \A s \in Data, start \in 0 .. Len(flat) :
       /\ pbuf_memcmp(buf, start, s) =
            (IF start + Len(s) > Len(flat) THEN NONE
             ELSE IF Ref(start, Len(s)) = s THEN 0
             ELSE CHOOSE k \in DOMAIN s : /\ flat[start + k] # s[k]
                                         /\ Ref(start, k - 1) = SubSeq(s, 1, k - 1))
       /\ LET at == {i \in start .. Len(flat) : i + Len(s) <= Len(flat) /\ Ref(i, Len(s)) = s}
          IN  pbuf_memfind(buf, s, start) = (IF at = {} THEN NONE ELSE Min(at))
=============================================================================
