-------------------------------- MODULE Mem ---------------------------------
(***************************************************************************)
(* mem.c: lwIP's own heap (the program's build uses the C library's), with *)
(* LWIP_ALLOW_MEM_FREE_FROM_OTHER_CONTEXT: mem_malloc drops its protection *)
(* after each block it looks at, and an interrupt may then free or trim    *)
(* blocks, merging the very one it stopped at.  The heap is addressed in   *)
(* units of the alignment.                                                 *)
(***************************************************************************)
EXTENDS Integers, FiniteSets, Sequences

CONSTANTS MEM_SIZE,
          HDR,              \* SIZEOF_STRUCT_MEM
          MIN_SIZE,         \* MIN_SIZE_ALIGNED
          Sizes             \* the sizes asked for

MemAssumption == HDR > 0 /\ MIN_SIZE > 0 /\ HDR + MIN_SIZE <= MEM_SIZE /\ Sizes \subseteq 1 .. MEM_SIZE

VARIABLES ram,              \* the headers of the blocks, JUNK where there is none
          lfree,            \* pointer to the lowest free block
          owned,            \* user blocks, with the size they were asked for
          free_count,       \* mem_free_count
          op                \* the mem_malloc that runs, and what the last one returned

vars == <<ram, lfree, owned, free_count, op>>

JUNK == [next |-> -1, prev |-> -1, used |-> FALSE]
IDLE == [pc |-> "idle", size |-> 0, ptr |-> 0, cur |-> 0, ret |-> 0]
FAILED == -1

Room(r, p) == r[p].next - (p + HDR)
Fit(size) == IF size < MIN_SIZE THEN MIN_SIZE ELSE size

-----------------------------------------------------------------------------
(* The header of the next block, if there is one, gets a new prev.         *)
Back(r, next, prev) == IF next = MEM_SIZE THEN r ELSE [r EXCEPT ![next].prev = prev]

(* plug_holes: the headers and lfree after the free block p was merged     *)
(* with the one behind it, and with the one before it.                     *)
Forward(r, lf, p) ==
    LET n == r[p].next
    IN  IF n # p /\ ~r[n].used /\ n # MEM_SIZE
        THEN <<[Back([r EXCEPT ![p].next = r[n].next], r[n].next, p) EXCEPT ![n] = JUNK],
               IF lf = n THEN p ELSE lf>>
        ELSE <<r, lf>>

Backward(r, lf, p) ==
    LET q == r[p].prev
    IN  IF q # p /\ ~r[q].used
        THEN <<[Back([r EXCEPT ![q].next = r[p].next], r[p].next, q) EXCEPT ![p] = JUNK],
               IF lf = p THEN q ELSE lf>>
        ELSE <<r, lf>>

plug_holes(r, lf, p) == LET f == Forward(r, lf, p) IN Backward(f[1], f[2], p)

(* mem_free_count: an allocation that was interrupted starts again.        *)
signal == TRUE

(* mem_free of a block in use, by the program or by an interrupt.          *)
mem_free(p) ==
    LET m == plug_holes([ram EXCEPT ![p].used = FALSE], IF p < lfree THEN p ELSE lfree, p)
    IN  /\ p \in DOMAIN owned
        /\ ram' = m[1] /\ lfree' = m[2]
        /\ owned' = [q \in DOMAIN owned \ {p} |-> owned[q]]
        /\ free_count' = signal /\ op' = [op EXCEPT !.ret = 0]

(* mem_trim: the rest of the block is added to the free one behind it, or, *)
(* if it can hold a block, becomes one.                                    *)
Split(r, p, size, next) ==
    Back([r EXCEPT ![p].next = p + HDR + size,
                   ![p + HDR + size] = [next |-> next, prev |-> p, used |-> FALSE]],
         next, p + HDR + size)

mem_trim(p, new_size) ==
    LET n == ram[p].next
        ptr2 == p + HDR + Fit(new_size)
    IN  /\ p \in DOMAIN owned /\ Fit(new_size) < Room(ram, p)
        /\ \/ /\ ~ram[n].used
              /\ ram' = [Split([ram EXCEPT ![n] = JUNK], p, Fit(new_size), ram[n].next) EXCEPT
                            ![n] = IF ptr2 = n THEN @ ELSE JUNK]
              /\ lfree' = IF lfree = n THEN ptr2 ELSE lfree
           \/ /\ ram[n].used /\ Fit(new_size) + HDR + MIN_SIZE <= Room(ram, p)
              /\ ram' = Split(ram, p, Fit(new_size), n)
              /\ lfree' = IF ptr2 < lfree THEN ptr2 ELSE lfree
           \/ /\ ram[n].used /\ Fit(new_size) + HDR + MIN_SIZE > Room(ram, p)
              /\ UNCHANGED <<ram, lfree>>
        /\ owned' = [owned EXCEPT ![p] = new_size]
        /\ free_count' = signal /\ op' = [op EXCEPT !.ret = 0]

-----------------------------------------------------------------------------
(* mem_malloc looks at the block at ptr next, or gives up.                 *)
LookAt(ptr, size) ==
    IF ptr < MEM_SIZE - size
    THEN op' = [IDLE EXCEPT !.pc = "scan", !.size = size, !.ptr = ptr] /\ free_count' = FALSE
    ELSE op' = [IDLE EXCEPT !.ret = FAILED, !.size = size] /\ UNCHANGED free_count

mem_malloc(size) ==
    /\ op.pc = "idle" /\ size <= MEM_SIZE
    /\ LookAt(lfree, Fit(size)) /\ UNCHANGED <<ram, lfree, owned>>

(* The block is taken, and split if the rest can hold a block.             *)
Take(r, p, size) ==
    IF Room(r, p) >= size + HDR + MIN_SIZE
    THEN [Split(r, p, size, r[p].next) EXCEPT ![p].used = TRUE]
    ELSE [r EXCEPT ![p].used = TRUE]

Done(p) ==
    /\ owned' = [q \in DOMAIN owned \cup {p} |-> IF q = p THEN op.size ELSE owned[q]]
    /\ op' = [IDLE EXCEPT !.ret = p + HDR]

(* mem_malloc_adjust_lfree: the search for the next free block, which      *)
(* starts again when something was freed.                                  *)
Adjust(r, p, cur) ==
    IF cur # MEM_SIZE /\ r[cur].used
    THEN /\ op' = [op EXCEPT !.pc = "adjust", !.ptr = p, !.cur = cur, !.ret = 0]
         /\ free_count' = FALSE /\ UNCHANGED <<lfree, owned>>
    ELSE /\ lfree' = cur /\ Done(p) /\ UNCHANGED free_count

AdjustLfree(r, p) ==
    IF p = lfree THEN Adjust(r, p, lfree)
    ELSE Done(p) /\ UNCHANGED <<lfree, free_count>>

(* Protected again after the gap.                                          *)
Scan ==
    /\ op.pc = "scan"
    /\ IF free_count THEN LookAt(lfree, op.size) /\ UNCHANGED <<ram, lfree, owned>>
       ELSE IF ~ram[op.ptr].used /\ Room(ram, op.ptr) >= op.size
       THEN ram' = Take(ram, op.ptr, op.size) /\ AdjustLfree(Take(ram, op.ptr, op.size), op.ptr)
       ELSE LookAt(ram[op.ptr].next, op.size) /\ UNCHANGED <<ram, lfree, owned>>

AdjustStep ==
    /\ op.pc = "adjust" /\ UNCHANGED ram
    /\ IF free_count THEN AdjustLfree(ram, op.ptr)
       ELSE Adjust(ram, op.ptr, ram[op.cur].next)

(* mem_init.                                                               *)
Init ==
    /\ ram = [p \in 0 .. MEM_SIZE |->
                CASE p = 0 -> [next |-> MEM_SIZE, prev |-> 0, used |-> FALSE]
                  [] p = MEM_SIZE -> [next |-> MEM_SIZE, prev |-> MEM_SIZE, used |-> TRUE]
                  [] OTHER -> JUNK]
    /\ lfree = 0 /\ owned = <<>> /\ free_count = FALSE /\ op = IDLE

Next ==
    \/ \E size \in Sizes : mem_malloc(size)
    \/ Scan \/ AdjustStep
    \/ \E p \in DOMAIN owned : mem_free(p) \/ \E size \in Sizes : mem_trim(p, size)

Spec == Init /\ [][Next]_vars

-----------------------------------------------------------------------------
Heads == {p \in 0 .. MEM_SIZE - 1 : ram[p] # JUNK}
FreeBlocks == {p \in Heads : ~ram[p].used}
Before(p) == {q \in Heads : q < p}
Highest(S) == CHOOSE p \in S : \A q \in S : q <= p

TypeOK ==
    /\ lfree \in 0 .. MEM_SIZE /\ free_count \in BOOLEAN /\ op.pc \in {"idle", "scan", "adjust"}
    /\ \A p \in Heads : ram[p].next \in p + 1 .. MEM_SIZE /\ ram[p].prev \in 0 .. p

(* The blocks follow each other without gap or overlap, each knows its     *)
(* neighbours, no two free ones lie side by side, and those in use are the *)
(* ones users have (and the one that is being handed out).                 *)
HeapSound ==
    /\ 0 \in Heads
    /\ \A p \in Heads : /\ ram[p].next = MEM_SIZE \/ ram[p].next \in Heads
                        /\ Room(ram, p) >= MIN_SIZE
                        /\ p > 0 => /\ ram[p].prev = Highest(Before(p))
                                    /\ ram[ram[p].prev].next = p
                                    /\ p \in FreeBlocks => ram[p].prev \notin FreeBlocks
    /\ Heads \ FreeBlocks = DOMAIN owned \cup (IF op.pc = "adjust" THEN {op.ptr} ELSE {})
    /\ \A p \in DOMAIN owned : Room(ram, p) >= owned[p]

(* The block an interrupted allocation stopped at is still a block, unless *)
(* the allocation will see that it has to start again.                     *)
NoStalePointer ==
    ~free_count => /\ op.pc = "scan" => op.ptr \in Heads
                   /\ op.pc = "adjust" => op.cur \in Heads

(* No free block lies below lfree, so a search that starts there misses    *)
(* none: memory is refused only when no block is large enough.             *)
LfreeLowest ==
    /\ \A p \in FreeBlocks : lfree <= p
    /\ op.pc # "adjust" => lfree = MEM_SIZE \/ lfree \in FreeBlocks
    /\ op.ret = FAILED => \A p \in FreeBlocks : Room(ram, p) < op.size
=============================================================================
