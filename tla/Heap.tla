-------------------------------- MODULE Heap --------------------------------
(***************************************************************************)
(* The two allocators: malloc of the C library, a list of blocks that      *)
(* tiles the memory brk granted (user/libc/malloc.c), and kalloc of the    *)
(* kernel, pages cut into slots of one size (kernel/kalloc.c).             *)
(*                                                                         *)
(* Addresses and sizes are machine words of HMod values.  The list is in   *)
(* the order of the addresses: it only grows at its end.                   *)
(***************************************************************************)
EXTENDS Integers, Sequences, FiniteSets, SequencesExt, FiniteSetsExt

CONSTANTS
    HMod,          \* 2^32
    HAlign, HPage, HHeader,   \* 8, 4096, sizeof(heap_block_t)
    HBase, HLimit, \* USER_HEAP_BASE and the most brk grants
    HSizes,        \* sizes asked for
    KClasses,      \* s_class_sizes
    KPage,         \* bytes of a page left for slots
    KFrames,       \* frames pmm_alloc_frame can grant
    KSizes, HeapCalls

VARIABLES heap, slabs, heapLeft

heapVars == <<heap, slabs, heapLeft>>

Word(n) == n % HMod
AlignUp(n, a) == Word(Word(n + a - 1) - (Word(n + a - 1) % a))

HeapInit ==
    /\ heap = [list |-> <<>>, brk |-> HBase, live |-> <<>>]
    /\ slabs = [page |-> <<>>, frames |-> KFrames, live |-> {},
                used |-> 0, free |-> 0, pages |-> 0, large |-> {}]
    /\ heapLeft \in [who : {"user", "kernel"}, n : {HeapCalls}]

Spends(who) ==
    /\ heapLeft.who = who /\ heapLeft.n > 0
    /\ heapLeft' = [heapLeft EXCEPT !.n = @ - 1]

-----------------------------------------------------------------------------
(* malloc.                                                                 *)

BlockEnd(b) == b.at + HHeader + b.size

(* heap_extend: the last block grows if it is free, or a block is added.   *)
HeapExtend(h, minPayload) ==
    LET grow == LET g == AlignUp(HHeader + minPayload, HPage) IN IF g < HPage THEN HPage ELSE g
        end == Word(h.brk + grow)
        n == Len(h.list) IN
    IF end < h.brk \/ end > HLimit THEN h
    ELSE [h EXCEPT !.brk = end,
                   !.list = IF n > 0 /\ h.list[n].free /\ BlockEnd(h.list[n]) = h.brk
                            THEN [@ EXCEPT ![n].size = @ + grow]
                            ELSE Append(@, [at |-> h.brk, size |-> grow - HHeader, free |-> TRUE])]

(* heap_find_fit: the first free block that is large enough.               *)
FindFit(list, need) ==
    LET fits == {i \in DOMAIN list : list[i].free /\ list[i].size >= need} IN
    IF fits = {} THEN 0 ELSE Min(fits)

MutSplitBlock(list, i, need) ==
    LET b == list[i] IN
    IF b.size <= need + HHeader + HAlign THEN list
    ELSE SubSeq(list, 1, i - 1)
         \o <<[b EXCEPT !.size = need],
              [at |-> b.at + HHeader + need, size |-> b.size - need, free |-> TRUE]>>
         \o SubSeq(list, i + 1, Len(list))
(* heap_split_block                                                        *)
SplitBlock(list, i, need) ==
    LET b == list[i] IN
    IF b.size <= need + HHeader + HAlign THEN list
    ELSE SubSeq(list, 1, i - 1)
         \o <<[b EXCEPT !.size = need],
              [at |-> b.at + HHeader + need, size |-> b.size - need - HHeader, free |-> TRUE]>>
         \o SubSeq(list, i + 1, Len(list))

(* heap_coalesce: the block before, then every free block after.           *)
Joins(list, i) == list[i].free /\ list[i + 1].free /\ BlockEnd(list[i]) = list[i + 1].at
Join(list, i) ==
    SubSeq(list, 1, i - 1) \o <<[list[i] EXCEPT !.size = @ + HHeader + list[i + 1].size]>>
      \o SubSeq(list, i + 2, Len(list))
JoinAfter[list \in Seq([at : Int, size : Int, free : BOOLEAN]), i \in Nat] ==
    IF i < Len(list) /\ Joins(list, i) THEN JoinAfter[Join(list, i), i] ELSE list
Coalesce(list, i) ==
    IF i > 1 /\ Joins(list, i - 1) THEN JoinAfter[Join(list, i - 1), i - 1] ELSE JoinAfter[list, i]

(* What malloc returns: the heap after it and the index it used, 0 if none.*)
MallocResult(h, need) ==
    LET grown == IF FindFit(h.list, need) = 0 THEN HeapExtend(h, need) ELSE h
        i == FindFit(grown.list, need) IN
    IF i = 0 THEN [h |-> grown, at |-> 0]
    ELSE LET list == SplitBlock(grown.list, i, need) IN
         [h |-> [grown EXCEPT !.list = [list EXCEPT ![i].free = FALSE]],
          at |-> list[i].at + HHeader]
Freed(h, ptr) ==
    LET i == CHOOSE i \in DOMAIN h.list : h.list[i].at + HHeader = ptr IN
    [h EXCEPT !.list = Coalesce([@ EXCEPT ![i].free = TRUE], i),
              !.live = [p \in DOMAIN @ \ {ptr} |-> @[p]]]
Owns(r, size) == IF r.at = 0 THEN r.h ELSE [r.h EXCEPT !.live = (r.at :> size) @@ @]

Malloc(size) ==
    /\ Spends("user") /\ size > 0
    /\ heap' = Owns(MallocResult(heap, AlignUp(size, HAlign)), size)
    /\ UNCHANGED slabs
Free(ptr) ==
    /\ Spends("user") /\ ptr \in DOMAIN heap.live
    /\ heap' = Freed(heap, ptr)
    /\ UNCHANGED slabs
(* realloc: the block is cut where it stands or its bytes move.            *)
Realloc(ptr, size) ==
    LET i == CHOOSE i \in DOMAIN heap.list : heap.list[i].at + HHeader = ptr
        need == AlignUp(size, HAlign)
        r == MallocResult(heap, need) IN
    /\ Spends("user") /\ ptr \in DOMAIN heap.live /\ size > 0
    /\ heap' = IF heap.list[i].size >= need
               THEN [heap EXCEPT !.list = SplitBlock(@, i, need), !.live[ptr] = size]
               ELSE IF r.at = 0 THEN r.h ELSE Freed(Owns(r, size), ptr)
    /\ UNCHANGED slabs
(* calloc refuses a product that does not fit a word.                      *)
Calloc(n, size) ==
    /\ n > 0 /\ size > 0 /\ n <= (HMod - 1) \div size
    /\ Malloc(n * size)

-----------------------------------------------------------------------------
(* kalloc.                                                                 *)

ClassFor(size) ==
    LET fits == {c \in DOMAIN KClasses : size <= KClasses[c]} IN IF fits = {} THEN 0 ELSE Min(fits)
SlotsOf(c) == KPage \div KClasses[c]

(* slab_create: page is the list of pages, newest first; a page keeps the  *)
(* numbers of its free slots, the next one first.                          *)
SlabCreate(k, c) ==
    IF k.frames = 0 THEN k
    ELSE [k EXCEPT !.page = <<[id |-> 1 + Max({0} \cup {k.page[i].id : i \in DOMAIN k.page}),
                               class |-> c, free |-> Reverse([i \in 1..SlotsOf(c) |-> i])]>> \o @,
                   !.frames = @ - 1, !.pages = @ + 1, !.free = @ + SlotsOf(c) * KClasses[c]]
SlabWithRoom(k, c) ==
    LET room == {i \in DOMAIN k.page : k.page[i].class = c /\ k.page[i].free # <<>>} IN
    IF room = {} THEN 0 ELSE Min(room)

KallocSmall(size) ==
    LET c == ClassFor(size)
        k == IF SlabWithRoom(slabs, c) = 0 THEN SlabCreate(slabs, c) ELSE slabs
        i == SlabWithRoom(k, c) IN
    /\ Spends("kernel") /\ size > 0 /\ c # 0
    /\ slabs' = IF i = 0 THEN k
                ELSE [k EXCEPT !.page[i].free = Tail(@),
                               !.live = @ \cup {<<k.page[i].id, Head(k.page[i].free)>>},
                               !.free = @ - KClasses[c], !.used = @ + KClasses[c]]
    /\ UNCHANGED heap
(* A large request is frames of its own; pmm_alloc_contiguous_frames may   *)
(* fail.                                                                   *)
KallocLarge(size) ==
    LET n == (size + KPage - 1) \div KPage IN
    /\ Spends("kernel") /\ ClassFor(size) = 0
    /\ slabs' = IF n > slabs.frames THEN slabs
                ELSE [slabs EXCEPT !.frames = @ - n, !.pages = @ + n, !.used = @ + size,
                                   !.large = @ \cup {<<1 + Max({0} \cup {l[1] : l \in @}), n, size>>}]
    /\ UNCHANGED heap
KfreeLarge(l) ==
    /\ Spends("kernel") /\ l \in slabs.large
    /\ slabs' = [slabs EXCEPT !.large = @ \ {l}, !.frames = @ + l[2],
                              !.pages = IF @ >= l[2] THEN @ - l[2] ELSE @,
                              !.used = IF @ >= l[3] THEN @ - l[3] ELSE @]
    /\ UNCHANGED heap

(* slab_remove_if_empty: a page all of whose slots are free goes back.     *)
RemoveIfEmpty(k, i) ==
    IF Len(k.page[i].free) # SlotsOf(k.page[i].class) THEN k
    ELSE [k EXCEPT !.page = SubSeq(@, 1, i - 1) \o SubSeq(@, i + 1, Len(@)),
                   !.frames = @ + 1, !.pages = @ - 1,
                   !.free = @ - SlotsOf(k.page[i].class) * KClasses[k.page[i].class]]
Kfree(id, slot) ==
    LET i == CHOOSE i \in DOMAIN slabs.page : slabs.page[i].id = id
        size == KClasses[slabs.page[i].class] IN
    /\ Spends("kernel") /\ <<id, slot>> \in slabs.live
    /\ slabs' = RemoveIfEmpty([slabs EXCEPT !.page[i].free = <<slot>> \o @, !.live = @ \ {<<id, slot>>},
                                            !.used = IF @ >= size THEN @ - size ELSE @,
                                            !.free = @ + size], i)
    /\ UNCHANGED heap

HeapNext ==
    \/ \E size \in HSizes : Malloc(size) \/ \E n \in 2..3 : Calloc(n, size)
    \/ \E ptr \in DOMAIN heap.live : Free(ptr) \/ \E size \in HSizes : Realloc(ptr, size)
    \/ \E size \in KSizes : KallocSmall(size) \/ KallocLarge(size)
    \/ \E s \in slabs.live : Kfree(s[1], s[2])
    \/ \E l \in slabs.large : KfreeLarge(l)

HeapSpec == HeapInit /\ [][HeapNext]_heapVars

-----------------------------------------------------------------------------
(* After any sequence of malloc, calloc, realloc and free, the blocks of   *)
(* the list tile the memory from the heap's base to brk without a gap or   *)
(* an overlap, and every pointer a program holds is the payload of a block *)
(* in use that is as large as was asked.  (A request within the alignment  *)
(* of the top of the word wraps to nothing and is not made here.)          *)
HeapSound ==
    /\ \A i \in DOMAIN heap.list :
          BlockEnd(heap.list[i]) = IF i < Len(heap.list) THEN heap.list[i + 1].at ELSE heap.brk
    /\ heap.list # <<>> => heap.list[1].at = HBase
    /\ \A i \in DOMAIN heap.list :
          ~heap.list[i].free <=> heap.list[i].at + HHeader \in DOMAIN heap.live
    /\ \A ptr \in DOMAIN heap.live : \E i \in DOMAIN heap.list :
          heap.list[i].at + HHeader = ptr /\ heap.list[i].size >= heap.live[ptr]

(* Whatever order slots are taken and given back in: no page goes back to  *)
(* the frame allocator while one of its slots is in use, no slot is at     *)
(* once free and in use, and the statistics are the truth.                 *)
SlabsSound ==
    LET ids == {slabs.page[i].id : i \in DOMAIN slabs.page} IN
    /\ \A s \in slabs.live : s[1] \in ids
    /\ \A i \in DOMAIN slabs.page :
          LET p == slabs.page[i]
              mine == {s \in slabs.live : s[1] = p.id} IN
          /\ \A s \in mine : s[2] \notin ToSet(p.free)
          /\ Len(p.free) + Cardinality(mine) = SlotsOf(p.class)
    /\ slabs.free = FoldLeft(LAMBDA acc, p : acc + Len(p.free) * KClasses[p.class], 0, slabs.page)
    /\ slabs.pages + slabs.frames = KFrames
====
