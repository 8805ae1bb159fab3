--------------------------------- MODULE Pmm ---------------------------------
(***************************************************************************)
(* The frame allocator in use: kernel/pmm.c together with the bump         *)
(* allocator of kernel/memory.c, which shares the window.                  *)
(*                                                                         *)
(* held is a history variable: how many references to each frame the       *)
(* callers of the allocator hold (page tables, kernel stacks, fd tables,   *)
(* slabs, DMA rings...).  A caller releases only references it holds; the  *)
(* error branches (a frame that is already free) are reached as well.      *)
(***************************************************************************)
EXTENDS PmmOps

CONSTANTS BootMaps,    \* boot memory maps: [usable, reserved] sets of ranges
          HeapStart,   \* heap_current when pmm_init runs
          HeapSizes,   \* sizes later kmalloc calls ask for
          HeapLimit,   \* bound: kmalloc is not called past this address
          Counts       \* contiguous run lengths callers ask for

ASSUME PmmClientAssumption ==
    /\ \A m \in BootMaps : /\ m.usable \subseteq Nat \X Nat
                           /\ m.reserved \subseteq Nat \X Nat
    /\ HeapStart \in Nat /\ HeapLimit \in Nat
    /\ HeapSizes \subseteq Nat \ {0}
    /\ Counts \subseteq Nat

VARIABLES pm,            \* the allocator's state
          heap_current,  \* memory.c's bump pointer
          held,          \* history: references callers hold, per frame
          bump,          \* history: frames touched by bump allocations
          boot           \* history: frames pmm_init left used

vars == <<pm, heap_current, held, bump, boot>>

Init == /\ \E m \in BootMaps :
              pm = pmm_init(m.usable, m.reserved \cup {<<0, HeapStart>>})
        /\ heap_current = HeapStart
        /\ held = [f \in Frames |-> 0]
        /\ bump = FramesTouched(0, HeapStart)
        /\ boot = pm.used

AllocFrame == /\ pm' = pmm_alloc_frame(pm)
              /\ held' = IF alloc_result(pm) = None THEN held
                         ELSE [held EXCEPT ![alloc_result(pm)] = @ + 1]
              /\ UNCHANGED <<heap_current, bump, boot>>

AllocContiguous(count) ==
    /\ pm' = pmm_alloc_contiguous_frames(pm, count)
    /\ LET start == contiguous_result(pm, count)
       IN  held' = [f \in Frames |->
                      IF start # None /\ f \in start .. start + count - 1
                      THEN held[f] + 1 ELSE held[f]]
    /\ UNCHANGED <<heap_current, bump, boot>>

\* A caller retains a frame it has a reference to (or asks for a free one).
Retain(f) == /\ held[f] > 0 \/ f \notin pm.used
             /\ pm' = pmm_retain_frame(pm, f)
             /\ held' = IF retain_ok(pm, f) THEN [held EXCEPT ![f] = @ + 1]
                        ELSE held
             /\ UNCHANGED <<heap_current, bump, boot>>

\* A caller gives back a reference it holds (or frees a free frame again).
Release(f) == /\ held[f] > 0 \/ f \notin pm.used
              /\ pm' = pmm_release_frame(pm, f)
              /\ held' = IF held[f] > 0 THEN [held EXCEPT ![f] = @ - 1]
                         ELSE held
              /\ UNCHANGED <<heap_current, bump, boot>>

align4(n) == IF n % 4 = 0 THEN n ELSE (n \div 4) * 4 + 4

\* kmalloc: move the bump pointer, then reserve the frames it crossed.
kmalloc(size) == /\ align4(heap_current + size) <= HeapLimit
                 /\ heap_current' = align4(heap_current + size)
                 /\ pm' = pmm_reserve_range(pm, heap_current, heap_current')
                 /\ bump' = bump \cup FramesTouched(heap_current, heap_current')
                 /\ UNCHANGED <<held, boot>>

page_align(n) == ((n + FrameSize - 1) \div FrameSize) * FrameSize

\* kmalloc_page: round up to a page boundary, take one page, reserve it.
kmalloc_page == /\ page_align(heap_current) + FrameSize <= HeapLimit
                /\ heap_current' = page_align(heap_current) + FrameSize
                /\ pm' = pmm_reserve_range(pm, page_align(heap_current), heap_current')
                /\ bump' = bump \cup FramesTouched(page_align(heap_current), heap_current')
                /\ UNCHANGED <<held, boot>>

Next == \/ AllocFrame
        \/ \E n \in Counts : AllocContiguous(n)
        \/ \E f \in Frames : Retain(f)
        \/ \E f \in Frames : Release(f)
        \/ \E n \in HeapSizes : kmalloc(n)
        \/ kmalloc_page

Spec == Init /\ [][Next]_vars
------------------------------------------------------------------------------
TypeOK == /\ pm \in PmmStates
          /\ heap_current \in Nat
          /\ held \in [Frames -> Nat]
          /\ bump \subseteq Frames
          /\ boot \subseteq Frames

\* s_free_count, which the allocator maintains by increments and decrements
\* on six paths, is always the number of clear bits in the bitmap.
FreeCountExact == pm.free_count = Cardinality(Frames \ pm.used)

\* pmm_alloc_frame fails only when no frame is free: the counter test and the
\* wrapping scan from s_next_free never disagree ("pmm: bitmap inconsistency!").
AllocFailsOnlyWhenFull == alloc_result(pm) = None <=> pm.used = Frames

\* A frame's bit is set exactly while its refcount is not zero, and the count
\* of a frame somebody holds is the number of references they hold: one
\* holder's release never frees a frame under another holder.
RefcountCoversHolders ==
    \A f \in Frames :
        /\ f \in pm.used <=> pm.refcount[f] > 0
        /\ held[f] > 0 => pm.refcount[f] = held[f]

\* Every used frame is accounted for: held by a caller, reserved by pmm_init,
\* or crossed by the bump allocator.  Balanced releases leak no frame.
NoFrameLeaked ==
    \A f \in pm.used : held[f] > 0 \/ f \in boot \/ f \in bump

\* No frame is freed under a holder, lost, or handed out twice, whatever the
\* callers of pmm.c and the bump allocator did.
FramesKept == TypeOK /\ FreeCountExact /\ RefcountCoversHolders /\ NoFrameLeaked

==============================================================================
