------------------------------- MODULE PmmOps -------------------------------
(***************************************************************************)
(* The physical frame allocator of kernel/pmm.c as operators on its state. *)
(*                                                                         *)
(* The bitmap s_bitmap is the set pm.used of frame indices whose bit is 1, *)
(* s_refcount is pm.refcount, s_free_count is pm.free_count and            *)
(* s_next_free is pm.next_free.  Physical addresses are numbers; frame i   *)
(* covers PmmBase + i * FrameSize up to the next frame.  An operation that *)
(* fails returns None for the frame (the code returns physical address 0). *)
(***************************************************************************)
EXTENDS Integers, FiniteSets, FiniteSetsExt

CONSTANTS NumFrames,   \* s_managed_frames
          MaxRef,      \* 0xFFFF, the largest unsigned short
          FrameSize,   \* PMM_FRAME_SIZE
          PmmBase      \* PMM_BASE

ASSUME PmmAssumption == /\ NumFrames \in Nat \ {0}
                        /\ MaxRef \in Nat \ {0}
                        /\ FrameSize \in Nat \ {0}
                        /\ PmmBase \in Nat

Frames == 0 .. NumFrames - 1

None == -1

MaxPhys == PmmBase + NumFrames * FrameSize

\* The states a pmm.c bitmap, refcount table and counters can be in.
PmmStates == [used : SUBSET Frames, refcount : [Frames -> 0 .. MaxRef],
              free_count : 0 .. NumFrames, next_free : Frames]

\* The bitmap, the refcounts and the free counter agree with one another.
PmmConsistent(p) ==
    /\ p \in PmmStates
    /\ p.free_count = Cardinality(Frames \ p.used)
    /\ \A f \in Frames : f \in p.used <=> p.refcount[f] > 0

idx_to_addr(idx) == PmmBase + idx * FrameSize

\* The frames a byte range touches (bounds rounded outwards) and the frames
\* it covers completely (bounds rounded inwards), inside the managed window.
FramesTouched(start, end) ==
    {f \in Frames : idx_to_addr(f) < end /\ start < idx_to_addr(f + 1)
                    /\ start < end}

FramesCovered(start, end) ==
    {f \in Frames : start <= idx_to_addr(f) /\ idx_to_addr(f + 1) <= end}

(***************************************************************************)
(* pmm_init: every frame starts used with refcount 1; the usable E820      *)
(* ranges are freed; the boot ranges are marked used again.                *)
(***************************************************************************)
pmm_init(usable, reserved) ==
    LET freed == UNION {FramesCovered(r[1], r[2]) : r \in usable}
        kept  == UNION {FramesTouched(r[1], r[2]) : r \in reserved}
        used  == (Frames \ freed) \cup kept
    IN  [used |-> used,
         refcount |-> [f \in Frames |-> IF f \in used THEN 1 ELSE 0],
         free_count |-> Cardinality(Frames \ used),
         next_free |-> 0]

\* pmm_reserve_range once s_ready is set: a frame already used keeps its count.
pmm_reserve_range(pm, start, end) ==
    LET fresh == FramesTouched(start, end) \ pm.used
        left  == pm.free_count - Cardinality(fresh)
    IN  [pm EXCEPT !.used = @ \cup FramesTouched(start, end),
                   !.refcount = [f \in Frames |->
                                   IF f \in FramesTouched(start, end) /\ @[f] = 0
                                   THEN 1 ELSE @[f]],
                   !.free_count = IF left > 0 THEN left ELSE 0]

\* Mutant: the scan stops at the end of the bitmap instead of wrapping.
MutScanNoWrap(pm) ==
    LET clear == {i \in pm.next_free .. NumFrames - 1 : i \notin pm.used}
    IN  IF clear = {} THEN None ELSE Min(clear)

\* The first clear bit at or after s_next_free, wrapping round the bitmap.
first_free(pm) ==
    LET clear == {i \in 0 .. NumFrames - 1 :
                    (pm.next_free + i) % NumFrames \notin pm.used}
    IN  IF clear = {} THEN None
        ELSE (pm.next_free + Min(clear)) % NumFrames

alloc_result(pm) == IF pm.free_count = 0 THEN None ELSE first_free(pm)

pmm_alloc_frame(pm) ==
    LET idx == alloc_result(pm)
    IN  IF idx = None THEN pm
        ELSE [used |-> pm.used \cup {idx},
              refcount |-> [pm.refcount EXCEPT ![idx] = 1],
              free_count |-> pm.free_count - 1,
              next_free |-> (idx + 1) % NumFrames]

\* The lowest run of count clear bits.
free_run(used, count) ==
    LET starts == {s \in Frames : s + count <= NumFrames
                                  /\ (s .. s + count - 1) \cap used = {}}
    IN  IF starts = {} THEN None ELSE Min(starts)

contiguous_result(pm, count) ==
    IF count = 0 \/ count > pm.free_count \/ count > NumFrames
    THEN None ELSE free_run(pm.used, count)

\* Mutant: the marking loop runs one frame past the run that is returned.
MutContiguousOneMore(pm, count) ==
    LET start == contiguous_result(pm, count)
        run   == (start .. start + count) \cap (Frames \ pm.used)
    IN  IF start = None THEN pm
        ELSE [used |-> pm.used \cup run,
              refcount |-> [f \in Frames |->
                              IF f \in run THEN 1 ELSE pm.refcount[f]],
              free_count |-> pm.free_count - Cardinality(run),
              next_free |-> (start + count) % NumFrames]

pmm_alloc_contiguous_frames(pm, count) ==
    LET start == contiguous_result(pm, count)
    IN  IF start = None THEN pm
        ELSE [used |-> pm.used \cup (start .. start + count - 1),
              refcount |-> [f \in Frames |->
                              IF f \in start .. start + count - 1 THEN 1
                              ELSE pm.refcount[f]],
              free_count |-> pm.free_count - count,
              next_free |-> (start + count) % NumFrames]

retain_ok(pm, f) == f \in pm.used /\ pm.refcount[f] # MaxRef

pmm_retain_frame(pm, f) ==
    IF retain_ok(pm, f) THEN [pm EXCEPT !.refcount[f] = @ + 1] ELSE pm

release_ok(pm, f) == f \in pm.used /\ pm.refcount[f] # 0

pmm_release_frame(pm, f) ==
    IF ~release_ok(pm, f) THEN pm
    ELSE IF pm.refcount[f] > 1 THEN [pm EXCEPT !.refcount[f] = @ - 1]
    ELSE [used |-> pm.used \ {f},
          refcount |-> [pm.refcount EXCEPT ![f] = 0],
          free_count |-> pm.free_count + 1,
          next_free |-> IF f < pm.next_free THEN f ELSE pm.next_free]
=============================================================================
