---------------------------- MODULE FrameFacts ------------------------------
(***************************************************************************)
(* What the operations on one frame do to the allocator, and what the      *)
(* operations of Cow on slots do to the frames: each keeps the reference   *)
(* counts exact, changes the slot it is about, and leaves what the other   *)
(* slots hold as it was.                                                   *)
(*                                                                         *)
(* The facts on least elements and on the size of sets that this takes are *)
(* named here (FrameSizes, SlotSizes) and proved from the library of       *)
(* theorems on finite sets in MemoryProofs, so that the library is not     *)
(* part of every proof.                                                    *)
(***************************************************************************)
EXTENDS Cow, Pmm, TLAPS

(* A nonempty set of natural numbers has a least element, which Min        *)
(* returns.                                                                *)
LeastElements == \A S \in SUBSET Nat : S # {} => /\ Min(S) \in S
                                                 /\ \A y \in S : Min(S) <= y

(* How Cardinality counts the subsets of B.                                *)
Sizes(B) ==
    \A S \in SUBSET B :
        /\ Cardinality(S) \in Nat
        /\ Cardinality(S) = 0 <=> S = {}
        /\ Cardinality(S) = 1 <=> \E e \in B : S = {e}
        /\ \A e \in B \ S : Cardinality(S \cup {e}) = Cardinality(S) + 1
        /\ \A e \in S : Cardinality(S \ {e}) = Cardinality(S) - 1

FrameSizes == /\ LeastElements /\ Sizes(Frames)
              /\ \A S \in SUBSET Frames :
                    /\ Cardinality(S) \in 0 .. NumFrames
                    /\ \A T \in SUBSET S : Cardinality(S \ T) = Cardinality(S) - Cardinality(T)
              /\ \A m, n \in Nat : Cardinality(m .. m + n - 1) = n

SlotSizes == Sizes(Slots)

(* Counting with one element more, and with one less.                      *)
LEMMA OneMoreOrLess ==
    ASSUME NEW B, Sizes(B), NEW S, S \subseteq B, NEW e
    PROVE  /\ e \in B /\ e \notin S => Cardinality(S \cup {e}) = Cardinality(S) + 1
           /\ e \in S => Cardinality(S \ {e}) = Cardinality(S) - 1
  BY Zenon DEF Sizes

(* The wrapping scan of pmm_alloc_frame stays inside the window.           *)
LEMMA ModIsFrame == \A n \in Nat : n % NumFrames \in Frames
  BY PmmAssumption DEF Frames

\* The wrapping scan returns a clear bit, and finds one whenever there is one.
LEMMA FirstFreeIsFree ==
    ASSUME LeastElements, NEW p \in PmmStates
    PROVE  /\ first_free(p) = None \/ first_free(p) \in Frames \ p.used
           /\ first_free(p) = None <=> p.used = Frames
<1> DEFINE clear == {i \in 0 .. NumFrames - 1 :
                       (p.next_free + i) % NumFrames \notin p.used}
<1>1. /\ p.used \in SUBSET Frames /\ p.next_free \in Frames
      /\ p.next_free \in Nat
  BY DEF PmmStates, Frames
<1>2. first_free(p) = IF clear = {} THEN None
                      ELSE (p.next_free + Min(clear)) % NumFrames
  BY Zenon DEF first_free
<1>3. ASSUME clear # {}
      PROVE  (p.next_free + Min(clear)) % NumFrames \in Frames \ p.used
  <2>1. clear \in SUBSET Nat
    OBVIOUS
  <2>2. Min(clear) \in clear
    <3> HIDE DEF clear
    <3>. QED  BY <2>1, <1>3, Zenon DEF LeastElements
  <2>3. \A i \in clear : (p.next_free + i) % NumFrames \in Frames \ p.used
    BY <1>1, ModIsFrame
  <2> HIDE DEF clear
  <2>. QED  BY <2>2, <2>3, Zenon
<1>4. ASSUME NEW f \in Frames \ p.used PROVE clear # {}
  <2> DEFINE i == IF f >= p.next_free THEN f - p.next_free
                  ELSE f + NumFrames - p.next_free
  <2>1. /\ f \in Nat /\ f < NumFrames /\ p.next_free < NumFrames
        /\ NumFrames \in Nat \ {0}
    BY <1>1, PmmAssumption DEF Frames
  <2>2. i \in 0 .. NumFrames - 1
    BY <2>1, <1>1
  <2>3. (p.next_free + i) % NumFrames = f
    <3>1. CASE f >= p.next_free
      <4>1. p.next_free + i = f
        BY <3>1, <2>1, <1>1
      <4>. QED  BY <4>1, <2>1
    <3>2. CASE ~(f >= p.next_free)
      <4>1. p.next_free + i = f + NumFrames
        BY <3>2, <2>1, <1>1
      <4>2. (f + NumFrames) % NumFrames = f
        BY <2>1
      <4>. QED  BY <4>1, <4>2, Zenon
    <3>. QED  BY <3>1, <3>2, Zenon
  <2>4. i \in clear
    BY <2>2, <2>3, Zenon
  <2>. QED  BY <2>4, Zenon
<1>5. None \notin Frames
  BY DEF None, Frames
<1>6. CASE clear = {}
  <2>1. Frames \ p.used = {}
    BY <1>4, <1>6, Zenon
  <2>2. p.used = Frames
    BY <2>1, <1>1, Zenon
  <2>. QED  BY <1>6, <1>2, <2>2, Zenon
<1>7. CASE clear # {}
  BY <1>7, <1>2, <1>3, <1>5, Zenon
<1>. QED  BY <1>6, <1>7, Zenon


(***************************************************************************)
(* Each operation keeps the bitmap, the refcounts and the counter together.*)
(***************************************************************************)

\* pmm_init leaves a consistent allocator whatever the boot memory map says.
LEMMA InitConsistent ==
    ASSUME FrameSizes, NEW usable, NEW reserved
    PROVE  PmmConsistent(pmm_init(usable, reserved))
<1> DEFINE freed == UNION {FramesCovered(r[1], r[2]) : r \in usable}
           kept  == UNION {FramesTouched(r[1], r[2]) : r \in reserved}
           used  == (Frames \ freed) \cup kept
           refs  == [f \in Frames |-> IF f \in used THEN 1 ELSE 0]
<1>1. kept \subseteq Frames
  BY Zenon DEF FramesTouched
<1>2. used \in SUBSET Frames
  BY <1>1, Zenon
<1>3. pmm_init(usable, reserved) =
        [used |-> used, refcount |-> refs,
         free_count |-> Cardinality(Frames \ used), next_free |-> 0]
  BY Zenon DEF pmm_init
<1> HIDE DEF freed, kept, used
<1>4. refs \in [Frames -> 0 .. MaxRef]
  BY PmmAssumption
<1>5. Frames \ used \in SUBSET Frames
  OBVIOUS
<1>6. Cardinality(Frames \ used) \in 0 .. NumFrames
  BY <1>5, Zenon DEF FrameSizes
<1>7. 0 \in Frames
  BY PmmAssumption DEF Frames
<1>. QED
  BY <1>2, <1>3, <1>4, <1>6, <1>7 DEF PmmConsistent, PmmStates

(* pmm_alloc_frame returns a free frame with count 1, or fails, and then   *)
(* the window is full and nothing has changed.                             *)
LEMMA AllocConsistent ==
    ASSUME FrameSizes, NEW p, PmmConsistent(p)
    PROVE  /\ PmmConsistent(pmm_alloc_frame(p))
           /\ alloc_result(p) = None <=> p.used = Frames
           /\ alloc_result(p) # None =>
                 /\ alloc_result(p) \in Frames \ p.used
                 /\ pmm_alloc_frame(p).used = p.used \cup {alloc_result(p)}
                 /\ pmm_alloc_frame(p).refcount =
                       [p.refcount EXCEPT ![alloc_result(p)] = 1]
           /\ alloc_result(p) = None => pmm_alloc_frame(p) = p
<1> DEFINE idx == alloc_result(p)
<1>1. /\ p \in PmmStates /\ p.used \in SUBSET Frames
      /\ p.refcount \in [Frames -> 0 .. MaxRef]
      /\ p.free_count = Cardinality(Frames \ p.used)
      /\ \A f \in Frames : f \in p.used <=> p.refcount[f] > 0
  BY Zenon DEF PmmConsistent, PmmStates
<1>2. p.free_count = 0 <=> Frames \ p.used = {}
  BY <1>1 DEF FrameSizes, Sizes
<1>3. idx = None <=> p.used = Frames
  BY <1>1, <1>2, FirstFreeIsFree, Zenon DEF alloc_result, FrameSizes
<1>4. idx # None => idx \in Frames \ p.used
  BY <1>1, FirstFreeIsFree, Zenon DEF alloc_result, FrameSizes
<1>5. CASE idx = None
  BY <1>5, <1>3, Zenon DEF pmm_alloc_frame
<1>6. CASE idx # None
  <2> DEFINE q == [used |-> p.used \cup {idx},
                   refcount |-> [p.refcount EXCEPT ![idx] = 1],
                   free_count |-> p.free_count - 1,
                   next_free |-> (idx + 1) % NumFrames]
  <2>1. pmm_alloc_frame(p) = q
    BY <1>6, Zenon DEF pmm_alloc_frame
  <2>2. idx \in Frames \ p.used
    BY <1>4, <1>6, Zenon
  <2> HIDE DEF idx
  <2>3. Frames \ (p.used \cup {idx}) = (Frames \ p.used) \ {idx}
    OBVIOUS
  <2>4. Cardinality(Frames \ (p.used \cup {idx})) = p.free_count - 1
    <3>1. Frames \ p.used \in SUBSET Frames
      OBVIOUS
    <3>2. Sizes(Frames)
      BY Zenon DEF FrameSizes
    <3>3. Cardinality((Frames \ p.used) \ {idx}) = Cardinality(Frames \ p.used) - 1
      BY <3>1, <3>2, <2>2, OneMoreOrLess, Zenon
    <3>. QED  BY <3>3, <2>3, <1>1, Zenon
  <2>5. Cardinality(Frames \ (p.used \cup {idx})) \in 0 .. NumFrames
    <3>1. Frames \ (p.used \cup {idx}) \in SUBSET Frames
      OBVIOUS
    <3>. QED  BY <3>1, Zenon DEF FrameSizes
  <2>6. (idx + 1) % NumFrames \in Frames
    BY <2>2, ModIsFrame DEF Frames
  <2>7. [p.refcount EXCEPT ![idx] = 1] \in [Frames -> 0 .. MaxRef]
    <3>1. 1 \in 0 .. MaxRef
      BY PmmAssumption
    <3>. QED  BY <3>1, <1>1, Zenon
  <2>8. q \in PmmStates
    BY <2>2, <2>4, <2>5, <2>6, <2>7, <1>1, Zenon DEF PmmStates
  <2>9. \A f \in Frames : f \in q.used <=> q.refcount[f] > 0
    BY <2>2, <1>1
  <2>10. PmmConsistent(q)
    BY <2>4, <2>8, <2>9, Zenon DEF PmmConsistent
  <2>. QED  BY <2>1, <2>2, <2>10, <1>3, <1>6 DEF idx
<1>. QED  BY <1>5, <1>6, Zenon


(* pmm_retain_frame adds one to the count of a used frame whose count is   *)
(* not at its limit, and otherwise changes nothing.                        *)
LEMMA RetainConsistent ==
    ASSUME NEW p, PmmConsistent(p), NEW f \in Frames
    PROVE  /\ PmmConsistent(pmm_retain_frame(p, f))
           /\ pmm_retain_frame(p, f).used = p.used
           /\ pmm_retain_frame(p, f).refcount =
                IF retain_ok(p, f) THEN [p.refcount EXCEPT ![f] = @ + 1]
                ELSE p.refcount
<1>1. CASE ~retain_ok(p, f)
  BY <1>1, Zenon DEF pmm_retain_frame
<1>2. CASE retain_ok(p, f)
  <2>1. /\ p \in PmmStates /\ p.refcount \in [Frames -> 0 .. MaxRef]
        /\ f \in p.used /\ p.refcount[f] # MaxRef /\ p.refcount[f] > 0
    BY <1>2, Zenon DEF PmmConsistent, PmmStates, retain_ok
  <2>2. pmm_retain_frame(p, f) =
          [p EXCEPT !.refcount = [p.refcount EXCEPT ![f] = @ + 1]]
    BY <1>2, Zenon DEF pmm_retain_frame
  <2>3. p.refcount[f] + 1 \in 0 .. MaxRef
    BY <2>1, PmmAssumption
  <2>4. [p.refcount EXCEPT ![f] = @ + 1] \in [Frames -> 0 .. MaxRef]
    BY <2>1, <2>3, Zenon
  <2>. QED  BY <2>1, <2>2, <2>3, <2>4, <1>2 DEF PmmConsistent, PmmStates
<1>. QED  BY <1>1, <1>2, Zenon

(* pmm_release_frame takes one from the count of a used frame and refuses  *)
(* a free one.                                                             *)
LEMMA ReleaseConsistent ==
    ASSUME FrameSizes, NEW p, PmmConsistent(p), NEW f \in Frames
    PROVE  /\ PmmConsistent(pmm_release_frame(p, f))
           /\ f \in p.used =>
                /\ pmm_release_frame(p, f).refcount =
                     [p.refcount EXCEPT ![f] = @ - 1]
                /\ pmm_release_frame(p, f).used \in {p.used, p.used \ {f}}
           /\ f \notin p.used => pmm_release_frame(p, f) = p
<1>1. /\ p \in PmmStates /\ p.used \in SUBSET Frames
      /\ p.refcount \in [Frames -> 0 .. MaxRef]
      /\ p.free_count = Cardinality(Frames \ p.used)
      /\ p.free_count \in 0 .. NumFrames /\ p.next_free \in Frames
      /\ \A g \in Frames : g \in p.used <=> p.refcount[g] > 0
  BY Zenon DEF PmmConsistent, PmmStates
<1>2. CASE f \notin p.used
  BY <1>2, Zenon DEF pmm_release_frame, release_ok
<1>3. CASE f \in p.used /\ p.refcount[f] > 1
  <2>1. pmm_release_frame(p, f) =
          [p EXCEPT !.refcount = [p.refcount EXCEPT ![f] = @ - 1]]
    BY <1>3, <1>1 DEF pmm_release_frame, release_ok
  <2>2. p.refcount[f] - 1 \in 0 .. MaxRef /\ p.refcount[f] - 1 > 0
    BY <1>3, <1>1, PmmAssumption
  <2>3. [p.refcount EXCEPT ![f] = @ - 1] \in [Frames -> 0 .. MaxRef]
    BY <2>2, <1>1, Zenon
  <2>. QED  BY <2>1, <2>2, <2>3, <1>1, <1>3, Zenon DEF PmmConsistent, PmmStates
<1>4. CASE f \in p.used /\ ~(p.refcount[f] > 1)
  <2> DEFINE nf == IF f < p.next_free THEN f ELSE p.next_free
             q == [used |-> p.used \ {f},
                   refcount |-> [p.refcount EXCEPT ![f] = 0],
                   free_count |-> p.free_count + 1,
                   next_free |-> nf]
  <2>1. p.refcount[f] = 1
    BY <1>4, <1>1
  <2>2. pmm_release_frame(p, f) = q
    BY <2>1, <1>4 DEF pmm_release_frame, release_ok
  <2>3. Frames \ (p.used \ {f}) = (Frames \ p.used) \cup {f}
    BY <1>1, Zenon
  <2>4. Cardinality((Frames \ p.used) \cup {f}) = Cardinality(Frames \ p.used) + 1
    <3>1. Frames \ p.used \in SUBSET Frames /\ f \in Frames \ (Frames \ p.used)
      BY <1>4, Zenon
    <3>2. Sizes(Frames)
      BY Zenon DEF FrameSizes
    <3>. QED  BY <3>1, <3>2, OneMoreOrLess, Zenon
  <2>5. Cardinality(Frames \ (p.used \ {f})) \in 0 .. NumFrames
    <3>1. Frames \ (p.used \ {f}) \in SUBSET Frames
      OBVIOUS
    <3>. QED  BY <3>1, Zenon DEF FrameSizes
  <2>6. nf \in Frames
    BY <1>1, Zenon
  <2>7. [p.refcount EXCEPT ![f] = 0] \in [Frames -> 0 .. MaxRef]
    <3>1. 0 \in 0 .. MaxRef
      BY PmmAssumption
    <3>. QED  BY <3>1, <1>1, Zenon
  <2>8. [p.refcount EXCEPT ![f] = 0] = [p.refcount EXCEPT ![f] = @ - 1]
    BY <2>1, <1>1
  <2>9. q \in PmmStates
    BY <2>3, <2>4, <2>5, <2>6, <2>7, <1>1, SMTT(30) DEF PmmStates
  <2>10. \A g \in Frames : g \in q.used <=> q.refcount[g] > 0
    BY <1>1
  <2>11. PmmConsistent(q)
    BY <2>3, <2>4, <2>9, <2>10, <1>1, Zenon DEF PmmConsistent
  <2>. QED  BY <2>2, <2>8, <2>11, <1>4
<1>. QED  BY <1>2, <1>3, <1>4, Zenon
(* Slots are told apart by their owner, kind and index.                    *)
LEMMA SlotNames ==
    /\ \A p \in Procs, v \in Pages :
          /\ Pg(p, v) \in PageSlots /\ Pg(p, v) \in Slots /\ Tb(p, v) \in Slots \ PageSlots
          /\ Pg(p, v)[1] = p /\ Tb(p, v)[1] = p
    /\ \A p \in Procs : Pd(p) \in Slots \ PageSlots /\ Pd(p)[1] = p
    /\ \A i \in CacheIdx : Ca(i) \in Slots \ PageSlots /\ Ca(i)[1] \notin Procs
<1>1. ASSUME NEW p \in Procs, NEW v \in Pages
      PROVE  Pg(p, v) \in PageSlots /\ Pg(p, v) \in Slots /\ Pg(p, v)[1] = p
  BY Zenon DEF Pg, PageSlots, Slots
<1>2. ASSUME NEW p \in Procs, NEW v \in Pages
      PROVE  Tb(p, v) \in Slots \ PageSlots /\ Tb(p, v)[1] = p
  BY Zenon DEF Tb, PageSlots, Slots, Tables
<1>3. ASSUME NEW p \in Procs PROVE Pd(p) \in Slots \ PageSlots /\ Pd(p)[1] = p
  BY Zenon DEF Pd, PageSlots, Slots
<1>4. ASSUME NEW i \in CacheIdx PROVE Ca(i) \in Slots \ PageSlots /\ Ca(i)[1] \notin Procs
  BY CowAssumption, Zenon DEF Ca, PageSlots, Slots
<1>. QED  BY <1>1, <1>2, <1>3, <1>4, Zenon

(* Page table entries, page tables, page directories and cache entries are *)
(* different places.                                                       *)
LEMMA SlotsDiffer ==
    /\ \A p, q \in Procs : \A u, v \in Pages :
          /\ Pg(p, u) = Pg(q, v) <=> p = q /\ u = v
          /\ Tb(p, u) = Tb(q, v) <=> p = q /\ u \div PerTable = v \div PerTable
          /\ Pg(p, u) # Tb(q, v)
    /\ \A p, q \in Procs : Pd(p) = Pd(q) <=> p = q
    /\ \A p, q \in Procs, v \in Pages : Pd(p) # Pg(q, v) /\ Pd(p) # Tb(q, v)
    /\ \A i, j \in CacheIdx : Ca(i) = Ca(j) <=> i = j
    /\ \A i \in CacheIdx, p \in Procs, v \in Pages :
          Ca(i) # Pg(p, v) /\ Ca(i) # Tb(p, v) /\ Ca(i) # Pd(p)
<1>1. ASSUME NEW p \in Procs, NEW q \in Procs, NEW u \in Pages, NEW v \in Pages
      PROVE  /\ Pg(p, u) = Pg(q, v) <=> p = q /\ u = v
             /\ Tb(p, u) = Tb(q, v) <=> p = q /\ u \div PerTable = v \div PerTable
             /\ Pg(p, u) # Tb(q, v) /\ Pd(p) # Pg(q, v) /\ Pd(p) # Tb(q, v)
  BY Zenon DEF Pg, Tb, Pd
<1>2. ASSUME NEW p \in Procs, NEW q \in Procs PROVE Pd(p) = Pd(q) <=> p = q
  BY Zenon DEF Pd
<1>3. ASSUME NEW i \in CacheIdx, NEW j \in CacheIdx PROVE Ca(i) = Ca(j) <=> i = j
  BY Zenon DEF Ca
<1>4. ASSUME NEW i \in CacheIdx, NEW p \in Procs, NEW v \in Pages
      PROVE  Ca(i) # Pg(p, v) /\ Ca(i) # Tb(p, v) /\ Ca(i) # Pd(p)
  BY CowAssumption, Zenon DEF Ca, Pg, Tb, Pd
<1>. QED  BY <1>1, <1>2, <1>3, <1>4

(* Every slot is one of the four kinds.                                    *)
LEMMA SlotKinds ==
    /\ \A s \in PageSlots : \E p \in Procs, v \in Pages : s = Pg(p, v)
    /\ \A s \in Slots : \/ \E p \in Procs, v \in Pages : s = Pg(p, v) \/ s = Tb(p, v)
                        \/ \E p \in Procs : s = Pd(p)
                        \/ \E i \in CacheIdx : s = Ca(i)
<1>1. ASSUME NEW s \in PageSlots PROVE \E p \in Procs, v \in Pages : s = Pg(p, v)
  BY DEF PageSlots, Pg
<1>2. ASSUME NEW s \in Procs \X {"table"} \X Tables
      PROVE  \E p \in Procs, v \in Pages : s = Tb(p, v)
  BY DEF Tables, Tb
<1>3. ASSUME NEW s \in Procs \X {"pd"} \X {0} PROVE \E p \in Procs : s = Pd(p)
  BY DEF Pd
<1>4. ASSUME NEW s \in {"cache"} \X {"slot"} \X CacheIdx PROVE \E i \in CacheIdx : s = Ca(i)
  BY DEF Ca
<1>. QED  BY <1>1, <1>2, <1>3, <1>4, Zenon DEF Slots

-----------------------------------------------------------------------------
(* The reference counts are exact, but for one reference to g that nobody  *)
(* holds any more (None: no such reference).                               *)
Over(x, g) ==
    /\ x \in KStates /\ PmmConsistent(x.pm)
    /\ FrameSizes /\ SlotSizes
    /\ \A f \in Frames : x.pm.refcount[f] = Cardinality(Holders(x, f))
                                            + (IF f = g THEN 1 ELSE 0)

Counted(x) == Over(x, None)

(* Address 0, by which pmm.c reports failure, is no frame.                 *)
LEMMA NoneIsNoFrame == None \notin Frames /\ \A f \in Frames : f \in Nat
  BY PmmAssumption DEF None, Frames

(* The parts of the state of paging.c and their types.                     *)
LEMMA KTypes ==
    ASSUME NEW x \in KStates
    PROVE  /\ x.pm \in PmmStates /\ x.hold \in [Slots -> Frames \cup {None}]
           /\ x.flag \in [PageSlots -> Flags] /\ x.mem \in [Frames -> Contents]
           /\ x = [pm |-> x.pm, hold |-> x.hold, flag |-> x.flag, mem |-> x.mem]
  BY Zenon DEF KStates

(* The number of holders of a frame.                                       *)
LEMMA HoldersCounted ==
    ASSUME SlotSizes, NEW x
    PROVE  \A f \in Frames : /\ Cardinality(Holders(x, f)) \in Nat
                             /\ Cardinality(Holders(x, f)) = 0 <=> Holders(x, f) = {}
<1>1. \A f \in Frames : Holders(x, f) \in SUBSET Slots
  BY Zenon DEF Holders
<1>. QED  BY <1>1, Zenon DEF SlotSizes, Sizes

(* The holders of every frame are counted as slot s turns from its frame   *)
(* to g.                                                                   *)
LEMMA Counting ==
    ASSUME SlotSizes, NEW x, NEW y, x.hold \in [Slots -> Frames \cup {None}], NEW s \in Slots,
           NEW g \in Frames \cup {None}, y.hold = [x.hold EXCEPT ![s] = g]
    PROVE  /\ \A f \in Frames : Cardinality(Holders(x, f)) \in Nat
           /\ \A f \in Frames : Cardinality(Holders(x, f)) = 0 <=> Holders(x, f) = {}
           /\ x.hold[s] # g => \A f \in Frames : Cardinality(Holders(y, f)) =
                IF f = g THEN Cardinality(Holders(x, f)) + 1
                ELSE IF f = x.hold[s] THEN Cardinality(Holders(x, f)) - 1
                ELSE Cardinality(Holders(x, f))
<1>1. ASSUME NEW f \in Frames PROVE Holders(x, f) \in SUBSET Slots
  BY Zenon DEF Holders
<1>2. \A f \in Frames : Cardinality(Holders(x, f)) \in Nat
  BY <1>1, Zenon DEF SlotSizes, Sizes
<1>3. \A f \in Frames : Cardinality(Holders(x, f)) = 0 <=> Holders(x, f) = {}
  BY <1>1, Zenon DEF SlotSizes, Sizes
<1>4. ASSUME x.hold[s] # g, NEW f \in Frames
      PROVE  Cardinality(Holders(y, f)) =
                IF f = g THEN Cardinality(Holders(x, f)) + 1
                ELSE IF f = x.hold[s] THEN Cardinality(Holders(x, f)) - 1
                ELSE Cardinality(Holders(x, f))
  <2>1. CASE f = g
    <3>1. Holders(y, f) = Holders(x, f) \cup {s} /\ s \notin Holders(x, f)
      BY <1>4, <2>1, Zenon DEF Holders
    <3>. QED  BY <1>1, <2>1, <3>1, OneMoreOrLess DEF SlotSizes
  <2>2. CASE f # g /\ f = x.hold[s]
    <3>1. Holders(y, f) = Holders(x, f) \ {s} /\ s \in Holders(x, f)
      BY <1>4, <2>2, Zenon DEF Holders
    <3>. QED  BY <1>1, <2>2, <3>1, OneMoreOrLess DEF SlotSizes
  <2>3. CASE f # g /\ f # x.hold[s]
    <3>1. Holders(y, f) = Holders(x, f)
      BY <1>4, <2>3, SMTT(30) DEF Holders
    <3>. QED  BY <2>3, <3>1, SMTT(30)
  <2>. QED  BY <2>1, <2>2, <2>3, Zenon
<1>. QED  BY <1>2, <1>3, <1>4, SMTT(30)

(* A slot that gets a fresh frame: no slot held that frame before.         *)
LEMMA AllocEffect ==
    ASSUME NEW x, Counted(x), NEW s \in Slots, NEW c \in Contents, CanAlloc(x),
           NEW y, y = AllocInto(x, s, c), NEW f, f = alloc_result(x.pm)
    PROVE  /\ Over(y, x.hold[s])
           /\ f \in Frames /\ \A r \in Slots : x.hold[r] # f
           /\ y.hold = [x.hold EXCEPT ![s] = f] /\ y.flag = x.flag
           /\ y.mem = [x.mem EXCEPT ![f] = c]
<1>1. /\ x \in KStates /\ PmmConsistent(x.pm) /\ FrameSizes /\ SlotSizes
      /\ \A g \in Frames : x.pm.refcount[g] = Cardinality(Holders(x, g))
  <2>1. \A g \in Frames : Cardinality(Holders(x, g)) \in Nat
    BY HoldersCounted, Zenon DEF Counted, Over
  <2>. QED  BY <2>1, NoneIsNoFrame DEF Counted, Over
<1>2. /\ PmmConsistent(pmm_alloc_frame(x.pm)) /\ f \in Frames /\ f \notin x.pm.used
      /\ pmm_alloc_frame(x.pm).refcount = [x.pm.refcount EXCEPT ![f] = 1]
  BY <1>1, AllocConsistent, SMTT(30) DEF CanAlloc
<1>3. /\ y \in KStates /\ y.pm = pmm_alloc_frame(x.pm) /\ y.flag = x.flag
      /\ y.hold = [x.hold EXCEPT ![s] = f] /\ y.mem = [x.mem EXCEPT ![f] = c]
  <2>1. y = [pm |-> pmm_alloc_frame(x.pm), hold |-> [x.hold EXCEPT ![s] = f],
             flag |-> x.flag, mem |-> [x.mem EXCEPT ![f] = c]]
    BY Zenon DEF AllocInto
  <2>2. pmm_alloc_frame(x.pm) \in PmmStates
    BY <1>2, Zenon DEF PmmConsistent
  <2>. QED  BY <1>1, <1>2, <2>1, <2>2, KTypes, SMTT(30) DEF KStates
<1>4. x.pm.refcount \in [Frames -> 0..MaxRef] /\ x.pm.refcount[f] = 0
  BY <1>1, <1>2 DEF PmmConsistent, PmmStates
<1>5. Holders(x, f) = {} /\ \A r \in Slots : x.hold[r] # f
  <2>1. Cardinality(Holders(x, f)) = 0 <=> Holders(x, f) = {}
    BY <1>1, <1>2, <1>3, KTypes, Counting, SMTT(30)
  <2>. QED  BY <1>1, <1>2, <1>4, <2>1, SMTT(30) DEF Holders
<1>6. Over(y, x.hold[s])
  <2> SUFFICES ASSUME NEW g \in Frames
               PROVE  y.pm.refcount[g] = Cardinality(Holders(y, g))
                                         + (IF g = x.hold[s] THEN 1 ELSE 0)
    BY <1>1, <1>2, <1>3, SMTT(30) DEF Over
  <2>1. /\ Cardinality(Holders(x, g)) \in Nat
        /\ Cardinality(Holders(y, g)) = IF g = f THEN Cardinality(Holders(x, g)) + 1
                ELSE IF g = x.hold[s] THEN Cardinality(Holders(x, g)) - 1
                ELSE Cardinality(Holders(x, g))
    BY <1>1, <1>2, <1>3, <1>5, KTypes, Counting, SMTT(30)
  <2>2. x.pm.refcount[g] = Cardinality(Holders(x, g))
    BY <1>1, Zenon
  <2>3. y.pm.refcount[g] = IF g = f THEN 1 ELSE x.pm.refcount[g]
    BY <1>2, <1>3, <1>4
  <2>. QED  BY <1>4, <1>5, <2>1, <2>2, <2>3, SMTT(30)
<1>. QED  BY <1>2, <1>3, <1>5, <1>6, SMTT(30)

(* The reference nobody holds any more is given back.  A frame that still  *)
(* has a holder keeps its contents.                                        *)
LEMMA DropRefEffect ==
    ASSUME NEW x, NEW g \in Frames, Over(x, g), NEW y, y = DropRef(x, g)
    PROVE  /\ Counted(y) /\ y.hold = x.hold /\ y.flag = x.flag
           /\ \A r \in Slots : Held(x, r) => y.mem[x.hold[r]] = x.mem[x.hold[r]]
<1>1. /\ x \in KStates /\ PmmConsistent(x.pm) /\ FrameSizes /\ SlotSizes
      /\ x.hold \in [Slots -> Frames \cup {None}] /\ x.mem \in [Frames -> Contents]
      /\ x.pm.refcount \in [Frames -> 0..MaxRef]
      /\ \A f \in Frames : x.pm.refcount[f] = Cardinality(Holders(x, f))
                                              + (IF f = g THEN 1 ELSE 0)
  BY KTypes, Zenon DEF Over, PmmStates
<1>2. \A f \in Frames : /\ Cardinality(Holders(x, f)) \in Nat
                        /\ Cardinality(Holders(x, f)) = 0 <=> Holders(x, f) = {}
  BY <1>1, HoldersCounted, Zenon
<1>3. g \in x.pm.used
  BY <1>1, <1>2 DEF PmmConsistent
<1>4. /\ PmmConsistent(pmm_release_frame(x.pm, g))
      /\ pmm_release_frame(x.pm, g).refcount = [x.pm.refcount EXCEPT ![g] = @ - 1]
  BY <1>1, <1>3, ReleaseConsistent, Zenon
<1>5. y = [pm |-> pmm_release_frame(x.pm, g), hold |-> x.hold, flag |-> x.flag,
           mem |-> [x.mem EXCEPT ![g] = IF x.pm.refcount[g] = 1 THEN Zero ELSE @]]
  BY Zenon DEF DropRef
<1>6. y \in KStates
  <2>1. Zero \in Contents
    BY SMTT(30) DEF Contents
  <2>. QED  BY <1>1, <1>4, <1>5, <2>1, KTypes, Zenon DEF KStates, PmmConsistent
<1>7. ASSUME NEW f \in Frames PROVE y.pm.refcount[f] = Cardinality(Holders(y, f)) + 0
  <2>1. Holders(y, f) = Holders(x, f)
    BY <1>5, SMTT(30) DEF Holders
  <2>. QED  BY <1>1, <1>2, <1>4, <1>5, <2>1, SMTT(30)
<1>8. ASSUME NEW r \in Slots, Held(x, r) PROVE y.mem[x.hold[r]] = x.mem[x.hold[r]]
  <2>1. x.hold[r] \in Frames /\ Holders(x, x.hold[r]) # {}
    BY <1>1, <1>8, SMTT(30) DEF Held, Holders
  <2>2. x.hold[r] = g => x.pm.refcount[g] # 1
    BY <1>1, <1>2, <2>1, SMTT(30)
  <2>. QED  BY <1>1, <1>5, <2>1, <2>2, SMTT(30)
<1>9. Counted(y)
  BY <1>1, <1>4, <1>5, <1>6, <1>7, NoneIsNoFrame, SMTT(30) DEF Counted, Over
<1>. QED  BY <1>5, <1>8, <1>9, SMTT(30)

(* A slot gives its frame back.                                            *)
LEMMA DropEffect ==
    ASSUME NEW x, Counted(x), NEW s \in Slots, Held(x, s), NEW y, y = Drop(x, s)
    PROVE  /\ Counted(y) /\ y.hold = [x.hold EXCEPT ![s] = None] /\ y.flag = x.flag
           /\ \A r \in Slots \ {s} : Held(x, r) => y.mem[x.hold[r]] = x.mem[x.hold[r]]
<1> DEFINE g == x.hold[s]
           z == [pm |-> x.pm, hold |-> [x.hold EXCEPT ![s] = None], flag |-> x.flag,
                 mem |-> x.mem]
<1>1. /\ x \in KStates /\ PmmConsistent(x.pm) /\ FrameSizes /\ SlotSizes
      /\ \A f \in Frames : x.pm.refcount[f] = Cardinality(Holders(x, f)) + 0
  BY NoneIsNoFrame, Zenon DEF Counted, Over
<1>2. g \in Frames /\ x.hold \in [Slots -> Frames \cup {None}]
  BY <1>1, KTypes, Zenon DEF Held
<1>3. z \in KStates
  BY <1>1, KTypes, Zenon DEF KStates
<1>4. ASSUME NEW f \in Frames
      PROVE  z.pm.refcount[f] = Cardinality(Holders(z, f)) + (IF f = g THEN 1 ELSE 0)
  <2>1. z.hold = [x.hold EXCEPT ![s] = None] /\ z.pm = x.pm
    BY Zenon
  <2>2. /\ Cardinality(Holders(x, f)) \in Nat
        /\ Cardinality(Holders(z, f)) = IF f = g THEN Cardinality(Holders(x, f)) - 1
                                        ELSE Cardinality(Holders(x, f))
    <3> HIDE DEF z
    <3>. QED  BY <1>1, <1>2, <2>1, Counting, NoneIsNoFrame, SMTT(30)
  <2>3. x.pm.refcount[f] = Cardinality(Holders(x, f))
    BY <1>1, <2>2, SMTT(30)
  <2> HIDE DEF z, g
  <2>. QED  BY <2>1, <2>2, <2>3
<1>5. Over(z, g)
  BY <1>1, <1>3, <1>4, SMTT(30) DEF Over
<1>6. y = DropRef(z, g)
  BY <1>1, KTypes, Zenon DEF Drop, DropRef
<1>7. \A r \in Slots \ {s} : Held(x, r) => Held(z, r) /\ z.hold[r] = x.hold[r]
  BY <1>2, Zenon DEF Held
<1>8. z.hold = [x.hold EXCEPT ![s] = None] /\ z.flag = x.flag /\ z.mem = x.mem
  BY Zenon
<1> HIDE DEF z, g
<1>. QED  BY <1>2, <1>5, <1>6, <1>7, <1>8, DropRefEffect, SMTT(30)

(* An empty slot shares the frame of another one.                          *)
LEMMA ShareEffect ==
    ASSUME NEW x, Counted(x), NEW s \in Slots, ~Held(x, s),
           NEW r \in Slots, Held(x, r), CanShare(x, r), NEW y, y = ShareInto(x, s, r)
    PROVE  /\ Counted(y) /\ y.hold = [x.hold EXCEPT ![s] = x.hold[r]]
           /\ y.flag = x.flag /\ y.mem = x.mem
<1> DEFINE g == x.hold[r]
<1>1. /\ x \in KStates /\ PmmConsistent(x.pm) /\ FrameSizes /\ SlotSizes
      /\ x.hold \in [Slots -> Frames \cup {None}] /\ x.pm.refcount \in [Frames -> 0..MaxRef]
      /\ \A f \in Frames : x.pm.refcount[f] = Cardinality(Holders(x, f)) + 0
  BY NoneIsNoFrame, KTypes, SMTT(30) DEF Counted, Over, PmmStates
<1>2. g \in Frames /\ x.hold[s] = None /\ g # None
  BY <1>1, Zenon DEF Held
<1>3. y = [pm |-> pmm_retain_frame(x.pm, g), hold |-> [x.hold EXCEPT ![s] = g],
           flag |-> x.flag, mem |-> x.mem]
  BY Zenon DEF ShareInto
<1>4. /\ PmmConsistent(pmm_retain_frame(x.pm, g))
      /\ pmm_retain_frame(x.pm, g).refcount = [x.pm.refcount EXCEPT ![g] = @ + 1]
  BY <1>1, <1>2, RetainConsistent, ZenonT(30) DEF CanShare
<1>5. /\ y \in KStates /\ y.pm = pmm_retain_frame(x.pm, g)
      /\ y.hold = [x.hold EXCEPT ![s] = g] /\ y.flag = x.flag /\ y.mem = x.mem
  BY <1>1, <1>2, <1>3, <1>4, KTypes, SMTT(30) DEF KStates, PmmConsistent
<1> HIDE DEF g
<1>6. ASSUME NEW f \in Frames PROVE y.pm.refcount[f] = Cardinality(Holders(y, f)) + 0
  <2>1. /\ Cardinality(Holders(x, f)) \in Nat
        /\ Cardinality(Holders(y, f)) = IF f = g THEN Cardinality(Holders(x, f)) + 1
                                        ELSE Cardinality(Holders(x, f))
    BY <1>1, <1>2, <1>5, Counting, NoneIsNoFrame, SMTT(30)
  <2>2. x.pm.refcount[f] = Cardinality(Holders(x, f))
    BY <1>1, <2>1, SMTT(30)
  <2>3. y.pm.refcount[f] = IF f = g THEN x.pm.refcount[f] + 1 ELSE x.pm.refcount[f]
    BY <1>1, <1>4, <1>5, Zenon
  <2>. QED  BY <2>1, <2>2, <2>3
<1>7. Counted(y)
  BY <1>1, <1>4, <1>5, <1>6, NoneIsNoFrame, Zenon DEF Counted, Over
<1>. QED  BY <1>5, <1>7, Zenon DEF g

(* A slot gets a fresh frame, and gives back the one it held, if any.      *)
LEMMA ReplaceEffect ==
    ASSUME NEW x, Counted(x), NEW s \in Slots, NEW c \in Contents, CanAlloc(x),
           NEW y, y = Replace(x, s, c), NEW f, f = alloc_result(x.pm)
    PROVE  /\ Counted(y) /\ f \in Frames /\ \A r \in Slots : x.hold[r] # f
           /\ y.hold = [x.hold EXCEPT ![s] = f] /\ y.flag = x.flag /\ y.mem[f] = c
           /\ \A r \in Slots \ {s} : Held(x, r) => y.mem[x.hold[r]] = x.mem[x.hold[r]]
<1> DEFINE z == AllocInto(x, s, c)
<1>1. /\ x.hold \in [Slots -> Frames \cup {None}] /\ x.mem \in [Frames -> Contents]
  BY KTypes, SMTT(30) DEF Counted, Over
<1>2. /\ Over(z, x.hold[s]) /\ f \in Frames /\ (\A r \in Slots : x.hold[r] # f)
      /\ z.hold = [x.hold EXCEPT ![s] = f] /\ z.flag = x.flag
      /\ z.mem = [x.mem EXCEPT ![f] = c]
  BY AllocEffect, SMTT(30)
<1>3. y = IF Held(x, s) THEN DropRef(z, x.hold[s]) ELSE z
  BY Zenon DEF Replace
<1> HIDE DEF z
<1>4. /\ z.mem[f] = c
      /\ \A r \in Slots \ {s} : Held(x, r) => /\ Held(z, r) /\ z.hold[r] = x.hold[r]
                                              /\ z.mem[x.hold[r]] = x.mem[x.hold[r]]
  BY <1>1, <1>2, Zenon DEF Held
<1>5. CASE Held(x, s)
  <2>1. /\ Counted(y) /\ y.hold = z.hold /\ y.flag = z.flag
        /\ \A r \in Slots : Held(z, r) => y.mem[z.hold[r]] = z.mem[z.hold[r]]
    BY <1>1, <1>2, <1>3, <1>5, DropRefEffect DEF Held
  <2>2. Held(z, s) /\ z.hold[s] = f
    BY <1>1, <1>2, NoneIsNoFrame, Zenon DEF Held
  <2>. QED  BY <1>2, <1>4, <2>1, <2>2
<1>6. CASE ~Held(x, s)
  BY <1>2, <1>3, <1>4, <1>6, Zenon DEF Held, Counted
<1>. QED  BY <1>5, <1>6, Zenon

-----------------------------------------------------------------------------
(* From x to y every slot keeps its frame and the contents of it, or gives *)
(* it up, or joins the holders of g, or turns to a frame that none of the  *)
(* slots that keep theirs has.                                             *)
Steps(x, y, g) ==
    /\ Counted(y)
    /\ \A s \in Slots : \/ y.hold[s] = x.hold[s] \/ y.hold[s] = None \/ y.hold[s] = g
                        \/ \A r \in Slots : y.hold[r] = x.hold[r] /\ Held(x, r)
                                                => y.hold[r] # y.hold[s]
    /\ \A s \in Slots : y.hold[s] = x.hold[s] /\ Held(x, s)
                            => y.mem[x.hold[s]] = x.mem[x.hold[s]]

(* s is the only holder of its frame.                                      *)
Sole(x, s) == \A r \in Slots \ {s} : x.hold[r] # x.hold[s]

(* The only holder of a frame stays its only holder while others change    *)
(* slots of other frames.                                                  *)
LEMMA SoleKept ==
    ASSUME NEW x, NEW y, NEW g, Steps(x, y, g), NEW s \in Slots, Held(x, s), Sole(x, s),
           y.hold[s] = x.hold[s], x.hold[s] # g
    PROVE  Sole(y, s)
  BY Zenon DEF Steps, Sole, Held

(* A change that gives no frame another holder may be one that gives g     *)
(* another.                                                                *)
LEMMA StepsJoin == ASSUME NEW x, NEW y, NEW g, Steps(x, y, None) PROVE Steps(x, y, g)
  BY Zenon DEF Steps

(* Doing nothing is such a change.                                         *)
LEMMA StepsSame == ASSUME NEW x, Counted(x) PROVE Steps(x, x, None)
  BY Zenon DEF Steps

(* A step that only changes a slot the first one left alone.               *)
LEMMA StepsThen ==
    ASSUME NEW x, NEW y, NEW z, NEW g, Steps(x, y, g), Steps(y, z, g), NEW t \in Slots,
           y.hold[t] = x.hold[t], \A r \in Slots \ {t} : z.hold[r] = y.hold[r]
    PROVE  Steps(x, z, g)
<1>1. Counted(z)
  BY Zenon DEF Steps
<1>2. ASSUME NEW s \in Slots
      PROVE  \/ z.hold[s] = x.hold[s] \/ z.hold[s] = None \/ z.hold[s] = g
             \/ \A r \in Slots : z.hold[r] = x.hold[r] /\ Held(x, r)
                                     => z.hold[r] # z.hold[s]
  <2>1. CASE s = t
    BY <2>1, Zenon DEF Steps, Held
  <2>2. CASE s # t
    <3>1. z.hold[s] = y.hold[s]
      BY <2>2, SMTT(30)
    <3> SUFFICES ASSUME z.hold[s] # x.hold[s], z.hold[s] # None, z.hold[s] # g,
                        NEW r \in Slots, z.hold[r] = x.hold[r], Held(x, r)
                 PROVE  z.hold[r] # z.hold[s]
      BY SMTT(30)
    <3>2. CASE r = t
      BY <3>1, <3>2, SMTT(30) DEF Steps, Held
    <3>3. CASE r # t
      BY <3>1, <3>3, SMTT(30) DEF Steps, Held
    <3>. QED  BY <3>2, <3>3, Zenon
  <2>. QED  BY <2>1, <2>2, Zenon
<1>3. ASSUME NEW s \in Slots, z.hold[s] = x.hold[s], Held(x, s)
      PROVE  z.mem[x.hold[s]] = x.mem[x.hold[s]]
  <2>1. y.hold[s] = x.hold[s]
    BY <1>3, Zenon
  <2>. QED  BY <1>3, <2>1 DEF Steps, Held
<1>. QED  BY <1>1, <1>2, <1>3, Zenon DEF Steps

(* The four operations on a slot as such steps.                            *)
LEMMA AllocSteps ==
    ASSUME NEW x, Counted(x), NEW s \in Slots, ~Held(x, s), NEW c \in Contents, CanAlloc(x),
           NEW y, y = AllocInto(x, s, c)
    PROVE  /\ Steps(x, y, None) /\ y.flag = x.flag /\ Held(y, s) /\ Sole(y, s)
           /\ y.mem[y.hold[s]] = c /\ \A r \in Slots \ {s} : y.hold[r] = x.hold[r]
<1> DEFINE f == alloc_result(x.pm)
<1>1. x.hold \in [Slots -> Frames \cup {None}] /\ x.mem \in [Frames -> Contents]
  BY KTypes, SMTT(30) DEF Counted, Over
<1>2. /\ Over(y, x.hold[s]) /\ f \in Frames /\ (\A r \in Slots : x.hold[r] # f)
      /\ y.hold = [x.hold EXCEPT ![s] = f] /\ y.flag = x.flag
      /\ y.mem = [x.mem EXCEPT ![f] = c]
  BY AllocEffect, SMTT(30)
<1>3. Counted(y)
  BY <1>2, SMTT(30) DEF Counted, Held
<1> HIDE DEF f
<1>. QED  BY <1>1, <1>2, <1>3, NoneIsNoFrame, Zenon DEF Steps, Held, Sole

(* process_pd_clone_user: a slot takes a reference to another slot's       *)
(* frame.                                                                  *)
LEMMA ShareSteps ==
    ASSUME NEW x, Counted(x), NEW s \in Slots, ~Held(x, s),
           NEW r \in Slots, Held(x, r), CanShare(x, r), NEW y, y = ShareInto(x, s, r)
    PROVE  /\ Steps(x, y, x.hold[r]) /\ y.flag = x.flag /\ y.mem = x.mem
           /\ y.hold[s] = x.hold[r] /\ \A t \in Slots \ {s} : y.hold[t] = x.hold[t]
<1>1. x.hold \in [Slots -> Frames \cup {None}]
  BY KTypes, SMTT(30) DEF Counted, Over
<1>2. /\ Counted(y) /\ y.hold = [x.hold EXCEPT ![s] = x.hold[r]]
      /\ y.flag = x.flag /\ y.mem = x.mem
  BY ShareEffect, SMTT(30)
<1>. QED  BY <1>1, <1>2, Zenon DEF Steps, Held

(* paging_unmap_user_page and process_pd_destroy: a slot gives its frame   *)
(* back.                                                                   *)
LEMMA DropSteps ==
    ASSUME NEW x, Counted(x), NEW s \in Slots, Held(x, s), NEW y, y = Drop(x, s)
    PROVE  /\ Steps(x, y, None) /\ y.flag = x.flag /\ ~Held(y, s)
           /\ \A r \in Slots \ {s} : y.hold[r] = x.hold[r]
<1>1. x.hold \in [Slots -> Frames \cup {None}]
  BY KTypes, SMTT(30) DEF Counted, Over
<1>2. /\ Counted(y) /\ y.hold = [x.hold EXCEPT ![s] = None] /\ y.flag = x.flag
      /\ \A r \in Slots \ {s} : Held(x, r) => y.mem[x.hold[r]] = x.mem[x.hold[r]]
  BY DropEffect, SMTT(30)
<1>. QED  BY <1>1, <1>2, Zenon DEF Steps, Held

(* paging_resolve_cow_fault: a slot gives its frame back and takes a new   *)
(* one.                                                                    *)
LEMMA ReplaceSteps ==
    ASSUME NEW x, Counted(x), NEW s \in Slots, NEW c \in Contents, CanAlloc(x),
           NEW y, y = Replace(x, s, c)
    PROVE  /\ Steps(x, y, None) /\ y.flag = x.flag /\ Held(y, s) /\ Sole(y, s)
           /\ y.hold[s] # x.hold[s] /\ y.mem[y.hold[s]] = c
           /\ \A r \in Slots \ {s} : y.hold[r] = x.hold[r]
<1>1. x.hold \in [Slots -> Frames \cup {None}]
  BY KTypes, SMTT(30) DEF Counted, Over
<1> DEFINE f == alloc_result(x.pm)
<1>2. /\ Counted(y) /\ f \in Frames /\ \A r \in Slots : x.hold[r] # f
      /\ y.hold = [x.hold EXCEPT ![s] = f] /\ y.flag = x.flag /\ y.mem[f] = c
      /\ \A r \in Slots \ {s} : Held(x, r) => y.mem[x.hold[r]] = x.mem[x.hold[r]]
  BY ReplaceEffect, SMTT(30)
<1> HIDE DEF f
<1>. QED  BY <1>1, <1>2, NoneIsNoFrame, SMTT(30) DEF Steps, Held, Sole

(* Changing the flags of a page table entry changes no holder.             *)
LEMMA FlagSteps ==
    ASSUME NEW x, Counted(x), NEW p \in Procs, NEW v \in Pages, NEW fl \in Flags,
           NEW y, y = SetFlags(x, p, v, fl)
    PROVE  /\ Counted(y) /\ y.hold = x.hold /\ y.mem = x.mem
           /\ y.flag = [x.flag EXCEPT ![Pg(p, v)] = fl]
<1>1. x \in KStates /\ PmmConsistent(x.pm) /\ Pg(p, v) \in PageSlots
  BY SlotNames, Zenon DEF Counted, Over
<1>2. y = [pm |-> x.pm, hold |-> x.hold, flag |-> [x.flag EXCEPT ![Pg(p, v)] = fl],
           mem |-> x.mem]
  BY <1>1, KTypes, SMTT(30) DEF SetFlags
<1>3. y \in KStates
  BY <1>1, <1>2, KTypes, SMTT(30) DEF KStates
<1>4. \A f \in Frames : Holders(y, f) = Holders(x, f)
  BY <1>2 DEF Holders
<1>. QED  BY <1>1, <1>2, <1>3, <1>4 DEF Counted, Over

(* Two changes that end in the same holders, counts and contents are       *)
(* alike.                                                                  *)
LEMMA StepsAlike ==
    ASSUME NEW x, NEW y, NEW z, NEW g, Steps(x, y, g),
           Counted(z), z.hold = y.hold, z.mem = y.mem
    PROVE  Steps(x, z, g)
  BY Zenon DEF Steps

(* paging_map_page, when it does not panic: the entry gets its flags and   *)
(* has a page table.                                                       *)
LEMMA MapSteps ==
    ASSUME NEW x, Counted(x), NEW p \in Procs, NEW v \in Pages, NEW fl \in Flags,
           ~Panics(x, p, v), NEW y, y = MapPage(x, p, v, fl)
    PROVE  /\ Steps(x, y, None) /\ Held(y, Tb(p, v))
           /\ y.flag = [x.flag EXCEPT ![Pg(p, v)] = fl]
           /\ \A r \in Slots \ {Tb(p, v)} : y.hold[r] = x.hold[r]
           /\ Held(x, Tb(p, v)) => y.hold[Tb(p, v)] = x.hold[Tb(p, v)]
<1>1. Tb(p, v) \in Slots /\ Zero \in Contents
  BY SlotNames, Zenon DEF Contents
<1>2. CASE Held(x, Tb(p, v))
  <2>1. y = SetFlags(x, p, v, fl)
    BY <1>2, SMTT(30) DEF MapPage, NeedsTable
  <2>2. /\ Counted(y) /\ y.hold = x.hold /\ y.mem = x.mem
        /\ y.flag = [x.flag EXCEPT ![Pg(p, v)] = fl]
    BY <2>1, FlagSteps
  <2>. QED  BY <1>2, <2>2, StepsSame, StepsAlike, Zenon DEF Held
<1>3. CASE ~Held(x, Tb(p, v))
  <2> DEFINE z == AllocInto(x, Tb(p, v), Zero)
  <2>1. CanAlloc(x) /\ y = SetFlags(z, p, v, fl)
    BY <1>3, SMTT(30) DEF MapPage, NeedsTable, Panics
  <2>2. /\ Steps(x, z, None) /\ z.flag = x.flag /\ Held(z, Tb(p, v))
        /\ \A r \in Slots \ {Tb(p, v)} : z.hold[r] = x.hold[r]
    BY <1>1, <1>3, <2>1, AllocSteps, SMTT(30)
  <2> HIDE DEF z
  <2>3. /\ Counted(y) /\ y.hold = z.hold /\ y.mem = z.mem
        /\ y.flag = [z.flag EXCEPT ![Pg(p, v)] = fl]
    BY <2>1, <2>2, FlagSteps, SMTT(30) DEF Steps
  <2>4. Steps(x, y, None)
    BY <2>2, <2>3, StepsAlike, Zenon
  <2>. QED  BY <1>3, <2>2, <2>3, <2>4, Zenon DEF Held
<1>. QED  BY <1>2, <1>3, Zenon

(* The pages of a table are an interval that ends with LastOfTable.        *)
LEMMA TableOrder ==
    ASSUME NEW u \in Pages, NEW v \in Pages
    PROVE  /\ LastOfTable(v) /\ u > v => u \div PerTable # v \div PerTable
           /\ u = v + 1 /\ u \div PerTable # v \div PerTable => LastOfTable(v)
           /\ v + 1 \notin Pages => LastOfTable(v)
<1> DEFINE P == PerTable
<1>1. u \in Nat /\ v \in Nat /\ P \in Nat \ {0} /\ NumPages \in Nat \ {0}
      /\ u < NumPages /\ v < NumPages
  BY CowAssumption DEF Pages
<1>2. v + 1 \notin Pages => LastOfTable(v)
  BY <1>1 DEF Pages, LastOfTable
<1>3. ASSUME u = v + 1, u \div P # v \div P PROVE u % P = 0
  <2>1. /\ u \div P \in Nat /\ v \div P \in Nat /\ u % P \in 0..(P - 1) /\ v % P \in 0..(P - 1)
        /\ u = P * (u \div P) + (u % P) /\ v = P * (v \div P) + (v % P)
    BY <1>1
  <2>. QED  BY <1>1, <1>3, <2>1
<1>4. ASSUME (v + 1) % P = 0, u > v PROVE u \div P # v \div P
  <2>1. /\ u \div P \in Nat /\ v \div P \in Nat /\ u % P \in 0..(P - 1) /\ v % P \in 0..(P - 1)
        /\ u = P * (u \div P) + (u % P) /\ v = P * (v \div P) + (v % P)
    BY <1>1, SMTT(30)
  <2>. QED  BY <1>1, <1>4, <2>1
<1>. QED  BY <1>1, <1>2, <1>3, <1>4 DEF LastOfTable

(* A frame with one reference has one holder.                              *)
LEMMA RefsSole ==
    ASSUME NEW x, Counted(x), NEW s \in Slots, Held(x, s), Refs(x, s) <= 1
    PROVE  Sole(x, s)
<1>1. /\ x.hold \in [Slots -> Frames \cup {None}] /\ x.hold[s] \in Frames
      /\ x.pm.refcount[x.hold[s]] = Cardinality(Holders(x, x.hold[s])) + 0
      /\ SlotSizes
  BY KTypes, NoneIsNoFrame, SMTT(30) DEF Counted, Over, Held
<1> DEFINE H == Holders(x, x.hold[s])
<1>2. H \in SUBSET Slots /\ s \in H
  BY <1>1, Zenon DEF Holders
<1>3. Cardinality(H) \in Nat /\ Cardinality(H) # 0
  <2> HIDE DEF H
  <2>. QED  BY <1>1, <1>2, Zenon DEF SlotSizes, Sizes
<1>4. Cardinality(H) = 1
  <2> HIDE DEF H
  <2>. QED  BY <1>1, <1>3 DEF Refs, H
<1>5. H = {s}
  <2> HIDE DEF H
  <2>. QED  BY <1>1, <1>2, <1>4 DEF SlotSizes, Sizes
<1>. QED  BY <1>1, <1>5, SMTT(30) DEF Sole, Holders

(* The only holder of a frame can share it: the count is not at its limit. *)
LEMMA SoleShare ==
    ASSUME NEW x, Counted(x), NEW s \in Slots, Held(x, s), Sole(x, s)
    PROVE  CanShare(x, s) /\ Holders(x, x.hold[s]) = {s}
<1>1. /\ x.hold \in [Slots -> Frames \cup {None}] /\ x.hold[s] \in Frames
      /\ x.pm.refcount[x.hold[s]] = Cardinality(Holders(x, x.hold[s])) + 0
      /\ PmmConsistent(x.pm) /\ SlotSizes
  BY KTypes, NoneIsNoFrame, SMTT(30) DEF Counted, Over, Held
<1>2. Holders(x, x.hold[s]) = {s}
  BY <1>1, Zenon DEF Sole, Holders
<1>3. Cardinality({s}) = 1
  BY <1>1 DEF SlotSizes, Sizes
<1>4. x.pm.refcount[x.hold[s]] = 1
  BY <1>1, <1>2, <1>3, SMTT(30)
<1>5. x.hold[s] \in x.pm.used
  BY <1>1, <1>4 DEF PmmConsistent
<1>. QED  BY <1>2, <1>4, <1>5, CowAssumption, SMTT(30) DEF CanShare, retain_ok

(* The frame paging_resolve_cow_fault leaves behind.                       *)
LEMMA ResolveSteps ==
    ASSUME NEW x, Counted(x), NEW s \in Slots, Held(x, s), NEW c \in Contents,
           x.mem[x.hold[s]] = c, ~(Refs(x, s) <= 1) => CanAlloc(x),
           NEW y, y = IF Refs(x, s) <= 1 THEN x ELSE Replace(x, s, c)
    PROVE  /\ Steps(x, y, None) /\ y.flag = x.flag /\ Held(y, s) /\ Sole(y, s)
           /\ y.mem[y.hold[s]] = c /\ \A r \in Slots \ {s} : y.hold[r] = x.hold[r]
<1>1. CASE Refs(x, s) <= 1
  BY <1>1, StepsSame, RefsSole, ZenonT(30)
<1>2. CASE ~(Refs(x, s) <= 1)
  <2>1. CanAlloc(x) /\ y = Replace(x, s, c)
    BY <1>2, Zenon
  <2>. QED  BY <2>1, ReplaceSteps, SMTT(30)
<1>. QED  BY <1>1, <1>2, Zenon

-----------------------------------------------------------------------------
\* A run returned by the contiguous search lies inside the bitmap and is clear.
LEMMA FreeRunIsFree ==
    ASSUME LeastElements, NEW used \in SUBSET Frames, NEW count \in Nat \ {0},
           free_run(used, count) # None
    PROVE  /\ free_run(used, count) \in Frames
           /\ free_run(used, count) + count <= NumFrames
           /\ (free_run(used, count) .. free_run(used, count) + count - 1)
                 \in SUBSET (Frames \ used)
<1> DEFINE starts == {s \in Frames : s + count <= NumFrames
                                     /\ (s .. s + count - 1) \cap used = {}}
<1>1. starts # {} /\ free_run(used, count) = Min(starts)
  BY Zenon DEF free_run
<1>2. starts \in SUBSET Nat
  BY DEF Frames
<1>3. Min(starts) \in starts
  <2> HIDE DEF starts
  <2>. QED  BY <1>1, <1>2, Zenon DEF LeastElements
<1> DEFINE m == free_run(used, count)
<1>4. /\ m \in Frames /\ m + count <= NumFrames
      /\ (m .. m + count - 1) \cap used = {}
  BY <1>3, <1>1, Zenon
<1>5. \A f \in m .. m + count - 1 : f \in Frames
  BY <1>4, PmmAssumption DEF Frames
<1>. QED  BY <1>4, <1>5, Zenon


(* pmm_alloc_contiguous_frames returns a run of free frames, each with     *)
(* count 1, or changes nothing.                                            *)
LEMMA ContiguousConsistent ==
    ASSUME FrameSizes, NEW p, PmmConsistent(p), NEW count \in Nat
    PROVE  /\ PmmConsistent(pmm_alloc_contiguous_frames(p, count))
           /\ contiguous_result(p, count) # None =>
                LET start == contiguous_result(p, count)
                    q     == pmm_alloc_contiguous_frames(p, count)
                IN  /\ (start .. start + count - 1) \in SUBSET (Frames \ p.used)
                    /\ q.used = p.used \cup (start .. start + count - 1)
                    /\ q.refcount = [f \in Frames |->
                                       IF f \in start .. start + count - 1
                                       THEN 1 ELSE p.refcount[f]]
           /\ contiguous_result(p, count) = None =>
                pmm_alloc_contiguous_frames(p, count) = p
<1> DEFINE start == contiguous_result(p, count)
           run   == start .. start + count - 1
<1>1. /\ p \in PmmStates /\ p.used \in SUBSET Frames
      /\ p.refcount \in [Frames -> 0 .. MaxRef]
      /\ p.free_count = Cardinality(Frames \ p.used)
      /\ \A f \in Frames : f \in p.used <=> p.refcount[f] > 0
  BY Zenon DEF PmmConsistent, PmmStates
<1>2. CASE start = None
  BY <1>2, Zenon DEF pmm_alloc_contiguous_frames
<1>3. CASE start # None
  <2> DEFINE q == [used |-> p.used \cup run,
                   refcount |-> [f \in Frames |->
                                   IF f \in run THEN 1 ELSE p.refcount[f]],
                   free_count |-> p.free_count - count,
                   next_free |-> (start + count) % NumFrames]
  <2>1. pmm_alloc_contiguous_frames(p, count) = q
    BY <1>3, Zenon DEF pmm_alloc_contiguous_frames
  <2>2. count \in Nat \ {0} /\ start = free_run(p.used, count)
    BY <1>3, Zenon DEF contiguous_result
  <2>3. start \in Frames /\ run \in SUBSET (Frames \ p.used)
    <3> DEFINE m == free_run(p.used, count)
    <3>1. LeastElements /\ m # None
      BY <2>2, <1>3, Zenon DEF FrameSizes
    <3>2. m \in Frames /\ (m .. m + count - 1) \in SUBSET (Frames \ p.used)
      <4> HIDE DEF start, run
      <4>. QED  BY <3>1, <2>2, <1>1, FreeRunIsFree, Zenon
    <3>. QED  BY <3>2, <2>2, Zenon
  <2>4. Cardinality(run) = count /\ start \in Nat
    <3>1. start \in Nat
      BY <2>3 DEF Frames
    <3>. QED  BY <3>1, Zenon DEF FrameSizes
  <2> HIDE DEF start, run
  <2>5. Cardinality(Frames \ (p.used \cup run)) = p.free_count - count
    <3>1. Frames \ (p.used \cup run) = (Frames \ p.used) \ run
      OBVIOUS
    <3>2. Cardinality((Frames \ p.used) \ run) =
             Cardinality(Frames \ p.used) - Cardinality(run)
      BY <2>3, Zenon DEF FrameSizes
    <3>. QED  BY <3>1, <3>2, <2>4, <1>1, Zenon
  <2>6. Cardinality(Frames \ (p.used \cup run)) \in 0 .. NumFrames
    <3>1. Frames \ (p.used \cup run) \in SUBSET Frames
      OBVIOUS
    <3>. QED  BY <3>1, Zenon DEF FrameSizes
  <2>7. (start + count) % NumFrames \in Frames
    BY <2>4, ModIsFrame
  <2>8. q \in PmmStates
    <3>1. 1 \in 0 .. MaxRef
      BY PmmAssumption
    <3>2. q.refcount \in [Frames -> 0 .. MaxRef]
      BY <3>1, <1>1, Zenon
    <3>3. q.used \in SUBSET Frames
      BY <1>1, <2>3, Zenon
    <3>. QED  BY <3>2, <3>3, <2>5, <2>6, <2>7, <1>1, Zenon DEF PmmStates
  <2>9. \A f \in Frames : f \in q.used <=> q.refcount[f] > 0
    BY <2>3, <1>1
  <2>10. PmmConsistent(q)
    BY <2>5, <2>8, <2>9, Zenon DEF PmmConsistent
  <2>. QED  BY <2>1, <2>3, <2>10, <1>3 DEF start, run
<1>. QED  BY <1>2, <1>3, Zenon

(* pmm_reserve_range marks the frames it touches as used and keeps the     *)
(* counts of those that were.                                              *)
LEMMA ReserveConsistent ==
    ASSUME FrameSizes, NEW p, PmmConsistent(p), NEW start, NEW end
    PROVE  LET q == pmm_reserve_range(p, start, end)
               T == FramesTouched(start, end)
           IN  /\ PmmConsistent(q)
               /\ q.used = p.used \cup T
               /\ q.refcount = [f \in Frames |->
                                  IF f \in T /\ p.refcount[f] = 0 THEN 1
                                  ELSE p.refcount[f]]
<1> DEFINE T     == FramesTouched(start, end)
           fresh == T \ p.used
           left  == p.free_count - Cardinality(fresh)
           refs  == [f \in Frames |-> IF f \in T /\ p.refcount[f] = 0 THEN 1
                                      ELSE p.refcount[f]]
           q     == pmm_reserve_range(p, start, end)
<1>1. /\ p \in PmmStates /\ p.used \in SUBSET Frames
      /\ p.refcount \in [Frames -> 0 .. MaxRef]
      /\ p.free_count = Cardinality(Frames \ p.used)
      /\ \A f \in Frames : f \in p.used <=> p.refcount[f] > 0
  BY Zenon DEF PmmConsistent, PmmStates
<1>2. T \in SUBSET Frames
  BY Zenon DEF FramesTouched
<1>3. q = [p EXCEPT !.used = p.used \cup T, !.refcount = refs,
                    !.free_count = IF left > 0 THEN left ELSE 0]
  BY <1>1, Zenon DEF pmm_reserve_range
<1> HIDE DEF T, q
<1>4. Cardinality(Frames \ (p.used \cup T)) = left
  <2>1. Frames \ (p.used \cup T) = (Frames \ p.used) \ fresh
    OBVIOUS
  <2>2. fresh \in SUBSET (Frames \ p.used)
    BY <1>2, Zenon
  <2>3. Cardinality((Frames \ p.used) \ fresh) =
          Cardinality(Frames \ p.used) - Cardinality(fresh)
    BY <2>2, Zenon DEF FrameSizes
  <2>. QED  BY <2>1, <2>3, <1>1, Zenon
<1>5. Cardinality(Frames \ (p.used \cup T)) \in 0 .. NumFrames
  <2>1. Frames \ (p.used \cup T) \in SUBSET Frames
    OBVIOUS
  <2>. QED  BY <2>1, Zenon DEF FrameSizes
<1>6. q.used = p.used \cup T /\ q.refcount = refs /\ q.next_free = p.next_free
  BY <1>3, <1>1, Zenon DEF PmmStates
<1>7. q.free_count = Cardinality(Frames \ (p.used \cup T))
  <2>1. q.free_count = IF left > 0 THEN left ELSE 0
    BY <1>3, <1>1, Zenon DEF PmmStates
  <2>. QED  BY <2>1, <1>4, <1>5, PmmAssumption
<1>8. refs \in [Frames -> 0 .. MaxRef]
  <2>1. 1 \in 0 .. MaxRef
    BY PmmAssumption
  <2>. QED  BY <2>1, <1>1, Zenon
<1>9. q \in PmmStates
  BY <1>1, <1>2, <1>3, <1>5, <1>7, <1>8, Zenon DEF PmmStates
<1>10. \A f \in Frames : f \in q.used <=> q.refcount[f] > 0
  BY <1>1, <1>6
<1>11. PmmConsistent(q)
  BY <1>6, <1>7, <1>9, <1>10, Zenon DEF PmmConsistent
<1>. QED  BY <1>6, <1>11, Zenon DEF T, q

(***************************************************************************)
(* The inductive invariant: consistency of the allocator, the holders'     *)
(* references, and the account of every used frame.                        *)
(***************************************************************************)
IInv == TypeOK /\ PmmConsistent(pm) /\ RefcountCoversHolders /\ NoFrameLeaked

(* pmm_init establishes the invariant, whatever the boot map says.         *)
LEMMA InitIInv == ASSUME FrameSizes, Init PROVE IInv
<1>1. PmmConsistent(pm)
  BY InitConsistent, Zenon DEF Init
<1>2. pm \in PmmStates /\ \A f \in Frames : f \in pm.used <=> pm.refcount[f] > 0
  BY <1>1, Zenon DEF PmmConsistent
<1>3. bump \subseteq Frames /\ boot \subseteq Frames
  BY <1>2, Zenon DEF Init, FramesTouched, PmmStates
<1>4. held = [f \in Frames |-> 0] /\ heap_current = HeapStart /\ boot = pm.used
  BY Zenon DEF Init
<1>5. TypeOK
  BY <1>2, <1>3, <1>4, PmmClientAssumption, Zenon DEF TypeOK
<1>6. RefcountCoversHolders
  BY <1>2, <1>4 DEF RefcountCoversHolders
<1>7. NoFrameLeaked
  BY <1>4, Zenon DEF NoFrameLeaked
<1>. QED  BY <1>1, <1>5, <1>6, <1>7, Zenon DEF IInv

\* What the invariant gives the step proofs.
LEMMA HeldMeansUsed ==
    ASSUME IInv, NEW f \in Frames
    PROVE  /\ PmmConsistent(pm) /\ pm \in PmmStates
           /\ pm.used \in SUBSET Frames
           /\ pm.refcount \in [Frames -> 0 .. MaxRef]
           /\ held \in [Frames -> Nat] /\ held[f] \in Nat
           /\ f \notin pm.used => held[f] = 0
           /\ f \in pm.used <=> pm.refcount[f] > 0
           /\ held[f] > 0 => pm.refcount[f] = held[f]
           /\ f \in pm.used => held[f] > 0 \/ f \in boot \/ f \in bump
<1>1. PmmConsistent(pm) /\ pm \in PmmStates
  BY Zenon DEF IInv, TypeOK
<1>2. pm.used \in SUBSET Frames /\ pm.refcount \in [Frames -> 0 .. MaxRef]
  BY <1>1, Zenon DEF PmmStates
<1>3. held \in [Frames -> Nat] /\ held[f] \in Nat
  BY Zenon DEF IInv, TypeOK
<1>4. /\ f \in pm.used <=> pm.refcount[f] > 0
      /\ held[f] > 0 => pm.refcount[f] = held[f]
  <2>1. RefcountCoversHolders
    BY Zenon DEF IInv
  <2>. QED  BY <2>1, Zenon DEF RefcountCoversHolders
<1>5. f \in pm.used => held[f] > 0 \/ f \in boot \/ f \in bump
  BY Zenon DEF IInv, NoFrameLeaked
<1>6. f \notin pm.used => held[f] = 0
  BY <1>2, <1>3, <1>4
<1>. QED  BY <1>1, <1>2, <1>3, <1>4, <1>5, <1>6, Zenon

(* A caller that allocates a frame is its only holder.                     *)
LEMMA AllocFrameStep == ASSUME FrameSizes, IInv, AllocFrame PROVE IInv'
<1> DEFINE idx == alloc_result(pm)
<1>0. PmmConsistent(pm) /\ TypeOK
  BY Zenon DEF IInv
<1>1. CASE idx = None
  <2>1. pm' = pm /\ held' = held /\ UNCHANGED <<heap_current, bump, boot>>
    BY <1>0, <1>1, AllocConsistent, Zenon DEF AllocFrame
  <2>. QED  BY <2>1, Zenon DEF IInv, TypeOK, RefcountCoversHolders, NoFrameLeaked
<1>2. CASE idx # None
  <2>1. /\ PmmConsistent(pm') /\ idx \in Frames \ pm.used
        /\ pm'.used = pm.used \cup {idx}
        /\ pm'.refcount = [pm.refcount EXCEPT ![idx] = 1]
    BY <1>0, <1>2, AllocConsistent DEF AllocFrame
  <2>2. held' = [held EXCEPT ![idx] = @ + 1] /\ UNCHANGED <<heap_current, bump, boot>>
    BY <1>2, Zenon DEF AllocFrame
  <2> HIDE DEF idx
  <2>3. held[idx] = 0
    BY <2>1, HeldMeansUsed, Zenon
  <2>4. TypeOK'
    BY <2>1, <2>2, <1>0 DEF TypeOK, PmmConsistent
  <2>5. RefcountCoversHolders'
    BY <2>1, <2>2, <2>3, HeldMeansUsed DEF RefcountCoversHolders
  <2>6. NoFrameLeaked'
    BY <2>1, <2>2, <2>3, HeldMeansUsed DEF NoFrameLeaked
  <2>. QED  BY <2>1, <2>4, <2>5, <2>6, SMTT(30) DEF IInv
<1>. QED  BY <1>1, <1>2, Zenon

(* A caller that allocates a run of frames is the only holder of each.     *)
LEMMA AllocContiguousStep ==
    ASSUME FrameSizes, NEW n \in Counts, IInv, AllocContiguous(n) PROVE IInv'
<1> DEFINE start == contiguous_result(pm, n)
           run   == start .. start + n - 1
<1>0. PmmConsistent(pm) /\ TypeOK /\ n \in Nat
  BY PmmClientAssumption, Zenon DEF IInv
<1>1. CASE start = None
  <2>1. pm' = pm /\ UNCHANGED <<heap_current, bump, boot>>
    BY <1>0, <1>1, ContiguousConsistent, Zenon DEF AllocContiguous
  <2>2. held' = [f \in Frames |-> held[f]]
    BY <1>1, Zenon DEF AllocContiguous
  <2>3. held' = held
    BY <2>2, <1>0, Zenon DEF TypeOK
  <2>. QED  BY <2>1, <2>3, Zenon DEF IInv, TypeOK, RefcountCoversHolders, NoFrameLeaked
<1>2. CASE start # None
  <2>1. /\ PmmConsistent(pm') /\ run \in SUBSET (Frames \ pm.used)
        /\ pm'.used = pm.used \cup run
        /\ pm'.refcount = [f \in Frames |->
                             IF f \in run THEN 1 ELSE pm.refcount[f]]
    BY <1>0, <1>2, ContiguousConsistent DEF AllocContiguous
  <2>2. /\ held' = [f \in Frames |-> IF f \in run THEN held[f] + 1 ELSE held[f]]
        /\ UNCHANGED <<heap_current, bump, boot>>
    BY <1>2, Zenon DEF AllocContiguous
  <2> HIDE DEF start, run
  <2>3. \A f \in run : held[f] = 0
    BY <2>1, HeldMeansUsed, Zenon
  <2>4. TypeOK'
    BY <2>1, <2>2, <1>0, SMTT(30) DEF TypeOK, PmmConsistent
  <2>5. RefcountCoversHolders'
    BY <2>1, <2>2, <2>3, HeldMeansUsed DEF RefcountCoversHolders
  <2>6. NoFrameLeaked'
    <3> SUFFICES ASSUME NEW f \in pm'.used
                 PROVE  held'[f] > 0 \/ f \in boot' \/ f \in bump'
      BY Zenon DEF NoFrameLeaked
    <3>1. CASE f \in run
      <4>1. held'[f] = 1
        BY <3>1, <2>1, <2>2, <2>3, SMTT(30)
      <4>. QED  BY <4>1
    <3>2. CASE f \in pm.used /\ f \notin run
      <4>1. f \in Frames
        BY <3>2, <1>0, Zenon DEF TypeOK, PmmStates
      <4>. QED  BY <4>1, <3>2, <2>2, HeldMeansUsed, Zenon
    <3>. QED  BY <3>1, <3>2, <2>1, Zenon
  <2>. QED  BY <2>1, <2>4, <2>5, <2>6, SMTT(30) DEF IInv
<1>. QED  BY <1>1, <1>2, Zenon

(* A retained frame has one holder more, or the call is refused.           *)
LEMMA RetainStep ==
    ASSUME NEW f \in Frames, IInv, Retain(f) PROVE IInv'
<1>0. PmmConsistent(pm) /\ TypeOK
  BY Zenon DEF IInv
<1>1. /\ PmmConsistent(pm') /\ pm'.used = pm.used
      /\ pm'.refcount = IF retain_ok(pm, f) THEN [pm.refcount EXCEPT ![f] = @ + 1]
                        ELSE pm.refcount
  BY <1>0, RetainConsistent, Zenon DEF Retain
<1>2. /\ held' = IF retain_ok(pm, f) THEN [held EXCEPT ![f] = @ + 1] ELSE held
      /\ UNCHANGED <<heap_current, bump, boot>>
      /\ held[f] > 0 \/ f \notin pm.used
  BY Zenon DEF Retain
<1>3. retain_ok(pm, f) => held[f] > 0 /\ pm.refcount[f] = held[f]
  BY <1>2, HeldMeansUsed, Zenon DEF retain_ok
<1>4. TypeOK'
  BY <1>0, <1>1, <1>2, SMTT(30) DEF TypeOK, PmmConsistent
<1>5. RefcountCoversHolders'
  BY <1>1, <1>2, <1>3, HeldMeansUsed, SMTT(30) DEF RefcountCoversHolders
<1>6. NoFrameLeaked'
  BY <1>1, <1>2, HeldMeansUsed DEF NoFrameLeaked
<1>. QED  BY <1>1, <1>4, <1>5, <1>6, Zenon DEF IInv

(* A released frame has one holder fewer, and is free when that was the    *)
(* last one.                                                               *)
LEMMA ReleaseStep ==
    ASSUME FrameSizes, NEW f \in Frames, IInv, Release(f) PROVE IInv'
<1>0. PmmConsistent(pm) /\ TypeOK
  BY Zenon DEF IInv
<1>1. /\ held' = IF held[f] > 0 THEN [held EXCEPT ![f] = @ - 1] ELSE held
      /\ UNCHANGED <<heap_current, bump, boot>>
      /\ held[f] > 0 \/ f \notin pm.used
      /\ pm' = pmm_release_frame(pm, f)
  BY Zenon DEF Release
<1>2. CASE f \notin pm.used
  <2>1. pm' = pm /\ held' = held
    BY <1>0, <1>1, <1>2, ReleaseConsistent, HeldMeansUsed, Zenon
  <2>2. heap_current' = heap_current /\ bump' = bump /\ boot' = boot
    BY <1>1, Zenon
  <2>. QED
    BY <2>1, <2>2, Zenon DEF IInv, TypeOK, RefcountCoversHolders, NoFrameLeaked
<1>3. CASE f \in pm.used
  <2>1. held[f] > 0 /\ held[f] \in Nat /\ pm.refcount[f] = held[f]
    BY <1>1, <1>3, HeldMeansUsed, SMTT(30)
  <2>2. /\ PmmConsistent(pm')
        /\ pm'.refcount = [pm.refcount EXCEPT ![f] = @ - 1]
        /\ pm'.used \in {pm.used, pm.used \ {f}}
    BY <1>0, <1>1, <1>3, ReleaseConsistent, SMTT(30)
  <2>3. held' = [held EXCEPT ![f] = @ - 1]
    BY <1>1, <2>1, SMTT(30)
  <2>4. TypeOK'
    BY <2>1, <2>2, <2>3, <1>0, <1>1, SMTT(30) DEF TypeOK, PmmConsistent
  <2>5. \A g \in Frames : g \in pm'.used <=> pm'.refcount[g] > 0
    BY <2>2, Zenon DEF PmmConsistent
  <2>6. RefcountCoversHolders'
    BY <2>1, <2>2, <2>3, <2>5, HeldMeansUsed, SMTT(30) DEF RefcountCoversHolders
  <2>7. NoFrameLeaked'
    <3> SUFFICES ASSUME NEW g \in pm'.used
                 PROVE  held'[g] > 0 \/ g \in boot' \/ g \in bump'
      BY Zenon DEF NoFrameLeaked
    <3>1. g \in pm.used /\ g \in Frames
      BY <2>2, HeldMeansUsed, Zenon
    <3>2. CASE g = f
      <4>1. pm'.refcount[f] = pm.refcount[f] - 1 /\ held'[f] = held[f] - 1
        BY <2>2, <2>3, HeldMeansUsed, SMTT(30)
      <4>. QED  BY <4>1, <3>1, <3>2, <2>1, <2>5, SMTT(30)
    <3>3. CASE g # f
      BY <3>1, <3>3, <2>3, <1>1, HeldMeansUsed, SMTT(30)
    <3>. QED  BY <3>2, <3>3, Zenon
  <2>. QED  BY <2>2, <2>4, <2>6, <2>7, SMTT(30) DEF IInv
<1>. QED  BY <1>2, <1>3, Zenon

(* The bump allocator of memory.c may reserve any range, one with frames   *)
(* in use too.                                                             *)
LEMMA ReserveStep ==
    ASSUME FrameSizes, IInv, NEW start, NEW end,
           pm' = pmm_reserve_range(pm, start, end),
           bump' = bump \cup FramesTouched(start, end),
           heap_current' \in Nat, UNCHANGED <<held, boot>>
    PROVE  IInv'
<1> DEFINE T == FramesTouched(start, end)
<1>0. PmmConsistent(pm) /\ TypeOK
  BY SMTT(30) DEF IInv
<1>1. /\ PmmConsistent(pm') /\ pm'.used = pm.used \cup T
      /\ pm'.refcount = [f \in Frames |-> IF f \in T /\ pm.refcount[f] = 0 THEN 1
                                          ELSE pm.refcount[f]]
  BY <1>0, ReserveConsistent
<1>2. T \subseteq Frames /\ bump' = bump \cup T
  BY Zenon DEF FramesTouched
<1> HIDE DEF T
<1>3. TypeOK'
  BY <1>0, <1>1, <1>2, SMTT(30) DEF TypeOK, PmmConsistent
<1>4. RefcountCoversHolders'
  <2>1. \A f \in Frames : f \in pm'.used <=> pm'.refcount[f] > 0
    BY <1>1, SMTT(30) DEF PmmConsistent
  <2>2. ASSUME NEW f \in Frames, held'[f] > 0 PROVE pm'.refcount[f] = held'[f]
    BY <2>2, <1>1, HeldMeansUsed, SMTT(30)
  <2>. QED  BY <2>1, <2>2, SMTT(30) DEF RefcountCoversHolders
<1>5. NoFrameLeaked'
  <2> SUFFICES ASSUME NEW f \in pm'.used
               PROVE  held'[f] > 0 \/ f \in boot' \/ f \in bump'
    BY Zenon DEF NoFrameLeaked
  <2>1. f \in pm.used => f \in Frames
    BY <1>0, Zenon DEF TypeOK, PmmStates
  <2>. QED  BY <2>1, <1>1, <1>2, HeldMeansUsed, SMTT(30)
<1>. QED  BY <1>1, <1>3, <1>4, <1>5, Zenon DEF IInv

(* The bump pointer of memory.c stays an address.                          *)
LEMMA HeapMovesUp ==
    ASSUME TypeOK
    PROVE  /\ \A n \in Nat : align4(heap_current + n) \in Nat
           /\ page_align(heap_current) + FrameSize \in Nat
<1>1. heap_current \in Nat /\ FrameSize \in Nat \ {0}
  BY PmmAssumption, Zenon DEF TypeOK
<1>2. \A n \in Nat : align4(n) \in Nat
  BY DEF align4
<1>3. page_align(heap_current) \in Nat
  <2>1. (heap_current + FrameSize - 1) \in Nat
    BY <1>1
  <2>2. ((heap_current + FrameSize - 1) \div FrameSize) \in Nat
    BY <2>1, <1>1
  <2>. QED  BY <2>2, <1>1 DEF page_align
<1>. QED  BY <1>1, <1>2, <1>3

(* Every call of pmm.c and memory.c keeps the invariant.                   *)
LEMMA StepIInv == ASSUME FrameSizes, IInv, [Next]_vars PROVE IInv'
<1>0. TypeOK
  BY Zenon DEF IInv
<1>1. CASE AllocFrame
  BY <1>1, AllocFrameStep, Zenon
<1>2. CASE \E n \in Counts : AllocContiguous(n)
  BY <1>2, AllocContiguousStep, Zenon
<1>3. CASE \E f \in Frames : Retain(f)
  BY <1>3, RetainStep, Zenon
<1>4. CASE \E f \in Frames : Release(f)
  BY <1>4, ReleaseStep, Zenon
<1>5. CASE \E n \in HeapSizes : kmalloc(n)
  <2>1. PICK n \in HeapSizes : kmalloc(n)
    BY <1>5, Zenon
  <2>2. heap_current' \in Nat
    BY <2>1, <1>0, HeapMovesUp, PmmClientAssumption, Zenon DEF kmalloc
  <2>. QED  BY <2>1, <2>2, ReserveStep, Zenon DEF kmalloc
<1>6. CASE kmalloc_page
  <2>1. heap_current' \in Nat
    BY <1>6, <1>0, HeapMovesUp, Zenon DEF kmalloc_page
  <2>. QED  BY <1>6, <2>1, ReserveStep, Zenon DEF kmalloc_page
<1>7. CASE UNCHANGED vars
  BY <1>7, Zenon DEF vars, IInv, TypeOK, RefcountCoversHolders, NoFrameLeaked
<1>. QED  BY <1>1, <1>2, <1>3, <1>4, <1>5, <1>6, <1>7, Zenon DEF Next
=============================================================================
