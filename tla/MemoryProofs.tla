------------------------------ MODULE MemoryProofs --------------------------
(***************************************************************************)
(* The frame allocator keeps its counts exact, for every window of frames  *)
(* and every boot map; the address spaces built on it are sound, and each  *)
(* process has memory of its own, for every number of processes, pages,    *)
(* page tables, cache entries and frames, and every set of mapping calls.  *)
(***************************************************************************)
EXTENDS CowLoops, CowTeardown

(* Every step of the address spaces keeps the invariant.                   *)
LEMMA CowNextInv == ASSUME CowInv, [CowNext]_cowVars PROVE CowInv'
<1>1. CASE \E p \in Roots : Spawn(p)
  BY <1>1, SpawnStep, CowArgsAssumption, Zenon
<1>2. ASSUME NEW p \in Procs, Exit(p) PROVE CowInv'
  BY <1>2, ExitStep, Zenon
<1>3. ASSUME NEW p \in Procs, NEW m \in MapArgs, Mmap(p, m[1], m[2], m[3]) PROVE CowInv'
  <2>1. m[1] \in SUBSET Pages /\ m[2] \in {"anon", "file"} /\ m[3] \in Prots
    BY CowArgsAssumption, Zenon
  <2>. QED  BY <1>3, <2>1, MmapStep, Zenon
<1>4. ASSUME NEW p \in Procs, NEW vs \in SUBSET Pages, Munmap(p, vs) PROVE CowInv'
  BY <1>4, MunmapStep, Zenon
<1>5. ASSUME NEW p \in Procs, NEW vs \in SUBSET Pages, NEW prot \in ProtArgs,
             Mprotect(p, vs, prot)
      PROVE  CowInv'
  BY <1>5, MprotectStep, CowArgsAssumption, Zenon
<1>6. ASSUME NEW p \in Procs, NEW v \in Pages, Store(p, v) PROVE CowInv'
  BY <1>6, StoreStep, Zenon
<1>7. ASSUME NEW p \in Procs, NEW v \in Pages, WriteFault(p, v) PROVE CowInv'
  BY <1>7, WriteFaultStep, Zenon
<1>8. ASSUME NEW p \in Procs, NEW v \in Pages, FaultCached(p, v) PROVE CowInv'
  BY <1>8, FaultCachedStep, Zenon
<1>9. ASSUME NEW p \in Procs, NEW v \in Pages, FaultFill(p, v) PROVE CowInv'
  BY <1>9, FaultFillStep, Zenon
<1>10. ASSUME NEW p \in Procs, NEW v \in Pages, FaultPrivate(p, v) PROVE CowInv'
  BY <1>10, FaultPrivateStep, Zenon
<1>11. ASSUME NEW p \in Procs, NEW q \in Procs, Fork(p, q) PROVE CowInv'
  BY <1>11, ForkStep, Zenon
<1>12. ASSUME NEW v \in Pages, CloneStep(v) PROVE CowInv'
  BY <1>12, CloneStepStep, Zenon
<1>13. ASSUME NEW v \in Pages, DestroyStep(v) PROVE CowInv'
  BY <1>13, DestroyStepStep, Zenon
<1>14. ASSUME NEW v \in Pages, UnmapStep(v) PROVE CowInv'
  BY <1>14, UnmapStepStep, Zenon
<1>15. CASE CloneDone
  BY <1>15, CloneDoneStep, Zenon
<1>16. CASE DestroyDone
  BY <1>16, DestroyDoneStep, Zenon
<1>17. CASE RangeDone
  BY <1>17, RangeDoneStep, Zenon
<1>18. CASE \E x \in Files : FileWrite(x)
  BY <1>18, FileWriteStep, Zenon
<1>19. CASE \E i \in CacheIdx : InvalidateStep(i)
  BY <1>19, InvalidateStepStep, Zenon
<1>20. CASE UNCHANGED cowVars
  BY <1>20 DEF cowVars, CowInv, Always, AreasOK, LoopOK, PagesInv, Pending, ProcsInv, Gone,
       Changing, LoopInv, CacheInv
<1>. QED  BY <1>1, <1>2, <1>3, <1>4, <1>5, <1>6, <1>7, <1>8, <1>9, <1>10, <1>11, <1>12,
             <1>13, <1>14, <1>15, <1>16, <1>17, <1>18, <1>19, <1>20, Zenon DEF CowNext

-----------------------------------------------------------------------------
(* The invariant contains what SpacesSound promises, in the middle of a    *)
(* loop too.                                                               *)
LEMMA InvSound == CowInv => SpacesSound
<1> SUFFICES ASSUME CowInv PROVE SpacesSound
  OBVIOUS
<1>1. Always /\ Counted(k) /\ k \in KStates
  BY Zenon DEF CowInv, Always, Counted, Over
<1>2. CowTypeOK
  <2>1. loop.todo \subseteq Pages \cup CacheIdx
    BY <1>1 DEF Always, LoopOK, Idle, Panic
  <2>. QED  BY <1>1, <2>1, Zenon DEF CowTypeOK, Always, AreasOK
<1>3. RefExact
  <2> SUFFICES ASSUME NEW f \in Frames PROVE k.pm.refcount[f] = Cardinality(Holders(k, f))
    BY Zenon DEF RefExact
  <2>1. f # None /\ k.pm.refcount[f] = Cardinality(Holders(k, f)) + 0
    BY <1>1, NoneIsNoFrame, Zenon DEF Counted, Over
  <2>2. Cardinality(Holders(k, f)) \in Nat
    BY <1>1, HoldersCounted, Zenon DEF Counted, Over
  <2>. QED  BY <2>1, <2>2
<1>4. ASSUME NEW p \in Procs, NEW v \in Pages, "w" \in k.flag[Pg(p, v)]
      PROVE  k.flag[Pg(p, v)] = {"w"}
  BY <1>1, <1>4, Zenon DEF Always, FlagsOK
<1>5. WritablePrivate
  <2> SUFFICES ASSUME NEW s \in PageSlots, Held(k, s), "w" \in k.flag[s]
               PROVE  Holders(k, k.hold[s]) = {s}
    BY Zenon DEF WritablePrivate
  <2>1. PICK p \in Procs, v \in Pages : s = Pg(p, v)
    BY SlotKinds, Zenon
  <2>2. s \in Slots /\ Sole(k, s)
    BY <1>1, <1>4, <2>1, SlotNames, Zenon DEF Always, FlagsOK
  <2>. QED  BY <1>1, <2>2, SoleShare, Zenon
<1>6. ASSUME loop = Idle PROVE Settled /\ AreasOK
  BY <1>6, FromIdle, Zenon DEF Always
<1>7. ASSUME loop = Idle, NEW p \in Procs, NEW v \in Pages, Held(k, Pg(p, v))
      PROVE  /\ area[p][v] # NoArea /\ RightsOK(k, area[p][v], p, v)
             /\ area[p][v].prot \subseteq area[p][v].max
  <2>1. RightsOK(k, area[p][v], p, v) /\ area[p][v].prot \subseteq area[p][v].max
    BY <1>6, <1>7, Zenon DEF Settled, AreasOK
  <2>2. area[p][v].kind # "none" /\ NoArea.kind = "none"
    BY <1>7, <2>1, Zenon DEF RightsOK, NoArea
  <2>. QED  BY <2>1, <2>2, Zenon
<1>8. NoExcessRights
  BY <1>4, <1>7, Zenon DEF NoExcessRights, RightsOK
<1>9. WriteResolvable
  <2> SUFFICES ASSUME NEW p \in live, NEW v \in Pages, loop = Idle, Held(k, Pg(p, v)),
                      "w" \in area[p][v].prot
               PROVE  k.flag[Pg(p, v)] \cap {"w", "cow"} # {}
    BY Zenon DEF WriteResolvable
  <2>1. p \in Procs /\ k.flag[Pg(p, v)] \in {{}, {"w"}, {"cow"}, {"ro"}}
    BY <1>1, Zenon DEF Always, FlagsOK
  <2>2. k.flag[Pg(p, v)] # {} /\ k.flag[Pg(p, v)] # {"ro"}
    BY <1>7, <2>1, Zenon DEF RightsOK
  <2>. QED  BY <2>1, <2>2, Zenon
<1>10. CacheFresh
  BY <1>6, Zenon DEF CacheFresh, Settled
<1>11. DeadHoldNothing
  BY <1>6, Zenon DEF DeadHoldNothing, Settled, Gone
<1>. QED  BY <1>2, <1>3, <1>5, <1>8, <1>9, <1>10, <1>11, Zenon DEF SpacesSound
-----------------------------------------------------------------------------
(* What the programs see, under the refinement mapping.                    *)
Views == [p \in Procs |-> [v \in Pages |-> View(p, v)]]

(* A process sees the same in a page whose frame, contents and area are    *)
(* unchanged.                                                              *)
LEMMA ViewSame ==
    ASSUME NEW q \in Procs, NEW u \in Pages, Same(q, u), q \in live' <=> q \in live,
           area'[q][u] = area[q][u]
    PROVE  View(q, u)' = View(q, u)
  BY Zenon DEF View, Same, Held

(* When every page of every process looks the same, no program notices the *)
(* step.                                                                   *)
LEMMA NothingSeen ==
    ASSUME \A q \in Procs, u \in Pages : View(q, u)' = View(q, u), file' = file
    PROVE  UNCHANGED Memory!pvars
<1>1. Views' = Views
  BY Zenon DEF Views
<1>. QED  BY <1>1, Zenon DEF Memory!pvars, Views

(* When one process sees w and the others what they saw, its memory has    *)
(* become w.                                                               *)
LEMMA ViewsBecome ==
    ASSUME NEW p \in Procs, NEW w, w = [u \in Pages |-> w[u]],
           \A q \in Procs, u \in Pages : View(q, u)' = IF q = p THEN w[u] ELSE View(q, u)
    PROVE  Views' = [Views EXCEPT ![p] = w]
<1>1. [u \in Pages |-> View(p, u)'] = w
  OBVIOUS
<1>2. \A q \in Procs \ {p} : [u \in Pages |-> View(q, u)'] = [u \in Pages |-> View(q, u)]
  OBVIOUS
<1>. QED  BY <1>1, <1>2, Zenon DEF Views

(* A process that is not alive is absent from PrivateMemory.               *)
LEMMA NotThere == ASSUME NEW p \in Procs \ live PROVE ~Memory!Exists(p)
<1>1. \A v \in Pages : View(p, v) = "gone"
  BY Zenon DEF View
<1>2. Views[p] = [v \in Pages |-> "gone"]
  BY <1>1, Zenon DEF Views
<1>. QED  BY <1>2, Zenon DEF Memory!Exists, Memory!Nothing, Views

(* A process that is alive has a memory in PrivateMemory.                  *)
LEMMA There == ASSUME Always, NEW p \in live PROVE Memory!Exists(p)
<1>1. 0 \in Pages /\ p \in Procs /\ k \in KStates
  BY CowAssumption DEF Pages, Always, Counted, Over
<1>2. Held(k, Pg(p, 0)) => k.mem[k.hold[Pg(p, 0)]] \in Contents
  BY <1>1, SlotNames, KTypes DEF Held
<1>3. "gone" \notin Contents /\ Zero \in Contents
  BY ViewAssumption, Zenon DEF Contents
<1>4. View(p, 0) # "gone"
  BY <1>1, <1>2, <1>3, Zenon DEF View
<1>5. Views[p][0] # [v \in Pages |-> "gone"][0]
  BY <1>1, <1>4, Zenon DEF Views
<1>. QED  BY <1>5, Zenon DEF Memory!Exists, Memory!Nothing, Views

(* A new address space is an empty memory.                                 *)
LEMMA SpawnSeen == ASSUME CowInv, NEW p \in Procs, Spawn(p) PROVE Memory!Start(p)
<1>1. /\ p \notin live /\ live' = live \cup {p} /\ UNCHANGED <<area, file>> /\ Gone(p)
      /\ \A q \in Procs, u \in Pages : Same(q, u)
  BY SpawnStep, FromIdle, Zenon DEF Spawn, Settled
<1>2. ASSUME NEW q \in Procs, NEW u \in Pages
      PROVE  View(q, u)' = IF q = p THEN [v \in Pages |-> "unmapped"][u] ELSE View(q, u)
  <2>1. CASE q = p
    BY <1>1, <2>1, Zenon DEF Gone, View
  <2>2. CASE q # p
    BY <1>1, <2>2, ViewSame, Zenon
  <2>. QED  BY <2>1, <2>2, Zenon
<1>3. Views' = [Views EXCEPT ![p] = [v \in Pages |-> "unmapped"]]
  BY <1>2, ViewsBecome, Zenon
<1>4. ~Memory!Exists(p)
  BY <1>1, NotThere, Zenon
<1>. QED  BY <1>1, <1>3, <1>4, Zenon DEF Memory!Start, Memory!NoPages, Views

(* mmap adds zeros, or pages of the file not looked at yet.                *)
LEMMA MmapSeen ==
    ASSUME CowInv, NEW p \in Procs, NEW vs \in SUBSET Pages, NEW kind \in {"anon", "file"},
           NEW prot \in Prots, Mmap(p, vs, kind, prot)
    PROVE  \E x \in {Zero, "untouched"} : Memory!Map(p, vs, x)
<1> DEFINE x == IF kind = "file" THEN "untouched" ELSE Zero
           a == [prot |-> prot, max |-> MaxProt(kind, prot), kind |-> kind]
           w == [v \in Pages |-> IF v \in vs THEN x ELSE Views[p][v]]
<1>1. /\ loop = Idle /\ p \in live /\ UNCHANGED <<k, live, file>>
      /\ \A v \in vs : area[p][v] = NoArea
      /\ area' = [area EXCEPT ![p] = [v \in Pages |-> IF v \in vs THEN a ELSE @[v]]]
  BY Zenon DEF Mmap, At
<1>2. Always /\ Settled /\ area \in [Procs -> [Pages -> Areas]]
  BY <1>1, FromIdle, Zenon DEF Always, AreasOK
<1>3. a # NoArea /\ a.kind = kind
  <2>1. a.kind = kind /\ NoArea.kind = "none"
    BY Zenon DEF NoArea
  <2>. QED  BY <2>1, Zenon
<1> HIDE DEF a
<1>4. ASSUME NEW q \in Procs, NEW u \in Pages
      PROVE  area'[q][u] = IF q = p /\ u \in vs THEN a ELSE area[q][u]
  BY <1>1, <1>2, Zenon
<1>5. ASSUME NEW u \in vs PROVE View(p, u)' = x /\ View(p, u) = "unmapped"
  <2>1. ~Held(k, Pg(p, u)) /\ u \in Pages
    BY <1>1, <1>2 DEF Settled, RightsOK, NoArea
  <2>2. area'[p][u] = a
    BY <1>4, <2>1, Zenon
  <2>. QED  BY <1>1, <1>3, <2>1, <2>2, Zenon DEF View, Held
<1>6. ASSUME NEW q \in Procs, NEW u \in Pages, ~(q = p /\ u \in vs)
      PROVE  View(q, u)' = View(q, u)
  BY <1>1, <1>4, <1>6, ViewSame, Zenon DEF Same
<1>7. \A q \in Procs, u \in Pages : View(q, u)' = IF q = p THEN w[u] ELSE View(q, u)
  BY <1>5, <1>6, Zenon DEF Views
<1>8. Views' = [Views EXCEPT ![p] = w]
  BY <1>7, ViewsBecome, Zenon
<1>9. Memory!Exists(p) /\ \A v \in vs : Views[p][v] = "unmapped"
  BY <1>1, <1>2, <1>5, There, Zenon DEF Views
<1>10. Memory!Map(p, vs, x)
  BY <1>1, <1>8, <1>9, Zenon DEF Memory!Map, Views
<1>. QED  BY <1>10, Zenon

(* munmap takes the pages of the range away at once, although their frames *)
(* go one by one.                                                          *)
LEMMA MunmapSeen ==
    ASSUME CowInv, NEW p \in Procs, NEW vs \in SUBSET Pages, Munmap(p, vs)
    PROVE  Memory!Unmap(p, vs)
<1> DEFINE w == [v \in Pages |-> IF v \in vs THEN "unmapped" ELSE Views[p][v]]
<1>1. /\ loop = Idle /\ p \in live /\ UNCHANGED <<k, live, file>>
      /\ area' = [area EXCEPT ![p] = [v \in Pages |-> IF v \in vs THEN NoArea ELSE @[v]]]
  BY Zenon DEF Munmap, At
<1>2. Always /\ area \in [Procs -> [Pages -> Areas]]
  BY <1>1, FromIdle, Zenon DEF Always, AreasOK
<1>3. ASSUME NEW q \in Procs, NEW u \in Pages
      PROVE  area'[q][u] = IF q = p /\ u \in vs THEN NoArea ELSE area[q][u]
  BY <1>1, <1>2, Zenon
<1>4. ASSUME NEW u \in vs PROVE View(p, u)' = "unmapped"
  BY <1>1, <1>3, Zenon DEF View
<1>5. ASSUME NEW q \in Procs, NEW u \in Pages, ~(q = p /\ u \in vs)
      PROVE  View(q, u)' = View(q, u)
  BY <1>1, <1>3, <1>5, ViewSame, Zenon DEF Same
<1>6. \A q \in Procs, u \in Pages : View(q, u)' = IF q = p THEN w[u] ELSE View(q, u)
  BY <1>4, <1>5, Zenon DEF Views
<1>7. Views' = [Views EXCEPT ![p] = w]
  BY <1>6, ViewsBecome, Zenon
<1>8. Memory!Exists(p)
  BY <1>1, <1>2, There, Zenon
<1>. QED  BY <1>1, <1>7, <1>8, Zenon DEF Memory!Unmap, Views

(* mprotect changes nothing a program reads.                               *)
LEMMA MprotectSeen ==
    ASSUME CowInv, NEW p \in Procs, NEW vs \in SUBSET Pages, NEW prot \in Prots,
           Mprotect(p, vs, prot)
    PROVE  UNCHANGED Memory!pvars
<1>1. /\ loop = Idle /\ UNCHANGED <<live, file>>
      /\ \A v \in vs : area[p][v] # NoArea
      /\ area' = [area EXCEPT ![p] = [v \in Pages |->
                     IF v \in vs THEN [@[v] EXCEPT !.prot = prot] ELSE @[v]]]
      /\ k' = [k EXCEPT !.flag = k'.flag]
  BY Zenon DEF Mprotect, At
<1>2. Always /\ AreasOK /\ k \in KStates
  BY <1>1, FromIdle, Zenon DEF Always, Counted, Over
<1>3. k'.hold = k.hold /\ k'.mem = k.mem
  BY <1>1, <1>2, Zenon DEF KStates
<1>4. ASSUME NEW q \in Procs, NEW u \in Pages
      PROVE  area'[q][u].kind = area[q][u].kind /\ (area'[q][u] = NoArea <=> area[q][u] = NoArea)
  <2>1. CASE q = p /\ u \in vs
    <3>1. area'[p][u] = [area[p][u] EXCEPT !.prot = prot] /\ area[p][u] \in Areas
      BY <1>1, <1>2, <2>1 DEF AreasOK
    <3>2. area'[p][u].kind = area[p][u].kind /\ area[p][u].kind # "none"
      BY <1>1, <1>2, <2>1, <3>1, Zenon DEF AreasOK, Areas
    <3>. QED  BY <2>1, <3>2 DEF NoArea
  <2>2. CASE ~(q = p /\ u \in vs)
    <3>1. area'[q][u] = area[q][u]
      BY <1>1, <1>2, <2>2, Zenon DEF AreasOK
    <3>. QED  BY <3>1, Zenon
  <2>. QED  BY <2>1, <2>2, Zenon
<1>5. \A q \in Procs, u \in Pages : View(q, u)' = View(q, u)
  BY <1>1, <1>3, <1>4, Zenon DEF View, Held
<1>. QED  BY <1>1, <1>5, NothingSeen, Zenon

(* When one page of one process changes to c and nothing else does, its    *)
(* memory changes at that page.                                            *)
LEMMA PageBecomes ==
    ASSUME NEW p \in Procs, NEW v \in Pages, NEW c, View(p, v)' = c,
           \A q \in Procs, u \in Pages : Pg(q, u) # Pg(p, v) => View(q, u)' = View(q, u)
    PROVE  Views' = [Views EXCEPT ![p][v] = c]
<1> DEFINE w == [Views[p] EXCEPT ![v] = c]
<1>1. Views[p] = [u \in Pages |-> View(p, u)]
  BY Zenon DEF Views
<1>2. w = [u \in Pages |-> w[u]] /\ \A u \in Pages : w[u] = IF u = v THEN c ELSE View(p, u)
  BY <1>1, Zenon
<1> HIDE DEF w
<1>3. \A q \in Procs, u \in Pages : View(q, u)' = IF q = p THEN w[u] ELSE View(q, u)
  BY <1>2, SlotsDiffer
<1>4. Views' = [Views EXCEPT ![p] = w]
  BY <1>2, <1>3, ViewsBecome, Zenon
<1>. QED  BY <1>4, Zenon DEF w

(* Pages that keep frame and contents look the same to their processes.    *)
LEMMA OthersSeen ==
    ASSUME NEW p \in Procs, NEW v \in Pages, UNCHANGED <<area, live>>,
           \A q \in Procs, u \in Pages : Pg(q, u) # Pg(p, v) => Same(q, u)
    PROVE  \A q \in Procs, u \in Pages : Pg(q, u) # Pg(p, v) => View(q, u)' = View(q, u)
<1> SUFFICES ASSUME NEW q \in Procs, NEW u \in Pages, Pg(q, u) # Pg(p, v)
             PROVE  View(q, u)' = View(q, u)
  OBVIOUS
<1>. QED  BY ViewSame, Zenon

(* A step whose only page looks the same as before is not noticed.         *)
LEMMA OneSeen ==
    ASSUME NEW p \in Procs, NEW v \in Pages, View(p, v)' = View(p, v), file' = file,
           \A q \in Procs, u \in Pages : Pg(q, u) # Pg(p, v) => View(q, u)' = View(q, u)
    PROVE  UNCHANGED Memory!pvars
<1>1. ASSUME NEW q \in Procs, NEW u \in Pages PROVE View(q, u)' = View(q, u)
  <2>1. CASE Pg(q, u) = Pg(p, v)
    <3>1. q = p /\ u = v
      BY <2>1, SlotsDiffer
    <3>. QED  BY <3>1, Zenon
  <2>2. CASE Pg(q, u) # Pg(p, v)
    BY <2>2, Zenon
  <2>. QED  BY <2>1, <2>2, Zenon
<1>. QED  BY <1>1, NothingSeen, Zenon

(* A store is seen in the storing process's page and nowhere else.         *)
LEMMA StoreSeen ==
    ASSUME CowInv, NEW p \in Procs, NEW v \in Pages, Store(p, v)
    PROVE  Memory!Store(p, v)
<1>1. /\ loop = Idle /\ p \in live /\ Held(k, Pg(p, v)) /\ UNCHANGED <<area, live, file>>
  BY Zenon DEF Store, At
<1>2. /\ k'.hold = k.hold /\ k'.mem[k'.hold[Pg(p, v)]] = p
      /\ \A q \in Procs, u \in Pages : Pg(q, u) # Pg(p, v) => Same(q, u)
  BY StoreStep, Zenon
<1>3. Settled /\ k \in KStates
  BY <1>1, FromIdle, Zenon DEF Always, Counted, Over
<1>4. area[p][v] # NoArea
  <2>1. area[p][v].kind # "none" /\ NoArea.kind = "none"
    BY <1>1, <1>3, Zenon DEF Settled, RightsOK, NoArea
  <2>. QED  BY <2>1, Zenon
<1>5. k.mem[k.hold[Pg(p, v)]] \in Contents
  BY <1>1, <1>3, SlotNames, KTypes DEF Held
<1>6. View(p, v) \in Contents /\ View(p, v)' = p
  BY <1>1, <1>2, <1>4, <1>5, Zenon DEF View, Held
<1>7. \A q \in Procs, u \in Pages : Pg(q, u) # Pg(p, v) => View(q, u)' = View(q, u)
  BY <1>1, <1>2, OthersSeen, Zenon
<1>8. Views' = [Views EXCEPT ![p][v] = p] /\ Views[p][v] \in Contents
  BY <1>6, <1>7, PageBecomes DEF Views
<1>. QED  BY <1>1, <1>8, Zenon DEF Memory!Store, Views

(* Taking a shared page apart, or taking it over as the last holder, is    *)
(* not noticed.                                                            *)
LEMMA WriteFaultSeen ==
    ASSUME CowInv, NEW p \in Procs, NEW v \in Pages, WriteFault(p, v)
    PROVE  UNCHANGED Memory!pvars
<1>1. /\ Held(k, Pg(p, v)) /\ UNCHANGED <<area, live, file>>
  BY Zenon DEF WriteFault
<1>2. /\ Held(k', Pg(p, v)) /\ k'.mem[k'.hold[Pg(p, v)]] = k.mem[k.hold[Pg(p, v)]]
      /\ \A q \in Procs, u \in Pages : Pg(q, u) # Pg(p, v) => Same(q, u)
  BY WriteFaultStep, Zenon
<1>3. View(p, v)' = View(p, v)
  BY <1>1, <1>2, Zenon DEF View
<1>4. \A q \in Procs, u \in Pages : Pg(q, u) # Pg(p, v) => View(q, u)' = View(q, u)
  BY <1>1, <1>2, OthersSeen, Zenon
<1>. QED  BY <1>1, <1>3, <1>4, OneSeen, Zenon

(* The first access to a page shows what the page held all along, or what  *)
(* the file holds now.                                                     *)
LEMMA FaultSeen ==
    ASSUME CowInv, NEW p \in Procs, NEW v \in Pages, Missing(p, v),
           UNCHANGED <<area, live, file>>, Held(k', Pg(p, v)),
           k'.mem[k'.hold[Pg(p, v)]] = IF area[p][v].kind = "file" THEN file ELSE Zero,
           \A q \in Procs, u \in Pages : Pg(q, u) # Pg(p, v) => Same(q, u)
    PROVE  Memory!Touch(p, v) \/ UNCHANGED Memory!pvars
<1>1. p \in live /\ ~Held(k, Pg(p, v)) /\ area[p][v].kind # "none" /\ area[p][v] # NoArea
  <2>1. p \in live /\ ~Held(k, Pg(p, v)) /\ area[p][v].kind # "none" /\ NoArea.kind = "none"
    BY MissingArea, Zenon DEF NoArea
  <2>. QED  BY <2>1, Zenon
<1>2. \A q \in Procs, u \in Pages : Pg(q, u) # Pg(p, v) => View(q, u)' = View(q, u)
  BY OthersSeen, Zenon
<1>3. CASE area[p][v].kind = "file"
  <2>1. View(p, v) = "untouched" /\ View(p, v)' = file
    BY <1>1, <1>3, Zenon DEF View
  <2>2. Views' = [Views EXCEPT ![p][v] = file] /\ Views[p][v] = "untouched"
    BY <1>2, <2>1, PageBecomes DEF Views
  <2>. QED  BY <2>2, Zenon DEF Memory!Touch, Views
<1>4. CASE area[p][v].kind # "file"
  <2>1. View(p, v)' = View(p, v)
    BY <1>1, <1>4, Zenon DEF View
  <2>. QED  BY <1>2, <2>1, OneSeen, Zenon
<1>. QED  BY <1>3, <1>4, Zenon

(* A fault on a missing page shows the contents the file has now, or the   *)
(* zeros that were to be seen.                                             *)
LEMMA FaultsSeen ==
    ASSUME CowInv, NEW p \in Procs, NEW v \in Pages,
           FaultCached(p, v) \/ FaultFill(p, v) \/ FaultPrivate(p, v)
    PROVE  Memory!Touch(p, v) \/ UNCHANGED Memory!pvars
<1>1. Missing(p, v) /\ UNCHANGED <<area, live, file>>
  BY Zenon DEF FaultCached, FaultFill, FaultPrivate
<1>2. CASE FaultPrivate(p, v)
  BY <1>1, <1>2, FaultPrivateStep, FaultSeen, Zenon
<1>3. CASE FaultCached(p, v) \/ FaultFill(p, v)
  <2>1. area[p][v].kind = "file"
    BY <1>3, Zenon DEF FaultCached, FaultFill, Cacheable
  <2>2. /\ Held(k', Pg(p, v)) /\ k'.mem[k'.hold[Pg(p, v)]] = file
        /\ \A q \in Procs, u \in Pages : Pg(q, u) # Pg(p, v) => Same(q, u)
    BY <1>3, FaultCachedStep, FaultFillStep, Zenon
  <2>. QED  BY <1>1, <2>1, <2>2, FaultSeen, Zenon
<1>. QED  BY <1>2, <1>3, Zenon

(* The start of a fork is not noticed.                                     *)
LEMMA ForkSeen ==
    ASSUME CowInv, NEW p \in Procs, NEW q \in Procs, Fork(p, q)
    PROVE  UNCHANGED Memory!pvars
<1>1. /\ loop = Idle /\ q \notin live /\ area' = [area EXCEPT ![q] = area[p]]
      /\ UNCHANGED <<live, file>>
  BY Zenon DEF Fork, At
<1>2. AreasOK /\ \A r \in Procs, u \in Pages : Same(r, u)
  BY <1>1, ForkStep, FromIdle, Zenon DEF Always
<1>3. ASSUME NEW r \in Procs, NEW u \in Pages PROVE View(r, u)' = View(r, u)
  <2>1. CASE r = q
    BY <1>1, <2>1, Zenon DEF View
  <2>2. CASE r # q
    <3>1. area'[r][u] = area[r][u]
      BY <1>1, <1>2, <2>2, Zenon DEF AreasOK
    <3>. QED  BY <1>1, <1>2, <3>1, ViewSame, Zenon
  <2>. QED  BY <2>1, <2>2, Zenon
<1>. QED  BY <1>1, <1>3, NothingSeen, Zenon

(* Sharing a page with the child, and giving up for want of frames, is not *)
(* noticed.                                                                *)
LEMMA CloneStepSeen ==
    ASSUME CowInv, NEW v \in Pages, CloneStep(v) PROVE UNCHANGED Memory!pvars
<1>1. loop.op = "clone" /\ UNCHANGED <<area, live, file>>
  BY Zenon DEF CloneStep, Cursor
<1>2. loop.q \in Procs \ live
  BY <1>1, InLoop, Zenon DEF ProcsInv, Changing
<1>3. \A r \in Procs \ {loop.q}, u \in Pages : Same(r, u)
  BY CloneStepStep, Zenon
<1>4. ASSUME NEW r \in Procs, NEW u \in Pages PROVE View(r, u)' = View(r, u)
  <2>1. CASE r = loop.q
    BY <1>1, <1>2, <2>1, Zenon DEF View
  <2>2. CASE r # loop.q
    BY <1>1, <1>3, <2>2, ViewSame, Zenon
  <2>. QED  BY <2>1, <2>2, Zenon
<1>. QED  BY <1>1, <1>4, NothingSeen, Zenon

(* The end of a fork gives the child a copy of all of its parent's memory  *)
(* at once.                                                                *)
LEMMA CloneDoneSeen ==
    ASSUME CowInv, CloneDone PROVE \E p, q \in Procs : Memory!Fork(p, q)
<1> DEFINE p == loop.p
           q == loop.q
<1>1. /\ loop.op = "clone" /\ loop.todo = {} /\ live' = live \cup {q}
      /\ UNCHANGED <<k, area, file>>
  BY Zenon DEF CloneDone
<1>2. Always /\ p \in Procs /\ p \in live /\ q \in Procs \ live
  BY <1>1, InLoop, Zenon DEF ProcsInv, Changing, LoopInv
<1>3. \A v \in Pages : area[q][v] = area[p][v] /\ k.hold[Pg(q, v)] = k.hold[Pg(p, v)]
  BY <1>1, InLoop, Zenon DEF LoopInv
<1> HIDE DEF p, q
<1>4. ASSUME NEW r \in Procs, NEW u \in Pages
      PROVE  View(r, u)' = IF r = q THEN Views[p][u] ELSE View(r, u)
  <2>1. CASE r = q
    <3>1. /\ r \in live' /\ p \in live /\ k' = k /\ area' = area
          /\ area[r][u] = area[p][u] /\ k.hold[Pg(r, u)] = k.hold[Pg(p, u)]
      BY <1>1, <1>2, <1>3, <2>1, Zenon
    <3>2. View(r, u)' = View(p, u)
      BY <3>1, Zenon DEF View, Held
    <3>. QED  BY <1>2, <2>1, <3>2, Zenon DEF Views
  <2>2. CASE r # q
    BY <1>1, <2>2, ViewSame, Zenon DEF Same
  <2>. QED  BY <2>1, <2>2, Zenon
<1>5. Views[p] = [u \in Pages |-> Views[p][u]]
  BY <1>2, Zenon DEF Views
<1>6. Views' = [Views EXCEPT ![q] = Views[p]]
  BY <1>2, <1>4, <1>5, ViewsBecome, Zenon
<1>7. Memory!Exists(p) /\ ~Memory!Exists(q)
  BY <1>2, There, NotThere, Zenon
<1>8. Memory!Fork(p, q)
  BY <1>1, <1>6, <1>7, Zenon DEF Memory!Fork, Views
<1>. QED  BY <1>2, <1>8, Zenon

(* exit takes the memory away at once, although its frames go one by one.  *)
LEMMA ExitSeen == ASSUME CowInv, NEW p \in Procs, Exit(p) PROVE Memory!Exit(p)
<1>1. loop = Idle /\ p \in live /\ live' = live \ {p} /\ UNCHANGED <<k, area, file>>
  BY Zenon DEF Exit, At
<1>2. ASSUME NEW q \in Procs, NEW u \in Pages
      PROVE  View(q, u)' = IF q = p THEN [v \in Pages |-> "gone"][u] ELSE View(q, u)
  <2>1. CASE q = p
    BY <1>1, <2>1, Zenon DEF View
  <2>2. CASE q # p
    BY <1>1, <2>2, ViewSame, Zenon DEF Same
  <2>. QED  BY <2>1, <2>2, Zenon
<1>3. Views' = [Views EXCEPT ![p] = [v \in Pages |-> "gone"]]
  BY <1>2, ViewsBecome, Zenon
<1>4. Memory!Exists(p)
  BY <1>1, FromIdle, There, Zenon
<1>. QED  BY <1>1, <1>3, <1>4, Zenon DEF Memory!Exit, Memory!Nothing, Views

(* The loops of munmap and exit change nothing a living process sees.      *)
LEMMA TeardownSeen ==
    ASSUME CowInv, DestroyDone \/ \E v \in Pages : DestroyStep(v) \/ UnmapStep(v)
    PROVE  UNCHANGED Memory!pvars
<1>1. CASE DestroyDone
  <2>1. /\ loop.op = "destroy" /\ UNCHANGED <<live, file>>
        /\ area' = [area EXCEPT ![loop.p] = [v \in Pages |-> NoArea]]
    BY <1>1, Zenon DEF DestroyDone
  <2>2. /\ loop.p \in Procs \ live /\ AreasOK /\ \A r \in Procs, u \in Pages : Same(r, u)
    BY <1>1, <2>1, InLoop, DestroyDoneStep, Zenon DEF ProcsInv, Changing, Always
  <2>3. ASSUME NEW r \in Procs, NEW u \in Pages PROVE View(r, u)' = View(r, u)
    <3>1. CASE r = loop.p
      BY <2>1, <2>2, <3>1, Zenon DEF View
    <3>2. CASE r # loop.p
      <4>1. area'[r][u] = area[r][u]
        BY <2>1, <2>2, <3>2, Zenon DEF AreasOK
      <4>. QED  BY <2>1, <2>2, <4>1, ViewSame, Zenon
    <3>. QED  BY <3>1, <3>2, Zenon
  <2>. QED  BY <2>1, <2>3, NothingSeen, Zenon
<1>2. ASSUME NEW v \in Pages, DestroyStep(v) \/ UnmapStep(v)
      PROVE  UNCHANGED Memory!pvars
  <2> DEFINE p == loop.p
  <2>1. loop.op \in {"destroy", "unmap"} /\ v \in loop.todo /\ UNCHANGED <<area, live, file>>
    BY <1>2, Zenon DEF DestroyStep, UnmapStep, Cursor
  <2>2. /\ p \in Procs /\ \A r \in Procs, u \in Pages : Pg(r, u) # Pg(p, v) => Same(r, u)
    BY <1>2, <2>1, InLoop, DestroyStepStep, UnmapStepStep, Zenon
  <2>3. p \notin live \/ area[p][v] = NoArea
    BY <2>1, InLoop, Zenon DEF ProcsInv, Changing, LoopInv
  <2> HIDE DEF p
  <2>4. ASSUME NEW r \in Procs, NEW u \in Pages PROVE View(r, u)' = View(r, u)
    <3>1. CASE r = p /\ u = v
      BY <2>1, <2>3, <3>1, Zenon DEF View
    <3>2. CASE ~(r = p /\ u = v)
      <4>1. Same(r, u)
        BY <2>2, <3>2, SlotsDiffer
      <4>. QED  BY <2>1, <4>1, ViewSame, Zenon
    <3>. QED  BY <3>1, <3>2, Zenon
  <2>. QED  BY <2>1, <2>4, NothingSeen, Zenon
<1>. QED  BY <1>1, <1>2, Zenon

(* A write to the file is a write to the file and, with the invalidation   *)
(* after it, leaves what is mapped alone.                                  *)
LEMMA FileSeen ==
    ASSUME CowInv
    PROVE  /\ \A x \in Files : FileWrite(x) => Memory!FileWrite(x)
           /\ RangeDone => UNCHANGED Memory!pvars
           /\ \A i \in CacheIdx : InvalidateStep(i) => UNCHANGED Memory!pvars
<1>1. ASSUME NEW x \in Files, FileWrite(x) PROVE Memory!FileWrite(x)
  <2>1. UNCHANGED <<k, area, live>> /\ file' = x
    BY <1>1, Zenon DEF FileWrite
  <2>2. \A q \in Procs, u \in Pages : View(q, u)' = View(q, u)
    BY <2>1, Zenon DEF View, Held
  <2>3. Views' = Views
    BY <2>2, Zenon DEF Views
  <2>. QED  BY <2>1, <2>3, Zenon DEF Memory!FileWrite, Views
<1>2. ASSUME RangeDone PROVE UNCHANGED Memory!pvars
  <2>1. UNCHANGED <<k, area, live, file>>
    BY <1>2, Zenon DEF RangeDone
  <2>2. \A q \in Procs, u \in Pages : View(q, u)' = View(q, u)
    BY <2>1, Zenon DEF View, Held
  <2>. QED  BY <2>1, <2>2, NothingSeen, Zenon
<1>3. ASSUME NEW i \in CacheIdx, InvalidateStep(i) PROVE UNCHANGED Memory!pvars
  <2>1. UNCHANGED <<area, live, file>> /\ \A q \in Procs, u \in Pages : Same(q, u)
    BY <1>3, InvalidateStepStep, Zenon DEF InvalidateStep
  <2>2. \A q \in Procs, u \in Pages : View(q, u)' = View(q, u)
    BY <2>1, ViewSame, Zenon
  <2>. QED  BY <2>1, <2>2, NothingSeen, Zenon
<1>. QED  BY <1>1, <1>2, <1>3, Zenon

(* Every step of the address spaces is a step of private memories, or is   *)
(* not noticed.                                                            *)
LEMMA CowNextSeen ==
    ASSUME CowInv, [CowNext]_cowVars PROVE [Memory!Next]_(Memory!pvars)
<1>1. CASE \E p \in Roots : Spawn(p)
  <2>1. \E p \in Procs : Memory!Start(p)
    BY <1>1, SpawnSeen, CowArgsAssumption, Zenon
  <2>. QED  BY <2>1, Zenon DEF Memory!Next
<1>2. ASSUME NEW p \in Procs, Exit(p) PROVE Memory!Next
  BY <1>2, ExitSeen, Zenon DEF Memory!Next
<1>3. ASSUME NEW p \in Procs, NEW m \in MapArgs, Mmap(p, m[1], m[2], m[3])
      PROVE  Memory!Next
  <2>1. m[1] \in SUBSET Pages /\ m[2] \in {"anon", "file"} /\ m[3] \in Prots
    BY CowArgsAssumption, Zenon
  <2>2. \E x \in {Zero, "untouched"} : Memory!Map(p, m[1], x)
    BY <1>3, <2>1, MmapSeen, Zenon
  <2>. QED  BY <2>1, <2>2, Zenon DEF Memory!Next
<1>4. ASSUME NEW p \in Procs, NEW vs \in SUBSET Pages, Munmap(p, vs) PROVE Memory!Next
  <2>1. Memory!Unmap(p, vs)
    BY <1>4, MunmapSeen, Zenon
  <2>. QED  BY <2>1, Zenon DEF Memory!Next
<1>5. ASSUME NEW p \in Procs, NEW vs \in SUBSET Pages, NEW prot \in ProtArgs,
             Mprotect(p, vs, prot)
      PROVE  UNCHANGED Memory!pvars
  BY <1>5, MprotectSeen, CowArgsAssumption, Zenon
<1>6. ASSUME NEW p \in Procs, NEW v \in Pages, Store(p, v) PROVE Memory!Next
  <2>1. Memory!Store(p, v)
    BY <1>6, StoreSeen, Zenon
  <2>. QED  BY <2>1, Zenon DEF Memory!Next
<1>7. ASSUME NEW p \in Procs, NEW v \in Pages, WriteFault(p, v) PROVE UNCHANGED Memory!pvars
  BY <1>7, WriteFaultSeen, Zenon
<1>8. ASSUME NEW p \in Procs, NEW v \in Pages,
             FaultCached(p, v) \/ FaultFill(p, v) \/ FaultPrivate(p, v)
      PROVE  Memory!Next \/ UNCHANGED Memory!pvars
  <2>1. Memory!Touch(p, v) \/ UNCHANGED Memory!pvars
    BY <1>8, FaultsSeen, Zenon
  <2>. QED  BY <2>1, Zenon DEF Memory!Next
<1>9. ASSUME NEW p \in Procs, NEW q \in Procs, Fork(p, q) PROVE UNCHANGED Memory!pvars
  BY <1>9, ForkSeen, Zenon
<1>10. ASSUME NEW v \in Pages, CloneStep(v) PROVE UNCHANGED Memory!pvars
  BY <1>10, CloneStepSeen, Zenon
<1>11. CASE DestroyDone \/ \E v \in Pages : DestroyStep(v) \/ UnmapStep(v)
  BY <1>11, TeardownSeen, Zenon
<1>12. CASE CloneDone
  <2>1. \E p, q \in Procs : Memory!Fork(p, q)
    BY <1>12, CloneDoneSeen, Zenon
  <2>. QED  BY <2>1, Zenon DEF Memory!Next
<1>13. ASSUME NEW x \in Files, FileWrite(x) PROVE Memory!Next
  BY <1>13, FileSeen, Zenon DEF Memory!Next
<1>14. CASE RangeDone \/ \E i \in CacheIdx : InvalidateStep(i)
  BY <1>14, FileSeen, Zenon
<1>15. CASE UNCHANGED cowVars
  <2>1. \A q \in Procs, u \in Pages : View(q, u)' = View(q, u)
    BY <1>15, Zenon DEF cowVars, View, Held
  <2>. QED  BY <1>15, <2>1, NothingSeen, Zenon DEF cowVars
<1>. QED  BY <1>1, <1>2, <1>3, <1>4, <1>5, <1>6, <1>7, <1>8, <1>9, <1>10, <1>11, <1>12,
             <1>13, <1>14, <1>15, Zenon DEF CowNext
-----------------------------------------------------------------------------
(* The facts on the sizes of sets that FrameFacts names.                   *)
INSTANCE FiniteSetTheorems

(* A nonempty set of natural numbers has a least element, which Min        *)
(* returns.                                                                *)
LEMMA MinIsLeast ==
    ASSUME NEW S \in SUBSET Nat, S # {}
    PROVE  Min(S) \in S /\ \A y \in S : Min(S) <= y
<1> DEFINE R == {ss \in Nat \X Nat : ss[1] < ss[2]}
<1>1. IsWellFoundedOn(R, Nat)
  BY NatLessThanWellFounded, Zenon DEF OpToRel
<1>2. PICK x \in S : \A y \in S : ~(<<y, x>> \in R)
  <2> HIDE DEF R
  <2>. QED  BY <1>1, WFMin, Zenon
<1>3. ASSUME NEW y \in S PROVE x <= y
  <2>1. x \in Nat /\ y \in Nat
    OBVIOUS
  <2>2. <<y, x>> \in R <=> y < x
    BY <2>1, Zenon
  <2>. QED  BY <2>1, <2>2, <1>2
<1>. QED
  BY <1>3, Zenon DEF Min

(* The managed window is finite, so the free count of pmm.c can be a       *)
(* cardinality.                                                            *)
LEMMA FramesFinite ==
    /\ IsFiniteSet(Frames) /\ Cardinality(Frames) = NumFrames
    /\ \A S \in SUBSET Frames : /\ IsFiniteSet(S)
                                /\ Cardinality(S) \in 0 .. NumFrames
                                /\ Cardinality(S) = 0 <=> S = {}
<1>1. IsFiniteSet(Frames) /\ Cardinality(Frames) = NumFrames
  BY PmmAssumption, FS_Interval DEF Frames
<1>2. ASSUME NEW S \in SUBSET Frames
      PROVE  /\ IsFiniteSet(S)
             /\ Cardinality(S) \in 0 .. NumFrames
             /\ Cardinality(S) = 0 <=> S = {}
  <2>1. IsFiniteSet(S) /\ Cardinality(S) <= NumFrames
    BY <1>1, FS_Subset, Zenon
  <2>2. Cardinality(S) \in Nat
    BY <2>1, FS_CardinalityType, Zenon
  <2>3. Cardinality(S) = 0 <=> S = {}
    BY <2>1, FS_EmptySet, Zenon
  <2>. QED  BY <2>1, <2>2, <2>3, PmmAssumption
<1>. QED  BY <1>1, <1>2, Zenon

(* There are finitely many places that can hold a frame, so the holders of *)
(* one can be counted.                                                     *)
LEMMA SlotsFinite == IsFiniteSet(Slots)
<1> DEFINE Owners == Procs \cup {"cache"}
           Kinds == {"page", "table", "pd", "slot"}
           Idx == 0..(NumPages + NumCache)
           P3 == (Owners \X Kinds) \X Idx
           f == [x \in P3 |-> <<x[1][1], x[1][2], x[2]>>]
           T == {f[x] : x \in P3}
<1>1. IsFiniteSet(Owners)
  BY CowAssumption, FS_AddElement, Zenon
<1>2. IsFiniteSet(Kinds) /\ IsFiniteSet(Idx)
  <2>1. NumPages + NumCache \in Int
    BY CowAssumption
  <2>2. \A b \in Int : IsFiniteSet(0..b)
    BY FS_Interval
  <2>3. IsFiniteSet(Idx)
    BY <2>1, <2>2, Zenon
  <2>4. IsFiniteSet(Kinds)
    <3>1. IsFiniteSet({"page"} \cup {"table"})
      BY FS_Singleton, FS_AddElement, Zenon
    <3>2. IsFiniteSet(({"page"} \cup {"table"}) \cup {"pd"})
      BY <3>1, FS_AddElement, Zenon
    <3>3. IsFiniteSet((({"page"} \cup {"table"}) \cup {"pd"}) \cup {"slot"})
      BY <3>2, FS_AddElement, Zenon
    <3>4. Kinds = (({"page"} \cup {"table"}) \cup {"pd"}) \cup {"slot"}
      OBVIOUS
    <3>. QED  BY <3>3, <3>4, Zenon
  <2>. QED  BY <2>3, <2>4, Zenon
<1>3. IsFiniteSet(P3)
  BY <1>1, <1>2, FS_Product, Zenon
<1>4. IsFiniteSet(T)
  <2>1. f \in Surjection(P3, T)
    BY Zenon DEF Surjection
  <2>. QED  BY <1>3, <2>1, FS_Surjection
<1>5. ASSUME NEW o \in Owners, NEW n \in Kinds, NEW i \in Idx PROVE <<o, n, i>> \in T
  <2>1. <<<<o, n>>, i>> \in P3 /\ f[<<<<o, n>>, i>>] = <<o, n, i>>
    OBVIOUS
  <2>. QED  BY <2>1, Zenon
<1>6. Pages \subseteq Idx /\ CacheIdx \subseteq Idx /\ 0 \in Idx
  BY CowAssumption DEF Pages, CacheIdx
<1>7. \A v \in Pages : v \div PerTable \in Idx
  BY CowAssumption DEF Pages
<1>8. Slots \subseteq T
  <2> HIDE DEF T, f, P3
  <2> SUFFICES ASSUME NEW s \in Slots PROVE s \in T
    OBVIOUS
  <2>1. CASE \E p \in Procs, v \in Pages : s = Pg(p, v)
    BY <1>5, <1>6, <2>1, Zenon DEF Pg
  <2>2. CASE \E p \in Procs, v \in Pages : s = Tb(p, v)
    BY <1>5, <1>7, <2>2, Zenon DEF Tb
  <2>3. CASE \E p \in Procs : s = Pd(p)
    BY <1>5, <1>6, <2>3, Zenon DEF Pd
  <2>4. CASE \E i \in CacheIdx : s = Ca(i)
    BY <1>5, <1>6, <2>4, Zenon DEF Ca
  <2>. QED  BY <2>1, <2>2, <2>3, <2>4, SlotKinds, Zenon
<1>. QED  BY <1>4, <1>8, FS_Subset, Zenon
(* Cardinality counts the subsets of a finite set.                         *)
LEMMA FiniteSizes == ASSUME NEW B, IsFiniteSet(B) PROVE Sizes(B)
<1> SUFFICES ASSUME NEW S \in SUBSET B
             PROVE  /\ Cardinality(S) \in Nat
                    /\ Cardinality(S) = 0 <=> S = {}
                    /\ Cardinality(S) = 1 <=> \E e \in B : S = {e}
                    /\ \A e \in B \ S : Cardinality(S \cup {e}) = Cardinality(S) + 1
                    /\ \A e \in S : Cardinality(S \ {e}) = Cardinality(S) - 1
  BY Zenon DEF Sizes
<1>1. IsFiniteSet(S)
  BY FS_Subset, Zenon
<1>2. Cardinality(S) \in Nat
  BY <1>1, FS_CardinalityType, Zenon
<1>3. Cardinality(S) = 0 <=> S = {}
  BY <1>1, FS_EmptySet, Zenon
<1>4. Cardinality(S) = 1 <=> \E e \in B : S = {e}
  BY <1>1, FS_Singleton, Zenon
<1>5. \A e \in B \ S : Cardinality(S \cup {e}) = Cardinality(S) + 1
  BY <1>1, FS_AddElement, Zenon
<1>6. \A e \in S : Cardinality(S \ {e}) = Cardinality(S) - 1
  BY <1>1, FS_RemoveElement, Zenon
<1>. QED  BY <1>2, <1>3, <1>4, <1>5, <1>6, Zenon

(* The facts on frames that the lemmas on the allocator take.              *)
LEMMA FrameSizesHold == FrameSizes
<1>1. LeastElements
  BY MinIsLeast, Zenon DEF LeastElements
<1>2. Sizes(Frames)
  BY FramesFinite, FiniteSizes, Zenon
<1>3. ASSUME NEW S \in SUBSET Frames, NEW T \in SUBSET S
      PROVE  Cardinality(S \ T) = Cardinality(S) - Cardinality(T)
  <2>1. S \cap T = T
    BY Zenon
  <2>2. IsFiniteSet(S)
    BY FramesFinite, Zenon
  <2>3. Cardinality(S \ T) = Cardinality(S) - Cardinality(S \cap T)
    BY <2>2, FS_Difference, Zenon
  <2>. QED  BY <2>1, <2>3, Zenon
<1>4. ASSUME NEW m \in Nat, NEW n \in Nat PROVE Cardinality(m .. m + n - 1) = n
  <2>1. m + n - 1 \in Int
    OBVIOUS
  <2>2. Cardinality(m .. m + n - 1) = IF m > m + n - 1 THEN 0
                                      ELSE (m + n - 1) - m + 1
    BY <2>1, FS_Interval
  <2>. QED  BY <2>2
<1>. QED  BY <1>1, <1>2, <1>3, <1>4, FramesFinite, Zenon DEF FrameSizes

(* Adding or removing one holder of a frame changes the number of its      *)
(* holders by one.                                                         *)
LEMMA SlotSizesHold == SlotSizes
  BY SlotsFinite, FiniteSizes, Zenon DEF SlotSizes

-----------------------------------------------------------------------------
(* Multiplication by a frame size keeps the order.                         *)
LEMMA TimesMonotone ==
    ASSUME NEW a \in Nat, NEW b \in Nat, NEW c \in Nat, a <= b
    PROVE  a * c <= b * c /\ a * c \in Nat /\ b * c \in Nat
<1>1. PICK d \in Nat : b = a + d
  <2>1. b - a \in Nat /\ b = a + (b - a)
    OBVIOUS
  <2>. QED  BY <2>1, Zenon
<1>2. b * c = a * c + d * c /\ d * c \in Nat /\ a * c \in Nat
  BY <1>1
<1>. QED  BY <1>2

(* After boot all frames are free and no slot holds one.                   *)
LEMMA BootedFrames == Counted(Booted) /\ \A s \in Slots : ~Held(Booted, s)
<1>1. FramesCovered(PmmBase, MaxPhys) = Frames
  <2> SUFFICES ASSUME NEW f \in Frames
               PROVE  PmmBase <= idx_to_addr(f) /\ idx_to_addr(f + 1) <= MaxPhys
    BY Zenon DEF FramesCovered
  <2>1. /\ f \in Nat /\ f + 1 \in Nat /\ f + 1 <= NumFrames /\ NumFrames \in Nat
        /\ FrameSize \in Nat /\ PmmBase \in Nat
    BY PmmAssumption DEF Frames
  <2>2. f * FrameSize \in Nat
    BY <2>1, TimesMonotone
  <2>3. (f + 1) * FrameSize <= NumFrames * FrameSize /\ (f + 1) * FrameSize \in Nat
        /\ NumFrames * FrameSize \in Nat
    BY <2>1, TimesMonotone, Zenon
  <2>. QED  BY <2>1, <2>2, <2>3 DEF idx_to_addr, MaxPhys
<1> DEFINE pm0 == pmm_init({<<PmmBase, MaxPhys>>}, {})
<1>2. PmmConsistent(pm0)
  BY InitConsistent, FrameSizesHold, Zenon
<1>3. pm0.refcount = [f \in Frames |-> 0]
  <2>1. UNION {FramesCovered(r[1], r[2]) : r \in {<<PmmBase, MaxPhys>>}} = Frames
    BY <1>1
  <2>2. UNION {FramesTouched(r[1], r[2]) : r \in {}} = {}
    OBVIOUS
  <2>. QED  BY <2>1, <2>2, Zenon DEF pmm_init
<1> HIDE DEF pm0
<1>4. Booted = [pm |-> pm0, hold |-> [s \in Slots |-> None],
                flag |-> [s \in PageSlots |-> {}], mem |-> [f \in Frames |-> Zero]]
  BY Zenon DEF Booted, pm0
<1>5. Booted \in KStates
  BY <1>2, <1>4, Zenon DEF KStates, PmmConsistent, Flags, Contents
<1>6. \A f \in Frames : Holders(Booted, f) = {}
  BY <1>4, NoneIsNoFrame, Zenon DEF Holders
<1>7. Counted(Booted)
  <2>1. Booted.pm = pm0
    BY <1>4, Zenon
  <2>2. \A f \in Frames : Booted.pm.refcount[f] = Cardinality(Holders(Booted, f)) + 0
    BY <1>3, <1>6, <2>1, FS_EmptySet
  <2>. QED  BY <1>2, <1>5, <2>1, <2>2, NoneIsNoFrame, FrameSizesHold, SlotSizesHold, Zenon
            DEF Counted, Over
<1>8. \A s \in Slots : ~Held(Booted, s)
  BY <1>4, Zenon DEF Held
<1>. QED  BY <1>7, <1>8, Zenon

(* The state after boot satisfies the invariant.                           *)
LEMMA CowInitInv == ASSUME CowInit PROVE CowInv
<1>1. /\ k = Booted /\ area = [p \in Procs |-> [v \in Pages |-> NoArea]] /\ live = {}
      /\ loop = Idle /\ cached = [i \in CacheIdx |-> 0] /\ file \in Files
  BY Zenon DEF CowInit
<1>2. Counted(k) /\ \A s \in Slots : ~Held(k, s)
  BY <1>1, BootedFrames, Zenon
<1>3. AreasOK
  <2>1. NoArea \in Areas /\ NoArea.prot \subseteq NoArea.max
    BY Zenon DEF NoArea, Areas, Prots
  <2>. QED  BY <1>1, <2>1, Zenon DEF AreasOK
<1>4. ASSUME NEW p \in Procs, NEW v \in Pages
      PROVE  ~Held(k, Pg(p, v)) /\ k.flag[Pg(p, v)] = {}
  <2>1. Pg(p, v) \in PageSlots /\ Pg(p, v) \in Slots
    BY SlotNames, Zenon
  <2>. QED  BY <1>1, <1>2, <2>1, Zenon DEF Booted
<1>5. Always
  <2>1. cached \in [CacheIdx -> Pages]
    BY <1>1, CowAssumption DEF Pages
  <2>2. \A p \in Procs, v \in Pages : FlagsOK(k, p, v)
    BY <1>4, Zenon DEF FlagsOK
  <2>. QED  BY <1>1, <1>2, <1>3, <2>1, <2>2, Zenon DEF Always, LoopOK
<1>6. loop.op = "idle"
  BY <1>1, Zenon DEF Idle
<1>7. PagesInv
  BY <1>4, Zenon DEF PagesInv, RightsOK
<1>8. ProcsInv
  BY <1>1, <1>2, <1>6, Zenon DEF ProcsInv, Changing, Gone
<1>9. LoopInv /\ CacheInv
  BY <1>2, <1>6, SlotNames, Zenon DEF LoopInv, CacheInv
<1>. QED  BY <1>5, <1>7, <1>8, <1>9, Zenon DEF CowInv

(* However the calls, the faults and the loops of paging.c, process.c and  *)
(* vfs.c follow each other, the inductive invariant holds.                 *)
THEOREM CowInvariant == CowSpec => []CowInv
<1>1. CowInit => CowInv
  BY CowInitInv, Zenon
<1>2. CowInv /\ [CowNext]_cowVars => CowInv'
  BY CowNextInv, Zenon
<1>. QED  BY <1>1, <1>2, PTL DEF CowSpec

(* However fork, exec, exit, mmap, munmap, mprotect, page faults, writes   *)
(* to the mapped file and the loops of paging.c and process_vm.c follow    *)
(* each other, every frame's reference count is the number of its holders, *)
(* a writable page table entry is its frame's only holder and its area     *)
(* allows the write, a permitted write can be resolved, the page cache     *)
(* holds what the file holds and a destroyed space holds nothing.          *)
THEOREM SpacesTheorem == CowSpec => []SpacesSound
  BY CowInvariant, InvSound, PTL

(* Every process has memory of its own: sharing frames at fork and in the  *)
(* page cache, and taking them apart again on the first write, page by     *)
(* page and in whatever order, shows the programs exactly what an address  *)
(* space with its own copy of every page would show them.                  *)
THEOREM PrivateTheorem == CowSpec => PrivatePages
<1>1. CowInit => Memory!Init
  <2> SUFFICES ASSUME CowInit PROVE Memory!Init
    OBVIOUS
  <2>1. live = {} /\ file \in Files
    BY Zenon DEF CowInit
  <2>2. \A p \in Procs, v \in Pages : View(p, v) = "gone"
    BY <2>1, Zenon DEF View
  <2>3. Views = [p \in Procs |-> [v \in Pages |-> "gone"]]
    BY <2>2, Zenon DEF Views
  <2>. QED  BY <2>1, <2>3, Zenon DEF Memory!Init, Memory!Nothing, Views
<1>2. CowInv /\ [CowNext]_cowVars => [Memory!Next]_(Memory!pvars)
  BY CowNextSeen, Zenon
<1>. QED  BY <1>1, <1>2, CowInvariant, PTL DEF CowSpec, PrivatePages, Memory!Spec

-----------------------------------------------------------------------------
\* The inductive invariant of the allocator holds in every reachable state:
\* pmm_init establishes it, and each call of pmm.c and memory.c keeps it.
THEOREM PmmInvariant == Spec => []IInv
<1>1. Init => IInv
  BY InitIInv, FrameSizesHold, Zenon
<1>2. IInv /\ [Next]_vars => IInv'
  BY StepIInv, FrameSizesHold, Zenon
<1>. QED  BY <1>1, <1>2, PTL DEF Spec

\* s_free_count is the number of clear bits after any sequence of the
\* allocator's operations, on any window.
THEOREM FreeCountTheorem == Spec => []FreeCountExact
<1>1. IInv => FreeCountExact
  BY Zenon DEF IInv, PmmConsistent, FreeCountExact
<1>. QED  BY <1>1, PmmInvariant, PTL

\* pmm_alloc_frame never fails while a frame is free.
THEOREM AllocTheorem == Spec => []AllocFailsOnlyWhenFull
<1>1. IInv => AllocFailsOnlyWhenFull
  BY AllocConsistent, FrameSizesHold, Zenon DEF IInv, AllocFailsOnlyWhenFull
<1>. QED  BY <1>1, PmmInvariant, PTL

\* No release frees a frame under another holder, no frame is lost, and the
\* free count is exact, after any sequence of allocations, retains, releases
\* and bumps of the early heap.
THEOREM FramesTheorem == Spec => []FramesKept
<1>1. IInv => FramesKept
  BY Zenon DEF IInv, PmmConsistent, FreeCountExact, FramesKept
<1>. QED  BY <1>1, PmmInvariant, PTL
=============================================================================
