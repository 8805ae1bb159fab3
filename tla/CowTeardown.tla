---------------------------- MODULE CowTeardown -----------------------------
(***************************************************************************)
(* The inductive invariant of CowSteps is kept by exit and munmap, page by *)
(* page, down to the page tables and the page directory.                   *)
(***************************************************************************)
EXTENDS CowSteps

(* y has dropped page v of q, and its table if gone holds.                 *)
Dropped(x, y, q, v, gone) ==
    /\ Steps(x, y, None) /\ Apart(x, y, q, v) /\ ~Held(y, Pg(q, v))
    /\ y.flag = [x.flag EXCEPT ![Pg(q, v)] = {}]
    /\ ~gone => y.hold[Tb(q, v)] = x.hold[Tb(q, v)]
    /\ gone => ~Held(y, Tb(q, v))

(* Clearing a page table entry gives its frame back.                       *)
LEMMA DropPage ==
    ASSUME NEW x, Counted(x), NEW q \in Procs, NEW v \in Pages, Held(x, Pg(q, v)),
           NEW y, y = SetFlags(Drop(x, Pg(q, v)), q, v, {})
    PROVE  Dropped(x, y, q, v, FALSE) /\ \A r \in Slots \ {Pg(q, v)} : y.hold[r] = x.hold[r]
<1> DEFINE z == Drop(x, Pg(q, v))
<1>1. /\ z = Drop(x, Pg(q, v)) /\ y = SetFlags(z, q, v, {}) /\ {} \in Flags
      /\ Pg(q, v) \in Slots /\ Tb(q, v) \in Slots \ {Pg(q, v)}
  BY SlotNames, SlotsDiffer DEF Flags
<1> HIDE DEF z
<1>2. /\ Steps(x, z, None) /\ z.flag = x.flag /\ ~Held(z, Pg(q, v)) /\ Counted(z)
      /\ \A r \in Slots \ {Pg(q, v)} : z.hold[r] = x.hold[r]
  BY <1>1, DropSteps DEF Steps
<1>3. /\ Counted(y) /\ y.hold = z.hold /\ y.mem = z.mem
      /\ y.flag = [z.flag EXCEPT ![Pg(q, v)] = {}]
  <2>1. Counted(z) /\ y = SetFlags(z, q, v, {}) /\ {} \in Flags
    BY <1>1, <1>2, Zenon
  <2>. QED  BY <2>1, FlagSteps
<1>4. Steps(x, y, None)
  BY <1>2, <1>3, StepsAlike, Zenon
<1>. QED  BY <1>1, <1>2, <1>3, <1>4, Zenon DEF Dropped, Apart, Held

(* Freeing a page table that has no entry left gives its frame back.       *)
LEMMA DropTable ==
    ASSUME NEW x, NEW z, NEW q \in Procs, NEW v \in Pages, Dropped(x, z, q, v, FALSE),
           Held(z, Tb(q, v)), NEW y, y = Drop(z, Tb(q, v))
    PROVE  Dropped(x, y, q, v, TRUE)
<1>1. Tb(q, v) \in Slots /\ Pg(q, v) \in Slots \ {Tb(q, v)} /\ Counted(z)
  BY SlotNames, SlotsDiffer, Zenon DEF Dropped, Steps
<1>2. /\ Steps(z, y, None) /\ y.flag = z.flag /\ ~Held(y, Tb(q, v))
      /\ \A r \in Slots \ {Tb(q, v)} : y.hold[r] = z.hold[r]
  BY <1>1, DropSteps, Zenon
<1>3. Steps(x, z, None) /\ z.hold[Tb(q, v)] = x.hold[Tb(q, v)]
  BY Zenon DEF Dropped
<1>4. Steps(x, y, None)
  BY <1>1, <1>2, <1>3, StepsThen, Zenon
<1>. QED  BY <1>1, <1>2, <1>4, Zenon DEF Dropped, Apart, Held

(* A page that is dropped keeps the flags and the rights of all others.    *)
LEMMA DroppedPages ==
    ASSUME Always, NEW q \in Procs, NEW v \in Pages, NEW gone \in BOOLEAN,
           Dropped(k, k', q, v, gone)
    PROVE  \A r \in Procs, u \in Pages :
              /\ FlagsOK(k', r, u)
              /\ \A a : RightsOK(k, a, r, u) => RightsOK(k', a, r, u)
              /\ Held(k', Pg(r, u)) => Held(k, Pg(r, u))
<1> SUFFICES ASSUME NEW r \in Procs, NEW u \in Pages
             PROVE  /\ FlagsOK(k', r, u)
                    /\ \A a : RightsOK(k, a, r, u) => RightsOK(k', a, r, u)
                    /\ Held(k', Pg(r, u)) => Held(k, Pg(r, u))
  OBVIOUS
<1>1. k.flag \in [PageSlots -> Flags] /\ Steps(k, k', None) /\ FlagsOK(k, r, u)
  BY KTypes, Zenon DEF Always, Counted, Over, Dropped
<1>2. k'.flag = [k.flag EXCEPT ![Pg(q, v)] = {}]
  BY Zenon DEF Dropped
<1>3. CASE Pg(r, u) = Pg(q, v)
  <2>1. ~Held(k', Pg(r, u)) /\ k'.flag[Pg(r, u)] = {}
    BY <1>1, <1>2, <1>3, SlotNames, Zenon DEF Dropped
  <2>. QED  BY <2>1, Zenon DEF FlagsOK, RightsOK
<1>4. CASE Pg(r, u) # Pg(q, v)
  <2>1. Pg(r, u) \in PageSlots /\ Pg(r, u) \in Slots /\ Pg(r, u) # Tb(q, v)
    BY SlotNames, SlotsDiffer
  <2>2. k'.hold[Pg(r, u)] = k.hold[Pg(r, u)] /\ k'.flag[Pg(r, u)] = k.flag[Pg(r, u)]
    BY <1>1, <1>2, <1>4, <2>1, Zenon DEF Dropped, Apart
  <2>3. /\ FlagsOK(k, r, u) => FlagsOK(k', r, u)
        /\ \A a : RightsOK(k, a, r, u) => RightsOK(k', a, r, u)
    BY <1>1, <2>2, PageKept, Zenon DEF Held
  <2>. QED  BY <1>1, <2>2, <2>3, Zenon DEF Held
<1>. QED  BY <1>3, <1>4, Zenon

(* A page that is not there is skipped.                                    *)
LEMMA NothingDropped ==
    ASSUME Always, NEW q \in Procs, NEW v \in Pages, ~Held(k, Pg(q, v))
    PROVE  Dropped(k, k, q, v, FALSE)
<1>1. k.flag[Pg(q, v)] = {} /\ k.flag \in [PageSlots -> Flags] /\ Pg(q, v) \in PageSlots
  BY SlotNames, KTypes, Zenon DEF Always, FlagsOK, Counted, Over
<1>2. k.flag = [k.flag EXCEPT ![Pg(q, v)] = {}]
  BY <1>1, Zenon
<1>3. Steps(k, k, None)
  BY StepsSame, Zenon DEF Always
<1>. QED  BY <1>2, <1>3, Zenon DEF Dropped, Apart

(* A page, and its table with the last page, may be dropped in the middle  *)
(* of munmap or exit.                                                      *)
LEMMA DroppedStep ==
    ASSUME CowInv, NEW op \in {"destroy", "unmap"}, loop.op = op, NEW v \in loop.todo,
           NEW gone \in BOOLEAN, Dropped(k, k', loop.p, v, gone),
           gone => \A u \in Pages : u \div PerTable = v \div PerTable
                                        => ~Held(k', Pg(loop.p, u)),
           loop' = Rest(v), UNCHANGED <<area, live, cached, file>>
    PROVE  /\ Always' /\ PagesInv' /\ ProcsInv' /\ CacheInv'
           /\ \A r \in Procs, u \in Pages : Pg(r, u) # Pg(loop.p, v) => Same(r, u)
<1> DEFINE p == loop.p
<1>1. /\ Always /\ PagesInv /\ ProcsInv /\ CacheInv /\ p \in Procs /\ v \in Pages
      /\ loop.todo \in SUBSET Pages /\ loop.q = p
      /\ loop \in [op : {op}, p : Procs, q : Procs, todo : SUBSET Pages]
  BY InLoop, Zenon
<1>2. /\ loop' \in [op : {op}, p : Procs, q : Procs, todo : SUBSET Pages]
      /\ loop'.op = op /\ loop'.p = p /\ loop'.q = p /\ loop'.todo = loop.todo \ {v}
  BY <1>1, RestIs, Zenon
<1> HIDE DEF p
<1>3. Dropped(k, k', p, v, gone) /\ Steps(k, k', None) /\ Apart(k, k', p, v) /\ loop.p = p
  BY Zenon DEF Dropped, p
<1>4. \A r \in Procs, u \in Pages :
         /\ FlagsOK(k', r, u)
         /\ \A a : RightsOK(k, a, r, u) => RightsOK(k', a, r, u)
         /\ Held(k', Pg(r, u)) => Held(k, Pg(r, u))
  BY <1>1, <1>3, DroppedPages, Zenon
<1>5. Always'
  <2>1. LoopOK'
    BY <1>2, Zenon DEF LoopOK
  <2>. QED  BY <1>1, <1>3, <1>4, <2>1, Zenon DEF Always, AreasOK, Steps
<1>6. /\ \A r \in Procs, u \in Pages :
            Tb(r, u) # Tb(p, v) => k'.hold[Tb(r, u)] = k.hold[Tb(r, u)]
      /\ \A r \in Procs : k'.hold[Pd(r)] = k.hold[Pd(r)]
      /\ \A r \in Procs \ {p} : Gone(r) => Gone(r)'
      /\ \A i \in CacheIdx :
            /\ k'.hold[Ca(i)] = k.hold[Ca(i)]
            /\ Held(k, Ca(i)) => k'.mem[k'.hold[Ca(i)]] = k.mem[k.hold[Ca(i)]]
  BY <1>1, <1>3, ApartFacts, Zenon
<1>7. ASSUME NEW r \in Procs, NEW u \in Pages, Held(k', Pg(r, u)) PROVE Held(k', Tb(r, u))
  <2>1. Held(k, Tb(r, u))
    BY <1>1, <1>4, <1>7, Zenon DEF PagesInv
  <2>2. CASE Tb(r, u) # Tb(p, v)
    BY <1>6, <2>1, <2>2, Zenon DEF Held
  <2>3. CASE Tb(r, u) = Tb(p, v)
    <3>1. r = p /\ u \div PerTable = v \div PerTable
      BY <1>1, <2>3, SlotsDiffer
    <3>2. ~gone
      BY <1>3, <1>7, <3>1, Zenon
    <3>. QED  BY <1>3, <2>1, <2>3, <3>2, Zenon DEF Dropped, Held
  <2>. QED  BY <2>2, <2>3, Zenon
<1>8. ASSUME NEW r \in Procs, NEW u \in Pages, ~Pending(r, u)'
      PROVE  RightsOK(k', area'[r][u], r, u)
  <2>1. CASE r = p /\ u = v
    BY <1>3, <2>1, Zenon DEF RightsOK, Dropped
  <2>2. CASE ~(r = p /\ u = v)
    <3>1. ~Pending(r, u)
      BY <1>2, <1>3, <1>8, <2>2, Zenon DEF Pending
    <3>. QED  BY <1>1, <1>4, <3>1, Zenon DEF PagesInv
  <2>. QED  BY <2>1, <2>2, Zenon
<1>9. PagesInv'
  BY <1>7, <1>8, Zenon DEF PagesInv
<1>10. ProcsInv'
  <2>1. ASSUME NEW r \in Procs
        PROVE  /\ Changing(r)' <=> Changing(r)
               /\ ~Changing(r) /\ r \notin live => Gone(r) /\ r # p
    BY <1>1, <1>2, <1>3, InLoop, Zenon DEF Changing, ProcsInv, LoopInv
  <2>. QED  BY <1>1, <1>6, <2>1, Zenon DEF ProcsInv, Held
<1>11. CacheInv'
  BY <1>1, <1>2, <1>3, <1>6, Zenon DEF CacheInv, Held
<1>12. \A r \in Procs, u \in Pages : Pg(r, u) # Pg(loop.p, v) => Same(r, u)
  BY <1>1, <1>3, ApartFacts
<1>. QED  BY <1>5, <1>9, <1>10, <1>11, <1>12, Zenon

(* One page of munmap.                                                     *)
LEMMA UnmapStepStep ==
    ASSUME CowInv, NEW v \in Pages, UnmapStep(v)
    PROVE  CowInv' /\ \A r \in Procs, u \in Pages : Pg(r, u) # Pg(loop.p, v) => Same(r, u)
<1> DEFINE p == loop.p
           z == SetFlags(Drop(k, Pg(p, v)), p, v, {})
<1>1. /\ loop.op = "unmap" /\ v \in loop.todo /\ k' = UnmapPage(k, p, v) /\ loop' = Rest(v)
      /\ UNCHANGED <<area, live, cached, file>>
  BY Zenon DEF UnmapStep, Cursor
<1>2. /\ Always /\ PagesInv /\ LoopInv /\ p \in Procs /\ Counted(k)
      /\ loop \in [op : {"unmap"}, p : Procs, q : Procs, todo : SUBSET Pages]
  BY <1>1, InLoop, Zenon
<1>3. PICK gone \in BOOLEAN :
        /\ Dropped(k, k', p, v, gone)
        /\ gone => \A u \in Pages : u \div PerTable = v \div PerTable => ~Held(k', Pg(p, u))
  <2>1. CASE ~Held(k, Pg(p, v))
    <3>1. k' = k
      BY <1>1, <2>1, Zenon DEF UnmapPage
    <3>2. Dropped(k, k', p, v, FALSE)
      BY <1>2, <2>1, <3>1, NothingDropped, Zenon
    <3>. QED  BY <3>2, Zenon
  <2>2. CASE Held(k, Pg(p, v))
    <3>1. /\ z = SetFlags(Drop(k, Pg(p, v)), p, v, {})
          /\ k' = IF TableEmpty(z, p, v) THEN Drop(z, Tb(p, v)) ELSE z
      BY <1>1, <2>2, Zenon DEF UnmapPage
    <3> HIDE DEF z, p
    <3>2. Dropped(k, z, p, v, FALSE)
      BY <1>2, <2>2, <3>1, DropPage, Zenon
    <3>3. CASE ~TableEmpty(z, p, v)
      BY <3>1, <3>2, <3>3, Zenon
    <3>4. CASE TableEmpty(z, p, v)
      <4>1. Held(z, Tb(p, v))
        BY <1>2, <2>2, <3>2, Zenon DEF Dropped, PagesInv, Held
      <4>2. k' = Drop(z, Tb(p, v))
        BY <3>1, <3>4, Zenon
      <4>3. Dropped(k, k', p, v, TRUE)
        BY <1>2, <3>2, <4>1, <4>2, DropTable, Zenon
      <4>4. ASSUME NEW u \in Pages, u \div PerTable = v \div PerTable
            PROVE  ~Held(k', Pg(p, u))
        <5>1. ~Held(z, Pg(p, u)) /\ Pg(p, u) \in Slots /\ Pg(p, u) # Tb(p, v)
          BY <1>2, <3>4, <4>4, SlotNames, SlotsDiffer DEF TableEmpty
        <5>2. Pg(p, u) # Pg(p, v) => k'.hold[Pg(p, u)] = z.hold[Pg(p, u)]
          BY <3>2, <4>3, <5>1, Zenon DEF Dropped, Apart
        <5>. QED  BY <4>3, <5>1, <5>2, Zenon DEF Dropped, Held
      <4>. QED  BY <4>3, <4>4, Zenon
    <3>. QED  BY <3>3, <3>4, Zenon
  <2>. QED  BY <2>1, <2>2, Zenon
<1>4. /\ Always' /\ PagesInv' /\ ProcsInv' /\ CacheInv'
      /\ \A r \in Procs, u \in Pages : Pg(r, u) # Pg(loop.p, v) => Same(r, u)
  BY <1>1, <1>2, <1>3, DroppedStep, Zenon
<1>5. loop'.op = "unmap" /\ loop'.p = p /\ loop'.todo = loop.todo \ {v}
  BY <1>1, <1>2, RestIs, Zenon
<1>6. LoopInv'
  BY <1>1, <1>2, <1>5, Zenon DEF LoopInv
<1>. QED  BY <1>4, <1>6, Zenon DEF CowInv

(* One page of process_pd_destroy, with its page table after the last page *)
(* under it.                                                               *)
LEMMA DestroyStepStep ==
    ASSUME CowInv, NEW v \in Pages, DestroyStep(v)
    PROVE  CowInv' /\ \A r \in Procs, u \in Pages : Pg(r, u) # Pg(loop.p, v) => Same(r, u)
<1> DEFINE p == loop.p
           z == IF Held(k, Pg(p, v)) THEN SetFlags(Drop(k, Pg(p, v)), p, v, {}) ELSE k
           gone == LastOfTable(v) /\ Held(z, Tb(p, v))
<1>1. /\ loop.op = "destroy" /\ v \in loop.todo /\ (\A u \in loop.todo : v <= u)
      /\ loop' = Rest(v) /\ UNCHANGED <<area, live, cached, file>>
      /\ k' = IF gone THEN Drop(z, Tb(p, v)) ELSE z
  BY Zenon DEF DestroyStep, Cursor, DestroyPage
<1>2. /\ Always /\ LoopInv /\ p \in Procs /\ Counted(k) /\ loop.todo \in SUBSET Pages
      /\ loop \in [op : {"destroy"}, p : Procs, q : Procs, todo : SUBSET Pages]
  BY <1>1, InLoop, Zenon
<1>3. /\ \A w \in loop.todo, u \in Pages : u > w => u \in loop.todo
      /\ \A u \in Pages \ loop.todo :
            /\ ~Held(k, Pg(p, u))
            /\ (\A w \in loop.todo : w \div PerTable # u \div PerTable)
                  => ~Held(k, Tb(p, u))
  BY <1>1, <1>2, Zenon DEF LoopInv
<1>4. Dropped(k, z, p, v, FALSE)
  <2>1. CASE Held(k, Pg(p, v))
    <3>1. z = SetFlags(Drop(k, Pg(p, v)), p, v, {})
      BY <2>1, Zenon
    <3> HIDE DEF z, p
    <3>. QED  BY <1>2, <2>1, <3>1, DropPage, Zenon
  <2>2. CASE ~Held(k, Pg(p, v))
    <3>1. z = k
      BY <2>2, Zenon
    <3> HIDE DEF z, p
    <3>. QED  BY <1>2, <2>2, <3>1, NothingDropped, Zenon
  <2>. QED  BY <2>1, <2>2, Zenon
<1>5. (gone <=> LastOfTable(v) /\ Held(z, Tb(p, v))) /\ gone \in BOOLEAN
  OBVIOUS
<1> HIDE DEF z, gone
<1>6. Dropped(k, k', p, v, gone)
  <2> HIDE DEF p
  <2>1. CASE gone
    <3>1. Held(z, Tb(p, v)) /\ k' = Drop(z, Tb(p, v))
      BY <1>1, <1>5, <2>1, Zenon
    <3>2. Dropped(k, k', p, v, TRUE)
      BY <1>2, <1>4, <3>1, DropTable, Zenon
    <3>. QED  BY <2>1, <3>2, Zenon DEF Dropped
  <2>2. CASE ~gone
    BY <1>1, <1>4, <2>2, Zenon DEF Dropped
  <2>. QED  BY <2>1, <2>2, Zenon
<1>7. LastOfTable(v) => ~Held(k', Tb(p, v))
  <2>1. CASE gone
    BY <1>6, <2>1, Zenon DEF Dropped
  <2>2. CASE ~gone
    BY <1>1, <1>5, <2>2, Zenon
  <2>. QED  BY <2>1, <2>2, Zenon
<1>8. /\ \A u \in Pages : /\ u # v => k'.hold[Pg(p, u)] = k.hold[Pg(p, u)]
                          /\ u \div PerTable # v \div PerTable
                                => k'.hold[Tb(p, u)] = k.hold[Tb(p, u)]
      /\ ~Held(k', Pg(p, v))
  <2>1. Steps(k, k', None) /\ Apart(k, k', p, v) /\ ~Held(k', Pg(p, v)) /\ UNCHANGED area
    BY <1>1, <1>6, Zenon DEF Dropped
  <2>2. \A u \in Pages : /\ u # v => Pg(p, u) # Pg(p, v)
                         /\ u \div PerTable # v \div PerTable => Tb(p, u) # Tb(p, v)
    BY <1>2, SlotsDiffer
  <2>3. \A u \in Pages :
           /\ Pg(p, u) # Pg(p, v) => k'.hold[Pg(p, u)] = k.hold[Pg(p, u)]
           /\ Tb(p, u) # Tb(p, v) => k'.hold[Tb(p, u)] = k.hold[Tb(p, u)]
    <3> HIDE DEF p
    <3>. QED  BY <1>2, <2>1, ApartFacts, Zenon
  <2>. QED  BY <2>1, <2>2, <2>3, Zenon
<1>9. ASSUME NEW u \in Pages, u \notin loop.todo \/ u = v PROVE ~Held(k', Pg(p, u))
  BY <1>3, <1>8, <1>9, Zenon DEF Held
<1>10. ASSUME gone, NEW u \in Pages, u \div PerTable = v \div PerTable
       PROVE  ~Held(k', Pg(p, u))
  <2>1. ~(u > v)
    BY <1>5, <1>10, TableOrder, Zenon
  <2>2. u \notin loop.todo \/ u = v
    BY <1>1, <2>1 DEF Pages
  <2>. QED  BY <1>9, <2>2, Zenon
<1>11. /\ Always' /\ PagesInv' /\ ProcsInv' /\ CacheInv'
       /\ \A r \in Procs, u \in Pages : Pg(r, u) # Pg(loop.p, v) => Same(r, u)
  BY <1>1, <1>5, <1>6, <1>10, DroppedStep, Zenon
<1>12. /\ loop'.op = "destroy" /\ loop'.p = p /\ loop'.q = loop.q
       /\ loop'.todo = loop.todo \ {v}
  BY <1>1, <1>2, RestIs, Zenon
<1>13. ASSUME NEW w \in loop.todo \ {v}, NEW u \in Pages, u > w PROVE u \in loop.todo \ {v}
  <2>1. u \in loop.todo
    BY <1>3, <1>13, Zenon
  <2>2. v <= w /\ w \in Pages
    BY <1>1, <1>2, Zenon
  <2>. QED  BY <1>13, <2>1, <2>2 DEF Pages
<1>14. ASSUME NEW u \in Pages \ (loop.todo \ {v}),
              \A w \in loop.todo \ {v} : w \div PerTable # u \div PerTable
       PROVE  ~Held(k', Tb(p, u))
  <2>1. CASE u \div PerTable = v \div PerTable
    <3>1. Tb(p, u) = Tb(p, v)
      BY <1>2, <2>1, SlotsDiffer
    <3>2. LastOfTable(v)
      <4>1. CASE v + 1 \notin Pages
        BY <4>1, TableOrder, Zenon
      <4>2. CASE v + 1 \in Pages
        <5>1. v + 1 \in loop.todo \ {v}
          BY <1>1, <1>3, <4>2 DEF Pages
        <5>2. (v + 1) \div PerTable # v \div PerTable
          BY <1>14, <2>1, <5>1, Zenon
        <5>. QED  BY <4>2, <5>2, TableOrder, Zenon
      <4>. QED  BY <4>1, <4>2, Zenon
    <3>. QED  BY <1>7, <3>1, <3>2, Zenon
  <2>2. CASE u \div PerTable # v \div PerTable
    <3>1. u \in Pages \ loop.todo /\ \A w \in loop.todo : w \div PerTable # u \div PerTable
      BY <1>14, <2>2, Zenon
    <3>. QED  BY <1>3, <1>8, <2>2, <3>1, Zenon DEF Held
  <2>. QED  BY <2>1, <2>2, Zenon
<1>15. LoopInv'
  BY <1>9, <1>12, <1>13, <1>14, Zenon DEF LoopInv
<1>. QED  BY <1>11, <1>15, Zenon DEF CowInv

(* process_pd_destroy ends with the page directory, and the process holds  *)
(* nothing more.                                                           *)
LEMMA DestroyDoneStep ==
    ASSUME CowInv, DestroyDone
    PROVE  CowInv' /\ \A r \in Procs, u \in Pages : Same(r, u)
<1> DEFINE p == loop.p
<1>1. /\ loop.op = "destroy" /\ loop.todo = {} /\ k' = Drop(k, Pd(p)) /\ loop' = Idle
      /\ area' = [area EXCEPT ![p] = [v \in Pages |-> NoArea]]
      /\ UNCHANGED <<live, cached, file>>
  BY Zenon DEF DestroyDone
<1>2. /\ Always /\ PagesInv /\ ProcsInv /\ LoopInv /\ CacheInv /\ Counted(k)
      /\ p \in Procs /\ loop.q = p
  BY <1>1, InLoop, Zenon
<1>3. /\ Held(k, Pd(p)) /\ p \notin live
      /\ \A v \in Pages : ~Held(k, Pg(p, v)) /\ ~Held(k, Tb(p, v))
      /\ \A r \in Procs \ {p} : /\ r \in live => Held(k, Pd(r))
                                /\ r \notin live => Gone(r)
  BY <1>1, <1>2, Zenon DEF ProcsInv, Changing, LoopInv
<1> HIDE DEF p
<1>4. /\ Steps(k, k', None) /\ k'.flag = k.flag /\ ~Held(k', Pd(p))
      /\ \A r \in Slots \ {Pd(p)} : k'.hold[r] = k.hold[r]
  <2>1. Pd(p) \in Slots /\ Held(k, Pd(p)) /\ k' = Drop(k, Pd(p)) /\ Counted(k)
    BY <1>1, <1>2, <1>3, SlotNames, Zenon DEF p
  <2>. QED  BY <2>1, DropSteps, Zenon
<1>5. ASSUME NEW r \in Procs, NEW v \in Pages
      PROVE area'[r][v] = IF r = p THEN NoArea ELSE area[r][v]
  BY <1>1, <1>2, Zenon DEF Always, AreasOK
<1>6. AreasOK'
  <2>1. NoArea \in Areas /\ NoArea.prot \subseteq NoArea.max
    BY Zenon DEF NoArea, Areas, Prots
  <2>2. area' \in [Procs -> [Pages -> Areas]]
    BY <1>1, <1>2, <2>1, Zenon DEF Always, AreasOK
  <2>3. \A r \in Procs, v \in Pages :
           /\ area'[r][v].prot \subseteq area'[r][v].max
           /\ area'[r][v].kind = "none" => area'[r][v] = NoArea
    <3>1. ASSUME NEW r \in Procs, NEW v \in Pages
          PROVE  area'[r][v] = NoArea \/ area'[r][v] = area[r][v]
      BY <1>5, Zenon
    <3>. QED  BY <1>2, <2>1, <3>1 DEF Always, AreasOK
  <2>. QED  BY <2>2, <2>3, Zenon DEF AreasOK
<1>7. Always'
  BY <1>1, <1>2, <1>4, <1>6, DirectoryOnly, Zenon DEF Always, LoopOK, Steps
<1>8. \A s \in Slots : s[1] = p => ~Held(k', s)
  <2> SUFFICES ASSUME NEW s \in Slots, s[1] = p, s # Pd(p) PROVE ~Held(k, s)
    BY <1>4, Zenon DEF Held
  <2>1. CASE \E q \in Procs, v \in Pages : s = Pg(q, v) \/ s = Tb(q, v)
    BY <1>2, <1>3, <2>1, SlotNames
  <2>2. CASE \E q \in Procs : s = Pd(q)
    BY <1>2, <2>2, SlotNames, Zenon
  <2>3. CASE \E i \in CacheIdx : s = Ca(i)
    BY <1>2, <2>3, SlotNames, Zenon
  <2>. QED  BY <2>1, <2>2, <2>3, SlotKinds, Zenon
<1>9. ASSUME NEW r \in Procs, NEW v \in Pages
      PROVE  /\ Held(k', Pg(r, v)) => Held(k', Tb(r, v))
             /\ RightsOK(k', area'[r][v], r, v)
  <2>1. ~Pending(r, v)
    BY <1>1, Zenon DEF Pending
  <2>2. CASE r = p
    BY <1>8, <2>2, SlotNames, Zenon DEF RightsOK
  <2>3. CASE r # p
    BY <1>2, <1>4, <1>5, <2>1, <2>3, DirectoryOnly, Zenon DEF PagesInv
  <2>. QED  BY <2>2, <2>3, Zenon
<1>10. Settled'
  <2>1. ASSUME NEW r \in Procs \ live' PROVE Gone(r)'
    <3>1. CASE r = p
      BY <1>5, <1>8, <3>1, Zenon DEF Gone
    <3>2. CASE r # p
      <4>1. r \in Procs \ {p} /\ Gone(r)
        BY <1>1, <1>3, <3>2, Zenon
      <4>2. \A s \in Slots : s[1] # p => (Held(k', s) <=> Held(k, s))
        BY <1>2, <1>4, DirectoryOnly, Zenon
      <4>. QED  BY <1>5, <4>1, <4>2, Zenon DEF Gone
    <3>. QED  BY <3>1, <3>2, Zenon
  <2>2. ASSUME NEW r \in live' PROVE Held(k', Pd(r))
    <3>1. r \in Procs \ {p} /\ Held(k, Pd(r))
      BY <1>1, <1>2, <1>3, Zenon DEF Always
    <3>. QED  BY <1>2, <1>4, <3>1, DirectoryOnly, Zenon
  <2>3. \A i \in CacheIdx : Held(k', Ca(i)) => k'.mem[k'.hold[Ca(i)]] = file'
    BY <1>1, <1>2, <1>4, DirectoryOnly, Zenon DEF CacheInv
  <2>. QED  BY <1>9, <2>1, <2>2, <2>3, Zenon DEF Settled
<1>11. \A r \in Procs, u \in Pages : Same(r, u)
  BY <1>2, <1>4, DirectoryOnly, Zenon
<1>. QED  BY <1>1, <1>7, <1>10, <1>11, ToIdle, Zenon
=============================================================================
