------------------------------ MODULE CowLoops ------------------------------
(***************************************************************************)
(* The inductive invariant of CowSteps is kept where the loops over pages  *)
(* begin and end, by cache invalidation, and by fork, page by page.        *)
(***************************************************************************)
EXTENDS CowSteps

(* Where the loops begin and end.                                          *)
LEMMA ForkStep ==
    ASSUME CowInv, NEW p \in Procs, NEW q \in Procs, Fork(p, q)
    PROVE  CowInv' /\ \A r \in Procs, u \in Pages : Same(r, u)
<1>1. /\ loop = Idle /\ p \in live /\ q \notin live /\ CanAlloc(k)
      /\ k' = AllocInto(k, Pd(q), Zero) /\ area' = [area EXCEPT ![q] = area[p]]
      /\ loop' = Loop("clone", p, q, Pages) /\ UNCHANGED <<live, cached, file>>
  BY Zenon DEF Fork, At
<1>2. Always /\ Settled /\ Gone(q)
  BY <1>1, FromIdle, Zenon DEF Settled
<1>3. Pd(q) \in Slots /\ ~Held(k, Pd(q)) /\ Counted(k) /\ Zero \in Contents
  BY <1>2, SlotNames, Zenon DEF Gone, Always, Contents
<1>4. /\ Steps(k, k', None) /\ k'.flag = k.flag /\ Held(k', Pd(q))
      /\ \A r \in Slots \ {Pd(q)} : k'.hold[r] = k.hold[r]
  BY <1>1, <1>3, AllocSteps
<1>5. /\ loop' \in [op : {"clone"}, p : Procs, q : Procs, todo : SUBSET Pages]
      /\ loop'.op = "clone" /\ loop'.p = p /\ loop'.q = q /\ loop'.todo = Pages
  BY <1>1, Zenon DEF Loop
<1>6. ASSUME NEW r \in Procs, NEW v \in Pages
      PROVE area'[r][v] = IF r = q THEN area[p][v] ELSE area[r][v]
  BY <1>1, <1>2, Zenon DEF Always, AreasOK
<1>7. AreasOK'
  <2>1. area' \in [Procs -> [Pages -> Areas]]
    BY <1>1, <1>2, Zenon DEF Always, AreasOK
  <2>. QED  BY <1>2, <1>6, <2>1 DEF Always, AreasOK
<1>8. Always'
  BY <1>1, <1>2, <1>4, <1>5, <1>7, DirectoryOnly, Zenon DEF Always, LoopOK, Steps
<1>9. \A v \in Pages : ~Held(k', Pg(q, v))
  BY <1>2, <1>4, DirectoryOnly, SlotNames, Zenon DEF Gone
<1>10. PagesInv'
  <2> SUFFICES ASSUME NEW r \in Procs, NEW v \in Pages
               PROVE  /\ Held(k', Pg(r, v)) => Held(k', Tb(r, v))
                      /\ RightsOK(k', area'[r][v], r, v)
    BY Zenon DEF PagesInv
  <2>1. CASE r = q
    BY <1>9, <2>1, Zenon DEF RightsOK
  <2>2. CASE r # q
    BY <1>2, <1>4, <1>6, <2>2, DirectoryOnly, Zenon DEF Settled
  <2>. QED  BY <2>1, <2>2, Zenon
<1>11. ProcsInv'
  <2> SUFFICES ASSUME NEW r \in Procs
               PROVE  /\ r \in live' \/ Changing(r)' => Held(k', Pd(r))
                      /\ r \notin live' /\ ~Changing(r)' => Gone(r)'
                      /\ Changing(r)' => r \notin live'
    BY Zenon DEF ProcsInv
  <2>1. CASE r = q
    BY <1>1, <1>4, <1>5, <2>1, Zenon DEF Changing
  <2>2. CASE r # q
    <3>1. ~Changing(r)' /\ (r \in live' <=> r \in live)
      BY <1>1, <1>5, <2>2, Zenon DEF Changing
    <3>. QED  BY <1>2, <1>4, <1>6, <2>2, <3>1, DirectoryOnly DEF Settled, Gone
  <2>. QED  BY <2>1, <2>2, Zenon
<1>12. LoopInv'
  <2>1. p # q
    BY <1>1, Zenon
  <2>. QED  BY <1>1, <1>5, <1>6, <1>9, <2>1 DEF LoopInv
<1>13. CacheInv'
  BY <1>1, <1>2, <1>4, DirectoryOnly, Zenon DEF CacheInv, Settled
<1>14. \A r \in Procs, u \in Pages : Same(r, u)
  BY <1>4, DirectoryOnly, Zenon
<1>. QED  BY <1>8, <1>10, <1>11, <1>12, <1>13, <1>14, Zenon DEF CowInv

(* fork ends: the child is alive, with all the pages of its parent.        *)
LEMMA CloneDoneStep == ASSUME CowInv, CloneDone PROVE CowInv'
<1>1. /\ loop.op = "clone" /\ loop.todo = {} /\ live' = live \cup {loop.q} /\ loop' = Idle
      /\ UNCHANGED <<k, area, cached, file>>
  BY Zenon DEF CloneDone
<1>2. Always /\ PagesInv /\ ProcsInv /\ LoopInv /\ CacheInv /\ loop.q \in Procs
  BY <1>1, InLoop, Zenon
<1>3. (\A p, v : ~Pending(p, v)) /\ \A p : Changing(p) <=> p = loop.q
  BY <1>1, Zenon DEF Pending, Changing
<1>4. Always'
  BY <1>1, <1>2, Zenon DEF Always, AreasOK, LoopOK
<1>5. Settled'
  BY <1>1, <1>2, <1>3, Zenon DEF Settled, PagesInv, ProcsInv, CacheInv, Gone, Always
<1>. QED  BY <1>1, <1>4, <1>5, ToIdle, Zenon

(* exit takes the process off and starts the loop of process_pd_destroy.   *)
LEMMA ExitStep == ASSUME CowInv, NEW p \in Procs, Exit(p) PROVE CowInv'
<1>1. /\ loop = Idle /\ p \in live /\ live' = live \ {p}
      /\ loop' = Loop("destroy", p, p, Pages) /\ UNCHANGED <<k, area, cached, file>>
  BY Zenon DEF Exit, At
<1>2. Always /\ Settled
  BY <1>1, FromIdle, Zenon
<1>3. /\ loop' \in [op : {"destroy"}, p : Procs, q : Procs, todo : SUBSET Pages]
      /\ loop'.op = "destroy" /\ loop'.p = p /\ loop'.q = p /\ loop'.todo = Pages
  BY <1>1, Zenon DEF Loop
<1>4. Always'
  BY <1>1, <1>2, <1>3, Zenon DEF Always, AreasOK, LoopOK
<1>5. PagesInv' /\ ProcsInv'
  BY <1>1, <1>2, <1>3, Zenon DEF Settled, PagesInv, ProcsInv, Changing, Gone
<1>6. LoopInv' /\ CacheInv'
  BY <1>1, <1>2, <1>3, Zenon DEF Settled, LoopInv, CacheInv
<1>. QED  BY <1>4, <1>5, <1>6, Zenon DEF CowInv

(* A write to the mapped file starts the invalidation of the cached pages. *)
LEMMA FileWriteStep == ASSUME CowInv, NEW x \in Files, FileWrite(x) PROVE CowInv'
<1>1. /\ loop = Idle /\ file' = x /\ loop' = Loop("invalidate", "-", "-", CacheIdx)
      /\ UNCHANGED <<k, area, live, cached>>
  BY Zenon DEF FileWrite
<1>2. Always /\ Settled
  BY <1>1, FromIdle, Zenon
<1>3. /\ loop' \in [op : {"invalidate"}, p : {"-"}, q : {"-"}, todo : SUBSET CacheIdx]
      /\ loop'.op = "invalidate" /\ loop'.todo = CacheIdx
  BY <1>1, Zenon DEF Loop
<1>4. Always'
  BY <1>1, <1>2, <1>3, Zenon DEF Always, AreasOK, LoopOK
<1>5. PagesInv' /\ ProcsInv'
  BY <1>1, <1>2, <1>3, Zenon DEF Settled, PagesInv, ProcsInv, Changing, Gone
<1>6. LoopInv' /\ CacheInv'
  BY <1>1, <1>2, <1>3, Zenon DEF Settled, LoopInv, CacheInv
<1>. QED  BY <1>4, <1>5, <1>6, Zenon DEF CowInv

(* The loops over a range end when nothing is left to do.                  *)
LEMMA RangeDoneStep == ASSUME CowInv, RangeDone PROVE CowInv'
<1>1. /\ loop.op \in {"unmap", "invalidate"} /\ loop.todo = {} /\ loop' = Idle
      /\ UNCHANGED <<k, area, live, cached, file>>
  BY Zenon DEF RangeDone
<1>2. Always /\ PagesInv /\ ProcsInv /\ LoopInv /\ CacheInv
  BY <1>1 DEF CowInv, Panic
<1>3. (\A p, v : ~Pending(p, v)) /\ \A p : ~Changing(p)
  BY <1>1, Zenon DEF Pending, Changing
<1>4. \A i \in CacheIdx : Held(k, Ca(i)) => k.mem[k.hold[Ca(i)]] = file
  BY <1>1, <1>2, Zenon DEF LoopInv, CacheInv
<1>5. Always'
  BY <1>1, <1>2, Zenon DEF Always, AreasOK, LoopOK
<1>6. Settled'
  BY <1>1, <1>2, <1>3, <1>4, Zenon DEF Settled, PagesInv, ProcsInv, Gone, Always
<1>. QED  BY <1>1, <1>5, <1>6, ToIdle, Zenon

(* The invalidation drops one cached page; the pages of processes that     *)
(* share it keep it.                                                       *)
LEMMA InvalidateStepStep ==
    ASSUME CowInv, NEW i \in CacheIdx, InvalidateStep(i)
    PROVE  CowInv' /\ \A r \in Procs, u \in Pages : Same(r, u)
<1>1. /\ loop.op = "invalidate" /\ k' = (IF Held(k, Ca(i)) THEN Drop(k, Ca(i)) ELSE k)
      /\ cached' = [cached EXCEPT ![i] = 0] /\ loop' = Rest(i)
      /\ UNCHANGED <<area, live, file>>
  BY Zenon DEF InvalidateStep, Cursor
<1>2. /\ Always /\ PagesInv /\ ProcsInv /\ LoopInv /\ Counted(k)
      /\ loop \in [op : {"invalidate"}, p : {"-"}, q : {"-"}, todo : SUBSET CacheIdx]
  <2>1. loop # Panic /\ loop # Idle
    BY <1>1 DEF Panic, Idle
  <2>. QED  BY <1>1, <2>1, Zenon DEF CowInv, Always, LoopOK
<1>3. /\ loop' \in [op : {"invalidate"}, p : {"-"}, q : {"-"}, todo : SUBSET CacheIdx]
      /\ loop'.op = "invalidate" /\ loop'.todo = loop.todo \ {i}
  BY <1>1, <1>2, Zenon DEF Rest
<1>4. Ca(i) \in Slots /\ Ca(i)[1] \notin Procs
  BY SlotNames, Zenon
<1>5. /\ Steps(k, k', None) /\ k'.flag = k.flag /\ ~Held(k', Ca(i))
      /\ \A r \in Slots \ {Ca(i)} : k'.hold[r] = k.hold[r]
  <2>1. CASE Held(k, Ca(i))
    BY <1>1, <1>2, <1>4, <2>1, DropSteps
  <2>2. CASE ~Held(k, Ca(i))
    BY <1>1, <1>2, <2>2, StepsSame, Zenon
  <2>. QED  BY <2>1, <2>2, Zenon
<1>6. \A s \in Slots : s[1] \in Procs => k'.hold[s] = k.hold[s]
  BY <1>4, <1>5, Zenon
<1>7. ASSUME NEW q \in Procs, NEW v \in Pages
      PROVE  /\ FlagsOK(k', q, v)
             /\ RightsOK(k, area[q][v], q, v) => RightsOK(k', area[q][v], q, v)
             /\ Held(k', Pg(q, v)) <=> Held(k, Pg(q, v))
             /\ Held(k', Tb(q, v)) <=> Held(k, Tb(q, v))
  <2>1. k'.hold[Pg(q, v)] = k.hold[Pg(q, v)] /\ k'.hold[Tb(q, v)] = k.hold[Tb(q, v)]
    BY <1>6, SlotNames
  <2>2. /\ FlagsOK(k, q, v) => FlagsOK(k', q, v)
        /\ \A a : RightsOK(k, a, q, v) => RightsOK(k', a, q, v)
    BY <1>5, <2>1, PageKept, Zenon DEF Held
  <2>. QED  BY <1>2, <2>1, <2>2, Zenon DEF Always, Held
<1>8. Always'
  <2>1. cached' \in [CacheIdx -> Pages]
    BY <1>1, <1>2, CowAssumption DEF Always, Pages
  <2>. QED  BY <1>1, <1>2, <1>3, <1>5, <1>7, <2>1, Zenon DEF Always, AreasOK, LoopOK, Steps
<1>9. PagesInv' /\ ProcsInv'
  <2>1. (\A p, v : ~Pending(p, v) /\ ~Pending(p, v)') /\ \A p : ~Changing(p) /\ ~Changing(p)'
    BY <1>1, <1>3, Zenon DEF Pending, Changing
  <2>2. PagesInv'
    BY <1>1, <1>2, <1>7, <2>1, Zenon DEF PagesInv
  <2>3. \A p \in Procs : (Held(k', Pd(p)) <=> Held(k, Pd(p))) /\ (Gone(p) => Gone(p)')
    BY <1>1, <1>6, SlotNames, Zenon DEF Gone, Held
  <2>. QED  BY <1>1, <1>2, <2>1, <2>2, <2>3, Zenon DEF ProcsInv
<1>10. LoopInv' /\ CacheInv'
  <2>1. ASSUME NEW j \in CacheIdx \ loop'.todo PROVE ~Held(k', Ca(j))
    <3>1. CASE j = i
      BY <1>5, <3>1, Zenon
    <3>2. CASE j # i
      <4>1. Ca(j) \in Slots \ {Ca(i)} /\ j \in CacheIdx \ loop.todo
        BY <1>3, <2>1, <3>2, SlotNames, SlotsDiffer, Zenon
      <4>. QED  BY <1>1, <1>2, <1>5, <4>1, Zenon DEF LoopInv, Held
    <3>. QED  BY <3>1, <3>2, Zenon
  <2>. QED  BY <1>3, <2>1, Zenon DEF LoopInv, CacheInv
<1>11. \A r \in Procs, u \in Pages : Same(r, u)
  BY <1>5, <1>6, SamePage, SlotNames
<1>. QED  BY <1>8, <1>9, <1>10, <1>11, Zenon DEF CowInv

-----------------------------------------------------------------------------
(* One page of fork.                                                       *)
LEMMA ShareAllocs ==
    ASSUME NEW x, Counted(x), NEW s, NEW r, CanShare(x, r), NEW y, y = ShareInto(x, s, r)
    PROVE  CanAlloc(y) <=> CanAlloc(x)
<1>1. x.pm \in PmmStates /\ y.pm = [x.pm EXCEPT !.refcount[x.hold[r]] = @ + 1]
  BY KTypes, Zenon DEF Counted, Over, ShareInto, CanShare, pmm_retain_frame
<1>2. /\ y.pm.used = x.pm.used /\ y.pm.next_free = x.pm.next_free
      /\ y.pm.free_count = x.pm.free_count
  BY <1>1, Zenon DEF PmmStates
<1>. QED  BY <1>2, Zenon DEF CanAlloc, alloc_result, first_free

(* The flags process_pd_clone_user gives both entries: a page that can     *)
(* ever be written becomes copy-on-write.                                  *)
LEMMA CloneFlags ==
    ASSUME NEW fl \in {{}, {"w"}, {"cow"}, {"ro"}}, NEW maywrite \in BOOLEAN,
           NEW cow, cow = ("ro" \notin fl /\ ("cow" \in fl \/ "w" \in fl \/ maywrite)),
           NEW shared,
           shared = IF cow THEN (fl \ {"w"}) \cup {"cow"} ELSE fl \ {"w"}
    PROVE  /\ shared \in {{}, {"cow"}, {"ro"}} /\ (~cow => shared = fl)
           /\ shared = {"ro"} => fl = {"ro"}
           /\ shared = {} => ~maywrite
<1>1. CASE fl = {}
  BY <1>1, Zenon
<1>2. CASE fl = {"w"}
  BY <1>2, Zenon
<1>3. CASE fl = {"cow"}
  BY <1>3, Zenon
<1>4. CASE fl = {"ro"}
  BY <1>4, Zenon
<1>. QED  BY <1>1, <1>2, <1>3, <1>4, Zenon

(* process_pd_clone_user at one page: parent and child share the frame,    *)
(* and neither entry is writable.                                          *)
LEMMA ClonePageSteps ==
    ASSUME NEW x, Counted(x), NEW p \in Procs, NEW q \in Procs, p # q, NEW v \in Pages,
           Held(x, Pg(p, v)), ~Held(x, Pg(q, v)), CanShare(x, Pg(p, v)), ~Panics(x, q, v),
           FlagsOK(x, p, v), NEW maywrite \in BOOLEAN,
           NEW y, y = ClonePage(x, p, q, v, maywrite)
    PROVE  /\ Steps(x, y, x.hold[Pg(p, v)]) /\ Apart(x, y, q, v) /\ Held(y, Tb(q, v))
           /\ y.hold[Pg(q, v)] = x.hold[Pg(p, v)] /\ y.flag[Pg(q, v)] = y.flag[Pg(p, v)]
           /\ y.flag[Pg(p, v)] \in {{}, {"cow"}, {"ro"}}
           /\ y.flag[Pg(p, v)] = {"ro"} => x.flag[Pg(p, v)] = {"ro"}
           /\ y.flag[Pg(p, v)] = {} => ~maywrite
           /\ \A s \in PageSlots \ {Pg(p, v), Pg(q, v)} : y.flag[s] = x.flag[s]
<1> DEFINE fl == x.flag[Pg(p, v)]
           g == x.hold[Pg(p, v)]
           cow == "ro" \notin fl /\ ("cow" \in fl \/ "w" \in fl \/ maywrite)
           shared == IF cow THEN (fl \ {"w"}) \cup {"cow"} ELSE fl \ {"w"}
           x1 == ShareInto(x, Pg(q, v), Pg(p, v))
           x2 == IF cow THEN SetFlags(x1, p, v, shared) ELSE x1
<1>1. /\ y = MapPage(x2, q, v, shared) /\ x1 = ShareInto(x, Pg(q, v), Pg(p, v))
      /\ x2 = (IF cow THEN SetFlags(x1, p, v, shared) ELSE x1) /\ g = x.hold[Pg(p, v)]
  BY Zenon DEF ClonePage
<1>2. /\ shared \in {{}, {"cow"}, {"ro"}} /\ (~cow => shared = fl)
      /\ shared = {"ro"} => fl = {"ro"}
      /\ shared = {} => ~maywrite
  <2>1. fl \in {{}, {"w"}, {"cow"}, {"ro"}}
    BY Zenon DEF FlagsOK
  <2>2. /\ cow = ("ro" \notin fl /\ ("cow" \in fl \/ "w" \in fl \/ maywrite))
        /\ shared = IF cow THEN (fl \ {"w"}) \cup {"cow"} ELSE fl \ {"w"}
    OBVIOUS
  <2> HIDE DEF fl, cow, shared
  <2>. QED  BY <2>1, <2>2, CloneFlags, Zenon
<1>3. shared \in Flags
  BY <1>2, Zenon DEF Flags
<1>4. fl = x.flag[Pg(p, v)] /\ cow \in BOOLEAN
  OBVIOUS
<1> HIDE DEF fl, g, cow, shared, x1, x2
<1>5. /\ Pg(p, v) \in Slots \ {Pg(q, v), Tb(q, v)} /\ Pg(q, v) \in Slots \ {Tb(q, v)}
      /\ Tb(q, v) \in Slots /\ Pg(p, v) \in PageSlots /\ Pg(q, v) \in PageSlots
  BY SlotNames, SlotsDiffer
<1>6. /\ Steps(x, x1, g) /\ x1.flag = x.flag /\ x1.mem = x.mem /\ x1.hold[Pg(q, v)] = g
      /\ \A t \in Slots \ {Pg(q, v)} : x1.hold[t] = x.hold[t]
  BY <1>1, <1>5, ShareSteps
<1>7. x.flag \in [PageSlots -> Flags] /\ Counted(x1)
  BY <1>6, KTypes, Zenon DEF Counted, Over, Steps
<1>8. /\ Counted(x2) /\ x2.hold = x1.hold /\ x2.mem = x1.mem /\ x2.pm = x1.pm
      /\ x2.flag = [x.flag EXCEPT ![Pg(p, v)] = shared]
  <2>1. CASE cow
    <3>1. x2 = SetFlags(x1, p, v, shared)
      BY <1>1, <2>1, Zenon
    <3>2. /\ Counted(x2) /\ x2.hold = x1.hold /\ x2.mem = x1.mem
          /\ x2.flag = [x1.flag EXCEPT ![Pg(p, v)] = shared]
      BY <1>3, <1>7, <3>1, FlagSteps
    <3>3. x2.pm = x1.pm
      BY <1>7, <3>1, KTypes DEF SetFlags, Counted, Over
    <3>. QED  BY <1>6, <3>2, <3>3, Zenon
  <2>2. CASE ~cow
    <3>1. x2 = x1 /\ shared = x.flag[Pg(p, v)]
      BY <1>1, <1>2, <1>4, <2>2, Zenon
    <3>2. x.flag = [x.flag EXCEPT ![Pg(p, v)] = shared]
      BY <1>5, <1>7, <3>1, Zenon
    <3>. QED  BY <1>6, <1>7, <3>1, <3>2, Zenon
  <2>. QED  BY <1>4, <2>1, <2>2, Zenon
<1>9. ~Panics(x2, q, v)
  <2>1. CanAlloc(x1) <=> CanAlloc(x)
    BY <1>1, ShareAllocs
  <2>2. CanAlloc(x2) <=> CanAlloc(x1)
    BY <1>8, Zenon DEF CanAlloc
  <2>3. Held(x2, Tb(q, v)) <=> Held(x, Tb(q, v))
    BY <1>5, <1>6, <1>8, Zenon DEF Held
  <2>. QED  BY <2>1, <2>2, <2>3, Zenon DEF Panics, NeedsTable
<1>10. /\ Steps(x2, y, None) /\ Held(y, Tb(q, v))
       /\ y.flag = [x2.flag EXCEPT ![Pg(q, v)] = shared]
       /\ \A r \in Slots \ {Tb(q, v)} : y.hold[r] = x2.hold[r]
  BY <1>1, <1>3, <1>8, <1>9, MapSteps
<1>11. Steps(x, y, g)
  <2>1. Steps(x, x2, g) /\ x2.hold[Tb(q, v)] = x.hold[Tb(q, v)]
    BY <1>5, <1>6, <1>8, StepsAlike, Zenon
  <2>. QED  BY <1>5, <1>10, <2>1, StepsJoin, StepsThen
<1>12. Apart(x, y, q, v) /\ y.hold[Pg(q, v)] = g
  BY <1>5, <1>6, <1>8, <1>10 DEF Apart
<1>13. /\ y.flag[Pg(q, v)] = shared /\ y.flag[Pg(p, v)] = shared
       /\ \A s \in PageSlots \ {Pg(p, v), Pg(q, v)} : y.flag[s] = x.flag[s]
  BY <1>5, <1>7, <1>8, <1>10
<1>. QED  BY <1>1, <1>2, <1>4, <1>10, <1>11, <1>12, <1>13, Zenon

(* One page of fork, which may fail for want of a frame or of a count, and *)
(* then takes the child down.                                              *)
LEMMA CloneStepStep ==
    ASSUME CowInv, NEW v \in Pages, CloneStep(v)
    PROVE  CowInv' /\ \A r \in Procs \ {loop.q}, u \in Pages : Same(r, u)
<1> DEFINE p == loop.p
           q == loop.q
           g == k.hold[Pg(p, v)]
<1>1. /\ loop.op = "clone" /\ v \in loop.todo /\ UNCHANGED <<area, live, cached, file>>
      /\ IF ~Held(k, Pg(p, v)) THEN loop' = Rest(v) /\ UNCHANGED k
         ELSE IF ~CanShare(k, Pg(p, v))
         THEN loop' = Loop("destroy", q, q, Pages) /\ UNCHANGED k
         ELSE IF Panics(k, q, v) THEN loop' = Panic /\ UNCHANGED k
         ELSE loop' = Rest(v) /\ k' = ClonePage(k, p, q, v, MayWrite(p, v))
  BY Zenon DEF CloneStep, Cursor
<1>2. /\ Always /\ PagesInv /\ ProcsInv /\ LoopInv /\ CacheInv /\ Counted(k)
      /\ p \in Procs /\ q \in Procs /\ loop.todo \in SUBSET Pages
      /\ loop \in [op : {"clone"}, p : Procs, q : Procs, todo : SUBSET Pages]
  BY <1>1, InLoop, Zenon
<1>3. /\ p \in live /\ q \notin live /\ p # q /\ Held(k, Pd(q)) /\ ~Held(k, Pg(q, v))
      /\ \A u \in Pages : area[q][u] = area[p][u]
      /\ \A u \in loop.todo : ~Held(k, Pg(q, u))
      /\ \A u \in Pages \ loop.todo : k.hold[Pg(q, u)] = k.hold[Pg(p, u)]
      /\ \A r \in Procs : Changing(r) <=> r = q
      /\ \A r \in Procs, u \in Pages : ~Pending(r, u)
  BY <1>1, <1>2, Zenon DEF ProcsInv, Changing, LoopInv, Pending
<1>4. loop.p = p /\ loop.q = q /\ g = k.hold[Pg(p, v)]
  OBVIOUS
<1> HIDE DEF p, q, g
<1>5. CASE loop' = Rest(v)
  <2>1. /\ loop' \in [op : {"clone"}, p : Procs, q : Procs, todo : SUBSET Pages]
        /\ loop'.op = "clone" /\ loop'.p = p /\ loop'.q = q /\ loop'.todo = loop.todo \ {v}
    BY <1>2, <1>4, <1>5, RestIs, Zenon
  <2>2. CASE ~Held(k, Pg(p, v))
    <3>1. UNCHANGED k
      BY <1>1, <1>4, <2>2, Zenon
    <3>2. Always'
      BY <1>1, <1>2, <2>1, <3>1, Zenon DEF Always, AreasOK, LoopOK
    <3>3. \A u \in Pages \ (loop.todo \ {v}) : k.hold[Pg(q, u)] = k.hold[Pg(p, u)]
      BY <1>3, <2>2, Zenon DEF Held
    <3>4. PagesInv' /\ ProcsInv' /\ CacheInv'
      BY <1>1, <1>2, <1>3, <1>4, <2>1, <3>1, Zenon
         DEF PagesInv, ProcsInv, CacheInv, Changing, Pending, Gone
    <3>5. LoopInv'
      BY <1>1, <1>3, <2>1, <3>1, <3>3, Zenon DEF LoopInv
    <3>. QED  BY <3>1, <3>2, <3>4, <3>5, Zenon DEF CowInv, Same
  <2>3. CASE Held(k, Pg(p, v))
    <3> DEFINE fl == k'.flag[Pg(p, v)]
    <3>1. /\ CanShare(k, Pg(p, v)) /\ ~Panics(k, q, v)
          /\ k' = ClonePage(k, p, q, v, MayWrite(p, v))
      <4>1. loop'.op = "clone" /\ Panic.op = "panic"
        BY <2>1, Zenon DEF Panic
      <4>2. Loop("destroy", q, q, Pages).op = "destroy"
        BY Zenon DEF Loop
      <4>. QED  BY <1>1, <1>4, <2>3, <4>1, <4>2, Zenon
    <3>2. FlagsOK(k, p, v) /\ RightsOK(k, area[p][v], p, v) /\ MayWrite(p, v) \in BOOLEAN
      BY <1>2, <1>3 DEF Always, PagesInv, MayWrite
    <3>3. /\ Steps(k, k', g) /\ Apart(k, k', q, v) /\ Held(k', Tb(q, v))
          /\ k'.hold[Pg(q, v)] = g /\ k'.flag[Pg(q, v)] = fl
          /\ fl \in {{}, {"cow"}, {"ro"}}
          /\ fl = {"ro"} => k.flag[Pg(p, v)] = {"ro"}
          /\ fl = {} => ~MayWrite(p, v)
          /\ \A s \in PageSlots \ {Pg(p, v), Pg(q, v)} : k'.flag[s] = k.flag[s]
      BY <1>2, <1>3, <1>4, <2>3, <3>1, <3>2, ClonePageSteps
    <3>4. fl = k'.flag[Pg(p, v)]
      OBVIOUS
    <3> HIDE DEF fl
    <3>5. /\ \A r \in Procs, u \in Pages :
                /\ Pg(r, u) # Pg(q, v) => k'.hold[Pg(r, u)] = k.hold[Pg(r, u)]
                /\ Tb(r, u) # Tb(q, v) => k'.hold[Tb(r, u)] = k.hold[Tb(r, u)]
          /\ \A r \in Procs : k'.hold[Pd(r)] = k.hold[Pd(r)]
          /\ \A r \in Procs, u \in Pages : Pg(r, u) # Pg(q, v) => Same(r, u)
          /\ \A r \in Procs \ {q} : Gone(r) => Gone(r)'
          /\ \A i \in CacheIdx :
                /\ k'.hold[Ca(i)] = k.hold[Ca(i)]
                /\ Held(k, Ca(i)) => k'.mem[k'.hold[Ca(i)]] = k.mem[k.hold[Ca(i)]]
      <4>1. q \in Procs /\ v \in Pages /\ Steps(k, k', g) /\ Apart(k, k', q, v) /\ area' = area
        BY <1>1, <1>2, <3>3, Zenon
      <4>. QED  BY <4>1, ApartFacts, Zenon
    <3>6. ASSUME NEW r \in Procs, NEW u \in Pages, Pg(r, u) \in {Pg(p, v), Pg(q, v)}
          PROVE  FlagsOK(k', r, u) /\ RightsOK(k', area'[r][u], r, u)
      <4>1. k'.flag[Pg(r, u)] = fl
        BY <3>3, <3>4, <3>6, Zenon
      <4>2. area'[r][u] = area[p][v]
        BY <1>1, <1>2, <1>3, <3>6, SlotsDiffer
      <4>3. Held(k', Pg(r, u))
        <5>1. Pg(p, v) # Pg(q, v) /\ p \in Procs
          BY <1>2, <1>3, SlotsDiffer
        <5>2. k'.hold[Pg(p, v)] = g
          BY <1>4, <3>5, <5>1, Zenon
        <5>. QED  BY <1>4, <2>3, <3>3, <3>6, <5>2, Zenon DEF Held
      <4>4. fl = {"ro"} => "w" \notin area[p][v].max
        BY <2>3, <3>2, <3>3, Zenon DEF RightsOK
      <4>5. fl = {} => "w" \notin area[p][v].max
        BY <3>3, Zenon DEF MayWrite
      <4>6. area[p][v].kind # "none"
        BY <2>3, <3>2, Zenon DEF RightsOK
      <4>7. FlagsOK(k', r, u)
        BY <3>3, <4>1, <4>3, Zenon DEF FlagsOK
      <4>8. RightsOK(k', area'[r][u], r, u)
        BY <3>3, <4>1, <4>2, <4>4, <4>5, <4>6, Zenon DEF RightsOK
      <4>. QED  BY <4>7, <4>8, Zenon
    <3>7. ASSUME NEW r \in Procs, NEW u \in Pages, Pg(r, u) \notin {Pg(p, v), Pg(q, v)}
          PROVE  FlagsOK(k', r, u) /\ RightsOK(k', area'[r][u], r, u)
      <4>1. /\ Pg(r, u) \in PageSlots /\ Pg(r, u) \in Slots
            /\ Pg(p, v) \in Slots \ {Pg(r, u)}
        BY <1>2, <3>7, SlotNames, Zenon
      <4>2. k'.hold[Pg(r, u)] = k.hold[Pg(r, u)] /\ k'.flag[Pg(r, u)] = k.flag[Pg(r, u)]
        BY <3>3, <3>5, <3>7, <4>1, Zenon
      <4>3. Sole(k, Pg(r, u)) => k.hold[Pg(r, u)] # g
        BY <1>4, <4>1, Zenon DEF Sole
      <4>4. /\ FlagsOK(k, r, u) => FlagsOK(k', r, u)
            /\ \A a : RightsOK(k, a, r, u) => RightsOK(k', a, r, u)
        BY <3>3, <4>2, <4>3, PageKept, Zenon
      <4>. QED  BY <1>1, <1>2, <1>3, <4>4, Zenon DEF Always, PagesInv
    <3>8. ASSUME NEW r \in Procs, NEW u \in Pages
          PROVE  FlagsOK(k', r, u) /\ RightsOK(k', area'[r][u], r, u)
      BY <3>6, <3>7, Zenon
    <3>9. Always'
      <4>1. LoopOK'
        BY <2>1, Zenon DEF LoopOK
      <4>. QED  BY <1>1, <1>2, <3>3, <3>8, <4>1 DEF Always, AreasOK, Steps
    <3>10. PagesInv'
      <4> SUFFICES ASSUME NEW r \in Procs, NEW u \in Pages, Held(k', Pg(r, u))
                   PROVE  Held(k', Tb(r, u))
        BY <3>8, Zenon DEF PagesInv
      <4>1. CASE Tb(r, u) = Tb(q, v)
        BY <3>3, <4>1, Zenon
      <4>2. CASE Tb(r, u) # Tb(q, v)
        <5>1. Pg(r, u) # Pg(q, v)
          BY <1>2, <4>2, SlotsDiffer
        <5>. QED  BY <1>2, <3>5, <4>2, <5>1 DEF PagesInv, Held
      <4>. QED  BY <4>1, <4>2, Zenon
    <3>11. ProcsInv'
      <4>1. \A r \in Procs : Changing(r)' <=> r = q
        BY <2>1, Zenon DEF Changing
      <4>. QED  BY <1>1, <1>2, <1>3, <3>5, <4>1, Zenon DEF ProcsInv, Held
    <3>12. LoopInv'
      <4>1. \A u \in Pages : u # v => Pg(q, u) # Pg(q, v)
        BY <1>2, SlotsDiffer
      <4>2. \A u \in Pages : Pg(p, u) # Pg(q, v)
        BY <1>2, <1>3, SlotsDiffer
      <4>3. \A u \in loop.todo \ {v} : ~Held(k', Pg(q, u))
        BY <1>2, <1>3, <3>5, <4>1 DEF Held
      <4>4. \A u \in Pages \ (loop.todo \ {v}) : k'.hold[Pg(q, u)] = k'.hold[Pg(p, u)]
        <5>1. p \in Procs /\ q \in Procs
          BY <1>2, Zenon
        <5>2. \A u \in Pages : k'.hold[Pg(p, u)] = k.hold[Pg(p, u)]
          BY <3>5, <4>2, <5>1, Zenon
        <5>3. \A u \in Pages : u # v => k'.hold[Pg(q, u)] = k.hold[Pg(q, u)]
          BY <3>5, <4>1, <5>1, Zenon
        <5>. QED  BY <1>3, <1>4, <3>3, <5>2, <5>3, Zenon
      <4>. QED  BY <1>1, <1>3, <2>1, <4>3, <4>4, Zenon DEF LoopInv
    <3>13. CacheInv'
      BY <1>1, <1>2, <2>1, <3>5, Zenon DEF CacheInv, Held
    <3>14. \A r \in Procs \ {loop.q}, u \in Pages : Same(r, u)
      BY <1>2, <1>4, <3>5, SlotsDiffer
    <3>. QED  BY <3>9, <3>10, <3>11, <3>12, <3>13, <3>14, Zenon DEF CowInv
  <2>. QED  BY <2>2, <2>3, Zenon
<1>6. CASE loop' = Loop("destroy", q, q, Pages) /\ UNCHANGED k
  <2>1. /\ loop' \in [op : {"destroy"}, p : Procs, q : Procs, todo : SUBSET Pages]
        /\ loop'.op = "destroy" /\ loop'.p = q /\ loop'.q = q /\ loop'.todo = Pages
    BY <1>2, <1>6, Zenon DEF Loop
  <2>2. Always'
    BY <1>1, <1>2, <1>6, <2>1, Zenon DEF Always, AreasOK, LoopOK
  <2>3. PagesInv' /\ ProcsInv' /\ CacheInv'
    <3>1. (\A r \in Procs : Changing(r)' <=> r = q) /\ \A r, u : ~Pending(r, u)'
      BY <2>1, Zenon DEF Changing, Pending
    <3>2. PagesInv' /\ CacheInv'
      BY <1>1, <1>2, <1>3, <1>6, <2>1, <3>1, Zenon DEF PagesInv, CacheInv
    <3>3. \A r \in Procs : Gone(r)' <=> Gone(r)
      BY <1>1, <1>6, Zenon DEF Gone
    <3>. QED  BY <1>1, <1>2, <1>3, <1>6, <3>1, <3>2, <3>3, Zenon DEF ProcsInv
  <2>4. LoopInv'
    BY <2>1, Zenon DEF LoopInv
  <2>. QED  BY <1>6, <2>2, <2>3, <2>4, Zenon DEF CowInv, Same
<1>7. CASE loop' = Panic /\ UNCHANGED k
  BY <1>1, <1>2, <1>7, Zenon DEF CowInv, Always, AreasOK, LoopOK, Same
<1>. QED  BY <1>1, <1>4, <1>5, <1>6, <1>7, Zenon
=============================================================================
