------------------------------ MODULE CowSteps ------------------------------
(***************************************************************************)
(* The inductive invariant behind SpacesSound, kept by every step of the   *)
(* fault path, fork, exit, the mapping calls and the page cache.           *)
(***************************************************************************)
EXTENDS FrameFacts

(* The flags of an entry: at most one of them, none when nothing is there, *)
(* and a writable page has no other holder.                                *)
FlagsOK(x, p, v) ==
    /\ x.flag[Pg(p, v)] \in {{}, {"w"}, {"cow"}, {"ro"}}
    /\ ~Held(x, Pg(p, v)) => x.flag[Pg(p, v)] = {}
    /\ Held(x, Pg(p, v)) /\ x.flag[Pg(p, v)] = {"w"} => Sole(x, Pg(p, v))

(* What the area a says of the entry.  A page that may become writable and *)
(* has no flag now (mprotect took the permission away) is still private:   *)
(* mprotect will give the permission back without a look at the frame.     *)
RightsOK(x, a, p, v) ==
    Held(x, Pg(p, v)) =>
        /\ a.kind # "none"
        /\ x.flag[Pg(p, v)] = {"w"} => "w" \in a.prot
        /\ x.flag[Pg(p, v)] = {"ro"} => "w" \notin a.max
        /\ x.flag[Pg(p, v)] = {} /\ "w" \in a.max => "w" \notin a.prot /\ Sole(x, Pg(p, v))

LoopOK ==
    \/ loop = Idle
    \/ loop = Panic
    \/ loop \in [op : {"clone"}, p : Procs, q : Procs, todo : SUBSET Pages]
    \/ loop \in [op : {"destroy", "unmap"}, p : Procs, q : Procs, todo : SUBSET Pages]
       /\ loop.q = loop.p
    \/ loop \in [op : {"invalidate"}, p : {"-"}, q : {"-"}, todo : SUBSET CacheIdx]

AreasOK ==
    /\ area \in [Procs -> [Pages -> Areas]]
    /\ \A p \in Procs, v \in Pages :
          /\ area[p][v].prot \subseteq area[p][v].max
          /\ area[p][v].kind = "none" => area[p][v] = NoArea

(* What holds in every state, after a panic too.                           *)
Always ==
    /\ Counted(k) /\ AreasOK /\ LoopOK
    /\ live \subseteq Procs /\ cached \in [CacheIdx -> Pages] /\ file \in Files
    /\ \A p \in Procs, v \in Pages : FlagsOK(k, p, v)

(* The area of the page is gone and munmap has not come to the page yet.   *)
Pending(p, v) == loop.op = "unmap" /\ loop.p = p /\ v \in loop.todo

PagesInv ==
    \A p \in Procs, v \in Pages :
        /\ Held(k, Pg(p, v)) => Held(k, Tb(p, v))
        /\ ~Pending(p, v) => RightsOK(k, area[p][v], p, v)

Gone(p) ==
    /\ \A s \in Slots : s[1] = p => ~Held(k, s)
    /\ \A v \in Pages : area[p][v] = NoArea

(* p is being made by fork or taken down.                                  *)
Changing(p) == loop.op \in {"clone", "destroy"} /\ loop.q = p

ProcsInv ==
    \A p \in Procs :
        /\ p \in live \/ Changing(p) => Held(k, Pd(p))
        /\ p \notin live /\ ~Changing(p) => Gone(p)
        /\ Changing(p) => p \notin live

(* What the loops have done so far: fork has not reached the pages to do,  *)
(* exit has emptied those before, and a page table goes with its last one. *)
LoopInv ==
    /\ loop.op \in {"clone", "unmap"} => loop.p \in live
    /\ loop.op = "clone" =>
          /\ \A v \in Pages : area[loop.q][v] = area[loop.p][v]
          /\ \A v \in loop.todo : ~Held(k, Pg(loop.q, v))
          /\ \A v \in Pages \ loop.todo : k.hold[Pg(loop.q, v)] = k.hold[Pg(loop.p, v)]
    /\ loop.op = "unmap" => \A v \in loop.todo : area[loop.p][v] = NoArea
    /\ loop.op = "destroy" =>
          /\ \A v \in loop.todo, u \in Pages : u > v => u \in loop.todo
          /\ \A v \in Pages \ loop.todo :
                /\ ~Held(k, Pg(loop.p, v))
                /\ (\A u \in loop.todo : u \div PerTable # v \div PerTable)
                      => ~Held(k, Tb(loop.p, v))
    /\ loop.op = "invalidate" => \A i \in CacheIdx \ loop.todo : ~Held(k, Ca(i))

CacheInv ==
    loop.op # "invalidate" =>
        \A i \in CacheIdx : Held(k, Ca(i)) => k.mem[k.hold[Ca(i)]] = file

CowInv == Always /\ (loop # Panic => PagesInv /\ ProcsInv /\ LoopInv /\ CacheInv)

-----------------------------------------------------------------------------
(* Between the loops.                                                      *)
Settled ==
    /\ \A p \in Procs, v \in Pages :
          /\ Held(k, Pg(p, v)) => Held(k, Tb(p, v))
          /\ RightsOK(k, area[p][v], p, v)
    /\ \A p \in live : Held(k, Pd(p))
    /\ \A p \in Procs \ live : Gone(p)
    /\ \A i \in CacheIdx : Held(k, Ca(i)) => k.mem[k.hold[Ca(i)]] = file

(* Between the loops the invariant says this.                              *)
LEMMA FromIdle == ASSUME CowInv, loop = Idle PROVE Always /\ Settled /\ Idle # Panic
<1>1. Idle # Panic /\ loop.op = "idle"
  BY Zenon DEF Idle, Panic
<1>2. Always /\ PagesInv /\ ProcsInv /\ CacheInv
  BY <1>1, Zenon DEF CowInv
<1>3. (\A p, v : ~Pending(p, v)) /\ \A p : ~Changing(p)
  BY <1>1, Zenon DEF Pending, Changing
<1>. QED  BY <1>1, <1>2, <1>3, Zenon DEF Always, Settled, PagesInv, ProcsInv, CacheInv

(* A step that ends between the loops has only this to show.               *)
LEMMA ToIdle == ASSUME Always', Settled', loop' = Idle PROVE CowInv'
<1>1. loop'.op = "idle"
  BY Zenon DEF Idle
<1>2. PagesInv' /\ CacheInv'
  BY <1>1, Zenon DEF Settled, PagesInv, CacheInv
<1>3. \A p : ~Changing(p)'
  BY <1>1, Zenon DEF Changing
<1>4. ProcsInv'
  BY <1>3, Zenon DEF Settled, ProcsInv
<1>5. LoopInv'
  BY <1>1, Zenon DEF LoopInv
<1>. QED  BY <1>2, <1>4, <1>5, Zenon DEF CowInv

(* The step leaves what page v of p holds as it is.                        *)
Same(p, v) ==
    /\ k'.hold[Pg(p, v)] = k.hold[Pg(p, v)]
    /\ Held(k, Pg(p, v)) => k'.mem[k'.hold[Pg(p, v)]] = k.mem[k.hold[Pg(p, v)]]

(* A page whose entry is unchanged has its contents still.                 *)
LEMMA SamePage ==
    ASSUME NEW g, Steps(k, k', g), NEW p \in Procs, NEW v \in Pages,
           k'.hold[Pg(p, v)] = k.hold[Pg(p, v)]
    PROVE  Same(p, v)
  BY SlotNames, Zenon DEF Steps, Same

(* A page the step is not about.                                           *)
LEMMA PageKept ==
    ASSUME NEW x, NEW y, NEW g, Steps(x, y, g), NEW p \in Procs, NEW v \in Pages,
           y.hold[Pg(p, v)] = x.hold[Pg(p, v)], y.flag[Pg(p, v)] = x.flag[Pg(p, v)],
           Held(x, Pg(p, v)) /\ Sole(x, Pg(p, v)) => x.hold[Pg(p, v)] # g
    PROVE  /\ FlagsOK(x, p, v) => FlagsOK(y, p, v)
           /\ \A a : RightsOK(x, a, p, v) => RightsOK(y, a, p, v)
<1>1. Held(y, Pg(p, v)) <=> Held(x, Pg(p, v))
  BY Zenon DEF Held
<1>2. Held(x, Pg(p, v)) /\ Sole(x, Pg(p, v)) => Sole(y, Pg(p, v))
  BY SoleKept, SlotNames, Zenon
<1>. QED  BY <1>1, <1>2, Zenon DEF FlagsOK, RightsOK

-----------------------------------------------------------------------------
(* A step that only changes the page directory of p.                       *)
LEMMA DirectoryOnly ==
    ASSUME NEW p \in Procs, Steps(k, k', None), k'.flag = k.flag,
           \A r \in Slots \ {Pd(p)} : k'.hold[r] = k.hold[r]
    PROVE  /\ \A q \in Procs, v \in Pages :
                 /\ FlagsOK(k, q, v) => FlagsOK(k', q, v)
                 /\ \A a : RightsOK(k, a, q, v) => RightsOK(k', a, q, v)
                 /\ Held(k', Pg(q, v)) <=> Held(k, Pg(q, v))
                 /\ Held(k', Tb(q, v)) <=> Held(k, Tb(q, v))
                 /\ Same(q, v)
           /\ \A i \in CacheIdx :
                 /\ Held(k', Ca(i)) <=> Held(k, Ca(i))
                 /\ Held(k, Ca(i)) => k'.mem[k'.hold[Ca(i)]] = k.mem[k.hold[Ca(i)]]
           /\ \A s \in Slots : s[1] # p => (Held(k', s) <=> Held(k, s))
           /\ \A q \in Procs \ {p} : Held(k', Pd(q)) <=> Held(k, Pd(q))
<1>1. ASSUME NEW q \in Procs, NEW v \in Pages
      PROVE  /\ k'.hold[Pg(q, v)] = k.hold[Pg(q, v)] /\ k'.hold[Tb(q, v)] = k.hold[Tb(q, v)]
             /\ q # p => k'.hold[Pd(q)] = k.hold[Pd(q)]
  BY SlotNames, SlotsDiffer
<1>2. ASSUME NEW q \in Procs, NEW v \in Pages
      PROVE  /\ FlagsOK(k, q, v) => FlagsOK(k', q, v)
             /\ \A a : RightsOK(k, a, q, v) => RightsOK(k', a, q, v)
  BY <1>1, PageKept, Zenon DEF Held
<1>3. ASSUME NEW i \in CacheIdx
      PROVE  /\ Held(k', Ca(i)) <=> Held(k, Ca(i))
             /\ Held(k, Ca(i)) => k'.mem[k'.hold[Ca(i)]] = k.mem[k.hold[Ca(i)]]
  <2>1. Ca(i) \in Slots /\ k'.hold[Ca(i)] = k.hold[Ca(i)]
    <3>1. Ca(i) # Pd(p)
      BY SlotNames
    <3>. QED  BY <3>1, SlotNames, Zenon
  <2>. QED  BY <2>1, Zenon DEF Steps, Held
<1>4. ASSUME NEW s \in Slots, s[1] # p PROVE Held(k', s) <=> Held(k, s)
  BY <1>4, SlotNames, Zenon DEF Held
<1>5. \A q \in Procs \ {p} : Held(k', Pd(q)) <=> Held(k, Pd(q))
  BY SlotNames, <1>4, Zenon
<1>6. \A q \in Procs, v \in Pages : Same(q, v)
  BY <1>1, SamePage, Zenon
<1>. QED  BY <1>1, <1>2, <1>3, <1>4, <1>5, <1>6, Zenon DEF Held

(* A new address space: process_pd_create allocates a page directory.      *)
LEMMA SpawnStep ==
    ASSUME CowInv, NEW p \in Procs, Spawn(p)
    PROVE  CowInv' /\ \A q \in Procs, v \in Pages : Same(q, v)
<1>1. /\ loop = Idle /\ p \notin live /\ CanAlloc(k) /\ k' = AllocInto(k, Pd(p), Zero)
      /\ live' = live \cup {p} /\ UNCHANGED <<area, loop, cached, file>>
  BY Zenon DEF Spawn
<1>2. Always /\ Settled
  BY <1>1, FromIdle, Zenon
<1>3. Pd(p) \in Slots /\ ~Held(k, Pd(p)) /\ Counted(k) /\ Zero \in Contents
  BY <1>1, <1>2, SlotNames DEF Settled, Gone, Always, Contents
<1>4. /\ Steps(k, k', None) /\ k'.flag = k.flag /\ Held(k', Pd(p))
      /\ \A r \in Slots \ {Pd(p)} : k'.hold[r] = k.hold[r]
  BY <1>1, <1>3, AllocSteps
<1>5. Always'
  BY <1>1, <1>2, <1>4, DirectoryOnly DEF Always, AreasOK, LoopOK, Steps
<1>6. Settled'
  <2>1. \A q \in Procs, v \in Pages :
          /\ Held(k', Pg(q, v)) => Held(k', Tb(q, v))
          /\ RightsOK(k', area'[q][v], q, v)
    BY <1>1, <1>2, <1>4, DirectoryOnly, Zenon DEF Settled
  <2>2. \A q \in live' : Held(k', Pd(q))
    BY <1>1, <1>2, <1>4, DirectoryOnly, Zenon DEF Settled, Always
  <2>3. \A q \in Procs \ live' : Gone(q)'
    BY <1>1, <1>2, <1>4, DirectoryOnly, Zenon DEF Settled, Gone
  <2>4. \A i \in CacheIdx : Held(k', Ca(i)) => k'.mem[k'.hold[Ca(i)]] = file'
    BY <1>1, <1>2, <1>4, DirectoryOnly, Zenon DEF Settled
  <2>. QED  BY <2>1, <2>2, <2>3, <2>4, Zenon DEF Settled
<1>7. \A q \in Procs, v \in Pages : Same(q, v)
  BY <1>4, DirectoryOnly, Zenon
<1>. QED  BY <1>1, <1>5, <1>6, <1>7, ToIdle, Zenon

(* The calls that change areas.                                            *)
LEMMA MmapStep ==
    ASSUME CowInv, NEW p \in Procs, NEW vs \in SUBSET Pages, NEW kind \in {"anon", "file"},
           NEW prot \in Prots, Mmap(p, vs, kind, prot)
    PROVE  CowInv'
<1> DEFINE a == [prot |-> prot, max |-> MaxProt(kind, prot), kind |-> kind]
<1>1. /\ loop = Idle /\ p \in live /\ (\A v \in vs : area[p][v] = NoArea)
      /\ area' = [area EXCEPT ![p] = [v \in Pages |-> IF v \in vs THEN a ELSE area[p][v]]]
      /\ UNCHANGED <<k, live, loop, cached, file>>
  BY Zenon DEF Mmap, At
<1>2. Always /\ Settled
  BY <1>1, FromIdle, Zenon
<1>3. a \in Areas /\ a.prot \subseteq a.max /\ a.kind # "none"
  BY Zenon DEF Areas, Prots, MaxProt
<1> HIDE DEF a
<1>4. \A q \in Procs, v \in Pages :
         area'[q][v] = IF q = p /\ v \in vs THEN a ELSE area[q][v]
  BY <1>1, <1>2, Zenon DEF Always, AreasOK
<1>5. AreasOK'
  <2>1. area' \in [Procs -> [Pages -> Areas]]
    BY <1>1, <1>2, <1>3, Zenon DEF Always, AreasOK
  <2>. QED  BY <1>2, <1>3, <1>4, <2>1 DEF Always, AreasOK
<1>6. Always'
  BY <1>1, <1>2, <1>5, Zenon DEF Always, LoopOK
<1>7. ASSUME NEW q \in Procs, NEW v \in Pages
      PROVE  RightsOK(k, area'[q][v], q, v)
  <2>1. CASE q = p /\ v \in vs
    <3>1. RightsOK(k, NoArea, q, v)
      BY <1>1, <1>2, <2>1, Zenon DEF Settled
    <3>. QED  BY <3>1, Zenon DEF RightsOK, NoArea
  <2>2. CASE ~(q = p /\ v \in vs)
    BY <1>2, <1>4, <2>2, Zenon DEF Settled
  <2>. QED  BY <2>1, <2>2, Zenon
<1>8. Settled'
  BY <1>1, <1>2, <1>4, <1>7 DEF Settled, Gone
<1>. QED  BY <1>1, <1>6, <1>8, ToIdle, Zenon

(* munmap takes the areas of the range away and starts its loop over the   *)
(* pages.                                                                  *)
LEMMA MunmapStep ==
    ASSUME CowInv, NEW p \in Procs, NEW vs \in SUBSET Pages, Munmap(p, vs)
    PROVE  CowInv'
<1>1. /\ loop = Idle /\ p \in live /\ loop' = Loop("unmap", p, p, vs)
      /\ area' = [area EXCEPT ![p] = [v \in Pages |-> IF v \in vs THEN NoArea ELSE area[p][v]]]
      /\ UNCHANGED <<k, live, cached, file>>
  BY Zenon DEF Munmap, At
<1>2. Always /\ Settled
  BY <1>1, FromIdle, Zenon
<1>3. \A q \in Procs, v \in Pages :
         area'[q][v] = IF q = p /\ v \in vs THEN NoArea ELSE area[q][v]
  BY <1>1, <1>2, Zenon DEF Always, AreasOK
<1>4. AreasOK'
  <2>1. NoArea \in Areas /\ NoArea.prot \subseteq NoArea.max
    BY Zenon DEF NoArea, Areas, Prots
  <2>2. area' \in [Procs -> [Pages -> Areas]]
    BY <1>1, <1>2, <2>1, Zenon DEF Always, AreasOK
  <2>. QED  BY <1>2, <1>3, <2>1, <2>2 DEF Always, AreasOK
<1>5. /\ loop' \in [op : {"destroy", "unmap"}, p : Procs, q : Procs, todo : SUBSET Pages]
      /\ loop'.op = "unmap" /\ loop'.p = p /\ loop'.q = p /\ loop'.todo = vs
  BY <1>1, Zenon DEF Loop
<1>6. Always'
  BY <1>1, <1>2, <1>4, <1>5, Zenon DEF Always, LoopOK
<1>7. PagesInv'
  BY <1>1, <1>2, <1>3, <1>5 DEF Settled, PagesInv, Pending
<1>8. ProcsInv'
  BY <1>1, <1>2, <1>3, <1>5 DEF Settled, ProcsInv, Changing, Gone
<1>9. LoopInv' /\ CacheInv'
  BY <1>1, <1>2, <1>3, <1>5, Zenon DEF Settled, LoopInv, CacheInv
<1>. QED  BY <1>6, <1>7, <1>8, <1>9, Zenon DEF CowInv

(* mprotect changes the rights of the range, and the flags of the pages    *)
(* that are there, but makes none writable that has another holder.        *)
LEMMA MprotectStep ==
    ASSUME CowInv, NEW p \in Procs, NEW vs \in SUBSET Pages, NEW prot \in Prots,
           Mprotect(p, vs, prot)
    PROVE  CowInv'
<1> DEFINE fl(q, v) == IF q = p /\ v \in vs /\ Held(k, Pg(q, v))
                       THEN ProtectFlags(k.flag[Pg(q, v)], prot) ELSE k.flag[Pg(q, v)]
<1>1. /\ loop = Idle /\ p \in live
      /\ \A v \in vs : area[p][v] # NoArea /\ prot \subseteq area[p][v].max
      /\ area' = [area EXCEPT ![p] = [v \in Pages |->
                    IF v \in vs THEN [area[p][v] EXCEPT !.prot = prot] ELSE area[p][v]]]
      /\ k' = [k EXCEPT !.flag = [s \in PageSlots |->
                IF s[1] = p /\ s[3] \in vs /\ Held(k, s)
                THEN ProtectFlags(k.flag[s], prot) ELSE k.flag[s]]]
      /\ UNCHANGED <<live, loop, cached, file>>
  BY Zenon DEF Mprotect, At
<1>2. Always /\ Settled
  BY <1>1, FromIdle, Zenon
<1>3. ASSUME NEW q \in Procs, NEW v \in Pages
      PROVE  /\ area'[q][v] = IF q = p /\ v \in vs THEN [area[p][v] EXCEPT !.prot = prot]
                                                   ELSE area[q][v]
             /\ area'[q][v] \in Areas /\ area[q][v] \in Areas
             /\ area'[q][v].kind = area[q][v].kind /\ area'[q][v].max = area[q][v].max
             /\ area'[q][v].prot = IF q = p /\ v \in vs THEN prot ELSE area[q][v].prot
  <2>1. area \in [Procs -> [Pages -> Areas]]
    BY <1>2, Zenon DEF Always, AreasOK
  <2>2. area'[q][v] = IF q = p /\ v \in vs THEN [area[p][v] EXCEPT !.prot = prot]
                                           ELSE area[q][v]
    BY <1>1, <2>1, Zenon
  <2>3. area[q][v] \in Areas
    BY <2>1, Zenon
  <2>. QED  BY <2>2, <2>3, Zenon DEF Areas
<1>4. AreasOK'
  <2>1. area' \in [Procs -> [Pages -> Areas]]
    <3>1. area \in [Procs -> [Pages -> Areas]]
      BY <1>2, Zenon DEF Always, AreasOK
    <3>2. \A v \in vs : [area[p][v] EXCEPT !.prot = prot] \in Areas
      BY <3>1 DEF Areas
    <3>. QED  BY <1>1, <3>1, <3>2, Zenon
  <2>2. ASSUME NEW q \in Procs, NEW v \in Pages
        PROVE  /\ area'[q][v].prot \subseteq area'[q][v].max
               /\ area'[q][v].kind = "none" => area'[q][v] = NoArea
    BY <1>1, <1>2, <1>3 DEF Always, AreasOK
  <2>. QED  BY <2>1, <2>2, Zenon DEF AreasOK
<1>5. Counted(k') /\ Steps(k, k', None) /\ k'.hold = k.hold /\ k'.mem = k.mem
  <2>1. k \in KStates /\ PmmConsistent(k.pm)
    BY <1>2, Zenon DEF Always, Counted, Over
  <2> DEFINE F == [s \in PageSlots |-> IF s[1] = p /\ s[3] \in vs /\ Held(k, s)
                THEN ProtectFlags(k.flag[s], prot) ELSE k.flag[s]]
  <2>2. F \in [PageSlots -> Flags]
    <3>1. k.flag \in [PageSlots -> Flags]
      BY <2>1, KTypes, Zenon
    <3>2. \A s \in PageSlots : ProtectFlags(k.flag[s], prot) \in Flags
      BY <3>1, Zenon DEF Flags, ProtectFlags
    <3>. QED  BY <3>1, <3>2, Zenon
  <2>3. k' = [pm |-> k.pm, hold |-> k.hold, flag |-> F, mem |-> k.mem]
    BY <1>1, <2>1, KTypes
  <2> HIDE DEF F
  <2>4. k' \in KStates
    BY <2>1, <2>2, <2>3, KTypes, Zenon DEF KStates
  <2>5. \A f \in Frames : Holders(k', f) = Holders(k, f)
    BY <2>3, Zenon DEF Holders
  <2>6. Counted(k')
    BY <1>2, <2>3, <2>4, <2>5, Zenon DEF Always, Counted, Over
  <2>. QED  BY <1>2, <2>3, <2>6, StepsSame, StepsAlike, Zenon DEF Always
<1>6. ASSUME NEW q \in Procs, NEW v \in Pages PROVE k'.flag[Pg(q, v)] = fl(q, v)
  <2>1. k \in KStates
    BY <1>2, Zenon DEF Always, Counted, Over
  <2>2. Pg(q, v) \in PageSlots /\ Pg(q, v)[1] = q /\ Pg(q, v)[3] = v
    BY SlotNames, Zenon DEF Pg
  <2>. QED  BY <1>1, <2>1, <2>2, KTypes
<1>7. ASSUME NEW q \in Procs, NEW v \in Pages
      PROVE  FlagsOK(k', q, v) /\ RightsOK(k', area'[q][v], q, v)
  <2>0. FlagsOK(k, q, v) /\ RightsOK(k, area[q][v], q, v)
    BY <1>2, Zenon DEF Always, Settled
  <2>1. (Held(k', Pg(q, v)) <=> Held(k, Pg(q, v))) /\ (Sole(k', Pg(q, v)) <=> Sole(k, Pg(q, v)))
    BY <1>5, Zenon DEF Held, Sole
  <2>2. CASE ~(q = p /\ v \in vs /\ Held(k, Pg(q, v)))
    BY <1>3, <1>6, <2>0, <2>1, <2>2, Zenon DEF FlagsOK, RightsOK
  <2>3. CASE q = p /\ v \in vs /\ Held(k, Pg(q, v))
    <3>1. k'.flag[Pg(q, v)] = ProtectFlags(k.flag[Pg(q, v)], prot)
      BY <1>6, <2>3, Zenon
    <3>2. prot \subseteq area[q][v].max
      BY <1>1, <2>3, Zenon
    <3>3. CASE "w" \notin prot
      <4>1. k'.flag[Pg(q, v)] = k.flag[Pg(q, v)] \ {"w"}
        BY <3>1, <3>3, Zenon DEF ProtectFlags
      <4>. QED  BY <1>3, <2>0, <2>1, <2>3, <3>3, <4>1, Zenon DEF FlagsOK, RightsOK
    <3>4. CASE "w" \in prot /\ k.flag[Pg(q, v)] \in {{"cow"}, {"ro"}}
      <4>1. k'.flag[Pg(q, v)] = k.flag[Pg(q, v)]
        BY <3>1, <3>4, Zenon DEF ProtectFlags
      <4>. QED  BY <1>3, <2>0, <2>1, <2>3, <3>4, <4>1, Zenon DEF FlagsOK, RightsOK
    <3>5. CASE "w" \in prot /\ k.flag[Pg(q, v)] \in {{}, {"w"}}
      <4>1. k'.flag[Pg(q, v)] = {"w"}
        BY <3>1, <3>5, Zenon DEF ProtectFlags
      <4>2. Sole(k, Pg(q, v))
        BY <2>0, <2>3, <3>2, <3>5, Zenon DEF FlagsOK, RightsOK
      <4>3. "w" \in area'[q][v].prot /\ area'[q][v].kind # "none"
        BY <1>3, <2>0, <2>3, <3>5, Zenon DEF RightsOK
      <4>. QED  BY <2>1, <2>3, <4>1, <4>2, <4>3, Zenon DEF FlagsOK, RightsOK
    <3>. QED  BY <2>0, <3>3, <3>4, <3>5, Zenon DEF FlagsOK
  <2>. QED  BY <2>2, <2>3, Zenon
<1>8. Always'
  BY <1>1, <1>2, <1>4, <1>5, <1>7, Zenon DEF Always, LoopOK
<1>9. \A s : Held(k', s) <=> Held(k, s)
  BY <1>5, Zenon DEF Held
<1>10. Settled'
  <2>1. ASSUME NEW q \in Procs \ live' PROVE Gone(q)'
    <3>1. q # p /\ Gone(q)
      BY <1>1, <1>2, <2>1, Zenon DEF Settled
    <3>. QED  BY <1>3, <1>9, <3>1, Zenon DEF Gone
  <2>. QED  BY <1>1, <1>2, <1>5, <1>7, <1>9, <2>1, Zenon DEF Settled
<1>. QED  BY <1>1, <1>8, <1>10, ToIdle, Zenon

-----------------------------------------------------------------------------
(* Stores and faults.                                                      *)
LEMMA StoreStep ==
    ASSUME CowInv, NEW p \in Procs, NEW v \in Pages, Store(p, v)
    PROVE  /\ CowInv' /\ k'.hold = k.hold /\ k'.mem[k'.hold[Pg(p, v)]] = p
           /\ \A q \in Procs, u \in Pages : Pg(q, u) # Pg(p, v) => Same(q, u)
<1> DEFINE f == k.hold[Pg(p, v)]
<1>1. /\ loop = Idle /\ p \in live /\ Held(k, Pg(p, v)) /\ "w" \in k.flag[Pg(p, v)]
      /\ k' = [k EXCEPT !.mem[f] = p] /\ UNCHANGED <<area, live, loop, cached, file>>
  BY Zenon DEF Store, At
<1>2. Always /\ Settled
  BY <1>1, FromIdle, Zenon
<1>3. Sole(k, Pg(p, v))
  BY <1>1, <1>2, Zenon DEF Always, FlagsOK
<1>4. k \in KStates /\ PmmConsistent(k.pm) /\ p \in Contents
  BY <1>2, Zenon DEF Always, Counted, Over, Contents
<1>5. k' = [pm |-> k.pm, hold |-> k.hold, flag |-> k.flag, mem |-> [k.mem EXCEPT ![f] = p]]
  BY <1>1, <1>4, KTypes
<1>6. Counted(k')
  <2>1. k' \in KStates
    BY <1>4, <1>5, KTypes, Zenon DEF KStates
  <2>2. \A g \in Frames : Holders(k', g) = Holders(k, g)
    BY <1>5, Zenon DEF Holders
  <2>. QED  BY <1>2, <1>5, <2>1, <2>2, Zenon DEF Always, Counted, Over
<1>7. /\ \A s : Held(k', s) <=> Held(k, s)
      /\ \A q \in Procs, u \in Pages : FlagsOK(k, q, u) => FlagsOK(k', q, u)
      /\ \A q \in Procs, u \in Pages : \A a : RightsOK(k, a, q, u) => RightsOK(k', a, q, u)
  BY <1>5 DEF Held, FlagsOK, RightsOK, Sole
<1>8. Always'
  BY <1>1, <1>2, <1>6, <1>7, Zenon DEF Always, AreasOK, LoopOK
<1>9. ASSUME NEW i \in CacheIdx, Held(k, Ca(i)) PROVE k'.mem[k'.hold[Ca(i)]] = file
  <2>1. k.hold[Ca(i)] # f
    BY <1>3, SlotNames DEF Sole
  <2>2. k.hold[Ca(i)] \in Frames /\ k.mem \in [Frames -> Contents]
    BY <1>4, <1>9, KTypes, SlotNames DEF Held
  <2>3. k'.mem[k'.hold[Ca(i)]] = k.mem[k.hold[Ca(i)]]
    BY <1>5, <2>1, <2>2, Zenon
  <2>. QED  BY <1>2, <1>9, <2>3, Zenon DEF Settled
<1>10. Settled'
  BY <1>1, <1>2, <1>7, <1>9, Zenon DEF Settled, Gone
<1>11. ASSUME NEW q \in Procs, NEW u \in Pages, Pg(q, u) # Pg(p, v) PROVE Same(q, u)
  <2>1. Held(k, Pg(q, u)) => k.hold[Pg(q, u)] # f /\ k.hold[Pg(q, u)] \in Frames
    BY <1>3, <1>4, <1>11, KTypes, SlotNames DEF Sole, Held
  <2>. QED  BY <1>4, <1>5, <2>1, KTypes, Zenon DEF Same
<1>12. k'.mem[k'.hold[Pg(p, v)]] = p
  <2>1. f \in Frames /\ k.mem \in [Frames -> Contents]
    BY <1>1, <1>4, KTypes, SlotNames DEF Held
  <2>. QED  BY <1>5, <2>1, Zenon
<1>. QED  BY <1>1, <1>5, <1>8, <1>10, <1>11, <1>12, ToIdle, Zenon

(* The processes hold what they held before, but for page v of p and its   *)
(* page table.                                                             *)
Elsewhere(x, y, p, v) ==
    \A s \in Slots : s[1] \in Procs /\ s # Pg(p, v) /\ s # Tb(p, v) => y.hold[s] = x.hold[s]

(* No process has g to itself.                                             *)
Public(x, g) == \A s \in Slots : s[1] \in Procs /\ Held(x, s) /\ Sole(x, s) => x.hold[s] # g

Fresh(x) == \A i \in CacheIdx : Held(x, Ca(i)) => x.mem[x.hold[Ca(i)]] = file

(* The flags fl suit the area a of a page that x holds in slot s.          *)
Suits(x, s, fl, a) ==
    /\ fl \in {{}, {"w"}, {"cow"}, {"ro"}} /\ a.kind # "none"
    /\ fl = {"w"} => "w" \in a.prot /\ Sole(x, s)
    /\ fl \in {{}, {"ro"}} => "w" \notin a.max

(* A step between loops that gives page v of p the flags fl, and perhaps a *)
(* frame, and may fill a cache entry.                                      *)
LEMMA PageStep ==
    ASSUME CowInv, loop = Idle, NEW p \in live, NEW v \in Pages, NEW g, Steps(k, k', g),
           NEW fl, k'.flag = [k.flag EXCEPT ![Pg(p, v)] = fl],
           Held(k', Pg(p, v)), Held(k', Tb(p, v)), Elsewhere(k, k', p, v), Public(k, g),
           Fresh(k'), Suits(k', Pg(p, v), fl, area[p][v]),
           cached' \in [CacheIdx -> Pages], UNCHANGED <<area, live, loop, file>>
    PROVE  CowInv' /\ \A q \in Procs, u \in Pages : Pg(q, u) # Pg(p, v) => Same(q, u)
<1>1. Always /\ Settled /\ p \in Procs
  BY FromIdle, Zenon DEF Always
<1>2. k.flag \in [PageSlots -> Flags] /\ k' \in KStates /\ Counted(k')
  BY <1>1, KTypes, Zenon DEF Always, Steps, Counted, Over
<1>3. ASSUME NEW q \in Procs, NEW u \in Pages, Pg(q, u) # Pg(p, v)
      PROVE  /\ k'.hold[Pg(q, u)] = k.hold[Pg(q, u)]
             /\ FlagsOK(k', q, u) /\ RightsOK(k', area'[q][u], q, u)
  <2>1. /\ Pg(q, u) \in PageSlots /\ Pg(q, u) \in Slots /\ Pg(q, u)[1] = q
        /\ Pg(q, u) # Tb(p, v)
    BY <1>1, SlotNames, SlotsDiffer
  <2>2. k'.hold[Pg(q, u)] = k.hold[Pg(q, u)] /\ k'.flag[Pg(q, u)] = k.flag[Pg(q, u)]
    BY <1>2, <1>3, <2>1, Zenon DEF Elsewhere
  <2>3. /\ FlagsOK(k, q, u) => FlagsOK(k', q, u)
        /\ \A a : RightsOK(k, a, q, u) => RightsOK(k', a, q, u)
    BY <2>1, <2>2, PageKept, Zenon DEF Public
  <2>. QED  BY <1>1, <2>2, <2>3, Zenon DEF Always, Settled
<1>4. FlagsOK(k', p, v) /\ RightsOK(k', area'[p][v], p, v)
  <2>1. k'.flag[Pg(p, v)] = fl
    BY <1>1, <1>2, SlotNames, Zenon
  <2>. QED  BY <2>1, Zenon DEF FlagsOK, RightsOK, Suits
<1>5. ASSUME NEW q \in Procs, NEW u \in Pages
      PROVE  FlagsOK(k', q, u) /\ RightsOK(k', area'[q][u], q, u)
  BY <1>1, <1>3, <1>4, SlotsDiffer
<1>6. Always'
  BY <1>1, <1>2, <1>5, Zenon DEF Always, AreasOK, LoopOK
<1>7. ASSUME NEW q \in Procs, NEW u \in Pages, Held(k', Pg(q, u)) PROVE Held(k', Tb(q, u))
  <2>1. CASE Tb(q, u) = Tb(p, v)
    BY <2>1, Zenon
  <2>2. CASE Tb(q, u) # Tb(p, v)
    <3>1. Pg(q, u) # Pg(p, v) /\ Tb(q, u) # Pg(p, v)
      BY <1>1, <2>2, SlotsDiffer
    <3>2. k'.hold[Tb(q, u)] = k.hold[Tb(q, u)]
      BY <2>2, <3>1, SlotNames, Zenon DEF Elsewhere
    <3>. QED  BY <1>1, <1>3, <1>7, <3>1, <3>2, Zenon DEF Settled, Held
  <2>. QED  BY <2>1, <2>2, Zenon
<1>8. ASSUME NEW q \in live' PROVE Held(k', Pd(q))
  <2>1. q \in Procs /\ Pd(q) # Pg(p, v) /\ Pd(q) # Tb(p, v) /\ Held(k, Pd(q))
    BY <1>1, <1>8, SlotsDiffer DEF Always, Settled
  <2>. QED  BY <2>1, SlotNames, Zenon DEF Held, Elsewhere
<1>9. ASSUME NEW q \in Procs \ live' PROVE Gone(q)'
  <2>1. q # p /\ Gone(q)
    BY <1>1, <1>9, Zenon DEF Settled
  <2>2. Pg(p, v)[1] = p /\ Tb(p, v)[1] = p
    BY <1>1, SlotNames, Zenon
  <2>3. \A s \in Slots : s[1] = q => k'.hold[s] = k.hold[s]
    BY <2>1, <2>2, Zenon DEF Elsewhere
  <2>. QED  BY <2>1, <2>3, Zenon DEF Gone, Held
<1>10. Settled'
  BY <1>5, <1>7, <1>8, <1>9, Zenon DEF Settled, Fresh
<1>11. \A q \in Procs, u \in Pages : Pg(q, u) # Pg(p, v) => Same(q, u)
  BY <1>3, SamePage, Zenon
<1>. QED  BY <1>6, <1>10, <1>11, ToIdle, Zenon

(* A write fault on a page that may be written gives the process the frame *)
(* for itself, with the same contents.                                     *)
LEMMA WriteFaultStep ==
    ASSUME CowInv, NEW p \in Procs, NEW v \in Pages, WriteFault(p, v)
    PROVE  /\ CowInv' /\ Held(k', Pg(p, v))
           /\ k'.mem[k'.hold[Pg(p, v)]] = k.mem[k.hold[Pg(p, v)]]
           /\ \A q \in Procs, u \in Pages : Pg(q, u) # Pg(p, v) => Same(q, u)
<1> DEFINE s == Pg(p, v)
           c == k.mem[k.hold[s]]
           fl == (k.flag[s] \cup {"w"}) \ {"cow", "ro"}
           x == IF Refs(k, s) <= 1 THEN k ELSE Replace(k, s, c)
<1>1. /\ loop = Idle /\ p \in live /\ "w" \in area[p][v].prot /\ Held(k, s)
      /\ "cow" \in k.flag[s] /\ "w" \notin k.flag[s] /\ k' = SetFlags(x, p, v, fl)
      /\ ~(Refs(k, s) <= 1) => CanAlloc(k)
      /\ UNCHANGED <<area, live, loop, cached, file>>
  BY Zenon DEF WriteFault, At, ResolveCow, CanResolve
<1>2. Always /\ Settled /\ Counted(k)
  BY <1>1, FromIdle, Zenon DEF Always
<1>3. s \in Slots /\ s \in PageSlots /\ c \in Contents /\ k.flag[s] = {"cow"}
  <2>1. s \in Slots /\ s \in PageSlots
    BY SlotNames, Zenon
  <2>2. k.hold[s] \in Frames
    BY <1>1, <1>2, <2>1, KTypes, Zenon DEF Held, Counted, Over
  <2>. QED  BY <1>1, <1>2, <2>1, <2>2, KTypes, Zenon DEF Counted, Over, Always, FlagsOK
<1>4. fl = {"w"} /\ fl \in Flags
  BY <1>3, Zenon DEF Flags
<1>5. k.mem[k.hold[s]] = c /\ x = IF Refs(k, s) <= 1 THEN k ELSE Replace(k, s, c)
  OBVIOUS
<1> HIDE DEF c, x, fl
<1>6. /\ Steps(k, x, None) /\ x.flag = k.flag /\ Held(x, s) /\ Sole(x, s)
      /\ x.mem[x.hold[s]] = c
      /\ \A r \in Slots \ {s} : x.hold[r] = k.hold[r]
  <2> HIDE DEF s
  <2>. QED  BY <1>1, <1>2, <1>3, <1>5, ResolveSteps
<1>7. /\ Counted(k') /\ k'.hold = x.hold /\ k'.mem = x.mem
      /\ k'.flag = [k.flag EXCEPT ![s] = fl]
  <2>1. Counted(x) /\ k' = SetFlags(x, p, v, fl) /\ fl \in Flags
    BY <1>1, <1>4, <1>6, Zenon DEF Steps
  <2>2. /\ Counted(k') /\ k'.hold = x.hold /\ k'.mem = x.mem
        /\ k'.flag = [x.flag EXCEPT ![Pg(p, v)] = fl]
    BY <2>1, FlagSteps
  <2>. QED  BY <1>6, <2>2, Zenon
<1>8. Steps(k, k', None) /\ Held(k', s) /\ Sole(k', s)
  BY <1>6, <1>7, StepsAlike, Zenon DEF Held, Sole
<1>9. \A r \in Slots \ {s} : k'.hold[r] = k.hold[r]
  BY <1>6, <1>7, Zenon
<1>10. Held(k', Tb(p, v)) /\ area[p][v].kind # "none"
  <2>1. RightsOK(k, area[p][v], p, v) /\ Held(k, Tb(p, v))
    BY <1>1, <1>2, Zenon DEF Settled
  <2>2. Tb(p, v) \in Slots \ {s}
    BY SlotNames, SlotsDiffer
  <2>. QED  BY <1>1, <1>9, <2>1, <2>2, Zenon DEF RightsOK, Held
<1>11. Fresh(k')
  <2> SUFFICES ASSUME NEW i \in CacheIdx, Held(k', Ca(i))
               PROVE  k'.mem[k'.hold[Ca(i)]] = file
    BY Zenon DEF Fresh
  <2>1. Ca(i) \in Slots \ {s}
    BY SlotNames, SlotsDiffer
  <2>. QED  BY <1>2, <1>8, <1>9, <2>1, Zenon DEF Settled, Steps, Held
<1>12. cached' \in [CacheIdx -> Pages] /\ Public(k, None) /\ Elsewhere(k, k', p, v)
  BY <1>1, <1>2, <1>9, Zenon DEF Always, Held, Public, Elsewhere
<1>13. Suits(k', s, fl, area[p][v])
  BY <1>1, <1>4, <1>8, <1>10, Zenon DEF Suits
<1>14. k'.mem[k'.hold[Pg(p, v)]] = k.mem[k.hold[Pg(p, v)]]
  BY <1>5, <1>6, <1>7, Zenon
<1>. QED  BY <1>1, <1>7, <1>8, <1>10, <1>11, <1>12, <1>13, <1>14, PageStep, Zenon

(* The end of every fault on a missing page: x has the page but not its    *)
(* entry.                                                                  *)
LEMMA InstallStep ==
    ASSUME CowInv, NEW p \in Procs, NEW v \in Pages, Missing(p, v), NEW g, NEW x,
           Steps(k, x, g), x.flag = k.flag, Held(x, Pg(p, v)), Elsewhere(k, x, p, v),
           x.hold[Tb(p, v)] = k.hold[Tb(p, v)], Public(k, g), Fresh(x),
           NEW fl, Suits(x, Pg(p, v), fl, area[p][v]), Install(x, p, v, fl),
           cached' \in [CacheIdx -> Pages], UNCHANGED <<area, live, file>>
    PROVE  /\ CowInv' /\ Held(k', Pg(p, v))
           /\ k'.mem[k'.hold[Pg(p, v)]] = x.mem[x.hold[Pg(p, v)]]
           /\ \A q \in Procs, u \in Pages : Pg(q, u) # Pg(p, v) => Same(q, u)
<1>1. loop = Idle /\ p \in live /\ ~Held(k, Pg(p, v)) /\ Always /\ Settled /\ Counted(x)
  BY FromIdle, Zenon DEF Missing, At, Steps
<1>2. CASE Panics(x, p, v)
  <2>1. loop' = Panic /\ k' = x
    BY <1>2, Zenon DEF Install
  <2>2. ASSUME NEW q \in Procs, NEW u \in Pages PROVE FlagsOK(k', q, u)
    <3>1. CASE Pg(q, u) = Pg(p, v)
      <4>1. x.flag[Pg(q, u)] = {}
        BY <1>1, <3>1, Zenon DEF Always, FlagsOK
      <4>. QED  BY <2>1, <4>1, Zenon DEF FlagsOK
    <3>2. CASE Pg(q, u) # Pg(p, v)
      <4>1. Pg(q, u) \in Slots /\ Pg(q, u)[1] = q /\ Pg(q, u) # Tb(p, v)
        BY SlotNames, SlotsDiffer
      <4>2. x.hold[Pg(q, u)] = k.hold[Pg(q, u)]
        BY <3>2, <4>1, Zenon DEF Elsewhere
      <4>3. FlagsOK(k, q, u) => FlagsOK(x, q, u)
        BY <4>1, <4>2, PageKept, Zenon DEF Public
      <4>. QED  BY <1>1, <2>1, <4>3, Zenon DEF Always
    <3>. QED  BY <3>1, <3>2, Zenon
  <2>3. Always'
    BY <1>1, <2>1, <2>2, Zenon DEF Always, AreasOK, LoopOK
  <2>4. ASSUME NEW q \in Procs, NEW u \in Pages, Pg(q, u) # Pg(p, v) PROVE Same(q, u)
    <3>1. Pg(q, u) \in Slots /\ Pg(q, u)[1] = q /\ Pg(q, u) # Tb(p, v)
      BY SlotNames, SlotsDiffer
    <3>2. k'.hold[Pg(q, u)] = k.hold[Pg(q, u)] /\ Steps(k, k', g)
      BY <2>1, <2>4, <3>1, Zenon DEF Elsewhere
    <3>. QED  BY <3>2, SamePage, Zenon
  <2>. QED  BY <2>1, <2>3, <2>4, Zenon DEF CowInv
<1>3. CASE ~Panics(x, p, v)
  <2>1. loop' = loop /\ k' = MapPage(x, p, v, fl) /\ fl \in Flags
    BY <1>3, Zenon DEF Install, Suits, Flags
  <2>2. /\ Steps(x, k', None) /\ Held(k', Tb(p, v))
        /\ k'.flag = [k.flag EXCEPT ![Pg(p, v)] = fl]
        /\ \A r \in Slots \ {Tb(p, v)} : k'.hold[r] = x.hold[r]
    BY <1>1, <1>3, <2>1, MapSteps
  <2>3. Tb(p, v) \in Slots /\ Pg(p, v) \in Slots \ {Tb(p, v)} /\ Pg(p, v)[1] = p
    BY SlotNames, SlotsDiffer
  <2>4. Steps(k, k', g)
    BY <2>2, <2>3, StepsJoin, StepsThen
  <2>5. Held(k', Pg(p, v)) /\ Elsewhere(k, k', p, v)
    BY <2>2, <2>3, Zenon DEF Held, Elsewhere
  <2>6. ASSUME NEW i \in CacheIdx, Held(k', Ca(i)) PROVE k'.mem[k'.hold[Ca(i)]] = file
    <3>1. Ca(i) \in Slots \ {Tb(p, v)}
      BY SlotNames, SlotsDiffer
    <3>. QED  BY <2>2, <2>6, <3>1, Zenon DEF Fresh, Steps, Held
  <2>7. Sole(x, Pg(p, v)) => Sole(k', Pg(p, v))
    BY <2>2, <2>3, SoleKept, NoneIsNoFrame, Zenon DEF Held
  <2>8. Fresh(k') /\ Suits(k', Pg(p, v), fl, area[p][v])
    BY <2>6, <2>7, Zenon DEF Fresh, Suits
  <2>9. UNCHANGED <<area, live, loop, file>>
    BY <2>1, Zenon
  <2>10. k'.mem[k'.hold[Pg(p, v)]] = x.mem[x.hold[Pg(p, v)]]
    BY <2>2, <2>3, Zenon DEF Steps
  <2>. QED  BY <1>1, <2>2, <2>4, <2>5, <2>8, <2>9, <2>10, PageStep, Zenon
<1>. QED  BY <1>2, <1>3, Zenon

(* What is known where a page is missing that an area allows.              *)
LEMMA MissingArea ==
    ASSUME CowInv, NEW p \in Procs, NEW v \in Pages, Missing(p, v)
    PROVE  /\ loop = Idle /\ p \in live /\ ~Held(k, Pg(p, v)) /\ Always /\ Settled
           /\ Counted(k) /\ Fresh(k) /\ area[p][v].kind # "none"
           /\ Pg(p, v) \in Slots /\ Tb(p, v) \in Slots \ {Pg(p, v)}
           /\ \A i \in CacheIdx : Ca(i) \in Slots \ {Pg(p, v), Tb(p, v)} /\ Ca(i)[1] \notin Procs
<1>1. loop = Idle /\ p \in live /\ ~Held(k, Pg(p, v)) /\ Always /\ Settled
  BY FromIdle, Zenon DEF Missing, At
<1>2. area[p][v].kind # "none"
  BY <1>1 DEF Missing, Always, AreasOK, NoArea
<1>. QED  BY <1>1, <1>2, SlotNames, SlotsDiffer DEF Always, Settled, Fresh

(* A fault on a read-only file page that the cache holds maps the cached   *)
(* frame, which holds what the file holds.                                 *)
LEMMA FaultCachedStep ==
    ASSUME CowInv, NEW p \in Procs, NEW v \in Pages, FaultCached(p, v)
    PROVE  /\ CowInv' /\ Held(k', Pg(p, v)) /\ k'.mem[k'.hold[Pg(p, v)]] = file
           /\ \A q \in Procs, u \in Pages : Pg(q, u) # Pg(p, v) => Same(q, u)
<1>1. /\ Missing(p, v) /\ "w" \notin area[p][v].max
      /\ UNCHANGED <<area, live, cached, file>>
  BY Zenon DEF FaultCached, Cacheable
<1>2. PICK i \in InCache(v) : /\ CanShare(k, Ca(i))
                              /\ Install(ShareInto(k, Pg(p, v), Ca(i)), p, v, {"ro"})
  BY Zenon DEF FaultCached
<1> DEFINE x == ShareInto(k, Pg(p, v), Ca(i))
           g == k.hold[Ca(i)]
<1>3. i \in CacheIdx /\ Held(k, Ca(i)) /\ CanShare(k, Ca(i)) /\ Install(x, p, v, {"ro"})
  BY <1>2, Zenon DEF InCache
<1>4. /\ Always /\ ~Held(k, Pg(p, v)) /\ Counted(k) /\ Fresh(k) /\ area[p][v].kind # "none"
      /\ Pg(p, v) \in Slots /\ Tb(p, v) \in Slots \ {Pg(p, v)}
      /\ \A j \in CacheIdx : Ca(j) \in Slots \ {Pg(p, v), Tb(p, v)} /\ Ca(j)[1] \notin Procs
  BY <1>1, MissingArea, Zenon
<1>5. x = ShareInto(k, Pg(p, v), Ca(i)) /\ g = k.hold[Ca(i)]
  OBVIOUS
<1> HIDE DEF x, g
<1>6. /\ Steps(k, x, g) /\ x.flag = k.flag /\ x.mem = k.mem /\ x.hold[Pg(p, v)] = g
      /\ \A t \in Slots \ {Pg(p, v)} : x.hold[t] = k.hold[t]
  BY <1>3, <1>4, <1>5, ShareSteps
<1>7. Held(x, Pg(p, v)) /\ Elsewhere(k, x, p, v) /\ x.hold[Tb(p, v)] = k.hold[Tb(p, v)]
  BY <1>3, <1>4, <1>5, <1>6, Zenon DEF Held, Elsewhere
<1>8. Public(k, g)
  BY <1>3, <1>4, <1>5, Zenon DEF Public, Sole
<1>9. Fresh(x)
  BY <1>4, <1>6, Zenon DEF Fresh, Held
<1>10. Suits(x, Pg(p, v), {"ro"}, area[p][v]) /\ cached' \in [CacheIdx -> Pages]
  BY <1>1, <1>4, Zenon DEF Suits, Always
<1>11. x.mem[x.hold[Pg(p, v)]] = file
  BY <1>3, <1>4, <1>5, <1>6, Zenon DEF Fresh
<1>. QED  BY <1>1, <1>3, <1>6, <1>7, <1>8, <1>9, <1>10, <1>11, InstallStep

(* A fault on an anonymous or a writable file page maps a frame of its     *)
(* own, zeroed or filled from the file.                                    *)
LEMMA FaultPrivateStep ==
    ASSUME CowInv, NEW p \in Procs, NEW v \in Pages, FaultPrivate(p, v)
    PROVE  /\ CowInv' /\ Held(k', Pg(p, v))
           /\ k'.mem[k'.hold[Pg(p, v)]] = IF area[p][v].kind = "file" THEN file ELSE Zero
           /\ \A q \in Procs, u \in Pages : Pg(q, u) # Pg(p, v) => Same(q, u)
<1> DEFINE c == IF area[p][v].kind = "file" THEN file ELSE Zero
           x == AllocInto(k, Pg(p, v), c)
           fl == PrivateFlags(area[p][v])
<1>1. /\ Missing(p, v) /\ CanAlloc(k) /\ Install(x, p, v, fl)
      /\ UNCHANGED <<area, live, cached, file>>
  BY Zenon DEF FaultPrivate
<1>2. /\ Always /\ ~Held(k, Pg(p, v)) /\ Counted(k) /\ Fresh(k) /\ area[p][v].kind # "none"
      /\ Pg(p, v) \in Slots /\ Tb(p, v) \in Slots \ {Pg(p, v)}
      /\ \A j \in CacheIdx : Ca(j) \in Slots \ {Pg(p, v), Tb(p, v)} /\ Ca(j)[1] \notin Procs
  BY <1>1, MissingArea, Zenon
<1>3. x = AllocInto(k, Pg(p, v), c) /\ c \in Contents
  BY <1>2, Zenon DEF Always, Contents
<1>4. /\ fl \in {{"w"}, {"cow"}, {}}
      /\ fl = {"w"} => "w" \in area[p][v].prot
      /\ fl = {} => "w" \notin area[p][v].max
  BY Zenon DEF PrivateFlags
<1>10. c = IF area[p][v].kind = "file" THEN file ELSE Zero
  OBVIOUS
<1> HIDE DEF c, x, fl
<1>5. /\ Steps(k, x, None) /\ x.flag = k.flag /\ Held(x, Pg(p, v)) /\ Sole(x, Pg(p, v))
      /\ x.mem[x.hold[Pg(p, v)]] = c
      /\ \A r \in Slots \ {Pg(p, v)} : x.hold[r] = k.hold[r]
  BY <1>1, <1>2, <1>3, AllocSteps
<1>6. Elsewhere(k, x, p, v) /\ x.hold[Tb(p, v)] = k.hold[Tb(p, v)] /\ Public(k, None)
  BY <1>2, <1>5, Zenon DEF Elsewhere, Public, Held
<1>7. Fresh(x)
  BY <1>2, <1>5 DEF Fresh, Held, Steps
<1>8. Suits(x, Pg(p, v), fl, area[p][v]) /\ cached' \in [CacheIdx -> Pages]
  BY <1>1, <1>2, <1>4, <1>5, Zenon DEF Suits, Always
<1>9. /\ CowInv' /\ Held(k', Pg(p, v))
      /\ k'.mem[k'.hold[Pg(p, v)]] = x.mem[x.hold[Pg(p, v)]]
      /\ \A q \in Procs, u \in Pages : Pg(q, u) # Pg(p, v) => Same(q, u)
  BY <1>1, <1>5, <1>6, <1>7, <1>8, InstallStep, Zenon
<1>. QED  BY <1>5, <1>9, <1>10, Zenon

(* A fault on a read-only file page that the cache does not hold fills a   *)
(* cache entry and maps its frame.                                         *)
LEMMA FaultFillStep ==
    ASSUME CowInv, NEW p \in Procs, NEW v \in Pages, FaultFill(p, v)
    PROVE  /\ CowInv' /\ Held(k', Pg(p, v)) /\ k'.mem[k'.hold[Pg(p, v)]] = file
           /\ \A q \in Procs, u \in Pages : Pg(q, u) # Pg(p, v) => Same(q, u)
<1> DEFINE i == Victim(k)
           y == Replace(k, Ca(i), file)
           x == ShareInto(y, Pg(p, v), Ca(i))
           g == y.hold[Ca(i)]
<1>1. /\ Missing(p, v) /\ CanAlloc(k) /\ CanCache(k) /\ Install(x, p, v, {"ro"})
      /\ "w" \notin area[p][v].max /\ cached' = [cached EXCEPT ![i] = v]
      /\ UNCHANGED <<area, live, file>>
  BY Zenon DEF FaultFill, Cacheable
<1>2. /\ Always /\ ~Held(k, Pg(p, v)) /\ Counted(k) /\ Fresh(k) /\ area[p][v].kind # "none"
      /\ Pg(p, v) \in Slots /\ Tb(p, v) \in Slots \ {Pg(p, v)}
      /\ \A j \in CacheIdx : Ca(j) \in Slots \ {Pg(p, v), Tb(p, v)} /\ Ca(j)[1] \notin Procs
  BY <1>1, MissingArea, Zenon
<1>3. i \in CacheIdx
  <2>1. Unshared(k) \subseteq CacheIdx /\ Empty(k) \subseteq CacheIdx /\ CacheIdx \subseteq Nat
    BY CowAssumption DEF Unshared, Empty, CacheIdx
  <2>0. LeastElements
    BY <1>2, Zenon DEF Counted, Over, FrameSizes
  <2>2. CASE Unshared(k) # {}
    BY <2>0, <2>1, <2>2, Zenon DEF LeastElements, Victim
  <2>3. CASE Unshared(k) = {}
    <3>1. Empty(k) # {}
      BY <1>1, <2>3, Zenon DEF CanCache
    <3>. QED  BY <2>0, <2>1, <2>3, <3>1, Zenon DEF LeastElements, Victim
  <2>. QED  BY <2>2, <2>3, Zenon
<1>4. /\ y = Replace(k, Ca(i), file) /\ x = ShareInto(y, Pg(p, v), Ca(i))
      /\ g = y.hold[Ca(i)] /\ file \in Contents
  BY <1>2, Zenon DEF Always, Contents
<1> HIDE DEF i, y, x, g
<1>5. /\ Steps(k, y, None) /\ y.flag = k.flag /\ Held(y, Ca(i)) /\ Sole(y, Ca(i))
      /\ y.mem[y.hold[Ca(i)]] = file
      /\ \A r \in Slots \ {Ca(i)} : y.hold[r] = k.hold[r]
  BY <1>1, <1>2, <1>3, <1>4, ReplaceSteps
<1>6. ~Held(y, Pg(p, v)) /\ Counted(y) /\ Ca(i) \in Slots /\ y.hold[Pg(p, v)] = k.hold[Pg(p, v)]
  BY <1>2, <1>3, <1>5, Zenon DEF Held, Steps
<1>7. /\ Steps(y, x, g) /\ x.flag = y.flag /\ x.mem = y.mem /\ x.hold[Pg(p, v)] = g
      /\ \A t \in Slots \ {Pg(p, v)} : x.hold[t] = y.hold[t]
  BY <1>2, <1>4, <1>5, <1>6, SoleShare, ShareSteps
<1>8. Steps(k, x, g)
  <2>1. Steps(k, y, g)
    BY <1>5, StepsJoin, Zenon
  <2>. QED  BY <1>2, <1>6, <1>7, <2>1, StepsThen, Zenon
<1>9. /\ x.flag = k.flag /\ Held(x, Pg(p, v)) /\ Elsewhere(k, x, p, v)
      /\ x.hold[Tb(p, v)] = k.hold[Tb(p, v)]
  BY <1>2, <1>3, <1>4, <1>5, <1>7, Zenon DEF Held, Elsewhere
<1>10. Public(k, g)
  <2> SUFFICES ASSUME NEW s \in Slots, s[1] \in Procs PROVE k.hold[s] # g
    BY Zenon DEF Public
  <2>1. s \in Slots \ {Ca(i)}
    BY <1>2, <1>3, Zenon
  <2>. QED  BY <1>4, <1>5, <2>1, Zenon DEF Sole
<1>11. Fresh(x)
  <2> SUFFICES ASSUME NEW j \in CacheIdx, Held(x, Ca(j)) PROVE x.mem[x.hold[Ca(j)]] = file
    BY Zenon DEF Fresh
  <2>1. x.hold[Ca(j)] = y.hold[Ca(j)] /\ x.mem[x.hold[Ca(j)]] = y.mem[y.hold[Ca(j)]]
    BY <1>2, <1>7, Zenon
  <2>2. CASE j = i
    BY <1>5, <2>1, <2>2, Zenon
  <2>3. CASE j # i
    <3>1. Ca(j) \in Slots \ {Ca(i)}
      BY <1>2, <1>3, <2>3, SlotsDiffer, Zenon
    <3>2. y.hold[Ca(j)] = k.hold[Ca(j)] /\ Held(k, Ca(j))
      BY <1>5, <2>1, <3>1, Zenon DEF Held
    <3>. QED  BY <1>2, <1>5, <2>1, <3>1, <3>2, Zenon DEF Fresh, Steps
  <2>. QED  BY <2>2, <2>3, Zenon
<1>12. Suits(x, Pg(p, v), {"ro"}, area[p][v]) /\ cached' \in [CacheIdx -> Pages]
  BY <1>1, <1>2, Zenon DEF Suits, Always
<1>13. x.mem[x.hold[Pg(p, v)]] = file
  BY <1>4, <1>5, <1>7, Zenon
<1>. QED  BY <1>1, <1>8, <1>9, <1>10, <1>11, <1>12, <1>13, InstallStep

-----------------------------------------------------------------------------
(* Where the loop stands.                                                  *)
LEMMA InLoop ==
    ASSUME CowInv, NEW op \in {"clone", "destroy", "unmap"}, loop.op = op
    PROVE  /\ Always /\ PagesInv /\ ProcsInv /\ LoopInv /\ CacheInv /\ Counted(k)
           /\ loop.p \in Procs /\ loop.q \in Procs /\ loop.todo \in SUBSET Pages
           /\ loop \in [op : {op}, p : Procs, q : Procs, todo : SUBSET Pages]
           /\ op # "clone" => loop.q = loop.p
<1>1. loop # Panic /\ loop # Idle /\ Always
  BY DEF Panic, Idle, CowInv
<1>. QED  BY <1>1, Zenon DEF CowInv, Always, LoopOK

(* One page fewer is left to do.                                           *)
LEMMA RestIs ==
    ASSUME NEW op, NEW P, NEW T, loop \in [op : {op}, p : P, q : P, todo : SUBSET T], NEW v,
           loop' = Rest(v)
    PROVE  /\ loop' \in [op : {op}, p : P, q : P, todo : SUBSET T]
           /\ loop'.op = op /\ loop'.p = loop.p /\ loop'.q = loop.q
           /\ loop'.todo = loop.todo \ {v}
  BY Zenon DEF Rest

(* One page of a loop.  Nothing changes but page v of q and its table.     *)
Apart(x, y, q, v) ==
    \A s \in Slots : s # Pg(q, v) /\ s # Tb(q, v) => y.hold[s] = x.hold[s]

(* A change at one page of one process leaves all other pages, tables,     *)
(* directories and cached pages as they are.                               *)
LEMMA ApartFacts ==
    ASSUME NEW q \in Procs, NEW v \in Pages, NEW g, Steps(k, k', g), Apart(k, k', q, v),
           UNCHANGED area
    PROVE  /\ \A r \in Procs, u \in Pages :
                 /\ Pg(r, u) # Pg(q, v) => Same(r, u) /\ k'.hold[Pg(r, u)] = k.hold[Pg(r, u)]
                 /\ Tb(r, u) # Tb(q, v) => k'.hold[Tb(r, u)] = k.hold[Tb(r, u)]
           /\ \A r \in Procs : k'.hold[Pd(r)] = k.hold[Pd(r)]
           /\ \A r \in Procs \ {q} : Gone(r) => Gone(r)'
           /\ \A i \in CacheIdx :
                 /\ k'.hold[Ca(i)] = k.hold[Ca(i)]
                 /\ Held(k, Ca(i)) => k'.mem[k'.hold[Ca(i)]] = k.mem[k.hold[Ca(i)]]
<1>1. ASSUME NEW r \in Procs, NEW u \in Pages
      PROVE  /\ Pg(r, u) # Pg(q, v) => k'.hold[Pg(r, u)] = k.hold[Pg(r, u)]
             /\ Tb(r, u) # Tb(q, v) => k'.hold[Tb(r, u)] = k.hold[Tb(r, u)]
  BY SlotNames, SlotsDiffer DEF Apart
<1>2. ASSUME NEW r \in Procs PROVE k'.hold[Pd(r)] = k.hold[Pd(r)]
  BY SlotNames, SlotsDiffer DEF Apart
<1>3. ASSUME NEW r \in Procs \ {q}, Gone(r) PROVE Gone(r)'
  <2>1. Pg(q, v)[1] = q /\ Tb(q, v)[1] = q
    BY SlotNames, Zenon
  <2>. QED  BY <1>3, <2>1, Zenon DEF Apart, Gone, Held
<1>4. ASSUME NEW i \in CacheIdx
      PROVE  /\ k'.hold[Ca(i)] = k.hold[Ca(i)]
             /\ Held(k, Ca(i)) => k'.mem[k'.hold[Ca(i)]] = k.mem[k.hold[Ca(i)]]
  <2>1. Ca(i) \in Slots /\ k'.hold[Ca(i)] = k.hold[Ca(i)]
    BY SlotNames, SlotsDiffer DEF Apart
  <2>. QED  BY <2>1, Zenon DEF Steps
<1>5. ASSUME NEW r \in Procs, NEW u \in Pages, Pg(r, u) # Pg(q, v) PROVE Same(r, u)
  BY <1>1, <1>5, SamePage, Zenon
<1>. QED  BY <1>1, <1>2, <1>3, <1>4, <1>5, Zenon
=============================================================================
