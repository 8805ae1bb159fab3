-------------------------------- MODULE Cow --------------------------------
(***************************************************************************)
(* Demand paging and copy-on-write (kernel/paging.c, the fault path of     *)
(* kernel/process.c and the read-only page cache of kernel/vfs.c).         *)
(*                                                                         *)
(* Page faults and system calls enter through interrupt gates, so each of  *)
(* them runs alone.  The ones that loop over pages (fork, exit, munmap,    *)
(* cache invalidation) are split into one step per page, and the loop      *)
(* variable keeps every other action out until the loop is done.  The      *)
(* list of areas is kept per page; VmAreas is about the list itself.       *)
(***************************************************************************)
EXTENDS PmmOps

(***************************************************************************)
(* Page tables and the read-only file page cache as holders of physical    *)
(* frames (paging.c, vfs.c).  A slot is a place that holds a reference to  *)
(* at most one frame: a page table entry, a page table, a page directory   *)
(* or an entry of s_ro_map_cache.  The operators work on a record k:       *)
(*   pm    the frame allocator (PmmOps),                                   *)
(*   hold  the frame each slot holds, or None,                             *)
(*   flag  the flags of each page table entry: "w" PAGE_WRITE, "cow"       *)
(*         PAGE_COW, "ro" PAGE_SHARED_RO_FILE,                             *)
(*   mem   the contents of each frame, one value per page.                 *)
(***************************************************************************)

CONSTANTS
    Procs,       \* processes that may have an address space
    NumPages,    \* user pages of an address space
    PerTable,    \* pages covered by one page table
    NumCache,    \* VFS_RO_MAP_CACHE_PAGES
    Zero,        \* contents of a cleared frame
    Files        \* contents a page of a file may have

ASSUME CowAssumption ==
    /\ NumPages \in Nat \ {0} /\ PerTable \in Nat \ {0} /\ NumCache \in Nat
    /\ IsFiniteSet(Procs) /\ "cache" \notin Procs /\ MaxRef >= 2

Pages == 0..(NumPages - 1)
Tables == {v \div PerTable : v \in Pages}
CacheIdx == 1..NumCache

\* A page holds zeros, what a file held, or what a process stored in it; a
\* process writes its own name, so that contents tell who wrote them.
Contents == Procs \cup Files \cup {Zero}

\* The names View gives to a page without contents are not contents.
ASSUME ViewAssumption == {"gone", "unmapped", "untouched"} \cap Contents = {}

Pg(p, v) == <<p, "page", v>>
Tb(p, v) == <<p, "table", v \div PerTable>>
Pd(p) == <<p, "pd", 0>>
Ca(i) == <<"cache", "slot", i>>

PageSlots == Procs \X {"page"} \X Pages
Slots == UNION {PageSlots,
                Procs \X {"table"} \X Tables,
                Procs \X {"pd"} \X {0},
                {"cache"} \X {"slot"} \X CacheIdx}

Flags == SUBSET {"w", "cow", "ro"}

KStates == [pm : PmmStates, hold : [Slots -> Frames \cup {None}],
            flag : [PageSlots -> Flags], mem : [Frames -> Contents]]

Holders(k, f) == {s \in Slots : k.hold[s] = f}
Held(k, s) == k.hold[s] # None
Refs(k, s) == k.pm.refcount[k.hold[s]]

-----------------------------------------------------------------------------
(* The three ways a slot changes: it gets a fresh frame with contents x,   *)
(* shares the frame of another slot, or gives its frame back.              *)
CanAlloc(k) == alloc_result(k.pm) # None

AllocInto(k, s, x) ==
    LET f == alloc_result(k.pm)
    IN  [pm |-> pmm_alloc_frame(k.pm), hold |-> [k.hold EXCEPT ![s] = f],
         flag |-> k.flag, mem |-> [k.mem EXCEPT ![f] = x]]

CanShare(k, r) == retain_ok(k.pm, k.hold[r])

ShareInto(k, s, r) ==
    [pm |-> pmm_retain_frame(k.pm, k.hold[r]),
     hold |-> [k.hold EXCEPT ![s] = k.hold[r]], flag |-> k.flag, mem |-> k.mem]

\* A frame nobody holds any more forgets its contents: the next owner
\* clears or overwrites it before use.
DropRef(k, f) ==
    [pm |-> pmm_release_frame(k.pm, f), hold |-> k.hold, flag |-> k.flag,
     mem |-> [k.mem EXCEPT ![f] = IF k.pm.refcount[f] = 1 THEN Zero ELSE @]]

Drop(k, s) == [DropRef(k, k.hold[s]) EXCEPT !.hold[s] = None]

\* Take a fresh frame first, then give the old one back.
Replace(k, s, x) ==
    IF Held(k, s) THEN DropRef(AllocInto(k, s, x), k.hold[s])
                  ELSE AllocInto(k, s, x)

SetFlags(k, p, v, fl) == [k EXCEPT !.flag[Pg(p, v)] = fl]

-----------------------------------------------------------------------------
(* paging_map_page allocates the page table of v when it is missing, and   *)
(* panics when that fails.                                                 *)
NeedsTable(k, p, v) == ~Held(k, Tb(p, v))
Panics(k, p, v) == NeedsTable(k, p, v) /\ ~CanAlloc(k)

MapPage(k, p, v, fl) ==
    SetFlags(IF NeedsTable(k, p, v) THEN AllocInto(k, Tb(p, v), Zero) ELSE k,
             p, v, fl)

TableEmpty(k, p, v) ==
    \A u \in Pages : u \div PerTable = v \div PerTable => ~Held(k, Pg(p, u))

(* paging_unmap_user_page: release the frame, clear the entry, and release *)
(* the page table when it was the last one.                                *)
UnmapPage(k, p, v) ==
    IF ~Held(k, Pg(p, v)) THEN k
    ELSE LET k1 == SetFlags(Drop(k, Pg(p, v)), p, v, {})
         IN  IF TableEmpty(k1, p, v) THEN Drop(k1, Tb(p, v)) ELSE k1

LastOfTable(v) == v = NumPages - 1 \/ (v + 1) % PerTable = 0

(* One page table entry of process_pd_destroy; after the last entry of a   *)
(* page table the table itself is freed.                                   *)
DestroyPage(k, p, v) ==
    LET k1 == IF Held(k, Pg(p, v)) THEN SetFlags(Drop(k, Pg(p, v)), p, v, {})
                                   ELSE k
    IN  IF LastOfTable(v) /\ Held(k1, Tb(p, v)) THEN Drop(k1, Tb(p, v)) ELSE k1

-----------------------------------------------------------------------------
(* One page of process_pd_clone_user: both entries lose PAGE_WRITE; they   *)
(* become copy-on-write when the page is writable or may become so.        *)
ClonePage(k, p, q, v, maywrite) ==
    LET fl == k.flag[Pg(p, v)]
        cow == "ro" \notin fl /\ ("cow" \in fl \/ "w" \in fl \/ maywrite)
        shared == IF cow THEN (fl \ {"w"}) \cup {"cow"} ELSE fl \ {"w"}
        k1 == ShareInto(k, Pg(q, v), Pg(p, v))
        k2 == IF cow THEN SetFlags(k1, p, v, shared) ELSE k1
    IN  MapPage(k2, q, v, shared)

(* paging_resolve_cow_fault: the last holder takes the frame over, any     *)
(* other copies it.                                                        *)
ResolveCow(k, p, v) ==
    LET s == Pg(p, v)
        k1 == IF Refs(k, s) <= 1 THEN k ELSE Replace(k, s, k.mem[k.hold[s]])
    IN  SetFlags(k1, p, v, (k.flag[s] \cup {"w"}) \ {"cow", "ro"})

CanResolve(k, p, v) == Refs(k, Pg(p, v)) <= 1 \/ CanAlloc(k)

-----------------------------------------------------------------------------
(* vfs_ro_map_victim: the first entry whose page nobody maps, or the first *)
(* empty one.                                                              *)
Unshared(k) == {i \in CacheIdx : Held(k, Ca(i)) /\ Refs(k, Ca(i)) <= 1}
Empty(k) == {i \in CacheIdx : ~Held(k, Ca(i))}
CanCache(k) == Unshared(k) \cup Empty(k) # {}
Victim(k) == IF Unshared(k) # {} THEN Min(Unshared(k)) ELSE Min(Empty(k))

-----------------------------------------------------------------------------

CONSTANTS
    Roots,      \* processes that are started from an image, not by fork
    ProtArgs,   \* protections passed to mprotect
    MapArgs     \* pages, kind and protection of the mappings that are made

VARIABLES
    k,        \* frames, page tables and cache (above)
    area,     \* the area of each page of each process, or NoArea
    live,     \* processes with an address space
    loop,     \* the loop over pages being executed
    cached,   \* the file page each cache entry holds
    file      \* the contents of the mapped file

cowVars == <<k, area, live, loop, cached, file>>

Prots == SUBSET {"r", "w"}
NoArea == [prot |-> {}, max |-> {}, kind |-> "none"]
Areas == [prot : Prots, max : Prots, kind : {"none", "anon", "file"}]

ASSUME CowArgsAssumption ==
    /\ Roots \subseteq Procs /\ ProtArgs \subseteq Prots
    /\ MapArgs \subseteq (SUBSET Pages) \X {"anon", "file"} \X Prots

Idle == [op |-> "idle", p |-> "-", q |-> "-", todo |-> {}]
Loop(op, p, q, todo) == [op |-> op, p |-> p, q |-> q, todo |-> todo]
Panic == [op |-> "panic", p |-> "-", q |-> "-", todo |-> {}]

\* After boot every managed frame is free and no slot holds one.
Booted == [pm   |-> pmm_init({<<PmmBase, MaxPhys>>}, {}),
           hold |-> [s \in Slots |-> None],
           flag |-> [s \in PageSlots |-> {}],
           mem  |-> [f \in Frames |-> Zero]]

CowInit ==
    /\ k = Booted
    /\ area = [p \in Procs |-> [v \in Pages |-> NoArea]]
    /\ live = {}
    /\ loop = Idle
    /\ cached = [i \in CacheIdx |-> 0]
    /\ file \in Files

At(p) == loop = Idle /\ p \in live

-----------------------------------------------------------------------------
(* A process image is started: process_pd_create, which panics without a   *)
(* frame.                                                                  *)
Spawn(p) ==
    /\ loop = Idle /\ p \notin live
    /\ CanAlloc(k)
    /\ k' = AllocInto(k, Pd(p), Zero)
    /\ live' = live \cup {p}
    /\ UNCHANGED <<area, loop, cached, file>>

(* mmap_anon, mmap_file: the area only; no page is mapped yet.  A file     *)
(* mapping that is writable now may also be read.                          *)
MaxProt(kind, prot) ==
    IF kind = "anon" THEN {"r", "w"}
    ELSE prot \cup (IF "w" \in prot THEN {"r"} ELSE {})

Mmap(p, vs, kind, prot) ==
    /\ At(p)
    /\ \A v \in vs : area[p][v] = NoArea
    /\ area' = [area EXCEPT ![p] = [v \in Pages |->
                  IF v \in vs THEN [prot |-> prot, max |-> MaxProt(kind, prot),
                                    kind |-> kind]
                  ELSE @[v]]]
    /\ UNCHANGED <<k, live, loop, cached, file>>

(* process_vm_remove_range: drop the areas, then unmap page by page.       *)
Munmap(p, vs) ==
    /\ At(p)
    /\ area' = [area EXCEPT ![p] =
                  [v \in Pages |-> IF v \in vs THEN NoArea ELSE @[v]]]
    /\ loop' = Loop("unmap", p, p, vs)
    /\ UNCHANGED <<k, live, cached, file>>

(* A protection change that never gives write permission back.             *)
MutProtectNeverSets(fl, prot) == IF "w" \notin prot THEN fl \ {"w"} ELSE fl

(* process_vm_protect on one present page.                                 *)
ProtectFlags(fl, prot) ==
    IF "w" \notin prot THEN fl \ {"w"}
    ELSE IF "cow" \in fl \/ "ro" \in fl THEN fl ELSE fl \cup {"w"}

Mprotect(p, vs, prot) ==
    /\ At(p)
    /\ \A v \in vs : area[p][v] # NoArea /\ prot \subseteq area[p][v].max
    /\ area' = [area EXCEPT ![p] =
                  [v \in Pages |-> IF v \in vs THEN [@[v] EXCEPT !.prot = prot]
                                               ELSE @[v]]]
    /\ k' = [k EXCEPT !.flag = [s \in PageSlots |->
                IF s[1] = p /\ s[3] \in vs /\ Held(k, s)
                THEN ProtectFlags(k.flag[s], prot) ELSE k.flag[s]]]
    /\ UNCHANGED <<live, loop, cached, file>>

-----------------------------------------------------------------------------
(* The program stores through a writable page table entry.                 *)
Store(p, v) ==
    /\ At(p)
    /\ Held(k, Pg(p, v)) /\ "w" \in k.flag[Pg(p, v)]
    /\ k' = [k EXCEPT !.mem[k.hold[Pg(p, v)]] = p]
    /\ UNCHANGED <<area, live, loop, cached, file>>

(* A write fault on a present page: process_vm_handle_fault resolves a     *)
(* copy-on-write entry of a writable area and fails on anything else.      *)
WriteFault(p, v) ==
    /\ At(p)
    /\ "w" \in area[p][v].prot
    /\ Held(k, Pg(p, v)) /\ "cow" \in k.flag[Pg(p, v)]
    /\ "w" \notin k.flag[Pg(p, v)]
    /\ CanResolve(k, p, v)
    /\ k' = ResolveCow(k, p, v)
    /\ UNCHANGED <<area, live, loop, cached, file>>

(* A fault on a page that is not mapped yet.                               *)
Missing(p, v) == At(p) /\ area[p][v].prot # {} /\ ~Held(k, Pg(p, v))

Cacheable(a) == a.kind = "file" /\ "w" \notin a.max /\ "w" \notin a.prot

InCache(v) == {i \in CacheIdx : Held(k, Ca(i)) /\ cached[i] = v}

(* paging_map_page ends in a panic when it finds no frame for the table.   *)
Install(k1, p, v, fl) ==
    IF Panics(k1, p, v)
    THEN loop' = Panic /\ k' = k1
    ELSE loop' = loop /\ k' = MapPage(k1, p, v, fl)

(* vfs_file_map_ro_page_path finds the page in the cache...                *)
FaultCached(p, v) ==
    /\ Missing(p, v) /\ Cacheable(area[p][v])
    /\ \E i \in InCache(v) :
          /\ CanShare(k, Ca(i))
          /\ Install(ShareInto(k, Pg(p, v), Ca(i)), p, v, {"ro"})
    /\ UNCHANGED <<area, live, cached, file>>

(* ... or reads it into a fresh frame and enters it in the cache.          *)
FaultFill(p, v) ==
    /\ Missing(p, v) /\ Cacheable(area[p][v])
    /\ InCache(v) = {} /\ CanAlloc(k) /\ CanCache(k)
    /\ LET i == Victim(k)
           k1 == Replace(k, Ca(i), file)
       IN  /\ cached' = [cached EXCEPT ![i] = v]
           /\ Install(ShareInto(k1, Pg(p, v), Ca(i)), p, v, {"ro"})
    /\ UNCHANGED <<area, live, file>>

(* Otherwise the page gets a frame of its own, zeroed or read from the     *)
(* file.                                                                   *)
PrivateFlags(a) ==
    IF "w" \in a.prot THEN {"w"} ELSE IF "w" \in a.max THEN {"cow"} ELSE {}

(* The frame is cleared after the file page has been read into it.         *)
MutFaultPrivate(p, v) ==
    /\ Missing(p, v) /\ ~Cacheable(area[p][v]) /\ CanAlloc(k)
    /\ Install(AllocInto(k, Pg(p, v), Zero), p, v, PrivateFlags(area[p][v]))
    /\ UNCHANGED <<area, live, cached, file>>

FaultPrivate(p, v) ==
    LET a == area[p][v]
    IN  /\ Missing(p, v)
        /\ Cacheable(a) => \/ \E i \in InCache(v) : ~CanShare(k, Ca(i))
                           \/ InCache(v) = {} /\ ~CanCache(k)
        /\ CanAlloc(k)
        /\ Install(AllocInto(k, Pg(p, v), IF a.kind = "file" THEN file ELSE Zero),
                   p, v, PrivateFlags(a))
        /\ UNCHANGED <<area, live, cached, file>>

-----------------------------------------------------------------------------
(* process_fork_from_syscall: clone the areas, create a page directory,    *)
(* then share page by page.  The child runs once every page is shared.     *)
Fork(p, q) ==
    /\ At(p) /\ q \notin live
    /\ CanAlloc(k)
    /\ k' = AllocInto(k, Pd(q), Zero)
    /\ area' = [area EXCEPT ![q] = area[p]]
    /\ loop' = Loop("clone", p, q, Pages)
    /\ UNCHANGED <<live, cached, file>>

(* The page or cache entry the loop looks at next.                         *)
Cursor(op, v) == loop.op = op /\ v \in loop.todo /\ \A u \in loop.todo : v <= u
Rest(v) == [loop EXCEPT !.todo = @ \ {v}]

MayWrite(p, v) == "w" \in area[p][v].max

CloneStep(v) ==
    /\ Cursor("clone", v)
    /\ LET p == loop.p
           q == loop.q
       IN  IF ~Held(k, Pg(p, v)) THEN loop' = Rest(v) /\ UNCHANGED k
           ELSE IF ~CanShare(k, Pg(p, v))
           THEN loop' = Loop("destroy", q, q, Pages) /\ UNCHANGED k
           ELSE IF Panics(k, q, v) THEN loop' = Panic /\ UNCHANGED k
           ELSE loop' = Rest(v) /\ k' = ClonePage(k, p, q, v, MayWrite(p, v))
    /\ UNCHANGED <<area, live, cached, file>>

CloneDone ==
    /\ loop.op = "clone" /\ loop.todo = {}
    /\ live' = live \cup {loop.q}
    /\ loop' = Idle
    /\ UNCHANGED <<k, area, cached, file>>

(* process_release_exit_resources, at exit or when a fault cannot be       *)
(* resolved: process_pd_destroy page by page, then process_vm_free.        *)
Exit(p) ==
    /\ At(p)
    /\ live' = live \ {p}
    /\ loop' = Loop("destroy", p, p, Pages)
    /\ UNCHANGED <<k, area, cached, file>>

DestroyStep(v) ==
    /\ Cursor("destroy", v)
    /\ k' = DestroyPage(k, loop.p, v)
    /\ loop' = Rest(v)
    /\ UNCHANGED <<area, live, cached, file>>

DestroyDone ==
    /\ loop.op = "destroy" /\ loop.todo = {}
    /\ k' = Drop(k, Pd(loop.p))
    /\ area' = [area EXCEPT ![loop.p] = [v \in Pages |-> NoArea]]
    /\ loop' = Idle
    /\ UNCHANGED <<live, cached, file>>

UnmapStep(v) ==
    /\ Cursor("unmap", v)
    /\ k' = UnmapPage(k, loop.p, v)
    /\ loop' = Rest(v)
    /\ UNCHANGED <<area, live, cached, file>>

(* The file is written through the VFS: every path that writes it calls    *)
(* vfs_ro_map_invalidate_path, which drops the file's cache entries.       *)
FileWrite(x) ==
    /\ loop = Idle /\ x # file
    /\ file' = x
    /\ loop' = Loop("invalidate", "-", "-", CacheIdx)
    /\ UNCHANGED <<k, area, live, cached>>

InvalidateStep(i) ==
    /\ Cursor("invalidate", i)
    /\ k' = IF Held(k, Ca(i)) THEN Drop(k, Ca(i)) ELSE k
    /\ cached' = [cached EXCEPT ![i] = 0]
    /\ loop' = Rest(i)
    /\ UNCHANGED <<area, live, file>>

RangeDone ==
    /\ loop.op \in {"unmap", "invalidate"} /\ loop.todo = {}
    /\ loop' = Idle
    /\ UNCHANGED <<k, area, live, cached, file>>

IsRange(vs) == vs # {} /\ \A u, w \in vs : \A v \in Pages : u <= v /\ v <= w => v \in vs

CowNext ==
    \/ \E p \in Roots : Spawn(p)
    \/ \E p \in Procs : Exit(p) \/ \E m \in MapArgs : Mmap(p, m[1], m[2], m[3])
    \/ \E p \in Procs, vs \in {vs \in SUBSET Pages : IsRange(vs)} :
          \/ Munmap(p, vs)
          \/ \E prot \in ProtArgs : Mprotect(p, vs, prot)
    \/ \E p \in Procs, v \in Pages :
          \/ Store(p, v) \/ WriteFault(p, v)
          \/ FaultCached(p, v) \/ FaultFill(p, v) \/ FaultPrivate(p, v)
    \/ \E p, q \in Procs : Fork(p, q)
    \/ \E v \in Pages : CloneStep(v) \/ DestroyStep(v) \/ UnmapStep(v)
    \/ CloneDone \/ DestroyDone \/ RangeDone
    \/ \E x \in Files : FileWrite(x)
    \/ \E i \in CacheIdx : InvalidateStep(i)

CowSpec == CowInit /\ [][CowNext]_cowVars

-----------------------------------------------------------------------------
CowTypeOK ==
    /\ k \in KStates
    /\ area \in [Procs -> [Pages -> Areas]]
    /\ live \subseteq Procs
    /\ loop.todo \subseteq Pages \cup CacheIdx
    /\ cached \in [CacheIdx -> Pages]
    /\ file \in Files

(* Every frame's reference count is the number of page table entries, page *)
(* tables, page directories and cache entries that hold it, at every step  *)
(* of every loop: no frame is freed under a holder and none is leaked.     *)
RefExact == \A f \in Frames : k.pm.refcount[f] = Cardinality(Holders(k, f))

(* A frame that some page table entry can write through has that entry as  *)
(* its only holder (fork, the fault path and mprotect together).           *)
WritablePrivate ==
    \A s \in PageSlots : Held(k, s) /\ "w" \in k.flag[s] => Holders(k, k.hold[s]) = {s}

(* A page table entry never allows a write that the area forbids, and      *)
(* never outlives its area.                                                *)
NoExcessRights ==
    loop = Idle => \A p \in Procs, v \in Pages :
        Held(k, Pg(p, v)) => /\ area[p][v] # NoArea
                             /\ "w" \in k.flag[Pg(p, v)] => "w" \in area[p][v].prot

(* A store the area allows is never refused for good: a present entry of a *)
(* writable area is writable or copy-on-write, whatever mprotect and fork  *)
(* did before, so process_vm_handle_fault can resolve it.                  *)
WriteResolvable ==
    \A p \in live, v \in Pages :
        loop = Idle /\ Held(k, Pg(p, v)) /\ "w" \in area[p][v].prot
            => k.flag[Pg(p, v)] \cap {"w", "cow"} # {}

(* An entry of the read-only page cache holds what the file holds now.     *)
CacheFresh ==
    loop = Idle => \A i \in CacheIdx : Held(k, Ca(i)) => k.mem[k.hold[Ca(i)]] = file

(* process_pd_destroy leaves nothing behind: a process that is gone holds  *)
(* no page, no page table and no page directory.                           *)
DeadHoldNothing ==
    loop = Idle => \A s \in Slots : s[1] \in Procs \ live => ~Held(k, s)

(* Reference counts are exact at every step of every loop; what can be     *)
(* written is private and allowed; a permitted store can be resolved; the  *)
(* cache is fresh and the dead hold nothing.                               *)
SpacesSound ==
    /\ CowTypeOK /\ RefExact /\ WritablePrivate /\ NoExcessRights
    /\ WriteResolvable /\ CacheFresh /\ DeadHoldNothing

-----------------------------------------------------------------------------
(* What the programs see.                                                  *)
View(p, v) ==
    IF p \notin live THEN "gone"
    ELSE IF area[p][v] = NoArea THEN "unmapped"
    ELSE IF Held(k, Pg(p, v)) THEN k.mem[k.hold[Pg(p, v)]]
    ELSE IF area[p][v].kind = "file" THEN "untouched" ELSE Zero

Memory == INSTANCE PrivateMemory
    WITH view <- [p \in Procs |-> [v \in Pages |-> View(p, v)]],
         Contents <- Contents,
         Unmapped <- "unmapped", Untouched <- "untouched", Gone <- "gone"

(* Every process has memory of its own: sharing frames across fork and in  *)
(* the page cache, and splitting them on the first write, never shows.     *)
PrivatePages == Memory!Spec
=============================================================================
