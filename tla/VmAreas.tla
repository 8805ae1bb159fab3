------------------------------ MODULE VmAreas ------------------------------
(***************************************************************************)
(* The list of VM areas of one process (process_vm_* in kernel/process.c)  *)
(* and the system calls that edit it: brk, mmap, munmap and mprotect       *)
(* (kernel/syscall_proc.c).  Addresses are counted in units; a page has    *)
(* PageSize of them, so that a file segment may begin inside a page.  The  *)
(* variable ref is a specification: what each unit of the address space    *)
(* should hold and allow, kept without any list.                           *)
(***************************************************************************)
EXTENDS Integers, Sequences, SequencesExt

CONSTANTS
    PageSize,
    CodeBase, MmapBase, InterpBase, HeapBase, StackLow, StackTop,  \* paging.h
    InitialCap, MaxAreas,     \* PROCESS_VM_AREA_INITIAL, PROCESS_VM_AREA_MAX
    FileSize, Offsets,        \* the mapped file and the offsets it is mapped at
    Image,                    \* areas of the loaded ELF image and its stack
    MaxLength                 \* longest range passed to a call

VARIABLES
    areas,    \* vm_areas[0 .. vm_area_count - 1]
    cap,      \* vm_area_capacity
    brk,      \* heap_brk
    mnext,    \* mmap_next
    ref       \* what each unit should hold

vmVars == <<areas, cap, brk, mnext, ref>>

Units == CodeBase .. StackTop - 1
VmPages == {u \in Units : u % PageSize = 0}
PageAlign(u) == ((u + PageSize - 1) \div PageSize) * PageSize

VmProts == {{"r"}, {"r", "w"}}
Zeros == -1
NoUnit == [prot |-> {}, max |-> {}, byte |-> Zeros]
FileBacked(a) == a.kind \in {"file", "elf"}

\* What process_vm_load_file_page puts at u: a byte of the file, or zero.
ByteAt(a, u) ==
    IF FileBacked(a) /\ a.fstart <= u /\ u < a.fend
    THEN a.foff + (u - a.fstart) ELSE Zeros

UnitOf(a, u) == [prot |-> a.prot, max |-> a.max, byte |-> ByteAt(a, u)]

-----------------------------------------------------------------------------
Covers(a, u) == a.start <= u /\ u < a.end
Indices(as, u) == {i \in DOMAIN as : Covers(as[i], u)}
Overlaps(a, lo, hi) == a.end > lo /\ a.start < hi
RangeFree(as, lo, hi) == \A i \in DOMAIN as : ~Overlaps(as[i], lo, hi)

(* A merge test that forgets where in the file the two areas lie.          *)
MutCompatible(a, b) ==
    /\ a.end = b.start
    /\ a.prot = b.prot /\ a.max = b.max /\ a.kind = b.kind
    /\ FileBacked(a) => a.fend = b.fstart

Compatible(a, b) ==
    /\ a.end = b.start
    /\ a.prot = b.prot /\ a.max = b.max /\ a.kind = b.kind
    /\ FileBacked(a) => /\ a.fend = b.fstart
                        /\ a.foff + (a.fend - a.fstart) = b.foff

Join(a, b) == [a EXCEPT !.end = b.end, !.fend = b.fend]

(* process_vm_merge: an area swallows its successors while they fit.       *)
Merge(as) ==
    FoldLeft(LAMBDA out, a :
                IF out # <<>> /\ Compatible(Last(out), a)
                THEN Front(out) \o <<Join(Last(out), a)>> ELSE Append(out, a),
             <<>>, as)

(* process_vm_ensure_capacity doubles the array; alloc says whether        *)
(* kcalloc finds memory for it.                                            *)
Capacity(c, needed) ==
    IF needed <= c THEN c
    ELSE IF needed <= 2 * c /\ 2 * c <= MaxAreas THEN 2 * c ELSE MaxAreas

CanHold(c, needed, alloc) == needed <= c \/ (needed <= MaxAreas /\ alloc)

(* process_vm_insert_area keeps the list ordered by address.               *)
Insert(as, a) ==
    LET before == SelectSeq(as, LAMBDA b : b.start < a.start)
    IN  before \o <<a>> \o SubSeq(as, Len(before) + 1, Len(as))

SplitNeeded(as, u) == \E i \in Indices(as, u) : as[i].start # u

(* The right half of a split area.  Its file offset moves by the distance  *)
(* from the start of the area.                                             *)
RightPart(a, u) ==
    IF ~FileBacked(a) THEN [a EXCEPT !.start = u]
    ELSE IF a.fstart < u /\ a.fend > u
    THEN [a EXCEPT !.start = u, !.foff = @ + (u - a.start), !.fstart = u]
    ELSE IF a.fend <= u THEN [a EXCEPT !.start = u, !.fstart = u, !.fend = u]
    ELSE [a EXCEPT !.start = u]

LeftPart(a, u) ==
    [a EXCEPT !.end = u, !.fend = IF FileBacked(a) /\ @ > u THEN u ELSE @]

(* process_vm_split_at.                                                    *)
SplitAt(as, u) ==
    IF ~SplitNeeded(as, u) THEN as
    ELSE LET i == CHOOSE i \in Indices(as, u) : TRUE
         IN  SubSeq(as, 1, i - 1) \o <<LeftPart(as[i], u), RightPart(as[i], u)>>
             \o SubSeq(as, i + 1, Len(as))

SplitBoth(as, lo, hi) == SplitAt(SplitAt(as, lo), hi)

Inside(a, lo, hi) == a.start >= lo /\ a.end <= hi

RemoveRange(as, lo, hi) ==
    Merge(SelectSeq(SplitBoth(as, lo, hi), LAMBDA a : ~Inside(a, lo, hi)))

Protect(as, lo, hi, prot) ==
    LET s == SplitBoth(as, lo, hi)
    IN  Merge([i \in DOMAIN s |->
                 IF Overlaps(s[i], lo, hi) THEN [s[i] EXCEPT !.prot = prot] ELSE s[i]])

\* The list length the two splits may reach, checked before either is done.
Needed(as, lo, hi) ==
    Len(as) + (IF SplitNeeded(as, lo) THEN 1 ELSE 0)
            + (IF SplitNeeded(as, hi) THEN 1 ELSE 0)

-----------------------------------------------------------------------------
RefOf(as) == [u \in Units |-> IF Indices(as, u) = {} THEN NoUnit
                              ELSE UnitOf(as[CHOOSE i \in Indices(as, u) : TRUE], u)]

RefSet(lo, hi, unit(_)) ==
    ref' = [u \in Units |-> IF lo <= u /\ u < hi THEN unit(u) ELSE ref[u]]

VmInit ==
    /\ areas = Image
    /\ cap = InitialCap
    /\ brk = HeapBase
    /\ mnext = MmapBase
    /\ ref = RefOf(Image)

(* process_vm_add: the range must be free; a failure changes nothing but   *)
(* may come after the array was grown.                                     *)
Add(a, alloc) ==
    /\ RangeFree(areas, a.start, a.end)
    /\ CanHold(cap, Len(areas) + 1, alloc)
    /\ cap' = Capacity(cap, Len(areas) + 1)
    /\ areas' = Merge(Insert(areas, a))
    /\ RefSet(a.start, a.end, LAMBDA u : UnitOf(a, u))

Area(lo, hi, prot, max, kind, fstart, fend, foff) ==
    [start |-> lo, end |-> hi, prot |-> prot, max |-> max, kind |-> kind,
     fstart |-> fstart, fend |-> fend, foff |-> foff]

HeapArea(lo, hi) == Area(lo, hi, {"r", "w"}, {"r", "w"}, "heap", 0, 0, 0)

AnonArea(lo, hi, prot) == Area(lo, hi, prot, {"r", "w"}, "anon", 0, 0, 0)

FileArea(lo, hi, prot, off) ==
    LET bytes == IF FileSize - off > hi - lo THEN hi - lo ELSE FileSize - off
    IN  Area(lo, hi, prot, prot, "file", lo, lo + bytes, off)

(* sys_brk_impl, growing.                                                  *)
BrkGrow(new, alloc) ==
    /\ new > brk /\ new < StackLow
    /\ LET lo == PageAlign(brk)
           hi == PageAlign(new)
       IN  IF lo < hi THEN Add(HeapArea(lo, hi), alloc)
                      ELSE UNCHANGED <<areas, cap, ref>>
    /\ brk' = new
    /\ UNCHANGED mnext

(* sys_brk_impl, shrinking: process_vm_remove_range without the capacity   *)
(* check of its errno variant.                                             *)
BrkShrink(new, alloc) ==
    /\ new >= HeapBase /\ new < brk
    /\ LET lo == PageAlign(new)
           hi == PageAlign(brk)
           mid == SplitAt(areas, lo)
       IN  IF lo < hi
           THEN IF /\ CanHold(cap, Len(mid), alloc)
                   /\ CanHold(Capacity(cap, Len(mid)), Len(SplitAt(mid, hi)), alloc)
                THEN /\ areas' = RemoveRange(areas, lo, hi)
                     /\ cap' = Capacity(cap, Len(SplitAt(mid, hi)))
                     /\ RefSet(lo, hi, LAMBDA u : NoUnit)
                     /\ brk' = new
                ELSE /\ areas' = IF CanHold(cap, Len(mid), alloc) THEN mid ELSE areas
                     /\ cap' = IF CanHold(cap, Len(mid), alloc)
                               THEN Capacity(cap, Len(mid)) ELSE cap
                     /\ UNCHANGED <<brk, ref>>
           ELSE brk' = new /\ UNCHANGED <<areas, cap, ref>>
    /\ UNCHANGED mnext

(* sys_mmap_pick_start: a fixed address as given, otherwise upwards from   *)
(* mmap_next in strides of the mapping's size.                             *)
PickStart(len) ==
    LET ok == {n \in 0 .. (InterpBase - MmapBase) \div PageSize :
                 LET s == PageAlign(mnext) + n * len
                 IN  s + len > InterpBase \/ RangeFree(areas, s, s + len)}
    IN  PageAlign(mnext) + len * (CHOOSE n \in ok : \A m \in ok : n <= m)

SysMmap(start, len, fixed) ==
    /\ start >= MmapBase /\ start + len <= InterpBase
    /\ fixed \/ start = PickStart(len)
    /\ mnext' = IF ~fixed \/ start + len > mnext THEN start + len ELSE mnext
    /\ UNCHANGED brk

(* sys_mmap_anon_impl.                                                     *)
MmapAnon(start, len, fixed, prot, alloc) ==
    /\ SysMmap(start, len, fixed)
    /\ Add(AnonArea(start, start + len, prot), alloc)

(* sys_mmap_file_impl.                                                     *)
MmapFile(start, len, fixed, prot, off, alloc) ==
    /\ SysMmap(start, len, fixed)
    /\ Add(FileArea(start, start + len, prot, off), alloc)

\* user_vm_range_ok, of a page-aligned range.
InUserSpace(lo, hi) == CodeBase <= lo /\ hi <= StackTop

(* sys_munmap_impl.                                                        *)
SysMunmap(lo, hi, alloc) ==
    /\ InUserSpace(lo, hi)
    /\ CanHold(cap, Needed(areas, lo, hi), alloc)
    /\ cap' = Capacity(cap, Needed(areas, lo, hi))
    /\ areas' = RemoveRange(areas, lo, hi)
    /\ RefSet(lo, hi, LAMBDA u : NoUnit)
    /\ UNCHANGED <<brk, mnext>>

\* The range is covered, and no area in it forbids prot.
Allowed(lo, hi, prot) ==
    /\ \A u \in lo .. hi - 1 : Indices(areas, u) # {}
    /\ \A i \in DOMAIN areas : Overlaps(areas[i], lo, hi) => prot \subseteq areas[i].max

(* sys_mprotect_impl.                                                      *)
SysMprotect(lo, hi, prot, alloc) ==
    /\ InUserSpace(lo, hi)
    /\ Allowed(lo, hi, prot)
    /\ CanHold(cap, Needed(areas, lo, hi), alloc)
    /\ cap' = Capacity(cap, Needed(areas, lo, hi))
    /\ areas' = Protect(areas, lo, hi, prot)
    /\ RefSet(lo, hi, LAMBDA u : [ref[u] EXCEPT !.prot = prot])
    /\ UNCHANGED <<brk, mnext>>

Lengths == {n * PageSize : n \in 1 .. MaxLength}

VmNext ==
    \E alloc \in BOOLEAN :
       \/ \E new \in HeapBase .. StackLow - 1 : BrkGrow(new, alloc)
       \/ \E new \in HeapBase .. StackLow - 1 : BrkShrink(new, alloc)
       \/ \E lo \in VmPages, len \in Lengths : SysMunmap(lo, lo + len, alloc)
       \/ \E lo \in VmPages, len \in Lengths, prot \in VmProts : SysMprotect(lo, lo + len, prot, alloc)
       \/ \E lo \in VmPages, len \in Lengths, fixed \in BOOLEAN, prot \in VmProts :
             MmapAnon(lo, len, fixed, prot, alloc)
       \/ \E lo \in VmPages, len \in Lengths, fixed \in BOOLEAN, prot \in VmProts, off \in Offsets :
             MmapFile(lo, len, fixed, prot, off, alloc)

VmSpec == VmInit /\ [][VmNext]_vmVars

-----------------------------------------------------------------------------
VmTypeOK ==
    /\ \A i \in DOMAIN areas : /\ areas[i].start \in VmPages
                               /\ areas[i].end % PageSize = 0
                               /\ areas[i].prot \in VmProts
    /\ cap \in InitialCap .. MaxAreas
    /\ brk \in HeapBase .. StackLow - 1
    /\ mnext \in MmapBase .. InterpBase

(* The list stays ordered, without overlaps and within its array, which is *)
(* what the first match of process_vm_find_index and the shifting of       *)
(* insert and split rely on.                                               *)
AreasOrdered ==
    /\ \A i \in DOMAIN areas : areas[i].start < areas[i].end
    /\ \A i \in 1 .. Len(areas) - 1 : areas[i].end <= areas[i + 1].start
    /\ Len(areas) <= cap

(* Any sequence of brk, mmap, munmap and mprotect leaves every page with   *)
(* the protection, the limit and the file bytes it should have: "the       *)
(* remaining pages keep their contents and permissions"                    *)
(* (docs/syscalls.md, SYS_MUNMAP).                                         *)
PagesKeepContents == RefOf(areas) = ref

(* Nothing above the break is heap.                                        *)
HeapBelowBreak ==
    \A i \in DOMAIN areas : areas[i].kind = "heap" => areas[i].end <= PageAlign(brk)

(* The areas are ordered and apart, every unit keeps the contents and      *)
(* rights it was given, and the heap ends at the break.                    *)
AreasSound == VmTypeOK /\ AreasOrdered /\ PagesKeepContents /\ HeapBelowBreak
=============================================================================
