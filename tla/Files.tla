-------------------------------- MODULE Files -------------------------------
(***************************************************************************)
(* Open files: vfs.c's file objects, which keep a small file's contents in *)
(* a cache and write it back by path name, under the calls of              *)
(* syscall_fs.c, made by several processes.  The disk below is what        *)
(* FileTree promises: names, and contents per inode; a unit of content is  *)
(* a page.  A system call runs with interrupts off, so each is one step.   *)
(*                                                                         *)
(* ghost.want holds, per inode, the contents it would have if every        *)
(* successful call had changed the inode it opened; an inode is in         *)
(* ghost.mixed once two objects of which one is writable have been open on *)
(* it at once, it was renamed, removed or rewritten by path while open, or *)
(* a write to the disk itself failed midway.                               *)
(***************************************************************************)
EXTENDS Integers, Sequences, FiniteSets, FiniteSetsExt, SequencesExt

CONSTANTS
    Names,      \* paths
    LinkTo,     \* the symbolic links among them: a function to their targets
    Inos, Procs, Fds, Objs,
    CacheMax,   \* PROCESS_FD_CACHE_PAGES
    Sizes,      \* lengths of reads and writes, new sizes
    Jobs,       \* [calls, names, modes, most]; a behaviour keeps to one job
    Faults,     \* what may fail, "before", "within" or "memory"
    MaxFaults

VARIABLES
    disk,       \* [ino: Names -> Inos or 0, data: Inos -> pages, ok]
    obj,        \* the file objects; refs = 0: free
    fd,         \* [Procs -> [Fds -> an object or 0]]
    ghost,
    res,        \* the last call and what it returned
    calls, faults, job

vars == <<disk, obj, fd, ghost, res, calls, faults, job>>

NoCache == <<>>
FreeObj == [refs |-> 0, r |-> FALSE, w |-> FALSE, dirty |-> FALSE, name |-> "",
            size |-> 0, off |-> 0, cache |-> NoCache, ino |-> 0]

(******************************** the disk *********************************)

Final(name) == IF name \in DOMAIN LinkTo THEN LinkTo[name] ELSE name
InoOf(d, name) == d.ino[Final(name)]
FreshIno(d) == Min(Inos \ {d.ino[n] : n \in Names})
HasRoom(d) == Inos \ {d.ino[n] : n \in Names} # {}

Byte(s, k) == IF k <= Len(s) THEN s[k] ELSE 0
Patch(s, off, b) ==
    [k \in 1..Max({Len(s), off + Len(b)}) |->
        IF k \in (off + 1)..(off + Len(b)) THEN b[k - off] ELSE Byte(s, k)]
Resize(s, n) == [k \in 1..n |-> Byte(s, k)]
Slice(s, off, n) == SubSeq(s, off + 1, Min({off + n, Len(s)}))

(* write_file_from_source truncates first and then writes chunk by chunk.  *)
Torn(cut, old, new) ==
    CASE cut = "before" -> old
      [] cut = "within" -> SubSeq(new, 1, Len(new) \div 2)
      [] OTHER -> new

(* ext2_write_path_from_source, which does not follow a link.              *)
WriteWhole(d, name, pages, cut) ==
    LET j == IF d.ino[name] # 0 THEN d.ino[name] ELSE FreshIno(d) IN
    IF name \in DOMAIN LinkTo \/ (d.ino[name] = 0 /\ ~HasRoom(d))
    THEN [d EXCEPT !.ok = FALSE]
    ELSE [d EXCEPT !.ino[name] = j, !.data[j] = Torn(cut, @, pages),
                   !.ok = cut \notin {"before", "within"}]
(* ext2_write_at_path, which follows one and creates the file; the size is *)
(* written last.                                                           *)
WriteAt(d, name, off, pages, cut) ==
    LET i == InoOf(d, name)
        j == IF i # 0 THEN i ELSE FreshIno(d)
        new == Patch(d.data[j], off, pages) IN
    IF i = 0 /\ ~HasRoom(d) THEN [d EXCEPT !.ok = FALSE]
    ELSE [d EXCEPT !.ino[Final(name)] = j, !.ok = cut \notin {"before", "within"},
                   !.data[j] = CASE cut = "before" -> @
                                 [] cut = "within" -> Resize(new, Len(@))
                                 [] OTHER -> new]

(****************************** file objects *******************************)

(* A call works on c: the disk, an object and the value it returns (-1:    *)
(* an error).                                                              *)
Start(o) == [d |-> [disk EXCEPT !.ok = TRUE], o |-> obj[o], rv |-> 0, out |-> <<>>]
Error(c) == [c EXCEPT !.rv = -1]

(* vfs_file_ensure_capacity; without memory it keeps what it got.          *)
Capacity(c, n, cut) ==
    LET short == cut = "memory" /\ Len(c.o.cache) < n
        m == IF short THEN Max({1, Len(c.o.cache)}) ELSE Max({n, Len(c.o.cache)}) IN
    [c EXCEPT !.o.cache = Resize(@, IF short /\ n = 1 THEN 0 ELSE m),
              !.rv = IF short THEN -1 ELSE @]

(* vfs_file_load_cache.                                                    *)
LoadCache(c, cut) ==
    LET i == InoOf(c.d, c.o.name)
        room == Capacity(c, c.o.size, cut) IN
    IF c.o.cache # NoCache \/ c.o.size = 0 THEN c
    ELSE IF c.o.size > CacheMax THEN Error(c)
    ELSE IF room.rv < 0 THEN room
    ELSE IF i = 0 THEN Error(c)
    ELSE IF Len(c.d.data[i]) # c.o.size THEN Error(c)
    ELSE [c EXCEPT !.o.cache = c.d.data[i]]

(* vfs_file_read; copying past the cached pages fails.                     *)
Read(c, n, cut) ==
    LET l == LoadCache(c, cut)
        end == Min({c.o.off + n, c.o.size})
        i == InoOf(c.d, c.o.name)
        Got(x, pages) == [x EXCEPT !.out = pages, !.rv = Len(pages),
                                   !.o.off = @ + Len(pages)] IN
    IF ~c.o.r THEN Error(c)
    ELSE IF c.o.off >= c.o.size THEN c
    ELSE IF c.o.size <= CacheMax THEN
        IF l.rv < 0 \/ end > Len(l.o.cache) THEN Error(l)
        ELSE Got(l, SubSeq(l.o.cache, c.o.off + 1, end))
    ELSE IF i = 0 THEN Error(c)
    ELSE Got(c, Slice(c.d.data[i], c.o.off, n))

(* vfs_file_flush: the whole file, by name.                                *)
Flush(c, cut) ==
    LET d == WriteWhole(c.d, c.o.name, SubSeq(c.o.cache, 1, c.o.size), cut) IN
    IF ~c.o.w \/ ~c.o.dirty THEN c
    ELSE IF c.o.size > CacheMax THEN Error(c)
    ELSE IF d.ok THEN [c EXCEPT !.d = d, !.o.dirty = FALSE]
    ELSE Error([c EXCEPT !.d = d])

(* The end of vfs_file_write: past the cache, through ext2_write_at_path.  *)
WriteThrough(c, pages, cut) ==
    LET d == WriteAt(c.d, c.o.name, c.o.off, pages, cut) IN
    IF ~d.ok THEN Error([c EXCEPT !.d = d])
    ELSE [c EXCEPT !.d = d, !.o.size = Len(d.data[InoOf(d, c.o.name)]),
                   !.o.off = @ + Len(pages), !.o.cache = NoCache, !.o.dirty = FALSE,
                   !.rv = Len(pages)]

(* vfs_file_write: into the cache while the file fits.                     *)
Write(c, pages, cut) ==
    LET end == c.o.off + Len(pages)
        l == LoadCache(c, cut)
        m == Capacity(l, end, cut)
        f == Flush(c, cut) IN
    IF ~c.o.w THEN Error(c)
    ELSE IF end <= CacheMax /\ c.o.size <= CacheMax THEN
        IF l.rv < 0 THEN l
        ELSE IF m.rv < 0 THEN m
        ELSE [m EXCEPT !.o.cache = Patch(@, c.o.off, pages), !.o.off = end,
                       !.o.size = Max({@, end}), !.o.dirty = TRUE, !.rv = Len(pages)]
    ELSE IF f.rv < 0 THEN f
    ELSE WriteThrough(f, pages, cut)


(* vfs_file_truncate_fd.                                                   *)
Truncate(c, n, cut) ==
    LET f == Flush(c, cut)
        i == InoOf(f.d, c.o.name) IN
    IF ~c.o.w THEN Error(c)
    ELSE IF f.rv < 0 THEN f
    ELSE IF i = 0 THEN Error(f)
    ELSE [f EXCEPT !.d.data[i] = Resize(@, n), !.o.cache = NoCache, !.o.size = n,
                   !.o.off = Min({@, n}), !.o.dirty = FALSE]

(* process_fd_close and vfs_file_close: a failing write-back is ignored.   *)
Close(c, cut) ==
    LET f == [Flush(c, cut) EXCEPT !.rv = 0] IN
    IF c.o.refs > 1 THEN [f EXCEPT !.o.refs = @ - 1]
    ELSE [Flush(f, cut) EXCEPT !.o = FreeObj, !.rv = 0]

(* sys_close_impl: a write-back that fails leaves the descriptor open.     *)
SysClose(c, cut) ==
    LET f == Flush(c, cut) IN
    IF c.o.w /\ f.rv < 0 THEN f ELSE Close(f, "no")

(********************************* behaviour *******************************)

Init ==
    /\ disk = [ino |-> [n \in Names |-> 0], data |-> [i \in Inos |-> <<>>], ok |-> TRUE]
    /\ obj = [o \in Objs |-> FreeObj]
    /\ fd = [p \in Procs |-> [k \in Fds |-> 0]]
    /\ ghost = [want |-> [i \in Inos |-> <<>>], mixed |-> {}]
    /\ res = [call |-> "none", rv |-> 0, out |-> <<>>, ino |-> 0, off |-> 0]
    /\ calls = 0 /\ faults = 0
    /\ job \in Jobs

Begin(call) ==
    call \in job.calls /\ calls < job.most /\ calls' = calls + 1 /\ UNCHANGED job
Fault(cut) ==
    \/ cut = "no" /\ UNCHANGED faults
    \/ cut \in Faults /\ faults < MaxFaults /\ faults' = faults + 1
Result(call, rv, out, i, off) ==
    res' = [call |-> call, rv |-> rv, out |-> out, ino |-> i, off |-> off]

OpenOn(i) == {o \in Objs : obj[o].refs > 0 /\ obj[o].ino = i}
InUse(i) == {x \in {i} : OpenOn(x) # {}}
Mix(g, inos) == [g EXCEPT !.mixed = @ \cup inos]
FreeFds(p) == {k \in Fds : fd[p][k] = 0}

(* sys_open_impl, sys_open_write_impl, sys_open_mode_create_kpath_impl: m  *)
(* is a set of flags, of [r]ead, [w]rite, [c]reate, [t]runc, [a]ppend,     *)
(* e[x]cl.                                                                 *)
Open(p, name, m, cut) ==
    LET free == {o \in Objs : obj[o].refs = 0}
        i == InoOf(disk, name)
        w == "w" \in m
        empty == i = 0 \/ "t" \in m
        d == IF empty THEN WriteWhole([disk EXCEPT !.ok = TRUE], name, <<>>, cut)
             ELSE [disk EXCEPT !.ok = TRUE]
        j == InoOf(d, name)
        size == IF empty THEN 0 ELSE Len(disk.data[i])
        others == {x \in OpenOn(j) : w \/ obj[x].w} IN
    /\ Begin("open") /\ name \in job.names /\ m \in job.modes
    /\ FreeFds(p) # {} /\ free # {}
    /\ m \cap {"r", "w"} # {} /\ (m \cap {"t", "a", "c"} # {} => w)
    /\ ~(i # 0 /\ {"c", "x"} \subseteq m)
    /\ i = 0 => "c" \in m
    /\ cut \notin {"memory"} /\ (empty \/ cut = "no") /\ Fault(cut)
    /\ disk' = d
    /\ IF ~d.ok
       THEN /\ ghost' = Mix(ghost, {i, j})
            /\ UNCHANGED <<obj, fd>>
       ELSE /\ obj' = [obj EXCEPT ![Min(free)] =
                         [FreeObj EXCEPT !.refs = 1, !.r = "r" \in m, !.w = w,
                              !.name = name, !.size = size, !.ino = j,
                              !.off = IF "a" \in m THEN size ELSE 0]]
            /\ fd' = [fd EXCEPT ![p][Min(FreeFds(p))] = Min(free)]
            /\ ghost' = Mix([ghost EXCEPT !.want[j] = IF empty THEN <<>> ELSE @],
                            {x \in {j} : others # {}})
    /\ Result("open", IF d.ok THEN 0 ELSE -1, <<>>, j, 0)

(* A call on a descriptor ends with c; want: what the file should hold     *)
(* now if the call succeeded; direct: the call wrote the file in place.    *)
OnFd(p, k, call, cut, c, want, direct) ==
    LET o == fd[p][k]
        i == obj[o].ino IN
    /\ Fault(cut)
    /\ disk' = c.d
    /\ obj' = [obj EXCEPT ![o] = c.o]
    /\ ghost' = IF c.rv >= 0 THEN [ghost EXCEPT !.want[i] = want]
                ELSE Mix(ghost, {x \in {i} : direct})
    /\ Result(call, c.rv, c.out, i, obj[o].off)

Opened(p, k, call) == Begin(call) /\ fd[p][k] # 0
Want(p, k) == ghost.want[obj[fd[p][k]].ino]

DoRead(p, k, n, cut) ==
    /\ Opened(p, k, "read") /\ cut \in {"no", "memory"}
    /\ OnFd(p, k, "read", cut, Read(Start(fd[p][k]), n, cut), Want(p, k), FALSE)
    /\ UNCHANGED fd
DoWrite(p, k, n, cut) ==
    LET o == obj[fd[p][k]]
        pages == [j \in 1..n |-> calls + 1] IN
    /\ Opened(p, k, "write")
    /\ OnFd(p, k, "write", cut, Write(Start(fd[p][k]), pages, cut),
            Patch(Want(p, k), o.off, pages), o.off + n > CacheMax \/ o.size > CacheMax)
    /\ UNCHANGED fd
DoFtruncate(p, k, n, cut) ==
    /\ Opened(p, k, "ftruncate")
    /\ OnFd(p, k, "ftruncate", cut, Truncate(Start(fd[p][k]), n, cut),
            Resize(Want(p, k), n), FALSE)
    /\ UNCHANGED fd
DoFsync(p, k, cut) ==
    /\ Opened(p, k, "fsync")
    /\ OnFd(p, k, "fsync", cut, Flush(Start(fd[p][k]), cut), Want(p, k), FALSE)
    /\ UNCHANGED fd
DoClose(p, k, cut) ==
    LET c == SysClose(Start(fd[p][k]), cut) IN
    /\ Opened(p, k, "close")
    /\ OnFd(p, k, "close", cut, c, Want(p, k), FALSE)
    /\ fd' = [fd EXCEPT ![p][k] = IF c.rv < 0 THEN @ ELSE 0]

(* vfs_file_seek.                                                          *)
DoSeek(p, k, n) ==
    LET o == fd[p][k] IN
    /\ Opened(p, k, "seek")
    /\ obj' = [obj EXCEPT ![o].off = n]
    /\ Result("seek", n, <<>>, obj[o].ino, n)
    /\ UNCHANGED <<disk, fd, ghost, faults>>

(* vfs_file_retain, for dup and for fork's copy of the table.              *)
DoDup(p, k) ==
    LET o == fd[p][k] IN
    /\ Opened(p, k, "dup") /\ FreeFds(p) # {}
    /\ fd' = [fd EXCEPT ![p][Min(FreeFds(p))] = o]
    /\ obj' = [obj EXCEPT ![o].refs = @ + 1]
    /\ Result("dup", 0, <<>>, obj[o].ino, 0)
    /\ UNCHANGED <<disk, ghost, faults>>
DoFork(p, q) ==
    /\ Begin("fork") /\ FreeFds(q) = Fds /\ FreeFds(p) # Fds
    /\ fd' = [fd EXCEPT ![q] = fd[p]]
    /\ obj' = [o \in Objs |-> [obj[o] EXCEPT
                  !.refs = @ + Cardinality({k \in Fds : fd[p][k] = o})]]
    /\ Result("fork", 0, <<>>, 0, 0)
    /\ UNCHANGED <<disk, ghost, faults>>

(* sys_rename_impl, sys_unlink_impl and sys_writefile_path_impl.           *)
ByPath(call, i, d, g) ==
    /\ disk' = d
    /\ ghost' = Mix(g, InUse(i))
    /\ Result(call, 0, <<>>, i, 0)
    /\ UNCHANGED <<obj, fd, faults>>
DoRename(src, dst) ==
    LET i == disk.ino[src] IN
    /\ Begin("rename") /\ {src, dst} \subseteq job.names \ DOMAIN LinkTo
    /\ i # 0 /\ disk.ino[dst] = 0
    /\ ByPath("rename", i, [disk EXCEPT !.ino[src] = 0, !.ino[dst] = i], ghost)
DoUnlink(name) ==
    LET i == disk.ino[name] IN
    /\ Begin("unlink") /\ i # 0 /\ name \in job.names \ DOMAIN LinkTo
    /\ ByPath("unlink", i, [disk EXCEPT !.ino[name] = 0, !.data[i] = <<>>],
              [ghost EXCEPT !.want[i] = <<>>])
DoWriteFile(name, n) ==
    LET d == WriteWhole([disk EXCEPT !.ok = TRUE], name, [k \in 1..n |-> calls + 1], "no")
        j == d.ino[name] IN
    /\ Begin("writefile") /\ name \in job.names /\ d.ok
    /\ ByPath("writefile", j, d, [ghost EXCEPT !.want[j] = d.data[j]])

(* The process ends: what fails is ignored.                                *)
DoExit(p) ==
    LET Step(s, k) ==
            LET c == Close([d |-> [s.d EXCEPT !.ok = TRUE], o |-> s.obj[fd[p][k]],
                            rv |-> 0, out |-> <<>>], "no") IN
            IF fd[p][k] = 0 THEN s ELSE [s EXCEPT !.d = c.d, !.obj[fd[p][k]] = c.o]
        s == FoldSet(LAMBDA k, a : Step(a, k), [d |-> disk, obj |-> obj], Fds) IN
    /\ Begin("exit") /\ FreeFds(p) # Fds
    /\ disk' = s.d /\ obj' = s.obj
    /\ fd' = [fd EXCEPT ![p] = [k \in Fds |-> 0]]
    /\ Result("exit", 0, <<>>, 0, 0)
    /\ UNCHANGED <<ghost, faults>>

(* stat, fstat and readlink change nothing.                                *)
Look == UNCHANGED vars

Cuts == {"no"} \cup Faults

Next ==
    \/ \E p \in Procs, n \in Names, m \in job.modes, cut \in Cuts : Open(p, n, m, cut)
    \/ \E p \in Procs, k \in Fds, n \in Sizes, cut \in Cuts : DoRead(p, k, n, cut)
    \/ \E p \in Procs, k \in Fds, n \in Sizes, cut \in Cuts : DoWrite(p, k, n, cut)
    \/ \E p \in Procs, k \in Fds, n \in Sizes, cut \in Cuts : DoFtruncate(p, k, n, cut)
    \/ \E p \in Procs, k \in Fds, cut \in Cuts : DoFsync(p, k, cut)
    \/ \E p \in Procs, k \in Fds, cut \in Cuts : DoClose(p, k, cut)
    \/ \E p \in Procs, k \in Fds, n \in {0} \cup Sizes : DoSeek(p, k, n)
    \/ \E p \in Procs, k \in Fds : DoDup(p, k)
    \/ \E p, q \in Procs : DoFork(p, q)
    \/ \E a, b \in Names : DoRename(a, b)
    \/ \E a \in Names : DoUnlink(a)
    \/ \E a \in Names, n \in Sizes : DoWriteFile(a, n)
    \/ \E p \in Procs : DoExit(p)
    \/ Look

Spec == Init /\ [][Next]_vars

(* Nothing reads res, and calls only numbers the pages written.            *)
View == <<disk, obj, fd, ghost, calls, faults, job>>

(******************************** properties *******************************)

Tracked(i) == i # 0 /\ i \notin ghost.mixed
Returned(set) == calls' # calls /\ res'.call \in set /\ res'.rv >= 0

(* A read returns exactly what earlier writes through any descriptor of    *)
(* the file left at the shared offset, whether those pages are in the      *)
(* cache, were written back, or went past it (vfs_file_read).              *)
ReadSees ==
    Returned({"read"}) /\ Tracked(res'.ino) =>
        res'.out = Slice(ghost.want[res'.ino], res'.off, Len(res'.out))

(* When close or fsync returns 0, all that was written through the file is *)
(* on the disk, even if an earlier write-back tore it: the call that       *)
(* failed said so and left the file dirty (vfs_file_flush, sys_close_impl).*)
Commits ==
    Returned({"close", "fsync"}) /\ Tracked(res'.ino) =>
        disk'.data[res'.ino] = ghost'.want[res'.ino]
=============================================================================
