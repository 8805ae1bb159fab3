------------------------------ MODULE FdTable ------------------------------
(***************************************************************************)
(* The descriptor tables of the processes (kernel/process.c, "fd_entry_t") *)
(* and the reference counts of what descriptors point at.  A table is an   *)
(* array that is moved when it grows; a copied descriptor takes a          *)
(* reference, a closed one gives it back.  System calls run with           *)
(* interrupts off, so each call is one step.                               *)
(*                                                                         *)
(* Files, sockets and virtual files have one count (kind "shared"), pipes  *)
(* and pseudo-terminals one for each end (kind "pair"), and epoll, timerfd *)
(* and signalfd descriptors own a frame without a count (kind "own").      *)
(***************************************************************************)
EXTENDS Integers, FiniteSets, FiniteSetsExt

CONSTANTS
    Procs, Objs,
    None,
    First,         \* PROCESS_FD_FIRST
    InitialCap,    \* PROCESS_FD_INITIAL_CAPACITY
    DefaultLimit,  \* PROCESS_FD_LIMIT_DEFAULT
    HardLimit,     \* PROCESS_FD_LIMIT_HARD
    Limits         \* arguments of setrlimit

ASSUME FdAssumption ==
    /\ First \in Nat /\ InitialCap \in Nat /\ DefaultLimit \in Nat /\ HardLimit \in Nat
    /\ 0 < First /\ First < InitialCap
    /\ InitialCap <= DefaultLimit /\ DefaultLimit <= HardLimit
    /\ None \notin Objs /\ IsFiniteSet(Procs) /\ Limits \subseteq Nat

VARIABLES
    state,    \* [Procs -> {"unused", "live", "zombie"}]
    table,    \* [Procs -> fds, fd_capacity and fd_limit]
    refs      \* [Objs -> kind and counts of an allocated object]

fdVars == <<state, table, refs>>

Fds == 0 .. HardLimit - 1

FdEntry(kind, obj, end, cloexec) ==
    [kind |-> kind, obj |-> obj, end |-> end, cloexec |-> cloexec]

Closed == FdEntry("closed", None, "a", FALSE)
Console == FdEntry("console", None, "a", FALSE)
\* valid = 1 and every other field zero.
Torn == FdEntry("torn", None, "a", FALSE)

NoObject == [kind |-> "none", a |-> 0, b |-> 0]

Open(T, fd) == fd < T.cap /\ T.ent[fd] # Closed
OpenFds(T) == {fd \in Fds : Open(T, fd)}

\* The descriptors that point at one end of an object.
Holders(o, end) ==
    {h \in Procs \X Fds : /\ table[h[1]].ent[h[2]].obj = o
                          /\ table[h[1]].ent[h[2]].end = end}

-----------------------------------------------------------------------------
(* Tables.                                                                 *)

(* process_fd_table_init and process_init_standard_fds.                    *)
NewTable ==
    [ent |-> [fd \in Fds |-> IF fd < First THEN Console ELSE Closed],
     cap |-> InitialCap, limit |-> DefaultLimit]

NoTable == [ent |-> [fd \in Fds |-> Closed], cap |-> 0, limit |-> 0]

\* A growth that finds no frames is a call that fails and changes nothing.
CanGrow(T, min) == T.cap < T.limit /\ min <= T.limit

(* A growth that copies the entries field by field and forgets fd_flags.   *)
MutGrow(T, min) ==
    LET want == Max({2 * T.cap, min})
    IN  [T EXCEPT !.cap = IF want > T.limit THEN T.limit ELSE want,
                  !.ent = [fd \in Fds |-> [@[fd] EXCEPT !.cloexec = FALSE]]]

(* process_fd_table_grow, when it succeeds: the entries are copied.        *)
Grow(T, min) ==
    LET want == Max({2 * T.cap, min})
    IN  [T EXCEPT !.cap = IF want > T.limit THEN T.limit ELSE want]

FreeFrom(T, min) == {fd \in Fds : min <= fd /\ fd < T.cap /\ T.ent[fd] = Closed}

\* process_fd_alloc_entry: the table with room, and the lowest free number.
CanAlloc(T) == FreeFrom(T, First) # {} \/ CanGrow(T, T.cap + 1)
Ready(T) == IF FreeFrom(T, First) # {} THEN T ELSE Grow(T, T.cap + 1)
Lowest(T) == Min(FreeFrom(Ready(T), First))

PutEntry(T, fd, e) == [T EXCEPT !.ent[fd] = e]

-----------------------------------------------------------------------------
(* References.                                                             *)

(* The copied entry: only the owner keeps an uncounted frame.              *)
Shared(e, cloexec) ==
    [e EXCEPT !.cloexec = cloexec, !.obj = IF e.kind = "own" THEN None ELSE @]

(* process_fd_share_ref.                                                   *)
Retain(r, e) ==
    IF e.obj = None \/ e.kind = "own" THEN r
    ELSE IF e.end = "a" THEN [r EXCEPT ![e.obj].a = @ + 1]
    ELSE [r EXCEPT ![e.obj].b = @ + 1]

(* process_fd_close: the close operation of the entry's kind.              *)
Release(r, e) ==
    IF e.obj = None THEN r
    ELSE LET o == r[e.obj]
             n == IF e.end = "a" THEN [o EXCEPT !.a = @ - 1] ELSE [o EXCEPT !.b = @ - 1]
         IN  [r EXCEPT ![e.obj] =
                IF e.kind = "own" \/ (n.a = 0 /\ n.b = 0) THEN NoObject ELSE n]

(* A loop of either over the descriptors fds: an object is retained or     *)
(* released once for each that points at it, in whatever order.            *)
Pointing(ent, fds, o, end) == {fd \in fds : ent[fd].obj = o /\ ent[fd].end = end}

RetainAll(r, ent, fds) ==
    [o \in Objs |-> [r[o] EXCEPT !.a = @ + Cardinality(Pointing(ent, fds, o, "a")),
                                 !.b = @ + Cardinality(Pointing(ent, fds, o, "b"))]]

ReleaseAll(r, ent, fds) ==
    [o \in Objs |->
       LET as == Pointing(ent, fds, o, "a")
           bs == Pointing(ent, fds, o, "b")
           n == [r[o] EXCEPT !.a = @ - Cardinality(as), !.b = @ - Cardinality(bs)]
       IN  IF as \cup bs = {} THEN r[o]
           ELSE IF (\E fd \in as : ent[fd].kind = "own") \/ (n.a = 0 /\ n.b = 0)
           THEN NoObject ELSE n]

CloseAll(T, fds) == [T EXCEPT !.ent = [fd \in Fds |-> IF fd \in fds THEN Closed ELSE @[fd]]]

-----------------------------------------------------------------------------
FdInit ==
    /\ state = [p \in Procs |-> "unused"]
    /\ table = [p \in Procs |-> NoTable]
    /\ refs = [o \in Objs |-> NoObject]

Live(p) == state[p] = "live"
Unallocated(o) == refs[o] = NoObject
SetTable(p, T) == table' = [table EXCEPT ![p] = T]

(* process_create for a program that the kernel itself starts.             *)
Create(p) ==
    /\ state[p] = "unused"
    /\ SetTable(p, NewTable)
    /\ state' = [state EXCEPT ![p] = "live"]
    /\ UNCHANGED refs

(* open, socket and the virtual files; made says whether the object could  *)
(* be created once there was an entry for it.                              *)
OpenShared(p, o, made) ==
    /\ Live(p) /\ Unallocated(o) /\ CanAlloc(table[p])
    /\ LET T == Ready(table[p])
       IN  IF made
           THEN /\ SetTable(p, PutEntry(T, Lowest(T), FdEntry("shared", o, "a", FALSE)))
                /\ refs' = [refs EXCEPT ![o] = [kind |-> "shared", a |-> 1, b |-> 0]]
           ELSE SetTable(p, T) /\ UNCHANGED refs
    /\ UNCHANGED state

(* process_fd_open_special.                                                *)
OpenSpecial(p) ==
    /\ Live(p) /\ CanAlloc(table[p])
    /\ LET T == Ready(table[p])
       IN  SetTable(p, PutEntry(T, Lowest(T), FdEntry("own", None, "a", FALSE)))
    /\ UNCHANGED <<state, refs>>

(* special_wait_object allocates the frame at the first use.               *)
UseSpecial(p, fd, o) ==
    /\ Live(p) /\ Open(table[p], fd) /\ Unallocated(o)
    /\ table[p].ent[fd].kind = "own" /\ table[p].ent[fd].obj = None
    /\ table' = [table EXCEPT ![p].ent[fd].obj = o]
    /\ refs' = [refs EXCEPT ![o] = [kind |-> "own", a |-> 1, b |-> 0]]
    /\ UNCHANGED state

(* process_fd_pipe and process_fd_pty.  The first entry is reserved by its *)
(* valid flag; when the second allocation moves the table, the fields of   *)
(* the first are written to the old one.                                   *)
OpenPair(p, o, cloexec, mem) ==
    /\ Live(p) /\ Unallocated(o) /\ CanAlloc(table[p])
    /\ LET T1 == Ready(table[p])
           fd1 == Lowest(T1)
           reserved == PutEntry(T1, fd1, Torn)
           T2 == Ready(reserved)
           moved == T2.cap # T1.cap
           first == IF moved THEN Torn ELSE FdEntry("pair", o, "a", cloexec)
       IN  IF CanAlloc(reserved) /\ (moved => mem)
           THEN /\ SetTable(p, PutEntry(PutEntry(T2, fd1, first), Lowest(T2),
                                   FdEntry("pair", o, "b", cloexec)))
                /\ refs' = [refs EXCEPT ![o] = [kind |-> "pair", a |-> 1, b |-> 1]]
           ELSE SetTable(p, T1) /\ UNCHANGED refs
    /\ UNCHANGED state

(* process_fd_dup (dup, F_DUPFD): the lowest free number from min up.      *)
Dup(p, old, min, cloexec) ==
    /\ Live(p) /\ Open(table[p], old) /\ min < table[p].limit
    /\ LET T0 == table[p]
           T1 == IF min >= T0.cap THEN Grow(T0, min + 1) ELSE T0
           T2 == IF FreeFrom(T1, min) = {} THEN Grow(T1, T1.cap + 1) ELSE T1
           e == Shared(T0.ent[old], cloexec)
       IN  /\ min >= T0.cap => CanGrow(T0, min + 1)
           /\ FreeFrom(T1, min) = {} => CanGrow(T1, T1.cap + 1)
           /\ SetTable(p, PutEntry(T2, Min(FreeFrom(T2, min)), e))
           /\ refs' = Retain(refs, e)
    /\ UNCHANGED state

(* A dup2 that drops what was open at the new number.                      *)
MutDup2(p, old, new, cloexec) ==
    /\ Live(p) /\ Open(table[p], old) /\ new < table[p].limit /\ new # old
    /\ LET T0 == table[p]
           T1 == IF new >= T0.cap THEN Grow(T0, new + 1) ELSE T0
           e == Shared(T0.ent[old], cloexec)
       IN  /\ new >= T0.cap => CanGrow(T0, new + 1)
           /\ SetTable(p, PutEntry(T1, new, e))
           /\ refs' = Retain(refs, e)
    /\ UNCHANGED state

(* process_fd_dup2 (dup2, dup3), with process_fd_alloc_exact.              *)
Dup2(p, old, new, cloexec) ==
    /\ Live(p) /\ Open(table[p], old) /\ new < table[p].limit /\ new # old
    /\ LET T0 == table[p]
           T1 == IF new >= T0.cap THEN Grow(T0, new + 1) ELSE T0
           e == Shared(T0.ent[old], cloexec)
       IN  /\ new >= T0.cap => CanGrow(T0, new + 1)
           /\ SetTable(p, PutEntry(T1, new, e))
           /\ refs' = Retain(Release(refs, T1.ent[new]), e)
    /\ UNCHANGED state

(* fcntl F_SETFD.                                                          *)
SetCloexec(p, fd, cloexec) ==
    /\ Live(p) /\ Open(table[p], fd)
    /\ table' = [table EXCEPT ![p].ent[fd].cloexec = cloexec]
    /\ UNCHANGED <<state, refs>>

(* close.                                                                  *)
Close(p, fd) ==
    /\ Live(p) /\ Open(table[p], fd)
    /\ SetTable(p, PutEntry(table[p], fd, Closed))
    /\ refs' = Release(refs, table[p].ent[fd])
    /\ UNCHANGED state

(* setrlimit(RLIMIT_NOFILE).                                               *)
SetLimit(p, limit) ==
    /\ Live(p) /\ table[p].cap <= limit /\ limit <= HardLimit
    /\ table' = [table EXCEPT ![p].limit = limit]
    /\ UNCHANGED <<state, refs>>

(* process_copy_fd_table into a new process.  The child starts with the    *)
(* default limit, and the fork fails when the parent's table is larger.    *)
Fork(p, q) ==
    /\ Live(p) /\ state[q] = "unused"
    /\ LET T == table[p]
           C == IF NewTable.cap < T.cap THEN Grow(NewTable, T.cap) ELSE NewTable
           copy == [C EXCEPT !.ent = [fd \in Fds |->
                      IF Open(T, fd) THEN Shared(T.ent[fd], T.ent[fd].cloexec) ELSE Closed]]
       IN  /\ NewTable.cap < T.cap => CanGrow(NewTable, T.cap)
           /\ SetTable(q, copy)
           /\ refs' = RetainAll(refs, copy.ent, Fds)
    /\ state' = [state EXCEPT ![q] = "live"]

(* elf_inherit_launch_context: a spawned process shares the three standard *)
(* descriptors, in place of its own consoles.                              *)
Spawn(p, q) ==
    /\ Live(p) /\ state[q] = "unused"
    /\ LET T == table[p]
           std == {fd \in 0 .. First - 1 : Open(T, fd)}
           ent == [fd \in Fds |-> IF fd \in std THEN Shared(T.ent[fd], T.ent[fd].cloexec)
                                  ELSE NewTable.ent[fd]]
       IN  /\ SetTable(q, [NewTable EXCEPT !.ent = ent])
           /\ refs' = RetainAll(refs, ent, std)
    /\ state' = [state EXCEPT ![q] = "live"]

(* A successful execve closes the close-on-exec descriptors.               *)
Exec(p) ==
    /\ Live(p)
    /\ LET fds == {fd \in OpenFds(table[p]) : table[p].ent[fd].cloexec}
       IN  /\ SetTable(p, CloseAll(table[p], fds))
           /\ refs' = ReleaseAll(refs, table[p].ent, fds)
    /\ UNCHANGED state

(* process_release_exit_resources.                                         *)
Exit(p) ==
    /\ Live(p)
    /\ SetTable(p, CloseAll(table[p], OpenFds(table[p])))
    /\ refs' = ReleaseAll(refs, table[p].ent, OpenFds(table[p]))
    /\ state' = [state EXCEPT ![p] = "zombie"]

(* process_destroy of an exited process frees its table.                   *)
Reap(p) ==
    /\ state[p] = "zombie"
    /\ SetTable(p, NoTable)
    /\ state' = [state EXCEPT ![p] = "unused"]
    /\ UNCHANGED refs

FdNext ==
    \E p \in Procs :
       \/ Create(p) \/ Exec(p) \/ Exit(p) \/ Reap(p)
       \/ \E q \in Procs : Spawn(p, q)
       \/ \E q \in Procs : Fork(p, q)
       \/ \E o \in Objs, made \in BOOLEAN : OpenShared(p, o, made)
       \/ OpenSpecial(p)
       \/ \E fd \in Fds, o \in Objs : UseSpecial(p, fd, o)
       \/ \E o \in Objs, cl \in BOOLEAN, mem \in BOOLEAN : OpenPair(p, o, cl, mem)
       \/ \E old \in Fds, min \in Fds, cl \in BOOLEAN : Dup(p, old, min, cl)
       \/ \E old \in Fds, new \in Fds, cl \in BOOLEAN : Dup2(p, old, new, cl)
       \/ \E fd \in Fds, cl \in BOOLEAN : SetCloexec(p, fd, cl)
       \/ \E fd \in Fds : Close(p, fd)
       \/ \E limit \in Limits : SetLimit(p, limit)

FdSpec == FdInit /\ [][FdNext]_fdVars

-----------------------------------------------------------------------------
FdTypeOK ==
    /\ state \in [Procs -> {"unused", "live", "zombie"}]
    /\ \A p \in Procs, fd \in Fds :
          table[p].ent[fd] \in
             [kind : {"closed", "console", "shared", "pair", "own", "torn"},
              obj : Objs \cup {None}, end : {"a", "b"}, cloexec : BOOLEAN]
    /\ \A o \in Objs : /\ refs[o].kind \in {"none", "shared", "pair", "own"}
                       /\ refs[o].a \in Nat /\ refs[o].b \in Nat

(* Every table satisfies what process_fd_table_is_valid asks, after any    *)
(* sequence of growths, setrlimit calls and forks, and nothing is open     *)
(* outside it.                                                             *)
TablesValid ==
    \A p \in Procs :
       LET T == table[p]
       IN  /\ state[p] # "unused" => T.cap >= InitialCap
           /\ T.cap <= T.limit /\ T.limit <= HardLimit
           /\ \A fd \in Fds : fd >= T.cap => T.ent[fd] = Closed

(* No object is freed, or turned into one of another kind, while a         *)
(* descriptor of any process points at it: dup, dup2, fork and spawn took  *)
(* as many references as exec, exit and close give back.                   *)
NoDangling ==
    \A o \in Objs :
       /\ refs[o].a >= Cardinality(Holders(o, "a"))
       /\ refs[o].b >= Cardinality(Holders(o, "b"))
       /\ \A p \in Procs, fd \in Fds :
             table[p].ent[fd].obj = o => table[p].ent[fd].kind = refs[o].kind

(* Files and sockets go with their last descriptor, a frame without a      *)
(* count belongs to a single descriptor, and the second end of a pipe      *)
(* or pseudo-terminal is open exactly while some descriptor holds it:      *)
(* readers get end-of-file "after all write ends close"                    *)
(* (docs/syscalls.md, SYS_PIPE), and not before.                           *)
LastCloseReleases ==
    \A o \in Objs :
       /\ refs[o].kind \in {"shared", "own"} => refs[o].a = Cardinality(Holders(o, "a"))
       /\ refs[o].kind = "pair" => refs[o].b = Cardinality(Holders(o, "b"))

(* Descriptors point at objects that are there, and an object is there as  *)
(* long as a descriptor points at it.                                      *)
TablesSound == FdTypeOK /\ TablesValid /\ NoDangling /\ LastCloseReleases

(* "Writes fail with -EPIPE and deliver SIGPIPE after all read ends close" *)
(* (docs/syscalls.md, SYS_PIPE): the count of read ends is that of the     *)
(* descriptors.                                                            *)
ReadEndsCounted ==
    \A o \in Objs :
       refs[o].kind = "pair" => refs[o].a = Cardinality(Holders(o, "a"))

(* Moving a table to a larger one never changes a descriptor that was      *)
(* open.                                                                   *)
GrowthKeepsDescriptors ==
    [][\A p \in Procs :
         state[p] = "live" /\ table'[p].cap > table[p].cap
            => \A fd \in Fds : Open(table[p], fd) => table'[p].ent[fd] = table[p].ent[fd]]_fdVars
=============================================================================
