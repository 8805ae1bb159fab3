------------------------------ MODULE Signals -------------------------------
(***************************************************************************)
(* Signals as user code sees them, and the groups they are sent to.        *)
(*                                                                         *)
(* Part "fault": a CPU fault in user code enters the handler that          *)
(* SYS_SIGACTION installed, on a frame the kernel writes to the user       *)
(* stack, and SYS_SIGRETURN reads that frame back (idt.c, process.c,       *)
(* syscall_proc.c and the trampoline of posix/core.c).                     *)
(* Part "group": process ids, parents, process groups, sessions and the    *)
(* console's foreground group (process.c, syscall_proc.c, syscall_fd.c).   *)
(***************************************************************************)
EXTENDS Integers, Sequences, SequencesExt, FiniteSets, FiniteSetsExt

CONSTANTS
    SgParts,     \* which part a behaviour shows
    SgSignals,   \* signals a fault maps to
    SgTop,       \* words of the user stack
    SgFrame,     \* words of sys_signal_frame_t
    SgAlign,     \* the frame's alignment
    SgPids,      \* process ids, 1..n: s_next_pid wraps after n
    SgBirths,    \* processes born in one behaviour
    SgCalls      \* calls and faults of one behaviour

VARIABLES
    sg,      \* the faulting process: registers, mask, actions, stack
    sgDue,   \* history: the contexts that handlers interrupted, innermost last
    sgBack,  \* history: the context the last SYS_SIGRETURN owed and gave
    gp,      \* the process registry, by pid
    fg,      \* s_foreground_reader, s_foreground_pgid; redirected by an ioctl
    sgNext,  \* s_next_pid
    sgPart, sgLeft

sgVars == <<sg, sgDue, sgBack, gp, fg, sgNext, sgPart, sgLeft>>

SgSpends == sgLeft > 0 /\ sgLeft' = sgLeft - 1

(***************************************************************************)
(* Faults and handlers.  The stack grows down; a word is a local of the    *)
(* user's or one word of a signal frame, which holds the saved context.    *)
(***************************************************************************)

NoContext == [pc |-> 0, sp |-> 0, r |-> 0, mask |-> {}]
SgWord(kind, v, c) == [kind |-> kind, v |-> v, c |-> c]

\* pc is 0 in the main program and the signal's number in its handler.
Context(s) == [pc |-> s.pc, sp |-> s.sp, r |-> s.r, mask |-> s.mask]

Aligned(a) == a - (a % SgAlign)

\* process_user_fault_signal: where the frame goes.
FrameAt(s) == Aligned(s.sp - SgFrame)

MutSavedContext(s, signal) ==
    [Context(s) EXCEPT !.mask = @ \cup s.act[signal].mask \cup {signal}]

\* process_user_fault_signal: what the frame saves.
SavedContext(s, signal) == Context(s)

\* fault_handler_main: a fault without a handler, or without room for the
\* frame (copy_to_user fails), ends the process with 128 + signal.
UserFaultSignal(s, signal) ==
    LET at == FrameAt(s)
        saved == SavedContext(s, signal)
    IN IF ~s.act[signal].handler \/ at < 0
       THEN [s EXCEPT !.alive = FALSE, !.status = 128 + signal]
       ELSE [s EXCEPT
               !.stack = [a \in DOMAIN @ |->
                            IF a \in at..(at + SgFrame - 1)
                            THEN SgWord("frame", a - at, saved) ELSE @[a]],
               !.mask = @ \cup s.act[signal].mask \cup {signal},
               !.pc = signal, !.sp = at]

FaultPart == sgPart = "fault" /\ sg.alive
Groups == UNCHANGED <<gp, fg, sgNext, sgPart>>

Fault(signal) ==
    /\ FaultPart /\ SgSpends
    /\ sg' = UserFaultSignal(sg, signal)
    /\ sgDue' = Append(sgDue, Context(sg))
    /\ UNCHANGED sgBack /\ Groups

\* The user's own code: it pushes and pops locals and uses registers.  A
\* handler pops no further than the frame it was entered on.
UserPush ==
    /\ FaultPart /\ SgSpends /\ sg.sp > 0
    /\ sg' = [sg EXCEPT !.sp = @ - 1, !.stack[sg.sp - 1] = SgWord("local", Len(sgDue), NoContext)]
    /\ UNCHANGED <<sgDue, sgBack>> /\ Groups
UserPop ==
    /\ FaultPart /\ sg.sp < SgTop /\ sg.stack[sg.sp] = SgWord("local", Len(sgDue), NoContext)
    /\ sg' = [sg EXCEPT !.sp = @ + 1, !.r = 1]
    /\ UNCHANGED <<sgDue, sgBack, sgLeft>> /\ Groups

\* sys_sigaction_impl behind sigaction(), which supplies the trampoline.
Sigaction(signal, handler, mask) ==
    /\ FaultPart /\ SgSpends
    /\ sg' = [sg EXCEPT !.act[signal] = [handler |-> handler, mask |-> mask]]
    /\ UNCHANGED <<sgDue, sgBack>> /\ Groups

\* sys_sigprocmask_impl (signals 9 and 19 are no faults).
Sigprocmask(how, set) ==
    /\ FaultPart /\ SgSpends
    /\ sg' = [sg EXCEPT !.mask = CASE how = "block"   -> @ \cup set
                                   [] how = "unblock" -> @ \ set
                                   [] how = "set"     -> set]
    /\ UNCHANGED <<sgDue, sgBack>> /\ Groups

\* The handler returns to the trampoline, which passes the address its
\* return word had to sys_sigreturn_impl: everything comes from that frame.
Sigreturn ==
    /\ FaultPart /\ sg.pc # 0 /\ sg.sp < SgTop
    /\ sg.stack[sg.sp].kind = "frame" /\ sg.stack[sg.sp].v = 0
    /\ LET c == sg.stack[sg.sp].c
       IN /\ sg' = [sg EXCEPT !.pc = c.pc, !.sp = c.sp, !.r = c.r, !.mask = c.mask]
          /\ sgBack' = <<Last(sgDue), c>>
    /\ sgDue' = Front(sgDue)
    /\ UNCHANGED sgLeft /\ Groups

(***************************************************************************)
(* Processes, groups and sessions.  parent is parent_pid; born and heir    *)
(* are history: the birth numbers of the process and of its real parent.   *)
(***************************************************************************)

NoOne == [st |-> "none", pgid |-> 0, sid |-> 0, leader |-> FALSE, parent |-> 0,
          told |-> FALSE, born |-> 0, heir |-> 0, waits |-> 0]
Exists(p) == p # 0 /\ p \in SgPids /\ gp[p].st # "none"
SgRuns(p) == Exists(p) /\ gp[p].st = "run" /\ gp[p].pgid # 0 /\ gp[p].waits = 0
GroupPart == sgPart = "group"
Faults == UNCHANGED <<sg, sgDue, sgBack, sgPart>>

\* process_find_by_pgid: the registry order is the order of the ids here.
InGroup(pgid) == {p \in SgPids : Exists(p) /\ gp[p].pgid = pgid}
FindByPgid(pgid) == IF pgid = 0 \/ InGroup(pgid) = {} THEN 0 ELSE Min(InGroup(pgid))

\* process_alloc_pid: the next id that no process has, from s_next_pid on.
AllocPid ==
    LET order == [i \in 1..Cardinality(SgPids) |-> ((sgNext + i - 2) % Cardinality(SgPids)) + 1]
        free  == {i \in DOMAIN order : ~Exists(order[i])}
    IN IF free = {} THEN 0 ELSE order[Min(free)]

\* process_fork_from_syscall: the child has its parent's group and session.
Fork(p) ==
    /\ GroupPart /\ SgRuns(p) /\ SgSpends
    /\ LET c == AllocPid
       IN /\ c # 0 /\ gp[p].born < SgBirths
          /\ Max({gp[q].born : q \in SgPids}) < SgBirths
          /\ gp' = [gp EXCEPT ![c] =
                      [NoOne EXCEPT !.st = "run", !.pgid = gp[p].pgid, !.sid = gp[p].sid,
                                    !.parent = p, !.heir = gp[p].born,
                                    !.born = Max({gp[q].born : q \in SgPids}) + 1]]
          /\ sgNext' = (c % Cardinality(SgPids)) + 1
    /\ UNCHANGED fg /\ Faults

\* process_set_foreground and process_set_foreground_preserve_input.
SgSetForeground(table, p) ==
    [reader |-> p, pgid |-> IF p = 0 THEN 0 ELSE table[p].pgid, moved |-> FALSE]

\* s_foreground_pgid follows the group of the foreground reader.
Followed(table, p) == IF fg.reader = p THEN SgSetForeground(table, p) ELSE fg

\* process_setsid: not for the leader of a group.
Setsid(p) ==
    /\ GroupPart /\ SgRuns(p) /\ SgSpends
    /\ gp[p].pgid # p
    /\ gp' = [gp EXCEPT ![p].sid = p, ![p].pgid = p, ![p].leader = TRUE]
    /\ fg' = Followed(gp', p)
    /\ UNCHANGED sgNext /\ Faults

SetpgidForeground(table, t) == Followed(table, t)

\* process_setpgid: the caller or its child, in the caller's session, into a
\* group of that session or a new one of its own.
Setpgid(p, t, pgid) ==
    /\ GroupPart /\ SgRuns(p) /\ SgSpends
    /\ Exists(t) /\ (t = p \/ gp[t].parent = p)
    /\ gp[t].sid = gp[p].sid /\ ~gp[t].leader
    /\ LET g == IF pgid = 0 THEN t ELSE pgid
           m == FindByPgid(g)
       IN /\ IF m # 0 THEN gp[m].sid = gp[p].sid ELSE g = t
          /\ gp' = [gp EXCEPT ![t].pgid = g]
          /\ fg' = SetpgidForeground(gp', t)
    /\ UNCHANGED sgNext /\ Faults

\* TIOCSPGRP with process_fd_terminal_set_pgrp on the console.
Tcsetpgrp(p, pgid) ==
    /\ GroupPart /\ SgRuns(p) /\ SgSpends
    /\ FindByPgid(pgid) # 0 /\ gp[FindByPgid(pgid)].sid = gp[p].sid
    /\ fg' = [fg EXCEPT !.pgid = pgid, !.moved = TRUE]
    /\ UNCHANGED <<gp, sgNext>> /\ Faults

(***************************************************************************)
(* The end of a process.                                                   *)
(***************************************************************************)

\* process_orphan_children.
OrphanChildren(table, p) ==
    [q \in SgPids |-> IF table[q].parent = p THEN [table[q] EXCEPT !.parent = 0] ELSE table[q]]

\* process_destroy: the id is free again.
Destroyed(table, p) == [OrphanChildren(table, p) EXCEPT ![p] = NoOne]
ForegroundAfter(p) == IF fg.reader = p THEN [reader |-> 0, pgid |-> 0, moved |-> FALSE] ELSE fg

\* SYS_EXIT, or a signal's default action on one process.
SgExit(p) ==
    /\ GroupPart /\ Exists(p) /\ gp[p].pgid # 0 /\ gp[p].st \in {"run", "stopped"} /\ SgSpends
    /\ gp' = [gp EXCEPT ![p].st = "zombie"]
    /\ UNCHANGED <<fg, sgNext>> /\ Faults

\* The reaper takes a zombie nobody can wait for, the boot task (1) the login
\* it waits for.
ReapOrphan(p) ==
    /\ GroupPart /\ Exists(p) /\ gp[p].st = "zombie" /\ gp[p].parent \in {0, 1}
    /\ gp' = Destroyed(gp, p)
    /\ fg' = ForegroundAfter(p)
    /\ UNCHANGED <<sgNext, sgLeft>> /\ Faults

\* process_find_zombie_child and process_find_stopped_child: what a
\* waitpid(-1, WUNTRACED | WNOHANG) reports.
ZombieChildren(p) == {q \in SgPids : Exists(q) /\ gp[q].parent = p /\ gp[q].st = "zombie"}
StoppedChildren(p) ==
    {q \in SgPids : Exists(q) /\ gp[q].parent = p /\ gp[q].st = "stopped" /\ ~gp[q].told}
WaitPid(p) ==
    /\ GroupPart /\ SgRuns(p) /\ SgSpends
    /\ IF ZombieChildren(p) # {}
       THEN LET c == Min(ZombieChildren(p))
            IN gp' = Destroyed(gp, c) /\ fg' = ForegroundAfter(c)
       ELSE /\ StoppedChildren(p) # {}
            /\ gp' = [gp EXCEPT ![Min(StoppedChildren(p))].told = TRUE]
            /\ UNCHANGED fg
    /\ UNCHANGED sgNext /\ Faults

\* sys_waitpid_fg_impl on the console: the child gets a group of its own and
\* the console; the caller sleeps until it is a zombie.
WaitFg(p, c) ==
    /\ GroupPart /\ SgRuns(p) /\ SgSpends
    /\ Exists(c) /\ gp[c].parent = p
    /\ gp' = [gp EXCEPT ![c].pgid = c, ![p].waits = c]
    /\ fg' = SgSetForeground(gp', c)
    /\ UNCHANGED sgNext /\ Faults
WaitFgEnds(p) ==
    /\ GroupPart /\ Exists(p) /\ gp[p].st = "run" /\ gp[p].waits # 0
    /\ gp[gp[p].waits].st = "zombie"
    /\ gp' = [Destroyed(gp, gp[p].waits) EXCEPT ![p].waits = 0]
    /\ fg' = SgSetForeground(gp, p)
    /\ UNCHANGED <<sgNext, sgLeft>> /\ Faults

\* A signal to a whole group: process_group_force_exit, process_group_stop,
\* process_group_continue on the snapshot of the group's members.
Struck(table, pgid, how) ==
    [q \in SgPids |->
        IF table[q].st \in {"none", "zombie"} \/ table[q].pgid # pgid THEN table[q]
        ELSE CASE how = "kill" -> [table[q] EXCEPT !.st = "zombie"]
               [] how = "stop" -> [table[q] EXCEPT !.st = "stopped", !.told = @ /\ table[q].st = "stopped"]
               [] how = "cont" -> [table[q] EXCEPT !.st = "run", !.told = @ /\ table[q].st # "stopped"]]

\* sys_kill_impl with pid <= 0.
KillGroup(p, pgid, how) ==
    /\ GroupPart /\ SgRuns(p) /\ SgSpends
    /\ pgid # 0 /\ InGroup(pgid) # {}
    /\ gp' = Struck(gp, pgid, how)
    /\ UNCHANGED <<fg, sgNext>> /\ Faults

\* process_key_consumer: Ctrl+C (no signalfd takes it) and Ctrl+Z.
TerminalKey(how) ==
    /\ GroupPart /\ SgSpends
    /\ fg.pgid # 0 /\ InGroup(fg.pgid) # {}
    /\ how = "stop" => fg.reader # 0
    /\ gp' = Struck(gp, fg.pgid, how)
    /\ fg' = IF how = "kill" /\ \A q \in InGroup(fg.pgid) : gp[q].st = "zombie" THEN fg
             ELSE SgSetForeground(gp, 0)
    /\ UNCHANGED sgNext /\ Faults

\* process_create_kernel_task and process_init_user_group: the boot task has a
\* session and no group, the login it starts a group of its own in it.
SgInit ==
    /\ sgPart \in SgParts
    /\ sg = [alive |-> TRUE, status |-> 0, pc |-> 0, sp |-> SgTop, r |-> 0, mask |-> {},
             act |-> [x \in SgSignals |-> [handler |-> FALSE, mask |-> {}]],
             stack |-> [a \in 0..(SgTop - 1) |-> SgWord("junk", 0, NoContext)]]
    /\ sgDue = <<>>
    /\ sgBack = <<NoContext, NoContext>>
    /\ gp = [p \in SgPids |->
               CASE p = 1 -> [NoOne EXCEPT !.st = "run", !.sid = 1, !.leader = TRUE, !.born = 1]
                 [] p = 2 -> [NoOne EXCEPT !.st = "run", !.sid = 1, !.pgid = 2, !.parent = 1,
                                           !.born = 2, !.heir = 1]
                 [] OTHER -> NoOne]
    /\ fg = [reader |-> 2, pgid |-> 2, moved |-> FALSE]
    /\ sgNext = 3
    /\ sgLeft = SgCalls

SgNext ==
    \/ \E x \in SgSignals : Fault(x)
    \/ UserPush \/ UserPop \/ Sigreturn
    \/ \E x \in SgSignals, h \in BOOLEAN, m \in SUBSET SgSignals : Sigaction(x, h, m)
    \/ \E how \in {"block", "unblock", "set"}, m \in SUBSET SgSignals : Sigprocmask(how, m)
    \/ \E p \in SgPids :
          \/ Fork(p) \/ Setsid(p) \/ SgExit(p) \/ ReapOrphan(p) \/ WaitPid(p) \/ WaitFgEnds(p)
          \/ \E c \in SgPids : WaitFg(p, c)
          \/ \E t \in SgPids, g \in SgPids \cup {0} : Setpgid(p, t, g)
          \/ \E g \in SgPids : Tcsetpgrp(p, g)
          \/ \E g \in SgPids, how \in {"kill", "stop", "cont"} : KillGroup(p, g, how)
    \/ \E how \in {"kill", "stop"} : TerminalKey(how)

SgSpec == SgInit /\ [][SgNext]_sgVars

(***************************************************************************)
(* What programs rely on.                                                  *)
(***************************************************************************)

\* A handler that returns resumes exactly what the fault interrupted: the
\* program counter, the stack pointer, the registers and the signal mask that
\* process_user_fault_signal found, however handlers nest, whatever they push,
\* mask or install meanwhile.
HandlersResume == sgBack[1] = sgBack[2]

\* Ctrl+C and Ctrl+Z go to the group of the process that reads the console:
\* after setsid, setpgid by itself or by its parent, waitpid_fg and every
\* hand-over, s_foreground_pgid is the reader's group unless a TIOCSPGRP since
\* then chose another.
ConsoleGroup ==
    fg.reader # 0 => Exists(fg.reader) /\ (fg.moved \/ fg.pgid = gp[fg.reader].pgid)

\* A process's parent_pid names the process that forked it or nobody: when an
\* id comes round again, its new owner is never handed the children of the
\* process that had it before.
ParentsReal ==
    \A p \in SgPids : Exists(p) /\ gp[p].parent # 0 =>
       Exists(gp[p].parent) /\ gp[gp[p].parent].born = gp[p].heir

-----------------------------------------------------------------------------
(***************************************************************************)
(* The descriptors that stand for events (process.c, syscall_fd.c): timers *)
(* (timerfd), signals (signalfd) and sets of watched descriptors (epoll),  *)
(* their reads and waits, and the timer interrupt that ends them.          *)
(*                                                                         *)
(* A call is atomic until it sleeps.  The tick counter wraps and deadlines *)
(* are compared by the sign of a difference, as in the code.               *)
(***************************************************************************)

CONSTANTS
    EvProcs, EvFds,   \* processes, descriptor numbers
    EvSignals,        \* signals sent
    TickMod,          \* 2^32: ticks the counter holds
    EvStart,          \* the counter's value at first
    Periods,          \* first expirations and intervals programs ask for
    Kits,             \* what is opened and called in one behaviour
    EvTicks           \* bound: ticks

VARIABLES
    fdt,       \* fdt[p][f]: the entry of descriptor f
    task,      \* task[p]: state and the call it is in
    clock,     \* the tick counter and the ticks since the start
    kit        \* what this behaviour may still do

evVars == <<fdt, task, clock, kit>>

NoEntry == [kind |-> "none", deadline |-> 0, interval |-> 0, obj |-> FALSE, mask |-> {}, pend |-> {},
            watch |-> {}, base |-> 0, got |-> 0]
AtRest == [st |-> "RUNNING", call |-> "idle", fd |-> 0, until |-> 0, waits |-> {}]

EvInit ==
    /\ fdt = [p \in EvProcs |-> [f \in EvFds |-> NoEntry]]
    /\ task = [p \in EvProcs |-> [AtRest EXCEPT !.st = IF p = 1 THEN "RUNNING" ELSE "NONE"]]
    /\ clock = [now |-> EvStart, gone |-> 0]
    /\ kit \in Kits

-----------------------------------------------------------------------------
(* Readiness.                                                              *)

Wrap(n) == n % TickMod
(* (int)(now - deadline) >= 0                                              *)
Elapsed(now, deadline) == Wrap(now - deadline) < TickMod \div 2
TimerfdReadyAt(ent, now) == ent.kind = "timer" /\ ent.deadline # 0 /\ Elapsed(now, ent.deadline)
SignalfdReady(ent) == ent.kind = "signal" /\ ent.obj /\ ent.pend \cap ent.mask # {}
(* process_handle_special_poll: an epoll descriptor is always in error, as *)
(* is a number nothing is open on.                                         *)
SpecialPoll(ent) ==
    CASE ent.kind = "timer" -> TimerfdReadyAt(ent, clock.now)
      [] ent.kind = "signal" -> SignalfdReady(ent)
      [] OTHER -> TRUE

(* wait_queue_wake_all on the object of descriptor f of p.                 *)
WakeFd(t, f) ==
    IF f \in t.waits /\ t.st \in {"WAITING", "SLEEPING"} THEN [t EXCEPT !.st = "RUNNING"] ELSE t

Idle(p, call) ==
    /\ task[p].st = "RUNNING" /\ task[p].call = "idle"
    /\ call \in kit.calls /\ kit.most > 0 /\ kit' = [kit EXCEPT !.most = @ - 1]
InCall(p, call) == task[p].st = "RUNNING" /\ task[p].call = call /\ UNCHANGED kit

-----------------------------------------------------------------------------
(* Opening, arming, duplicating and closing.                               *)

(* process_fd_open_special takes the lowest free number.                   *)
FreeFd(p) == {f \in EvFds : fdt[p][f].kind = "none" /\ \A g \in EvFds : g < f => fdt[p][g].kind # "none"}
OpenSpecial(p, kind) ==
    /\ Idle(p, "open " \o kind)
    /\ \E f \in FreeFd(p) :
          fdt' = [fdt EXCEPT ![p][f] =
                     [NoEntry EXCEPT !.kind = kind, !.obj = kind = "signal",
                                     !.mask = IF kind = "signal" THEN EvSignals ELSE {}]]
    /\ UNCHANGED <<task, clock>>
(* process_fd_set_signalfd_mask                                            *)
SetSignalfdMask(p, f, mask) ==
    /\ Idle(p, "mask") /\ fdt[p][f].kind = "signal"
    /\ fdt' = [fdt EXCEPT ![p][f].obj = TRUE, ![p][f].mask = mask, ![p][f].pend = @ \cap mask]
    /\ UNCHANGED <<task, clock>>
(* sys_timerfd_settime_impl: a first expiration of 0 disarms.  base and    *)
(* got are history variables: when the timer first expires, in ticks since *)
(* the start, and the expirations its reads have returned.                 *)
TimerfdSettime(p, f, first, interval) ==
    /\ Idle(p, "settime") /\ fdt[p][f].kind = "timer"
    /\ fdt' = [fdt EXCEPT ![p][f].interval = interval,
                          ![p][f].base = clock.gone + first, ![p][f].got = 0,
                          ![p][f].deadline = IF first = 0 THEN 0 ELSE Wrap(clock.now + first)]
    /\ UNCHANGED <<task, clock>>
(* process_fd_share_ref: the copy of an entry made by dup or fork has no   *)
(* object of its own yet.                                                  *)
ShareRef(ent) == [ent EXCEPT !.obj = FALSE, !.mask = {}, !.pend = {}, !.watch = {}]
FdDup(p, f) ==
    /\ Idle(p, "dup") /\ fdt[p][f].kind # "none"
    /\ \E g \in FreeFd(p) : fdt' = [fdt EXCEPT ![p][g] = ShareRef(fdt[p][f])]
    /\ UNCHANGED <<task, clock>>
CopyFdTable(p, q) ==
    /\ Idle(p, "fork") /\ task[q].st = "NONE"
    /\ fdt' = [fdt EXCEPT ![q] = [f \in EvFds |-> ShareRef(fdt[p][f])]]
    /\ task' = [task EXCEPT ![q].st = "RUNNING"]
    /\ UNCHANGED clock
(* process_handle_special_close                                            *)
SpecialClose(p, f) ==
    /\ Idle(p, "close") /\ fdt[p][f].kind # "none"
    /\ fdt' = [fdt EXCEPT ![p][f] = NoEntry]
    /\ task' = [task EXCEPT ![p] = WakeFd(@, f)]
    /\ UNCHANGED clock
(* sys_epoll_ctl_impl: watches are kept by number.                         *)
EpollCtl(p, e, op, f) ==
    /\ Idle(p, "ctl") /\ fdt[p][e].kind = "epoll" /\ fdt[p][f].kind # "none" /\ f # e
    /\ \/ /\ op = "add" /\ f \notin fdt[p][e].watch
          /\ fdt' = [fdt EXCEPT ![p][e].watch = @ \cup {f}, ![p][e].obj = TRUE]
       \/ /\ op = "del" /\ fdt[p][e].obj /\ f \in fdt[p][e].watch
          /\ fdt' = [fdt EXCEPT ![p][e].watch = @ \ {f}]
    /\ UNCHANGED <<task, clock>>

-----------------------------------------------------------------------------
(* Reading.                                                                *)

(* timerfd_consume: every expiration up to now is counted once.            *)
TimerfdConsume(ent) ==
    IF ent.interval = 0 THEN [ent EXCEPT !.deadline = 0, !.got = @ + 1]
    ELSE LET n == 1 + Wrap(clock.now - ent.deadline) \div ent.interval IN
         [ent EXCEPT !.deadline = Wrap(@ + n * ent.interval), !.got = @ + n]
(* signalfd_consume: the lowest pending signal.                            *)
SignalfdConsume(ent) ==
    LET s == CHOOSE s \in ent.pend \cap ent.mask : \A t \in ent.pend \cap ent.mask : s <= t IN
    [ent EXCEPT !.pend = @ \ {s}]

(* process_handle_special_read: waits on the entry's own object, made now  *)
(* if it has none.                                                         *)
SpecialRead(p, f, nb) ==
    LET ent == fdt[p][f]
        got == IF ent.kind = "timer" THEN TimerfdConsume(ent) ELSE SignalfdConsume(ent) IN
    /\ ent.kind \in {"timer", "signal"}
    /\ \/ Idle(p, "read")
       \/ InCall(p, "read") /\ task[p].fd = f /\ ~nb
    /\ IF SpecialPoll(ent)
       THEN /\ fdt' = [fdt EXCEPT ![p][f] = got]
            /\ task' = [task EXCEPT ![p] = AtRest]
       ELSE IF nb THEN task' = task /\ UNCHANGED fdt
       ELSE /\ task' = [task EXCEPT ![p] = [AtRest EXCEPT !.st = "WAITING", !.call = "read",
                                                          !.fd = f, !.waits = {f}]]
            /\ fdt' = [fdt EXCEPT ![p][f].obj = TRUE]
    /\ UNCHANGED clock

-----------------------------------------------------------------------------
(* Waiting.                                                                *)

(* epoll_register_fd_waits, sys_poll_register_fd_waits: process_fd_wait on *)
(* every descriptor that is open, an object made for each.                 *)
RegisterWaits(p, watch) == {f \in watch : fdt[p][f].kind \in {"timer", "signal"}}
Snapshot(p, watch) == \E f \in watch : SpecialPoll(fdt[p][f])

(* sys_epoll_wait_impl and sys_poll_impl: timeout is 0, a number of ticks  *)
(* or Forever (-1).                                                        *)
Forever == 0 - 1
Waits(p, e, call, watch, timeout) ==
    LET begins == task[p].call = "idle"
        until == IF begins THEN (IF timeout = Forever THEN 0 ELSE Wrap(clock.now + timeout))
                 ELSE task[p].until
        sleeps == timeout # Forever /\ (call = "epoll" => until # 0)
        waits == RegisterWaits(p, watch) IN
    /\ IF Snapshot(p, watch) \/ (timeout # Forever /\ Elapsed(clock.now, until))
       THEN task' = [task EXCEPT ![p] = AtRest] /\ UNCHANGED fdt
       ELSE /\ task' = [task EXCEPT ![p] =
                           [st |-> IF sleeps THEN "SLEEPING" ELSE "WAITING",
                            call |-> IF timeout = Forever THEN call ELSE "timed " \o call,
                            fd |-> e, until |-> until, waits |-> waits]]
            /\ fdt' = [fdt EXCEPT ![p] = [f \in EvFds |->
                          IF f \in waits THEN [fdt[p][f] EXCEPT !.obj = TRUE] ELSE fdt[p][f]]]
    /\ UNCHANGED clock
EpollWait(p, e, timeout) ==
    /\ fdt[p][e].kind = "epoll"
    /\ Idle(p, "epoll") \/ (InCall(p, "epoll") /\ task[p].fd = e /\ timeout = Forever)
       \/ (InCall(p, "timed epoll") /\ task[p].fd = e /\ timeout = 0)
    /\ Waits(p, e, "epoll", fdt[p][e].watch, timeout)
Poll(p, f, timeout) ==
    /\ fdt[p][f].kind # "none"
    /\ Idle(p, "poll") \/ (InCall(p, "poll") /\ task[p].fd = f /\ timeout = Forever)
       \/ (InCall(p, "timed poll") /\ task[p].fd = f /\ timeout = 0)
    /\ Waits(p, f, "poll", {f}, timeout)

-----------------------------------------------------------------------------
(* process_signal_deliver, by another process, the console or a terminal.  *)
SignalDeliver(p, s) ==
    /\ kit.signals > 0 /\ kit' = [kit EXCEPT !.signals = @ - 1]
    /\ task[p].st # "NONE"
    /\ LET hit == {f \in EvFds : fdt[p][f].kind = "signal" /\ fdt[p][f].obj /\ s \in fdt[p][f].mask} IN
       /\ hit # {}
       /\ fdt' = [fdt EXCEPT ![p] = [f \in EvFds |->
                     IF f \notin hit THEN fdt[p][f]
                     ELSE [fdt[p][f] EXCEPT !.pend = @ \cup {s}]]]
       /\ task' = [task EXCEPT ![p] = IF hit \cap task[p].waits # {}
                                      THEN WakeFd(@, CHOOSE f \in hit \cap task[p].waits : TRUE) ELSE @]
    /\ UNCHANGED clock

(* sched_wake_sleepers with process_wake_timerfds, at every tick.          *)
WakeTimerfds(p, now) ==
    LET rung == {f \in EvFds : TimerfdReadyAt(fdt[p][f], now) /\ fdt[p][f].obj} IN
    IF rung \cap task[p].waits # {} THEN WakeFd(task[p], CHOOSE f \in rung \cap task[p].waits : TRUE)
    ELSE task[p]
EvTick ==
    LET now == Wrap(clock.now + 1) IN
    /\ clock.gone < EvTicks
    /\ clock' = [now |-> now, gone |-> clock.gone + 1]
    /\ task' = [p \in EvProcs |->
                   LET t == WakeTimerfds(p, now) IN
                   IF t.st = "SLEEPING" /\ Elapsed(now, t.until) THEN [t EXCEPT !.st = "RUNNING"] ELSE t]
    /\ UNCHANGED <<fdt, kit>>

EvNext ==
    \/ EvTick
    \/ \E p \in EvProcs :
          \/ \E kind \in {"timer", "signal", "epoll"} : OpenSpecial(p, kind)
          \/ \E s \in EvSignals : SignalDeliver(p, s)
          \/ \E q \in EvProcs : CopyFdTable(p, q)
          \/ \E f \in EvFds :
                \/ \E s \in EvSignals : SetSignalfdMask(p, f, {s})
                \/ \E first, interval \in Periods : TimerfdSettime(p, f, first, interval)
                \/ FdDup(p, f) \/ SpecialClose(p, f)
                \/ \E e \in EvFds, op \in {"add", "del"} : EpollCtl(p, e, op, f)
                \/ \E nb \in BOOLEAN : SpecialRead(p, f, nb)
                \/ \E timeout \in Periods \cup {Forever} : EpollWait(p, f, timeout) \/ Poll(p, f, timeout)

EvSpec == EvInit /\ [][EvNext]_evVars

-----------------------------------------------------------------------------
(* Whatever order timers expire, signals arrive, descriptors are copied    *)
(* and waits begin in, a process that sleeps in a read, a poll or an       *)
(* epoll_wait has nothing it waits for ready: each object it waits on      *)
(* exists and wakes it.                                                    *)
Watched(p) ==
    LET t == task[p] IN IF t.call \in {"epoll", "timed epoll"} THEN fdt[p][t.fd].watch ELSE {t.fd}
EventsWake ==
    \A p \in EvProcs :
        task[p].call # "idle" /\ task[p].st \in {"WAITING", "SLEEPING"} => ~Snapshot(p, Watched(p))

(* Every expiration of a timer is returned by exactly one read, however    *)
(* late the read, and across the wrap of the tick counter: what the reads  *)
(* have returned and what the next one would return make up the times the  *)
(* timer expired since it was armed.  (A deadline that falls on tick 0     *)
(* reads as a timer that is not armed.)                                    *)
Expired(ent) ==
    IF clock.gone < ent.base THEN 0
    ELSE IF ent.interval = 0 THEN 1 ELSE 1 + (clock.gone - ent.base) \div ent.interval
ExpirationsExact ==
    \A p \in EvProcs, f \in EvFds :
        LET ent == fdt[p][f] IN
        ent.kind = "timer" /\ ent.deadline # 0 =>
            Expired(ent) = IF TimerfdReadyAt(ent, clock.now) THEN TimerfdConsume(ent).got ELSE ent.got
=============================================================================
