------------------------------- MODULE Sched -------------------------------
(***************************************************************************)
(* The life of processes on the single CPU: the timer tick, the system     *)
(* calls that create, stop, kill and wait for processes, Ctrl+C and Ctrl+Z *)
(* on the console, and the kernel tasks tcp, reaper and bootseq.           *)
(*                                                                         *)
(* Atomicity.  Every IDT gate clears IF, so an interrupt handler, and a    *)
(* system call up to its next "sti; hlt", is one action; a loop over a     *)
(* process group is one LoopStep per member, with interrupts still off     *)
(* (loop.op # "none").  Kernel tasks run with IF set, so each of their     *)
(* accesses to shared state is an action of its own and a tick can fall    *)
(* between any two.  halted says the CPU is in "sti; hlt".                 *)
(***************************************************************************)
EXTENDS Integers, Sequences, FiniteSets

(***************************************************************************)
(* The run queue of scheduler.c and the process states it reads, as        *)
(* operators on one record k:                                              *)
(*                                                                         *)
(*   table, cur, tick   s_table[0..s_count-1], s_current_idx + 1 (0 is     *)
(*                      -1) and s_tick_count                               *)
(*   running            the task whose stack the CPU is really on: what    *)
(*                      the last sched_switch() loaded                     *)
(*   panic              the machine stopped in a "cli; hlt" loop, or       *)
(*                      sched_switch() returned through a bad frame        *)
(*   state, esp         the process_t fields state and sched_esp           *)
(*   until              sleep_until - timer_get_ticks(), 0 once reached:   *)
(*                      what the wrap-safe test (int)(now - sleep_until)   *)
(*                      >= 0 tells while fewer than 2^31 ticks pass        *)
(*   parent, pgid, claimed, reported                                       *)
(*                      parent_pid, pgid, reaper_claimed, stop_reported    *)
(*   reader, fgpg       s_foreground_reader and s_foreground_pgid          *)
(*                                                                         *)
(* A saved stack pointer is "frame" (the resume-frame base that            *)
(* sched_switch can return through), "raw" (the register block of a        *)
(* system call, eight bytes above it) or "none" (zero).                    *)
(***************************************************************************)

CONSTANTS
    Users,       \* user processes, numbered as their pids 1..N
    Kernel,      \* kernel tasks (no page directory, no parent)
    Quantum,     \* SCHED_TICKS_PER_QUANTUM
    MaxProcs     \* SCHED_MAX_PROCS

NoProc == 0

Procs == Users \cup Kernel

ASSUME SchedAssumption ==
    /\ Users \subseteq Nat \ {0}
    /\ Users \cap Kernel = {}
    /\ NoProc \notin Kernel
    /\ Quantum \in Nat \ {0}
    /\ MaxProcs \in Nat \ {0}

(* The registry holds exactly the processes created and not yet destroyed. *)
Registered(k, p) == k.state[p] \notin {"FREE", "EXITED"}

Queued(k) == {k.table[i] : i \in DOMAIN k.table}

Eligible(k, i) ==
    /\ k.state[k.table[i]] = "RUNNING"
    /\ k.esp[k.table[i]] # "none"

(* sched_find_next_runnable_from: the first eligible slot in the cyclic    *)
(* order that begins at start, 0 when there is none.                       *)
FindNext(k, start) ==
    LET n == Len(k.table)
        Dist(i) == IF i >= start THEN i - start ELSE i + n - start
        S == {i \in 1..n : Eligible(k, i)}
    IN IF S = {} THEN 0
       ELSE CHOOSE i \in S : \A j \in S : Dist(i) <= Dist(j)

(* sched_switch: the CPU continues on the stack saved in slot i.           *)
SwitchTo(k, i) ==
    [k EXCEPT !.cur = i,
              !.running = k.table[i],
              !.panic = k.esp[k.table[i]] = "raw"]

DoSwitch(k, esp) ==
    LET n == Len(k.table)
        saved == [k EXCEPT !.esp[k.table[k.cur]] = esp]
        next == FindNext(saved, (k.cur % n) + 1)
    IN IF k.cur \notin 1..n THEN k
       ELSE IF n <= 1 \/ next \in {0, k.cur} THEN saved
       ELSE SwitchTo(saved, next)

(* One timer tick brings every deadline one tick closer.                   *)
Elapse(k) == [k EXCEPT !.until = [p \in Procs |-> IF @[p] = 0 THEN 0 ELSE @[p] - 1]]

WakeSleepers(k) ==
    LET Due == {p \in Queued(k) : k.state[p] = "SLEEPING" /\ k.until[p] = 0}
    IN [k EXCEPT
         !.state = [p \in Procs |-> IF p \in Due THEN "RUNNING" ELSE @[p]]]

(* sched_tick: deadlines first, so that a task due now can be chosen.      *)
SchedTick(k) ==
    LET a == [Elapse(k) EXCEPT !.tick = @ + 1,
                               !.esp[k.table[k.cur]] = "frame"]
        b == WakeSleepers(a)
    IN IF \/ b.state[b.table[b.cur]] # "RUNNING"
          \/ b.tick >= Quantum
       THEN DoSwitch([b EXCEPT !.tick = 0], "frame")
       ELSE b

SchedYieldNow(k, esp) == DoSwitch([k EXCEPT !.tick = 0], esp)

CanEnqueue(k) == Len(k.table) < MaxProcs

SchedEnqueue(k, p) == [k EXCEPT !.table = Append(@, p)]

(* sched_dequeue: close the gap and keep s_current_idx on the same task.   *)
SchedDequeue(k, p) ==
    LET n == Len(k.table)
        idx == CHOOSE i \in 1..n : k.table[i] = p
    IN IF p \notin Queued(k) THEN k
       ELSE [k EXCEPT
              !.table = [i \in 1..(n-1) |-> IF i < idx THEN @[i] ELSE @[i+1]],
              !.cur = IF n = 1 THEN 0
                      ELSE IF idx < @ THEN @ - 1
                      ELSE IF @ > n - 1 THEN 1
                      ELSE @,
              !.tick = 0]

(* A wake-up that looks for a sleeping instead of a waiting parent.        *)
MutWakeParent(k, child) ==
    LET q == k.parent[child]
    IN IF q \in Procs /\ k.state[q] = "SLEEPING"
       THEN [k EXCEPT !.state[q] = "RUNNING", !.until[q] = 0]
       ELSE k

(* process_wake_parent_waiter: only a parent that is WAITING is woken.     *)
WakeParent(k, child) ==
    LET q == k.parent[child]
    IN IF q \in Procs /\ k.state[q] = "WAITING"
       THEN [k EXCEPT !.state[q] = "RUNNING", !.until[q] = 0]
       ELSE k


(* Release, mark ZOMBIE, wake the parent, leave the run queue.             *)
Zombify(k, p) ==
    SchedDequeue(WakeParent([k EXCEPT !.state[p] = "ZOMBIE"], p), p)

SchedExitCurrent(k, esp) ==
    LET z == Zombify([k EXCEPT !.esp[k.table[k.cur]] = esp], k.table[k.cur])
        next == IF z.cur = 0 THEN 0 ELSE FindNext(z, z.cur)
    IN IF next = 0 THEN [z EXCEPT !.panic = TRUE] ELSE SwitchTo(z, next)

SchedKill(k, p, esp) ==
    IF p = k.table[k.cur] THEN SchedExitCurrent(k, esp) ELSE Zombify(k, p)

SetForeground(k, p) ==
    [k EXCEPT !.reader = p, !.fgpg = IF p = NoProc THEN 0 ELSE k.pgid[p]]

(* process_destroy: children are orphaned and lose their claim, the        *)
(* foreground slot is cleared, the process leaves the registry.            *)
ProcessDestroy(k, p) ==
    [k EXCEPT !.state[p] = "EXITED",
              !.esp[p] = "none",
              !.reader = IF @ = p THEN NoProc ELSE @,
              !.fgpg = IF k.reader = p THEN 0 ELSE @,
              !.parent = [q \in Procs |-> IF @[q] = p THEN NoProc ELSE @[q]],
              !.claimed = [q \in Procs |->
                             IF k.parent[q] = p THEN FALSE ELSE @[q]]]

(* process_stop_one and the STOPPED -> RUNNING half of SIGCONT.            *)
ProcessStopOne(k, p) ==
    IF k.state[p] \in {"ZOMBIE", "EXITED", "STOPPED"} \/ p \in Kernel THEN k
    ELSE WakeParent([k EXCEPT !.reported[p] = FALSE,
                              !.state[p] = "STOPPED"], p)

ProcessContinueOne(k, p) ==
    IF k.state[p] # "STOPPED" THEN k
    ELSE [k EXCEPT !.reported[p] = FALSE, !.state[p] = "RUNNING"]

-----------------------------------------------------------------------------

CONSTANTS
    Tcp, Reaper, Boot,   \* the kernel tasks
    InitTable, First,    \* run queue and task that sched_start() begins with
    ReapInterval,        \* ticks between two scans of the reaper
    SleepTimes,          \* arguments user programs give to SYS_SLEEP
    Calls                \* names of the system calls user programs make

VARIABLES
    k,        \* the kernel record (above)
    pc,       \* where each process's kernel code stands
    halted,   \* the CPU waits in hlt with interrupts enabled
    loop      \* the group loop in progress, interrupts disabled

vars == <<k, pc, halted, loop>>

At(a, x, b) == [at |-> a, pid |-> x, untr |-> b]
Pc(a) == At(a, 0, FALSE)
NoLoop == [op |-> "none", todo |-> <<>>, hit |-> FALSE, pending |-> FALSE]

InQueue(p) == \E i \in DOMAIN InitTable : InitTable[i] = p

ASSUME TaskAssumption ==
    /\ {Tcp, Reaper, Boot} \subseteq Kernel
    /\ InQueue(Tcp) /\ InQueue(First)
    /\ \A i, j \in DOMAIN InitTable : InitTable[i] = InitTable[j] => i = j
    /\ ReapInterval \in Nat \ {0}
    /\ SleepTimes \subseteq Nat \ {0}

(* sched_start() has loaded the first task; the other initial tasks have   *)
(* seeded stacks and no parent.                                            *)
Init ==
    /\ k = [table |-> InitTable, tick |-> 0,
            cur |-> CHOOSE i \in DOMAIN InitTable : InitTable[i] = First,
            running |-> First, panic |-> FALSE,
            state |-> [p \in Procs |-> IF InQueue(p) THEN "RUNNING" ELSE "FREE"],
            until |-> [p \in Procs |-> 0],
            esp |-> [p \in Procs |-> IF InQueue(p) THEN "frame" ELSE "none"],
            parent |-> [p \in Procs |-> NoProc],
            pgid |-> [p \in Procs |-> IF p \in Users THEN p ELSE 0],
            claimed |-> [p \in Procs |-> FALSE],
            reported |-> [p \in Procs |-> FALSE],
            reader |-> NoProc, fgpg |-> 0]
    /\ pc = [p \in Procs |-> IF p \in Users THEN Pc("user")
                             ELSE IF p = Reaper THEN Pc("scan")
                             ELSE IF p = Boot THEN Pc("spawn")
                             ELSE Pc("deadline")]
    /\ halted = FALSE
    /\ loop = NoLoop

-----------------------------------------------------------------------------
(* Who may take the next step.                                             *)
Enabled == loop.op = "none" /\ ~k.panic
On(p, at) == Enabled /\ ~halted /\ k.running = p /\ pc[p].at = at
Goto(p, where) == pc' = [pc EXCEPT ![p] = where]

(* irq0_handler_main: count the tick and run the scheduler.                *)
Tick ==
    /\ Enabled
    /\ k' = SchedTick(k)
    /\ halted' = FALSE
    /\ UNCHANGED <<pc, loop>>

-----------------------------------------------------------------------------
(* System calls of a user process p.                                       *)
Call(p, name) == p \in Users /\ name \in Calls /\ On(p, "user")

SysExit(p) ==
    /\ Call(p, "exit")
    /\ k' = SchedExitCurrent(k, "raw")
    /\ UNCHANGED <<pc, halted, loop>>

(* A new child c of p, not yet queued: what process_create,                *)
(* process_init_user_group and the fork copies leave behind.               *)
NewChild(p, c, group) ==
    [k EXCEPT !.state[c] = "RUNNING", !.esp[c] = "frame",
              !.parent[c] = p, !.pgid[c] = group]

(* sys_fork_impl: the child joins the parent's group and is claimed for    *)
(* its waitpid before any other task can run.                              *)
SysFork(p, c) ==
    /\ Call(p, "fork")
    /\ k.state[c] = "FREE"
    /\ LET new == NewChild(p, c, k.pgid[p])
       IN k' = IF CanEnqueue(k)
               THEN [SchedEnqueue(new, c) EXCEPT !.claimed[c] = TRUE]
               ELSE ProcessDestroy(new, c)
    /\ UNCHANGED <<pc, halted, loop>>

(* sys_exec_fg_impl on the console: a child in a group of its own that     *)
(* takes the foreground.                                                   *)
SysExecFg(p, c) ==
    /\ Call(p, "exec_fg")
    /\ k.state[c] = "FREE"
    /\ LET new == NewChild(p, c, c)
       IN k' = IF CanEnqueue(k)
               THEN SetForeground([SchedEnqueue(new, c) EXCEPT
                                     !.claimed[c] = TRUE], c)
               ELSE ProcessDestroy(new, c)
    /\ UNCHANGED <<pc, halted, loop>>

Matches(p, c, pid) == c \in Users /\ k.parent[c] = p /\ pid \in {0, c}

(* The loop body of process_wait_pid, from the top to its return or to     *)
(* "sti; hlt; cli".  pid 0 stands for -1, any child.                       *)
WaitBody(p, pid, untr, nohang) ==
    LET Z == {c \in Users : Matches(p, c, pid) /\ k.state[c] = "ZOMBIE"}
        S == {c \in Users : /\ untr /\ Matches(p, c, pid)
                            /\ k.state[c] = "STOPPED" /\ ~k.reported[c]}
    IN \/ \E c \in Z :
            /\ k' = ProcessDestroy(SchedDequeue(k, c), c)
            /\ Goto(p, Pc("user"))
            /\ halted' = FALSE
       \/ \E c \in S :
            /\ Z = {}
            /\ k' = [k EXCEPT !.reported[c] = TRUE]
            /\ Goto(p, Pc("user"))
            /\ halted' = FALSE
       \/ /\ Z \cup S = {}
          /\ nohang
          /\ UNCHANGED <<k, halted>>
          /\ Goto(p, Pc("user"))
       \/ /\ Z \cup S = {}
          /\ ~nohang
          /\ k' = [k EXCEPT !.state[p] = "WAITING"]
          /\ Goto(p, At("waitpid", pid, untr))
          /\ halted' = TRUE

SysWaitpid(p, pid, untr, nohang) ==
    /\ Call(p, "waitpid")
    /\ \E c \in Users : Matches(p, c, pid) /\ Registered(k, c)
    /\ WaitBody(p, pid, untr, nohang)
    /\ UNCHANGED loop

WaitpidResume(p) ==
    /\ On(p, "waitpid")
    /\ WaitBody(p, pc[p].pid, pc[p].untr, FALSE)
    /\ UNCHANGED loop

(* sys_waitpid_fg_impl on the console: the child leads its own group and   *)
(* owns the foreground; the first check runs with interrupts off.          *)
FgLoopHead(kk, p, c) ==
    IF kk.state[c] = "ZOMBIE"
    THEN /\ k' = ProcessDestroy(SetForeground(kk, p), c)
         /\ Goto(p, Pc("user"))
         /\ halted' = FALSE
    ELSE /\ k' = [kk EXCEPT !.state[p] = "WAITING"]
         /\ Goto(p, At("fgcheck", c, FALSE))
         /\ halted' = TRUE

SysWaitpidFg(p, c) ==
    /\ Call(p, "waitpid_fg")
    /\ Matches(p, c, c) /\ Registered(k, c)
    /\ FgLoopHead(SetForeground([k EXCEPT !.pgid[c] = c, !.claimed[c] = TRUE], c),
                  p, c)
    /\ UNCHANGED loop

(* After its first hlt the loop of process_wait_restore_foreground runs    *)
(* with interrupts on: reading the child's state and marking oneself       *)
(* WAITING are separate steps.                                             *)
FgCheck(p) ==
    /\ On(p, "fgcheck")
    /\ Goto(p, At(IF k.state[pc[p].pid] = "ZOMBIE" THEN "fgdone" ELSE "fgwait",
                  pc[p].pid, FALSE))
    /\ UNCHANGED <<k, halted, loop>>

FgWait(p) ==
    /\ On(p, "fgwait")
    /\ k' = [k EXCEPT !.state[p] = "WAITING"]
    /\ Goto(p, At("fgcheck", pc[p].pid, FALSE))
    /\ halted' = TRUE
    /\ UNCHANGED loop

FgDone(p) ==
    /\ On(p, "fgdone")
    /\ k' = ProcessDestroy(SetForeground(k, p), pc[p].pid)
    /\ Goto(p, Pc("user"))
    /\ UNCHANGED <<halted, loop>>

(* sys_sleep_impl, and the hlt loop of sys_wait_until_current_running.     *)
SysSleep(p, n) ==
    /\ Call(p, "sleep")
    /\ k' = [k EXCEPT !.until[p] = n,
                      !.state[p] = "SLEEPING"]
    /\ Goto(p, Pc("sleep"))
    /\ UNCHANGED <<halted, loop>>

SleepLoop(p) ==
    /\ On(p, "sleep")
    /\ IF k.state[p] = "RUNNING"
       THEN Goto(p, Pc("user")) /\ halted' = FALSE
       ELSE UNCHANGED pc /\ halted' = TRUE
    /\ UNCHANGED <<k, loop>>

SysYield(p) ==
    /\ Call(p, "yield")
    /\ halted' = TRUE
    /\ UNCHANGED <<k, pc, loop>>

-----------------------------------------------------------------------------
(* Signals to one process.  A target without a page directory (a kernel    *)
(* task) or already a zombie is refused.                                   *)
Target(q) == q \in Users /\ Registered(k, q) /\ k.state[q] # "ZOMBIE"

SysKill(p, q) ==
    /\ Call(p, "kill")
    /\ Target(q)
    /\ k' = SchedKill(k, q, "raw")
    /\ UNCHANGED <<pc, halted, loop>>

SysStop(p, q) ==
    /\ Call(p, "stop")
    /\ Target(q)
    /\ q = p => "stop_self" \in Calls
    /\ LET s == ProcessStopOne(k, q)
       IN k' = IF q = p THEN SchedYieldNow(s, "raw") ELSE s
    /\ UNCHANGED <<pc, halted, loop>>

SysCont(p, q) ==
    /\ Call(p, "cont")
    /\ Target(q)
    /\ k' = ProcessContinueOne(k, q)
    /\ UNCHANGED <<pc, halted, loop>>

(* Signals to a group: sched_snapshot_process_group, then a loop.          *)
Snapshot(g) == SelectSeq(k.table, LAMBDA q : k.pgid[q] = g)

SysGroup(p, g, op) ==
    /\ Call(p, op)
    /\ op = "gstop" /\ g = k.pgid[p] => "stop_self" \in Calls
    /\ loop' = [NoLoop EXCEPT !.op = op, !.todo = Snapshot(g)]
    /\ UNCHANGED <<k, pc, halted>>

(* Keyboard interrupt: Ctrl+C or Ctrl+Z reaches process_key_consumer.      *)
Key(op) ==
    /\ Enabled
    /\ op \in Calls
    /\ k.fgpg # 0
    /\ op = "ctrlz" => k.reader # NoProc
    /\ loop' = [NoLoop EXCEPT !.op = op, !.todo = Snapshot(k.fgpg)]
    /\ halted' = FALSE
    /\ UNCHANGED <<k, pc>>

(* One iteration of process_group_force_exit.  Killing the current process *)
(* never returns: the rest of the snapshot is abandoned.                   *)
LoopKill ==
    LET q == Head(loop.todo)
        rest == [loop EXCEPT !.todo = Tail(@), !.hit = TRUE]
    IN /\ loop.op \in {"gkill", "ctrlc"}
       /\ loop.todo # <<>>
       /\ \/ /\ k.state[q] = "ZOMBIE"
             /\ loop' = [loop EXCEPT !.todo = Tail(@)]
             /\ UNCHANGED k
          \/ /\ k.state[q] # "ZOMBIE"
             /\ loop.op = "ctrlc" /\ q = k.running
             /\ loop' = [rest EXCEPT !.pending = TRUE]
             /\ UNCHANGED k
          \/ /\ k.state[q] # "ZOMBIE"
             /\ ~(loop.op = "ctrlc" /\ q = k.running)
             /\ k' = SchedKill(k, q, "none")
             /\ loop' = IF q = k.running THEN NoLoop ELSE rest
       /\ UNCHANGED <<pc, halted>>

(* One iteration of process_group_stop and of process_group_continue.      *)
LoopStop ==
    LET q == Head(loop.todo)
        s == ProcessStopOne(k, q)
    IN /\ loop.op \in {"gstop", "ctrlz"}
       /\ loop.todo # <<>>
       /\ k' = s
       /\ loop' = [loop EXCEPT !.todo = Tail(@),
                               !.hit = @ \/ s # k,
                               !.pending = @ \/ (s # k /\ q = k.running)]
       /\ UNCHANGED <<pc, halted>>

LoopCont ==
    /\ loop.op = "gcont"
    /\ loop.todo # <<>>
    /\ k' = ProcessContinueOne(k, Head(loop.todo))
    /\ loop' = [loop EXCEPT !.todo = Tail(@)]
    /\ UNCHANGED <<pc, halted>>

(* After the loop: a system call returns, after a stop of its own caller   *)
(* through sched_yield_now(regs); a key gives up the foreground and        *)
(* process_deliver_pending_terminal_interrupt acts on the current process. *)
LoopEnd ==
    LET freed == SetForeground(k, NoProc)
    IN /\ loop.op # "none"
       /\ loop.todo = <<>>
       /\ k' = CASE loop.op \in {"gkill", "gcont"} -> k
                 [] loop.op = "gstop" ->
                      IF loop.hit /\ k.state[k.running] = "STOPPED"
                      THEN SchedYieldNow(k, "raw") ELSE k
                 [] loop.op = "ctrlz" ->
                      IF loop.pending THEN SchedYieldNow(freed, "frame")
                      ELSE freed
                 [] loop.op = "ctrlc" ->
                      IF loop.pending THEN SchedExitCurrent(freed, "frame")
                      ELSE IF loop.hit THEN freed ELSE k
       /\ loop' = NoLoop
       /\ UNCHANGED <<pc, halted>>

GroupLoop == LoopKill \/ LoopStop \/ LoopCont \/ LoopEnd

-----------------------------------------------------------------------------
(* Kernel tasks, interruptible between any two steps.                      *)
Deadline(t, n) ==
    /\ On(t, "deadline")
    /\ k' = [k EXCEPT !.until[t] = n]
    /\ Goto(t, Pc("sleep"))
    /\ UNCHANGED <<halted, loop>>

Sleep(t) ==
    /\ On(t, "sleep")
    /\ k' = [k EXCEPT !.state[t] = "SLEEPING"]
    /\ Goto(t, Pc("hlt"))
    /\ UNCHANGED <<halted, loop>>

Halt(t, after) ==
    /\ On(t, "hlt")
    /\ halted' = TRUE
    /\ Goto(t, At(after, pc[t].pid, FALSE))
    /\ UNCHANGED <<k, loop>>

(* A tcp service that asks for three ticks between two polls.              *)
MutTcpThreeTicks == Deadline(Tcp, 3) \/ Sleep(Tcp) \/ Halt(Tcp, "deadline")

(* tcp_service_main: drain the NIC, then sleep until the next tick.        *)
TcpTask == Deadline(Tcp, 1) \/ Sleep(Tcp) \/ Halt(Tcp, "deadline")

(* process_reap_unclaimed_zombies walks the registry downwards; pc.pid is  *)
(* the slot it looks at, 0 before the scan starts.                         *)
Slots == Cardinality(Users)

ScanStart ==
    /\ On(Reaper, "scan")
    /\ Goto(Reaper, At("slot", Slots, FALSE))
    /\ UNCHANGED <<k, halted, loop>>

(* A scan that forgets to skip processes claimed for a wait.               *)
MutScanIgnoresClaim ==
    LET i == pc[Reaper].pid
    IN /\ On(Reaper, "slot")
       /\ Goto(Reaper, IF i = 0 THEN Pc("deadline")
                       ELSE IF k.state[i] = "ZOMBIE" THEN At("reap", i, FALSE)
                       ELSE At("slot", i - 1, FALSE))
       /\ UNCHANGED <<k, halted, loop>>

ScanSlot ==
    LET i == pc[Reaper].pid
    IN /\ On(Reaper, "slot")
       /\ Goto(Reaper, IF i = 0 THEN Pc("deadline")
                       ELSE IF k.state[i] = "ZOMBIE" /\ ~k.claimed[i]
                       THEN At("reap", i, FALSE)
                       ELSE At("slot", i - 1, FALSE))
       /\ UNCHANGED <<k, halted, loop>>

ScanReap ==
    LET i == pc[Reaper].pid
    IN /\ On(Reaper, "reap")
       /\ k' = ProcessDestroy(SchedDequeue(k, i), i)
       /\ Goto(Reaper, At("slot", i - 1, FALSE))
       /\ UNCHANGED <<halted, loop>>

ReaperTask ==
    \/ ScanStart \/ ScanSlot \/ ScanReap
    \/ Deadline(Reaper, ReapInterval) \/ Sleep(Reaper)
    \/ Halt(Reaper, "scan")

(* bootseq_task_main: start login suspended, hand it the foreground, let   *)
(* it run, wait for it (process_wait_impl) and start the next one.         *)
BootSpawn ==
    /\ On(Boot, "spawn")
    /\ \/ \E c \in Users :
            /\ k.state[c] = "FREE"
            /\ CanEnqueue(k)
            /\ k' = SchedEnqueue([k EXCEPT !.state[c] = "WAITING",
                                           !.esp[c] = "frame",
                                           !.parent[c] = Boot,
                                           !.pgid[c] = c], c)
            /\ Goto(Boot, At("foreground", c, FALSE))
       \/ /\ ~CanEnqueue(k) \/ \A c \in Users : k.state[c] # "FREE"
          /\ k' = [k EXCEPT !.state[Boot] = "WAITING"]
          /\ Goto(Boot, Pc("idle"))
    /\ UNCHANGED <<halted, loop>>

BootStep(at, next, kk) ==
    /\ On(Boot, at)
    /\ k' = kk
    /\ Goto(Boot, At(next, pc[Boot].pid, FALSE))
    /\ UNCHANGED <<halted, loop>>

BootWait ==
    LET c == pc[Boot].pid
    IN \/ BootStep("foreground", "resume", SetForeground(k, c))
       \/ BootStep("resume", "claim", [k EXCEPT !.state[c] = "RUNNING"])
       \/ BootStep("claim", "check", [k EXCEPT !.claimed[c] = TRUE])
       \/ BootStep("check",
                   IF k.state[c] = "ZOMBIE" THEN "release" ELSE "mark", k)
       \/ BootStep("mark", "hlt", [k EXCEPT !.state[Boot] = "WAITING"])
       \/ Halt(Boot, "check")
       \/ BootStep("release", "destroy", SetForeground(k, NoProc))
       \/ BootStep("destroy", "spawn", ProcessDestroy(k, c))

BootIdle ==
    /\ On(Boot, "idle")
    /\ halted' = TRUE
    /\ UNCHANGED <<k, pc, loop>>

BootTask == BootSpawn \/ BootWait \/ BootIdle
-----------------------------------------------------------------------------
Return(p) ==
    \/ WaitpidResume(p)
    \/ FgCheck(p) \/ FgWait(p) \/ FgDone(p)
    \/ SleepLoop(p)

Issue(p) ==
    \/ SysExit(p)
    \/ \E c \in Users : SysFork(p, c) \/ SysExecFg(p, c) \/ SysWaitpidFg(p, c)
    \/ \E pid \in Users \cup {0}, untr, nohang \in BOOLEAN :
          SysWaitpid(p, pid, untr, nohang)
    \/ \E n \in SleepTimes : SysSleep(p, n)
    \/ SysYield(p)
    \/ \E q \in Users : SysKill(p, q) \/ SysStop(p, q) \/ SysCont(p, q)
    \/ \E g \in Users, op \in {"gkill", "gstop", "gcont"} : SysGroup(p, g, op)

Next ==
    \/ Tick
    \/ \E op \in {"ctrlc", "ctrlz"} : Key(op)
    \/ GroupLoop
    \/ TcpTask \/ ReaperTask \/ BootTask
    \/ \E p \in Users : Issue(p) \/ Return(p)

Spec == Init /\ [][Next]_vars

(* The timer keeps ticking.  A task that is given the CPU again and again  *)
(* executes some instruction between two ticks, hence strong fairness for  *)
(* the code that a tick can preempt.  User programs owe nothing: they may  *)
(* compute forever and never make a system call.  A condition under []<>   *)
(* is the ENABLED of its action, which TLC evaluates slowly, written out.  *)
OnCpu(p) == Enabled /\ ~halted /\ k.running = p

Fairness ==
    /\ []<>Enabled => []<><<Tick>>_vars
    /\ []<>(loop.op # "none") => []<><<GroupLoop>>_vars
    /\ SF_vars(TcpTask)
    /\ []<>OnCpu(Reaper) => []<><<ReaperTask>>_vars
    /\ []<>OnCpu(Boot) => []<><<BootTask>>_vars
    /\ \A p \in Users :
         []<>(OnCpu(p) /\ pc[p].at # "user") => []<><<Return(p)>>_vars

FairSpec == Spec /\ Fairness

-----------------------------------------------------------------------------
States == {"FREE", "RUNNING", "WAITING", "SLEEPING", "STOPPED", "ZOMBIE", "EXITED"}
Live == {"RUNNING", "WAITING", "SLEEPING", "STOPPED"}

(* The types of the scheduler's and the processes' state.                  *)
TypeOK ==
    /\ k.table \in Seq(Procs)
    /\ k.cur \in 0..Len(k.table)
    /\ k.tick \in 0..(Quantum - 1)
    /\ k.running \in Procs
    /\ k.panic \in BOOLEAN
    /\ k.state \in [Procs -> States]
    /\ k.until \in [Procs -> Nat]
    /\ k.esp \in [Procs -> {"none", "frame", "raw"}]
    /\ k.parent \in [Procs -> Procs \cup {NoProc}]
    /\ k.pgid \in [Procs -> Users \cup {0}]
    /\ k.claimed \in [Procs -> BOOLEAN]
    /\ k.reported \in [Procs -> BOOLEAN]
    /\ k.reader \in Users \cup {NoProc}
    /\ k.fgpg \in Users \cup {0}
    /\ halted \in BOOLEAN

(* sched_exit_current() never runs out of tasks: whatever exits, is killed *)
(* or stopped, another task is eligible, so "no eligible next task after   *)
(* exit" is never reached and no switch returns through a bad frame.       *)
NoHalt == ~k.panic

(* s_current_idx names the task whose stack the CPU is on, through every   *)
(* enqueue, dequeue below or at the index, and switch.                     *)
CurrentIsRunning ==
    /\ k.cur \in DOMAIN k.table
    /\ k.table[k.cur] = k.running

(* The run queue holds every live process exactly once, and no zombie.     *)
QueueExact ==
    /\ \A i, j \in DOMAIN k.table : k.table[i] = k.table[j] => i = j
    /\ Queued(k) = {p \in Procs : k.state[p] \in Live}

(* Code of a user program executes only while its process is RUNNING: once *)
(* it is stopped or killed, by itself, by another process or by a key, it  *)
(* does not execute another instruction.                                   *)
UserCodeOnlyWhenRunning ==
    \A p \in Users : On(p, "user") => k.state[p] = "RUNNING"

(* A process that process_claim_for_wait() keeps away from the reaper has  *)
(* a parent in the registry that can still collect it.                     *)
ClaimHasCollector ==
    \A c \in Users : Registered(k, c) /\ k.claimed[c] =>
        k.parent[c] \in Procs /\ Registered(k, k.parent[c])

(* The foreground reader that process_key_consumer dereferences is a       *)
(* process that still exists.                                              *)
ForegroundExists == k.reader # NoProc => Registered(k, k.reader)

(* process_destroy() frees a stack and a process only when it is a zombie  *)
(* (or was never queued) and is not the current task.                      *)
DestroysSafely ==
    \A c \in Users : k.state[c] # "EXITED" /\ k'.state[c] = "EXITED" =>
       k.state[c] \in {"ZOMBIE", "FREE"} /\ k.running # c

(* A zombie claimed with process_claim_for_wait() is destroyed only by its *)
(* own parent, so the parent never misses its exit and never touches a     *)
(* freed child.                                                            *)
CollectsOwnChild ==
    \A c \in Users :
       k.state[c] = "ZOMBIE" /\ k'.state[c] = "EXITED" /\ k.claimed[c] =>
          k.running = k.parent[c]

(* A zombie nobody will wait for is destroyed by the reaper.               *)
UnclaimedReaped ==
    \A c \in Users :
        (k.state[c] = "ZOMBIE" /\ ~k.claimed[c]) ~> k.state[c] = "EXITED"

(* A process blocked in waitpid returns once a child it waits for is a     *)
(* zombie, unless it is itself stopped or killed first.                    *)
WaitpidReturns ==
    \A p, c \in Users :
        (/\ pc[p].at = "waitpid" /\ k.state[p] = "WAITING"
         /\ Matches(p, c, pc[p].pid) /\ k.state[c] = "ZOMBIE")
        ~> (pc[p].at = "user" \/ k.state[p] \notin {"WAITING", "RUNNING"})

(* When the login it waits for has exited, bootseq destroys it and starts  *)
(* the next one.                                                           *)
LoginRestarted ==
    \A c \in Users :
        (k.parent[c] = Boot /\ k.state[c] = "ZOMBIE") ~> k.state[c] = "EXITED"

(* The caller of sched_yield_now() leaves a stack pointer that sched_switch *)
(* can resume.                                                             *)
ResumeFrameValid ==
    \A i \in DOMAIN k.table : i # k.cur => k.esp[k.table[i]] # "raw"
=============================================================================
