-------------------------------- MODULE Pipe --------------------------------
(***************************************************************************)
(* A pipe (process.c): one page used as a ring, reference counts for its   *)
(* two ends, and processes that read, write, poll, duplicate and close its *)
(* descriptors, block in its wait queues, and are stopped or killed there. *)
(*                                                                         *)
(* System calls run with interrupts disabled up to their hlt loop, so each *)
(* is one action up to the point where it returns or parks, and one action *)
(* from each wake-up to the next.  Bytes carry the call that wrote them.   *)
(***************************************************************************)
EXTENDS Integers, FiniteSets, Sequences

(***************************************************************************)
(* The wait queues of wait.c as their users see them.  w maps every queue  *)
(* to the set of processes parked in it: the order of the list is never    *)
(* observed, since the kernel only calls wait_queue_wake_all.  All queues  *)
(* draw their nodes from one static pool.                                  *)
(***************************************************************************)

CONSTANTS
    Queues,        \* the wait queues of the system
    WaitNodeMax    \* WAIT_NODE_MAX, the size of the node pool

ASSUME WaitAssumption == WaitNodeMax \in Nat

NoWaiters == [q \in Queues |-> {}]

(* The nodes in use: one per queue and process.                            *)
Nodes(w) == {n \in Queues \X UNION {w[q] : q \in Queues} : n[2] \in w[n[1]]}

(* wait_queue_add: nothing to do when p is queued already, -ENOMEM when    *)
(* the pool is empty.                                                      *)
AddFails(w, q, p) == p \notin w[q] /\ Cardinality(Nodes(w)) >= WaitNodeMax

Add(w, q, p) ==
    IF AddFails(w, q, p) THEN w ELSE [w EXCEPT ![q] = @ \cup {p}]

(* wait_queue_remove_proc: every node of p, whatever queue it is in.       *)
RemoveProc(w, p) == [q \in Queues |-> w[q] \ {p}]

(* wait_queue_wake_proc on one state.                                      *)
Woken(s) == IF s \in {"WAITING", "SLEEPING"} THEN "RUNNING" ELSE s

(* wait_queue_wake_all: every process parked in q becomes runnable and     *)
(* leaves all its queues.                                                  *)
WakeAll(w, q) == [r \in Queues |-> w[r] \ w[q]]

WakeStates(w, q, st) ==
    [p \in DOMAIN st |-> IF p \in w[q] THEN Woken(st[p]) ELSE st[p]]

-----------------------------------------------------------------------------

CONSTANTS
    Procs,       \* processes that may hold the pipe
    Others,      \* processes that wait elsewhere
    Size,        \* PIPE_BUFFER_SIZE
    PipeBuf,     \* SYS_PIPE_BUF
    Lengths,     \* lengths programs pass to read and write
    MaxCalls     \* bound: write calls made

VARIABLES
    ring,        \* the data page, with read_pos, write_pos and count
    refs,        \* read_refs and write_refs; the object is freed at 0, 0
    fds,         \* descriptors each process holds, per end (FdTable has dup)
    w,           \* the wait queues of the pipe
    st,          \* scheduling state of each process
    pc,          \* the call each process is in
    sent,        \* history: every byte ever put into the ring, in order
    nread,       \* history: how many of them were taken out
    calls        \* history: how many write calls were made

vars == <<ring, refs, fds, w, st, pc, sent, nread, calls>>

R == "read_waiters"
W == "write_waiters"
Elsewhere == "other queues"
Ends == {"r", "w"}

ASSUME PipeAssumption ==
    /\ Queues = {R, W, Elsewhere}
    /\ IsFiniteSet(Procs) /\ Procs \cap Others = {}
    /\ Size \in Nat \ {0}
    /\ PipeBuf \in 1..Size
    /\ Lengths \subseteq Nat \ {0}
    /\ MaxCalls \in Nat

Idle == [op |-> "idle"]
Byte(n, len) == [call |-> n, len |-> len]

(* process_fd_pipe: the first process holds both ends.                     *)
Init ==
    /\ ring = [data |-> [i \in 0..(Size-1) |-> Byte(0, 0)],
               read_pos |-> 0, write_pos |-> 0, count |-> 0]
    /\ refs = [r |-> 1, w |-> 1]
    /\ \E p \in Procs :
         fds = [q \in Procs |-> IF q = p THEN [r |-> 1, w |-> 1]
                                ELSE [r |-> 0, w |-> 0]]
    /\ w = NoWaiters
    /\ st = [p \in Procs |-> IF fds[p].r = 1 THEN "RUNNING" ELSE "NONE"]
    /\ pc = [p \in Procs |-> Idle]
    /\ sent = <<>>
    /\ nread = 0
    /\ calls = 0

Freed == refs.r = 0 /\ refs.w = 0
Free == Size - ring.count
Runs(p, op) == st[p] = "RUNNING" /\ pc[p].op = op
Return(p) == pc' = [pc EXCEPT ![p] = Idle]

(* A position in the page.                                                 *)
Wrap(i) == i % Size

(* The copy loops: n bytes out of, or into, the ring.                      *)
Take(n) ==
    [ring EXCEPT !.read_pos = Wrap(@ + n), !.count = @ - n]

Put(n, byte) ==
    [ring EXCEPT
       !.data = [i \in 0..(Size-1) |->
                   IF Wrap(i - ring.write_pos) < n THEN byte ELSE @[i]],
       !.write_pos = Wrap(@ + n),
       !.count = @ + n]

Least(a, b) == IF a <= b THEN a ELSE b

-----------------------------------------------------------------------------
(* process_handle_pipe_read from the top of its wait loop.                 *)
ReadBody(p, len, nonblock) ==
    LET n == Least(len, ring.count)
        out == RemoveProc(w, p)
    IN \/ /\ ring.count # 0 \/ refs.w = 0
          /\ ring' = Take(n)
          /\ nread' = nread + n
          /\ w' = IF n # 0 THEN WakeAll(out, W) ELSE out
          /\ st' = IF n # 0 THEN WakeStates(out, W, st) ELSE st
          /\ Return(p)
       \/ /\ ring.count = 0 /\ refs.w # 0
          /\ \/ /\ nonblock \/ AddFails(out, R, p)
                /\ w' = out
                /\ Return(p)
                /\ UNCHANGED st
             \/ /\ ~nonblock /\ ~AddFails(out, R, p)
                /\ w' = Add(out, R, p)
                /\ st' = [st EXCEPT ![p] = "WAITING"]
                /\ pc' = [pc EXCEPT ![p] = [op |-> "read", len |-> len]]
          /\ UNCHANGED <<ring, nread>>

Read(p, len, nonblock) ==
    /\ Runs(p, "idle")
    /\ fds[p].r > 0
    /\ ReadBody(p, len, nonblock)
    /\ UNCHANGED <<refs, fds, sent, calls>>

(* A woken reader that only goes on when it finds data.                    *)
MutReadResumeWantsData(p) ==
    /\ Runs(p, "read")
    /\ ring.count # 0
    /\ ReadBody(p, pc[p].len, FALSE)
    /\ UNCHANGED <<refs, fds, sent, calls>>

ReadResume(p) ==
    /\ Runs(p, "read")
    /\ ReadBody(p, pc[p].len, FALSE)
    /\ UNCHANGED <<refs, fds, sent, calls>>

(* The room a write of len bytes waits for: a write of at most PIPE_BUF    *)
(* bytes wants room for all of them, a longer one for one byte.            *)
Needed(len) == IF len <= PipeBuf THEN len ELSE 1

(* process_handle_pipe_write from the top of its loop, done bytes written. *)
(* A write that filled the ring before its end parks at once, unless it is *)
(* non-blocking or no wait node is left.                                   *)
WriteBody(p, c, done, nonblock) ==
    LET n == Least(c.len - done, Free)
        room == Free >= Needed(c.len)
        copied == IF room THEN n ELSE 0
        out == IF room THEN WakeAll(RemoveProc(w, p), R) ELSE RemoveProc(w, p)
        woken == IF room THEN WakeStates(w, R, st) ELSE st
        over == \/ done + copied = c.len
                \/ nonblock
                \/ AddFails(out, W, p)
    IN \/ /\ refs.r = 0
          /\ w' = RemoveProc(w, p)
          /\ Return(p)
          /\ UNCHANGED <<ring, st, sent>>
       \/ /\ refs.r # 0
          /\ ring' = Put(copied, c)
          /\ sent' = sent \o [i \in 1..copied |-> c]
          /\ \/ /\ over
                /\ w' = out
                /\ st' = woken
                /\ Return(p)
             \/ /\ ~over
                /\ w' = Add(out, W, p)
                /\ st' = [woken EXCEPT ![p] = "WAITING"]
                /\ pc' = [pc EXCEPT ![p] =
                            [op |-> "write", c |-> c, done |-> done + copied]]

Write(p, len, nonblock) ==
    /\ Runs(p, "idle")
    /\ fds[p].w > 0
    /\ calls < MaxCalls
    /\ calls' = calls + 1
    /\ WriteBody(p, Byte(calls + 1, len), 0, nonblock)
    /\ UNCHANGED <<refs, fds, nread>>

WriteResume(p) ==
    /\ Runs(p, "write")
    /\ WriteBody(p, pc[p].c, pc[p].done, FALSE)
    /\ UNCHANGED <<refs, fds, nread, calls>>

-----------------------------------------------------------------------------
(* process_handle_pipe_poll for POLLIN on a read end, POLLOUT on a write   *)
(* end; a hang-up counts as ready.                                         *)
Ready(e) ==
    IF e = "r" THEN ring.count # 0 \/ refs.w = 0
    ELSE ring.count < Size \/ refs.r = 0

QueueOf(e) == IF e = "r" THEN R ELSE W

(* sys_poll_impl from the top of its loop, on one descriptor.  late: the   *)
(* deadline has passed.                                                    *)
PollBody(p, e, timed, late) ==
    LET out == RemoveProc(w, p)
        over == Ready(e) \/ late \/ AddFails(out, QueueOf(e), p)
    IN \/ /\ over
          /\ w' = out
          /\ Return(p)
          /\ UNCHANGED st
       \/ /\ ~over
          /\ w' = Add(out, QueueOf(e), p)
          /\ st' = [st EXCEPT ![p] = IF timed THEN "SLEEPING" ELSE "WAITING"]
          /\ pc' = [pc EXCEPT ![p] =
                      [op |-> "poll", e |-> e, timed |-> timed, late |-> FALSE]]

Poll(p, e, timed) ==
    /\ Runs(p, "idle")
    /\ fds[p][e] > 0
    /\ PollBody(p, e, timed, FALSE)
    /\ UNCHANGED <<ring, refs, fds, sent, nread, calls>>

(* After its wake-up the call first leaves every queue.                    *)
PollResume(p) ==
    /\ Runs(p, "poll")
    /\ PollBody(p, pc[p].e, pc[p].timed, pc[p].late)
    /\ UNCHANGED <<ring, refs, fds, sent, nread, calls>>

(* The deadline of a timed poll passes; the timer interrupt wakes p if it  *)
(* still sleeps.                                                           *)
Deadline(p) ==
    /\ pc[p].op = "poll" /\ pc[p].timed /\ ~pc[p].late
    /\ st[p] \in {"SLEEPING", "RUNNING", "STOPPED"}
    /\ pc' = [pc EXCEPT ![p].late = TRUE]
    /\ st' = [st EXCEPT ![p] = IF @ = "SLEEPING" THEN "RUNNING" ELSE @]
    /\ UNCHANGED <<ring, refs, fds, w, sent, nread, calls>>

-----------------------------------------------------------------------------
(* process_copy_fd_table: the child q shares every descriptor of p.        *)
Fork(p, q) ==
    /\ Runs(p, "idle")
    /\ st[q] = "NONE"
    /\ fds' = [fds EXCEPT ![q] = fds[p]]
    /\ refs' = [e \in Ends |-> refs[e] + fds[p][e]]
    /\ st' = [st EXCEPT ![q] = "RUNNING"]
    /\ UNCHANGED <<ring, w, pc, sent, nread, calls>>

(* A close that wakes only the waiters of the end it closes.               *)
MutCloseWakesOwnEnd(p, e) ==
    /\ Runs(p, "idle")
    /\ fds[p][e] > 0
    /\ fds' = [fds EXCEPT ![p][e] = @ - 1]
    /\ refs' = [refs EXCEPT ![e] = @ - 1]
    /\ w' = WakeAll(w, QueueOf(e))
    /\ st' = WakeStates(w, QueueOf(e), st)
    /\ UNCHANGED <<ring, pc, sent, nread, calls>>

(* process_handle_pipe_close: the waiters of both queues are woken.        *)
Close(p, e) ==
    /\ Runs(p, "idle")
    /\ fds[p][e] > 0
    /\ fds' = [fds EXCEPT ![p][e] = @ - 1]
    /\ refs' = [refs EXCEPT ![e] = @ - 1]
    /\ w' = WakeAll(WakeAll(w, R), W)
    /\ st' = WakeStates(w, W, WakeStates(w, R, st))
    /\ UNCHANGED <<ring, pc, sent, nread, calls>>

(* sched_kill and sched_exit_current: process_release_exit_resources       *)
(* closes every descriptor; the closes wake the waiters, p among them, and *)
(* p becomes a zombie.                                                     *)
Exit(p) ==
    /\ st[p] \notin {"NONE", "ZOMBIE"}
    /\ fds' = [fds EXCEPT ![p] = [e \in Ends |-> 0]]
    /\ refs' = [e \in Ends |-> refs[e] - fds[p][e]]
    /\ IF \E e \in Ends : fds[p][e] > 0
       THEN /\ w' = WakeAll(WakeAll(w, R), W)
            /\ st' = [WakeStates(w, W, WakeStates(w, R, st))
                        EXCEPT ![p] = "ZOMBIE"]
       ELSE /\ w' = w
            /\ st' = [st EXCEPT ![p] = "ZOMBIE"]
    /\ pc' = [pc EXCEPT ![p] = Idle]
    /\ UNCHANGED <<ring, sent, nread, calls>>

(* process_stop_one and process_group_continue.                            *)
Stop(p) ==
    /\ st[p] \in {"RUNNING", "WAITING", "SLEEPING"}
    /\ w' = RemoveProc(w, p)
    /\ st' = [st EXCEPT ![p] = "STOPPED"]
    /\ UNCHANGED <<ring, refs, fds, pc, sent, nread, calls>>

Cont(p) ==
    /\ st[p] = "STOPPED"
    /\ st' = [st EXCEPT ![p] = "RUNNING"]
    /\ UNCHANGED <<ring, refs, fds, w, pc, sent, nread, calls>>

(* Processes waiting on other objects take and give back nodes.            *)
OtherWaits(o) ==
    /\ w' = Add(w, Elsewhere, o)
    /\ UNCHANGED <<ring, refs, fds, st, pc, sent, nread, calls>>

OthersWake ==
    /\ w' = WakeAll(w, Elsewhere)
    /\ UNCHANGED <<ring, refs, fds, st, pc, sent, nread, calls>>

Resume(p) == ReadResume(p) \/ WriteResume(p) \/ PollResume(p)

Next ==
    \/ \E p \in Procs :
         \/ \E len \in Lengths, nonblock \in BOOLEAN :
              Read(p, len, nonblock) \/ Write(p, len, nonblock)
         \/ Resume(p)
         \/ \E e \in Ends, timed \in BOOLEAN : Poll(p, e, timed)
         \/ Deadline(p)
         \/ \E e \in Ends : Close(p, e)
         \/ \E q \in Procs : Fork(p, q)
         \/ Exit(p) \/ Stop(p) \/ Cont(p)
    \/ \E o \in Others : OtherWaits(o)
    \/ OthersWake

Spec == Init /\ [][Next]_vars

-----------------------------------------------------------------------------
States == {"NONE", "RUNNING", "WAITING", "SLEEPING", "STOPPED", "ZOMBIE"}
Bytes == [call : 0..MaxCalls, len : Lengths \cup {0}]
Calls == {Idle} \cup [op : {"read"}, len : Lengths]
           \cup [op : {"write"}, c : Bytes, done : Nat]
           \cup [op : {"poll"}, e : Ends, timed : BOOLEAN, late : BOOLEAN]

(* Type invariant of the pipe, its descriptors and its waiters.            *)
TypeOK ==
    /\ ring \in [data : [0..(Size-1) -> Bytes], read_pos : 0..(Size-1),
                 write_pos : 0..(Size-1), count : 0..Size]
    /\ refs \in [Ends -> Nat]
    /\ fds \in [Procs -> [Ends -> {0, 1}]]
    /\ w \in [Queues -> SUBSET (Procs \cup Others)]
    /\ st \in [Procs -> States]
    /\ pc \in [Procs -> Calls]
    /\ sent \in Seq(Bytes) /\ nread \in Nat /\ calls \in 0..MaxCalls

(* The bytes the ring holds, oldest first.                                 *)
Contents == [i \in 1..ring.count |-> ring.data[Wrap(ring.read_pos + i - 1)]]

(* Readers get what writers wrote, in order, nothing lost, duplicated or   *)
(* overwritten, however reads and writes of several processes wrap around  *)
(* the page: the ring of process_handle_pipe_read and _write always holds  *)
(* exactly the bytes written and not yet read.                             *)
RingIsFifo == Contents = SubSeq(sent, nread + 1, Len(sent))

(* docs/syscalls.md: "Writes of PIPE_BUF bytes or fewer are atomic".  The  *)
(* bytes of such a call are all in the stream, next to each other, or none *)
(* is, even when other writers ran while it waited for room.               *)
AtomicWrites ==
    \A i \in DOMAIN sent :
      LET c == sent[i]
          mine == {j \in DOMAIN sent : sent[j] = c}
      IN c.len <= PipeBuf =>
           \E k \in DOMAIN sent : mine = k..(k + c.len - 1)

(* No wake-up is lost: a process parked in a pipe call is in the queue     *)
(* that the event it waits for wakes, and that event has not happened yet. *)
(* It is the order "state, queue, re-check, hlt" of the wait loops, and    *)
(* the wake_all of every read, write and close, that keep this.            *)
NoLostWakeup ==
    \A p \in Procs : st[p] \in {"WAITING", "SLEEPING"} =>
      \/ /\ pc[p].op = "read"
         /\ p \in w[R]
         /\ ring.count = 0 /\ refs.w > 0
      \/ /\ pc[p].op = "write"
         /\ p \in w[W]
         /\ Free < Needed(pc[p].c.len) /\ refs.r > 0
      \/ /\ pc[p].op = "poll"
         /\ p \in w[QueueOf(pc[p].e)]
         /\ ~Ready(pc[p].e)

(* A wait node belongs to a process blocked in a call on a descriptor it   *)
(* still holds: process_destroy and the last process_handle_pipe_close     *)
(* free memory no queue refers to.                                         *)
NodesLive ==
    \A p \in w[R] \cup w[W] :
      /\ pc[p].op # "idle"
      /\ st[p] \in {"WAITING", "SLEEPING", "RUNNING"}
      /\ \E e \in Ends : fds[p][e] > 0
      /\ ~Freed

(* read_refs and write_refs count the descriptors: an end is seen closed   *)
(* exactly when no process holds it, and the frames are freed exactly when *)
(* the last descriptor goes.                                               *)
Holding(e) == {p \in Procs : fds[p][e] = 1}
RefsExact == \A e \in Ends : refs[e] = Cardinality(Holding(e))

(* Bytes leave the ring in the order they entered, a short write is        *)
(* atomic, wait nodes belong to living waiters, the counts are those of    *)
(* the descriptors, and nobody sleeps while it could go on.                *)
PipeSound ==
    TypeOK /\ RingIsFifo /\ AtomicWrites /\ NodesLive /\ RefsExact /\ NoLostWakeup

(* End of file ends every call: once no writer is left, a read or a poll   *)
(* for input returns (unless its process stays stopped), and the same for  *)
(* writers once no reader is left.                                         *)
HangupEndsCalls ==
    \A p \in Procs :
      /\ (refs.w = 0 /\ pc[p].op = "read") ~>
           (pc[p].op # "read" \/ st[p] = "STOPPED")
      /\ (refs.r = 0 /\ pc[p].op = "write") ~>
           (pc[p].op # "write" \/ st[p] = "STOPPED")

(* The scheduler runs every runnable process again.                        *)
FairSpec == Spec /\ \A p \in Procs : WF_vars(Resume(p))
=============================================================================
