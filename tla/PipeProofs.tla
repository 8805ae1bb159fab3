----------------------------- MODULE PipeProofs -----------------------------
(***************************************************************************)
(* PipeSound holds for every set of processes, page size, PIPE_BUF, pool   *)
(* of wait nodes and set of lengths, however many calls are made.          *)
(***************************************************************************)
EXTENDS PipeSteps

(* The actions, one by one.                                                *)
LEMMA ReadActions ==
    ASSUME IInv, NEW p \in Procs
    PROVE  /\ \A len \in Lengths, nonblock \in BOOLEAN : Read(p, len, nonblock) => IInv'
           /\ ReadResume(p) => IInv'
<1>0. TypeOK /\ WaitInv
  BY Zenon DEF IInv
<1>1. ASSUME NEW len \in Lengths, NEW nonblock \in BOOLEAN, Read(p, len, nonblock) PROVE IInv'
  <2>1. fds[p]["r"] = 1
    BY <1>0, <1>1, QueueNames DEF TypeOK, Read
  <2>. QED  BY <1>1, <2>1, ReadStep, Zenon DEF Read, Runs
<1>2. ASSUME ReadResume(p) PROVE IInv'
  <2>1. st[p] = "RUNNING" /\ pc[p].op = "read"
    BY <1>2, Zenon DEF ReadResume, Runs
  <2>2. fds[p]["r"] = 1 /\ pc[p].len \in Lengths
    BY <1>0, <2>1, CallParts, Zenon DEF WaitInv, EndOf, TypeOK
  <2>. QED  BY <1>2, <2>1, <2>2, ReadStep, Zenon DEF ReadResume
<1>. QED  BY <1>1, <1>2, Zenon

(* A write that begins and one that goes on after a wake-up.               *)
LEMMA WriteActions ==
    ASSUME IInv, NEW p \in Procs
    PROVE  /\ \A len \in Lengths, nonblock \in BOOLEAN : Write(p, len, nonblock) => IInv'
           /\ WriteResume(p) => IInv'
<1>0. TypeOK /\ WaitInv /\ CallsInv
  BY Zenon DEF IInv
<1>1. ASSUME NEW len \in Lengths, NEW nonblock \in BOOLEAN, Write(p, len, nonblock) PROVE IInv'
  <2> DEFINE c == Byte(calls + 1, len)
  <2>1. /\ st[p] = "RUNNING" /\ calls < MaxCalls /\ calls' = calls + 1
        /\ WriteBody(p, c, 0, nonblock) /\ UNCHANGED <<refs, fds, nread>>
    BY <1>1, Zenon DEF Write, Runs
  <2>2. fds[p]["w"] = 1
    BY <1>0, <1>1, QueueNames DEF TypeOK, Write
  <2>3. calls \in Nat /\ MaxCalls \in Nat /\ len \in Nat \ {0}
    BY <1>0, Numbers, PipeAssumption, LengthsAreNat
  <2>4. c \in Bytes /\ c.len = len /\ c.call = calls + 1
    BY <2>1, <2>3 DEF Byte, Bytes
  <2>5. /\ c.call \in 1..calls' /\ calls' \in 0..MaxCalls /\ calls' >= calls
        /\ calls + 1 \notin 1..calls /\ 0 < len
    BY <2>1, <2>3, <2>4
  <2>6. Absent(c)
    BY <1>0, <2>4, <2>5, Zenon DEF Absent, CallsInv
  <2>7. \A q \in Procs \ {p} : Writing(q) => pc[q].c.call # c.call
    BY <1>0, <2>4, <2>5, Zenon DEF CallsInv
  <2>8. WriteCall(p, c, 0)
    BY <2>4, <2>5, <2>6, <2>7, Zenon DEF WriteCall
  <2>. QED  BY <2>1, <2>2, <2>8, WriteStep, Zenon
<1>2. ASSUME WriteResume(p) PROVE IInv'
  <2>1. /\ st[p] = "RUNNING" /\ pc[p].op = "write"
        /\ WriteBody(p, pc[p].c, pc[p].done, FALSE) /\ UNCHANGED <<refs, fds, nread, calls>>
    BY <1>2, Zenon DEF WriteResume, Runs
  <2>2. fds[p]["w"] = 1 /\ pc[p].c \in Bytes /\ pc[p].done \in Nat
    BY <1>0, <2>1, CallParts, Zenon DEF WaitInv, EndOf, TypeOK
  <2>3. calls' \in 0..MaxCalls /\ calls' >= calls
    BY <1>0, <2>1, Numbers, PipeAssumption
  <2>4. WriteCall(p, pc[p].c, pc[p].done)
    BY <1>0, <2>1, <2>2, <2>3, Zenon DEF WriteCall, CallsInv, Writing
  <2>. QED  BY <2>1, <2>2, <2>4, WriteStep, Zenon
<1>. QED  BY <1>1, <1>2, Zenon

(* sys_poll_impl: one pass of its loop, with and without a deadline.       *)
LEMMA PollStep ==
    ASSUME IInv, NEW p \in Procs, NEW e \in Ends, NEW timed \in BOOLEAN, NEW late \in BOOLEAN,
           st[p] = "RUNNING", fds[p][e] = 1, PollBody(p, e, timed, late),
           UNCHANGED <<ring, refs, fds, sent, nread, calls>>
    PROVE  IInv'
<1> DEFINE out == RemoveProc(w, p)
           c == [op |-> "poll", e |-> e, timed |-> timed, late |-> FALSE]
           s == IF timed THEN "SLEEPING" ELSE "WAITING"
<1>0. TypeOK
  BY Zenon DEF IInv
<1>1. CASE Ready(e) \/ late \/ AddFails(out, QueueOf(e), p)
  <2>1. GivesUp(p)
    BY <1>1, Zenon DEF PollBody, GivesUp, Return
  <2>2. calls' \in 0..MaxCalls /\ calls' >= calls
    BY <1>0, Numbers, PipeAssumption
  <2>. QED  BY <2>1, <2>2, GiveUpStep, Zenon
<1>2. CASE ~(Ready(e) \/ late \/ AddFails(out, QueueOf(e), p))
  <2>1. c \in Calls /\ c.op = "poll" /\ c.e = e
    BY CallKinds, Zenon
  <2>2. w' = Add(out, QueueOf(e), p) /\ st' = [st EXCEPT ![p] = s] /\ pc' = [pc EXCEPT ![p] = c]
    BY <1>2, Zenon DEF PollBody
  <2>3. pc'[p] = c
    BY <1>0, <2>1, <2>2, Returns, Zenon
  <2>4. Sleeps(p, e, c, s)
    BY <1>2, <2>1, <2>2, Zenon DEF Sleeps
  <2>5. EndOf(p)' = e
    BY <2>1, <2>3, Zenon DEF EndOf
  <2>6. ~Ready(e)'
    BY <1>2, Zenon DEF Ready
  <2>7. p \in w'[QueueOf(e)] /\ QueueOf(e) \in Queues
    <3>1. out \in [Queues -> SUBSET (Procs \cup Others)] /\ QueueOf(e) \in Queues
      BY <1>0, QueueSteps, QueueNames, Zenon DEF TypeOK
    <3>. QED  BY <1>2, <2>2, <3>1, Zenon DEF Add
  <2>8. Waits(p)'
    BY <2>1, <2>3, <2>6, <2>7, Zenon DEF Waits, QueueOf, Ready
  <2>. QED  BY <2>1, <2>4, <2>5, <2>8, SleepStep, Zenon
<1>. QED  BY <1>1, <1>2, Zenon

(* A poll that begins and one that goes on after a wake-up.                *)
LEMMA PollActions ==
    ASSUME IInv, NEW p \in Procs
    PROVE  /\ \A e \in Ends, timed \in BOOLEAN : Poll(p, e, timed) => IInv'
           /\ PollResume(p) => IInv'
<1>0. TypeOK /\ WaitInv
  BY Zenon DEF IInv
<1>1. ASSUME NEW e \in Ends, NEW timed \in BOOLEAN, Poll(p, e, timed) PROVE IInv'
  <2>1. fds[p][e] = 1
    BY <1>0, <1>1 DEF TypeOK, Poll
  <2>. QED  BY <1>1, <2>1, PollStep, Zenon DEF Poll, Runs
<1>2. ASSUME PollResume(p) PROVE IInv'
  <2>1. st[p] = "RUNNING" /\ pc[p].op = "poll"
    BY <1>2, Zenon DEF PollResume, Runs
  <2>2. pc[p].e \in Ends /\ pc[p].timed \in BOOLEAN /\ pc[p].late \in BOOLEAN
    BY <1>0, <2>1, CallParts, Zenon DEF TypeOK
  <2>3. fds[p][pc[p].e] = 1
    BY <1>0, <2>1, Zenon DEF WaitInv, EndOf
  <2>. QED  BY <1>2, <2>1, <2>2, <2>3, PollStep, Zenon DEF PollResume
<1>. QED  BY <1>1, <1>2, Zenon

(* Steps that neither move bytes nor begin or end a write.                 *)
LEMMA NoBytesMove ==
    ASSUME IInv, UNCHANGED <<ring, sent, nread, calls>>,
           \A q \in Procs : pc'[q] = pc[q] \/ pc'[q].op # "write"
    PROVE  RingInv' /\ AtomicWrites' /\ CallsInv'
<1>0. TypeOK /\ RingInv /\ AtomicWrites /\ CallsInv
  BY Zenon DEF IInv
<1>1. RingInv' /\ AtomicWrites'
  BY <1>0, StreamKept, Zenon
<1>2. calls' \in 0..MaxCalls /\ calls' >= calls
  BY <1>0, Numbers, PipeAssumption
<1>3. \A q \in Procs : Writing(q)' => pc'[q] = pc[q] /\ Writing(q)
  BY Zenon DEF Writing
<1>4. CallsInv'
  BY <1>0, <1>2, <1>3, MoreCalls, Zenon
<1>. QED  BY <1>1, <1>4, Zenon

(* The timer wakes a poll whose deadline has passed, and its node stays in *)
(* the queue until it runs.                                                *)
LEMMA DeadlineStep ==
    ASSUME IInv, NEW p \in Procs, Deadline(p)
    PROVE  IInv'
<1>0. TypeOK /\ WaitInv /\ NoLostWakeup /\ RefsExact
  BY Zenon DEF IInv
<1>1. /\ pc[p].op = "poll" /\ UNCHANGED <<ring, refs, fds, w, sent, nread, calls>>
      /\ st[p] \in {"SLEEPING", "RUNNING", "STOPPED"}
      /\ st' = [st EXCEPT ![p] = IF @ = "SLEEPING" THEN "RUNNING" ELSE @]
      /\ pc' = [pc EXCEPT ![p].late = TRUE]
  BY Zenon DEF Deadline
<1>2. pc[p] \in [op : {"poll"}, e : Ends, timed : BOOLEAN, late : BOOLEAN]
  BY <1>0, <1>1 DEF TypeOK, Calls, Idle
<1>3. /\ pc'[p] \in [op : {"poll"}, e : Ends, timed : BOOLEAN, late : BOOLEAN]
      /\ pc'[p].e = pc[p].e /\ \A q \in Procs \ {p} : pc'[q] = pc[q]
  BY <1>0, <1>1, <1>2, Zenon DEF TypeOK
<1>4. pc' \in [Procs -> Calls] /\ pc'[p].op = "poll"
  BY <1>0, <1>1, <1>3, Zenon DEF TypeOK, Calls
<1>5. RingInv' /\ AtomicWrites' /\ CallsInv'
  BY <1>1, <1>3, <1>4, NoBytesMove, Zenon
<1>6. RefsExact'
  BY <1>0, <1>1, RefsKept, Zenon
<1>7. /\ st' \in [Procs -> States] /\ st'[p] \in {"RUNNING", "STOPPED"}
      /\ (st'[p] = "STOPPED" => st[p] = "STOPPED") /\ \A q \in Procs \ {p} : st'[q] = st[q]
  BY <1>0, <1>1, Zenon DEF TypeOK, States
<1>8. \A q \in Procs : EndOf(q)' = EndOf(q) /\ (pc'[q].op = "idle" <=> pc[q].op = "idle")
  BY <1>1, <1>3, <1>4, Zenon DEF EndOf
<1>9. WaitInv'
  BY <1>0, <1>1, <1>7, <1>8 DEF WaitInv
<1>10. TypeOK'
  BY <1>0, <1>1, <1>4, <1>7, Zenon DEF TypeOK
<1>11. ASSUME NEW q \in Procs, st'[q] \in {"WAITING", "SLEEPING"} PROVE Waits(q)'
  <2>1. q # p /\ pc'[q] = pc[q] /\ Waits(q)
    BY <1>0, <1>3, <1>7, <1>11, Sleepers, Zenon
  <2>. QED  BY <1>1, <2>1, SleepsOn, Zenon
<1>12. NoLostWakeup'
  BY <1>11, Zenon DEF NoLostWakeup, Waits
<1>. QED  BY <1>5, <1>6, <1>9, <1>10, <1>12, Zenon DEF IInv

-----------------------------------------------------------------------------
(* A close wakes both queues: nobody who sleeps afterwards is in a call on *)
(* this pipe.                                                              *)
AllWoken == WakeAll(WakeAll(w, R), W)
AllAwake == WakeStates(w, W, WakeStates(w, R, st))

(* Waking both queues of the pipe leaves nobody asleep on it.              *)
LEMMA WakeBoth ==
    ASSUME IInv
    PROVE  /\ AllWoken \in [Queues -> SUBSET (Procs \cup Others)]
           /\ AllWoken[R] = {} /\ AllWoken[W] = {} /\ AllWoken[Elsewhere] \subseteq Others
           /\ AllAwake \in [Procs -> States]
           /\ \A q \in Procs : AllAwake[q] =
                IF st[q] \in {"WAITING", "SLEEPING"} THEN "RUNNING" ELSE st[q]
<1>0. TypeOK /\ WaitInv /\ NoLostWakeup
  BY Zenon DEF IInv
<1>1. /\ w \in [Queues -> SUBSET (Procs \cup Others)] /\ st \in [Procs -> States]
      /\ w[Elsewhere] \subseteq Others
  BY <1>0, Zenon DEF TypeOK, WaitInv
<1>2. /\ AllWoken \in [Queues -> SUBSET (Procs \cup Others)]
      /\ \A q \in Queues : AllWoken[q] = (w[q] \ w[R]) \ (w[W] \ w[R])
  BY <1>1, QueueNames, Zenon DEF AllWoken, WakeAll
<1>3. /\ AllAwake \in [Procs -> States]
      /\ \A q \in Procs : AllAwake[q] =
           IF st[q] \in {"WAITING", "SLEEPING"} /\ (q \in w[R] \/ q \in w[W])
           THEN "RUNNING" ELSE st[q]
  <2> DEFINE s == WakeStates(w, R, st)
  <2>1. /\ s \in [Procs -> States]
        /\ \A q \in Procs : s[q] =
             IF q \in w[R] /\ st[q] \in {"WAITING", "SLEEPING"} THEN "RUNNING" ELSE st[q]
    BY <1>1, Zenon DEF WakeStates, Woken, States
  <2> HIDE DEF s
  <2>2. /\ WakeStates(w, W, s) \in [Procs -> States]
        /\ \A q \in Procs : WakeStates(w, W, s)[q] =
             IF q \in w[W] /\ s[q] \in {"WAITING", "SLEEPING"} THEN "RUNNING" ELSE s[q]
    BY <2>1, Zenon DEF WakeStates, Woken, States
  <2>3. AllAwake = WakeStates(w, W, s)
    BY Zenon DEF AllAwake, s
  <2>. QED  BY <2>1, <2>2, <2>3, Zenon
<1>4. ASSUME NEW q \in Procs, st[q] \in {"WAITING", "SLEEPING"} PROVE q \in w[R] \/ q \in w[W]
  <2>1. Waits(q)
    BY <1>0, <1>4, Sleepers, Zenon
  <2>2. pc[q].op = "poll" => pc[q].e \in Ends
    BY <1>0, CallParts, Zenon DEF TypeOK
  <2>. QED  BY <2>1, <2>2, WaitsFor, QueueNames, Zenon
<1>. QED  BY <1>1, <1>2, <1>3, <1>4, QueueNames, Zenon

(* SIGSTOP takes a process out of its wait.                                *)
LEMMA StopStep ==
    ASSUME IInv, NEW p \in Procs, Stop(p)
    PROVE  IInv'
<1>0. TypeOK /\ WaitInv /\ RefsExact /\ NoLostWakeup
  BY Zenon DEF IInv
<1>1. /\ UNCHANGED <<ring, refs, fds, pc, sent, nread, calls>>
      /\ st[p] \in {"RUNNING", "WAITING", "SLEEPING"}
      /\ w' = RemoveProc(w, p) /\ st' = [st EXCEPT ![p] = "STOPPED"]
  BY Zenon DEF Stop
<1>2. RingInv' /\ AtomicWrites' /\ CallsInv' /\ RefsExact'
  BY <1>0, <1>1, NoBytesMove, RefsKept, Zenon
<1>3. /\ w' \in [Queues -> SUBSET (Procs \cup Others)]
      /\ \A q \in Queues : w'[q] = w[q] \ {p}
  BY <1>0, <1>1, QueueSteps DEF TypeOK
<1>4. /\ st' \in [Procs -> States] /\ st'[p] = "STOPPED"
      /\ \A q \in Procs \ {p} : st'[q] = st[q]
  BY <1>0, <1>1, Zenon DEF TypeOK, States
<1>5. TypeOK'
  BY <1>0, <1>1, <1>3, <1>4, Zenon DEF TypeOK
<1>6. \A q \in Procs : EndOf(q)' = EndOf(q)
  BY <1>1, Zenon DEF EndOf
<1>7. \A e \in Ends : w'[QueueOf(e)] = w[QueueOf(e)] \ {p}
  BY <1>3, QueueNames, Zenon
<1>8. WaitInv'
  <2>1. w'[Elsewhere] \subseteq Others
    BY <1>0, <1>3, QueueNames, Zenon DEF WaitInv
  <2>. QED  BY <1>0, <1>1, <1>4, <1>6, <1>7, <2>1 DEF WaitInv
<1>9. ASSUME NEW q \in Procs, st'[q] \in {"WAITING", "SLEEPING"} PROVE Waits(q)'
  <2>1. q # p /\ pc'[q] = pc[q] /\ Waits(q)
    BY <1>0, <1>1, <1>4, <1>9, Sleepers, Zenon
  <2>. QED  BY <1>1, <1>7, <2>1, SleepsOn, Zenon
<1>10. NoLostWakeup'
  BY <1>9, Zenon DEF NoLostWakeup, Waits
<1>. QED  BY <1>2, <1>5, <1>8, <1>10, Zenon DEF IInv

(* SIGCONT lets a stopped process look again at what it waited for.        *)
LEMMA ContStep ==
    ASSUME IInv, NEW p \in Procs, Cont(p)
    PROVE  IInv'
<1>0. TypeOK /\ WaitInv /\ RefsExact /\ NoLostWakeup
  BY Zenon DEF IInv
<1>1. /\ UNCHANGED <<ring, refs, fds, w, pc, sent, nread, calls>>
      /\ st[p] = "STOPPED" /\ st' = [st EXCEPT ![p] = "RUNNING"]
  BY Zenon DEF Cont
<1>2. RingInv' /\ AtomicWrites' /\ CallsInv' /\ RefsExact'
  BY <1>0, <1>1, NoBytesMove, RefsKept, Zenon
<1>3. /\ st' \in [Procs -> States] /\ st'[p] = "RUNNING"
      /\ \A q \in Procs \ {p} : st'[q] = st[q]
  BY <1>0, <1>1, Zenon DEF TypeOK, States
<1>4. TypeOK'
  BY <1>0, <1>1, <1>3, Zenon DEF TypeOK
<1>5. \A q \in Procs : EndOf(q)' = EndOf(q)
  BY <1>1, Zenon DEF EndOf
<1>6. WaitInv'
  BY <1>0, <1>1, <1>3, <1>5 DEF WaitInv
<1>7. ASSUME NEW q \in Procs, st'[q] \in {"WAITING", "SLEEPING"} PROVE Waits(q)'
  <2>1. pc'[q] = pc[q] /\ Waits(q)
    BY <1>0, <1>1, <1>3, <1>7, Sleepers, Zenon
  <2>. QED  BY <1>1, <2>1, SleepsOn, Zenon
<1>8. NoLostWakeup'
  BY <1>7, Zenon DEF NoLostWakeup, Waits
<1>. QED  BY <1>2, <1>4, <1>6, <1>8, Zenon DEF IInv

(* Other processes only touch the queues that are not the pipe's.          *)
LEMMA ElsewhereStep ==
    ASSUME IInv, UNCHANGED <<ring, refs, fds, st, pc, sent, nread, calls>>,
           w' \in [Queues -> SUBSET (Procs \cup Others)], w'[Elsewhere] \subseteq Others,
           w'[R] = w[R], w'[W] = w[W]
    PROVE  IInv'
<1>0. TypeOK /\ WaitInv /\ RefsExact /\ NoLostWakeup
  BY Zenon DEF IInv
<1>2. RingInv' /\ AtomicWrites' /\ CallsInv' /\ RefsExact'
  BY <1>0, NoBytesMove, RefsKept, Zenon
<1>4. TypeOK'
  BY <1>0, Zenon DEF TypeOK
<1>5. \A q \in Procs : EndOf(q)' = EndOf(q)
  BY Zenon DEF EndOf
<1>3. \A e \in Ends : w'[QueueOf(e)] = w[QueueOf(e)]
  BY QueueNames, Zenon
<1>6. WaitInv'
  BY <1>0, <1>3, <1>5, Zenon DEF WaitInv
<1>7. ASSUME NEW q \in Procs, st'[q] \in {"WAITING", "SLEEPING"} PROVE Waits(q)'
  <2>1. pc'[q] = pc[q] /\ Waits(q)
    BY <1>0, <1>7, Sleepers, Zenon
  <2>. QED  BY <1>3, <2>1, SleepsOn, Zenon
<1>8. NoLostWakeup'
  BY <1>7, Zenon DEF NoLostWakeup, Waits
<1>. QED  BY <1>2, <1>4, <1>6, <1>8, Zenon DEF IInv

(* Other users of the pool of wait nodes do not touch the queues of the    *)
(* pipe.                                                                   *)
LEMMA OthersSteps ==
    ASSUME IInv
    PROVE  (\A o \in Others : OtherWaits(o) => IInv') /\ (OthersWake => IInv')
<1>0. /\ w \in [Queues -> SUBSET (Procs \cup Others)] /\ w[Elsewhere] \subseteq Others
      /\ w[R] \subseteq Procs /\ w[W] \subseteq Procs /\ TypeOK
  BY QueueNames, Zenon DEF IInv, TypeOK, WaitInv
<1>1. ASSUME NEW o \in Others, OtherWaits(o) PROVE IInv'
  <2>1. /\ UNCHANGED <<ring, refs, fds, st, pc, sent, nread, calls>>
        /\ w' = Add(w, Elsewhere, o)
    BY <1>1, Zenon DEF OtherWaits
  <2>2. CASE AddFails(w, Elsewhere, o)
    <3>1. w' = w
      BY <2>1, <2>2, Zenon DEF Add
    <3>. QED  BY <1>0, <2>1, <3>1, ElsewhereStep, Zenon
  <2>3. CASE ~AddFails(w, Elsewhere, o)
    <3>1. /\ w' \in [Queues -> SUBSET (Procs \cup Others)]
          /\ w'[Elsewhere] = w[Elsewhere] \cup {o} /\ w'[R] = w[R] /\ w'[W] = w[W]
      BY <1>0, <2>1, <2>3, QueueNames, Zenon DEF Add
    <3>. QED  BY <1>0, <2>1, <3>1, ElsewhereStep, Zenon
  <2>. QED  BY <2>2, <2>3, Zenon
<1>2. ASSUME OthersWake PROVE IInv'
  <2>1. /\ UNCHANGED <<ring, refs, fds, st, pc, sent, nread, calls>>
        /\ w' = WakeAll(w, Elsewhere)
    BY <1>2, Zenon DEF OthersWake
  <2>2. /\ w' \in [Queues -> SUBSET (Procs \cup Others)]
        /\ \A q \in Queues : w'[q] = w[q] \ w[Elsewhere]
    BY <1>0, <2>1, QueueNames, Zenon DEF WakeAll
  <2>3. w'[Elsewhere] \subseteq Others /\ w'[R] = w[R] /\ w'[W] = w[W]
    BY <1>0, <2>2, PipeAssumption, QueueNames, Zenon
  <2>. QED  BY <2>1, <2>2, <2>3, ElsewhereStep, Zenon
<1>. QED  BY <1>1, <1>2, Zenon

-----------------------------------------------------------------------------
INSTANCE FiniteSetTheorems

(* The holders of an end are counted as they come and go.                  *)
LEMMA Holders ==
    ASSUME TypeOK, RefsExact, NEW e \in Ends
    PROVE  /\ IsFiniteSet(Holding(e)) /\ refs[e] = Cardinality(Holding(e))
           /\ \A q : q \notin Holding(e) => Cardinality(Holding(e) \cup {q}) = refs[e] + 1
           /\ \A q : q \in Holding(e) => Cardinality(Holding(e) \ {q}) = refs[e] - 1 /\ refs[e] > 0
<1>1. IsFiniteSet(Procs) /\ Holding(e) \in SUBSET Procs
  BY PipeAssumption, Zenon DEF Holding
<1>2. IsFiniteSet(Holding(e)) /\ refs[e] = Cardinality(Holding(e)) /\ refs[e] \in Nat
  BY <1>1, FS_Subset, Zenon DEF RefsExact, TypeOK
<1>3. \A q : q \notin Holding(e) => Cardinality(Holding(e) \cup {q}) = refs[e] + 1
  BY <1>2, FS_AddElement, Zenon
<1>4. \A q : q \in Holding(e) => Cardinality(Holding(e) \ {q}) = refs[e] - 1
  BY <1>2, FS_RemoveElement, Zenon
<1>5. \A q : q \in Holding(e) => refs[e] > 0
  BY <1>2, FS_EmptySet
<1>. QED  BY <1>2, <1>3, <1>4, <1>5, Zenon

(* fork gives the child a reference to each end its parent holds.          *)
LEMMA ForkStep ==
    ASSUME IInv, NEW p \in Procs, NEW q \in Procs, Fork(p, q)
    PROVE  IInv'
<1>0. TypeOK /\ WaitInv /\ NoLostWakeup /\ RefsExact
  BY Zenon DEF IInv
<1>1. /\ UNCHANGED <<ring, w, pc, sent, nread, calls>>
      /\ st[p] = "RUNNING" /\ st[q] = "NONE" /\ p # q
      /\ st' = [st EXCEPT ![q] = "RUNNING"]
      /\ fds' = [fds EXCEPT ![q] = fds[p]]
      /\ refs' = [e \in Ends |-> refs[e] + fds[p][e]]
  BY Zenon DEF Fork, Runs
<1>2. RingInv' /\ AtomicWrites' /\ CallsInv'
  BY <1>1, NoBytesMove, Zenon
<1>3. /\ fds' \in [Procs -> [Ends -> {0, 1}]] /\ fds'[q] = fds[p]
      /\ \A o \in Procs \ {q} : fds'[o] = fds[o]
  BY <1>0, <1>1, Zenon DEF TypeOK
<1>4. \A e \in Ends : fds[q][e] = 0 /\ fds[p][e] \in {0, 1} /\ refs[e] \in Nat
  BY <1>0, <1>1 DEF WaitInv, TypeOK
<1>5. \A e \in Ends : refs'[e] \in Nat /\ refs'[e] >= refs[e]
  BY <1>1, <1>4
<1>6. RefsExact'
  <2>1. ASSUME NEW e \in Ends PROVE refs'[e] = Cardinality(Holding(e)')
    <3>1. CASE fds[p][e] = 1
      <4>1. Holding(e)' = Holding(e) \cup {q} /\ q \notin Holding(e)
        BY <1>3, <1>4, <3>1 DEF Holding
      <4>. QED  BY <1>0, <1>1, <3>1, <4>1, Holders, Zenon
    <3>2. CASE fds[p][e] = 0
      <4>1. Holding(e)' = Holding(e)
        BY <1>3, <1>4, <3>2, Zenon DEF Holding
      <4>2. refs'[e] = refs[e]
        BY <1>1, <1>4, <3>2
      <4>. QED  BY <1>0, <4>1, <4>2, Holders, Zenon
    <3>. QED  BY <1>4, <3>1, <3>2, Zenon
  <2>. QED  BY <2>1, Zenon DEF RefsExact
<1>7. /\ st' \in [Procs -> States] /\ st'[q] = "RUNNING"
      /\ \A o \in Procs \ {q} : st'[o] = st[o]
  BY <1>0, <1>1, Zenon DEF TypeOK, States
<1>8. TypeOK'
  BY <1>0, <1>1, <1>3, <1>5, <1>7, Zenon DEF TypeOK
<1>9. \A o \in Procs : EndOf(o)' = EndOf(o)
  BY <1>1, Zenon DEF EndOf
<1>10. pc[q].op = "idle"
  BY <1>0, <1>1, Zenon DEF WaitInv
<1>11. WaitInv'
  BY <1>0, <1>1, <1>3, <1>7, <1>9, <1>10 DEF WaitInv
<1>12. ASSUME NEW o \in Procs, st'[o] \in {"WAITING", "SLEEPING"} PROVE Waits(o)'
  <2>1. Waits(o) /\ pc'[o] = pc[o]
    BY <1>0, <1>1, <1>7, <1>12, Sleepers, Zenon
  <2>2. \A e \in Ends : refs[e] > 0 => refs'[e] > 0
    BY <1>4, <1>5
  <2>3. \A e \in Ends : ~Ready(e) => ~Ready(e)'
    BY <1>1, <1>4, <2>2, QueueNames DEF Ready
  <2>4. pc[o].op = "poll" => pc[o].e \in Ends
    BY <1>0, CallParts, Zenon DEF TypeOK
  <2>5. refs.w > 0 => refs'.w > 0
    BY <2>2, QueueNames, Zenon
  <2>6. refs.r > 0 => refs'.r > 0
    BY <2>2, QueueNames, Zenon
  <2>. QED  BY <1>1, <2>1, <2>3, <2>4, <2>5, <2>6, Zenon DEF Waits, Free, QueueOf, Ready
<1>13. NoLostWakeup'
  BY <1>12, Zenon DEF NoLostWakeup, Waits
<1>. QED  BY <1>2, <1>6, <1>8, <1>11, <1>13, Zenon DEF IInv

(* close gives one reference back and wakes both sides.                    *)
LEMMA CloseStep ==
    ASSUME IInv, NEW p \in Procs, NEW e \in Ends, Close(p, e)
    PROVE  IInv'
<1>0. TypeOK /\ WaitInv /\ RefsExact
  BY Zenon DEF IInv
<1>1. /\ UNCHANGED <<ring, pc, sent, nread, calls>>
      /\ st[p] = "RUNNING" /\ pc[p].op = "idle" /\ fds[p][e] > 0
      /\ fds' = [fds EXCEPT ![p][e] = @ - 1] /\ refs' = [refs EXCEPT ![e] = @ - 1]
      /\ w' = AllWoken /\ st' = AllAwake
  BY Zenon DEF Close, Runs, AllWoken, AllAwake
<1>2. RingInv' /\ AtomicWrites' /\ CallsInv'
  BY <1>1, NoBytesMove, Zenon
<1>3. /\ fds[p][e] = 1 /\ fds' \in [Procs -> [Ends -> {0, 1}]] /\ fds'[p][e] = 0
      /\ \A d \in Ends \ {e} : fds'[p][d] = fds[p][d]
      /\ \A q \in Procs \ {p} : fds'[q] = fds[q]
  BY <1>0, <1>1 DEF TypeOK
<1>4. p \in Holding(e) /\ Holding(e)' = Holding(e) \ {p}
      /\ \A d \in Ends \ {e} : Holding(d)' = Holding(d)
  BY <1>3 DEF Holding
<1>5. refs' \in [Ends -> Nat] /\ refs'[e] = refs[e] - 1 /\ \A d \in Ends \ {e} : refs'[d] = refs[d]
  <2>1. refs[e] > 0 /\ refs[e] \in Nat /\ refs \in [Ends -> Nat]
    BY <1>0, <1>4, Holders, Zenon DEF TypeOK
  <2>. QED  BY <1>1, <2>1
<1>6. RefsExact'
  <2>1. ASSUME NEW d \in Ends PROVE refs'[d] = Cardinality(Holding(d)')
    <3>1. CASE d = e
      BY <1>0, <1>4, <1>5, <3>1, Holders, Zenon
    <3>2. CASE d # e
      <4>1. refs'[d] = refs[d] /\ Holding(d)' = Holding(d)
        BY <1>4, <1>5, <3>2, Zenon
      <4>. QED  BY <1>0, <4>1, Holders, Zenon
    <3>. QED  BY <3>1, <3>2, Zenon
  <2>. QED  BY <2>1, Zenon DEF RefsExact
<1>7. TypeOK'
  BY <1>0, <1>1, <1>3, <1>5, WakeBoth, Zenon DEF TypeOK
<1>8. WaitInv'
  <2>1. \A q \in Procs : EndOf(q)' = EndOf(q)
    BY <1>1, Zenon DEF EndOf
  <2>2. \A q \in Procs : pc'[q].op # "idle" => fds'[q][EndOf(q)'] = 1 /\ st'[q] \notin {"NONE", "ZOMBIE"}
    BY <1>0, <1>1, <1>3, <2>1, WakeBoth DEF WaitInv
  <2>3. \A q \in Procs : st'[q] = "NONE" => fds'[q] = [d \in Ends |-> 0]
    BY <1>0, <1>1, <1>3, WakeBoth DEF WaitInv
  <2>4. \A d \in Ends : w'[QueueOf(d)] = {}
    BY <1>1, WakeBoth, QueueNames, Zenon
  <2>5. w'[Elsewhere] \subseteq Others
    BY <1>1, WakeBoth, Zenon
  <2>. QED  BY <2>2, <2>3, <2>4, <2>5, Zenon DEF WaitInv
<1>9. NoLostWakeup'
  BY <1>1, WakeBoth, Zenon DEF NoLostWakeup
<1>. QED  BY <1>2, <1>6, <1>7, <1>8, <1>9, Zenon DEF IInv

(* exit closes the ends the process holds and wakes both sides, and the    *)
(* dead process waits for nothing.                                         *)
LEMMA ExitStep ==
    ASSUME IInv, NEW p \in Procs, Exit(p)
    PROVE  IInv'
<1>0. TypeOK /\ WaitInv /\ RefsExact /\ NoLostWakeup
  BY Zenon DEF IInv
<1>1. /\ UNCHANGED <<ring, sent, nread, calls>>
      /\ fds' = [fds EXCEPT ![p] = [e \in Ends |-> 0]]
      /\ refs' = [e \in Ends |-> refs[e] - fds[p][e]]
      /\ pc' = [pc EXCEPT ![p] = Idle]
      /\ IF \E e \in Ends : fds[p][e] > 0
         THEN w' = AllWoken /\ st' = [AllAwake EXCEPT ![p] = "ZOMBIE"]
         ELSE w' = w /\ st' = [st EXCEPT ![p] = "ZOMBIE"]
  BY Zenon DEF Exit, AllWoken, AllAwake
<1>2. /\ pc' \in [Procs -> Calls] /\ pc'[p] = Idle /\ Idle.op = "idle"
      /\ \A q \in Procs \ {p} : pc'[q] = pc[q]
  BY <1>0, <1>1, Returns, CallKinds, Zenon
<1>3. RingInv' /\ AtomicWrites' /\ CallsInv'
  BY <1>1, <1>2, NoBytesMove, Zenon
<1>4. /\ fds' \in [Procs -> [Ends -> {0, 1}]] /\ fds'[p] = [e \in Ends |-> 0]
      /\ \A q \in Procs \ {p} : fds'[q] = fds[q]
  BY <1>0, <1>1, Zenon DEF TypeOK
<1>5. \A e \in Ends : Holding(e)' = Holding(e) \ {p}
  BY <1>4 DEF Holding
<1>6. ASSUME NEW e \in Ends PROVE refs'[e] \in Nat /\ refs'[e] = Cardinality(Holding(e)')
  <2>1. refs[e] \in Nat /\ fds[p][e] \in {0, 1} /\ refs'[e] = refs[e] - fds[p][e]
    BY <1>0, <1>1 DEF TypeOK
  <2>2. CASE fds[p][e] = 1
    <3>1. p \in Holding(e)
      BY <2>2, Zenon DEF Holding
    <3>2. refs[e] > 0 /\ Cardinality(Holding(e) \ {p}) = refs[e] - 1
      BY <1>0, <3>1, Holders, Zenon
    <3>3. refs'[e] = refs[e] - 1 /\ refs'[e] \in Nat
      BY <2>1, <2>2, <3>2
    <3>. QED  BY <1>5, <3>2, <3>3, Zenon
  <2>3. CASE fds[p][e] = 0
    <3>1. Holding(e) \ {p} = Holding(e)
      BY <2>3 DEF Holding
    <3>2. refs'[e] = refs[e]
      BY <2>1, <2>3
    <3>3. refs[e] = Cardinality(Holding(e))
      BY <1>0, Zenon DEF RefsExact
    <3>4. Holding(e)' = Holding(e)
      BY <1>5, <3>1, Zenon
    <3>. QED  BY <2>1, <3>2, <3>3, <3>4, Zenon
  <2>. QED  BY <2>1, <2>2, <2>3, Zenon
<1>7. RefsExact' /\ refs' \in [Ends -> Nat]
  BY <1>1, <1>6, Zenon DEF RefsExact
<1>8. CASE \E e \in Ends : fds[p][e] > 0
  <2>1. /\ w' = AllWoken /\ st' \in [Procs -> States] /\ st'[p] = "ZOMBIE"
        /\ \A q \in Procs \ {p} : st'[q] = AllAwake[q]
    BY <1>1, <1>8, WakeBoth, Zenon DEF States
  <2>2. TypeOK'
    BY <1>0, <1>1, <1>2, <1>4, <1>7, <2>1, WakeBoth, Zenon DEF TypeOK
  <2>3. WaitInv'
    <3>1. \A q \in Procs \ {p} : EndOf(q)' = EndOf(q)
      BY <1>2, Zenon DEF EndOf
    <3>2. \A q \in Procs : pc'[q].op # "idle" => fds'[q][EndOf(q)'] = 1 /\ st'[q] \notin {"NONE", "ZOMBIE"}
      BY <1>0, <1>2, <1>4, <2>1, <3>1, WakeBoth DEF WaitInv
    <3>3. \A q \in Procs : st'[q] = "NONE" => fds'[q] = [d \in Ends |-> 0]
      BY <1>0, <1>4, <2>1, WakeBoth, Zenon DEF WaitInv
    <3>4. \A d \in Ends : w'[QueueOf(d)] = {}
      BY <2>1, WakeBoth, QueueNames, Zenon
    <3>5. w'[Elsewhere] \subseteq Others
      BY <2>1, WakeBoth, Zenon
    <3>. QED  BY <3>2, <3>3, <3>4, <3>5, Zenon DEF WaitInv
  <2>4. NoLostWakeup'
    BY <2>1, WakeBoth, Zenon DEF NoLostWakeup
  <2>. QED  BY <1>3, <1>7, <2>2, <2>3, <2>4, Zenon DEF IInv
<1>9. CASE ~\E e \in Ends : fds[p][e] > 0
  <2>1. /\ w' = w /\ st' \in [Procs -> States] /\ st'[p] = "ZOMBIE"
        /\ \A q \in Procs \ {p} : st'[q] = st[q]
    BY <1>0, <1>1, <1>9, Zenon DEF TypeOK, States
  <2>2. pc[p].op = "idle" /\ \A e \in Ends : p \notin w[QueueOf(e)] /\ fds[p][e] = 0
    <3>1. pc[p].op # "idle" => EndOf(p) \in Ends
      BY <1>0, CallParts, QueueNames, Zenon DEF TypeOK, EndOf
    <3>2. \A e \in Ends : fds[p][e] = 0
      BY <1>0, <1>9 DEF TypeOK
    <3>. QED  BY <1>0, <3>1, <3>2 DEF WaitInv
  <2>3. pc'[p].op = pc[p].op /\ \A q \in Procs \ {p} : EndOf(q)' = EndOf(q)
    BY <1>2, <2>2, Zenon DEF EndOf
  <2>4. \A e \in Ends : refs'[e] = refs[e]
    BY <1>0, <1>1, <2>2 DEF TypeOK
  <2>5. TypeOK'
    BY <1>0, <1>1, <1>2, <1>4, <1>7, <2>1, Zenon DEF TypeOK
  <2>6. WaitInv'
    <3>1. \A q \in Procs : pc'[q].op # "idle" => fds'[q][EndOf(q)'] = 1 /\ st'[q] \notin {"NONE", "ZOMBIE"}
      BY <1>0, <1>2, <1>4, <2>1, <2>2, <2>3 DEF WaitInv
    <3>2. \A q \in Procs : st'[q] = "NONE" => fds'[q] = [d \in Ends |-> 0]
      BY <1>0, <1>4, <2>1, Zenon DEF WaitInv
    <3>3. w'[Elsewhere] \subseteq Others /\ \A d \in Ends : w'[QueueOf(d)] \subseteq Procs
      BY <1>0, <2>1, Zenon DEF WaitInv
    <3>4. ASSUME NEW d \in Ends, NEW q \in Procs, q \in w'[QueueOf(d)]
          PROVE  pc'[q].op # "idle" /\ EndOf(q)' = d /\ st'[q] \in {"WAITING", "SLEEPING", "RUNNING"}
      <4>1. q # p /\ q \in w[QueueOf(d)]
        BY <2>1, <2>2, <3>4, Zenon
      <4>. QED  BY <1>0, <1>2, <2>1, <2>3, <4>1 DEF WaitInv
    <3>. QED  BY <3>1, <3>2, <3>3, <3>4, Zenon DEF WaitInv
  <2>7. ASSUME NEW q \in Procs, st'[q] \in {"WAITING", "SLEEPING"} PROVE Waits(q)'
    <3>1. q # p /\ pc'[q] = pc[q] /\ Waits(q)
      BY <1>0, <1>2, <2>1, <2>7, Sleepers, Zenon
    <3>2. refs' = refs
      BY <1>0, <1>7, <2>4 DEF TypeOK
    <3>. QED  BY <1>1, <2>1, <3>1, <3>2, SleepsOn, Zenon
  <2>8. NoLostWakeup'
    BY <2>7, Zenon DEF NoLostWakeup, Waits
  <2>. QED  BY <1>3, <1>7, <2>5, <2>6, <2>8, Zenon DEF IInv
<1>. QED  BY <1>8, <1>9, Zenon

(* A new pipe is empty and nobody waits on it.                             *)
LEMMA InitIInv == Init => IInv
<1> SUFFICES ASSUME Init PROVE IInv
  OBVIOUS
<1>1. PICK p \in Procs :
        fds = [q \in Procs |-> IF q = p THEN [r |-> 1, w |-> 1] ELSE [r |-> 0, w |-> 0]]
  BY Zenon DEF Init
<1>2. /\ fds \in [Procs -> [Ends -> {0, 1}]]
      /\ \A q \in Procs, e \in Ends : fds[q][e] = IF q = p THEN 1 ELSE 0
  BY <1>1, QueueNames
<1>3. /\ ring = [data |-> [i \in 0..(Size-1) |-> Byte(0, 0)],
                 read_pos |-> 0, write_pos |-> 0, count |-> 0]
      /\ refs = [r |-> 1, w |-> 1] /\ w = NoWaiters
      /\ st = [q \in Procs |-> IF fds[q].r = 1 THEN "RUNNING" ELSE "NONE"]
      /\ pc = [q \in Procs |-> Idle] /\ sent = <<>> /\ nread = 0 /\ calls = 0
  BY Zenon DEF Init
<1>4. /\ w \in [Queues -> SUBSET (Procs \cup Others)] /\ \A q \in Queues : w[q] = {}
  BY <1>3, Zenon DEF NoWaiters
<1>5. /\ pc \in [Procs -> Calls] /\ \A q \in Procs : pc[q].op = "idle"
  BY <1>3, CallKinds, Zenon
<1>6. /\ st \in [Procs -> States] /\ \A q \in Procs : st[q] = IF q = p THEN "RUNNING" ELSE "NONE"
  BY <1>2, <1>3, QueueNames DEF States
<1>7. /\ refs \in [Ends -> Nat] /\ \A e \in Ends : refs[e] = 1
  BY <1>3, QueueNames
<1>8. Byte(0, 0) \in Bytes
  BY PipeAssumption DEF Byte, Bytes
<1>9. ring \in RingType /\ ring.count = 0 /\ ring.read_pos = 0 /\ ring.write_pos = 0
  BY <1>3, <1>8, PipeAssumption DEF RingType
<1>10. sent \in Seq(Bytes) /\ Len(sent) = 0 /\ nread \in Nat /\ calls \in 0..MaxCalls
  BY <1>3, PipeAssumption
<1>11. TypeOK
  BY <1>2, <1>4, <1>5, <1>6, <1>7, <1>9, <1>10, Zenon DEF TypeOK, RingType
<1>12. RingInv
  <2>1. Wrap(0 + 0) = 0
    BY Wraps, PipeAssumption
  <2>. QED  BY <1>3, <1>9, <1>10, <2>1 DEF RingInv
<1>13. CallsInv /\ AtomicWrites
  BY <1>3, <1>5, <1>10 DEF CallsInv, AtomicWrites, Writing
<1>14. WaitInv
  BY <1>2, <1>4, <1>5, <1>6, QueueNames, Zenon DEF WaitInv
<1>15. RefsExact
  <2>1. \A e \in Ends : Holding(e) = {p}
    BY <1>2 DEF Holding
  <2>. QED  BY <1>7, <2>1, FS_Singleton, Zenon DEF RefsExact
<1>16. NoLostWakeup
  BY <1>6, Zenon DEF NoLostWakeup
<1>. QED  BY <1>11, <1>12, <1>13, <1>14, <1>15, <1>16, Zenon DEF IInv

(* Every step keeps the invariant.                                         *)
LEMMA NextIInv == IInv /\ [Next]_vars => IInv'
<1> SUFFICES ASSUME IInv, [Next]_vars PROVE IInv'
  OBVIOUS
<1>1. CASE UNCHANGED vars
  <2>1. /\ UNCHANGED <<ring, refs, fds, st, pc, sent, nread, calls>> /\ w' = w
    BY <1>1, Zenon DEF vars
  <2>2. w \in [Queues -> SUBSET (Procs \cup Others)] /\ w[Elsewhere] \subseteq Others
    BY Zenon DEF IInv, TypeOK, WaitInv
  <2>. QED  BY <2>1, <2>2, ElsewhereStep, Zenon
<1>2. ASSUME NEW p \in Procs, Resume(p) PROVE IInv'
  BY <1>2, ReadActions, WriteActions, PollActions, Zenon DEF Resume
<1>3. ASSUME NEW p \in Procs, NEW len \in Lengths, NEW nonblock \in BOOLEAN,
             Read(p, len, nonblock) \/ Write(p, len, nonblock)
      PROVE  IInv'
  BY <1>3, ReadActions, WriteActions, Zenon
<1>4. ASSUME NEW p \in Procs, NEW e \in Ends, NEW timed \in BOOLEAN, Poll(p, e, timed)
      PROVE  IInv'
  BY <1>4, PollActions, Zenon
<1>5. ASSUME NEW p \in Procs, Deadline(p) \/ Exit(p) \/ Stop(p) \/ Cont(p) PROVE IInv'
  BY <1>5, DeadlineStep, ExitStep, StopStep, ContStep, Zenon
<1>6. ASSUME NEW p \in Procs, NEW e \in Ends, Close(p, e) PROVE IInv'
  BY <1>6, CloseStep, Zenon
<1>7. ASSUME NEW p \in Procs, NEW q \in Procs, Fork(p, q) PROVE IInv'
  BY <1>7, ForkStep, Zenon
<1>8. ASSUME (\E o \in Others : OtherWaits(o)) \/ OthersWake PROVE IInv'
  BY <1>8, OthersSteps, Zenon
<1>. QED  BY <1>1, <1>2, <1>3, <1>4, <1>5, <1>6, <1>7, <1>8, Zenon DEF Next

(* What the inductive invariant says in the words of the runs.             *)
LEMMA IInvSound == IInv => PipeSound
<1> SUFFICES ASSUME IInv PROVE PipeSound
  OBVIOUS
<1>0. TypeOK /\ RingInv /\ WaitInv /\ RefsExact
  BY Zenon DEF IInv
<1>1. RingIsFifo
  <2> DEFINE m == ring.count
             L == Len(sent)
             rest == SubSeq(sent, nread + 1, L)
  <2>1. m \in Nat /\ nread \in Nat /\ L \in Nat /\ sent \in Seq(Bytes)
    BY <1>0, Numbers DEF TypeOK
  <2>2. nread + m = L
    BY <1>0, Zenon DEF RingInv
  <2>3. L - (nread + 1) + 1 = m
    BY <2>1, <2>2
  <2>4. rest = [i \in 1..m |-> sent[nread + 1 + i - 1]]
    BY <2>1, <2>2, <2>3
  <2>5. ASSUME NEW i \in 1..m
        PROVE  ring.data[Wrap(ring.read_pos + i - 1)] = sent[nread + 1 + i - 1]
    <3>1. i - 1 \in 0..(m - 1)
      BY <2>1
    <3>2. At(i - 1) = sent[nread + 1 + (i - 1)]
      BY <1>0, <3>1, Zenon DEF RingInv
    <3>3. nread + 1 + (i - 1) = nread + 1 + i - 1
      BY <2>1, Zenon
    <3>4. ring.read_pos \in Int
      BY <1>0, Numbers
    <3>5. ring.read_pos + (i - 1) = ring.read_pos + i - 1
      BY <3>4, Zenon
    <3>. QED  BY <3>2, <3>3, <3>5, Zenon DEF At
  <2>. QED  BY <2>4, <2>5, Zenon DEF RingIsFifo, Contents
<1>2. NodesLive
  <2> SUFFICES ASSUME NEW p \in w[R] \cup w[W]
               PROVE  /\ pc[p].op # "idle" /\ st[p] \in {"WAITING", "SLEEPING", "RUNNING"}
                      /\ \E e \in Ends : fds[p][e] > 0
                      /\ ~Freed
    BY Zenon DEF NodesLive
  <2>1. PICK e \in Ends : p \in w[QueueOf(e)]
    BY QueueNames, Zenon
  <2>2. p \in Procs /\ pc[p].op # "idle" /\ EndOf(p) = e /\ st[p] \in {"WAITING", "SLEEPING", "RUNNING"}
    BY <1>0, <2>1, Zenon DEF WaitInv
  <2>3. fds[p][e] = 1
    BY <1>0, <2>2, Zenon DEF WaitInv
  <2>4. p \in Holding(e)
    BY <2>2, <2>3, Zenon DEF Holding
  <2>5. refs[e] > 0
    BY <1>0, <2>4, Holders, Zenon
  <2>6. ~Freed
    BY <2>5, QueueNames DEF Freed
  <2>. QED  BY <2>2, <2>3, <2>6
<1>. QED  BY <1>1, <1>2, Zenon DEF PipeSound, IInv

(* In every behaviour of the pipe, whatever its processes do and however   *)
(* large its page: bytes come out of process_handle_pipe_read in the order *)
(* in which process_handle_pipe_write put them in, a write of at most      *)
(* PIPE_BUF bytes is never split, read_refs and write_refs count the       *)
(* descriptors, wait nodes belong to living callers, and no process sleeps *)
(* in a call that could go on.                                             *)
THEOREM PipeTheorem == Spec => []PipeSound
<1>1. Spec => []IInv
  BY InitIInv, NextIInv, PTL DEF Spec
<1>. QED  BY <1>1, IInvSound, PTL
=============================================================================
