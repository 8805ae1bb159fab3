------------------------------ MODULE MCSched ------------------------------
(***************************************************************************)
(* Instances of Sched: a first user process (1) started by the boot        *)
(* services, or a bootseq task that keeps a login process alive.           *)
(***************************************************************************)
EXTENDS Sched

CONSTANT Settings     \* what a run looks at: "fork" and "jobs", or "boot"

VARIABLE part         \* which of them a behaviour runs

TwoUsers == 1..2
ThreeUsers == 1..3
UserTable == <<Tcp, Reaper, 1>>
BootTable == <<Tcp, Boot, Reaper>>

ForkCalls == {"exit", "fork", "waitpid", "kill", "stop", "cont"}
JobCalls == {"exit", "fork", "exec_fg", "waitpid", "ctrlc", "ctrlz",
             "gkill", "gstop", "gcont", "yield", "sleep"}
BootCalls == {"exit", "waitpid", "fork", "waitpid_fg"}
SelfStopCalls == {"fork", "stop", "stop_self", "cont"}
LoginCalls == {"exit"}

(* A session (part "fork") has three processes that fork and wait; a shell *)
(* (part "jobs") runs foreground and background jobs with longer quanta,   *)
(* two processes at most.                                                  *)
J == INSTANCE Sched WITH Users <- ThreeUsers, Calls <- JobCalls, Quantum <- 2,
                         ReapInterval <- 2, MaxProcs <- 5

MCInit ==
    /\ part \in Settings
    /\ IF part = "jobs" THEN J!Init ELSE Init
MCNext ==
    /\ UNCHANGED part
    /\ \/ part # "jobs" /\ Next
       \/ part = "jobs" /\ J!Next /\ k'.state[3] = "FREE"
MCSpec == MCInit /\ [][MCNext]_<<part, k, pc, halted, loop>>
MCFairSpec == MCSpec /\ Fairness


(* A process is destroyed only when it is dead and not current, and one    *)
(* that was claimed only by the parent that claimed it.                    *)
ReapedSafely == [][DestroysSafely /\ CollectsOwnChild]_vars

(* With a timer that keeps ticking, an orphaned zombie is destroyed and a  *)
(* blocked waitpid returns.                                                *)
ReapingEnds == UnclaimedReaped /\ WaitpidReturns
=============================================================================
