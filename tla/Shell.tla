------------------------------- MODULE Shell --------------------------------
(***************************************************************************)
(* The interactive shell (user/shell/app.c): its line editor with history  *)
(* and completion, its job table, and its pipelines.  A behaviour is about *)
(* one of the three (shPart).  A line is a sequence of characters.         *)
(***************************************************************************)
EXTENDS Integers, Sequences, FiniteSets, SequencesExt, FiniteSetsExt

CONSTANTS
    ShParts,
    ShKeys,        \* the keys that are pressed
    ShMax,         \* SHELL_LINE_MAX - 1
    ShRing,        \* SHELL_HISTORY_MAX
    ShWords,       \* the names completion finds, in the order it meets them
    ShPasts,       \* histories to start from
    ShPids, ShJobs,   \* process ids; the slots of the job table
    ShStages, ShPipe, \* stages of a pipeline; bytes a pipe holds
    ShCommands

VARIABLES
    shEd,      \* the line being edited, and the terminal's row after the prompt
    shRef,     \* history: the text left and right of the cursor
    hist,    \* the ring of lines entered, and its count
    past,    \* history: every line entered
    job,     \* the job table, the next id and what the shell waits for
    proc,    \* process id -> "free", "run", "zombie" or "other"
    line,    \* the pipeline: stages, pipes and descriptors
    shPart, shLeft

shVars == <<shEd, shRef, hist, past, job, proc, line, shPart, shLeft>>

ShStep(part) == shPart = part /\ shLeft > 0 /\ shLeft' = shLeft - 1 /\ UNCHANGED shPart
EdSame == UNCHANGED <<shEd, shRef, hist, past>>
JobSame == UNCHANGED <<job, proc>>

-----------------------------------------------------------------------------
(* What the terminal does with the text written to it.                     *)

TermPut(e, c) ==
    [e EXCEPT !.row = SubSeq(e.row, 1, e.col) \o <<c>> \o SubSeq(e.row, e.col + 2, Len(e.row)),
              !.col = @ + 1]
TermLeft(e, n) == [e EXCEPT !.col = @ - n]
TermRight(e, n) == [e EXCEPT !.col = @ + n]
TermClearEol(e) == [e EXCEPT !.row = SubSeq(e.row, 1, e.col)]
Prompted(e) == [e EXCEPT !.row = <<>>, !.col = 0]

\* sh_redraw_input: carriage return, prompt, line, clear to the end, back.
RedrawInput(e) ==
    LET drawn == TermClearEol(FoldLeft(TermPut, [e EXCEPT !.col = 0], e.text)) IN
    IF e.cur < Len(e.text) THEN TermLeft(drawn, Len(e.text) - e.cur) ELSE drawn

ReplaceInput(e, text) == RedrawInput([e EXCEPT !.text = text, !.cur = Len(text)])

-----------------------------------------------------------------------------
(* History.                                                                *)

HistoryAdd(h, text) ==
    IF text = <<>> \/ (h.count > 0 /\ h.ring[(h.count - 1) % ShRing] = text) THEN h
    ELSE [ring |-> [h.ring EXCEPT ![h.count % ShRing] = text], count |-> h.count + 1]

HistoryAvailable(h) == IF h.count < ShRing THEN h.count ELSE ShRing

HistoryAt(h, view) == h.ring[(h.count - HistoryAvailable(h) + view) % ShRing]

-----------------------------------------------------------------------------
(* Completion of the word left of the cursor.                              *)

TokenStart(e) ==
    LET blanks == {i \in 1 .. e.cur : e.text[i] = " "} IN IF blanks = {} THEN 0 ELSE Max(blanks)

CommonPrefix(a, b) ==
    LET same == {n \in 0 .. Min({Len(a), Len(b)}) : SubSeq(a, 1, n) = SubSeq(b, 1, n)} IN
    SubSeq(a, 1, Max(same))

\* m = [count, common]
MatchAdd(m, word, token) ==
    IF ~IsPrefix(token, word) \/ (m.count > 0 /\ m.common = word) THEN m
    ELSE [count |-> m.count + 1, common |-> IF m.count = 0 THEN word ELSE CommonPrefix(m.common, word)]

Insert(e, text) ==
    [e EXCEPT !.text = SubSeq(@, 1, e.cur) \o text \o SubSeq(@, e.cur + 1, Len(@)), !.cur = @ + Len(text)]

CompleteLine(e) ==
    LET token == SubSeq(e.text, TokenStart(e) + 1, e.cur)
        m == FoldLeft(LAMBDA acc, w : MatchAdd(acc, w, token), [count |-> 0, common |-> <<>>], ShWords)
        more == SubSeq(m.common, Len(token) + 1, Len(m.common))
        one == IF m.count = 1 THEN 1 ELSE 0
        done == Insert(e, more) IN
    IF m.count = 0 \/ (more = <<>> /\ one = 0) \/ Len(e.text) + Len(more) + one > ShMax THEN e
    ELSE RedrawInput(IF one = 1 /\ Last(m.common) # "/" /\ Len(done.text) < ShMax
                     THEN Insert(done, <<" ">>) ELSE done)

\* What completion is to insert: as far as all words that begin so agree.
Completion(token) ==
    LET hits == {w \in ToSet(ShWords) : IsPrefix(token, w)}
        agreed == {n \in 0 .. ShMax : \A u, v \in hits : /\ n <= Len(u)
                                                         /\ SubSeq(u, 1, n) = SubSeq(v, 1, n)} IN
    IF hits = {} THEN <<>>
    ELSE LET w == CHOOSE u \in hits : TRUE IN
         SubSeq(w, Len(token) + 1, Max(agreed))
         \o (IF Cardinality(hits) = 1 /\ Last(w) # "/" THEN <<" ">> ELSE <<>>)

\* A place is kept for a space even where none is put.
Slash(text) == IF text # <<>> /\ Last(text) = "/" THEN 1 ELSE 0

-----------------------------------------------------------------------------
(* sh_readline_interactive, one key at a time.                             *)

View(e, view, text) == ReplaceInput([e EXCEPT !.view = view], text)

Edit(e, key) ==
    LET n == Len(e.text)
        typed == Insert(e, <<key>>)
        here == [e EXCEPT !.saved = IF e.view = e.avail THEN e.text ELSE @] IN
    CASE key = "left" -> IF e.cur > 0 THEN TermLeft([e EXCEPT !.cur = @ - 1], 1) ELSE e
      [] key = "right" -> IF e.cur < n THEN TermRight([e EXCEPT !.cur = @ + 1], 1) ELSE e
      [] key = "home" -> TermLeft([e EXCEPT !.cur = 0], e.cur)
      [] key = "end" -> TermRight([e EXCEPT !.cur = n], n - e.cur)
      [] key = "bs" -> IF e.cur = 0 THEN e
                       ELSE RedrawInput([e EXCEPT !.text = RemoveAt(@, e.cur), !.cur = @ - 1])
      [] key = "del" -> IF e.cur >= n THEN e ELSE RedrawInput([e EXCEPT !.text = RemoveAt(@, e.cur + 1)])
      [] key = "up" -> IF e.avail = 0 \/ e.view = 0 THEN e
                       ELSE View(here, e.view - 1, HistoryAt(hist, e.view - 1))
      [] key = "down" -> IF e.avail = 0 \/ e.view = e.avail THEN e
                         ELSE View(e, e.view + 1, IF e.view + 1 = e.avail THEN e.saved
                                                  ELSE HistoryAt(hist, e.view + 1))
      [] key = "tab" -> CompleteLine(e)
      [] key = "^C" -> Prompted([e EXCEPT !.text = <<>>, !.cur = 0, !.view = e.avail])
      [] OTHER -> IF n >= ShMax THEN e
                  ELSE IF typed.cur = n + 1 THEN TermPut(typed, key) ELSE RedrawInput(typed)

NewLine(h) == [text |-> <<>>, cur |-> 0, saved |-> <<>>, view |-> HistoryAvailable(h),
               avail |-> HistoryAvailable(h), row |-> <<>>, col |-> 0]

\* The text around the cursor, as the keys say; r.back counts lines back.
RefEdit(r, key) ==
    LET all == r.l \o r.r
        depth == Min({ShRing, Len(past)})
        blanks == {i \in DOMAIN r.l : r.l[i] = " "}
        token == SubSeq(r.l, (IF blanks = {} THEN 0 ELSE Max(blanks)) + 1, Len(r.l))
        from(n) == IF n = 0 THEN r.kept ELSE past[Len(past) - n + 1]
        keep == IF r.back = 0 THEN all ELSE r.kept IN
    CASE key = "left" -> IF r.l = <<>> THEN r ELSE [r EXCEPT !.l = Front(@), !.r = <<Last(r.l)>> \o @]
      [] key = "right" -> IF r.r = <<>> THEN r ELSE [r EXCEPT !.l = Append(@, Head(r.r)), !.r = Tail(@)]
      [] key = "home" -> [r EXCEPT !.l = <<>>, !.r = all]
      [] key = "end" -> [r EXCEPT !.l = all, !.r = <<>>]
      [] key = "bs" -> IF r.l = <<>> THEN r ELSE [r EXCEPT !.l = Front(@)]
      [] key = "del" -> IF r.r = <<>> THEN r ELSE [r EXCEPT !.r = Tail(@)]
      [] key = "up" -> IF r.back >= depth THEN r
                       ELSE [l |-> from(r.back + 1), r |-> <<>>, back |-> r.back + 1, kept |-> keep]
      [] key = "down" -> IF r.back = 0 THEN r ELSE [r EXCEPT !.l = from(r.back - 1), !.r = <<>>, !.back = @ - 1]
      [] key = "tab" -> IF Len(all) + Len(Completion(token)) + Slash(Completion(token)) > ShMax THEN r
                        ELSE [r EXCEPT !.l = @ \o Completion(token)]
      [] key = "^C" -> [r EXCEPT !.l = <<>>, !.r = <<>>, !.back = 0]
      [] OTHER -> IF Len(all) >= ShMax THEN r ELSE [r EXCEPT !.l = Append(@, key)]

Blank(text) == \A i \in DOMAIN text : text[i] = " "

Enter ==
    LET entered == ~Blank(shEd.text)
        h == IF entered THEN HistoryAdd(hist, shEd.text) ELSE hist IN
    /\ ShStep("edit")
    /\ hist' = h
    /\ past' = IF entered /\ (past = <<>> \/ Last(past) # shEd.text) THEN Append(past, shEd.text) ELSE past
    /\ shEd' = NewLine(h)
    /\ shRef' = [l |-> <<>>, r |-> <<>>, back |-> 0, kept |-> <<>>]
    /\ JobSame /\ UNCHANGED line

ShKey(key) ==
    /\ ShStep("edit")
    /\ shEd' = Edit(shEd, key)
    /\ shRef' = RefEdit(shRef, key)
    /\ UNCHANGED <<hist, past, line>> /\ JobSame

-----------------------------------------------------------------------------
(* Jobs.  A child is kept as a zombie until the shell waits for it; then   *)
(* its process id may go to somebody else.                                 *)

NoJob == [used |-> FALSE, pid |-> 0, id |-> 0]
Used == {s \in ShJobs : job.tab[s].used}
Collect(pr, pids) == [p \in ShPids |-> IF p \in pids THEN "free" ELSE pr[p]]

\* sh_jobs_reap_completed, after every command; sh_jobs does the same.
Reaped(tab, pr) ==
    LET done == {s \in ShJobs : tab[s].used /\ pr[tab[s].pid] = "zombie"} IN
    [tab |-> [s \in ShJobs |-> IF s \in done THEN NoJob ELSE tab[s]],
     proc |-> Collect(pr, {tab[s].pid : s \in done})]

After(tab, id, pr) ==
    /\ job' = [tab |-> Reaped(tab, pr).tab, next |-> id, wait |-> 0, quit |-> FALSE]
    /\ proc' = Reaped(tab, pr).proc

ShReady == job.wait = 0 /\ ~job.quit
Command == ShStep("jobs") /\ ShReady /\ EdSame /\ UNCHANGED line

\* sh_bg: exec, then a slot of the table; with none, the child is killed.
Bg(p) ==
    /\ Command /\ proc[p] = "free"
    /\ LET free == ShJobs \ Used
           pr == [proc EXCEPT ![p] = "run"] IN
       IF free = {}
       THEN \E end \in {"run", "zombie"} : After(job.tab, job.next, [pr EXCEPT ![p] = end])
       ELSE After([job.tab EXCEPT ![Min(free)] = [used |-> TRUE, pid |-> p, id |-> job.next]],
                  job.next + 1, pr)

JobsBuiltin == Command /\ After(job.tab, job.next, proc)

Kill(s) ==
    /\ Command /\ s \in Used
    /\ \E end \in {"run", "zombie"} :
          After([job.tab EXCEPT ![s] = NoJob], job.next,
                [proc EXCEPT ![job.tab[s].pid] = IF @ = "run" THEN end ELSE @])

\* sh_fg waits for the job; the slot is cleared once it has ended.
Fg(s) ==
    /\ Command /\ s \in Used
    /\ job' = [job EXCEPT !.wait = s]
    /\ UNCHANGED proc

FgDone ==
    /\ ~ShReady /\ job.wait \in ShJobs /\ proc[job.tab[job.wait].pid] = "zombie"
    /\ After([job.tab EXCEPT ![job.wait] = NoJob], job.next,
             Collect(proc, {job.tab[job.wait].pid}))
    /\ EdSame /\ UNCHANGED <<line, shPart, shLeft>>

\* sh_launch_wait of an external program, or of busybox when it has no file.
RunExternal(p) ==
    /\ Command /\ proc[p] = "free"
    /\ \E end \in {"free", "run"} :
          IF end = "free" THEN After(job.tab, job.next, proc)
          ELSE proc' = [proc EXCEPT ![p] = "run"] /\ job' = [job EXCEPT !.wait = -p]

ExternalDone ==
    /\ ~ShReady /\ -job.wait \in ShPids /\ proc[-job.wait] = "zombie"
    /\ After(job.tab, job.next, Collect(proc, {-job.wait}))
    /\ EdSame /\ UNCHANGED <<line, shPart, shLeft>>

\* sh_jobs_terminate_all: each job in turn is killed and waited for.
ExitShell == Command /\ job' = [job EXCEPT !.quit = TRUE] /\ UNCHANGED proc

TerminateJob ==
    /\ job.quit /\ Used # {}
    /\ LET p == job.tab[Min(Used)].pid IN
       /\ proc[p] = "zombie"
       /\ proc' = Collect(proc, {p})
       /\ job' = [job EXCEPT !.tab[Min(Used)] = NoJob]
    /\ EdSame /\ UNCHANGED <<line, shPart, shLeft>>

ChildEnds(p) ==
    /\ shPart = "jobs" /\ proc[p] = "run"
    /\ proc' = [proc EXCEPT ![p] = "zombie"]
    /\ EdSame /\ UNCHANGED <<job, line, shPart, shLeft>>

\* A process of somebody else gets the id of one that is gone.
OtherStarts(p) ==
    /\ shPart = "jobs" /\ proc[p] = "free"
    /\ proc' = [proc EXCEPT ![p] = "other"]
    /\ EdSame /\ UNCHANGED <<job, line, shPart, shLeft>>

-----------------------------------------------------------------------------
(* A pipeline of n stages.  Pipe i joins stages i and i + 1; hold[q] are   *)
(* the ends process q has open, the shell being 0.  A stage reads all its  *)
(* input, passes it on and ends at end of file, or when nobody reads.      *)

PipesOf(n) == 1 .. n - 1
PipeEnds(n) == PipesOf(n) \X {"r", "w"}

StartPipeline(n) ==
    /\ ShStep("pipe") /\ line.at = "prompt"
    /\ line' = [at |-> "fork", n |-> n, made |-> 0,
                stage |-> [i \in ShStages |-> "none"],
                hold |-> [q \in ShStages \cup {0} |-> IF q = 0 THEN PipeEnds(n) ELSE {}],
                std |-> [i \in ShStages |-> {}],
                has |-> [i \in ShStages \cup {0} |-> 0], work |-> [i \in ShStages |-> IF i = 1 THEN ShPipe + 1 ELSE 0]]
    /\ EdSame /\ JobSame

Pipes(step) == shPart = "pipe" /\ line' = step /\ EdSame /\ JobSame /\ UNCHANGED <<shPart, shLeft>>

Live(i, state) == line.at # "prompt" /\ line.stage[i] = state

ForkStage ==
    /\ line.at = "fork" /\ line.made < line.n
    /\ Pipes([line EXCEPT !.made = @ + 1, !.stage[line.made + 1] = "forked",
                          !.hold[line.made + 1] = line.hold[0]])

CloseEnds ==
    /\ line.at = "fork" /\ line.made = line.n
    /\ Pipes([line EXCEPT !.at = "wait", !.hold[0] = {}, !.made = 1])


\* The child: dup2 of its two ends, close of every pipe, execve.
SetupStage(i) ==
    /\ Live(i, "forked")
    /\ Pipes([line EXCEPT !.stage[i] = "run",
                          !.std[i] = {e \in PipeEnds(line.n) : e = <<i - 1, "r">> \/ e = <<i, "w">>},
                          !.hold[i] = {}])

OpenAt(e) == \E q \in ShStages \cup {0} : e \in line.hold[q] \/ (q # 0 /\ e \in line.std[q])
Gone(i) == [line EXCEPT !.stage[i] = "zombie", !.std[i] = {}, !.hold[i] = {}]

CanRead(i) == i > 1 /\ line.has[i - 1] > 0
CanWrite(i) == line.work[i] > 0 /\ (i = line.n \/ ~OpenAt(<<i, "r">>) \/ line.has[i] < ShPipe)
AtEof(i) == line.work[i] = 0 /\ (i = 1 \/ (line.has[i - 1] = 0 /\ ~OpenAt(<<i - 1, "w">>)))

RunStage(i) ==
    /\ Live(i, "run")
    /\ \/ CanRead(i) /\ line.work[i] = 0 /\ Pipes([line EXCEPT !.has[i - 1] = @ - 1, !.work[i] = 1])
       \/ CanWrite(i) /\ Pipes(IF i = line.n THEN [line EXCEPT !.work[i] = @ - 1]
                               ELSE IF ~OpenAt(<<i, "r">>) THEN Gone(i)
                               ELSE [line EXCEPT !.work[i] = @ - 1, !.has[i] = @ + 1])
       \/ AtEof(i) /\ Pipes(Gone(i))

\* A stage may stop before its input does, or fail to execute at all.
QuitStage(i) == Live(i, "run") /\ Pipes(Gone(i))

WaitStage ==
    /\ line.at = "wait" /\ line.made <= line.n /\ line.stage[line.made] = "zombie"
    /\ Pipes([line EXCEPT !.stage[line.made] = "none", !.made = @ + 1,
                          !.at = IF line.made = line.n THEN "prompt" ELSE "wait"])

ShInit ==
    /\ shPart \in ShParts
    /\ past \in (IF shPart = "edit" THEN ShPasts ELSE {<<>>})
    /\ hist = FoldLeft(HistoryAdd, [ring |-> [i \in 0 .. ShRing - 1 |-> <<>>], count |-> 0], past)
    /\ shEd = NewLine(hist)
    /\ shRef = [l |-> <<>>, r |-> <<>>, back |-> 0, kept |-> <<>>]
    /\ job = [tab |-> [s \in ShJobs |-> NoJob], next |-> 1, wait |-> 0, quit |-> FALSE]
    /\ proc = [p \in ShPids |-> "free"]
    /\ line = [at |-> "prompt"]
    /\ shLeft = ShCommands

ShNext ==
    \/ \E key \in ShKeys : ShKey(key)
    \/ Enter
    \/ \E p \in ShPids : Bg(p) \/ RunExternal(p) \/ ChildEnds(p) \/ OtherStarts(p)
    \/ \E s \in ShJobs : Fg(s) \/ Kill(s)
    \/ JobsBuiltin \/ FgDone \/ ExternalDone \/ ExitShell \/ TerminateJob
    \/ \E n \in ShStages : StartPipeline(n)
    \/ ForkStage \/ CloseEnds \/ WaitStage
    \/ \E i \in ShStages : SetupStage(i) \/ RunStage(i) \/ QuitStage(i)

ShSpec == ShInit /\ [][ShNext]_shVars

-----------------------------------------------------------------------------
(* Whatever keys are pressed, the line the shell will run is the one the   *)
(* keys spell, the row on the terminal shows it, and the terminal's cursor *)
(* stands where the next character will go: through insertion, history,    *)
(* completion and a full buffer (sh_readline_interactive).                 *)
LineAsTyped ==
    /\ shEd.text = shRef.l \o shRef.r /\ shEd.cur = Len(shRef.l)
    /\ shEd.row = shEd.text /\ shEd.col = shEd.cur

(* A job in the table stands for a child the shell has not waited for, so  *)
(* that fg and kill never reach a process that got its id later; no two    *)
(* jobs share an id (sh_jobs_reap_completed, sh_fg, sh_kill_job).          *)
JobsOwned ==
    /\ \A s \in Used : proc[job.tab[s].pid] \in {"run", "zombie"}
    /\ \A s, t \in Used : job.tab[s].id = job.tab[t].id => s = t

(* A pipeline always ends: while the shell waits for it, some stage can    *)
(* run, and none waits for end of file on a pipe whose write end is open   *)
(* in a process that will never write (sh_run_pipeline's closes).          *)
PipelineMoves ==
    line.at = "wait" =>
       \/ line.stage[line.made] = "zombie"
       \/ \E i \in 1 .. line.n : \/ line.stage[i] = "forked"
                                 \/ line.stage[i] = "run" /\ (CanRead(i) \/ CanWrite(i) \/ AtEof(i))
=============================================================================
