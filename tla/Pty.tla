-------------------------------- MODULE Pty ---------------------------------
(***************************************************************************)
(* A pseudo-terminal (process.c): two rings, the line discipline between   *)
(* them, a master held by a terminal window and a slave held by the        *)
(* program in it.                                                          *)
(*                                                                         *)
(* A call runs with interrupts disabled until it parks, one byte at a      *)
(* time here: cpu names the process whose call is under way, and nobody    *)
(* else moves before it returns, parks or dies.                            *)
(***************************************************************************)
EXTENDS Integers, Sequences, SequencesExt

CONSTANTS
    PtyRing,      \* PIPE_BUFFER_SIZE
    Settings,     \* the termios settings programs choose
    Typed,        \* what the master writes
    Shown,        \* what the slave writes
    PtyCalls      \* bound: calls made

VARIABLES
    pty,          \* rings, reference counts, termios, output_prev_cr
    agent,        \* "M" and "S": the call each is in
    cpu,          \* the process inside a call, or none
    tape,         \* history: bytes put into the output ring, characters shown
    ptyLeft       \* calls left

ptyVars == <<pty, agent, cpu, tape, ptyLeft>>

Ends == {"M", "S"}
Peer(e) == IF e = "M" THEN "S" ELSE "M"
Quiet == [pc |-> "idle", st |-> "RUNNING", todo |-> <<>>, part |-> <<>>, nb |-> FALSE,
          onlcr |-> FALSE, back |-> "idle", len |-> 0, rnb |-> FALSE]

(* process_fd_pty.                                                         *)
PtyInit ==
    /\ \E tio \in Settings, catches \in BOOLEAN :
          pty = [M |-> <<>>, S |-> <<>>, refs |-> [e \in Ends |-> 1], prevCr |-> FALSE,
                 tio |-> tio, catches |-> catches]
    /\ agent = [e \in Ends |-> Quiet]
    /\ cpu = "none"
    /\ tape = [put |-> <<>>, shown |-> <<>>, plain |-> TRUE]
    /\ ptyLeft = PtyCalls

(* pty.M is what the master reads (slave_to_master), pty.S what the slave  *)
(* reads.  A write of e goes to the other end's ring, an echo of the       *)
(* master to its own.                                                      *)
RingOf(a, e) == IF a.back = "echoed" THEN "M" ELSE Peer(e)

(* wait_queue_wake_all on the readers, or the writers, of the ring r.      *)
Wakes(ags, ring(_, _), r, pc) ==
    [e \in Ends |-> IF ags[e].st = "WAITING" /\ ags[e].pc = pc /\ ring(ags[e], e) = r
                    THEN [ags[e] EXCEPT !.st = "RUNNING"] ELSE ags[e]]
OwnRing(a, e) == e
MutWakeReaders(ags, r) == Wakes(ags, RingOf, r, "write")
WakeReaders(ags, r) == Wakes(ags, OwnRing, r, "read")
WakeWriters(ags, r) == Wakes(ags, RingOf, r, "write")
WakeBoth(ags) == [e \in Ends |-> IF ags[e].st = "WAITING" THEN [ags[e] EXCEPT !.st = "RUNNING"] ELSE ags[e]]

Parks(ags, e) == [ags EXCEPT ![e].st = "WAITING"]
Returned(ags, e) == [ags EXCEPT ![e] = [Quiet EXCEPT !.st = ags[e].st]]

Call(e) ==
    /\ cpu = "none" /\ agent[e] = Quiet /\ pty.refs[e] > 0
    /\ ptyLeft > 0 /\ ptyLeft' = ptyLeft - 1
Runs(e, pc) ==
    /\ cpu \in {"none", e} /\ agent[e].st = "RUNNING" /\ agent[e].pc = pc
    /\ UNCHANGED ptyLeft

-----------------------------------------------------------------------------
(* Writing.  todo holds the characters to go, part the bytes left of the   *)
(* one under way.                                                          *)

(* pty_buffer_write_output: what a character becomes.                      *)
Unit(onlcr, prevCr, ch) == IF onlcr /\ ch = "nl" /\ ~prevCr THEN <<"cr", "nl">> ELSE <<ch>>

(* A call by e that writes chars, then goes on with back.  Only output is  *)
(* translated, by the settings found when the call begins.                 *)
WriteStarts(ags, e, chars, nb, back) ==
    [ags EXCEPT ![e].pc = "write", ![e].todo = chars, ![e].nb = nb, ![e].back = back,
                ![e].onlcr = pty.tio.onlcr /\ (e = "S" \/ back = "echoed")]

(* pty_buffer_write: the next byte goes in, the writer parks, or the call  *)
(* ends: a non-blocking translated write after one character.              *)
PtyWrite(e) ==
    LET a == agent[e]
        r == RingOf(a, e)
        full == Len(pty[r]) >= PtyRing
        ended == a.todo = <<>> \/ pty.refs[r] = 0 \/ (a.nb /\ full)
        part == IF a.part # <<>> THEN a.part ELSE Unit(a.onlcr, pty.prevCr, Head(a.todo))
        whole == Len(part) = 1
        after == IF a.nb /\ a.onlcr /\ whole THEN Returned(agent, e)
                 ELSE [agent EXCEPT ![e].part = Tail(part), ![e].todo = IF whole THEN Tail(@) ELSE @] IN
    /\ Runs(e, "write")
    /\ \/ /\ ended
          /\ agent' = IF a.back = "read" THEN [agent EXCEPT ![e].pc = "read", ![e].part = <<>>]
                      ELSE Returned(agent, e)
          /\ cpu' = IF a.back = "read" THEN e ELSE "none"
          /\ tape' = [tape EXCEPT !.plain = @ /\ a.part = <<>>]
          /\ UNCHANGED pty
       \/ /\ ~ended /\ full
          /\ agent' = Parks(agent, e)
          /\ cpu' = "none"
          /\ UNCHANGED <<pty, tape>>
       \/ /\ ~ended /\ ~full
          /\ pty' = [pty EXCEPT ![r] = Append(@, Head(part)),
                                !.prevCr = IF whole /\ a.onlcr THEN Head(a.todo) = "cr" ELSE @]
          /\ tape' = IF r # "M" THEN tape
                     ELSE [put |-> Append(tape.put, Head(part)),
                           shown |-> IF whole THEN Append(tape.shown, Head(a.todo)) ELSE tape.shown,
                           plain |-> tape.plain /\ a.onlcr /\ agent[Peer(e)].part = <<>>]
          /\ agent' = WakeReaders(after, r)
          /\ cpu' = IF agent'[e].pc = "idle" THEN "none" ELSE e

(* process_handle_pty_write by the slave.                                  *)
SlaveWrite(chars, nb) ==
    /\ Call("S")
    /\ agent' = WriteStarts(agent, "S", chars, nb, "idle")
    /\ cpu' = "S"
    /\ UNCHANGED <<pty, tape>>

(* process_handle_pty_close, also from the exit of the process.            *)
PtyClose(p, e) == [p EXCEPT !.refs[e] = 0]

(* process_handle_pty_write by the master: an interrupt character goes to  *)
(* the foreground group, whose program catches it with a signalfd or dies, *)
(* and is echoed without regard to O_NONBLOCK; what came before it in the  *)
(* same call is not passed on.                                             *)
Signals(chars) == pty.tio.isig /\ ToSet(chars) \cap {"intr", "susp"} # {}
First(chars) == chars[Min({i \in 1..Len(chars) : chars[i] \in {"intr", "susp"}})]
MasterWrite(chars, nb) ==
    LET kills == First(chars) = "intr" /\ ~pty.catches
        dead == [Returned(agent, "S") EXCEPT !["S"].st = "DEAD"]
        stopped == IF agent["S"].st = "DEAD" THEN agent ELSE [agent EXCEPT !["S"].st = "STOPPED"]
        hit == IF First(chars) = "susp" THEN stopped ELSE IF kills THEN dead ELSE agent
        echo == WriteStarts(hit, "M", <<"^", "nl">>, FALSE, "echoed") IN
    /\ Call("M")
    /\ IF ~Signals(chars)
       THEN agent' = WriteStarts(agent, "M", chars, nb, "idle") /\ cpu' = "M" /\ UNCHANGED <<pty, tape>>
       ELSE /\ pty' = IF kills THEN PtyClose(pty, "S") ELSE pty
            /\ agent' = IF pty.tio.echo THEN echo ELSE hit
            /\ cpu' = IF pty.tio.echo THEN "M" ELSE "none"
            /\ tape' = [tape EXCEPT !.plain = @ /\ (kills => agent["S"].part = <<>>)]

-----------------------------------------------------------------------------
(* Reading.                                                                *)

(* pty_buffer_read by the master.                                          *)
MasterRead(len, nb) ==
    /\ Call("M") \/ (Runs("M", "read") /\ ~nb /\ len = agent["M"].len)
    /\ IF pty.M # <<>> \/ pty.refs["S"] = 0 \/ nb
       THEN /\ pty' = [pty EXCEPT !.M = SubSeq(@, len + 1, Len(@))]
            /\ agent' = IF pty.M = <<>> THEN Returned(agent, "M") ELSE WakeWriters(Returned(agent, "M"), "M")
       ELSE /\ agent' = Parks([agent EXCEPT !["M"].pc = "read", !["M"].len = len], "M")
            /\ UNCHANGED pty
    /\ cpu' = "none"
    /\ UNCHANGED tape

(* process_handle_pty_read_common by the slave: one byte at a time, echoed *)
(* as it is read, up to the end of the line or one byte.                   *)
SlaveReads(len, nb) ==
    /\ Call("S")
    /\ agent' = [agent EXCEPT !["S"].pc = "read", !["S"].len = len, !["S"].rnb = nb]
    /\ cpu' = "S"
    /\ UNCHANGED <<pty, tape>>
SlaveRead ==
    LET a == agent["S"]
        ch == Head(pty.S)
        over == \/ pty.tio.canon /\ ch \in {"nl", "eof"}
                \/ ~pty.tio.canon
                \/ a.len = 1
        taken == IF over THEN Returned(agent, "S") ELSE [agent EXCEPT !["S"].len = @ - 1] IN
    /\ Runs("S", "read")
    /\ IF pty.S = <<>>
       THEN /\ agent' = IF pty.refs["M"] = 0 \/ a.rnb THEN Returned(agent, "S") ELSE Parks(agent, "S")
            /\ cpu' = "none"
            /\ UNCHANGED pty
       ELSE /\ pty' = [pty EXCEPT !.S = Tail(@)]
            /\ agent' = WakeWriters(IF pty.tio.echo /\ ~(pty.tio.canon /\ ch = "eof")
                             THEN WriteStarts(taken, "S", <<ch>>, FALSE, taken["S"].pc)
                             ELSE taken, "S")
            /\ cpu' = IF agent'["S"].pc = "idle" THEN "none" ELSE "S"
    /\ UNCHANGED tape

-----------------------------------------------------------------------------
(* close, tcsetattr and SIGCONT.                                           *)
CloseEnd(e) ==
    /\ Call(e)
    /\ pty' = PtyClose(pty, e)
    /\ agent' = WakeBoth(agent)
    /\ UNCHANGED <<cpu, tape>>
SetAttr(tio) ==
    /\ Call("S") /\ tio # pty.tio
    /\ pty' = [pty EXCEPT !.tio = tio]
    /\ UNCHANGED <<agent, cpu, tape>>
PtyContinue ==
    /\ cpu = "none" /\ agent["S"].st = "STOPPED"
    /\ agent' = [agent EXCEPT !["S"].st = "RUNNING"]
    /\ UNCHANGED <<pty, cpu, tape, ptyLeft>>

PtyNext ==
    \/ \E e \in Ends : PtyWrite(e) \/ CloseEnd(e)
    \/ \E chars \in Typed, nb \in BOOLEAN : MasterWrite(chars, nb)
    \/ \E chars \in Shown, nb \in BOOLEAN : SlaveWrite(chars, nb)
    \/ \E len \in 1..2, nb \in BOOLEAN : MasterRead(len, nb)
    \/ \E len \in 1..2, nb \in BOOLEAN : SlaveReads(len, nb)
    \/ SlaveRead
    \/ \E tio \in Settings : SetAttr(tio)
    \/ PtyContinue

PtySpec == PtyInit /\ [][PtyNext]_ptyVars

-----------------------------------------------------------------------------
(* process_handle_pty_poll.                                                *)
PollIn(e) == pty[e] # <<>> \/ pty.refs[Peer(e)] = 0
PollOut(e) == pty.refs[Peer(e)] # 0 /\ Len(pty[Peer(e)]) < PtyRing

(* A call parks on a terminal only for as long as poll would say the same: *)
(* no read sleeps when poll reports input or a hangup, no write sleeps     *)
(* when poll reports room or the reader is gone.                           *)
PtyWakes ==
    \A e \in Ends :
        agent[e].st = "WAITING" =>
            /\ agent[e].pc = "read" => ~PollIn(e)
            /\ agent[e].pc = "write" /\ agent[e].back # "echoed" =>
                   ~PollOut(e) /\ pty.refs[Peer(e)] # 0

(* What the output ring was given is what the program and the echo wrote,  *)
(* every newline made a return and a newline unless a return came just     *)
(* before, whatever the order of echoes, parked writes and changes of the  *)
(* settings -- as long as every write is translated and none is cut or     *)
(* overtaken between a return and its newline.                             *)
Expand(chars) ==
    FoldLeft(LAMBDA acc, i : acc \o (IF chars[i] = "nl" /\ (i = 1 \/ chars[i - 1] # "cr")
                                     THEN <<"cr", "nl">> ELSE <<chars[i]>>),
             <<>>, [i \in 1..Len(chars) |-> i])
OutputExpanded ==
    tape.plain /\ (\A e \in Ends : agent[e].part = <<>>) => tape.put = Expand(tape.shown)
====
