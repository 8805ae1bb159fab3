------------------------------- MODULE Console ------------------------------
(***************************************************************************)
(* The keyboard, the mouse and the two queues they fill: the bytes a       *)
(* console read takes (keyboard.c, process_key_consumer) and the events    *)
(* SYS_INPUT_READ takes (input.c), with the processes that read and poll   *)
(* them.  Each queue has one slot for a waiting process.                   *)
(*                                                                         *)
(* Interrupt handlers run to their end; a system call runs with interrupts *)
(* disabled up to its hlt loop.  Both are one action.                      *)
(*                                                                         *)
(* The module holds two state machines: the pointer driver (msVars), and   *)
(* the keyboard with the queues (conVars).                                 *)
(***************************************************************************)
EXTENDS Integers, Sequences, SequencesExt, FiniteSets

(***************************************************************************)
(* The pointer driver (drivers/mouse.c): the handshake that finds out      *)
(* whether the PS/2 mouse has a wheel, the absolute pointer of a virtual   *)
(* machine whose motion is scaled down to pixels, the packets the USB      *)
(* service injects, and the counters SYS_MOUSE_READ takes.  How three or   *)
(* four bytes make a packet is part of the second state machine.           *)
(***************************************************************************)

CONSTANTS
    MsKinds,     \* what the mouse can become: 0, 3 (wheel), 4 (five buttons)
    MsScale,     \* absolute units of one pixel (1 << VMMOUSE_ABS_SCALE_SHIFT)
    MsPlaces,    \* absolute positions, pairs
    MsSteps,     \* relative movements, pairs
    MsMoves      \* packets and calls after a clean handshake

VARIABLES
    ms,      \* the driver's statics
    pd,      \* the PS/2 mouse
    vmq,     \* packets the virtual machine holds
    inj,     \* an injection between its counters and its event
    mg,      \* history: real motion and motion told, since they were last equal
    msLeft

msVars == <<ms, pd, vmq, inj, mg, msLeft>>

Axes == {"x", "y"}
Still == [a \in Axes |-> 0]
Vector(p) == [a \in Axes |-> IF a = "x" THEN p[1] ELSE p[2]]
Plus(u, v) == [a \in Axes |-> u[a] + v[a]]
Minus(u) == [a \in Axes |-> -u[a]]

(***************************************************************************)
(* The mouse at the other end of the wire (external).  A byte it waits for *)
(* as an argument is taken as one, whatever it was meant to be.            *)
(***************************************************************************)

\* External: the mouse after a byte, and whether it acknowledges it.
Knock(rates) ==
    IF Len(rates) < 3 THEN <<>> ELSE SubSeq(rates, Len(rates) - 2, Len(rates))

DeviceByte(m, b) ==
    IF m.want = "rate"
    THEN LET r == Append(m.rates, b)
         IN [m EXCEPT !.want = "", !.rates = Knock(r) \o (IF Len(r) < 3 THEN r ELSE <<>>),
                      !.id = IF Knock(r) = <<200, 100, 80>> /\ m.kind >= 3 /\ @ = 0 THEN 3
                             ELSE IF Knock(r) = <<200, 200, 80>> /\ m.kind = 4 /\ @ = 3 THEN 4
                             ELSE @,
                      !.ack = TRUE]
    ELSE IF m.want = "resolution" THEN [m EXCEPT !.want = "", !.ack = TRUE]
    ELSE [m EXCEPT !.want   = CASE b = 243 -> "rate" [] b = 232 -> "resolution" [] OTHER -> "",
                   !.rates  = IF b = 246 THEN <<>> ELSE @,
                   !.stream = IF b = 246 THEN FALSE ELSE IF b = 244 THEN TRUE ELSE @,
                   !.ack    = b \in {230, 232, 242, 243, 244, 246}]

(***************************************************************************)
(* The handshake.  h is the mouse, the number of bytes sent, whether all   *)
(* went well, and the bytes that will go wrong: "deaf", the mouse does not *)
(* hear it, or "mute", the driver does not get the answer.                 *)
(***************************************************************************)

\* mouse_write, with ps2_write_command, ps2_write_data and ps2_wait_read.
MouseWrite(h, b) ==
    IF ~h.ok THEN h
    ELSE LET deaf == <<h.n, "deaf">> \in h.wrong
             mute == <<h.n, "mute">> \in h.wrong
             m    == IF deaf THEN h.m ELSE DeviceByte(h.m, b)
         IN [h EXCEPT !.m = m, !.n = @ + 1, !.ok = ~deaf /\ ~mute /\ m.ack]

\* A chain of mouse_write and mouse_write_arg: nothing is sent after a failure.
Sends(h, bytes) == FoldLeft(MouseWrite, h, bytes)

Rate(r) == <<243, r>>
Rates(a, b, c) == Rate(a) \o Rate(b) \o Rate(c)

\* One attempt: the three rates, then mouse_get_device_id.  The attempt's
\* failure is not the handshake's.
Attempted(s) == [s EXCEPT !.ok = TRUE, !.id = IF s.ok THEN s.m.id ELSE @]
Negotiate(h, rates) == Attempted(Sends(h, rates \o <<242>>))

\* mouse_init, the two attempts: an IntelliMouse, then an Explorer.
NegotiateAgain(first) == IF first.id = 3 THEN first ELSE Negotiate(first, Rates(200, 200, 80))
NegotiateWheel(h) ==
    IF h.ok THEN NegotiateAgain(Negotiate(h, Rates(200, 100, 80))) ELSE h

\* mouse_init: ENABLE_AUX and the configuration byte (config), the defaults,
\* the wheel, the stream's parameters, the stream.
Handshake(kind, config, wrong) ==
    LET h0 == [m |-> [kind |-> kind, id |-> 0, want |-> "", rates |-> <<>>,
                      stream |-> FALSE, ack |-> FALSE],
               n |-> 1, ok |-> config, id |-> 0, wrong |-> wrong]
    IN Sends(NegotiateWheel(Sends(h0, <<246, 230>>)), Rate(200) \o <<232, 3, 244>>)

\* vmmouse_init: only behind the VMware backdoor.
MouseInit(h, backdoor) ==
    [ready |-> h.ok, vm |-> h.ok /\ backdoor,
     size |-> IF h.id \in {3, 4} THEN 4 ELSE 3,
     buttons |-> 0, sum |-> Still, have |-> FALSE, last |-> Still, rem |-> Still]

(***************************************************************************)
(* Packets.                                                                *)
(***************************************************************************)

\* vmmouse_scaled_delta: pixels toward zero, and what is left over.
Scaled(now, last, rem) ==
    LET total == (now - last) + rem
        s == IF total >= 0 THEN total \div MsScale ELSE -((-total) \div MsScale)
    IN [by |-> s, rem |-> total - (s * MsScale)]

\* The counters every source keeps: s_dx, s_dy, s_buttons.
Count(s, by, buttons) == [s EXCEPT !.sum = Plus(@, by), !.buttons = buttons]

\* One packet of vmmouse_drain_events.  The history adds what the hand did.
DrainOne(st, p) ==
    IF p.kind = "relative"
    THEN [ms |-> [Count(st.ms, [p.by EXCEPT !["y"] = -@], p.buttons) EXCEPT !.rem = Still],
          mg |-> [st.mg EXCEPT !.hand = Still, !.drawn = Still,
                               !.told = Plus(@, [p.by EXCEPT !["y"] = -@])]]
    ELSE LET r  == [a \in Axes |-> Scaled(p.by[a], st.ms.last[a], st.ms.rem[a])]
             by == [a \in Axes |-> IF st.ms.have THEN r[a].by ELSE 0]
             s  == Count(st.ms, by, p.buttons)
         IN [ms |-> [s EXCEPT !.have = TRUE, !.last = p.by,
                              !.rem = IF st.ms.have THEN [a \in Axes |-> r[a].rem] ELSE @],
             mg |-> [st.mg EXCEPT
                       !.hand = IF st.ms.have THEN Plus(@, Plus(p.by, Minus(st.ms.last))) ELSE @,
                       !.drawn = Plus(@, by), !.told = Plus(@, by)]]

MsSpends == msLeft > 0 /\ msLeft' = msLeft - 1

\* The virtual machine queues a packet (external).
Queue(kind, p, buttons) ==
    /\ ms.vm /\ MsSpends /\ Len(vmq) < 2
    /\ vmq' = Append(vmq, [kind |-> kind, by |-> Vector(p), buttons |-> buttons])
    /\ UNCHANGED <<ms, pd, inj, mg>>

\* mouse_handle_irq with the absolute pointer: vmmouse_drain_events takes all
\* the queue holds, or gives the pointer up when the status before packet
\* n + 1 is an error.
Drain(n) ==
    /\ ms.ready /\ ms.vm /\ vmq # <<>> /\ n <= Len(vmq)
    /\ LET st == FoldLeft(DrainOne, [ms |-> ms, mg |-> mg], SubSeq(vmq, 1, n))
       IN /\ ms' = [st.ms EXCEPT !.vm = n = Len(vmq)]
          /\ mg' = st.mg
    /\ vmq' = <<>>
    /\ UNCHANGED <<pd, inj, msLeft>>

\* mouse_inject_relative: the counters with interrupts off, the event after.
Inject(p, buttons) ==
    /\ inj = <<>> /\ MsSpends
    /\ ms' = [Count(ms, Vector(p), buttons) EXCEPT !.ready = TRUE]
    /\ inj' = <<Vector(p)>>
    /\ UNCHANGED <<pd, vmq, mg>>
InjectEvent ==
    /\ inj # <<>>
    /\ mg' = [mg EXCEPT !.told = Plus(@, inj[1])]
    /\ inj' = <<>>
    /\ UNCHANGED <<ms, pd, vmq, msLeft>>

\* mouse_enable_external_source: a USB mouse answered.
EnableExternal ==
    /\ ~ms.ready /\ MsSpends
    /\ ms' = [ms EXCEPT !.ready = TRUE]
    /\ UNCHANGED <<pd, vmq, inj, mg>>

\* mouse_read_state.
ReadState ==
    /\ ms.ready /\ MsSpends
    /\ ms' = [ms EXCEPT !.sum = Still]
    /\ mg' = [mg EXCEPT !.taken = Plus(@, ms.sum)]
    /\ UNCHANGED <<pd, vmq, inj>>

MsInit ==
    \E kind \in MsKinds, config, backdoor \in BOOLEAN,
       wrong \in {{}} \cup {{<<n, w>>} : n \in 1..20, w \in {"deaf", "mute"}} :
       /\ \E h \in {Handshake(kind, config, wrong)} : ms = MouseInit(h, backdoor) /\ pd = h.m
       /\ vmq = <<>>
       /\ inj = <<>>
       /\ mg = [hand |-> Still, drawn |-> Still, told |-> Still, taken |-> Still]
       /\ msLeft = IF wrong = {} THEN MsMoves ELSE 1

MsNext ==
    \/ \E p \in MsPlaces, b \in {0, 1} : Queue("absolute", p, b)
    \/ \E p \in MsSteps, b \in {0, 1} : Queue("relative", p, b) \/ Inject(p, b)
    \/ \E n \in 0..2 : Drain(n)
    \/ InjectEvent \/ EnableExternal \/ ReadState

MsSpec == MsInit /\ [][MsNext]_msVars

(***************************************************************************)
(* What the desktop relies on.                                             *)
(***************************************************************************)

\* One byte of the handshake lost in either direction never leaves the driver
\* and the mouse with different ideas of a packet's length: when the mouse
\* streams to a driver that listens, mouse_init chose four bytes exactly when
\* the mouse sends four.
PacketSizeAgrees ==
    ms.ready /\ pd.stream => ms.size = IF pd.id \in {3, 4} THEN 4 ELSE 3

\* Scaling loses no motion: after any number of small absolute movements
\* vmmouse_drain_events has told the pointer within one pixel of where the
\* hand is; and what SYS_MOUSE_READ took plus what it can still take is what
\* the events said, an injection between its two halves included.
MotionKept ==
    \A a \in Axes :
       /\ mg.hand[a] - (mg.drawn[a] * MsScale) < MsScale
       /\ (mg.drawn[a] * MsScale) - mg.hand[a] < MsScale
       /\ ms.sum[a] + mg.taken[a] = mg.told[a] + (IF inj = <<>> THEN 0 ELSE inj[1][a])

-----------------------------------------------------------------------------
(* The keyboard and the queues.                                            *)

CONSTANTS
    Users,        \* processes that hold the console
    KeyRing,      \* KB_BUF_SIZE
    EventRing,    \* INPUT_QUEUE_SIZE
    Sittings      \* what somebody types and calls: keys, calls, job, and the
                  \* bounds on keys pressed (or mouse bytes) and on calls

VARIABLES
    kbd,          \* the decoder: modifiers and prefixes seen
    board,        \* the keyboard: keys down, bytes not yet read, mouse phase
    con,          \* queues, waiter slots, foreground and display owner
    user,         \* per process: scheduling state, call, and whether it is due
    conLeft       \* the sitting, with the strokes and calls left

conVars == <<kbd, board, con, user, conLeft>>

NoUser == 0
Resting == [st |-> "RUNNING", call |-> "idle", got |-> 0, due |-> FALSE]

-----------------------------------------------------------------------------
(* Scan codes.  Print Screen comes wrapped in a shift that nobody pressed, *)
(* Pause as six bytes and without a release.                               *)
E0 == 224
E1 == 225
Make(key) ==
    CASE key = "shift" -> <<42>>      [] key = "lctrl" -> <<29>>
      [] key = "rctrl" -> <<E0, 29>>  [] key = "caps"  -> <<58>>
      [] key = "a"     -> <<30>>      [] key = "c"     -> <<46>>
      [] key = "z"     -> <<44>>      [] key = "enter" -> <<28>>
      [] key = "up"    -> <<E0, 72>>
      [] key = "print" -> <<E0, 42, E0, 55>>
      [] key = "pause" -> <<E1, 29, 69, E1, 157, 197>>
Break(key) ==
    CASE key = "print" -> <<E0, 183, E0, 170>>
      [] key = "pause" -> <<>>
      [] OTHER -> LET m == Make(key) IN [m EXCEPT ![Len(m)] = @ + 128]

(* base_keymap and e0_keymap on these codes.                               *)
BaseKeymap(n) ==
    CASE n = 42 -> "shift" [] n = 29 -> "ctrl" [] n = 58 -> "caps" [] n = 30 -> "a"
      [] n = 46 -> "c" [] n = 44 -> "z" [] n = 28 -> "enter" [] n = 72 -> "kp8"
      [] n = 55 -> "kp*" [] n = 69 -> "numlock" [] OTHER -> "none"
E0Keymap(n) == CASE n = 29 -> "ctrl" [] n = 72 -> "up" [] OTHER -> "none"

(* keycode_to_ascii: what a key types, as far as a reader tells it apart.  *)
KeycodeToAscii(key) ==
    CASE key \in {"a", "c", "z", "kp*"} -> "x" [] key = "enter" -> "nl" [] OTHER -> "none"

NoKey == [key |-> "none", pressed |-> FALSE]
KeyboardReset == [shift |-> FALSE, ctrl |-> FALSE, e0 |-> FALSE, e1 |-> <<>>, ps |-> "none"]

(* The end of decode_scancode: a key found under a code, with its effect   *)
(* on the modifiers.                                                       *)
Found(k, key, up) ==
    [kbd |-> [k EXCEPT !.shift = IF key = "shift" THEN ~up ELSE @,
                       !.ctrl = IF key = "ctrl" THEN ~up ELSE @],
     ev |-> IF key = "none" THEN NoKey ELSE [key |-> key, pressed |-> ~up]]
Swallowed(k) == [kbd |-> k, ev |-> NoKey]
PrintKey(k, pressed) == [kbd |-> [k EXCEPT !.ps = "none"], ev |-> [key |-> "print", pressed |-> pressed]]

(* A decoder that does not know the shifts around Print Screen.            *)
MutDecodeE0(k, code) ==
    LET n == code % 128 IN
    Found(k, IF E0Keymap(n) = "none" THEN BaseKeymap(n) ELSE E0Keymap(n), code >= 128)

DecodeE0(k, code) ==
    CASE k.ps = "none" /\ code = 42 -> Swallowed([k EXCEPT !.ps = "37"])
      [] k.ps = "37" /\ code = 55 -> PrintKey(k, TRUE)
      [] k.ps = "none" /\ code = 183 -> Swallowed([k EXCEPT !.ps = "AA"])
      [] k.ps = "AA" /\ code = 170 -> PrintKey(k, FALSE)
      [] OTHER -> Found(k, E0Keymap(code % 128), code >= 128)

DecodePause(k, code) ==
    LET seen == Append(k.e1, code) IN
    IF Len(seen) < 6 THEN Swallowed([k EXCEPT !.e1 = seen])
    ELSE [kbd |-> [k EXCEPT !.e1 = <<>>],
          ev |-> IF seen = Make("pause") THEN [key |-> "pause", pressed |-> TRUE] ELSE NoKey]

DecodeScancode(k, code) ==
    CASE k.e1 # <<>> -> DecodePause(k, code)
      [] k.e1 = <<>> /\ code = E1 -> Swallowed([k EXCEPT !.e1 = <<E1>>])
      [] k.e1 = <<>> /\ code = E0 -> Swallowed([k EXCEPT !.e0 = TRUE])
      [] k.e1 = <<>> /\ code \notin {E0, E1} /\ k.e0 -> DecodeE0([k EXCEPT !.e0 = FALSE], code)
      [] OTHER -> Found([k EXCEPT !.ps = "none"], BaseKeymap(code % 128), code >= 128)

-----------------------------------------------------------------------------
(* The queues, as functions of s = [kbd, con, user].                       *)

Now == [kbd |-> kbd, con |-> con, user |-> user]
Become(s) == kbd' = s.kbd /\ con' = s.con /\ user' = s.user

Pressed(s, p, states) ==
    IF p # NoUser /\ s.user[p].st \in states
    THEN [s.user EXCEPT ![p].st = "RUNNING"] ELSE s.user

(* input_push_event: motion merges with motion that is last in the queue,  *)
(* the oldest event makes room, and the waiter runs, also from a sleep.    *)
InputPushEvent(s, e) ==
    LET q == s.con.events
        merged == e = "motion" /\ q # <<>> /\ q[Len(q)] = "motion" IN
    [kbd |-> s.kbd,
     con |-> [s.con EXCEPT
                 !.events = IF merged THEN @
                            ELSE Append(IF Len(@) >= EventRing THEN Tail(@) ELSE @, e),
                 !.iwait = NoUser],
     user |-> Pressed(s, s.con.iwait, {"WAITING", "SLEEPING"})]

(* keyboard_buf_push_char for each byte, as many as there is room for, and *)
(* the wake-up that ends process_key_consumer: only from WAITING.          *)
PushKeys(s, bytes) ==
    LET all == s.con.keys \o bytes
        waits == s.con.kwait # NoUser /\ s.user[s.con.kwait].st = "WAITING" IN
    [kbd |-> s.kbd,
     con |-> [s.con EXCEPT !.keys = IF Len(all) > KeyRing THEN SubSeq(all, 1, KeyRing) ELSE all,
                           !.kwait = IF waits THEN NoUser ELSE @],
     user |-> Pressed(s, s.con.kwait, {"WAITING"})]

(* process_clear_display_input_owner.                                      *)
ClearOwner(c, p) ==
    IF p = NoUser \/ c.owner # p THEN c
    ELSE [c EXCEPT !.owner = NoUser, !.keys = <<>>, !.events = <<>>]

(* What process_group_force_exit and process_destroy do to the console.    *)
Forget(c, p) ==
    [ClearOwner(c, p) EXCEPT !.kwait = IF @ = p THEN NoUser ELSE @,
                             !.raw = IF @ = p THEN NoUser ELSE @,
                             !.iwait = IF @ = p THEN NoUser ELSE @]

(* process_set_foreground: the display is taken from another owner and the *)
(* modifiers are forgotten; input typed before goes unless it is kept.     *)
SetForeground(s, p, keep) ==
    LET c == IF s.con.owner # p THEN ClearOwner(s.con, s.con.owner) ELSE s.con
        drop == p # NoUser /\ ~keep IN
    [s EXCEPT !.kbd = KeyboardReset,
              !.con = [c EXCEPT !.reader = p,
                                !.cut = @ \/ s.kbd.e0 \/ s.kbd.e1 # <<>>,
                                !.keys = IF drop THEN <<>> ELSE @,
                                !.events = IF drop THEN <<>> ELSE @]]

(* process_key_consumer.  Ctrl+C goes to a raw reader as a byte, to a      *)
(* signalfd if there is one, and kills the foreground process otherwise;   *)
(* Ctrl+Z detaches it for a shell that asked for that, or stops it.        *)
EscapeSequence == <<"x", "x", "x">>
CtrlC(s, c) ==
    IF ~c.isig \/ (c.raw # NoUser /\ c.raw = c.reader) THEN PushKeys(s, <<"x">>)
    ELSE IF c.reader = NoUser THEN s
    ELSE IF c.job = "signalfd" THEN [s EXCEPT !.con.keys = <<>>]
    ELSE SetForeground([s EXCEPT !.con = [Forget(c, c.reader) EXCEPT !.keys = <<>>],
                                 !.user[c.reader] = [Resting EXCEPT !.st = "DEAD"]],
                       NoUser, FALSE)
CtrlZ(s, c) ==
    IF c.job = "detachable" THEN [s EXCEPT !.con.keys = <<>>, !.con.reader = NoUser]
    ELSE SetForeground([s EXCEPT !.con = [Forget(c, c.reader) EXCEPT !.keys = <<>>],
                                 !.user[c.reader].st = "STOPPED"], NoUser, FALSE)
ProcessKeyConsumer(s, key) ==
    LET c == s.con IN
    CASE c.owner # NoUser /\ c.owner = c.reader -> s
      [] ~(c.owner # NoUser /\ c.owner = c.reader) /\ key = "c" /\ s.kbd.ctrl -> CtrlC(s, c)
      [] OTHER ->
             IF c.reader = NoUser THEN s
             ELSE IF key = "z" /\ s.kbd.ctrl THEN CtrlZ(s, c)
             ELSE IF KeycodeToAscii(key) # "none" THEN PushKeys(s, <<KeycodeToAscii(key)>>)
             ELSE IF key = "up" THEN PushKeys(s, EscapeSequence)
             ELSE s

(* keyboard_emit_event.                                                    *)
EmitEvent(s, ev) ==
    IF ev.key = "none" THEN s
    ELSE IF ev.pressed THEN ProcessKeyConsumer(InputPushEvent(s, "key"), ev.key)
    ELSE InputPushEvent(s, "key")

-----------------------------------------------------------------------------
ConInit ==
    /\ kbd = KeyboardReset
    /\ board = [down |-> {}, bytes |-> <<>>, mouse |-> 0]
    /\ conLeft \in Sittings
    /\ \E isig \in BOOLEAN :
          con = [keys |-> <<>>, kwait |-> NoUser, raw |-> NoUser,
                 events |-> <<>>, iwait |-> NoUser,
                 reader |-> 1, owner |-> NoUser, job |-> conLeft.job, isig |-> isig,
                 cut |-> FALSE, shared |-> FALSE]
    /\ user = [p \in Users |-> Resting]

Strokes == conLeft.strokes > 0 /\ conLeft' = [conLeft EXCEPT !.strokes = @ - 1]

(* The keyboard and the mouse.                                             *)
PressKey(k) ==
    /\ k \in conLeft.keys \ board.down /\ Strokes
    /\ board' = [board EXCEPT !.down = IF k = "pause" THEN @ ELSE @ \union {k},
                              !.bytes = @ \o Make(k)]
    /\ UNCHANGED <<kbd, con, user>>
ReleaseKey(k) ==
    /\ k \in board.down
    /\ board' = [board EXCEPT !.down = @ \ {k}, !.bytes = @ \o Break(k)]
    /\ UNCHANGED <<kbd, con, user, conLeft>>
KeyboardHandleIrq ==
    /\ board.bytes # <<>>
    /\ LET d == DecodeScancode(kbd, Head(board.bytes)) IN
       Become(EmitEvent([Now EXCEPT !.kbd = d.kbd], d.ev))
    /\ board' = [board EXCEPT !.bytes = Tail(@)]
    /\ UNCHANGED conLeft

(* mouse_handle_irq: a first byte must have its mark, three bytes make a   *)
(* packet, and one that overflowed or moved nothing is no event.           *)
MouseHandleIrq(byte) ==
    /\ "mouse" \in conLeft.keys /\ Strokes
    /\ board' = [board EXCEPT !.mouse = IF @ = 0 /\ byte = "data" THEN 0 ELSE (@ + 1) % 3]
    /\ Become(IF board.mouse = 2 /\ byte # "overflow"
              THEN InputPushEvent(Now, IF byte = "data" THEN "motion" ELSE "button")
              ELSE Now)

-----------------------------------------------------------------------------
(* System calls.                                                           *)

ConsoleCall(call) ==
    /\ conLeft.most > 0 /\ call \in conLeft.calls
    /\ conLeft' = [conLeft EXCEPT !.most = @ - 1]
Begins(p, call) == user[p] = Resting /\ ConsoleCall(call)
Continues(p, call) == user[p].st = "RUNNING" /\ user[p].call = call /\ UNCHANGED conLeft
Returns(s, p) == [s EXCEPT !.user[p] = Resting]
Sleeps(s, p, call, st) == [s EXCEPT !.user[p] = [@ EXCEPT !.st = st, !.call = call]]

(* keyboard_set_waiting_process and input_set_waiting_process; shared      *)
(* remembers that a process still asleep was forgotten.                    *)
Asleep(s, p) == p # NoUser /\ s.user[p].st \in {"WAITING", "SLEEPING"}
KeyWaiter(s, p) ==
    [s EXCEPT !.con.shared = @ \/ (s.con.kwait # p /\ Asleep(s, s.con.kwait)), !.con.kwait = p]
InputWaiter(s, p) ==
    [s EXCEPT !.con.shared = @ \/ (s.con.iwait # p /\ Asleep(s, s.con.iwait)), !.con.iwait = p]
ClearWaits(s, p) ==
    [s EXCEPT !.con.kwait = IF @ = p THEN NoUser ELSE @,
              !.con.iwait = IF @ = p THEN NoUser ELSE @]

(* The bytes a read of up to n takes: to the end of the line, or one.      *)
Line(keys, n) ==
    LET most == IF Len(keys) < n THEN Len(keys) ELSE n
        ends == {i \in 1..most : keys[i] = "nl"} IN
    IF ends = {} THEN most ELSE CHOOSE i \in ends : \A j \in ends : i <= j
ConsoleReadCommon(s, p, call) ==
    LET left == 2 - s.user[p].got
        n == Line(s.con.keys, IF call = "read" THEN left ELSE 1)
        taken == [s EXCEPT !.con.keys = SubSeq(@, n + 1, Len(@)),
                           !.con.raw = IF n > 0 /\ @ = p THEN NoUser ELSE @,
                           !.user[p].got = @ + n]
        done == n > 0 /\ (call = "raw" \/ n = left \/ s.con.keys[n] = "nl")
        raw == IF call = "raw" THEN p ELSE taken.con.raw IN
    IF done THEN Returns(taken, p)
    ELSE KeyWaiter(Sleeps([taken EXCEPT !.con.raw = raw], p, call, "WAITING"), p)
ConsoleRead(p, call) ==
    /\ Begins(p, call) \/ Continues(p, call)
    /\ Become(ConsoleReadCommon(Now, p, call))
    /\ UNCHANGED board

(* sys_poll of the console, sys_input_fd_wait_until and the two calls on   *)
(* the event queue.  "timed" has a deadline and sleeps, the others wait.   *)
Calls == {"poll", "timed poll", "both", "timed both"}
Timed(call) == call \in {"timed poll", "timed both"}
Ready(c, call) ==
    \/ call # "input" /\ c.keys # <<>>
    \/ call \notin {"poll", "timed poll"} /\ c.events # <<>>
WaitBody(s, p, call) ==
    LET asleep == Sleeps(s, p, call, IF Timed(call) THEN "SLEEPING" ELSE "WAITING")
        listens == IF call \in {"poll", "timed poll"} THEN asleep ELSE InputWaiter(asleep, p) IN
    IF Ready(s.con, call)
    THEN Returns(ClearWaits(s, p), p)
    ELSE IF Timed(call) /\ s.user[p].due THEN Returns(ClearWaits(s, p), p)
    ELSE KeyWaiter(listens, p)
WaitFor(p, call) ==
    /\ Begins(p, call) \/ Continues(p, call)
    /\ Become(WaitBody(IF user[p].call = "idle" THEN Now ELSE ClearWaits(Now, p), p, call))
    /\ UNCHANGED board

(* sys_input_read_impl, blocking.                                          *)
InputRead(p) ==
    /\ Begins(p, "input") \/ Continues(p, "input")
    /\ Become(IF con.events # <<>> THEN Returns([Now EXCEPT !.con.events = <<>>], p)
              ELSE InputWaiter(Sleeps(Now, p, "input", "WAITING"), p))
    /\ UNCHANGED board

(* sys_input_wait_until: one sleep, whatever ends it.                      *)
InputWaitUntil(p) ==
    /\ \/ /\ Begins(p, "until")
          /\ Become(IF con.events # <<>> THEN Now
                    ELSE InputWaiter(Sleeps(Now, p, "until", "SLEEPING"), p))
       \/ /\ Continues(p, "until")
          /\ Become(Returns([Now EXCEPT !.con.iwait = IF @ = p THEN NoUser ELSE @], p))
    /\ UNCHANGED board

(* sched_wake_sleepers, once the deadline of p has passed.                 *)
Deadline(p) ==
    /\ user[p].st = "SLEEPING"
    /\ user' = [user EXCEPT ![p].st = "RUNNING", ![p].due = TRUE]
    /\ UNCHANGED <<kbd, board, con, conLeft>>

Foreground(p, keep) ==
    /\ con.reader # p /\ user[p].st # "DEAD" /\ ConsoleCall("foreground")
    /\ Become(SetForeground(Now, p, keep))
    /\ UNCHANGED board
Continue(p) ==
    /\ user[p].st = "STOPPED"
    /\ user' = [user EXCEPT ![p].st = "RUNNING"]
    /\ UNCHANGED <<kbd, board, con, conLeft>>
DisplayAcquire(p) ==
    /\ Begins(p, "display") /\ con.owner = NoUser
    /\ con' = [con EXCEPT !.owner = p, !.keys = <<>>, !.events = <<>>]
    /\ UNCHANGED <<kbd, board, user>>
DisplayRelease(p) ==
    /\ Begins(p, "display")
    /\ con' = [ClearOwner(con, p) EXCEPT !.keys = <<>>, !.events = <<>>]
    /\ UNCHANGED <<kbd, board, user>>

ConNext ==
    \/ \E k \in conLeft.keys \ {"mouse"} : PressKey(k) \/ ReleaseKey(k)
    \/ KeyboardHandleIrq
    \/ \E byte \in {"first", "data", "overflow"} : MouseHandleIrq(byte)
    \/ \E p \in Users :
          \/ \E call \in {"read", "raw"} : ConsoleRead(p, call)
          \/ \E call \in Calls : WaitFor(p, call)
          \/ InputRead(p)
          \/ InputWaitUntil(p)
          \/ Deadline(p)
          \/ \E keep \in BOOLEAN : Foreground(p, keep)
          \/ Continue(p)
          \/ DisplayAcquire(p)
          \/ DisplayRelease(p)

ConSpec == ConInit /\ [][ConNext]_conVars

-----------------------------------------------------------------------------
(* decode_scancode never leaves a modifier on: once every byte has been    *)
(* read, Shift and Ctrl are on only while somebody holds them, whatever    *)
(* Print Screen, Pause and the prefixed keys sent in between -- unless     *)
(* process_set_foreground cut a sequence in two.                           *)
NoStuckKeys ==
    board.bytes = <<>> /\ ~con.cut =>
        /\ kbd.shift => "shift" \in board.down
        /\ kbd.ctrl => board.down \cap {"lctrl", "rctrl"} # {}

(* As long as no process took the waiter slot of another that sleeps, no   *)
(* process waits for input that is there: not in a read or a poll of the   *)
(* console without a deadline, not in a wait for events.                   *)
InputWakes ==
    ~con.shared =>
        \A p \in Users :
            /\ user[p].st = "WAITING" /\ user[p].call \in {"read", "raw", "poll", "both"}
                   => con.keys = <<>>
            /\ user[p].st \in {"WAITING", "SLEEPING"}
                 /\ user[p].call \in {"input", "both", "timed both", "until"}
                   => con.events = <<>>
=============================================================================
