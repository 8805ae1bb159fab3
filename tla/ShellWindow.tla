----------------------------- MODULE ShellWindow -----------------------------
(***************************************************************************)
(* The shell window of the desktop (user/gui/shell_window.c, shell_app.c). *)
(* It starts /bin/shell behind a PTY, behind two pipes if there is none,   *)
(* and reads commands itself if neither can be had; it interprets the      *)
(* escape sequences of what the child writes, and for the pipes it edits   *)
(* the line, keeps a history and completes words.                          *)
(*                                                                         *)
(* A byte is a token; "nul" ends a row's string.  Rows and columns count   *)
(* from 0 as in the code, and lines has line_count rows.  The kernel side  *)
(* (kern: descriptors, the child, the bytes on their way) is external.     *)
(***************************************************************************)
EXTENDS Integers, Sequences, SequencesExt, FiniteSetsExt

CONSTANTS WLines, WCols,  \* GUI_SHELL_LINES, GUI_SHELL_COLS
          WTab,           \* the distance of tab stops
          WSizes,         \* the terminal sizes, the first row/column count first
          WTexts,         \* what a child may write
          WBudget,        \* GUI_SHELL_POLL_BYTE_BUDGET
          WHistory, WInput,  \* GUI_SHELL_HISTORY, GUI_SHELL_INPUT
          WPrograms, WNames, \* what completes a command, what an argument
          WVerbs,         \* the lines the window's own shell knows: line -> command
          WTyped,         \* the characters typed
          WParts,         \* subset of {"screen", "life", "line"}
          WCalls, WKeys   \* the steps of a behaviour, of one that types

VARIABLES win,    \* gui_shell_window_t
          kern,   \* external: the desktop's descriptors, the child, its output
          wPast,  \* history: the lines entered, the line being edited as meant
          wPart, wLeft

wVars == <<win, kern, wPast, wPart, wLeft>>

WMin(a, b) == IF a < b THEN a ELSE b
WMax(a, b) == IF a > b THEN a ELSE b

----------------------------------------------------------------------------
(* The rows.                                                               *)

BlankRow == [c \in 1 .. WCols |-> " "]
RowOf(s) == [c \in 1 .. WCols |-> IF c <= Len(s) THEN s[c] ELSE "nul"]

AppendLine(w, s) ==
    [w EXCEPT !.lines = Append(IF Len(@) >= WLines THEN Tail(@) ELSE @, RowOf(s)),
              !.scroll = 0]

EnsureRow(w, row) ==
    [w EXCEPT !.lines = @ \o [i \in 1 .. WMax(WMin(row, WLines - 1) + 1 - Len(@), 0) |-> BlankRow]]

ScrollOne(w) ==
    [w EXCEPT !.lines = Append(Tail(@), BlankRow), !.row = WMax(@ - 1, 0)]

BlankFrom(w, first, last) ==
    [w EXCEPT !.lines = [i \in DOMAIN @ |-> IF i - 1 >= first /\ i - 1 <= last THEN BlankRow ELSE @[i]]]

\* terminal_newline: the last row is blanked even if it was in use.
ScrollAt(w) == IF w.row >= WLines THEN ScrollOne(w) ELSE w
BlankLast(w) == IF w.row = Len(w.lines) - 1 THEN BlankFrom(w, w.row, w.row) ELSE w
OwnRow(w) == EnsureRow(w, w.row)
WNewLine(w) ==
    [BlankLast(OwnRow(ScrollAt([w EXCEPT !.col = 0, !.row = @ + 1]))) EXCEPT !.scroll = 0]

Wrapped(w) == IF w.col >= w.cols THEN WNewLine(w) ELSE w
InGrid(w) == EnsureRow([w EXCEPT !.row = WMin(@, WLines - 1), !.col = WMin(@, WCols - 1)], w.row)
SetCell(w, ch) ==
    [w EXCEPT !.lines[w.row + 1][w.col + 1] = ch, !.col = WMin(@ + 1, w.cols)]
PutChar(w, ch) == SetCell(InGrid(Wrapped(w)), ch)

EraseCells(w, start, end) ==
    [w EXCEPT !.lines[w.row + 1] =
        [c \in 1 .. WCols |-> IF c - 1 >= start /\ c - 1 < end THEN " " ELSE @[c]]]

ClearLineMode(w0, mode) ==
    LET w == EnsureRow(w0, w0.row)
    IN  EraseCells(w, IF mode = 0 THEN w.col ELSE 0, IF mode = 1 THEN w.col + 1 ELSE w.cols)

VisibleBase(w) == WMax(Len(w.lines) - w.rows, 0)
VisibleEnd(w) == WMin(VisibleBase(w) + w.rows, WLines)

ClearScreen(w) ==
    [w EXCEPT !.lines = [i \in 1 .. w.rows |-> BlankRow], !.row = 0, !.col = 0, !.scroll = 0]

\* The end of the visible rows is taken before the cursor's row is made.
ClearScreenMode(w0, mode) ==
    LET base == VisibleBase(w0)
        end == VisibleEnd(w0)
        w == EnsureRow(w0, w0.row)
    IN  IF mode \in {2, 3} THEN ClearScreen(w0)
        ELSE IF mode = 1
        THEN ClearLineMode(BlankFrom(w, base, WMin(w.row, end) - 1), 1)
        ELSE BlankFrom(ClearLineMode(w, 0), w.row + 1, end - 1)

----------------------------------------------------------------------------
(* The cursor and the escape sequences.                                    *)

MoveColumn(w, col) ==
    EnsureRow([w EXCEPT !.col = WMin(WMax(col, 0), w.cols - 1)], w.row)

\* The row may go above the visible ones, and below them.
MoveRelative(w, dr, dc) ==
    LET r == WMin(WMax(w.row + dr, 0), WLines - 1)
    IN  EnsureRow([w EXCEPT !.row = r, !.col = WMin(WMax(@ + dc, 0), w.cols - 1)], r)

MoveTo(w, row, col) ==
    LET r == WMin(WMax(row, 0), WLines - 1)
    IN  MoveColumn(EnsureRow([w EXCEPT !.row = r, !.col = 0], r), col)

MoveAbsolute(w, row, col) == MoveTo(w, VisibleBase(w) + WMax(row, 0), col)

SaveCursor(w) == [w EXCEPT !.saved = <<w.row, w.col>>]
RestoreCursor(w) == IF w.saved = <<>> THEN w ELSE MoveTo(w, w.saved[1], w.saved[2])

TerminalReset(w) == ClearScreen([w EXCEPT !.saved = <<>>, !.esc = 0, !.utf = <<>>])

\* gui_shell_set_terminal_size: what is shown stays where it is.
SetTerminalSize(w, rows, cols) ==
    LET s == [w EXCEPT !.rows = WMin(WMax(rows, 1), WLines), !.cols = WMin(WMax(cols, 1), WCols)]
    IN  IF w.lines = <<>> /\ <<s.rows, s.cols>> # <<w.rows, w.cols>> THEN TerminalReset(s) ELSE s

\* pending_push starts a new row when the last one is full.
PendingPush(w0, ch) ==
    LET full == w0.pcur >= WCols
        w == IF full THEN [AppendLine(w0, w0.pending) EXCEPT !.pending = <<>>, !.pcur = 0] ELSE w0
        p == w.pending
    IN  [w EXCEPT !.pending = [i \in 1 .. WMax(w.pcur + 1, Len(p)) |->
                                  IF i = w.pcur + 1 THEN ch ELSE IF i <= Len(p) THEN p[i] ELSE "nul"],
                  !.pcur = @ + 1]

PendingFlush(w) ==
    IF w.pending = <<>> THEN w
    ELSE [AppendLine(w, w.pending) EXCEPT !.pending = <<>>, !.pcur = 0]

\* terminal_csi_dispatch for the PTY; a is its arguments, 0 for none.
CsiScreen(w, cmd, a, b) ==
    LET n == WMax(a, 1)
    IN  CASE cmd = "A" -> MoveRelative(w, -n, 0)
          [] cmd = "B" -> MoveRelative(w, n, 0)
          [] cmd = "C" -> MoveRelative(w, 0, n)
          [] cmd = "D" -> MoveRelative(w, 0, -n)
          [] cmd = "E" -> [MoveRelative(w, n, 0) EXCEPT !.col = 0]
          [] cmd = "F" -> [MoveRelative(w, -n, 0) EXCEPT !.col = 0]
          [] cmd = "G" -> MoveColumn(w, n - 1)
          [] cmd = "K" -> ClearLineMode(w, a)
          [] cmd = "J" -> ClearScreenMode(w, a)
          [] cmd = "H" -> MoveAbsolute(w, n - 1, WMax(b, 1) - 1)
          [] cmd = "d" -> MoveAbsolute(w, n - 1, w.col)
          [] cmd = "s" -> SaveCursor(w)
          [] cmd = "u" -> RestoreCursor(w)
          [] OTHER -> w

\* ... and for the pipes, which have a line only.
CsiLine(w, cmd, a) ==
    CASE cmd = "C" -> [w EXCEPT !.pcur = @ + WMax(a, 1)]
      [] cmd = "D" -> [w EXCEPT !.pcur = WMax(@ - WMax(a, 1), 0)]
      [] cmd \in {"F", "H"} -> [w EXCEPT !.pcur = 0]
      [] cmd = "K" -> [w EXCEPT !.pending = SubSeq(@, 1, WMin(w.pcur, Len(@)))]
      [] cmd = "J" -> IF ~w.hasValue \/ w.value = 2
                      THEN [w EXCEPT !.lines = <<>>, !.scroll = 0, !.pending = <<>>, !.pcur = 0]
                      ELSE w
      [] OTHER -> w

WDigits == [d \in {"1", "2"} |-> IF d = "1" THEN 1 ELSE 2]

\* terminal_handle_escape for a byte of a sequence; its state outlives a read.
EscapeByte(w, ch) ==
    LET out == [w EXCEPT !.esc = 0]
        pushed == [w EXCEPT !.args = Append(@, w.value), !.value = 0, !.hasValue = FALSE]
        arg(v, i) == IF i <= Len(v.args) THEN v.args[i] ELSE 0
        done == [w EXCEPT !.args = Append(@, w.value), !.esc = 0]
    IN  IF w.esc = 1
        THEN CASE ch = "[" -> [w EXCEPT !.esc = 2, !.args = <<>>, !.value = 0, !.hasValue = FALSE]
               [] w.backend = "pty" /\ ch = "7" -> SaveCursor(out)
               [] w.backend = "pty" /\ ch = "8" -> RestoreCursor(out)
               [] w.backend = "pty" /\ ch = "c" -> TerminalReset(out)
               [] w.backend = "pty" /\ ch \in {"D", "E"} -> WNewLine(out)
               [] w.backend = "pty" /\ ch = "M" -> MoveRelative(out, -1, 0)
               [] OTHER -> out
        ELSE CASE ch = "?" -> w
               [] ch \in DOMAIN WDigits ->
                    [w EXCEPT !.value = @ * 10 + WDigits[ch], !.hasValue = TRUE]
               [] ch = ";" -> pushed
               [] OTHER -> IF w.backend = "pty" THEN CsiScreen(done, ch, arg(done, 1), arg(done, 2))
                           ELSE CsiLine(done, ch, arg(done, 1))

\* gui_shell_translate_printable: <<>> while a sequence of UTF-8 lasts.  A
\* byte that breaks one off is shown as unknown.
Printable(w, ch) ==
    CASE w.utf # <<>> /\ ch # "k" -> <<"?">>
      [] w.utf # <<>> /\ ch = "k" -> IF Len(w.utf) + 1 < w.utf[1] THEN <<>> ELSE <<"?">>
      [] w.utf = <<>> /\ ch \in {"u2", "u3"} -> <<>>
      [] w.utf = <<>> /\ ch = "k" -> <<"?">>
      [] OTHER -> <<ch>>

UtfAfter(w, ch) ==
    CASE w.utf # <<>> -> IF ch = "k" /\ Len(w.utf) + 1 < w.utf[1] THEN Append(w.utf, 0) ELSE <<>>
      [] w.utf = <<>> /\ ch = "u2" -> <<2>>
      [] w.utf = <<>> /\ ch = "u3" -> <<3>>
      [] OTHER -> <<>>

\* Spaces to the next tab stop, at least one.
TabOut(w, Put(_), Col(_)) ==
    FoldLeft(LAMBDA s, i : IF s[2] THEN s ELSE LET p == Put(s[1]) IN <<p, Col(p) % WTab = 0>>,
             <<w, FALSE>>, [i \in 1 .. 2 * WTab |-> i])[1]

\* A byte of print_stream_text.
PrintByte(w, ch) ==
    LET u == [w EXCEPT !.utf = UtfAfter(w, ch)]
        shown == Printable(w, ch)
    IN  IF w.esc > 0 THEN EscapeByte(w, ch)
        ELSE IF ch = "esc" THEN [w EXCEPT !.esc = 1]
        ELSE IF w.backend = "pty"
        THEN CASE ch = "nl" -> WNewLine(w)
               [] ch = "cr" -> [w EXCEPT !.col = 0]
               [] ch = "tab" -> TabOut(w, LAMBDA v : PutChar(v, " "), LAMBDA v : v.col)
               [] ch = "bs" -> [w EXCEPT !.col = WMax(@ - 1, 0)]
               [] OTHER -> IF shown = <<>> THEN u ELSE PutChar(u, shown[1])
        ELSE CASE ch = "nl" -> [AppendLine(w, w.pending) EXCEPT !.pending = <<>>, !.pcur = 0]
               [] ch = "cr" -> [w EXCEPT !.pcur = 0]
               [] ch = "tab" -> TabOut(w, LAMBDA v : PendingPush(v, " "), LAMBDA v : v.pcur)
               [] ch = "bs" -> IF w.pcur = 0 THEN w
                               ELSE [w EXCEPT !.pcur = @ - 1, !.pending = SubSeq(
                                       @ \o [i \in 1 .. WMax(w.pcur - 1 - Len(@), 0) |-> "nul"],
                                       1, w.pcur - 1)]
               [] OTHER -> IF shown = <<>> THEN u ELSE PendingPush(u, shown[1])

PrintText(w, s) == FoldLeft(PrintByte, w, s)

----------------------------------------------------------------------------
(* Starting the shell: each call that can fail is in fails when it does.   *)

NoChild == [state |-> "none", ends |-> {}]

\* The PTY: both ends are closed again when there can be no child.
LaunchPty(k, fails) ==
    LET o == [k EXCEPT !.open = @ \cup {"m", "s"}]
    IN  IF "fork1" \in fails THEN [o EXCEPT !.open = @ \ {"m", "s"}]
        ELSE [o EXCEPT !.open = @ \ {"s"}, !.child = [state |-> "run", ends |-> {"s"}]]

\* The ends of the second pipe stay open when the fork fails.
MutLaunchPipes(k, fails) ==
    LET a == [k EXCEPT !.open = @ \cup {"ir", "iw"}]
        b == [a EXCEPT !.open = @ \cup {"or", "ow"}]
    IN  IF "pipe" \in fails THEN k
        ELSE IF "pipe2" \in fails THEN [a EXCEPT !.open = @ \ {"ir", "iw"}]
        ELSE IF "fork2" \in fails THEN [b EXCEPT !.open = @ \ {"ir", "iw"}]
        ELSE [b EXCEPT !.open = @ \ {"ir", "ow"}, !.child = [state |-> "run", ends |-> {"ir", "ow"}]]

\* The pipes.
LaunchPipes(k, fails) ==
    LET a == [k EXCEPT !.open = @ \cup {"ir", "iw"}]
        b == [a EXCEPT !.open = @ \cup {"or", "ow"}]
    IN  IF "pipe" \in fails THEN k
        ELSE IF "pipe2" \in fails THEN [a EXCEPT !.open = @ \ {"ir", "iw"}]
        ELSE IF "fork2" \in fails THEN [b EXCEPT !.open = @ \ {"ir", "iw", "or", "ow"}]
        ELSE [b EXCEPT !.open = @ \ {"ir", "ow"}, !.child = [state |-> "run", ends |-> {"ir", "ow"}]]

Fresh(backend, in, out) ==
    [backend |-> backend, alive |-> TRUE, pid |-> in # "none", in |-> in, out |-> out,
     lines |-> <<>>, rows |-> WMin(25, WLines), cols |-> WCols, row |-> 0, col |-> 0,
     saved |-> <<>>, pending |-> <<>>, pcur |-> 0, esc |-> 0, args |-> <<>>, value |-> 0,
     hasValue |-> FALSE, utf |-> <<>>, scroll |-> 0, input |-> <<>>, history |-> <<>>,
     count |-> 0, view |-> 0, stash |-> <<>>]

\* gui_shell_poll without its waitpid: n bytes come, within the budget.
PollRead(w, n) == PrintText(w, SubSeq(kern.bytes, 1, n))

\* The descriptors a window gives up, the same one once.
WReleased == {win.in, win.out}

----------------------------------------------------------------------------
(* The line: history and completion.                                       *)

Available(w) == WMin(w.count, WHistory)

\* history is a ring: entry i of all is at i % GUI_SHELL_HISTORY.
WHistoryAdd(w, line) ==
    IF line = <<>> THEN w
    ELSE IF w.count > 0 /\ w.history[((w.count - 1) % WHistory) + 1] = line THEN w
    ELSE [w EXCEPT !.history = IF w.count < WHistory THEN Append(@, line)
                               ELSE [@ EXCEPT ![(w.count % WHistory) + 1] = line],
                   !.count = @ + 1]

EntryAt(w, index) == w.history[((w.count - Available(w) + index) % WHistory) + 1]

KeyUp(w) ==
    IF Available(w) = 0 \/ w.view = 0 THEN w
    ELSE [w EXCEPT !.stash = IF w.view = Available(w) THEN w.input ELSE @, !.view = @ - 1,
                   !.input = EntryAt(w, w.view - 1)]

KeyDown(w) ==
    IF Available(w) = 0 \/ w.view = Available(w) THEN w
    ELSE [w EXCEPT !.view = @ + 1,
                   !.input = IF w.view + 1 = Available(w) THEN w.stash ELSE EntryAt(w, w.view + 1)]

LastSpace(s) ==
    CHOOSE i \in 0 .. Len(s) : (IF i = 0 THEN TRUE ELSE s[i] = " ")
                                 /\ \A j \in i + 1 .. Len(s) : s[j] # " "

\* gui_shell_match_add over the candidates in their order.
Matches(candidates, token) ==
    FoldLeft(LAMBDA m, c : IF ~IsPrefix(token, c) \/ (m.count > 0 /\ m.common = c) THEN m
                           ELSE [count |-> m.count + 1,
                                 common |-> IF m.count = 0 THEN c
                                            ELSE LongestCommonPrefix({m.common, c})],
             [count |-> 0, common |-> <<>>], candidates)

\* gui_shell_complete.
Complete(w) ==
    LET start == LastSpace(w.input)
        token == SubSeq(w.input, start + 1, Len(w.input))
        command == \A i \in 1 .. start : w.input[i] = " "
        m == Matches(IF command THEN WPrograms ELSE WNames, token)
        full == SubSeq(w.input, 1, start) \o m.common
        spaced == m.count = 1 /\ Len(full) + 1 < WInput /\ Last(full) # "/"
    IN  IF \/ m.count = 0
           \/ Len(m.common) <= Len(token) /\ m.count # 1
           \/ Len(full) + 2 >= WInput
        THEN w
        ELSE [w EXCEPT !.input = IF spaced THEN Append(full, " ") ELSE full]

\* A key of gui_shell_handle_key that edits the line.
LineKey(w, key) ==
    LET Viewed(v) == [v EXCEPT !.view = Available(v)]
    IN  CASE key = "up" -> KeyUp(w)
          [] key = "down" -> KeyDown(w)
          [] key = "tab" -> Viewed(Complete(w))
          [] key = "bs" -> Viewed([w EXCEPT !.input = SubSeq(@, 1, Len(@) - 1)])
          [] OTHER -> IF Len(w.input) + 1 < WInput
                      THEN Viewed([w EXCEPT !.input = Append(@, key)]) ELSE w

Entered(w) ==
    LET h == WHistoryAdd(w, w.input) IN [h EXCEPT !.view = Available(h)]

\* gui_shell_format_prompt, the child's prompt being what it left pending.
Prompt(w) == IF w.pending = <<>> THEN <<"$">> \o w.input ELSE w.pending \o w.input

\* Enter: the pipe child gets the line ...
EnterPipe(w0) ==
    LET w == Entered(w0)
    IN  [AppendLine(w, w.pending \o w.input) EXCEPT !.pending = <<>>,
            !.pcur = IF w.pending = <<>> THEN w.pcur ELSE 0, !.input = <<>>]

\* ... and the window's own shell runs it.
RunLine(w0) ==
    LET w == AppendLine(Entered(w0), Prompt(w0))
        verb == IF w.input \in DOMAIN WVerbs THEN WVerbs[w.input] ELSE "unknown"
        done == [w EXCEPT !.input = <<>>]
    IN  CASE verb = "exit" -> w
          [] verb = "clear" -> [done EXCEPT !.lines = <<>>, !.scroll = 0]
          [] verb = "cd" -> done
          [] OTHER -> AppendLine(done, <<verb>>)

----------------------------------------------------------------------------
(* Steps.                                                                  *)

Closed == [Fresh("embedded", "none", "none") EXCEPT !.alive = FALSE]

WInit ==
    /\ wPart \in WParts
    /\ win = Closed
    /\ kern = [open |-> {}, child |-> NoChild, bytes |-> <<>>, polling |-> FALSE]
    /\ wPast = [lines |-> <<>>, at |-> 0, kept |-> <<>>, line |-> <<>>]
    /\ wLeft = IF wPart = "line" THEN WKeys ELSE WCalls

WSpend == wLeft > 0 /\ wLeft' = wLeft - 1 /\ wPart' = wPart
Idling == win.alive /\ ~kern.polling

Attempts ==
    CASE wPart = "screen" -> {{}}
      [] wPart = "line" -> {{"pty"}, {"pty", "pipe"}}
      [] OTHER -> SUBSET {"pty", "fork1", "pipe", "pipe2", "fork2"}

\* gui_shell_open: a PTY, else pipes, else the window's own commands.
WOpen(fails) ==
    /\ ~win.alive
    /\ WSpend
    /\ LET k == [kern EXCEPT !.bytes = <<>>]
           pty == IF "pty" \in fails THEN k ELSE LaunchPty(k, fails)
           pipes == LaunchPipes(pty, fails)
           Banner(w) == AppendLine(AppendLine(w, <<"S">>), <<"b">>)
       IN  IF pty.child.state = "run"
           THEN /\ kern' = pty
                /\ win' = EnsureRow([Banner(Fresh("pty", "m", "m")) EXCEPT !.row = WMin(2, WLines)],
                                    WMin(2, WLines))
           ELSE /\ kern' = pipes
                /\ win' = IF pipes.child.state = "run" THEN Banner(Fresh("pipe", "iw", "or"))
                          ELSE Banner(Fresh("embedded", "none", "none"))
    /\ wPast' = [lines |-> <<>>, at |-> 0, kept |-> <<>>, line |-> <<>>]

\* The child writes, or exits and is a zombie until waited for.
WChild ==
    /\ kern.child.state = "run" /\ wPart # "line"
    /\ WSpend
    /\ \/ \E t \in WTexts : kern' = [kern EXCEPT !.bytes = @ \o t]
       \/ kern' = [kern EXCEPT !.child = [state |-> "zombie", ends |-> {}]]
    /\ UNCHANGED <<win, wPast>>

\* gui_shell_poll reads what there is, within its budget ...
WPollRead ==
    /\ Idling /\ wPart # "line"
    /\ win.out # "none"
    /\ win' = PollRead(win, WMin(Len(kern.bytes), WBudget))
    /\ kern' = [kern EXCEPT !.polling = TRUE,
                            !.bytes = SubSeq(@, WMin(Len(@), WBudget) + 1, Len(@))]
    /\ WSpend
    /\ UNCHANGED wPast

\* ... and then looks whether the child has exited; what it wrote in between
\* goes with the descriptor.
WPollWait ==
    /\ kern.polling
    /\ LET last == IF win.backend = "pty" THEN win ELSE PendingFlush(win)
       IN  IF kern.child.state = "zombie"
           THEN /\ win' = [AppendLine(AppendLine(last, <<>>), <<"x">>) EXCEPT
                              !.pid = FALSE, !.in = "none", !.out = "none"]
                /\ kern' = [kern EXCEPT !.open = @ \ WReleased, !.child = NoChild,
                                        !.bytes = <<>>, !.polling = FALSE]
           ELSE win' = win /\ kern' = [kern EXCEPT !.polling = FALSE]
    /\ UNCHANGED <<wPast, wPart, wLeft>>

\* gui_shell_close: the descriptors, then SIGTERM and the wait.
WClose ==
    /\ Idling /\ wPart # "line"
    /\ WSpend
    /\ kern' = [kern EXCEPT !.open = @ \ WReleased, !.bytes = <<>>,
                            !.child = IF win.pid THEN NoChild ELSE @]
    /\ win' = Closed
    /\ UNCHANGED wPast

WResize(size) ==
    /\ Idling /\ wPart # "line"
    /\ WSpend
    /\ win' = SetTerminalSize(win, size[1], size[2])
    /\ UNCHANGED <<kern, wPast>>

\* The wheel scrolls back as far as there are rows.
WWheel(up) ==
    /\ Idling /\ wPart # "line"
    /\ WSpend
    /\ win' = [win EXCEPT !.scroll = WMin(WMax(@ + (IF up THEN 3 ELSE -3), 0),
                                          WMax(Len(win.lines) - 1, 0))]
    /\ UNCHANGED <<kern, wPast>>

\* What completing s should give: the longest common prefix of the words it
\* begins, and a space when it begins one word only that is no directory.
Meant(s) ==
    LET start == LastSpace(s)
        token == SubSeq(s, start + 1, Len(s))
        words == IF \A i \in 1 .. start : s[i] = " " THEN WPrograms ELSE WNames
        fits == {c \in ToSet(words) : IsPrefix(token, c)}
        all == SubSeq(s, 1, start) \o LongestCommonPrefix(fits)
    IN  IF fits = {} THEN s
        ELSE IF Len(all) + 2 >= WInput THEN s
        ELSE IF Cardinality(fits) = 1 /\ Last(all) # "/" THEN Append(all, " ")
        ELSE all

\* What a key should make of the line, lines being all those entered.
Expected(key) ==
    LET p == wPast
        back == WMin(Len(p.lines), WHistory)
    IN  CASE key = "up" -> IF p.at = back THEN p
                           ELSE [p EXCEPT !.kept = IF p.at = 0 THEN p.line ELSE @, !.at = @ + 1,
                                          !.line = p.lines[Len(p.lines) - p.at]]
          [] key = "down" -> IF p.at = 0 THEN p
                             ELSE [p EXCEPT !.at = @ - 1, !.line =
                                     IF p.at = 1 THEN p.kept ELSE p.lines[Len(p.lines) - p.at + 2]]
          [] key = "tab" -> [p EXCEPT !.at = 0, !.line = Meant(p.line)]
          [] key = "bs" -> [p EXCEPT !.at = 0, !.line = SubSeq(@, 1, Len(@) - 1)]
          [] OTHER -> IF Len(p.line) + 1 < WInput
                      THEN [p EXCEPT !.at = 0, !.line = Append(@, key)] ELSE p

WKey(key) ==
    /\ Idling /\ win.backend # "pty" /\ wPart = "line"
    /\ WSpend
    /\ win' = LineKey(win, key)
    /\ wPast' = Expected(key)
    /\ UNCHANGED kern

\* Enter; without a child to read it the line stays.
WEnter ==
    /\ Idling /\ win.backend # "pty" /\ wPart # "screen"
    /\ win.backend = "pipe" => win.in # "none"
    /\ WSpend
    /\ LET exits == win.backend = "embedded" /\ win.input \in DOMAIN WVerbs
                    /\ WVerbs[win.input] = "exit"
       IN  win' = IF win.backend = "pipe" THEN EnterPipe(win)
                  ELSE IF exits THEN Closed ELSE RunLine(win)
    /\ wPast' = [lines |-> IF wPast.line = <<>> THEN wPast.lines
                           ELSE IF wPast.lines # <<>> /\ Last(wPast.lines) = wPast.line
                           THEN wPast.lines ELSE Append(wPast.lines, wPast.line),
                 at |-> 0, kept |-> wPast.kept, line |-> <<>>]
    /\ UNCHANGED kern

WNext ==
    \/ \E fails \in Attempts : WOpen(fails)
    \/ WChild \/ WPollRead \/ WPollWait \/ WClose
    \/ \E size \in WSizes : WResize(size)
    \/ \E up \in BOOLEAN : WWheel(up)
    \/ \E key \in WTyped \cup {"up", "down", "tab", "bs"} : WKey(key)
    \/ WEnter

WSpec == WInit /\ [][WNext]_wVars

----------------------------------------------------------------------------
(* Properties.                                                             *)

\* Whichever of gui_shell_open's calls failed, and however the shell ended,
\* the desktop holds exactly the descriptors the window will still close,
\* and a child exactly while the window will still wait for it.
WindowReleases ==
    /\ kern.open = {win.in, win.out} \ {"none"}
    /\ (kern.child.state # "none") = win.pid
    /\ ~win.alive => kern.open = {} /\ kern.child = NoChild

\* Through wrapping, scrolling, clearing, cursor movement out of the screen
\* and resizing, the cursor of terminal_put_char is on a row there is, at
\* most one column past the last (shell_window.c's lines[][] is indexed by
\* it), and no sequence grows the rows beyond GUI_SHELL_LINES.
CursorInRows ==
    win.alive =>
        /\ Len(win.lines) <= WLines
        /\ win.scroll >= 0
        /\ win.backend = "pty" => /\ win.row < Len(win.lines)
                                  /\ win.col \in 0 .. WCols

\* Up and Down bring back the lines entered, newest first, also when the
\* ring has wrapped, and the line being typed after them; Tab completes it
\* to what all matching words share, with a space only after a single one.
RecallsEntered == win.alive /\ wPart = "line" => win.input = wPast.line

============================================================================
