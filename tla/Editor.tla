------------------------------- MODULE Editor -------------------------------
(***************************************************************************)
(* The editors.  user/editor_model.c is the buffer of lines both share;    *)
(* user/edit.c is the terminal editor (interactive, drawing only what a    *)
(* key changed, and batch), user/gui/editor_app.c the windowed one, with   *)
(* a selection, a clipboard, and dialogs that guard unsaved text.          *)
(*                                                                         *)
(* Rows and columns count from 0 as in the code.  A byte is a token, "nl"  *)
(* ends a line in a file.  A save can fail at any write (EdFaults).        *)
(***************************************************************************)
EXTENDS Integers, Sequences, SequencesExt, FiniteSetsExt

CONSTANTS EdLine,     \* EDITOR_LINE_MAX
          EdTab,      \* the spaces of a tab
          EdRows, EdCols,  \* the visible text, at its largest
          EdDisks,    \* the files there may be: path -> bytes, or <<"none">>
          EdKits,     \* subset of {"term", "batch", "gui"}
          EdChars,    \* what can be typed
          EdCommands, \* batch commands
          EdFaults, EdKeys

VARIABLES ed,      \* the editor: buffer, view, selection, dialogs
          disk,    \* the file system
          ref,     \* history: the text, clipboard and mark the user expects
          edKit, edFaults, edLeft

edVars == <<ed, disk, ref, edKit, edFaults, edLeft>>

Low(a, b) == IF a < b THEN a ELSE b
High(a, b) == IF a > b THEN a ELSE b

----------------------------------------------------------------------------
(* editor_model.c.  The operations answer the editor with ok set.          *)

EdFail(e) == [e EXCEPT !.ok = FALSE]
Done(e, lines) == [e EXCEPT !.lines = lines, !.dirty = TRUE, !.ok = TRUE]
Row(e, y) == e.lines[y + 1]
LineLength(e, y) == IF y < Len(e.lines) THEN Len(Row(e, y)) ELSE 0

InsertLine(e, y, text) ==
    IF y > Len(e.lines) THEN EdFail(e) ELSE Done(e, InsertAt(e.lines, y + 1, text))

DeleteLines(e, first, last) ==
    IF first >= Len(e.lines) \/ last < first THEN EdFail(e)
    ELSE Done(e, SubSeq(e.lines, 1, first)
                   \o SubSeq(e.lines, Low(last, Len(e.lines) - 1) + 2, Len(e.lines)))

EnsureLine(e, y) ==
    IF y < Len(e.lines) THEN [e EXCEPT !.ok = TRUE]
    ELSE Done(e, e.lines \o [i \in 1 .. y + 1 - Len(e.lines) |-> <<>>])

ModelInsertChar(e0, y, x0, c) ==
    LET e == EnsureLine(e0, y)
        x == Low(x0, LineLength(e, y))
    IN  IF LineLength(e, y) + 1 >= EdLine THEN EdFail(e)
        ELSE Done(e, [e.lines EXCEPT ![y + 1] = InsertAt(@, x + 1, c)])

ModelSplitLine(e0, y, x0) ==
    LET e == EnsureLine(e0, y)
        l == Row(e, y)
        x == Low(x0, Len(l))
    IN  Done(e, InsertAt([e.lines EXCEPT ![y + 1] = SubSeq(l, 1, x)], y + 2,
                         SubSeq(l, x + 1, Len(l))))

JoinNext(e, y) ==
    IF y + 1 >= Len(e.lines) THEN EdFail(e)
    ELSE IF LineLength(e, y) + LineLength(e, y + 1) >= EdLine THEN EdFail(e)
    ELSE DeleteLines([e EXCEPT !.lines[y + 1] = @ \o Row(e, y + 1)], y + 1, y + 1)

ModelBackspace(e0) ==
    LET e == [e0 EXCEPT !.row = Low(@, Len(e0.lines) - 1),
                        !.col = Low(@, LineLength(e0, Low(e0.row, Len(e0.lines) - 1)))]
        joined == JoinNext(e, e.row - 1)
    IN  IF e0.lines = <<>> THEN EdFail(e0)
        ELSE IF e.col > 0
        THEN [Done(e, [e.lines EXCEPT ![e.row + 1] = RemoveAt(@, e.col)]) EXCEPT !.col = @ - 1]
        ELSE IF e.row = 0 THEN EdFail(e)
        ELSE IF ~joined.ok THEN EdFail(e)
        ELSE [joined EXCEPT !.row = @ - 1, !.col = LineLength(e, e.row - 1)]

ModelDelete(e) ==
    IF e.row >= Len(e.lines) THEN EdFail(e)
    ELSE IF e.col < LineLength(e, e.row)
    THEN Done(e, [e.lines EXCEPT ![e.row + 1] = RemoveAt(@, e.col + 1)])
    ELSE JoinNext(e, e.row)


\* editor_model_delete_range.
DeleteRange(e, r1, x1, r2, x2) ==
    IF r1 > r2 \/ r2 >= Len(e.lines) THEN EdFail(e)
    ELSE LET c1 == Low(x1, LineLength(e, r1))
             c2 == Low(x2, LineLength(e, r2))
             tail == SubSeq(Row(e, r2), c2 + 1, LineLength(e, r2))
         IN  IF (r1 = r2 /\ c2 <= c1) \/ (r1 # r2 /\ c1 + Len(tail) >= EdLine) THEN EdFail(e)
             ELSE Done(e, SubSeq(e.lines, 1, r1) \o <<SubSeq(Row(e, r1), 1, c1) \o tail>>
                            \o SubSeq(e.lines, r2 + 2, Len(e.lines)))

\* editor_model_load: carriage returns are dropped and long lines cut.
LoadLines(bytes) ==
    LET Take(s, b) ==
            CASE b = "cr" -> s
              [] b = "nl" -> [lines |-> Append(s.lines, s.line), line |-> <<>>]
              [] OTHER -> IF Len(s.line) + 1 < EdLine
                          THEN [s EXCEPT !.line = Append(@, b)] ELSE s
        t == FoldLeft(Take, [lines |-> <<>>, line |-> <<>>], bytes)
    IN  IF t.line = <<>> THEN t.lines ELSE Append(t.lines, t.line)

EdMissing == <<"none">>

ModelLoad(e, path) ==
    [e EXCEPT !.path = path, !.dirty = FALSE,
              !.lines = IF path = "" THEN <<>>
                        ELSE IF disk[path] = EdMissing THEN <<>> ELSE LoadLines(disk[path])]

EdFileOf(lines) == FoldLeft(LAMBDA f, l : Append(f \o l, "nl"), <<>>, lines)

\* editor_model_save: opening fails (n = -1), or the file is truncated and
\* n lines are written before the write or the fsync that fails; none does
\* if n > Len(e.lines).
ModelSave(e, n) ==
    IF e.path = "" \/ n <= Len(e.lines) THEN EdFail(e)
    ELSE [e EXCEPT !.dirty = FALSE, !.ok = TRUE]

DiskAfter(e, n) ==
    IF e.path = "" \/ n < 0 THEN disk
    ELSE [disk EXCEPT ![e.path] = EdFileOf(SubSeq(e.lines, 1, Low(n, Len(e.lines))))]

----------------------------------------------------------------------------
(* edit.c, interactive.                                                    *)

Slice(e, y) ==
    IF y >= Len(e.lines) THEN <<>>
    ELSE SubSeq(Row(e, y), e.hscroll + 1, Low(e.hscroll + e.cols, LineLength(e, y)))

\* update_view keeps the cursor on the screen.
UpdateView(e) ==
    LET x == Low(e.col, LineLength(e, e.row))
    IN  [e EXCEPT !.col = x,
          !.top = IF e.row < @ THEN e.row
                  ELSE IF e.row >= @ + e.rows THEN e.row - e.rows + 1 ELSE @,
          !.hscroll = IF x < @ THEN x ELSE IF x >= @ + e.cols THEN x - e.cols + 1 ELSE @]

\* render: every line, or the cursor's, or none.
Render(e0, full, lineDirty) ==
    LET e == UpdateView(e0)
        all == full \/ e.top # e0.top \/ e.hscroll # e0.hscroll
    IN  [e EXCEPT !.screen = [i \in 1 .. e.rows |->
            IF all \/ (lineDirty /\ i - 1 = e.row - e.top) THEN Slice(e, e.top + i - 1)
            ELSE @[i]]]

\* line_insert_char, as often as it can.
TypeChars(e, s) ==
    FoldLeft(LAMBDA f, c :
               LET g == ModelInsertChar(f, f.row, f.col, c)
               IN  IF ~f.ok THEN f
                   ELSE IF g.ok THEN [g EXCEPT !.col = Low(f.col, LineLength(f, f.row)) + 1]
                   ELSE g,
             [e EXCEPT !.ok = TRUE], s)

SplitAt(e) ==
    LET s == ModelSplitLine(e, e.row, e.col) IN [s EXCEPT !.row = @ + 1, !.col = 0]

MoveVertical(e, delta) ==
    LET y == IF e.lines = <<>> THEN 0 ELSE Low(High(e.row + delta, 0), Len(e.lines) - 1)
    IN  [e EXCEPT !.row = y, !.col = Low(@, LineLength(e, y))]

MoveLeft(e) ==
    CASE e.col > 0 -> [e EXCEPT !.col = @ - 1]
      [] e.col = 0 /\ e.row > 0 -> [e EXCEPT !.row = @ - 1, !.col = LineLength(e, e.row - 1)]
      [] OTHER -> e

MoveRight(e) ==
    CASE e.col < LineLength(e, e.row) -> [e EXCEPT !.col = @ + 1]
      [] e.col >= LineLength(e, e.row) /\ e.row + 1 < Len(e.lines) ->
           [e EXCEPT !.row = @ + 1, !.col = 0]
      [] OTHER -> e

Spaces == [i \in 1 .. EdTab |-> " "]
Moves == {"up", "down", "left", "right", "home", "end", "pgup", "pgdn"}
Edits == {"enter", "bs", "del", "tab"} \cup EdChars

\* The keys that move the cursor, in both editors.
EdMoved(e, key) ==
    CASE key = "up" -> MoveVertical(e, -1)
      [] key = "down" -> MoveVertical(e, 1)
      [] key = "pgup" -> MoveVertical(e, -e.rows)
      [] key = "pgdn" -> MoveVertical(e, e.rows)
      [] key = "left" -> MoveLeft(e)
      [] key = "right" -> MoveRight(e)
      [] key = "home" -> [e EXCEPT !.col = 0]
      [] key = "end" -> [e EXCEPT !.col = LineLength(e, e.row)]

\* The keys that change the text.
EditedBy(e, key) ==
    CASE key = "enter" -> SplitAt(e)
      [] key = "bs" -> ModelBackspace(e)
      [] key = "del" -> ModelDelete(e)
      [] key = "tab" -> TypeChars(e, Spaces)
      [] OTHER -> TypeChars(e, <<key>>)

\* A key in interactive().
TermKey(e, key) ==
    IF key \in Moves THEN Render(EdMoved(e, key), FALSE, FALSE)
    ELSE LET f == EditedBy(e, key)
         IN  Render(f, key = "enter" \/ (key \in {"bs", "del"} /\ Len(f.lines) # Len(e.lines)),
                    TRUE)

----------------------------------------------------------------------------
(* editor_app.c: the selection and the clipboard.                          *)

HasSelection(e) == e.active /\ e.anchor # <<e.row, e.col>>
Earlier(a, b) == a[1] < b[1] \/ (a[1] = b[1] /\ a[2] < b[2])
Bounds(e) ==
    IF Earlier(e.anchor, <<e.row, e.col>>) THEN <<e.anchor, <<e.row, e.col>>>>
    ELSE <<<<e.row, e.col>>, e.anchor>>

ClearSelection(e) == [e EXCEPT !.active = FALSE, !.anchor = <<e.row, e.col>>]
BeginSelection(e) ==
    IF e.active THEN e ELSE [e EXCEPT !.active = TRUE, !.anchor = <<e.row, e.col>>]

DeleteSelection(e) ==
    IF ~HasSelection(e) THEN EdFail(e)
    ELSE LET b == Bounds(e)
             d == DeleteRange(e, b[1][1], b[1][2], b[2][1], b[2][2])
         IN  IF ~d.ok THEN EdFail(e)
             ELSE ClearSelection([d EXCEPT !.row = b[1][1], !.col = b[1][2]])

\* The lines an anchor left behind points to no more are taken as empty.
Selected(e) ==
    LET b == Bounds(e)
        Part(y) == IF y >= Len(e.lines) THEN <<>>
                   ELSE SubSeq(Row(e, y), (IF y = b[1][1] THEN b[1][2] ELSE 0) + 1,
                               IF y = b[2][1] THEN Low(b[2][2], LineLength(e, y))
                               ELSE LineLength(e, y))
    IN  FoldLeft(LAMBDA t, y : (t \o Part(y)) \o (IF y = b[2][1] THEN <<>> ELSE <<"nl">>),
                 <<>>, [i \in 1 .. b[2][1] - b[1][1] + 1 |-> b[1][1] + i - 1])

CopySelection(e) ==
    IF ~HasSelection(e) THEN EdFail(e) ELSE [e EXCEPT !.ok = TRUE, !.clip = Selected(e)]

\* editor_paste stops at the first byte that does not fit.
Paste(e) ==
    LET d == DeleteSelection(e)
        Put(f, c) == IF ~f.ok THEN f
                     ELSE IF c = "nl" THEN SplitAt(f)
                     ELSE LET g == ModelInsertChar(f, f.row, f.col, c)
                          IN  IF g.ok THEN [g EXCEPT !.col = @ + 1] ELSE g
    IN  IF e.clip = <<>> THEN e
        ELSE ClearSelection(FoldLeft(Put, [(IF d.ok THEN d ELSE e) EXCEPT !.ok = TRUE], e.clip))

\* editor_clamp_view.
ClampView(e) ==
    UpdateView([e EXCEPT !.row = IF e.lines = <<>> THEN 0 ELSE Low(@, Len(e.lines) - 1)])

\* The keys of editor_app_event that the text gets.
AppKey(e, key, shift) ==
    LET d == DeleteSelection(e)
    IN  IF key \in Moves
        THEN ClampView(EdMoved(IF shift THEN BeginSelection(e) ELSE ClearSelection(e), key))
        ELSE IF d.ok /\ key \in {"bs", "del"} THEN ClampView(d)
        ELSE ClampView(EditedBy(IF d.ok THEN d ELSE e, key))

SelectAll(e) ==
    IF e.lines = <<>> THEN e
    ELSE ClampView([e EXCEPT !.anchor = <<0, 0>>, !.active = TRUE, !.row = Len(e.lines) - 1,
                             !.col = LineLength(e, Len(e.lines) - 1)])

Cut(e) ==
    LET c == CopySelection(e)
        d == DeleteSelection(c)
    IN  ClampView(IF c.ok /\ d.ok THEN d ELSE c)

----------------------------------------------------------------------------
(* editor_app.c: documents, dialogs and pickers.  mode is the modal that   *)
(* takes the input, "edit" if there is none.                               *)

NewDocument(e, path) ==
    [ModelLoad(e, path) EXCEPT !.row = 0, !.col = 0, !.top = 0, !.hscroll = 0,
                               !.anchor = <<0, 0>>, !.active = FALSE, !.fresh = TRUE]

ShowPicker(e, mode, after) ==
    [e EXCEPT !.mode = mode, !.after = after, !.capture = "none"]

ExecuteAction(e0, action) ==
    LET e == [e0 EXCEPT !.pending = "none", !.mode = "edit"]
    IN  CASE action = "close" -> [e EXCEPT !.mode = "closed"]
          [] action = "new" -> NewDocument(e, "")
          [] action = "open" -> ShowPicker(e, "open", "none")
          [] OTHER -> e

RequestAction(e, action) ==
    IF ~e.dirty THEN ExecuteAction(e, action)
    ELSE [e EXCEPT !.pending = action, !.mode = "dirty"]

\* editor_run_command; n lines reach the disk if it saves.
RunCommand(e, command, n) ==
    CASE command \in {"new", "open"} -> RequestAction(e, command)
      [] command = "save as" -> ShowPicker(e, "save", "none")
      [] command = "save" -> IF e.path = "" THEN ShowPicker(e, "save", "none")
                             ELSE ModelSave(e, n)

\* editor_apply_confirm_choice.
ConfirmChoice(e, choice, n) ==
    LET s == ModelSave(e, n)
        kept == [e EXCEPT !.mode = "edit", !.pending = "none"]
    IN  CASE choice = "save" /\ e.path = "" -> ShowPicker(e, "save", e.pending)
          [] choice = "save" /\ e.path # "" ->
               IF s.ok THEN ExecuteAction(s, e.pending) ELSE kept
          [] choice = "discard" -> ExecuteAction([e EXCEPT !.dirty = FALSE], e.pending)
          [] choice = "cancel" -> kept

\* editor_file_result.
FileSelected(e, path, n) ==
    IF e.mode = "open" THEN [NewDocument(e, path) EXCEPT !.mode = "edit"]
    ELSE LET s == ModelSave([e EXCEPT !.path = path, !.mode = "edit"], n)
         IN  IF s.ok /\ s.after # "none" THEN ExecuteAction([s EXCEPT !.after = "none"], s.after)
             ELSE s

FileCancelled(e) == [e EXCEPT !.mode = "edit", !.after = "none", !.pending = "none"]

----------------------------------------------------------------------------
(* editor_app.c: pointer and view.                                         *)

MaxTop(e) == High(Len(e.lines) - e.rows, 0)
ScrollTo(e, top) == [e EXCEPT !.top = Low(High(top, 0), MaxTop(e))]

\* editor_pointer_position.
PointAt(e, i, j) ==
    LET y == IF e.lines = <<>> THEN 0 ELSE Low(e.top + i, Len(e.lines) - 1)
    IN  [e EXCEPT !.row = y, !.col = Low(e.hscroll + j, LineLength(e, y))]

PointerDown(e, i, j) ==
    LET p == PointAt(e, i, j)
    IN  [p EXCEPT !.anchor = <<p.row, p.col>>, !.active = TRUE, !.capture = "text",
                  !.focus = "text"]

PointerMove(e, i, j) == [PointAt(e, i, j) EXCEPT !.active = TRUE]

PointerUp(e) ==
    [(IF HasSelection(e) THEN e ELSE ClearSelection(e)) EXCEPT !.capture = "none"]

Buttons == <<"new", "open", "save as">>
NextButton(b) == Buttons[((CHOOSE i \in 1 .. 3 : Buttons[i] = b) % 3) + 1]

----------------------------------------------------------------------------
(* edit.c, batch: edit <path> -c <command> ...  A command is a record: op, *)
(* the numbers it gives (-1 for none) and its text, which is the line it   *)
(* adds in input mode.                                                     *)

\* delete_range counts lines from 1.
BatchDelete(e, first, last) ==
    IF first = 0 \/ last < first \/ first > Len(e.lines) THEN EdFail(e)
    ELSE DeleteLines(e, first - 1, last - 1)

InputAt(e, index, last) ==
    [e EXCEPT !.input = [active |-> TRUE, index |-> index, last |-> last], !.ok = TRUE]

HandleInputLine(e, c) ==
    LET d == IF e.input.last = 0 THEN e
             ELSE [BatchDelete(e, e.input.index + 1, e.input.last) EXCEPT !.input.last = 0]
        i == InsertLine(d, d.input.index, c.line)
    IN  IF c.op = "." THEN [d EXCEPT !.input.active = FALSE, !.ok = TRUE]
        ELSE IF i.ok THEN [i EXCEPT !.input.index = @ + 1]
        ELSE [i EXCEPT !.input.active = FALSE]

BatchCommand(e, c, n) ==
    LET count == Len(e.lines)
        a == IF c.a >= 0 THEN c.a ELSE IF c.op = "i" THEN High(count, 1) ELSE count
    IN  IF e.input.active THEN HandleInputLine(e, c)
        ELSE CASE c.op = "q" -> [e EXCEPT !.mode = "closed"]
               [] c.op = "wq" -> LET s == ModelSave(e, n)
                                 IN  IF s.ok THEN [s EXCEPT !.mode = "closed"] ELSE s
               [] c.op = "w" -> ModelSave(e, n)
               [] c.op = "c" -> Done(e, <<>>)
               [] c.op = "p" -> e
               [] c.op = "d" -> IF c.a < 0 THEN EdFail(e)
                                ELSE BatchDelete(e, c.a, IF c.b < 0 THEN c.a ELSE c.b)
               [] c.op = "a" -> IF a > count THEN EdFail(e) ELSE InputAt(e, a, 0)
               [] c.op = "i" -> IF a = 0 \/ a > count + 1 THEN EdFail(e) ELSE InputAt(e, a - 1, 0)
               [] c.op = "r" -> IF c.a < 1 \/ c.a > count THEN EdFail(e)
                                ELSE InputAt(e, c.a - 1, c.a)
               [] OTHER -> EdFail(e)

----------------------------------------------------------------------------
(* What the user expects: a plain text in which what a key replaces is     *)
(* between the mark and the cursor.                                        *)

Flat(lines) ==
    IF lines = <<>> THEN <<>>
    ELSE LET f == EdFileOf(lines) IN SubSeq(f, 1, Len(f) - 1)

Offset(e) ==
    FoldLeft(LAMBDA n, l : n + Len(l) + 1, 0, SubSeq(e.lines, 1, e.row)) + e.col

Replaced(lo, hi, new) == SubSeq(ref.text, 1, lo) \o new \o SubSeq(ref.text, hi + 1, Len(ref.text))

Widest(text) ==
    FoldLeft(LAMBDA m, c : LET n == IF c = "nl" THEN 0 ELSE m[1] + 1 IN <<n, High(n, m[2])>>,
             <<0, 0>>, text)[2]

\* Every text on the way has lines that fit the buffer.
FitsAlways(lo, hi, new) ==
    \A k \in 0 .. Len(new) : Widest(Replaced(lo, hi, SubSeq(new, 1, k))) < EdLine

\* An edit that found a mark with nothing marked leaves selection_active set:
\* the user did not ask for what the editor then takes as selected.
StaleAnchor == ed.active /\ ref.mark = -1

MarkLow == IF ref.mark = -1 THEN Offset(ed) ELSE Low(ref.mark, Offset(ed))
MarkHigh == IF ref.mark = -1 THEN Offset(ed) ELSE High(ref.mark, Offset(ed))

\* The user's text after new replaced lo .. hi; what does not fit is left to
\* the editor, whose buffer is e then.
Follow(e, lo, hi, new) ==
    [ref EXCEPT !.text = IF StaleAnchor \/ ~FitsAlways(lo, hi, new) THEN Flat(e.lines)
                         ELSE Replaced(lo, hi, new),
                !.mark = -1, !.safe = @ /\ e.lines = ed.lines]

FollowKey(e, key) ==
    LET lo == MarkLow
        hi == MarkHigh
    IN  CASE key = "enter" -> Follow(e, lo, hi, <<"nl">>)
          [] key = "tab" -> Follow(e, lo, hi, Spaces)
          [] key = "bs" -> Follow(e, IF lo = hi THEN High(lo - 1, 0) ELSE lo, hi, <<>>)
          [] key = "del" -> Follow(e, lo, IF lo = hi THEN Low(hi + 1, Len(ref.text)) ELSE hi, <<>>)
          [] OTHER -> Follow(e, lo, hi, <<key>>)

\* The document e after a step that may have saved the old one, or that the
\* user told to give it up.
FollowDocument(e, dropped) ==
    [ref EXCEPT !.text = Flat(e.lines), !.mark = IF e.fresh THEN -1 ELSE @,
                !.safe = \/ @
                         \/ dropped
                         \/ \E p \in DOMAIN disk : disk'[p] = EdFileOf(ed.lines)]

----------------------------------------------------------------------------
(* Steps.                                                                  *)

EdInit ==
    /\ edKit \in EdKits
    /\ disk \in EdDisks
    /\ \E path \in DOMAIN disk \cup (IF edKit = "gui" THEN {""} ELSE {}) :
         LET e == [lines |-> <<>>, dirty |-> FALSE, ok |-> TRUE, path |-> path,
                   row |-> 0, col |-> 0, top |-> 0, hscroll |-> 0, rows |-> EdRows,
                   cols |-> EdCols, screen |-> [i \in 1 .. EdRows |-> <<>>],
                   anchor |-> <<0, 0>>, active |-> FALSE, clip |-> <<>>, mode |-> "edit",
                   pending |-> "none", after |-> "none", focus |-> "text", capture |-> "none",
                   fresh |-> FALSE, input |-> [active |-> FALSE, index |-> 0, last |-> 0]]
         IN  ed = IF edKit = "term" THEN Render(ModelLoad(e, path), TRUE, FALSE)
                  ELSE ModelLoad(e, path)
    /\ ref = [text |-> Flat(ed.lines), clip |-> <<>>, mark |-> -1, safe |-> TRUE]
    /\ edFaults = EdFaults
    /\ edLeft = EdKeys

In(kit, mode) == edLeft > 0 /\ edKit = kit /\ ed.mode = mode
Spent == edLeft' = edLeft - 1 /\ edKit' = edKit
NoWrite == disk' = disk /\ edFaults' = edFaults
Settled(e) == [e EXCEPT !.fresh = FALSE]

\* How far a save gets.
EdReach == {Len(ed.lines) + 1} \cup (IF edFaults > 0 THEN -1 .. Len(ed.lines) ELSE {})
Writes(path, n) ==
    /\ disk' = DiskAfter([ed EXCEPT !.path = path], n)
    /\ edFaults' = IF n > Len(ed.lines) THEN edFaults ELSE edFaults - 1

\* A key of the terminal editor that moves the cursor or edits.
TermType(key) ==
    /\ In("term", "edit")
    /\ ed' = TermKey(ed, key)
    /\ ref' = IF key \in Moves THEN ref ELSE FollowKey(ed', key)
    /\ NoWrite /\ Spent

\* F2.
TermSave(n) ==
    /\ In("term", "edit")
    /\ ed' = Render(ModelSave(ed, n), FALSE, FALSE)
    /\ Writes(ed.path, n)
    /\ ref' = FollowDocument(ed', FALSE)
    /\ Spent

\* F3 or Esc: confirm_quit asks when there is unsaved text.
TermQuit ==
    /\ In("term", "edit")
    /\ ed' = IF ed.dirty THEN Render([ed EXCEPT !.mode = "dirty"], FALSE, FALSE)
             ELSE [ed EXCEPT !.mode = "closed"]
    /\ UNCHANGED ref
    /\ NoWrite /\ Spent

\* The answer in confirm_quit.
TermConfirm(choice, n) ==
    /\ In("term", "dirty")
    /\ ed' = CASE choice = "save" -> LET s == ModelSave(ed, n)
                                     IN  IF s.ok THEN [s EXCEPT !.mode = "closed"]
                                         ELSE Render(s, FALSE, FALSE)
               [] choice = "discard" -> [ed EXCEPT !.mode = "closed"]
               [] choice = "cancel" -> Render([ed EXCEPT !.mode = "edit"], FALSE, FALSE)
    /\ IF choice = "save" THEN Writes(ed.path, n) ELSE NoWrite
    /\ ref' = FollowDocument(ed', choice = "discard")
    /\ Spent

\* The next -c command; the program ends with the commands.
BatchStep(c, n) ==
    /\ In("batch", "edit")
    /\ ed' = BatchCommand(ed, c, n)
    /\ IF c.op \in {"w", "wq"} /\ ~ed.input.active THEN Writes(ed.path, n) ELSE NoWrite
    /\ ref' = [ref EXCEPT !.text = Flat(ed'.lines)]
    /\ Spent

\* A key the text gets, of the window.
AppType(key, shift) ==
    /\ In("gui", "edit")
    /\ ed.focus = "text" \/ key \notin {"tab", "enter", " "}
    /\ ed' = Settled(AppKey(ed, key, shift))
    /\ ref' = IF key \notin Moves THEN FollowKey(ed', key)
              ELSE IF ~shift THEN [ref EXCEPT !.mark = -1]
              ELSE IF ref.mark = -1 /\ ~ed.active THEN [ref EXCEPT !.mark = Offset(ed)] ELSE ref
    /\ NoWrite /\ Spent

\* Ctrl+A, C, X and V.
AppClip(what) ==
    /\ In("gui", "edit")
    /\ ed' = Settled(CASE what = "all" -> SelectAll(ed)
                       [] what = "copy" -> CopySelection(ed)
                       [] what = "cut" -> Cut(ed)
                       [] what = "paste" -> ClampView(Paste(ed)))
    /\ LET lo == MarkLow
           hi == MarkHigh
           held == IF StaleAnchor THEN ed'.clip
                   ELSE IF lo < hi THEN SubSeq(ref.text, lo + 1, hi) ELSE ref.clip
       IN  ref' = CASE what = "all" -> IF ed.lines = <<>> THEN ref ELSE [ref EXCEPT !.mark = 0]
                    [] what = "copy" -> [ref EXCEPT !.clip = held]
                    [] what = "cut" -> IF lo = hi /\ ~StaleAnchor THEN ref
                                       ELSE [Follow(ed', lo, hi, <<>>) EXCEPT !.clip = held]
                    [] what = "paste" -> IF ref.clip = <<>> THEN ref
                                         ELSE Follow(ed', lo, hi, ref.clip)
    /\ NoWrite /\ Spent

\* A command: a shortcut, F2, Enter on a focused button, or its click.
AppCommand(command, n) ==
    /\ In("gui", "edit")
    /\ ed' = RunCommand(Settled(ed), command, n)
    /\ IF command = "save" THEN Writes(ed.path, n) ELSE NoWrite
    /\ ref' = FollowDocument(ed', FALSE)
    /\ Spent

\* A toolbar button gets the focus by a press, the next one by Tab.
AppFocus ==
    /\ In("gui", "edit")
    /\ \/ \E b \in {"new", "open", "save as"} : ed' = Settled([ed EXCEPT !.focus = b])
       \/ ed.focus # "text" /\ ed' = Settled([ed EXCEPT !.focus = NextButton(@)])
    /\ UNCHANGED ref
    /\ NoWrite /\ Spent

\* The window is asked to close: its button, Esc, or the desktop's end.  A
\* modal of another application (busy) keeps the question from being asked.
AppClose(busy) ==
    /\ In("gui", "edit")
    /\ ed' = IF busy /\ ed.dirty THEN Settled(ed) ELSE RequestAction(Settled(ed), "close")
    /\ UNCHANGED ref
    /\ NoWrite /\ Spent

\* The dialog's answer.
AppConfirm(choice, n) ==
    /\ In("gui", "dirty")
    /\ ed' = ConfirmChoice(Settled(ed), choice, n)
    /\ IF choice = "save" THEN Writes(ed.path, n) ELSE NoWrite
    /\ ref' = FollowDocument(ed', choice = "discard")
    /\ Spent

\* The picker's answer.
AppFile(path, n) ==
    /\ edLeft > 0 /\ edKit = "gui" /\ ed.mode \in {"open", "save"}
    /\ ed' = FileSelected(Settled(ed), path, n)
    /\ IF ed.mode = "save" THEN Writes(path, n) ELSE NoWrite
    /\ ref' = FollowDocument(ed', FALSE)
    /\ Spent

AppFileCancel ==
    /\ edLeft > 0 /\ edKit = "gui" /\ ed.mode \in {"open", "save"}
    /\ ed' = FileCancelled(Settled(ed))
    /\ UNCHANGED ref
    /\ NoWrite /\ Spent

\* The pointer over the text.
AppPointer(what, i, j) ==
    /\ In("gui", "edit")
    /\ ed.capture = IF what = "down" THEN "none" ELSE "text"
    /\ ed' = Settled(CASE what = "down" -> PointerDown(ed, i, j)
                       [] what = "move" -> PointerMove(ed, i, j)
                       [] what = "up" -> PointerUp(ed))
    /\ ref' = CASE what = "down" -> [ref EXCEPT !.mark = Offset(ed')]
                [] what = "move" -> ref
                [] what = "up" -> IF ref.mark = Offset(ed) THEN [ref EXCEPT !.mark = -1] ELSE ref
    /\ NoWrite /\ Spent

\* The wheel or the scrollbar, and a new size of the window.
AppView ==
    /\ In("gui", "edit")
    /\ \/ \E top \in 0 .. MaxTop(ed) : ed' = Settled(ScrollTo(ed, top))
       \/ \E rows \in 1 .. EdRows : ed' = Settled(ClampView([ed EXCEPT !.rows = rows]))
    /\ UNCHANGED ref
    /\ NoWrite /\ Spent

EdNext ==
    \/ \E key \in Moves \cup Edits : TermType(key)
    \/ \E n \in EdReach : TermSave(n)
    \/ TermQuit
    \/ \E choice \in {"save", "discard", "cancel"}, n \in EdReach : TermConfirm(choice, n)
    \/ \E c \in EdCommands, n \in EdReach : BatchStep(c, n)
    \/ \E key \in Moves \cup Edits, shift \in BOOLEAN : AppType(key, shift)
    \/ \E what \in {"all", "copy", "cut", "paste"} : AppClip(what)
    \/ \E command \in {"new", "open", "save", "save as"}, n \in EdReach : AppCommand(command, n)
    \/ AppFocus
    \/ \E busy \in BOOLEAN : AppClose(busy)
    \/ \E choice \in {"save", "discard", "cancel"}, n \in EdReach : AppConfirm(choice, n)
    \/ \E path \in DOMAIN disk, n \in EdReach : AppFile(path, n)
    \/ AppFileCancel
    \/ \E what \in {"down", "move", "up"}, i \in 0 .. EdRows - 1, j \in 0 .. EdCols :
         AppPointer(what, i, j)
    \/ AppView

EdSpec == EdInit /\ [][EdNext]_edVars

----------------------------------------------------------------------------
(* Properties.                                                             *)

\* The buffer of lines holds the text the keys, the selection and the
\* clipboard make of it, across joined and split lines, and the clipboard
\* what was marked (editor_model.c, and editor_delete_selection,
\* editor_copy_selection and editor_paste of editor_app.c).
TextAsEdited == Flat(ed.lines) = ref.text /\ ed.clip = ref.clip

\* Although render draws only the line a key is said to have changed, the
\* terminal shows the buffer after every key (edit.c's interactive).
ScreenShows ==
    edKit = "term" /\ ed.mode # "closed" =>
        \A i \in 1 .. ed.rows : ed.screen[i] = Slice(ed, ed.top + i - 1)

\* Text changed since it was read or written to disk is closed, or gives way
\* to another document, only when it has reached a file or the user chose to
\* discard it, whichever save failed on the way (editor_request_action,
\* editor_apply_confirm_choice, editor_file_result; confirm_quit of edit.c).
NoSilentLoss == edKit # "batch" /\ (ed.fresh \/ ed.mode = "closed") => ref.safe

============================================================================
