------------------------------- MODULE Browse -------------------------------
(***************************************************************************)
(* The desktop's two views of a directory: the file picker of the Open and *)
(* Save As dialogs (user/gui/file_picker.c) and the Files window           *)
(* (files_app.c), with the line editor and the scroll bar of widgets.c.    *)
(*                                                                         *)
(* A path is a sequence of characters, as the code builds it; the tree of  *)
(* the file system is kept by lists of names.  Rows count from 0.  A list  *)
(* is BrHeight pixels high, a row BrRow.  Whether two clicks are close     *)
(* enough in time is a choice.  Capacities of the text buffers are not     *)
(* reached; colours, messages and the invalidated rectangles are left out. *)
(***************************************************************************)
EXTENDS Integers, Sequences, SequencesExt, FiniteSetsExt

CONSTANTS BrTrees,        \* the trees there may be: list of names -> "dir" or "file"
          BrNames,        \* the names on disk, in the order readdir lists them
          BrCode,         \* the code of a character, letters without their case
          BrMax,          \* MAX_ROWS and GUI_FILE_PICKER_MAX_ROWS
          BrHeight, BrRow, BrGrip,  \* the list, a row, the smallest thumb
          BrKits,         \* [who, start, events]: the view, its path, its input
          BrAnswers,      \* names typed in a dialog
          BrSteps, BrOthers

VARIABLES tree,   \* the file system
          br,     \* the view: picker or window
          ask,    \* the Files window's open dialog, with the item it was opened for
          seen,   \* history: the directory reached, and what the last event did
          brKit, brLeft

brVars == <<tree, br, ask, seen, brKit, brLeft>>

Up == <<".", ".">>
CannotOpen == <<"?">>
RowOf(name, dir) == [name |-> name, dir |-> dir]
Visible == Max({1, BrHeight \div BrRow})
Clip(x, lo, hi) == IF x < lo THEN lo ELSE IF x > hi THEN hi ELSE x
MaxScroll(count) == Max({0, count - Visible})

-----------------------------------------------------------------------------
(* Paths.                                                                  *)

LastSlash(p) == Max({0} \union {i \in DOMAIN p : p[i] = "/"})
NoSlashAtEnd(p) == IF Len(p) > 1 /\ Last(p) = "/" THEN Front(p) ELSE p

PickerParent(p) ==
    LET q == NoSlashAtEnd(p) IN
    IF LastSlash(q) <= 1 THEN <<"/">> ELSE SubSeq(q, 1, LastSlash(q) - 1)
PickerJoin(directory, name) ==
    LET d == NoSlashAtEnd(IF directory = <<>> THEN <<"/">> ELSE directory) IN
    (IF d # <<"/">> THEN Append(d, "/") ELSE d) \o name
PickerSplit(path) ==
    LET s == LastSlash(path) IN
    [directory |-> IF s <= 1 THEN <<"/">> ELSE SubSeq(path, 1, s - 1),
     filename |-> SubSeq(path, s + 1, Len(path))]

AppendPath(path, name) == (IF Len(path) > 1 THEN Append(path, "/") ELSE path) \o name
ParentPath(path) ==
    LET q == SubSeq(path, 1, Max({1} \union {i \in DOMAIN path : path[i] # "/"}))
        n == Max({1, LastSlash(q)}) IN
    SubSeq(q, 1, IF n > 1 THEN n - 1 ELSE 1)

(* The names a path is made of, which is how the kernel resolves it.       *)
Components(p) ==
    LET cuts == SetToSortSeq({0, Len(p) + 1} \union {i \in DOMAIN p : p[i] = "/"}, <)
        piece == [k \in 1..(Len(cuts) - 1) |-> SubSeq(p, cuts[k] + 1, cuts[k + 1] - 1)] IN
    SelectSeq(piece, LAMBDA c : c # <<>>)

-----------------------------------------------------------------------------
(* The file system below: opendir with readdir, and the four calls of the  *)
(* Files window.  A call may fail; when the item named first is there, the *)
(* kernel then still answers 0 (path_lookup_errno), except for mkdir.      *)

IsDir(t, c) == c \in DOMAIN t /\ t[c] = "dir"
Entries(t, c) ==
    LET here == SelectSeq(BrNames, LAMBDA n : Append(c, n) \in DOMAIN t) IN
    [i \in DOMAIN here |-> RowOf(here[i], t[Append(c, here[i])] = "dir")]
Under(t, c) == {d \in DOMAIN t : IsPrefix(c, d)}
Without(t, cs) == [d \in (DOMAIN t) \ cs |-> t[d]]
Moved(t, c, to) ==
    LET rest == Without(t, Under(t, c) \union {to})
        new == {to \o SubSeq(d, Len(c) + 1, Len(d)) : d \in Under(t, c)} IN
    [d \in (DOMAIN rest) \union new |->
        IF d \in new THEN t[c \o SubSeq(d, Len(to) + 1, Len(d))] ELSE t[d]]

Refused(t, c) == [tree |-> t, rc |-> IF c \in DOMAIN t THEN 0 ELSE -1]
SysMkdir(t, c) ==
    {[tree |-> t, rc |-> -1]}
      \union {[tree |-> [d \in (DOMAIN t) \union {c} |-> IF d = c THEN "dir" ELSE t[d]], rc |-> 0]
                 : x \in {y \in {c} : c \notin DOMAIN t /\ IsDir(t, Front(c))}}
SysRename(t, c, to) ==
    {Refused(t, c)}
      \union {[tree |-> Moved(t, c, to), rc |-> 0]
                 : x \in {y \in {c} : /\ c \in DOMAIN t /\ ~IsPrefix(c, to) /\ IsDir(t, Front(to))
                                      /\ to \in DOMAIN t => t[c] = "file" /\ t[to] = "file"}}
SysRemove(t, c, kind) ==
    {Refused(t, c)}
      \union {[tree |-> Without(t, {c}), rc |-> 0]
                 : x \in {y \in {c} : c \in DOMAIN t /\ t[c] = kind /\ Under(t, c) = {c}}}

-----------------------------------------------------------------------------
(* widgets.c: a line of text with its cursor, and the scroll bar.          *)

TextInputInit(text) == [text |-> text, cursor |-> Len(text)]
TextInputInsert(input, ch) ==
    [text |-> SubSeq(input.text, 1, input.cursor) \o <<ch>>
                \o SubSeq(input.text, input.cursor + 1, Len(input.text)),
     cursor |-> input.cursor + 1]
TextInputCommand(input, command) ==
    LET c == input.cursor
        n == Len(input.text) IN
    CASE command = "left" -> [input EXCEPT !.cursor = Max({0, c - 1})]
      [] command = "right" -> [input EXCEPT !.cursor = Min({n, c + 1})]
      [] command = "home" -> [input EXCEPT !.cursor = 0]
      [] command = "end" -> [input EXCEPT !.cursor = n]
      [] command = "backspace" /\ c > 0 -> [text |-> RemoveAt(input.text, c), cursor |-> c - 1]
      [] command = "delete" /\ c < n -> [input EXCEPT !.text = RemoveAt(input.text, c + 1)]
      [] OTHER -> input

(* gui_widget_scroll_thumb of a track of BrHeight at 0, and its inverse.   *)
ScrollThumb(total, offset) ==
    IF total <= 0 \/ Visible >= total THEN [y |-> 0, h |-> BrHeight]
    ELSE LET h == Min({BrHeight, Max({BrGrip, (BrHeight * Visible) \div total})})
             m == total - Visible IN
         [y |-> ((BrHeight - h) * Clip(offset, 0, m)) \div m, h |-> h]
ScrollOffset(total, pointer, grab) ==
    LET travel == BrHeight - ScrollThumb(total, 0).h
        y == Clip(pointer - grab, 0, travel) IN
    IF total <= 0 \/ Visible >= total \/ travel <= 0 THEN 0
    ELSE (y * (total - Visible) + travel \div 2) \div travel
OnThumb(total, offset, y) ==
    LET t == ScrollThumb(total, offset) IN y >= t.y /\ y < t.y + t.h

(* gui_widget_focus_next: the next enabled control, or -1.                 *)
FocusNext(current, reverse, enabled) ==
    LET n == Len(enabled)
        at(step) == IF reverse THEN (IF current < 0 THEN n - step ELSE (current + n * 2 - step) % n)
                    ELSE (current + step) % n
        steps == {s \in 1..n : enabled[at(s) + 1]} IN
    IF steps = {} THEN -1 ELSE at(Min(steps))

-----------------------------------------------------------------------------
(* The picker.  focus is 1 the list, 2 the file name, 3 accept, 4 cancel;  *)
(* pressed is one of those or 5, the thumb; end says how it was left.      *)

PickerLoad(p, t) ==
    LET up == IF p.cwd # <<"/">> THEN <<RowOf(Up, TRUE)>> ELSE <<>>
        c == Components(p.cwd)
        all == up \o (IF IsDir(t, c) THEN Entries(t, c) ELSE <<>>) IN
    [p EXCEPT !.rows = SubSeq(all, 1, Min({BrMax, Len(all)})), !.sel = -1, !.scroll = 0]
PickerInit(path, t) ==
    LET s == PickerSplit(path) IN
    PickerLoad([cwd |-> s.directory, rows |-> <<>>, sel |-> -1, scroll |-> 0, focus |-> 1,
                pressed |-> 0, grab |-> 0, last |-> -1, input |-> TextInputInit(s.filename),
                result |-> <<>>, end |-> "", drawn |-> FALSE], t)

ClampScroll(p) ==
    LET s == Clip(p.scroll, 0, MaxScroll(Len(p.rows))) IN
    [p EXCEPT !.scroll = IF p.sel < 0 THEN s
                         ELSE IF p.sel < s THEN p.sel
                         ELSE IF p.sel >= s + Visible THEN p.sel - Visible + 1 ELSE s]
InRows(p) == p.sel >= 0 /\ p.sel < Len(p.rows)
Chosen(p) == p.rows[p.sel + 1]
OnDir(p) == InRows(p) /\ Chosen(p).dir
ChooseRow(p, row) ==
    LET q == [p EXCEPT !.sel = row, !.focus = 1] IN
    IF InRows(q) /\ ~Chosen(q).dir THEN [q EXCEPT !.input = TextInputInit(Chosen(q).name)] ELSE q
PickerAccept(p) ==
    IF p.input.text = <<>> THEN p
    ELSE [p EXCEPT !.result = PickerJoin(p.cwd, p.input.text), !.end = "accept"]
OpenSelected(p, t) ==
    IF ~InRows(p) THEN p
    ELSE IF ~Chosen(p).dir THEN PickerAccept(p)
    ELSE PickerLoad([p EXCEPT !.cwd = IF Chosen(p).name = Up THEN PickerParent(p.cwd)
                                      ELSE PickerJoin(p.cwd, Chosen(p).name)], t)

ListKey(p, k, t) ==
    LET n == Len(p.rows) IN
    ClampScroll(CASE k = "up" -> IF p.sel > 0 THEN ChooseRow(p, p.sel - 1)
                                 ELSE IF p.sel < 0 /\ n > 0 THEN ChooseRow(p, 0) ELSE p
                  [] k = "down" -> IF p.sel + 1 < n THEN ChooseRow(p, p.sel + 1) ELSE p
                  [] k = "pgup" -> [p EXCEPT !.sel = Max({0, p.sel - Visible})]
                  [] k = "pgdn" -> [p EXCEPT !.sel = Min({n - 1, p.sel + Visible})]
                  [] k = "enter" -> OpenSelected(p, t))
NameKey(p, k) ==
    IF k = "enter" THEN PickerAccept(p)
    ELSE IF k \in {"left", "right", "home", "end", "backspace", "delete"}
         THEN [p EXCEPT !.input = TextInputCommand(p.input, k)]
    ELSE IF k \in DOMAIN BrCode THEN [p EXCEPT !.input = TextInputInsert(p.input, k)] ELSE p
PickerKey(p, k, t) ==
    CASE k = "esc" -> [p EXCEPT !.end = "cancel"]
      [] k = "tab" -> [p EXCEPT !.focus = (p.focus % 4) + 1]
      [] k = "backtab" -> [p EXCEPT !.focus = IF p.focus = 1 THEN 4 ELSE p.focus - 1]
      [] p.focus = 1 /\ k \in {"up", "down", "pgup", "pgdn", "enter"} -> ListKey(p, k, t)
      [] p.focus = 2 /\ k \notin {"esc", "tab", "backtab"} -> NameKey(p, k)
      [] p.focus \in {3, 4} /\ k = "enter" ->
            IF p.focus = 4 THEN [p EXCEPT !.end = "cancel"] ELSE PickerAccept(p)
      [] OTHER -> p

PickerWheel(p, d) == ClampScroll([p EXCEPT !.scroll = p.scroll - 3 * d])
PickerMove(p, y) ==
    IF p.pressed = 5 THEN [p EXCEPT !.scroll = ScrollOffset(Len(p.rows), y, p.grab)] ELSE p
PickerRelease(p, place) ==
    LET q == [p EXCEPT !.pressed = 0] IN
    CASE p.pressed = 3 /\ place = "accept" -> PickerAccept(q)
      [] p.pressed = 4 /\ place = "cancel" -> [q EXCEPT !.end = "cancel"]
      [] OTHER -> q
ClickRow(p, row, quick, t) ==
    LET q == [ChooseRow(p, row) EXCEPT !.last = row] IN
    IF quick /\ row = p.last THEN OpenSelected(q, t) ELSE q
PickerPress(p, place, at, quick, t) ==
    LET n == Len(p.rows)
        row == p.scroll + at \div BrRow IN
    CASE place = "scroll" ->
            IF OnThumb(n, p.scroll, at)
            THEN [p EXCEPT !.pressed = 5, !.grab = at - ScrollThumb(n, p.scroll).y]
            ELSE ClampScroll([p EXCEPT !.scroll = @ + IF at < ScrollThumb(n, p.scroll).y
                                                      THEN -Visible ELSE Visible])
      [] place = "list" -> IF row < n THEN ClickRow(p, row, quick, t) ELSE p
      [] place = "name" -> [p EXCEPT !.focus = 2, !.input.cursor = Min({at, Len(p.input.text)})]
      [] place = "accept" -> [p EXCEPT !.focus = 3, !.pressed = 3]
      [] place = "cancel" -> [p EXCEPT !.focus = 4, !.pressed = 4]
      [] OTHER -> p

-----------------------------------------------------------------------------
(* The Files window.  rows is the array, of which the first count are the  *)
(* directory's; focus and captured are 0 none, 1 the thumb, 2 New, 3       *)
(* Rename, 4 Delete, 5 Properties; last is the row of the last click;      *)
(* opened is the path given to the launcher.                               *)

NameCompare(a, b) ==
    LET differ == {i \in 1..Min({Len(a), Len(b)}) : BrCode[a[i]] # BrCode[b[i]]} IN
    IF differ # {} THEN BrCode[a[Min(differ)]] - BrCode[b[Min(differ)]] ELSE Len(a) - Len(b)
Swaps(a, b) == (~a.dir /\ b.dir) \/ (a.dir = b.dir /\ NameCompare(a.name, b.name) > 0)
Sorted(rows, first) ==
    LET n == Len(rows)
        row(k) == ((k - 1) \div n) + 1
        col(k) == ((k - 1) % n) + 1
        step(r, k) == IF row(k) > first /\ col(k) > row(k) /\ Swaps(r[row(k)], r[col(k)])
                      THEN [r EXCEPT ![row(k)] = r[col(k)], ![col(k)] = r[row(k)]] ELSE r IN
    FoldLeft(step, rows, [k \in 1..(n * n) |-> k])
Overlay(rows, old) == rows \o SubSeq(old, Len(rows) + 1, Len(old))

AtMost(all) == SubSeq(all, 1, Min({BrMax, Len(all)}))
Reselect(f, rows, same) ==
    [f EXCEPT !.rows = Overlay(rows, f.rows), !.count = Len(rows), !.scroll = 0,
              !.sel = IF same # {} THEN Min(same) - 1 ELSE IF rows = <<>> THEN -1 ELSE 0]
ShowRows(f, rows, retain) ==
    Reselect(f, rows, {i \in DOMAIN rows : retain /\ rows[i].name = f.rows[f.sel + 1].name})
LoadDirectory(f, t) ==
    LET retain == f.sel >= 0 /\ f.sel < f.count
        up == IF f.cwd # <<"/">> THEN <<RowOf(Up, TRUE)>> ELSE <<>>
        c == Components(f.cwd)
        closed == Append(up, RowOf(CannotOpen, FALSE)) IN
    IF ~IsDir(t, c)
    THEN [f EXCEPT !.rows = Overlay(closed, f.rows), !.count = Len(closed), !.scroll = 0]
    ELSE ShowRows(f, Sorted(AtMost(up \o Entries(t, c)), Len(up)), retain)
FilesOpen(t) ==
    LoadDirectory([cwd |-> <<"/">>, rows |-> <<>>, count |-> 0, sel |-> -1, scroll |-> 0,
                   focus |-> 0, captured |-> 0, grab |-> 0, last |-> -1, opened |-> <<>>], t)

RowAt(f) == f.rows[f.sel + 1]
OnItem(f) == f.sel >= 0 /\ RowAt(f).name # Up
SelectedPath(f) == AppendPath(f.cwd, RowAt(f).name)
HasPath(f) == f.sel >= 0 /\ f.sel < f.count /\ RowAt(f).name # Up

Activate(f, row, quick, force, t) ==
    LET g == [f EXCEPT !.sel = row] IN
    IF row < 0 \/ row >= f.count THEN f
    ELSE IF RowAt(g).dir
         THEN IF ~force THEN g
              ELSE LoadDirectory([g EXCEPT !.cwd = IF RowAt(g).name = Up THEN ParentPath(f.cwd)
                                                   ELSE AppendPath(f.cwd, RowAt(g).name)], t)
    ELSE IF force \/ (quick /\ f.last = row)
         THEN [g EXCEPT !.opened = AppendPath(f.cwd, RowAt(g).name), !.last = -1]
    ELSE [g EXCEPT !.last = row]

(* What a command button, a shortcut or a key opens.                       *)
NoAsk == [kind |-> "none", item |-> <<>>, name |-> <<>>]
Asks(f, control) ==
    CASE control = 2 -> "new"
      [] control = 3 /\ OnItem(f) -> "rename"
      [] control = 4 /\ OnItem(f) -> "delete"
      [] OTHER -> "none"
OpenDialog(f, kind) ==
    IF kind = "none" THEN NoAsk
    ELSE [kind |-> kind, item |-> IF kind = "new" THEN f.cwd ELSE SelectedPath(f),
          name |-> IF kind = "rename" THEN RowAt(f).name ELSE <<"n">>]

KeyAsks(f, k) ==
    IF k \in {"enter", "space", "alt enter"} /\ f.focus \in 2..5 THEN Asks(f, f.focus)
    ELSE IF k = "ctrl n" THEN "new"
    ELSE IF k = "f2" THEN Asks(f, 3)
    ELSE IF k = "delete" THEN Asks(f, 4) ELSE "none"
Follow(f, old) ==
    LET s == IF f.sel < f.scroll THEN f.sel
             ELSE IF f.sel >= f.scroll + Visible THEN f.sel - Visible + 1 ELSE f.scroll IN
    [f EXCEPT !.scroll = Clip(s, 0, MaxScroll(old))]
Enabled(f) == <<TRUE, OnItem(f), OnItem(f), f.sel >= 0>>
FilesKey(f, k, t) ==
    LET n == f.count
        next(reverse) ==
            FocusNext(IF f.focus \in 2..5 THEN f.focus - 2 ELSE -1, reverse, Enabled(f)) + 2 IN
    CASE k \in {"tab", "backtab"} -> Follow([f EXCEPT !.focus = next(k = "backtab")], n)
      [] k \in {"enter", "space", "alt enter"} /\ f.focus \in 2..5 -> Follow(f, n)
      [] k \in {"ctrl n", "alt enter"} -> Follow(f, n)
      [] k \in {"f2", "delete"} -> IF OnItem(f) THEN Follow(f, n) ELSE f
      [] k = "up" /\ f.sel > 0 -> Follow([f EXCEPT !.sel = @ - 1], n)
      [] k = "down" /\ f.sel + 1 < n -> Follow([f EXCEPT !.sel = @ + 1], n)
      [] k = "home" /\ n > 0 -> Follow([f EXCEPT !.sel = 0], n)
      [] k = "end" /\ n > 0 -> Follow([f EXCEPT !.sel = n - 1], n)
      [] k = "pgup" /\ n > 0 -> Follow([f EXCEPT !.sel = Max({0, @ - Visible})], n)
      [] k = "pgdn" /\ n > 0 -> Follow([f EXCEPT !.sel = IF @ + Visible >= n THEN n - 1 ELSE @ + Visible], n)
      [] k = "enter" /\ f.sel >= 0 -> Follow(Activate(f, f.sel, FALSE, TRUE, t), n)
      [] OTHER -> f

InScroll(f, old) == [f EXCEPT !.scroll = Clip(f.scroll, 0, MaxScroll(old))]
FilesPress(f, place, at, quick, t) ==
    LET n == f.count
        row == f.scroll + at \div BrRow
        works == place = 2 \/ (place \in {3, 4} /\ OnItem(f)) \/ (place = 5 /\ f.sel >= 0) IN
    InScroll(
        CASE place \in 2..5 -> IF works THEN [f EXCEPT !.focus = place, !.captured = place] ELSE f
          [] place = 1 ->
                IF OnThumb(n, f.scroll, at)
                THEN [f EXCEPT !.captured = 1, !.grab = at - ScrollThumb(n, f.scroll).y]
                ELSE [f EXCEPT !.scroll = @ + IF at < ScrollThumb(n, f.scroll).y
                                              THEN -Visible ELSE Visible]
          [] OTHER -> IF at < Visible * BrRow /\ row < n
                      THEN Activate(f, row, quick, f.rows[row + 1].dir, t) ELSE f, n)
FilesMove(f, y) ==
    IF f.captured = 1 THEN InScroll([f EXCEPT !.scroll = ScrollOffset(f.count, y, f.grab)], f.count)
    ELSE f
FilesRelease(f) == InScroll([f EXCEPT !.captured = 0], f.count)
FilesWheel(f, d) == InScroll([f EXCEPT !.scroll = @ - 3 * d], f.count)

(* confirm_dialog: the calls it may make, each with its outcome.           *)
Confirm(f, a, text, t) ==
    LET target == Components(AppendPath(f.cwd, text))
        source == Components(SelectedPath(f)) IN
    CASE a.kind = "new" /\ text # <<>> -> SysMkdir(t, target)
      [] a.kind = "rename" /\ text # <<>> /\ HasPath(f) -> SysRename(t, source, target)
      [] a.kind = "delete" /\ HasPath(f) ->
            SysRemove(t, source, IF RowAt(f).dir THEN "dir" ELSE "file")
      [] OTHER -> {[tree |-> t, rc |-> -1]}
Confirmed(f, outcome) == IF outcome.rc = 0 THEN LoadDirectory(f, outcome.tree) ELSE f

-----------------------------------------------------------------------------
(* One event for the view, another program changing the tree, or, for the  *)
(* Files window, the answer to its dialog, which is modal: meanwhile no    *)
(* other event reaches the window.                                         *)

Walk(dir, name) == IF name = Up THEN Front(dir) ELSE Append(dir, name)
NothingDone == [kind |-> "none", item |-> <<>>, to |-> <<>>, before |-> <<>>]
Seen(dir) == [dir |-> dir, agrees |-> FALSE, did |-> NothingDone]

BrInit ==
    /\ brKit \in BrKits
    /\ tree \in BrTrees
    /\ ask = NoAsk
    /\ IF brKit.who = "picker"
       THEN /\ br = PickerInit(brKit.start, tree)
            /\ seen = Seen(Components(PickerSplit(brKit.start).directory))
       ELSE br = FilesOpen(tree) /\ seen = Seen(<<>>)
    /\ brLeft = [steps |-> BrSteps, others |-> BrOthers]

Event(type) == {e \in brKit.events : e.type = type}
Took == brLeft.steps > 0 /\ brLeft' = [brLeft EXCEPT !.steps = @ - 1] /\ UNCHANGED <<tree, brKit>>

(* The picker was given an event and is now p; it opened the directory     *)
(* highlighted in q, if opens.  A file just clicked or walked to with the  *)
(* arrows (chooses) is the one meant until the row or the name changes.    *)
Picked(p, q, opens, chooses) ==
    /\ br' = [p EXCEPT !.drawn = FALSE]
    /\ seen' = [seen EXCEPT !.dir = IF opens /\ OnDir(q) THEN Walk(@, Chosen(q).name) ELSE @,
                            !.agrees = IF chooses THEN InRows(p) /\ ~Chosen(p).dir
                                       ELSE @ /\ p.sel = br.sel /\ p.input.text = br.input.text]
    /\ UNCHANGED ask
Picking == brKit.who = "picker" /\ br.end = ""

PickerKeyEvent ==
    Picking /\ Took /\ \E e \in Event("key") :
        \E p \in {PickerKey(br, e.what, tree)} :
        Picked(p, br, e.what = "enter" /\ br.focus = 1, e.what \in {"up", "down"} /\ p.sel # br.sel)
PickerPressEvent ==
    Picking /\ Took /\ br.pressed = 0 /\ \E e \in Event("press"), quick \in BOOLEAN :
        LET row == br.scroll + e.at \div BrRow
            clicks == e.what = "list" /\ row < Len(br.rows) IN
        /\ quick => clicks /\ row = br.last
        /\ Picked(PickerPress(br, e.what, e.at, quick, tree),
                  IF clicks THEN ChooseRow(br, row) ELSE br, quick, clicks)
PickerMoveEvent ==
    Picking /\ Took /\ br.pressed = 5 /\ \E y \in 0..BrHeight : Picked(PickerMove(br, y), br, FALSE, FALSE)
PickerReleaseEvent ==
    Picking /\ Took /\ br.pressed # 0 /\ \E place \in {"accept", "cancel", "list"} :
        Picked(PickerRelease(br, place), br, FALSE, FALSE)
PickerWheelEvent ==
    Picking /\ Took /\ \E e \in Event("wheel") : Picked(PickerWheel(br, e.at), br, FALSE, FALSE)
PickerDraw ==
    /\ Picking /\ ~br.drawn
    /\ br' = [ClampScroll(br) EXCEPT !.drawn = TRUE]
    /\ UNCHANGED <<tree, ask, seen, brKit, brLeft>>

(* The Files window is now f, having entered row if enters.                *)
Filed(f, kind, enters, row) ==
    /\ br' = f
    /\ ask' = OpenDialog(br, kind)
    /\ seen' = [seen EXCEPT !.did = NothingDone,
                            !.dir = IF enters /\ row.dir THEN Walk(@, row.name) ELSE @]
Filing == brKit.who = "files" /\ ask.kind = "none"
InList == br.sel >= 0 /\ br.sel < br.count

FilesKeyEvent ==
    Filing /\ Took /\ \E e \in Event("key") :
        Filed(FilesKey(br, e.what, tree), KeyAsks(br, e.what),
              e.what = "enter" /\ br.focus \notin 2..5 /\ InList,
              IF InList THEN RowAt(br) ELSE RowOf(Up, FALSE))
FilesPressEvent ==
    Filing /\ Took /\ br.captured = 0 /\ \E e \in Event("press"), quick \in BOOLEAN :
        LET row == br.scroll + e.at \div BrRow
            clicks == e.what = 0 /\ e.at < Visible * BrRow /\ row < br.count IN
        /\ quick => clicks /\ row = br.last
        /\ Filed(FilesPress(br, e.what, e.at, quick, tree), "none", clicks,
                 IF clicks THEN br.rows[row + 1] ELSE RowOf(Up, FALSE))
FilesMoveEvent ==
    Filing /\ Took /\ br.captured = 1 /\ \E y \in 0..BrHeight :
        Filed(FilesMove(br, y), "none", FALSE, RowOf(Up, FALSE))
FilesReleaseEvent ==
    Filing /\ Took /\ br.captured # 0 /\ \E on \in BOOLEAN :
        Filed(FilesRelease(br), IF on THEN Asks(br, br.captured) ELSE "none", FALSE, RowOf(Up, FALSE))
FilesWheelEvent ==
    Filing /\ Took /\ \E e \in Event("wheel") :
        Filed(FilesWheel(br, e.at), "none", FALSE, RowOf(Up, FALSE))
FilesAnswer ==
    /\ brKit.who = "files" /\ ask.kind # "none"
    /\ \/ UNCHANGED <<tree, br, seen>>
       \/ \E text \in BrAnswers \union {ask.name} : \E out \in Confirm(br, ask, text, tree) :
             /\ tree' = out.tree
             /\ br' = Confirmed(br, out)
             /\ seen' = [seen EXCEPT !.did =
                            [kind |-> ask.kind, item |-> Components(ask.item),
                             to |-> seen.dir \o Components(text), before |-> tree]]
    /\ ask' = NoAsk
    /\ UNCHANGED <<brKit, brLeft>>

Elsewhere ==
    /\ brLeft.others > 0 /\ brLeft' = [brLeft EXCEPT !.others = @ - 1]
    /\ \E c \in (DOMAIN tree) \ {<<>>} :
          \/ tree' = Without(tree, Under(tree, c))
          \/ tree[c] = "file" /\ tree' = [tree EXCEPT ![c] = "dir"]
    /\ seen' = [seen EXCEPT !.did = NothingDone]
    /\ UNCHANGED <<br, ask, brKit>>

BrNext == \/ PickerKeyEvent \/ PickerPressEvent \/ PickerMoveEvent \/ PickerReleaseEvent
          \/ PickerWheelEvent \/ PickerDraw
          \/ FilesKeyEvent \/ FilesPressEvent \/ FilesMoveEvent \/ FilesReleaseEvent
          \/ FilesWheelEvent \/ FilesAnswer \/ Elsewhere
BrSpec == BrInit /\ [][BrNext]_brVars

-----------------------------------------------------------------------------
(* What the picker answers is what it shows: its path names the directory  *)
(* reached row by row; an accepted path names the file in it that the      *)
(* field shows; the field shows the file last clicked or walked to until   *)
(* the user changes either; and once drawn, the highlighted row is in      *)
(* sight and the scroll bar within the list.                               *)
PickedIsShown ==
    brKit.who = "picker" =>
        /\ Components(br.cwd) = seen.dir
        /\ br.end = "accept" => /\ br.input.text # <<>>
                                /\ Components(br.result) = Append(seen.dir, br.input.text)
        /\ seen.agrees => br.input.text = Chosen(br).name
        /\ br.drawn => /\ br.scroll \in 0..MaxScroll(Len(br.rows))
                       /\ InRows(br) => br.sel \in br.scroll..(br.scroll + Visible - 1)
        /\ br.input.cursor \in 0..Len(br.input.text)

(* The Files window acts on what it showed: its path names the directory   *)
(* reached; the rows of one that opened are that directory's, directories  *)
(* first and each group in order; a confirmed dialog changes nothing but   *)
(* the item it was opened for, or the name typed; a path handed to the     *)
(* launcher is a row's.                                                    *)
FilesActsOnShown ==
    brKit.who = "files" =>
        LET first == IF br.cwd # <<"/">> THEN 1 ELSE 0
            did == seen.did IN
        /\ Components(br.cwd) = seen.dir
        /\ br.scroll \in 0..BrMax
        /\ \A i \in (first + 1)..br.count : \A j \in (i + 1)..br.count : ~Swaps(br.rows[i], br.rows[j])
        /\ did.kind # "none" =>
               LET gone == {c \in DOMAIN did.before : c \notin DOMAIN tree}
                   new == {c \in DOMAIN tree : c \notin DOMAIN did.before} IN
               CASE did.kind = "delete" -> new = {} /\ gone \subseteq {did.item}
                 [] did.kind = "new" -> gone = {} /\ new \subseteq {did.to}
                 [] did.kind = "rename" -> /\ \A c \in gone : IsPrefix(did.item, c)
                                           /\ \A c \in new : IsPrefix(did.to, c)

(* Taking hold of the thumb does not scroll: the place of the thumb leads  *)
(* back to the offset it was computed from, where the bar has two pixels   *)
(* or more for each step.                                                  *)
ThumbHolds ==
    LET n == IF brKit.who = "picker" THEN Len(br.rows) ELSE br.count
        thumb == ScrollThumb(n, br.scroll) IN
    (br.scroll \in 0..MaxScroll(n) /\ BrHeight - thumb.h >= 2 * MaxScroll(n)) =>
        ScrollOffset(n, thumb.y, 0) = br.scroll
====
