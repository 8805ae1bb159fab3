-------------------------------- MODULE Gui --------------------------------
(***************************************************************************)
(* The desktop of src/src/user/gui: the window manager, the framework that *)
(* opens, closes and talks to applications, the one modal dialog, the      *)
(* Start menu and the taskbar, the damage list, the occlusion-clipped      *)
(* composition into the back buffer, and the presentation of it together   *)
(* with the software pointer and the outline of a window being dragged.    *)
(*                                                                         *)
(* The screen is a grid of GuiW x GuiH cells.  A cell of a picture says    *)
(* what is painted there: <<kind, window, column, row, version>>, column   *)
(* and row relative to the window, so that a picture left behind by a      *)
(* window that has moved, shrunk, closed or drawn anew is told apart from  *)
(* the one it should show.  Colours of focus and of hovering are left out. *)
(* What an application answers to an event is chosen among the answers of  *)
(* the built-in applications.  Time is a choice: whether a paced frame is  *)
(* due, whether two clicks are close enough to be a double click, whether  *)
(* the clock of the taskbar or the counters of the compositor tick.        *)
(***************************************************************************)
EXTENDS Integers, Sequences, SequencesExt, FiniteSetsExt

CONSTANTS GuiW, GuiH,        \* the display, in cells
          GuiBar, GuiTitle,  \* TASKBAR_H and TITLE_H
          GuiFp,             \* GUI_FP_ONE, subpixels per cell
          GuiAbs,            \* the range of an absolute pointing device
          GuiWins,           \* 1..GUI_WINDOW_CAPACITY
          GuiCap,            \* GUI_DAMAGE_CAPACITY
          GuiVis,            \* GUI_VISIBLE_REGION_CAPACITY
          GuiPointer,        \* GUI_CURSOR_WIDTH and _HEIGHT
          GuiReach,          \* CURSOR_MOVE_MAX_W and _H
          GuiSize, GuiMin,   \* default and minimum window size, <<w, h>>
          GuiDesks           \* what a history starts from: the windows open, and
                             \* the keys, the places of the pointer (in device
                             \* units), the number of input events in it and
                             \* what happens besides input

VARIABLES g, guiDesk, guiLeft

guiVars == <<g, guiDesk, guiLeft>>

----------------------------------------------------------------------------
(* Rectangles, region.c.                                                   *)

RectMake(x, y, w, h) == [x |-> x, y |-> y, w |-> w, h |-> h]

NoRect == RectMake(0, 0, 0, 0)

Cells == (0 .. GuiW - 1) \X (0 .. GuiH - 1)

Inside(p, r) == /\ p[1] >= r.x /\ p[1] < r.x + r.w
                /\ p[2] >= r.y /\ p[2] < r.y + r.h

RectEmpty(r) == r.w <= 0 \/ r.h <= 0

\* Closer than `gap` cells apart (gap 0: they share a cell).
RectNear(a, b, gap) ==
    /\ ~RectEmpty(a) /\ ~RectEmpty(b)
    /\ a.x < b.x + b.w + gap /\ b.x < a.x + a.w + gap
    /\ a.y < b.y + b.h + gap /\ b.y < a.y + a.h + gap

RectIntersects(a, b) == RectNear(a, b, 0)
RectTouches(a, b) == RectNear(a, b, 2)

Least(a, b) == IF a < b THEN a ELSE b
Most(a, b) == IF a > b THEN a ELSE b
Clamp(v, lo, hi) == IF v < lo THEN lo ELSE IF v > hi THEN hi ELSE v

RectBetween(x0, y0, x1, y1) == RectMake(x0, y0, x1 - x0, y1 - y0)

RectUnion(a, b) ==
    RectBetween(Least(a.x, b.x), Least(a.y, b.y),
                Most(a.x + a.w, b.x + b.w), Most(a.y + a.h, b.y + b.h))

RectArea(r) == IF RectEmpty(r) THEN 0 ELSE r.w * r.h

RectShouldMerge(a, b) ==
    /\ RectTouches(a, b)
    /\ RectArea(RectUnion(a, b)) <= 2 * (RectArea(a) + RectArea(b))

RectClip(r) ==
    RectBetween(Most(r.x, 0), Most(r.y, 0),
                Least(r.x + r.w, GuiW), Least(r.y + r.h, GuiH))

\* What is left of `r` when `cut` is taken out: above, below, left, right.
RectExclude(r, cut) ==
    LET ox == Most(r.x, cut.x)
        oy == Most(r.y, cut.y)
        ex == Least(r.x + r.w, cut.x + cut.w)
        ey == Least(r.y + r.h, cut.y + cut.h)
    IN  IF RectEmpty(r) THEN <<>>
        ELSE IF ~RectIntersects(r, cut) THEN <<r>>
        ELSE SelectSeq(<<RectMake(r.x, r.y, r.w, oy - r.y),
                         RectMake(r.x, ey, r.w, r.y + r.h - ey),
                         RectMake(r.x, oy, ox - r.x, ey - oy),
                         RectMake(ex, oy, r.x + r.w - ex, ey - oy)>>,
                       LAMBDA q : ~RectEmpty(q))

----------------------------------------------------------------------------
(* Damage, damage.c and the front of compositor.c.                         *)

Screen == RectMake(0, 0, GuiW, GuiH)
BarRect == RectMake(0, GuiH - GuiBar, GuiW, GuiBar)

InvalidateFull(s) ==
    [s EXCEPT !.full = TRUE, !.damage = <<Screen>>]

\* gui_damage_add on a list: clip, merge with the first close neighbour,
\* append, or give up and damage everything.
DamageAdd(s, r, near) ==
    IF s.full \/ RectEmpty(r) THEN s
    ELSE IF near # {}
    THEN [s EXCEPT !.damage =
            [@ EXCEPT ![Min(near)] = RectClip(RectUnion(@, r))]]
    ELSE IF Len(s.damage) >= GuiCap THEN InvalidateFull(s)
    ELSE [s EXCEPT !.damage = Append(@, r)]
InvalidateClipped(s, r) ==
    DamageAdd(s, r, {i \in DOMAIN s.damage : RectShouldMerge(s.damage[i], r)})
InvalidateRect(s, rect) == InvalidateClipped(s, RectClip(rect))

ClearDamage(s) == [s EXCEPT !.full = FALSE, !.damage = <<>>]

Damaged(s, p) == \E i \in DOMAIN s.damage : Inside(p, s.damage[i])

InvalidateTopbar(s) == InvalidateRect(s, BarRect)

\* gui_visible_regions: <<>> is also the answer for a source hidden
\* altogether; "many" says that the bounded list overflowed.
VisibleRegions(source, opaque) ==
    LET Bounded(many, next) ==
          IF many \/ Len(next) > GuiVis
          THEN [many |-> TRUE, rects |-> <<source>>]
          ELSE [many |-> FALSE, rects |-> next]
        Cut(acc, cut) ==
          Bounded(acc.many, FlattenSeq([i \in DOMAIN acc.rects |->
                                          RectExclude(acc.rects[i], cut)]))
    IN  FoldLeft(Cut, [many |-> FALSE, rects |-> <<source>>], opaque).rects

----------------------------------------------------------------------------
(* Windows, window.c and window_manager.c.                                 *)

Vacant == [on |-> FALSE, min |-> FALSE, max |-> FALSE, r |-> NoRect,
           back |-> NoRect, ver |-> 0, cap |-> FALSE]

StackRemove(stack, i) == SelectSeq(stack, LAMBDA j : j # i)

WmRaise(s, i) ==
    IF s.win[i].on
    THEN [s EXCEPT !.stack = Append(StackRemove(@, i), i)]
    ELSE s

WmRemove(s, i) ==
    [s EXCEPT !.stack = StackRemove(@, i), !.win[i].on = FALSE,
              !.focus = IF @ = i THEN 0 ELSE @]

Up(s, i) == s.win[i].on /\ ~s.win[i].min

\* The highest place of the stack whose window satisfies Ok, its window.
Highest(s, Ok(_)) ==
    LET at == {k \in DOMAIN s.stack : Ok(s.stack[k])}
    IN  IF at = {} THEN 0 ELSE s.stack[Max(at)]

WmTop(s) == Highest(s, LAMBDA i : Up(s, i))
WmHit(s, p) == Highest(s, LAMBDA i : Up(s, i) /\ Inside(p, s.win[i].r))

\* window_screen_rect: with the drop shadow.
WindowScreenRect(s, i) ==
    IF Up(s, i)
    THEN LET r == s.win[i].r IN RectMake(r.x, r.y, r.w + 1, r.h + 1)
    ELSE NoRect

InvalidateWindow(s, i) == InvalidateRect(s, WindowScreenRect(s, i))

\* gui_window_invalidate_local for the whole client area.
InvalidateClient(s, i) ==
    LET r == s.win[i].r
    IN  IF Up(s, i)
        THEN InvalidateRect(s, RectMake(r.x, r.y + GuiTitle, r.w, r.h - GuiTitle))
        ELSE s

Redrawn(s, i) == [s EXCEPT !.win[i].ver = 1 - @]

----------------------------------------------------------------------------
(* The modal dialog, modal_manager.c.  A picker answers with one of its    *)
(* results; a dialog has two buttons, the first the default one and the    *)
(* second the cancelling one, and may have a text field (focus 0).         *)

ModalRect == RectMake(2, 1, GuiW - 4, 2)
ModalButton(b) == <<2 + b, 2>>

ModalClosed == [kind |-> "none", owner |-> 0, focus |-> 0, pressed |-> 0,
                text |-> FALSE]

ModalOpen(s, kind, owner, text) ==
    IF s.modal.kind # "none" THEN s
    ELSE InvalidateFull([s EXCEPT !.modal =
           [kind |-> kind, owner |-> owner, pressed |-> 0, text |-> text,
            focus |-> IF text THEN 0 ELSE 1]])

ModalDismissOwner(s, owner) ==
    IF s.modal.kind # "none" /\ s.modal.owner = owner
    THEN InvalidateFull([s EXCEPT !.modal = ModalClosed])
    ELSE s

----------------------------------------------------------------------------
(* Applications, framework_runtime.c.  An answer is a set of the result    *)
(* flags "handled", "redraw", "close" and "keep open" and of the services  *)
(* the callback asked for before it returned: "local" (invalidate its      *)
(* client area), "capture", "release", "dialog", "text dialog", "picker",  *)
(* "open" (another application), "launch" (a full-screen program).         *)

Nothing == {}
OnKey == {Nothing, {"handled", "redraw"}, {"handled", "close"},
          {"handled", "redraw", "dialog"}, {"handled", "redraw", "text dialog"},
          {"handled", "picker"}, {"handled", "redraw", "open"},
          {"handled", "redraw", "launch"}}
OnPress == {Nothing, {"handled", "redraw", "capture"}}
OnRelease == {Nothing, {"handled", "redraw", "release"}}
OnMove == {Nothing, {"handled", "redraw"}}
OnTick == {Nothing, {"handled", "local"}, {"handled", "redraw"}}
OnReady == {Nothing, {"redraw"}}
OnResult == {{"handled"}, {"handled", "redraw"}, {"handled", "close"}}

\* build_window and gui_open_app: in the middle of the desktop, on top.
OpenIn(s, i) ==
    LET w == Most(GuiSize[1], GuiMin[1])
        h == Most(GuiSize[2], GuiMin[2])
        r == RectMake(Clamp((GuiW - w) \div 2, 0, GuiW - 2),
                      Clamp((GuiH - GuiBar - h) \div 2, 1,
                            GuiH - GuiBar - GuiTitle), w, h)
    IN  InvalidateWindow(WmRaise([s EXCEPT !.win[i] =
                                    [Vacant EXCEPT !.on = TRUE, !.r = r, !.back = r]],
                                 i), i)
OpenApp(s) ==
    LET free == {i \in GuiWins : ~s.win[i].on}
    IN  InvalidateTopbar(IF free = {} THEN s ELSE OpenIn(s, Min(free)))

\* What the callback of window i does before it returns.
Dispatch(s, i, answer) ==
    LET Serve(t, ask) ==
          CASE ask = "local" -> Redrawn(InvalidateClient(t, i), i)
            [] ask = "redraw" -> Redrawn(t, i)
            [] ask = "capture" -> [t EXCEPT !.win[i].cap = TRUE]
            [] ask = "release" -> [t EXCEPT !.win[i].cap = FALSE]
            [] ask = "dialog" -> ModalOpen(t, "dialog", i, FALSE)
            [] ask = "text dialog" -> ModalOpen(t, "dialog", i, TRUE)
            [] ask = "picker" -> ModalOpen(t, "picker", i, FALSE)
            [] ask = "open" -> OpenApp(t)
            [] ask = "launch" -> [t EXCEPT !.launch = TRUE]
            [] OTHER -> t
    IN  IF s.win[i].on THEN FoldSet(LAMBDA ask, t : Serve(t, ask), s, answer)
        ELSE s

\* gui_framework_close_window.  `lost` remembers that the window being
\* dragged went while its outline was on the screen.
CloseWindow(s, i) ==
    LET t == WmRemove(ModalDismissOwner(s, i), i)
    IN  [t EXCEPT !.lost = @ \/ (s.drag.mode = "move" /\ s.drag.win = i
                                 /\ s.drag.seen)]


\* gui_framework_request_close: an application may keep its window open,
\* and then asks first (the unsaved document of the editor).
RequestClose(s, i, keeps) ==
    IF ~s.win[i].on THEN s
    ELSE IF keeps
    THEN InvalidateWindow(Dispatch(s, i, {"redraw", "dialog"}), i)
    ELSE InvalidateTopbar(CloseWindow(InvalidateWindow(s, i), i))

ApplyClose(s, i, answer, keeps) ==
    IF "close" \in answer /\ s.win[i].on THEN RequestClose(s, i, keeps) ELSE s
ApplyResult(s, i, answer, keeps) ==
    ApplyClose(IF "redraw" \in answer /\ s.win[i].on
               THEN InvalidateWindow(s, i) ELSE s, i, answer, keeps)

Tell(s, i, answer, keeps) == ApplyResult(Dispatch(s, i, answer), i, answer, keeps)

\* gui_framework_sync_focus: no built-in application answers the two events.
SyncFocus(s) == [s EXCEPT !.focus = WmTop(s)]

\* action_quit: every window is asked, from the last slot down.
ActionQuit(s, keeps) ==
    LET asked == FoldLeft(LAMBDA t, i : RequestClose(t, i, i \in keeps), s,
                          Reverse(SetToSortSeq(GuiWins, <)))
    IN  [asked EXCEPT !.quit = \A i \in GuiWins : s.win[i].on => i \notin keeps]

----------------------------------------------------------------------------
(* What the modal does with an event.                                      *)

\* dispatch_completion: the dialog is down before the owner hears of it.
Finish(s, answer, keeps) ==
    LET owner == s.modal.owner
        down == [s EXCEPT !.modal = ModalClosed]
    IN  InvalidateFull(IF down.win[owner].on
                       THEN Tell(down, owner, answer, keeps) ELSE down)

ModalKey(s, key, answer, keeps) ==
    CASE key \in {"enter", "esc"} -> Finish(s, answer, keeps)
      [] key = "tab" /\ s.modal.kind # "picker" ->
           InvalidateFull([s EXCEPT !.modal.focus =
             IF @ = 2 THEN (IF s.modal.text THEN 0 ELSE 1) ELSE @ + 1])
      [] OTHER -> InvalidateFull(s)

ModalPointer(s, p, press, release, answer, keeps) ==
    LET m == s.modal
        hit == {b \in 1 .. 2 : p = ModalButton(b)}
    IN  IF m.kind = "picker"
        THEN IF release /\ p = ModalButton(1) THEN Finish(s, answer, keeps)
             ELSE IF press THEN InvalidateFull(s) ELSE s
        ELSE IF press
        THEN InvalidateFull(IF hit = {} THEN s
               ELSE [s EXCEPT !.modal.focus = Max(hit),
                              !.modal.pressed = Max(hit)])
        ELSE IF release
        THEN IF m.pressed \in hit THEN Finish(s, answer, keeps)
             ELSE InvalidateFull([s EXCEPT !.modal.pressed = 0])
        ELSE s

----------------------------------------------------------------------------
(* Moving windows about, runtime.c.  A resize is told to the application,  *)
(* whose answer is not looked at: everything is damaged anyway.            *)

Resized(s, i) == Redrawn(s, i)

DeskRect == RectMake(0, 0, GuiW, GuiH - GuiBar)

ToggleMaximize(s, i) ==
    LET w == s.win[i]
        new == IF w.max
               THEN [w EXCEPT !.r = w.back, !.max = FALSE, !.min = FALSE]
               ELSE [w EXCEPT !.back = w.r, !.r = DeskRect, !.max = TRUE,
                              !.min = FALSE]
    IN  IF ~w.on THEN s
        ELSE InvalidateFull(Resized(WmRaise([s EXCEPT !.win[i] = new], i), i))

WindowSnap(s, i, left) ==
    LET w == s.win[i]
        half == GuiW \div 2
        r == RectMake(IF left THEN 0 ELSE half, 0,
                      IF left THEN half ELSE GuiW - half, GuiH - GuiBar)
    IN  IF ~w.on THEN s
        ELSE InvalidateFull(Resized([s EXCEPT !.win[i] =
               [w EXCEPT !.back = IF w.max THEN @ ELSE w.r,
                         !.max = FALSE, !.r = r]], i))

WindowMinimize(s, i) ==
    IF Up(s, i) THEN InvalidateFull([s EXCEPT !.win[i].min = TRUE]) ELSE s

RestoreFocus(s, i) ==
    IF s.win[i].on
    THEN InvalidateFull(WmRaise([s EXCEPT !.win[i].min = FALSE], i))
    ELSE s

\* cycle_windows: the window after the top one, bottom of the stack first.
CycleWindows(s) ==
    LET n == Len(s.stack)
        top == WmTop(s)
        at == IF top = 0 THEN 0 ELSE Min({k \in 1 .. n : s.stack[k] = top})
    IN  IF n = 0 THEN s ELSE RestoreFocus(s, s.stack[(at % n) + 1])

----------------------------------------------------------------------------
(* The Start menu and the taskbar, desktop_shell.c.  The menu has two      *)
(* rows, an application and Quit; a task button is one cell wide, the      *)
(* first to the right of the Start button.                                 *)

StartRect == RectMake(0, GuiH - GuiBar - 2, 2, 2)
StartButton == <<0, GuiH - 1>>
TaskButton(s, i) ==
    <<1 + Cardinality({j \in GuiWins : j < i /\ s.win[j].on}), GuiH - 1>>

ToggleStart(s) ==
    InvalidateFull([s EXCEPT !.start = ~@, !.sel = 0])

ActivateEntry(s, row, keeps) == IF row = 1 THEN ActionQuit(s, keeps) ELSE OpenApp(s)

ShellKey(s, key, keeps) ==
    CASE key = "esc" -> InvalidateFull([s EXCEPT !.start = FALSE])
      [] key = "tab" -> InvalidateFull([s EXCEPT !.sel = 1 - @])
      [] key = "enter" ->
           ActivateEntry(InvalidateFull([s EXCEPT !.start = FALSE]), s.sel, keeps)
      [] OTHER -> InvalidateFull(s)

\* gui_desktop_shell_click takes the click when it falls on the menu, on the
\* Start button, on the taskbar, or anywhere while the menu is open.
ShellTakes(s, p) == s.start \/ p[2] >= GuiH - GuiBar

ShellClick(s, p, keeps) ==
    LET at == {i \in GuiWins : s.win[i].on /\ p = TaskButton(s, i)}
        i == Min(at)
        down == [s EXCEPT !.start = FALSE]
    IN  IF s.start /\ Inside(p, StartRect)
        THEN ActivateEntry(InvalidateFull([down EXCEPT !.sel = p[2] - StartRect.y]),
                           p[2] - StartRect.y, keeps)
        ELSE IF p = StartButton THEN ToggleStart(s)
        ELSE IF p[2] >= GuiH - GuiBar
        THEN IF at = {} THEN down
             ELSE IF i = WmTop(s) THEN WindowMinimize(down, i)
             ELSE RestoreFocus(down, i)
        ELSE InvalidateFull(down)

----------------------------------------------------------------------------
(* The pointer: positions in subpixels, rounded to cells.                  *)

AbsToScreen(value, max) == (value * max * GuiFp + GuiAbs \div 2) \div GuiAbs
FpToInt(v) == (v + GuiFp \div 2) \div GuiFp
FpClamp(v, lo, hi) == Clamp(v, lo * GuiFp, hi * GuiFp)
GuiAt(m) == <<FpToInt(m.x), FpToInt(m.y)>>

NoDrag == [mode |-> "none", win |-> 0, dx |-> 0, dy |-> 0, px |-> 0, py |-> 0,
           seen |-> FALSE, ox |-> 0, oy |-> 0, w |-> 0, h |-> 0]

\* Both the window clicked and the one it takes the top from are damaged.
RaiseOver(s, top, i) ==
    WmRaise(InvalidateWindow(IF top \notin {0, i} THEN InvalidateWindow(s, top) ELSE s,
                             i), i)
RaiseClicked(s, i) == RaiseOver(s, WmTop(s), i)

\* A maximised window dragged by its title takes its old size again.
Unmaximized(s, i) ==
    IF s.win[i].max
    THEN Resized([s EXCEPT !.win[i].r = s.win[i].back, !.win[i].max = FALSE], i)
    ELSE s

StartMove(s, i) ==
    LET r == s.win[i].r
    IN  [s EXCEPT !.click = i, !.frame = TRUE,
                  !.drag = [mode |-> "move", win |-> i,
                            dx |-> s.mouse.x - r.x * GuiFp,
                            dy |-> s.mouse.y - r.y * GuiFp,
                            px |-> r.x, py |-> r.y, seen |-> FALSE,
                            ox |-> r.x, oy |-> r.y, w |-> 0, h |-> 0]]

\* handle_click, the shell having passed; the buttons sit at the right end
\* of the title, the grip in the bottom right corner.
ClickWindow(s, i, p, answer, keeps, double) ==
    LET w == s.win[i]
        cx == w.r.x + w.r.w - 1
        title == p[2] < w.r.y + GuiTitle
    IN  CASE title /\ p[1] = cx -> RequestClose(s, i, i \in keeps)
          [] title /\ p[1] = cx - 1 -> ToggleMaximize(s, i)
          [] title /\ p[1] = cx - 2 -> WindowMinimize(s, i)
          [] ~w.max /\ p = <<cx, w.r.y + w.r.h - 1>> ->
               [RaiseClicked(s, i) EXCEPT
                  !.drag = [NoDrag EXCEPT !.mode = "resize", !.win = i,
                            !.dx = p[1], !.dy = p[2], !.w = w.r.w, !.h = w.r.h]]
          [] title /\ p[1] < cx - 2 /\ s.click = i /\ double ->
               ToggleMaximize([s EXCEPT !.click = 0], i)
          [] title /\ p[1] < cx - 2 /\ ~(s.click = i /\ double) ->
               StartMove(Unmaximized(RaiseClicked(s, i), i), i)
          [] OTHER -> Tell(RaiseClicked(s, i), i, answer, i \in keeps)

\* The desktop icons: two cells at the right edge.
IconAt(p) == p[1] = GuiW - 1 /\ p[2] \in {0, 1}

HandleClick(s, p, answer, keeps, double) ==
    LET i == WmHit(s, p)
    IN  IF ShellTakes(s, p) THEN ShellClick(s, p, keeps)
        ELSE IF i # 0 THEN ClickWindow(s, i, p, answer, keeps, double)
        ELSE IF IconAt(p) THEN OpenApp(s)
        ELSE s

\* handle_wheel raises the window under the pointer and damages nothing but
\* what the application asks for.
HandleWheel(s, p, answer, keeps) ==
    LET i == WmHit(s, p)
    IN  IF i = 0 THEN s ELSE Tell(WmRaise(s, i), i, answer, i \in keeps)

----------------------------------------------------------------------------
(* Composition into the back buffer.                                       *)

Cell(kind) == <<kind, 0, 0, 0, 0>>

\* What draw_window paints at p: the body, the drop shadow one cell to the
\* right and below, or nothing.
WinCell(s, i, p) ==
    LET r == s.win[i].r
        dx == p[1] - r.x
        dy == p[2] - r.y
    IN  IF Inside(p, r)
        THEN <<"win", i, dx, dy, IF dy < GuiTitle THEN 0 ELSE s.win[i].ver>>
        ELSE IF \/ Inside(p, RectMake(r.x + 1, r.y + r.h, r.w, 1))
                \/ Inside(p, RectMake(r.x + r.w, r.y + 1, 1, r.h))
        THEN <<"shade", i, dx, dy, 0>>
        ELSE Cell("clear")

\* The opaque rectangles above the k-th window of the stack (k = 0: above
\* the wallpaper); shadows are not opaque.
Opaque(s, k) ==
    LET over == SelectSeq([j \in 1 .. Len(s.stack) - k |->
                             s.stack[Len(s.stack) + 1 - j]],
                          LAMBDA i : Up(s, i))
    IN  (IF s.modal.kind # "none" THEN <<ModalRect>> ELSE <<>>)
        \o (IF s.start THEN <<StartRect>> ELSE <<>>)
        \o <<BarRect>>
        \o [j \in 1 .. Len(over) |-> s.win[over[j]].r]

\* compose_rect: the layers from the wallpaper up, each clipped to the
\* regions it is visible in; menu, modal and taskbar are on top.
Clipped(vis, p) == \E j \in DOMAIN vis : Inside(p, vis[j])

PaintLayer(s, pic, k, vis) ==
    IF k = 0
    THEN [p \in Cells |-> IF Clipped(vis, p) THEN Cell("desk") ELSE pic[p]]
    ELSE IF ~Up(s, s.stack[k]) THEN pic
    ELSE [p \in Cells |->
            IF WinCell(s, s.stack[k], p) # Cell("clear") /\ Clipped(vis, p)
            THEN WinCell(s, s.stack[k], p) ELSE pic[p]]

PaintTop(s, scene, r) ==
    [p \in Cells |->
       IF ~Inside(p, r) THEN scene[p]
       ELSE IF Inside(p, BarRect) THEN Cell("bar")
       ELSE IF s.modal.kind # "none" /\ Inside(p, ModalRect) THEN Cell("modal")
       ELSE IF s.start /\ Inside(p, StartRect) THEN Cell("menu")
       ELSE scene[p]]

ComposeRect(s, back, r) ==
    PaintTop(s, FoldLeft(LAMBDA pic, k :
                           PaintLayer(s, pic, k, VisibleRegions(r, Opaque(s, k))),
                         back, [k \in 1 .. Len(s.stack) + 1 |-> k - 1]), r)

ComposeRects(s, rects) ==
    FoldLeft(LAMBDA back, r : ComposeRect(s, back, r), s.back, rects)

----------------------------------------------------------------------------
(* Presentation.                                                           *)

CursorRect(c) == RectMake(c[1], c[2], GuiPointer, GuiPointer)

\* Copy the cells of r to the display, each with what Overlay says of it.
ShowRect(s, r, Overlay(_)) ==
    [s EXCEPT !.screen = [p \in Cells |-> IF Inside(p, r) THEN Overlay(p)
                                          ELSE s.screen[p]]]

DragRect(s, x, y) ==
    IF s.drag.mode = "move" /\ s.win[s.drag.win].on
    THEN RectMake(x, y, s.win[s.drag.win].r.w, s.win[s.drag.win].r.h)
    ELSE NoRect

OverlayRect(s) == IF s.drag.seen THEN DragRect(s, s.drag.ox, s.drag.oy) ELSE NoRect
PreviewRect(s) == DragRect(s, s.drag.px, s.drag.py)

\* draw_drag_outline: two nested frames.
OnOutline(p, r) ==
    /\ Inside(p, r)
    /\ LET rim == IF r.w > 2 /\ r.h > 2 THEN 1 ELSE 0
       IN  ~Inside(p, RectMake(r.x + 1 + rim, r.y + 1 + rim,
                               r.w - 2 - 2 * rim, r.h - 2 - 2 * rim))

Outlined(s, r, p) == IF OnOutline(p, r) THEN Cell("outline") ELSE s.back[p]

\* present_cursor_rect and its variant with the outline of the drag.
PresentCursorRect(s, c, over, draw) ==
    ShowRect(s, CursorRect(c),
             LAMBDA p : IF draw THEN Cell("cursor") ELSE Outlined(s, over, p))

\* present_cursor_move: one copy of the union of both places when it is
\* small, two copies when it is not.
PresentCursorMoveOver(s, old, new, over) ==
    LET u == RectClip(RectUnion(CursorRect(old), CursorRect(new)))
    IN  IF old = new THEN s
        ELSE IF u.w <= GuiReach /\ u.h <= GuiReach
        THEN ShowRect(s, u, LAMBDA p : IF Inside(p, CursorRect(new)) THEN Cell("cursor")
                                       ELSE Outlined(s, over, p))
        ELSE PresentCursorRect(PresentCursorRect(s, old, over, FALSE),
                               new, over, TRUE)

PresentCursorMove(s, old, new) == PresentCursorMoveOver(s, old, new, NoRect)

Strips(r) == <<RectMake(r.x - 1, r.y - 1, r.w + 2, 3),
               RectMake(r.x - 1, r.y + r.h - 2, r.w + 2, 3),
               RectMake(r.x - 1, r.y, 3, r.h),
               RectMake(r.x + r.w - 2, r.y, 3, r.h)>>

PresentPreviewRect(s, r, outline, draw) ==
    ShowRect(s, RectClip(r), LAMBDA p : IF draw THEN Outlined(s, outline, p)
                                        ELSE s.back[p])

PresentPreview(s, r, draw) ==
    FoldLeft(LAMBDA t, strip : PresentPreviewRect(t, strip, r, draw), s, Strips(r))

\* drag_preview_dirty_add: at most eight strips are ever added to eight places.
PreviewDirtyAdd(rects, rect) ==
    LET r == RectClip(rect)
        near == {i \in DOMAIN rects : RectShouldMerge(rects[i], r)}
    IN  IF RectEmpty(r) THEN rects
        ELSE IF near = {} THEN Append(rects, r)
        ELSE [rects EXCEPT ![Min(near)] = RectClip(RectUnion(@, r))]

PresentPreviewMove(s, old, new) ==
    LET dirty == FoldLeft(PreviewDirtyAdd, <<>>, Strips(old) \o Strips(new))
    IN  FoldLeft(LAMBDA t, r : PresentPreviewRect(t, r, new, TRUE), s, dirty)

\* present_gui_frame and present_drag_frame.
PresentDragFrame(s, new) ==
    PresentCursorRect([(IF s.drag.seen THEN PresentPreviewMove(s, OverlayRect(s), new)
                        ELSE PresentPreview(s, new, TRUE))
                         EXCEPT !.drag.seen = TRUE, !.drag.ox = s.drag.px,
                                !.drag.oy = s.drag.py, !.frame = FALSE],
                      GuiAt(s.mouse), new, TRUE)

PresentGuiFrame(s) ==
    IF /\ s.drag.mode = "move" /\ s.win[s.drag.win].on
       /\ \/ ~s.drag.seen
          \/ <<s.drag.ox, s.drag.oy>> # <<s.drag.px, s.drag.py>>
    THEN PresentDragFrame(s, PreviewRect(s))
    ELSE [s EXCEPT !.frame = FALSE]

\* The outline is taken off the display: before a scene is presented, and
\* when the button is let go.
EraseOverlay(s) ==
    IF s.drag.seen
    THEN [PresentPreview(s, OverlayRect(s), FALSE)
            EXCEPT !.drag.seen = FALSE, !.moved = TRUE]
    ELSE s

\* present_dirty_scene: compose each rectangle, copy it around the pointer,
\* then draw the pointer again if it was touched.
ShowScene(s, c, back, pieces) ==
    LET touched == \E i \in DOMAIN s.damage : RectIntersects(s.damage[i], CursorRect(c))
    IN  [s EXCEPT !.back = back,
                  !.screen = [p \in Cells |->
                    IF \E j \in DOMAIN pieces : Inside(p, pieces[j]) THEN back[p]
                    ELSE IF touched /\ Inside(p, CursorRect(c)) THEN Cell("cursor")
                    ELSE s.screen[p]]]

PresentDirtyScene(s, c) ==
    ClearDamage(ShowScene(s, c, ComposeRects(s, s.damage),
                          FlattenSeq([i \in DOMAIN s.damage |->
                                        RectExclude(s.damage[i], CursorRect(c))])))

----------------------------------------------------------------------------
(* The loop of gui_runtime_run.  Any number of events may be handled       *)
(* before a frame is presented, as a batch read from the input queue is.   *)

GuiInit ==
    \E d \in GuiDesks :
      LET desk == d.wins
          opened == [g0 |-> [win |-> [i \in GuiWins |->
                                 IF i \in DOMAIN desk
                                 THEN [Vacant EXCEPT !.on = TRUE, !.r = desk[i],
                                                     !.back = desk[i]]
                                 ELSE Vacant],
                             stack |-> [i \in DOMAIN desk |-> i],
                             focus |-> Len(desk), full |-> TRUE,
                             damage |-> <<Screen>>, start |-> FALSE, sel |-> 0,
                             modal |-> ModalClosed,
                             mouse |-> [x |-> (GuiW \div 2) * GuiFp,
                                        y |-> (GuiH \div 2) * GuiFp,
                                        left |-> FALSE],
                             drag |-> NoDrag, click |-> 0, frame |-> FALSE,
                             dirty |-> FALSE, moved |-> FALSE,
                             at |-> <<GuiW \div 2, GuiH \div 2>>,
                             back |-> [p \in Cells |-> Cell("desk")],
                             screen |-> [p \in Cells |-> Cell("cursor")],
                             launch |-> FALSE, quit |-> FALSE,
                             lost |-> FALSE, fresh |-> TRUE]].g0
      IN  g = PresentDirtyScene(opened, opened.at) /\ guiDesk = d /\ guiLeft = d.events

\* dirty = 1 where the loop sets it only if some damage was recorded.
DirtyIfDamaged(s) == [s EXCEPT !.dirty = @ \/ s.damage # <<>>]

\* A key goes to the modal, to the desktop's own shortcuts, to the Start
\* menu, to the top application, and last to the shortcuts left over.
KeyLeft(told, key, top, keeps) ==
    CASE key = "esc" -> ActionQuit(told, keeps)
      [] key = "x" /\ top # 0 -> RequestClose(told, top, top \in keeps)
      [] key = "f" -> OpenApp(told)
      [] OTHER -> told

KeyTold(s, key, answer, top, keeps) ==
    IF top = 0 THEN KeyLeft(s, key, top, keeps)
    ELSE IF "handled" \in answer THEN Tell(s, top, answer, top \in keeps)
    ELSE KeyLeft(Tell(s, top, answer, top \in keeps), key, top, keeps)

KeyEvent(s, key, answer, keeps) ==
    LET top == WmTop(s)
        Dirty(t) == [t EXCEPT !.dirty = TRUE]
    IN  IF s.modal.kind # "none"
        THEN Dirty(ModalKey(s, key, answer, s.modal.owner \in keeps))
        ELSE CASE key = "alt+tab" -> Dirty(CycleWindows(s))
               [] key = "alt+f9" /\ top # 0 -> Dirty(WindowMinimize(s, top))
               [] key = "alt+f10" /\ top # 0 -> Dirty(ToggleMaximize(s, top))
               [] key = "ctrl+esc" -> Dirty(ToggleStart(s))
               [] OTHER ->
                    IF s.start THEN Dirty(ShellKey(s, key, keeps))
                    ELSE DirtyIfDamaged(KeyTold(s, key, answer, top, keeps))

\* The button is let go: the window goes where its outline was, is
\* maximised at the top edge or snapped to a side.
PutDown(s, i) ==
    [InvalidateWindow(EraseOverlay(s), i)
       EXCEPT !.win[i].r = [@ EXCEPT !.x = s.drag.px, !.y = s.drag.py]]

Placed(s, i, p) ==
    IF p[2] <= 0
    THEN ToggleMaximize([s EXCEPT !.win[i] =
                           [@ EXCEPT !.r = s.win[i].back, !.max = FALSE]], i)
    ELSE IF p[1] <= 0 THEN WindowSnap(s, i, TRUE)
    ELSE IF p[1] >= GuiW - 1 THEN WindowSnap(s, i, FALSE)
    ELSE s

EndDrag(s, p) ==
    LET i == s.drag.win
    IN  [(IF s.drag.mode = "move" /\ s.win[i].on
          THEN [InvalidateWindow(Placed(PutDown(s, i), i, p), i) EXCEPT !.dirty = TRUE]
          ELSE s)
           EXCEPT !.drag = NoDrag, !.frame = FALSE]

\* The window being moved or resized follows the pointer.
FollowDrag(s, p) ==
    LET i == s.drag.win
        w == s.win[i]
        nx == FpToInt(FpClamp(s.mouse.x - s.drag.dx, 0, GuiW - 2))
        ny == FpToInt(FpClamp(s.mouse.y - s.drag.dy, 0, GuiH - GuiBar - GuiTitle))
        nw == Clamp(s.drag.w + p[1] - s.drag.dx, GuiMin[1],
                    Most(GuiW - w.r.x, GuiMin[1]))
        nh == Clamp(s.drag.h + p[2] - s.drag.dy, GuiMin[2],
                    Most(GuiH - GuiBar - w.r.y, GuiMin[2]))
        grown == [InvalidateWindow(s, i) EXCEPT
                    !.win[i].r = RectMake(w.r.x, w.r.y, nw, nh)]
    IN  IF s.drag.mode = "none" \/ ~w.on THEN s
        ELSE IF s.drag.mode = "move"
        THEN IF <<nx, ny>> = <<s.drag.px, s.drag.py>> THEN s
             ELSE [s EXCEPT !.drag.px = nx, !.drag.py = ny, !.moved = TRUE,
                            !.frame = TRUE]
        ELSE IF <<nw, nh>> = <<w.r.w, w.r.h>> THEN s
        ELSE [InvalidateWindow(Resized(grown, i), i) EXCEPT !.dirty = TRUE]

\* A release or a move goes to the application that captured the pointer,
\* or else to the one under it.
PointerTarget(s, p) ==
    LET holders == {i \in GuiWins : s.win[i].on /\ s.win[i].cap}
    IN  IF holders # {} THEN Min(holders) ELSE WmHit(s, p)

\* A mouse event: the pointer moves, then the modal takes it, or wheel,
\* press or release, drag, and the application that captured the pointer or
\* lies under it.
MoveTo(s, fx, fy, left) ==
    LET to == [x |-> fx, y |-> fy, left |-> left]
    IN  [s EXCEPT !.mouse = to, !.moved = @ \/ GuiAt(to) # GuiAt(s.mouse)]

Buttons(s, p, press, release, answer, keeps, double) ==
    IF press THEN DirtyIfDamaged(HandleClick(s, p, answer, keeps, double))
    ELSE IF release THEN EndDrag(s, p) ELSE s

TellTarget(s, target, hears, answer, keeps) ==
    IF target # 0 /\ hears
    THEN DirtyIfDamaged(Tell(s, target, answer, target \in keeps)) ELSE s
Hears(s, p, change, release, answer, keeps) ==
    TellTarget(s, PointerTarget(s, p), release \/ (change /\ s.drag.mode = "none"),
               answer, keeps)

MouseAt(s, p, change, press, release, wheel, answer, keeps, double) ==
    IF s.modal.kind # "none"
    THEN [ModalPointer(s, p, press, release, answer, s.modal.owner \in keeps)
            EXCEPT !.dirty = TRUE]
    ELSE Hears(FollowDrag(Buttons(IF wheel
                                  THEN [HandleWheel(s, p, answer, keeps) EXCEPT !.dirty = TRUE]
                                  ELSE s,
                                  p, press, release, answer, keeps, double), p),
               p, change, release, answer, keeps)

MouseEvent(s, fx, fy, left, wheel, answer, keeps, double) ==
    LET p == <<FpToInt(fx), FpToInt(fy)>>
    IN  MouseAt(MoveTo(s, fx, fy, left), p, p # GuiAt(s.mouse),
                left /\ ~s.mouse.left, ~left /\ s.mouse.left,
                wheel, answer, keeps, double)

\* The rest of the turn: descriptors, focus, ticks, a queued launch, and the
\* presentation; then the clocks of the next turn.
PointerMoved(s, old, new) == IF s.moved THEN PresentCursorMove(s, old, new) ELSE s
Framed(s, moving) == IF moving THEN PresentGuiFrame([s EXCEPT !.frame = TRUE]) ELSE s
Paced(s, due) == IF s.frame /\ due THEN PresentGuiFrame(s) ELSE s

Present(s, due) ==
    LET p == GuiAt(s.mouse)
        moving == s.drag.mode = "move"
    IN  IF s.dirty
        THEN [Framed(PointerMoved([PresentDirtyScene(EraseOverlay(s), s.at)
                                     EXCEPT !.dirty = FALSE], s.at, p), moving)
                EXCEPT !.moved = FALSE, !.at = p]
        ELSE IF s.moved
        THEN [Paced([PresentCursorMoveOver(s, s.at, p,
                                           IF moving THEN OverlayRect(s) ELSE NoRect)
                       EXCEPT !.moved = FALSE], due)
                EXCEPT !.at = p]
        ELSE Paced(s, due)

ApplyReady(s, i, ready) ==
    IF Up(s, i)
    THEN [ApplyResult(s, i, ready, FALSE) EXCEPT !.dirty = @ \/ "redraw" \in ready]
    ELSE s
Ticked(s, i, tick) ==
    IF s.win[i].on
    THEN [Tell(s, i, tick, FALSE) EXCEPT
            !.dirty = @ \/ ("redraw" \in tick /\ ~s.win[i].min)]
    ELSE s
Launched(s) ==
    IF s.launch
    THEN [InvalidateFull(s) EXCEPT !.launch = FALSE, !.dirty = TRUE,
            !.moved = TRUE, !.at = GuiAt(s.mouse),
            !.back = [p \in Cells |-> Cell("lost")],
            !.screen = [p \in Cells |-> Cell("lost")]]
    ELSE s
Refreshed(s, due) == Present([s EXCEPT !.dirty = @ /\ s.damage # <<>>], due)
Clocked(s, clock) == IF clock THEN [InvalidateTopbar(s) EXCEPT !.dirty = TRUE] ELSE s

Turn(s, ready, tick, i, due, clock) ==
    [Clocked(Refreshed(Launched(Ticked(SyncFocus(ApplyReady(Dispatch(s, i, ready), i, ready)),
                                       i, tick)), due), clock)
       EXCEPT !.fresh = TRUE]

----------------------------------------------------------------------------

GuiKey(key, answer, keeps) ==
    /\ guiLeft > 0 /\ ~g.quit
    /\ g' = [KeyEvent(g, key, answer, keeps) EXCEPT !.fresh = FALSE]
    /\ guiLeft' = guiLeft - 1 /\ UNCHANGED guiDesk

GuiMouse(spot, left, answer, keeps, double) ==
    /\ guiLeft > 0 /\ ~g.quit
    /\ g' = [MouseEvent(g, AbsToScreen(spot[1], GuiW - 1),
                        AbsToScreen(spot[2], GuiH - 1), left, FALSE,
                        answer, keeps, double) EXCEPT !.fresh = FALSE]
    /\ guiLeft' = guiLeft - 1 /\ UNCHANGED guiDesk

GuiWheel(answer) ==
    /\ guiLeft > 0 /\ ~g.quit
    /\ g' = [MouseEvent(g, g.mouse.x, g.mouse.y, g.mouse.left, TRUE,
                        answer, {}, FALSE) EXCEPT !.fresh = FALSE]
    /\ guiLeft' = guiLeft - 1 /\ UNCHANGED guiDesk

GuiTurn(h, due) ==
    /\ ~g.quit
    /\ g' = Turn(g, h.ready, h.tick, h.win, due, h.clock)
    /\ UNCHANGED <<guiDesk, guiLeft>>

\* What happens besides input before a frame: nothing, the descriptor or the
\* timer of one window, or the clocks of the next turn.
GuiQuiet == [ready |-> Nothing, tick |-> Nothing, win |-> Min(GuiWins), clock |-> FALSE]

Happenings ==
    LET open == {i \in GuiWins : g.win[i].on}
    IN  {GuiQuiet} \cup
        (IF "clock" \in guiDesk.stir THEN {[GuiQuiet EXCEPT !.clock = TRUE]} ELSE {}) \cup
        (IF "ready" \in guiDesk.stir
         THEN {[GuiQuiet EXCEPT !.win = i, !.ready = a] : i \in open, a \in OnReady} ELSE {}) \cup
        (IF "tick" \in guiDesk.stir
         THEN {[GuiQuiet EXCEPT !.win = i, !.tick = a] : i \in open, a \in OnTick} ELSE {})

Keeps == IF guiDesk.keeps /\ \E i \in GuiWins : g.win[i].on THEN {{}, GuiWins} ELSE {{}}

GuiNext ==
    \/ \E key \in guiDesk.keys, keeps \in Keeps,
          answer \in IF g.modal.kind # "none" THEN OnResult
                     ELSE IF WmTop(g) = 0 THEN {Nothing} ELSE OnKey :
         GuiKey(key, answer, keeps)
    \/ \E spot \in guiDesk.spots, left \in BOOLEAN, keeps \in Keeps,
          double \in IF g.click # 0 THEN BOOLEAN ELSE {FALSE} :
         \E answer \in IF g.modal.kind # "none" THEN OnResult
                       ELSE IF left = g.mouse.left THEN OnMove
                       ELSE IF left THEN OnPress ELSE OnRelease :
           GuiMouse(spot, left, answer, keeps, double)
    \/ \E answer \in OnMove : guiDesk.spots # {} /\ GuiWheel(answer)
    \/ \E h \in Happenings, due \in IF g.frame THEN BOOLEAN ELSE {FALSE} :
         GuiTurn(h, due)

GuiSpec == GuiInit /\ [][GuiNext]_guiVars

----------------------------------------------------------------------------
(* Properties.                                                             *)

\* Outside the damage still to be repaired, no cell of the back buffer shows
\* what is no longer there: a window that has closed, moved, shrunk, been
\* minimised or drawn anew, wallpaper where a window now is, or anything in
\* place of the modal and the taskbar.  Damage recorded by invalidate_rect,
\* merged, bounded and clipped, covers everything an action changes, and
\* compose_rect repaints it whole.  (A Start menu closed from the taskbar is
\* the exception: gui_desktop_shell_click records no damage for it; and a
\* window raised by the wheel is left behind the one it overtook.)
NoGhost ==
    \A p \in Cells : Damaged(g, p) \/
      LET c == g.back[p]
          clear == /\ ~Inside(p, BarRect)
                   /\ ~(g.modal.kind # "none" /\ Inside(p, ModalRect))
                   /\ ~(g.start /\ Inside(p, StartRect))
      IN  CASE c[1] = "desk" -> /\ clear
                                /\ \A i \in GuiWins :
                                     Up(g, i) => WinCell(g, i, p) = Cell("clear")
            [] c[1] \in {"win", "shade"} ->
                 clear /\ Up(g, c[2]) /\ WinCell(g, c[2], p) = c
            [] c[1] = "modal" -> g.modal.kind # "none"
            [] c[1] = "lost" -> FALSE
            [] OTHER -> TRUE

\* After every turn of the loop the display shows the back buffer with the
\* pointer once, where it was last presented, and the outline of the window
\* being dragged when there is one: no second pointer, no erased pointer, no
\* trail of outlines, whatever was damaged under them.  (The outline of a
\* window that closes while it is dragged is never erased.)
FrameShown ==
    g.fresh => \A p \in Cells :
      \/ g.lost /\ g.screen[p] = Cell("outline")
      \/ g.screen[p] = IF Inside(p, CursorRect(g.at)) THEN Cell("cursor")
                       ELSE Outlined(g, OverlayRect(g), p)

============================================================================
