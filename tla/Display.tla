------------------------------ MODULE Display ------------------------------
(***************************************************************************)
(* The console and the display.                                            *)
(*                                                                         *)
(* Text: drivers/terminal.c interprets bytes (UTF-8, escape sequences,     *)
(* tabs) and drives a backend; drivers/screen.c is the VGA text backend,   *)
(* drivers/fb_console.c draws the same cells into a framebuffer, at once   *)
(* for a single character and batched for terminal_write.  Both backends   *)
(* are fed the same bytes here, so that they can be compared.              *)
(*                                                                         *)
(* Pages: drivers/display.c gives the framebuffer to one process, which    *)
(* fills, blits, or maps the pages and flips between them.  A call that    *)
(* waits for the vertical retrace lets interrupts through (fb_wait_vblank) *)
(* and so is two steps, between which other processes run.                 *)
(*                                                                         *)
(* A byte is a token; a picture is a colour per band of the screen.        *)
(***************************************************************************)
EXTENDS Integers, Sequences, SequencesExt, FiniteSetsExt

CONSTANTS DRows, DCols,   \* the text grid
          DTab,           \* the tab stops, 8 in the code
          DWrites,        \* what programs write: sequences of bytes
          DProcs,         \* the processes that want the display
          DBands,         \* the bands of the screen, 1 .. n
          DPages,         \* the values of fb->page_count
          DParts,         \* subset of {"text", "pages"}
          DCalls

VARIABLES tty,       \* the parser of terminal.c
          vga, fb,   \* the two backends
          disp,      \* display.c and the pages
          call,      \* per process: the call that waits for the retrace
          want,      \* history: the picture the owner painted
          dPart, dLeft

dVars == <<tty, vga, fb, disp, call, want, dPart, dLeft>>

----------------------------------------------------------------------------
(* drivers/unicode.c: a lead byte announces one continuation byte; a byte  *)
(* that breaks the sequence yields a replacement and is looked at again.   *)

Decode(wait, b) ==
    IF wait THEN IF b = "cont" THEN [wait |-> FALSE, out |-> <<"u">>]
                 ELSE [wait |-> b = "lead",
                       out |-> <<"?">> \o (IF b = "lead" THEN <<>> ELSE <<b>>)]
    ELSE IF b = "lead" THEN [wait |-> TRUE, out |-> <<>>]
    ELSE [wait |-> FALSE, out |-> <<IF b = "cont" THEN "?" ELSE b>>]

----------------------------------------------------------------------------
(* The cells of a backend, 0-based as in the code.                         *)

Grid == (0 .. DRows - 1) \X (0 .. DCols - 1)
Blanks == [p \in Grid |-> " "]
Bound(v, most) == IF v < 0 THEN 0 ELSE IF v > most THEN most ELSE v

ScrolledCells(cells) ==
    [p \in Grid |-> IF p[1] = DRows - 1 THEN " " ELSE cells[<<p[1] + 1, p[2]>>]]

VgaClear == [row |-> 0, col |-> 0, cells |-> Blanks]

\* screen_putc.
VgaPutc(v, c) ==
    LET at == <<v.row, v.col>>
        w == CASE c = "nl" -> [v EXCEPT !.row = @ + 1, !.col = 0]
               [] c = "cr" -> [v EXCEPT !.col = 0]
               [] c = "bs" -> IF v.col = 0 THEN v
                              ELSE [v EXCEPT !.col = @ - 1,
                                             !.cells[<<v.row, v.col - 1>>] = " "]
               [] OTHER -> [row |-> IF v.col + 1 = DCols THEN v.row + 1 ELSE v.row,
                            col |-> (v.col + 1) % DCols,
                            cells |-> [v.cells EXCEPT ![at] = c]]
    IN  IF w.row < DRows THEN w
        ELSE [row |-> DRows - 1, col |-> 0, cells |-> ScrolledCells(w.cells)]

VgaSetCursor(v, row, col) ==
    [v EXCEPT !.row = Bound(row, DRows - 1), !.col = Bound(col, DCols - 1)]

VgaWriteAt(v, row, col, c) == [v EXCEPT !.cells[<<row, col>>] = c]

----------------------------------------------------------------------------
(* fb_console.c.  pix is the glyph drawn in each cell and line the cells   *)
(* where the two scan lines of the cursor are lit.                         *)

FbNew == [row |-> 0, col |-> 0, cells |-> Blanks, pix |-> Blanks,
          line |-> {<<0, 0>>}, dirty |-> {}, depth |-> 0]

\* fb_draw_cell draws all of the cell, the cursor's lines included.
DrawCell(f, p) == [f EXCEPT !.pix[p] = f.cells[p], !.line = @ \ {p}]
DrawCursor(f) == [f EXCEPT !.line = @ \cup {<<f.row, f.col>>}]
EraseCursor(f) == DrawCell(f, <<f.row, f.col>>)
EraseIfVisible(f) == IF f.depth = 0 THEN EraseCursor(f) ELSE f
DrawIfVisible(f) == IF f.depth = 0 THEN DrawCursor(f) ELSE f

\* A cell that changed is drawn, or marked while an update is open.
Touch(f, p) == IF f.depth > 0 THEN [f EXCEPT !.dirty = @ \cup {p}] ELSE DrawCell(f, p)


\* fb_scroll: in an update everything becomes dirty, otherwise the pixels
\* are moved up a row and the last row is cleared.
FbScroll(f) ==
    LET g == [f EXCEPT !.cells = ScrolledCells(@), !.row = DRows - 1, !.col = 0]
    IN  IF f.depth > 0 THEN [g EXCEPT !.dirty = Grid]
        ELSE [g EXCEPT !.pix = ScrolledCells(@),
                       !.line = {<<p[1] - 1, p[2]>> : p \in {q \in @ : q[1] > 0}}]

\* fb_clear draws the cursor even inside an update.
FbClear(f) ==
    DrawCursor([f EXCEPT !.cells = Blanks, !.pix = Blanks, !.line = {}, !.row = 0,
                         !.col = 0, !.dirty = {}])

\* fb_putc.
FbPutc(f0, c) ==
    LET f == EraseIfVisible(f0)
        at == <<f.row, f.col>>
        g == CASE c = "nl" -> [f EXCEPT !.row = @ + 1, !.col = 0]
               [] c = "cr" -> [f EXCEPT !.col = 0]
               [] c = "bs" -> IF f.col = 0 THEN f
                              ELSE LET b == <<f.row, f.col - 1>>
                                   IN  Touch([f EXCEPT !.col = @ - 1, !.cells[b] = " "], b)
               [] OTHER -> [Touch([f EXCEPT !.cells[at] = c], at) EXCEPT
                              !.row = IF f.col + 1 = DCols THEN @ + 1 ELSE @,
                              !.col = (@ + 1) % DCols]
    IN  DrawIfVisible(IF g.row >= DRows THEN FbScroll(g) ELSE g)

FbSetCursor(f, row, col) ==
    DrawIfVisible([EraseIfVisible(f) EXCEPT !.row = Bound(row, DRows - 1),
                                            !.col = Bound(col, DCols - 1)])

\* fb_write_at draws at once, in an update or not.
FbWriteAt(f, row, col, c) ==
    DrawIfVisible(DrawCell([EraseIfVisible(f) EXCEPT !.cells[<<row, col>>] = c],
                           <<row, col>>))

BeginUpdate(f) == [(IF f.depth = 0 THEN EraseCursor(f) ELSE f) EXCEPT !.depth = @ + 1]

FlushDirty(f) == [FoldSet(LAMBDA p, g : DrawCell(g, p), f, f.dirty) EXCEPT !.dirty = {}]

EndUpdate(f) ==
    LET g == [f EXCEPT !.depth = @ - 1]
    IN  IF g.depth = 0 THEN DrawCursor(FlushDirty(g)) ELSE g

----------------------------------------------------------------------------
(* terminal.c, driving both backends.                                      *)

ConNew == [esc |-> 0, args |-> <<>>, value |-> 0, wait |-> FALSE]
T == [con |-> tty, vga |-> vga, fb |-> fb]

Digits == [d \in {"1", "2"} |-> IF d = "1" THEN 1 ELSE 2]

EmitCodepoint(t, c) == [t EXCEPT !.vga = VgaPutc(@, c), !.fb = FbPutc(@, c)]

\* terminal_emit_utf8_byte.
EmitByte(t, b) ==
    LET d == Decode(t.con.wait, b)
    IN  FoldLeft(EmitCodepoint, [t EXCEPT !.con.wait = d.wait], d.out)

\* terminal_emit_display_char: a tab is spaces up to the next stop.
EmitDisplayChar(t, b) ==
    IF b # "tab" THEN EmitByte(t, b)
    ELSE FoldLeft(EmitByte, [t EXCEPT !.con.wait = FALSE],
                  [i \in 1 .. DTab - (t.vga.col % DTab) |-> " "])

SetCursor(t, row, col) ==
    [t EXCEPT !.vga = VgaSetCursor(@, row, col), !.fb = FbSetCursor(@, row, col)]

\* clear_line_from_cursor.
ClearLine(t) ==
    LET row == t.vga.row
        col == t.vga.col
        wiped == FoldLeft(LAMBDA u, x : [u EXCEPT !.vga = VgaWriteAt(@, row, x, " "),
                                                  !.fb = FbWriteAt(@, row, x, " ")],
                          t, [i \in 1 .. DCols - col |-> col + i - 1])
    IN  SetCursor(wiped, row, col)

\* csi_push_arg keeps four arguments.
PushArg(c) == IF Len(c.args) >= 4 THEN c
              ELSE [c EXCEPT !.args = Append(@, c.value), !.value = 0]

ArgOr(c, i, fallback) ==
    IF i > Len(c.args) THEN fallback ELSE IF c.args[i] = 0 THEN fallback ELSE c.args[i]

\* csi_dispatch.
Dispatched(t0, cmd) ==
    LET t == [t0 EXCEPT !.con = [PushArg(@) EXCEPT !.esc = 0]]
        n == ArgOr(t.con, 1, 1)
        row == t.vga.row
        col == t.vga.col
        Go(r, c) == SetCursor(t, Bound(r, DRows - 1), Bound(c, DCols - 1))
    IN  CASE cmd = "A" -> Go(row - n, col)
          [] cmd = "B" -> Go(row + n, col)
          [] cmd = "C" -> Go(row, col + n)
          [] cmd = "D" -> Go(row, col - n)
          [] cmd = "H" -> Go(n - 1, ArgOr(t.con, 2, 1) - 1)
          [] cmd = "J" -> IF ArgOr(t.con, 1, 0) = 2
                          THEN [t EXCEPT !.vga = VgaClear, !.fb = FbClear(@)]
                          ELSE SetCursor(t, row, col)
          [] cmd = "K" -> ClearLine(t)
          [] OTHER -> t

\* terminal_handle_escape, and the byte itself when it is none of it.
PutByte(t, b) ==
    LET c == t.con
        eaten == [t EXCEPT !.con.wait = FALSE]
    IN  CASE c.esc = 0 /\ b = "esc" -> [eaten EXCEPT !.con.esc = 1]
          [] c.esc = 0 /\ b # "esc" -> EmitDisplayChar(t, b)
          [] c.esc = 1 -> [eaten EXCEPT !.con =
                             IF b = "[" THEN [ConNew EXCEPT !.esc = 2]
                             ELSE [@ EXCEPT !.esc = 0]]
          [] c.esc = 2 /\ b \in DOMAIN Digits ->
               [eaten EXCEPT !.con.value = 10 * @ + Digits[b]]
          [] c.esc = 2 /\ b = ";" -> [eaten EXCEPT !.con = PushArg(@)]
          [] OTHER -> Dispatched(eaten, b)

\* terminal_write and terminal_puts.
TerminalPuts(t, s) == FoldLeft(PutByte, t, s)
TerminalWrite(t, s) ==
    [TerminalPuts([t EXCEPT !.fb = BeginUpdate(@)], s) EXCEPT !.fb = EndUpdate(@)]

----------------------------------------------------------------------------
(* display.c and the pages of fb_console.c.                                *)

NoCall == [op |-> "none", bands |-> {}, colour |-> 0, page |-> 0]
Pages == DOMAIN disp.pages
Flips == Len(disp.pages) > 1     \* fb->page_flip_ready

Paint(picture, bands, colour) ==
    [b \in DBands |-> IF b \in bands THEN colour ELSE picture[b]]

OnAll(pages, bands, colour) == [k \in Pages |-> Paint(pages[k], bands, colour)]

\* An owner that is not inside a call.
MayCall(p) == disp.owner = p /\ call[p].op = "none"

\* fb_blit_should_present.
BlitShouldPresent(bands) == 2 * Cardinality(bands) >= Cardinality(DBands)

\* fb_bga_set_scanout_page, after the retrace.
SetScanout(d, page) ==
    IF Flips THEN [d EXCEPT !.visible = page, !.draw = (page % Len(d.pages)) + 1] ELSE d

\* display_acquire: the console goes quiet with the first owner.
Acquire(p) ==
    /\ call[p].op = "none" /\ disp.owner \in {0, p}
    /\ disp' = [disp EXCEPT !.owner = p,
                            !.enabled = IF disp.owner = 0 THEN FALSE ELSE @]
    /\ want' = IF disp.owner = 0 THEN [b \in DBands |-> "any"] ELSE want
    /\ UNCHANGED call

\* The second half of display_release: the console comes back and clears
\* page 1, where fb->base points.
ConsoleBack(d) ==
    [SetScanout(d, 1) EXCEPT !.enabled = TRUE, !.raced = @ \/ d.owner # 0,
                             !.pages[1] = [b \in DBands |-> "text"]]

\* display_release: the owner is gone before the retrace is waited for.
ReleaseBy(p, op) ==
    /\ disp' = LET d == [disp EXCEPT !.owner = 0] IN IF Flips THEN d ELSE ConsoleBack(d)
    /\ call' = [call EXCEPT ![p] = [NoCall EXCEPT !.op = IF Flips THEN op ELSE "none"]]
    /\ UNCHANGED want

Release(p) == MayCall(p) /\ ReleaseBy(p, "release")

\* process_destroy, by whoever reaps the process, wherever it was stopped.
Destroy(p) == disp.owner = p /\ ReleaseBy(p, "destroy")

\* Stopped inside its own release: it is the owner no more, and the release
\* of process_destroy returns at once.
DestroyReleasing(p) ==
    /\ call[p].op = "release"
    /\ call' = [call EXCEPT ![p] = NoCall] /\ UNCHANGED <<disp, want>>

ReleaseDone(p) ==
    /\ call[p].op \in {"release", "destroy"}
    /\ disp' = ConsoleBack(disp)
    /\ call' = [call EXCEPT ![p] = NoCall] /\ UNCHANGED want

\* fb_console_fill writes every page.
Fill(p, bands, colour) ==
    /\ MayCall(p)
    /\ disp' = [disp EXCEPT !.pages = OnAll(@, bands, colour)]
    /\ want' = Paint(want, bands, colour)
    /\ UNCHANGED call

\* What fb_console_blit_stride writes before it waits: nothing if there is
\* one page, every page for a small rectangle, and for a large one the next
\* page, brought up to date from the visible one (fb_copy_visible_to_page).
BlitPages(bands, colour) ==
    IF ~Flips THEN disp.pages
    ELSE IF BlitShouldPresent(bands)
    THEN [disp.pages EXCEPT ![disp.draw] =
            Paint(disp.pages[disp.visible], bands, colour)]
    ELSE OnAll(disp.pages, bands, colour)

Blit(p, bands, colour) ==
    /\ MayCall(p)
    /\ disp' = [disp EXCEPT !.pages = BlitPages(bands, colour)]
    /\ call' = IF Flips /\ ~BlitShouldPresent(bands) THEN call
               ELSE [call EXCEPT ![p] = [op |-> "blit", bands |-> bands,
                                         colour |-> colour, page |-> disp.draw]]
    /\ want' = Paint(want, bands, colour)

\* The flip, and the rectangle on the pages that are now hidden, or on the
\* only page.
BlitDone(p) ==
    LET c == call[p]
        shown == IF Flips THEN {c.page} ELSE {}
    IN  /\ c.op = "blit"
        /\ disp' = [SetScanout(disp, c.page) EXCEPT
                      !.pages = [k \in Pages |-> IF k \in shown THEN @[k]
                                                ELSE Paint(@[k], c.bands, c.colour)]]
        /\ call' = [call EXCEPT ![p] = NoCall] /\ UNCHANGED want

\* display_map: the owner draws into the next page itself.
DrawMapped(p, bands, colour) ==
    /\ MayCall(p) /\ Flips
    /\ disp' = [disp EXCEPT !.pages[disp.draw] = Paint(@, bands, colour)]
    /\ UNCHANGED <<call, want>>

\* display_present_page.
PresentPage(p) ==
    /\ MayCall(p) /\ Flips
    /\ call' = [call EXCEPT ![p] = [NoCall EXCEPT !.op = "present", !.page = disp.draw]]
    /\ want' = disp.pages[disp.draw] /\ UNCHANGED disp

PresentDone(p) ==
    /\ call[p].op = "present"
    /\ disp' = SetScanout(disp, call[p].page)
    /\ call' = [call EXCEPT ![p] = NoCall] /\ UNCHANGED want

\* Somebody writes to the console: nothing is drawn while it is disabled.
ConsoleText ==
    /\ disp.enabled
    /\ disp' = [disp EXCEPT !.pages[1] = Paint(@, {Max(DBands)}, "text")]
    /\ UNCHANGED <<call, want>>

----------------------------------------------------------------------------

DInit ==
    /\ tty = ConNew /\ vga = VgaClear /\ fb = FbNew
    /\ \E n \in DPages :
          disp = [owner |-> 0, enabled |-> TRUE, visible |-> 1, draw |-> (1 % n) + 1,
                  pages |-> [k \in 1 .. n |-> [b \in DBands |-> "text"]],
                  raced |-> FALSE]
    /\ call = [p \in DProcs |-> NoCall]
    /\ want = [b \in DBands |-> "any"]
    /\ dPart \in DParts /\ dLeft = DCalls

Write(s, batch) ==
    /\ dPart = "text" /\ dLeft > 0
    /\ \E t \in {IF batch THEN TerminalWrite(T, s) ELSE TerminalPuts(T, s)} :
         tty' = t.con /\ vga' = t.vga /\ fb' = t.fb
    /\ dLeft' = dLeft - 1 /\ UNCHANGED <<disp, call, want, dPart>>

Starts(p) ==
    \/ Acquire(p) \/ Release(p) \/ Destroy(p) \/ DestroyReleasing(p) \/ PresentPage(p)
    \/ \E bands \in SUBSET DBands \ {{}}, colour \in {"red", "blue"} :
          Fill(p, bands, colour) \/ Blit(p, bands, colour) \/ DrawMapped(p, bands, colour)

Resumes(p) == ReleaseDone(p) \/ BlitDone(p) \/ PresentDone(p)

Shows ==
    /\ dPart = "pages" /\ UNCHANGED <<tty, vga, fb, dPart>>
    /\ \/ dLeft > 0 /\ dLeft' = dLeft - 1 /\ (ConsoleText \/ \E p \in DProcs : Starts(p))
       \/ UNCHANGED dLeft /\ \E p \in DProcs : Resumes(p)

DNext == Shows \/ \E s \in DWrites, batch \in BOOLEAN : Write(s, batch)

DSpec == DInit /\ [][DNext]_dVars

----------------------------------------------------------------------------

\* However the bytes are split into writes and whether they come one by one
\* or batched, the framebuffer console holds the text and the cursor of the
\* VGA console, and between two calls every pixel shows it, with a second
\* cursor only in the corner where fb_clear drew one inside an update.
ConsoleShown ==
    /\ fb.cells = vga.cells /\ <<fb.row, fb.col>> = <<vga.row, vga.col>>
    /\ fb.pix = fb.cells
    /\ <<fb.row, fb.col>> \in fb.line /\ fb.line \subseteq {<<fb.row, fb.col>>, <<0, 0>>}

\* The owner of the display that is not inside a call sees what it painted,
\* whatever earlier owners left on the other pages, unless the release of
\* its predecessor was still under way when it became the owner.
OwnerShown ==
    \A p \in DProcs : disp.owner = p /\ call[p].op = "none" /\ ~disp.raced =>
        \A b \in DBands : want[b] \in {"any", disp.pages[disp.visible][b]}

=============================================================================
