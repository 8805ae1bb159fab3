------------------------------ MODULE MCMachine -----------------------------
(***************************************************************************)
(* The components of the machine and its programs that a behaviour can be  *)
(* about one at a time: part says which, s1 to s9 are the variables of     *)
(* that component's module, and the rest of them stays 0.                  *)
(***************************************************************************)
EXTENDS Integers, Sequences, TLC

VARIABLES part, s1, s2, s3, s4, s5, s6, s7, s8, s9

Parts == {"console", "usb", "pty", "events", "heap", "libc", "exec", "dl", "posix", "shell",
          "gui", "browse", "sound", "display", "editor", "window", "disk", "image", "boot", "mouse",
          "signals", "accounts"}

-----------------------------------------------------------------------------
(* Two programs at one keyboard, with queues of two; every mouse, with any *)
(* one byte of the handshake lost.  The keyboard and the mouse never run   *)
(* in one behaviour, so they share s1 to s6.                               *)
Sitting(keys, calls, job, strokes, most) ==
    [keys |-> keys, calls |-> calls, job |-> job, strokes |-> strokes, most |-> most]
Evening ==
    {Sitting({"a", "enter"}, {"read", "raw", "poll"}, "plain", 3, 2),
     Sitting({"a", "up"}, {"raw", "timed poll", "both"}, "plain", 2, 2),
     Sitting({"a", "mouse"}, {"input", "until", "timed both", "both"}, "plain", 2, 2),
     Sitting({"shift", "print", "rctrl"}, {"foreground"}, "plain", 3, 1),
     Sitting({"pause", "lctrl", "print"}, {"foreground"}, "plain", 3, 1),
     Sitting({"lctrl", "c", "a"}, {"display", "foreground", "raw"}, "signalfd", 3, 2)}
    \union {Sitting({"lctrl", "c", "z"}, {"read", "raw", "foreground"}, job, 3, 1)
               : job \in {"plain", "detachable"}}
Con == INSTANCE Console WITH Users <- {1, 2}, KeyRing <- 2, EventRing <- 2, Sittings <- Evening,
        kbd <- s1, board <- s2, con <- s3, user <- s4, conLeft <- s5,
        MsKinds <- {0, 3, 4}, MsScale <- 3, MsPlaces <- {<<0, 4>>, <<2, 2>>, <<4, 0>>},
        MsSteps <- {<<-1, 2>>}, MsMoves <- 4,
        ms <- s1, pd <- s2, vmq <- s3, inj <- s4, mg <- s5, msLeft <- s6

(* Three ports, with and without a stick.                                  *)
Rigs == {<<"other", "keyboard", "mouse">>, <<"stick", "keyboard", "mouse">>,
         <<"keyboard", "stick", "none">>, <<"mouse", "stick", "keyboard">>}
Bus == INSTANCE Usb WITH UsbPorts <- {1, 2, 3}, UsbRigs <- Rigs, UsbFaults <- 1,
        UsbProbes <- 2, UsbCommands <- 2,
        usb <- s1, hc <- s2, dev <- s3, svc <- s4, rd <- s5

(* Rings of two characters; cooked, raw with and without ONLCR.            *)
Tio(cooked, onlcr) == [echo |-> cooked, canon |-> cooked, isig |-> cooked, onlcr |-> onlcr]
Tty == INSTANCE Pty WITH PtyRing <- 2, PtyCalls <- 3,
        Settings <- {Tio(TRUE, TRUE), Tio(FALSE, TRUE), Tio(FALSE, FALSE)},
        Typed <- {<<"a">>, <<"a", "nl">>, <<"eof">>, <<"intr">>, <<"a", "susp">>, <<"cr">>},
        Shown <- {<<"b", "nl">>, <<"cr">>, <<"nl">>},
        pty <- s1, agent <- s2, cpu <- s3, tape <- s4, ptyLeft <- s5

(* Sizes from one unit to one that wraps the machine word.                 *)
Mem == INSTANCE Heap WITH HMod <- 128, HAlign <- 2, HPage <- 12, HHeader <- 3, HBase <- 12,
        HLimit <- 60, HSizes <- {1, 4, 10, 122}, KClasses <- <<1, 4>>, KPage <- 8, KFrames <- 3,
        KSizes <- {1, 3, 10}, HeapCalls <- 5,
        heap <- s1, slabs <- s2, heapLeft <- s3

(* Words of ten bits; strings, patterns and argument vectors of up to      *)
(* three characters, tokens or words.                                      *)
Vectors == UNION {[1..n -> {<<"-">>, <<"-", "-">>, <<"-", "x">>, <<"-", "x", "o">>,
                            <<"-", "o", "x">>, <<"-", "o">>, <<"-", "p">>,
                            <<"-", "q", "x">>, <<"f">>}] : n \in 0..3}
Lib == INSTANCE Libc WITH LHalf <- 16, LInts <- {-12, -1, 0, 7, 10},
        Questions <- {"int", "two", "int64", "compare", "split", "date", "stream"},
        LDays <- {0, 58, 59, 364, 365, 789, 790, 11015, 11016, 11017, 11322, 11323, 24855, 47540,
                  47541, 49709},
        LSeconds <- {0, 59, 60, 3599, 3600, 86399},
        Widths <- {0, 1, 3, 5},
        Versions <- UNION {[1..n -> {"0", "1", "a"}] : n \in 0..3},
        FileText <- <<"a", "nl", "b", "c">>, StreamCalls <- 5,
        ask <- s1, answer <- s2, file <- s3,
        PxJobs <- {"match", "path", "opts", "env", "copy", "dns", "io"},
        PxChars <- {"a", "/", "."}, PxTokens <- {"a", "/", ".", "?", "*", "[a]", "[!a]"},
        PxLen <- 3, PxArgvs <- Vectors,
        PxOpts <- ("x" :> "none") @@ ("o" :> "arg") @@ ("p" :> "optional"),
        PxVars <- {"A", "B"}, PxValues <- {1, 2}, PxBlock <- 2, PxFile <- 3, PxBuffer <- 4,
        PxTick <- 4, PxSecond <- 12, PxWord <- 64, PxIds <- 4,
        PxHosts <- {"localhost", "one", "two"}, PxCalls <- 3,
        asked <- s1, environ <- s2, wanted <- s3, pipe <- s4, dns <- s5, pxJob <- s6,
        pxLeft <- s7

(* A static program; a fixed and a position-independent dynamic one; the   *)
(* interpreter; one linked over the interpreter's place; a script.         *)
Named(b, d) == [base |-> b, dot |-> d]
Elf(t, segs, i, e) == [elf |-> TRUE, type |-> t, segs |-> segs, interp |-> i, entry |-> e]
Seg(at, len) == [at |-> at, len |-> len]
Nobody == Named("", FALSE)
Ld == Named("ld", TRUE)
Bin == (Named("sh", FALSE)  :> Elf("exec", <<Seg(16, 20), Seg(48, 5)>>, Nobody, 17))
    @@ (Named("cc", TRUE)   :> Elf("exec", <<Seg(16, 8)>>, Ld, 18))
    @@ (Named("ls", FALSE)  :> Elf("dyn", <<Seg(0, 10), Seg(16, 4)>>, Ld, 3))
    @@ (Ld                  :> Elf("dyn", <<Seg(0, 12)>>, Nobody, 1))
    @@ (Named("bad", FALSE) :> Elf("exec", <<Seg(112, 8)>>, Named("off", TRUE), 112))
    @@ (Named("off", TRUE)  :> Elf("exec", <<Seg(32, 8)>>, Nobody, 33))
    @@ (Named("txt", FALSE) :> [Elf("exec", <<>>, Nobody, 0) EXCEPT !.elf = FALSE])

(* Libraries that share one, libraries that lack a file or a symbol, and   *)
(* libraries that need each other.                                         *)
So(name, needed, defs, undefs) ==
    [soname |-> name, needed |-> needed, defs |-> defs, undefs |-> undefs, weak |-> {},
     copies |-> {}, pages |-> 1, elf |-> TRUE]
Program == "<main>"
Common ==
    (Program :> [So(Program, <<"c">>, {}, {"puts"}) EXCEPT !.copies = {"puts"}])
    @@ ("c" :> So("c", <<>>, {"puts"}, {}))
    @@ ("txt" :> [So("txt", <<>>, {}, {}) EXCEPT !.elf = FALSE])
Diamond ==
    Common @@ ("a" :> So("a", <<"c">>, {"f"}, {"puts"}))
           @@ ("b" :> So("b", <<"a", "c">>, {"g"}, {"f"}))
           @@ ("p" :> So("p", <<"b", "a">>, {"f", "h"}, {"g"}))
           @@ ("l" :> So("a", <<>>, {"f"}, {}))
Broken ==
    Common @@ ("a" :> So("a", <<"c">>, {"f"}, {}))
           @@ ("b" :> So("b", <<"a", "gone">>, {"g"}, {"f"}))
           @@ ("p" :> [So("p", <<>>, {"h"}, {"f", "g"}) EXCEPT !.weak = {"g"}])
           @@ ("l" :> [So("l", <<"txt">>, {}, {}) EXCEPT !.pages = 3])
Knots ==
    Common @@ ("a" :> So("a", <<"b">>, {"f"}, {"g"}))
           @@ ("b" :> So("b", <<"a">>, {"g"}, {"f"}))
           @@ ("p" :> So("p", <<"a">>, {"h"}, {"f"}))
Run == INSTANCE Exec WITH XWord <- 2, XPage <- 16, XCode <- 16, XPie <- 64, XMmap <- 128,
        XInterp <- 160, XHeap <- 192, XStackLow <- 208, XStackTop <- 272, XFiles <- Bin,
        XNames <- {Named(b, FALSE) : b \in {"sh", "cc", "ls", "bad", "txt", "no"}},
        XVectors <- {<<>>, <<<<7, 8>>, <<9>>>>, <<<<7>>, <<>>, <<9>>>>},
        XMaxArgs <- 2, XArgUnits <- 8, XFrames <- 20, XProcs <- {1, 2, 3}, XCalls <- 3,
        xpool <- s1, xproc <- s2, xleft <- s3,
        DlShelves <- ("diamond" :> Diamond) @@ ("broken" :> Broken) @@ ("knots" :> Knots),
        DlNames <- {"a", "b", "p", "l"}, DlSymbols <- {"f"}, DlObjects <- 5, DlBase <- 0,
        DlLimit <- 12, DlCalls <- 4,
        ld <- s1, handle <- s2, found <- s3, dlLeft <- s4

(* Lines of four characters, two jobs, pipelines of up to three commands.  *)
Sh == INSTANCE Shell WITH ShParts <- {"edit", "jobs", "pipe"},
        ShKeys <- {"a", "b", " ", "left", "right", "home", "end", "bs", "del", "up", "down",
                   "tab", "^C"},
        ShMax <- 4, ShRing <- 2,
        ShWords <- <<<<"a", "b">>, <<"a", "b", "b">>, <<"b", "/">>, <<"a", "b">>>>,
        ShPasts <- {<<>>, <<<<"b">>>>, <<<<"a">>, <<"b", " ">>, <<"a", "a">>>>},
        ShPids <- {1, 2, 3}, ShJobs <- {1, 2}, ShStages <- {1, 2, 3}, ShPipe <- 1,
        ShCommands <- 5,
        shEd <- s1, shRef <- s2, hist <- s3, past <- s4, job <- s5, proc <- s6, line <- s7,
        shPart <- s8, shLeft <- s9

(* A display of eight by six cells and two windows.                        *)
Rect(x, y, w, h) == [x |-> x, y |-> y, w |-> w, h |-> h]
Two == <<Rect(1, 1, 5, 3), Rect(3, 2, 5, 3)>>
Desks ==
    { [wins |-> Two, keys |-> {"x"}, keeps |-> FALSE, events |-> 3, stir |-> {},
       spots |-> {<<2, 3>>, <<5, 5>>, <<14, 11>>, <<7, 0>>}],
      [wins |-> Two, keys |-> {"alt+tab", "alt+f9", "alt+f10", "x", "f"},
       keeps |-> TRUE, events |-> 2, spots |-> {}, stir |-> {"tick"}],
      [wins |-> SubSeq(Two, 1, 1), keys |-> {"other", "tab", "enter", "esc"},
       keeps |-> TRUE, events |-> 2, spots |-> {<<6, 6>>, <<8, 6>>, <<10, 3>>},
       stir |-> {}],
      [wins |-> Two, keys |-> {"ctrl+esc", "enter", "tab"}, keeps |-> FALSE,
       events |-> 2, spots |-> {<<0, 14>>, <<4, 14>>, <<0, 9>>}, stir |-> {"clock"}],
      [wins |-> <<>>, keys |-> {"f"}, keeps |-> FALSE, events |-> 2,
       spots |-> {<<14, 0>>, <<4, 3>>, <<8, 3>>}, stir |-> {"ready"}] }
Desktop == INSTANCE Gui WITH GuiW <- 8, GuiH <- 6, GuiBar <- 1, GuiTitle <- 1, GuiFp <- 2,
        GuiAbs <- 14, GuiWins <- {1, 2}, GuiCap <- 2, GuiVis <- 6, GuiReach <- 4,
        GuiPointer <- 2, GuiSize <- <<5, 3>>, GuiMin <- <<4, 2>>, GuiDesks <- Desks,
        g <- s1, guiDesk <- s2, guiLeft <- s3

(* The file picker and the Files window on a tree of three directories,    *)
(* with lists three rows high.                                             *)
NA == <<"a">>
NAB == <<"a", "b">>
NB == <<"B">>
ND == <<"d">>
Home == <<>> :> "dir" @@ <<NAB>> :> "file" @@ <<ND>> :> "dir" @@ <<NA>> :> "file"
          @@ <<NB>> :> "file" @@ <<ND, NB>> :> "dir" @@ <<ND, ND>> :> "file"
          @@ <<ND, NA>> :> "file" @@ <<ND, NB, NA>> :> "file"
Code == [x \in {"a", "b", "B", "d", "n", ".", "?"} |->
            CASE x = "a" -> 2 [] x \in {"b", "B"} -> 3 [] x = "d" -> 4 [] x = "n" -> 5
              [] x = "." -> 1 [] OTHER -> 0]
Gui(type, what, at) == [type |-> type, what |-> what, at |-> at]
Keys(ks) == {Gui("key", k, 0) : k \in ks}
Rows(what) == {Gui("press", what, y) : y \in {0, 2, 4}}
Wheel == {Gui("wheel", "", 1), Gui("wheel", "", -1)}
Visit(who, start, events) == [who |-> who, start |-> start, events |-> events]
Visits ==
    {Visit("picker", <<"/", "d", "/">>,
        Keys({"up", "down", "pgup", "pgdn", "enter", "tab", "esc"}) \union Rows("list")),
     Visit("picker", <<>>,
        Rows("list") \union Keys({"b", "backspace", "delete", "left", "right"})
          \union {Gui("press", "accept", 0), Gui("press", "name", 1), Gui("press", "cancel", 0)}),
     Visit("picker", <<"/", "d", "/", "B", "/", "a">>,
        Keys({"tab", "backtab", "enter", "home", "end", "a"}) \union Rows("list")),
     Visit("picker", <<"a", "b">>,
        Rows("list") \union Wheel \union {Gui("press", "scroll", y) : y \in {0, 4}}),
     Visit("files", <<>>, Keys({"up", "down", "pgup", "pgdn", "enter", "home", "end", "f2"})),
     Visit("files", <<>>,
        Keys({"tab", "backtab", "enter", "space", "alt enter", "delete", "ctrl n", "down"})),
     Visit("files", <<>>,
        Keys({"delete", "f2"}) \union Rows(0) \union {Gui("press", b, 0) : b \in 2..5}),
     Visit("files", <<>>,
        Rows(0) \union Wheel \union {Gui("press", 1, y) : y \in {0, 4}}
          \union Keys({"end", "delete"}))}
Tour == INSTANCE Browse WITH BrTrees <- {Home}, BrNames <- <<NAB, ND, <<"n">>, NA, NB>>,
        BrCode <- Code, BrMax <- 5, BrHeight <- 5, BrRow <- 2, BrGrip <- 1, BrKits <- Visits,
        BrAnswers <- {<<"n">>, <<>>, <<"d">>, <<"d", "/", "n">>}, BrSteps <- 3, BrOthers <- 1,
        tree <- s1, br <- s2, ask <- s3, seen <- s4, brKit <- s5, brLeft <- s6

(* Transfers of two and five bytes in chunks of two, one call may fail.    *)
Cards == INSTANCE Sound WITH SndKits <- {{"sb"}, {"sb", "ac97"}, {"opl"}}, SndTimer <- 2,
        SndSlack <- 2, SndChunk <- 2, SndPcm <- {[n |-> 5, hz |-> 2], [n |-> 2, hz |-> 3]},
        SndTones <- {0, 2}, SndSeqs <- {[samples |-> <<1, 0, 1>>, hz |-> 3]},
        SndSongs <- {[events |-> <<<<1, TRUE, 1>>, <<2, TRUE, 0>>, <<1, FALSE, 2>>>>,
                      hz |-> 1, loop |-> l] : l \in BOOLEAN},
        SndEffects <- {[samples |-> <<1, 0, 2>>, hz |-> 3, ch |-> c] : c \in 1..2},
        SndBudget <- 2, SndFirst <- 2, SndFaults <- 1, SndCalls <- 3,
        snd <- s1, card <- s2, take <- s3, sndKit <- s4, sndFaulty <- s5, sndLeft <- s6

(* A console of two rows of three columns, pictures of three bands.        *)
Screens == INSTANCE Display WITH DRows <- 2, DCols <- 3, DTab <- 2,
        DWrites <- {<<"a", "b">>, <<"nl", "a">>, <<"tab", "bs">>, <<"esc", "[", "2", ";">>,
          <<"2", "H">>, <<"esc", "[", "2", "J">>, <<"esc", "[", "1", "A", "b">>,
          <<"esc", "[", "K", "cr">>, <<"lead">>, <<"cont", "a">>, <<"esc", "[", "C">>,
          <<"esc", "[", "B">>, <<"esc", "[", "D">>},
        DProcs <- {1, 2}, DBands <- {1, 2, 3}, DPages <- {1, 3}, DParts <- {"text", "pages"},
        DCalls <- 4,
        tty <- s1, vga <- s2, fb <- s3, disp <- s4, call <- s5, want <- s6, dPart <- s7,
        dLeft <- s8

(* The three editors on a file of two lines.                               *)
Cmd(op, a, b, text) == [op |-> op, a |-> a, b |-> b, line |-> text]
Script == {Cmd("q", -1, -1, <<"q">>), Cmd("wq", -1, -1, <<"w", "q">>), Cmd("w", -1, -1, <<"w">>),
           Cmd("c", -1, -1, <<"c">>), Cmd("p", -1, -1, <<"p">>), Cmd("d", 1, -1, <<"d">>),
           Cmd("d", 1, 5, <<"d">>), Cmd("a", -1, -1, <<"a">>), Cmd("i", 1, -1, <<"i">>),
           Cmd("r", 2, -1, <<"r">>), Cmd(".", -1, -1, <<".">>), Cmd("?", -1, -1, <<"?">>)}
Ed == INSTANCE Editor WITH EdLine <- 5, EdTab <- 2, EdRows <- 2, EdCols <- 2,
        EdDisks <- {[p |-> <<"a", "b", "nl", "c", "nl">>, q |-> <<"none">>]},
        EdKits <- {"term", "batch", "gui"}, EdChars <- {"x"}, EdCommands <- Script,
        EdFaults <- 1, EdKeys <- 3,
        ed <- s1, disk <- s2, ref <- s3, edKit <- s4, edFaults <- s5, edLeft <- s6

(* The shell window with three rows of three columns.                      *)
Window == INSTANCE ShellWindow WITH WLines <- 3, WCols <- 3, WTab <- 2,
        WSizes <- {<<2, 3>>, <<1, 2>>, <<3, 2>>},
        WTexts <- {<<"a", "b">>, <<"nl">>, <<"esc", "[", "2">>, <<"A">>, <<"J">>,
            <<";", "2", "H">>, <<"esc", "[", "K", "tab">>, <<"esc", "7", "cr", "bs">>,
            <<"esc", "8", "u3", "k">>},
        WBudget <- 3, WHistory <- 2, WInput <- 5,
        WPrograms <- << <<"a">>, <<"a", "b">>, <<"b", "a">> >>,
        WNames <- << <<"b", "a">>, <<"b", "b", "/">> >>,
        WVerbs <- (<<"a">> :> "pwd") @@ (<<"b">> :> "exit") @@ (<<"a", "b", " ">> :> "clear")
                    @@ (<<"a", "a">> :> "cd"),
        WTyped <- {"a", "b", " "}, WParts <- {"screen", "life", "line"}, WCalls <- 4,
        WKeys <- 8,
        win <- s1, kern <- s2, wPast <- s3, wPart <- s4, wLeft <- s5

(* Four sectors, chunks of three, a 64 KiB window of two; a controller     *)
(* without a buffer, one without bus mastering, and no drive.              *)
Ide(bar4, buffer, drive) ==
    [controller |-> TRUE, bar4 |-> bar4, buffer |-> buffer, table |-> TRUE, drive |-> drive]
Ata == INSTANCE Disk WITH DkSectors <- 4, DkChunk <- 3, DkFrames <- 3, DkWindow <- 2,
        DkPrds <- 3, DkPlaces <- {0, 1},
        DkKits <- {Ide("io", 0, TRUE), Ide("io", 1, TRUE), Ide("io", -1, TRUE),
                   Ide("memory", 0, TRUE), Ide("io", 0, FALSE)},
        DkLimits <- {0, 4}, DkCalls <- 2, DkFaults <- 1,
        dk <- s1, dkMem <- s2, dkDisk <- s3, dkReq <- s4, dkKit <- s5, dkFaulty <- s6,
        dkLeft <- s7

(* Volumes of up to four entries and images of them; machines that boot    *)
(* with and without LBA, a RAM disk, a memory map, a video mode.           *)
File(path, n) == [eq |-> TRUE, dest |-> path, slash |-> FALSE, src |-> n]
Folder(path) == [eq |-> FALSE, dest |-> path, slash |-> TRUE, src |-> -1]
Entries == {File(NA, 0), File(NA, 17), File(NA, 57), File(<<"long">>, 96), File(<<"d", "a">>, 48),
            File(<<"d", "e", "a">>, 1), Folder(ND), Folder(<<"d", "e">>), Folder(<<>>),
            [File(<<"d", "a">>, 33) EXCEPT !.eq = FALSE], [File(<<"long">>, 3) EXCEPT !.slash = TRUE],
            File(<<"e">>, -1)}
ImageOf(l, n, s) ==
    [sector |-> 4, loaderSize |-> 8, loader |-> l, boot |-> 4, bytes |-> n, slots |-> s]
Mode(size, bpp, linear, sets) ==
    [size |-> size, bpp |-> bpp, linear |-> linear, phys |-> 1, sets |-> sets, answered |-> TRUE]
VideoModes ==
    {<<>>, <<Mode("1024x768", 24, TRUE, TRUE), Mode("800x600", 32, TRUE, TRUE),
             Mode("1024x768", 32, TRUE, TRUE)>>,
     <<Mode("640x480", 32, FALSE, TRUE), Mode("1024x768", 32, TRUE, FALSE)>>}
E820(size, length) == [size |-> size, length |-> length]
MemoryMaps == {<<>>, <<E820(24, 5), E820(20, 0), E820(20, 2), E820(24, 1)>>, <<E820(24, 3), E820(16, 1)>>}
Pc == [kernel |-> 5, ram |-> 12, used |-> {0, 1, 3}, ext |-> TRUE, forceChs |-> FALSE,
       edd30 |-> TRUE, bus |-> "usb", geo |-> <<4, 2>>, tellsGeo |-> TRUE, high |-> "works",
       policy |-> "always", e820 |-> <<>>, vbe |-> TRUE, forceVga |-> FALSE, relaxed |-> FALSE,
       modes |-> <<>>, ata |-> "none", usb |-> "none"]
Pcs ==
    {[Pc EXCEPT !.kernel = k, !.ram = r, !.used = u, !.ext = x, !.geo = g, !.high = h, !.policy = p,
                !.bus = b] :
        k \in {1, 5, 16}, r \in {12, 16}, u \in {{0, 1, 3}, {0, 5}, {0, 7}}, x \in BOOLEAN,
        g \in {<<4, 2>>, <<3, 2>>}, h \in {"works", "fails", "wrong"},
        p \in {"always", "auto", "never"}, b \in {"usb", "ata", "other"}}
    \union
    {[Pc EXCEPT !.e820 = m, !.modes = s, !.vbe = v, !.forceVga = f, !.relaxed = r] :
        m \in MemoryMaps, s \in VideoModes, v \in BOOLEAN, f \in BOOLEAN, r \in BOOLEAN}
    \union
    {[Pc EXCEPT !.policy = p, !.ata = a, !.usb = u, !.forceChs = TRUE, !.tellsGeo = FALSE,
                !.geo = <<3, 4>>] :
        p \in {"always", "never"}, a \in {"none", "good", "bad"}, u \in {"none", "good", "bad"}}
Start == INSTANCE Boot WITH ImSpecs <- Entries, ImEntries <- 4,
        ImNeed <- [n \in {"a", "d", "e", "long"} |-> IF n = "long" THEN 4 ELSE 3], ImBlock <- 16,
        ImDirect <- 2, ImPtrs <- 2, ImFirst <- 3, ImTotal <- 20, ImInodes <- 14,
        ImKits <- {ImageOf(8, 0, 1), ImageOf(8, 5, 1), ImageOf(8, 8, 1), ImageOf(8, 8, 2),
                   ImageOf(4, 8, 1)},
        BtStage2 <- 2, BtChunk <- 3, BtWord <- 16, BtPerBlock <- 2, BtPerByte <- 2, BtE820 <- 2,
        BtDefault <- <<3, 4>>, BtCylinders <- 6, BtKits <- Pcs, BtFaults <- 1,
        im <- s1, imLeft <- s2, bt <- s1, mem <- s2, btKit <- s3, btFaults <- s4

(* Two signals, a stack of four frames, four processes; a tick counter     *)
(* that wraps after three ticks.                                           *)
Bags == {
 [calls |-> {"open timer", "settime", "read", "fork"}, signals |-> 0, most |-> 4],
 [calls |-> {"open timer", "settime", "dup", "poll", "close"}, signals |-> 0, most |-> 4],
 [calls |-> {"open timer", "settime", "open epoll", "ctl", "epoll"}, signals |-> 0, most |-> 5],
 [calls |-> {"open signal", "open epoll", "ctl", "epoll", "mask"}, signals |-> 2, most |-> 5],
 [calls |-> {"open signal", "read", "poll", "dup"}, signals |-> 2, most |-> 4]}
Sig == INSTANCE Signals WITH SgParts <- {"fault", "group"}, SgSignals <- {8, 11},
        SgTop <- 12, SgFrame <- 3, SgAlign <- 2, SgPids <- {1, 2, 3, 4}, SgBirths <- 5,
        SgCalls <- 5,
        sg <- s1, sgDue <- s2, sgBack <- s3, gp <- s4, fg <- s5, sgNext <- s6, sgPart <- s7,
        sgLeft <- s8,
        EvProcs <- {1, 2}, EvFds <- {3, 4, 5}, EvSignals <- {2, 15},
        TickMod <- 16, EvStart <- 13, Periods <- {0, 1, 2}, Kits <- Bags, EvTicks <- 3,
        fdt <- s1, task <- s2, clock <- s3, kit <- s4

(* Two accounts, one of them locked or without a password.                 *)
Entry(n, h) == [name |-> n, hash |-> h]
Etc == INSTANCE Accounts WITH AcUsers <- {"root", "ann"},
        AcShadows <- {<<Entry("root", ""), Entry("ann", "a")>>,
                      <<Entry("ann", "!"), Entry("root", "b")>>, <<>>},
        AcPasswords <- {"", "a", "b"}, AcRuns <- 2, AcLogins <- 1, AcFaults <- 1,
        acFile <- s1, pw <- s2, login <- s3, agreed <- s4, acAgain <- s5, acStart <- s6,
        acLeft <- s7

-----------------------------------------------------------------------------
Zero2 == s3 = 0 /\ s4 = 0 /\ s5 = 0 /\ s6 = 0 /\ s7 = 0 /\ s8 = 0 /\ s9 = 0
Zero3 == s4 = 0 /\ s5 = 0 /\ s6 = 0 /\ s7 = 0 /\ s8 = 0 /\ s9 = 0
Zero4 == s5 = 0 /\ s6 = 0 /\ s7 = 0 /\ s8 = 0 /\ s9 = 0
Zero5 == s6 = 0 /\ s7 = 0 /\ s8 = 0 /\ s9 = 0
Zero6 == s7 = 0 /\ s8 = 0 /\ s9 = 0
Zero7 == s8 = 0 /\ s9 = 0

MCInit ==
    /\ part \in Parts
    /\ \/ part = "console" /\ Con!ConInit /\ Zero5
       \/ part = "usb" /\ Bus!UsbInit /\ Zero5
       \/ part = "pty" /\ Tty!PtyInit /\ Zero5
       \/ part = "events" /\ Sig!EvInit /\ Zero4
       \/ part = "heap" /\ Mem!HeapInit /\ Zero3
       \/ part = "libc" /\ Lib!LibInit /\ Zero3
       \/ part = "exec" /\ Run!XInit /\ Zero3
       \/ part = "dl" /\ Run!DlInit /\ Zero4
       \/ part = "posix" /\ Lib!PxInit /\ Zero7
       \/ part = "shell" /\ Sh!ShInit
       \/ part = "gui" /\ Desktop!GuiInit /\ Zero3
       \/ part = "browse" /\ Tour!BrInit /\ Zero6
       \/ part = "sound" /\ Cards!SndInit /\ Zero6
       \/ part = "display" /\ Screens!DInit /\ s9 = 0
       \/ part = "editor" /\ Ed!EdInit /\ Zero6
       \/ part = "window" /\ Window!WInit /\ Zero5
       \/ part = "disk" /\ Ata!DkInit /\ Zero7
       \/ part = "image" /\ Start!ImInit /\ Zero2
       \/ part = "boot" /\ Start!BtInit /\ Zero4
       \/ part = "mouse" /\ Con!MsInit /\ Zero6
       \/ part = "signals" /\ Sig!SgInit /\ s9 = 0
       \/ part = "accounts" /\ Etc!AcInit /\ Zero7

MCNext ==
    /\ UNCHANGED part
    /\ \/ part = "console" /\ Con!ConNext /\ UNCHANGED <<s6, s7, s8, s9>>
       \/ part = "usb" /\ Bus!UsbNext /\ UNCHANGED <<s6, s7, s8, s9>>
       \/ part = "pty" /\ Tty!PtyNext /\ UNCHANGED <<s6, s7, s8, s9>>
       \/ part = "events" /\ Sig!EvNext /\ UNCHANGED <<s5, s6, s7, s8, s9>>
       \/ part = "heap" /\ Mem!HeapNext /\ UNCHANGED <<s4, s5, s6, s7, s8, s9>>
       \/ part = "libc" /\ Lib!LibNext /\ UNCHANGED <<s4, s5, s6, s7, s8, s9>>
       \/ part = "exec" /\ Run!XNext /\ UNCHANGED <<s4, s5, s6, s7, s8, s9>>
       \/ part = "dl" /\ Run!DlNext /\ UNCHANGED <<s5, s6, s7, s8, s9>>
       \/ part = "posix" /\ Lib!PxNext /\ UNCHANGED <<s8, s9>>
       \/ part = "shell" /\ Sh!ShNext
       \/ part = "gui" /\ Desktop!GuiNext /\ UNCHANGED <<s4, s5, s6, s7, s8, s9>>
       \/ part = "browse" /\ Tour!BrNext /\ UNCHANGED <<s7, s8, s9>>
       \/ part = "sound" /\ Cards!SndNext /\ UNCHANGED <<s7, s8, s9>>
       \/ part = "display" /\ Screens!DNext /\ UNCHANGED s9
       \/ part = "editor" /\ Ed!EdNext /\ UNCHANGED <<s7, s8, s9>>
       \/ part = "window" /\ Window!WNext /\ UNCHANGED <<s6, s7, s8, s9>>
       \/ part = "disk" /\ Ata!DkNext /\ UNCHANGED <<s8, s9>>
       \/ part = "image" /\ Start!ImNext /\ UNCHANGED <<s3, s4, s5, s6, s7, s8, s9>>
       \/ part = "boot" /\ Start!BtNext /\ UNCHANGED <<s5, s6, s7, s8, s9>>
       \/ part = "mouse" /\ Con!MsNext /\ UNCHANGED <<s7, s8, s9>>
       \/ part = "signals" /\ Sig!SgNext /\ UNCHANGED s9
       \/ part = "accounts" /\ Etc!AcNext /\ UNCHANGED <<s8, s9>>

MCSpec == MCInit /\ [][MCNext]_<<part, s1, s2, s3, s4, s5, s6, s7, s8, s9>>

-----------------------------------------------------------------------------
(* What each component promises, as its module states it.                  *)

\* The keyboard's decoder agrees with the keys that are down once its bytes
\* are read, whatever is in between, and a process that waits for a key or an
\* event that has come is awake; the mouse's packets are cut where
\* the mouse cuts them, and its motion is told whole, the remainder of every
\* scaled step included.
InputKept ==
    /\ part = "console" => Con!NoStuckKeys /\ Con!InputWakes
    /\ part = "mouse" => Con!PacketSizeAgrees /\ Con!MotionKept

\* A keyboard or mouse that was found stays scheduled except while the bus
\* lock is held, and a block a program reads from a stick is the answer to
\* its own command (Usb).
UsbServes == part = "usb" => Bus!HidListens /\ Bus!DataOfOwnCommand

\* A search for a device leaves alone the ports that serve one (Usb).
SearchLeavesOwned == [][part = "usb" => Bus!SearchStep]_<<part, s1, s2, s3, s4, s5>>

\* A process parked on a pseudo-terminal that could go on is woken, and a
\* reader sees every newline as the terminal's settings expand it (Pty).
PtyServes == part = "pty" => Tty!PtyWakes /\ Tty!OutputExpanded


\* The blocks of malloc tile the heap and none overlaps a live one; the slabs
\* of kalloc account for every object and give empty pages back (Heap).
AllocatorsSound == part = "heap" => Mem!HeapSound /\ Mem!SlabsSound


\* A launch or an execve that fails gives back what it took, and one that
\* succeeds starts the program its caller asked for on its arguments (Exec).
LaunchesWhole == part = "exec" => Run!FramesAccounted /\ Run!StartsAsAsked




\* PCM is played whole and in order, and no note outlives its effect (Sound).
SoundPlayed == part = "sound" => Cards!PcmPlayedWhole /\ Cards!NoteReleased



\* The shell window gives back every descriptor and process it took, keeps
\* its cursor among its rows and recalls the lines entered (ShellWindow).
WindowKeeps ==
    part = "window" => Window!WindowReleases /\ Window!CursorInRows /\ Window!RecallsEntered


\* A handler returns to what it interrupted, the console belongs to a group
\* that exists, and a parent is a process that was there (Signals).
SignalsSound == part = "signals" => Sig!HandlersResume /\ Sig!ConsoleGroup /\ Sig!ParentsReal

=============================================================================
