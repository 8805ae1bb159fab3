-------------------------------- MODULE Exec --------------------------------
(***************************************************************************)
(* Launching programs (exec/elf_loader.c and the exec system calls): an    *)
(* ELF image, and its interpreter if it names one, become the areas of a   *)
(* new process (spawn) or of the caller (execve); the arguments, the       *)
(* environment and the auxiliary vector are laid out on its stack.         *)
(*                                                                         *)
(* A system call is atomic.  What can fail is what runs out of frames: the *)
(* pool is small.  Addresses are units; XWord of them hold a pointer and a *)
(* string has one unit per character and one for its end.  Image pages are *)
(* brought in by faults, so mapping an image takes no frame.               *)
(***************************************************************************)
EXTENDS Integers, Sequences, FiniteSets, SequencesExt, FiniteSetsExt

CONSTANTS
    XWord, XPage,
    XCode, XPie, XMmap, XInterp, XHeap, XStackLow, XStackTop, \* USER_*_BASE
    XFiles,        \* [base, dot] -> image: [elf, type, segs, interp, entry]
    XNames,        \* the names programs are asked for by
    XVectors,      \* argument and environment vectors
    XMaxArgs, XArgUnits,   \* PROCESS_MAX_ARGS, PROCESS_ARG_BYTES
    XFrames, XProcs, XCalls

VARIABLES xpool, xproc, xleft

xVars == <<xpool, xproc, xleft>>

NoName == [base |-> "", dot |-> FALSE]

(* A process: its areas, the strings the kernel keeps for it, the frames   *)
(* of each kind it owns, what its first instruction finds on the stack,    *)
(* and (history) what its launcher asked for.                              *)
NoProc == [live |-> FALSE, areas |-> {}, args |-> <<>>, env |-> <<>>, aux |-> <<>>,
           pcb |-> 0, pd |-> 0, pages |-> 0, kstack |-> 0, argArena |-> 0, envArena |-> 0,
           entry |-> 0, esp |-> 0, mem |-> <<>>, group |-> FALSE,
           asked |-> [file |-> NoName, args |-> <<>>, env |-> <<>>]]

Owned(p) == p.pcb + p.pd + p.pages + p.kstack + p.argArena + p.envArena

-----------------------------------------------------------------------------
(* Images.                                                                 *)

PageDown(u) == (u \div XPage) * XPage
PageUp(u) == ((u + XPage - 1) \div XPage) * XPage

ValidHeader(img) == img.elf /\ img.type \in {"exec", "dyn"}

(* elf_main_load_base.                                                     *)
MainLoadBase(img) == IF img.type = "dyn" /\ img.interp # NoName THEN XPie ELSE 0

(* elf_map_image_into_process: an area per segment; process_vm_add refuses *)
(* one that overlaps another.                                              *)
SegArea(seg, bias, kind) ==
    [lo |-> PageDown(bias + seg.at), hi |-> PageUp(bias + seg.at + seg.len), kind |-> kind]

MapImage(areas, img, dynBase, kind) ==
    LET bias == IF img.type = "dyn" THEN dynBase ELSE 0
        new == {SegArea(img.segs[i], bias, kind) : i \in DOMAIN img.segs}
        apart == \A i, j \in DOMAIN img.segs : i # j =>
                    LET a == SegArea(img.segs[i], bias, kind) b == SegArea(img.segs[j], bias, kind)
                    IN a.hi <= b.lo \/ b.hi <= a.lo
    IN [ok |-> /\ ValidHeader(img) /\ img.segs # <<>> /\ apart
               /\ \A a \in new : a.lo >= XCode /\ a.hi < XStackTop
               /\ \A a \in new, b \in areas : a.hi <= b.lo \/ b.hi <= a.lo,
        areas |-> areas \cup new,
        low |-> IF new = {} THEN 0 ELSE Min({a.lo : a \in new}),
        high |-> IF new = {} THEN 0 ELSE Max({a.hi : a \in new}),
        entry |-> img.entry + bias, base |-> bias]

(* elf_validate_main_layout.                                               *)
MainLayoutOk(img, m) ==
    /\ img.type = "dyn" => img.interp # NoName
    /\ img.interp # NoName => /\ ~(m.low < XInterp /\ m.high > XMmap)
                              /\ m.high <= XHeap

(* elf_validate_interp_layout.                                             *)
InterpLayoutOk(m, i) ==
    /\ i.low >= XInterp /\ i.high <= XHeap
    /\ ~(m.high > i.low /\ m.low < i.high)

(* The main image and, if it names one, its interpreter; the interpreter's *)
(* file is read into frames that go back afterwards.                       *)
MapProgram(img, pool) ==
    LET m == MapImage({}, img, MainLoadBase(img), "main")
        inFile == img.interp \in DOMAIN XFiles /\ pool >= 1
        i == MapImage(m.areas, XFiles[img.interp], XInterp, "interp") IN
    IF ~m.ok \/ ~MainLayoutOk(img, m)
    THEN [ok |-> FALSE, areas |-> {}, entry |-> 0, aux |-> <<>>]
    ELSE IF img.interp = NoName
    THEN [ok |-> TRUE, areas |-> m.areas, entry |-> m.entry, aux |-> <<>>]
    ELSE IF ~inFile THEN [ok |-> FALSE, areas |-> {}, entry |-> 0, aux |-> <<>>]
    ELSE [ok |-> i.ok /\ InterpLayoutOk(m, i), areas |-> i.areas, entry |-> i.entry,
          aux |-> <<m.base, XWord, Len(img.segs), m.entry, i.base, XPage>>]

StackArea == [lo |-> XStackLow, hi |-> XStackTop, kind |-> "stack"]

-----------------------------------------------------------------------------
(* elf_setup_user_stack: strings, then the three vectors, then the frame   *)
(* of _start, downwards from the top of the stack.                         *)

\* A string's units, and a word's.
Chars(str) == Append(str, 0)
WordUnits(w) == [k \in 1 .. XWord |-> IF k = 1 THEN w ELSE -1]

Strings(vec) == FlattenSeq([i \in DOMAIN vec |-> Chars(vec[i])])
Words(ws) == FlattenSeq([i \in DOMAIN ws |-> WordUnits(ws[i])])

StringUnits(vec) == Len(Strings(vec))

\* The pointers to the strings of vec, which end at top, and the null pointer.
Pointers(vec, top) ==
    [i \in 1 .. Len(vec) + 1 |-> IF i > Len(vec) THEN 0
                                 ELSE top - Len(Strings(SubSeq(vec, i, Len(vec))))]

AuxWords(aux) == [i \in 1 .. 2 * Len(aux) + 2 |->
                    IF i > 2 * Len(aux) THEN 0
                    ELSE IF i % 2 = 1 THEN (i + 1) \div 2 ELSE aux[i \div 2]]

\* mem[1] is the unit at esp, its last element the one below the top.
Laid(args, env, aux, pad) ==
    LET argTop == XStackTop - StringUnits(env)
        envp == argTop - StringUnits(args) - pad - XWord * (Len(env) + 1)
        argv == envp - XWord * (Len(args) + 1)
        auxv == argv - XWord * (2 * Len(aux) + 2)
        esp == auxv - XWord * 5
    IN [esp |-> esp,
        mem |-> Words(<<0, Len(args), argv, envp, auxv>>) \o Words(AuxWords(aux))
                \o Words(Pointers(args, argTop)) \o Words(Pointers(env, XStackTop))
                \o [k \in 1 .. pad |-> 0] \o Strings(args) \o Strings(env)]

SetupUserStack(args, env, aux) ==
    Laid(args, env, aux, (XStackTop - StringUnits(env) - StringUnits(args)) % XWord)

StackPages(esp) == (XStackTop - PageDown(esp)) \div XPage

-----------------------------------------------------------------------------
(* The steps of a launch.  s = [ok, pool, p]: a step that needs n frames   *)
(* of some kind takes them or fails, and after a failure nothing happens.  *)

Take(s, field, n) ==
    IF ~s.ok THEN s
    ELSE IF s.pool < n THEN [s EXCEPT !.ok = FALSE]
    ELSE [s EXCEPT !.pool = @ - n, !.p[field] = @ + n]

Need(s, cond) == [s EXCEPT !.ok = @ /\ cond]

\* The next step, and the next step unless an earlier one failed.
Then(s, Do(_)) == Do(s)
IfOk(s, Do(_)) == IF s.ok THEN Do(s) ELSE s

\* sys_copy_user_strv: a vector that is too long or too large is refused.
VectorOk(vec) == Len(vec) <= XMaxArgs /\ StringUnits(vec) <= XArgUnits

(* process_set_args and process_set_env: the arena is allocated once.      *)
SetArgs(s, args) ==
    IfOk(Take(Need(s, VectorOk(args)), "argArena",
              IF args # <<>> /\ s.p.argArena = 0 THEN 1 ELSE 0),
         LAMBDA t : [t EXCEPT !.p.args = args])
SetEnv(s, env) ==
    IfOk(Take(Need(s, VectorOk(env)), "envArena",
              IF env # <<>> /\ s.p.envArena = 0 THEN 1 ELSE 0),
         LAMBDA t : [t EXCEPT !.p.env = env])

(* The mapping of the program, the stack area and the auxiliary vector.    *)
Mapped(s, r) ==
    IF ~r.ok \/ \E a \in r.areas : a.hi > XStackLow THEN [s EXCEPT !.ok = FALSE]
    ELSE [s EXCEPT !.p.areas = r.areas \cup {StackArea}, !.p.entry = r.entry, !.p.aux = r.aux]
Map(s, img) == IfOk(s, LAMBDA t : Mapped(t, MapProgram(img, t.pool)))

StackIs(s, st) ==
    IfOk(Take(Need(s, st.esp >= XStackLow), "pages", StackPages(st.esp)),
         LAMBDA t : [t EXCEPT !.p.esp = st.esp, !.p.mem = st.mem])
LayStack(s, args, env) == StackIs(s, SetupUserStack(args, env, s.p.aux))

(* elf_inherit_launch_context: an environment that cannot be copied is     *)
(* left out.                                                               *)
InheritEnv(s, env) == Then(SetEnv(s, env), LAMBDA t : IF t.ok THEN t ELSE s)

(* elf_run_image_with_group, with the image's file held in one frame.      *)
Launch(pool, img, p) ==
    [ok |-> ValidHeader(img) /\ (img.type = "dyn" => img.interp # NoName), pool |-> pool, p |-> p]
LaunchSpace(s, img, env) ==
    Map(Take(IfOk(Take(s, "pcb", 1), LAMBDA t : InheritEnv(t, env)), "pd", 1), img)
RunImage(pool, img, args, env, group, room) ==
    Then(Take(LaunchSpace(Launch(pool, img, [NoProc EXCEPT !.group = group]), img, env),
              "kstack", 1),
         LAMBDA s : Need(SetArgs(LayStack(s, args, s.p.env), args), room))

(* elf_exec_image_into: the areas go first; the frames of the old address  *)
(* space go back only once the new one is complete.                        *)
MutExecFailed(pool, old, s) == [pool |-> s.pool, p |-> [s.p EXCEPT !.pd = old.pd, !.pages = old.pages]]

ExecFailed(pool, old, s) ==
    [pool |-> s.pool + s.p.pd + s.p.pages,
     p |-> [s.p EXCEPT !.pd = old.pd, !.pages = old.pages, !.entry = old.entry,
                       !.esp = old.esp, !.mem = old.mem, !.areas = {}]]

ExecEnd(pool, old, s) ==
    IF ~s.ok THEN [ok |-> FALSE] @@ ExecFailed(pool, old, s)
    ELSE [ok |-> TRUE, pool |-> s.pool + old.pd + old.pages, p |-> s.p]
ExecSpace(s, img, args, env) ==
    LayStack(SetEnv(SetArgs(Map([s EXCEPT !.p.areas = {}], img), args), env), args, env)
ExecImage(pool, old, img, args, env) ==
    Then(Take(Launch(pool, img, [old EXCEPT !.pd = 0, !.pages = 0]), "pd", 1),
         LAMBDA s : IF s.ok THEN ExecEnd(pool, old, ExecSpace(s, img, args, env))
                    ELSE [ok |-> FALSE, pool |-> pool, p |-> old])

-----------------------------------------------------------------------------
(* The system calls.                                                       *)

XInit ==
    /\ xpool = XFrames - 4
    /\ xproc = [q \in XProcs |->
                  IF q = Min(XProcs)
                  THEN [NoProc EXCEPT !.live = TRUE, !.pcb = 1, !.pd = 1, !.pages = 1, !.kstack = 1,
                                      !.areas = {StackArea}]
                  ELSE NoProc]
    /\ xleft = XCalls

(* elf_run_named_with_group, elf_exec_named_into: the name, or the name    *)
(* with ".elf" if it has no dot.                                           *)
FileOf(name) ==
    IF name \in DOMAIN XFiles THEN name
    ELSE IF ~name.dot /\ [name EXCEPT !.dot = TRUE] \in DOMAIN XFiles
    THEN [name EXCEPT !.dot = TRUE] ELSE NoName

Asked(file, args, env) == [file |-> file, args |-> args, env |-> env]

(* sys_exec_spawn_impl: a failed launch destroys what there is of the      *)
(* process; the image's file goes back either way.                         *)
ProcessDestroy(s) == s.pool + Owned(s.p)

Spawn(q, name, args, group) ==
    /\ xproc[q].live /\ xleft > 0 /\ xleft' = xleft - 1
    /\ LET f == FileOf(name)
           slots == {c \in XProcs : ~xproc[c].live} IN
       IF ~VectorOk(args) \/ f = NoName \/ xpool < 1 THEN UNCHANGED <<xpool, xproc>>
       ELSE \E s \in {RunImage(xpool - 1, XFiles[f], args, xproc[q].env, group, slots # {})} :
            IF s.ok
            THEN /\ xpool' = s.pool + 1
                 /\ xproc' = [xproc EXCEPT ![Min(slots)] = [s.p EXCEPT !.live = TRUE,
                                                   !.asked = Asked(f, args, s.p.env)]]
            ELSE xpool' = ProcessDestroy(s) + 1 /\ UNCHANGED xproc

(* sys_execve_impl; no environment (inherit) hands on the caller's.        *)
Execve(q, name, args, env, inherit) ==
    /\ xproc[q].live /\ xleft > 0 /\ xleft' = xleft - 1
    /\ LET f == FileOf(name)
           e == IF inherit THEN xproc[q].env ELSE env IN
       IF ~VectorOk(args) \/ ~VectorOk(e) \/ f = NoName \/ xpool < 1 THEN UNCHANGED <<xpool, xproc>>
       ELSE \E s \in {ExecImage(xpool - 1, xproc[q], XFiles[f], args, e)} :
            /\ xpool' = s.pool + 1
            /\ xproc' = [xproc EXCEPT ![q] = IF s.ok THEN [s.p EXCEPT !.asked = Asked(f, args, e)]
                                             ELSE s.p]

(* process_destroy of a process that exited.                               *)
XExit(q) ==
    /\ xproc[q].live /\ q # Min(XProcs) /\ xleft > 0 /\ xleft' = xleft - 1
    /\ xpool' = xpool + Owned(xproc[q])
    /\ xproc' = [xproc EXCEPT ![q] = NoProc]

XNext ==
    \E q \in XProcs :
       \/ XExit(q)
       \/ \E name \in XNames, args \in XVectors :
             \/ \E group \in BOOLEAN : Spawn(q, name, args, group)
             \/ \E env \in XVectors, inherit \in BOOLEAN : Execve(q, name, args, env, inherit)

XSpec == XInit /\ [][XNext]_xVars

-----------------------------------------------------------------------------
(* Every frame is in the pool or owned by one live process, whatever step  *)
(* of a launch failed: elf_run_image_with_group destroys the half-made     *)
(* process, elf_exec_image_into the half-made address space, and both give *)
(* back the file images of the program and of its interpreter.             *)
FramesAccounted ==
    xpool + FoldSet(LAMBDA q, n : n + Owned(xproc[q]), 0, XProcs) = XFrames

\* What the program p reads at address a: a unit, a string, a vector of strings.
At(p, a) == IF a \in p.esp .. XStackTop - 1 THEN p.mem[a - p.esp + 1] ELSE -1
StringIn(p, a) ==
    LET end == Min({u \in a .. XStackTop - 1 : At(p, u) = 0} \cup {XStackTop}) IN
    [i \in 1 .. end - a |-> At(p, a + i - 1)]
VectorIn(p, a) ==
    LET n == Min({k \in 0 .. XMaxArgs : At(p, a + XWord * k) = 0} \cup {XMaxArgs}) IN
    [i \in 1 .. n |-> StringIn(p, At(p, a + XWord * (i - 1)))]

\* What _start(argc, argv, envp, auxv) finds at its stack pointer.
Started(p) ==
    LET w(k) == At(p, p.esp + XWord * k) IN
    /\ p.esp % XWord = 0
    /\ w(1) = Len(p.asked.args)
    /\ VectorIn(p, w(2)) = p.asked.args
    /\ VectorIn(p, w(3)) = p.asked.env
    /\ \A i \in DOMAIN p.aux : /\ At(p, w(4) + XWord * (2 * i - 2)) = i
                               /\ At(p, w(4) + XWord * (2 * i - 1)) = p.aux[i]
    /\ At(p, w(4) + XWord * 2 * Len(p.aux)) = 0

(* A launched program starts as it was asked for: its stack holds the      *)
(* arguments and the environment and, for a dynamic program, the auxiliary *)
(* vector; it starts in its interpreter if it has one; and its image, its  *)
(* interpreter, the heap's base and the stack are apart                    *)
(* (elf_setup_user_stack, elf_map_image_into_process, the two layout       *)
(* checks).                                                                *)
StartsAsAsked ==
    \A q \in XProcs : LET p == xproc[q] IN
       p.live /\ p.asked.file # NoName /\ p.areas # {} =>
       /\ Started(p)
       /\ \A a, b \in p.areas : a # b => a.hi <= b.lo \/ b.hi <= a.lo
       /\ LET img == XFiles[p.asked.file]
              home == {a \in p.areas : a.kind = IF img.interp = NoName THEN "main" ELSE "interp"}
          IN /\ \E a \in home : p.entry \in a.lo .. a.hi - 1
             /\ img.interp # NoName => \A a \in p.areas \ {StackArea} : a.hi <= XHeap

-----------------------------------------------------------------------------
(***************************************************************************)
(* The dynamic loader (user/ld_smallos.c): the libraries a program needs   *)
(* are loaded, bound and initialised before it starts; dlopen, dlsym and   *)
(* dlclose do the same while it runs; a failed dlopen jumps back and takes *)
(* the objects it added out of the table.                                  *)
(*                                                                         *)
(* A library is a record of DlShelf: its soname, what it needs, the        *)
(* symbols it defines and uses, its pages and whether it is a library.     *)
(* Object 1 is the program.  L = [ok, ...] threads the loader's state      *)
(* through a call; once ok is FALSE nothing more happens (ld_fail).        *)
(***************************************************************************)

CONSTANTS
    DlShelves,     \* the sets of files a program may find, by name
    DlNames,       \* what dlopen is asked for
    DlSymbols,
    DlObjects,     \* LD_MAX_OBJECTS
    DlBase, DlLimit,   \* LD_MMAP_BASE, LD_MMAP_LIMIT, in pages
    DlCalls

VARIABLES
    ld,       \* the loader's state
    handle,   \* history: object -> times it is open
    found,    \* what the last dlsym found: an object, or 0
    dlLeft

dlVars == <<ld, handle, found, dlLeft>>

Main == "<main>"
Shelf == DlShelves[ld.shelf]

-----------------------------------------------------------------------------
(* Loading.                                                                *)

Fail(L) == [L EXCEPT !.ok = FALSE, !.err = TRUE]

FindLoaded(L, name) ==
    LET hits == {i \in DOMAIN L.objs : L.objs[i].lib = name \/ L.objs[i].soname = name} IN
    IF hits = {} THEN 0 ELSE Min(hits)

NewObject(name, file, runtime) ==
    [lib |-> name, soname |-> file.soname, deps |-> <<>>, refs |-> IF runtime THEN 0 ELSE 1,
     active |-> TRUE, global |-> ~runtime, pinned |-> ~runtime, relocated |-> FALSE,
     depsLoaded |-> FALSE, depsLoading |-> FALSE, inited |-> FALSE, visiting |-> FALSE,
     bind |-> [s \in {} |-> 0], lo |-> 0, hi |-> 0]

(* ld_alloc_dso_area and the fixed mappings of load_object: page by page,  *)
(* and mmap refuses a page that is in use.                                 *)
PlaceObject(L, file) ==
    LET lo == L.next hi == lo + file.pages IN
    IF hi > DlLimit THEN Fail(L)
    ELSE [L EXCEPT !.next = hi, !.cursor = IF hi > @ THEN hi ELSE @,
                   !.clash = @ \/ \E p \in lo .. hi - 1 : p \in L.used,
                   !.used = @ \cup lo .. hi - 1]

\* The file's image: mmap puts it above all it ever mapped, and so go the libraries.
ReadImage(L, image) == [L EXCEPT !.cursor = image, !.next = IF image > @ THEN image ELSE @]

(* load_object: a library already loaded under its soname is used instead. *)
LoadObject(L, shelf, name) ==
    LET file == shelf[name]
        image == L.cursor + file.pages IN
    IF ~L.ok \/ FindLoaded(L, name) # 0 THEN L
    ELSE IF Len(L.objs) >= DlObjects \/ name \notin DOMAIN shelf \/ image > DlLimit THEN Fail(L)
    ELSE LET M == ReadImage(L, image)
             N == PlaceObject(M, file) IN
         IF ~file.elf THEN Fail(M)
         ELSE IF FindLoaded(M, file.soname) # 0 THEN M
         ELSE IF ~N.ok THEN N
         ELSE [N EXCEPT !.objs = Append(@, [NewObject(name, file, N.runtime) EXCEPT
                                              !.lo = N.next - file.pages, !.hi = N.next])]

\* The object load_object returned for name.
Loaded(L, shelf, name) ==
    IF FindLoaded(L, name) # 0 THEN FindLoaded(L, name) ELSE FindLoaded(L, shelf[name].soname)

(* load_object_dependencies.                                               *)
RECURSIVE LoadDeps(_, _, _), LoadNeeded(_, _, _, _)

LoadDeps(L, shelf, i) ==
    IF ~L.ok \/ L.objs[i].depsLoaded \/ L.objs[i].depsLoading THEN L
    ELSE IfOk(LoadNeeded([L EXCEPT !.objs[i].depsLoading = TRUE, !.objs[i].deps = <<>>], shelf, i, 1),
              LAMBDA M : [M EXCEPT !.objs[i].depsLoading = FALSE, !.objs[i].depsLoaded = TRUE])

LoadNeeded(L, shelf, i, n) ==
    IF ~L.ok \/ n > Len(shelf[L.objs[i].lib].needed) THEN L
    ELSE Then(shelf[L.objs[i].lib].needed[n], LAMBDA name :
           IfOk(LoadObject(L, shelf, name), LAMBDA M :
             Then(Loaded(M, shelf, name), LAMBDA d :
               LoadNeeded(LoadDeps([M EXCEPT !.objs[d].active = TRUE,
                                             !.objs[i].deps = Append(@, d)], shelf, d), shelf, i, n + 1))))

-----------------------------------------------------------------------------
(* Binding.                                                                *)

(* find_symbol_in_object, over the objects in table order.                 *)
Definers(L, shelf, s) == {i \in DOMAIN L.objs : L.objs[i].active /\ s \in shelf[L.objs[i].lib].defs}

LookupSymbol(L, shelf, s, from) ==
    LET ds == {i \in Definers(L, shelf, s) : i >= from} IN IF ds = {} THEN 0 ELSE Min(ds)

(* relocate_one: a symbol the object defines itself may be another's that  *)
(* stands before it; a copy relocation of the program looks behind it.     *)
BindSymbol(L, shelf, i, s) ==
    LET lib == shelf[L.objs[i].lib] IN
    IF s \in lib.defs
    THEN LET d == LookupSymbol(L, shelf, s, 1) IN IF d # 0 /\ d < i THEN d ELSE i
    ELSE LookupSymbol(L, shelf, s, IF s \in lib.copies THEN 2 ELSE 1)

(* relocate_object.                                                        *)
RelocateObject(L, shelf, i) ==
    LET lib == shelf[L.objs[i].lib]
        uses == lib.undefs \cup lib.defs
        bind == [s \in uses |-> BindSymbol(L, shelf, i, s)] IN
    IF ~L.ok \/ L.objs[i].relocated THEN L
    ELSE IF \E s \in uses \ lib.weak : bind[s] = 0 THEN Fail(L)
    ELSE [L EXCEPT !.objs[i].relocated = TRUE, !.objs[i].bind = bind]

\* The objects after the program's, in table order.
Others(L) == [k \in 1 .. Len(L.objs) - 1 |-> k + 1]

RelocateAll(L, shelf) ==
    FoldLeft(LAMBDA M, i : RelocateObject(M, shelf, i), L, Others(L))

-----------------------------------------------------------------------------
(* Initialisers and finalisers.                                            *)

Reach(L, i) ==
    LET step(S) == S \cup UNION {ToSet(L.objs[j].deps) : j \in S}
        F[n \in Nat] == IF n = 0 THEN {i} ELSE step(F[n - 1])
    IN F[Len(L.objs)]

\* Objects that need each other have no order.
Knot(L, i, j) == j \in Reach(L, i) /\ i \in Reach(L, j)

(* run_object_initializer; early records one that ran before one it needs. *)
RECURSIVE RunInitializer(_, _), InitDeps(_, _, _)

RunInitializer(L, i) ==
    IF ~L.objs[i].active \/ L.objs[i].inited \/ L.objs[i].visiting THEN L
    ELSE LET M == InitDeps([L EXCEPT !.objs[i].visiting = TRUE], i, 1) IN
         [M EXCEPT !.objs[i].inited = TRUE, !.objs[i].visiting = FALSE,
                   !.early = @ \/ \E d \in ToSet(M.objs[i].deps) : ~M.objs[d].inited /\ ~Knot(M, i, d)]

InitDeps(L, i, n) ==
    IF n > Len(L.objs[i].deps) THEN L ELSE InitDeps(RunInitializer(L, L.objs[i].deps[n]), i, n + 1)

(* object_should_finalize, object_has_unfinalized_dependent.               *)
ShouldFinalize(L, i) == L.exiting \/ (~L.objs[i].pinned /\ L.objs[i].refs = 0)

HasDependent(L, i, closure) ==
    \E j \in closure \ {1, i} : /\ ShouldFinalize(L, j)
                                /\ L.objs[j].active \/ L.objs[j].inited
                                /\ i \in ToSet(L.objs[j].deps)

(* finalize_one_object; early records one that ran while it was needed.    *)
FinalizeOne(L, i) ==
    LET o == L.objs[i] IN
    [L EXCEPT !.early = @ \/ /\ o.active /\ o.inited
                             /\ \E j \in DOMAIN L.objs \ {1} : /\ L.objs[j].inited /\ ~Knot(L, i, j)
                                                               /\ i \in ToSet(L.objs[j].deps),
              !.objs[i].inited = IF o.active THEN FALSE ELSE @,
              !.objs[i].active = FALSE,
              !.objs[i].global = o.pinned]

(* run_finalizer_set: passes over the table until one finalises nothing.   *)
RECURSIVE FinalizePass(_, _, _, _), FinalizeSet(_, _)

FinalizePass(L, closure, i, progress) ==
    IF i > Len(L.objs) THEN [L |-> L, closure |-> closure, progress |-> progress]
    ELSE IF i \in closure /\ ~HasDependent(L, i, closure) /\ ShouldFinalize(L, i)
    THEN FinalizePass(FinalizeOne(L, i), closure \ {i}, i + 1, TRUE)
    ELSE FinalizePass(L, closure, i + 1, progress)

FinalizeSet(L, closure) ==
    LET r == FinalizePass(L, closure, 2, FALSE) IN
    IF r.progress THEN FinalizeSet(r.L, r.closure) ELSE r.L

-----------------------------------------------------------------------------
(* The services.                                                           *)

\* retain_, activate_, globalize_ and release_object_tree walk what an object needs.
OnTree(L, i, f(_)) == FoldSet(LAMBDA j, M : [M EXCEPT !.objs[j] = f(@)], L, Reach(L, i))

Activated(o) == [o EXCEPT !.active = TRUE, !.global = IF o.active THEN o.global ELSE o.pinned]
Retained(o) == [Activated(o) EXCEPT !.refs = @ + 1]
Released(o) == [o EXCEPT !.refs = IF @ > 0 THEN @ - 1 ELSE 0]

(* rollback_runtime_objects.                                               *)
Rollback(L, count) ==
    [L EXCEPT !.ok = TRUE, !.objs = SubSeq(@, 1, count), !.runtime = TRUE]

(* ld_dlopen_service, after the flags are checked.                         *)
Globalized(L, i, global) ==
    IF global THEN OnTree(L, i, LAMBDA o : [o EXCEPT !.global = TRUE]) ELSE L
OpenTree(L, shelf, i, global) ==
    IfOk(LoadDeps([L EXCEPT !.objs[i] = Activated(@)], shelf, i),
         LAMBDA M : RelocateAll(Globalized(OnTree(M, i, Activated), i, global), shelf))
Opened(count, L, i) ==
    IF L.ok THEN [L |-> OnTree(RunInitializer(L, i), i, Retained), i |-> i]
    ELSE [L |-> Rollback(L, count), i |-> 0]
DlopenResult(L, shelf, name, global) ==
    Then(LoadObject([L EXCEPT !.err = FALSE], shelf, name), LAMBDA M :
      IF M.ok THEN Then(Loaded(M, shelf, name), LAMBDA i :
                     Opened(Len(L.objs), OpenTree(M, shelf, i, global), i))
      ELSE Opened(Len(L.objs), M, 0))

Calling == dlLeft > 0 /\ ~ld.exiting /\ dlLeft' = dlLeft - 1

Dlopen(name, global) ==
    /\ Calling
    /\ \E r \in {DlopenResult(ld, Shelf, name, global)} :
       /\ ld' = r.L
       /\ handle' = [i \in DOMAIN r.L.objs |->
                       (IF i \in DOMAIN handle THEN handle[i] ELSE 0) + (IF i = r.i THEN 1 ELSE 0)]
    /\ found' = 0


CloseResult(L, i) ==
    LET M == OnTree([L EXCEPT !.err = FALSE], i, Released) IN
    IF L.objs[i].pinned THEN [L EXCEPT !.err = FALSE]
    ELSE IF M.objs[i].refs = 0 THEN FinalizeSet(M, Reach(M, i)) ELSE M

Dlclose(i) ==
    /\ Calling /\ handle[i] > 0
    /\ ld' = CloseResult(ld, i)
    /\ handle' = [handle EXCEPT ![i] = @ - 1]
    /\ found' = 0

(* dlsym_in_tree: depth first, an object before what it needs.             *)
RECURSIVE SymInTree(_, _, _, _), SymInDeps(_, _, _, _, _)

SymInTree(L, i, s, visited) ==
    IF i \in visited \/ ~L.objs[i].active THEN [hit |-> 0, visited |-> visited]
    ELSE IF s \in DlShelves[L.shelf][L.objs[i].lib].defs THEN [hit |-> i, visited |-> visited]
    ELSE SymInDeps(L, i, s, visited \cup {i}, 1)

SymInDeps(L, i, s, visited, n) ==
    IF n > Len(L.objs[i].deps) THEN [hit |-> 0, visited |-> visited]
    ELSE LET r == SymInTree(L, L.objs[i].deps[n], s, visited) IN
         IF r.hit # 0 THEN r ELSE SymInDeps(L, i, s, r.visited, n + 1)

(* ld_dlsym_service, of a handle (i) or of RTLD_DEFAULT (0).               *)
Dlsym(i, s) ==
    /\ Calling /\ (i = 0 \/ (i \in DOMAIN handle /\ handle[i] > 0))
    /\ found' = IF i = 0
                THEN LET ds == {j \in Definers(ld, Shelf, s) : ld.objs[j].global}
                     IN IF ds = {} THEN 0 ELSE Min(ds)
                ELSE SymInTree(ld, i, s, {}).hit
    /\ ld' = [ld EXCEPT !.err = (found' = 0)]
    /\ UNCHANGED handle

(* ld_dlerror_service.                                                     *)
Dlerror ==
    /\ Calling /\ ld.err /\ ld' = [ld EXCEPT !.err = FALSE]
    /\ found' = 0 /\ UNCHANGED handle

(* The program maps memory of its own (external: the kernel's mmap).       *)
AppMap(n) ==
    /\ Calling /\ ld.cursor + n <= DlLimit
    /\ ld' = [ld EXCEPT !.used = @ \cup ld.cursor .. ld.cursor + n - 1, !.cursor = @ + n]
    /\ found' = 0 /\ UNCHANGED handle

(* run_finalizers, once, when the program exits.                           *)
Exit ==
    /\ ~ld.exiting /\ dlLeft' = 0
    /\ ld' = FinalizeSet([ld EXCEPT !.exiting = TRUE], 2 .. Len(ld.objs))
    /\ handle' = [i \in DOMAIN handle |-> 0] /\ found' = 0

(* object_from_phdr: the kernel mapped the program, its own start runs it. *)
MainObject(file) == [NewObject(Main, file, FALSE) EXCEPT !.inited = TRUE]

(* ld_smallos_main: the program's object, what it needs, binding behind    *)
(* the program first, and the initialisers in table order.                 *)
RunStart(L) ==
    IfOk(L, LAMBDA M : [FoldLeft(RunInitializer, M, Others(M)) EXCEPT !.runtime = TRUE])
StartResult(name) ==
    LET shelf == DlShelves[name]
        L0 == [ok |-> TRUE, err |-> FALSE, shelf |-> name, objs |-> <<MainObject(shelf[Main])>>, runtime |-> FALSE,
               next |-> DlBase, cursor |-> DlBase, used |-> {}, clash |-> FALSE, early |-> FALSE,
               exiting |-> FALSE]
    IN RunStart(RelocateObject(RelocateAll(LoadDeps(L0, shelf, 1), shelf), shelf, 1))

DlInit ==
    /\ \E name \in DOMAIN DlShelves : \E L \in {StartResult(name)} : L.ok /\ ld = L
    /\ handle = [i \in DOMAIN ld.objs |-> 0]
    /\ found = 0
    /\ dlLeft = DlCalls

DlNext ==
    \/ \E name \in DlNames, global \in BOOLEAN : Dlopen(name, global)
    \/ \E i \in DOMAIN handle : Dlclose(i)
    \/ \E i \in DOMAIN handle \cup {0}, s \in DlSymbols : Dlsym(i, s)
    \/ Dlerror
    \/ \E n \in {1, 2} : AppMap(n)
    \/ Exit

DlSpec == DlInit /\ [][DlNext]_dlVars

-----------------------------------------------------------------------------
Held(i) == /\ ~ld.exiting
           /\ \E h \in DOMAIN handle : (handle[h] > 0 \/ ld.objs[h].pinned) /\ i \in Reach(ld, h)
Knotted(i) == \E j \in DOMAIN ld.objs : j # i /\ Knot(ld, i, j)

(* Between two calls a library is initialised exactly while the program or *)
(* a handle it has open needs it, directly or through other libraries,     *)
(* whatever dlopens failed in between; at exit every library is finalised; *)
(* and no initialiser runs before those it needs, no finaliser while a     *)
(* library that needs it is still up; dlsym finds only such libraries      *)
(* (dlsym_in_tree, run_object_initializer,                                 *)
(* release_object_tree, run_finalizer_set, rollback_runtime_objects).      *)
(* Libraries that need each other are initialised but not finalised.       *)
LibrariesUp ==
    /\ ~ld.early
    /\ found # 0 => ld.objs[found].inited
    /\ \A i \in DOMAIN ld.objs \ {1} :
          /\ Held(i) => ld.objs[i].inited /\ ld.objs[i].active
          /\ ld.objs[i].inited => Held(i) \/ \E k \in DOMAIN ld.objs : Knotted(k) /\ i \in Reach(ld, k)

(* A library's fixed mappings never land on memory already mapped, the     *)
(* program's own included (g_next_map in load_object and                   *)
(* ld_alloc_dso_area, against mmap's cursor).                              *)
PlacedFree == ~ld.clash
=============================================================================
