---------------------------- MODULE PrivateMemory ----------------------------
(***************************************************************************)
(* What the address spaces of SmallOS processes promise their programs:    *)
(* every process has its own memory.  A page is unmapped, or mapped and    *)
(* has contents of its own; a page of a file mapping follows the file      *)
(* until something touches it.  Only a store by the process itself changes *)
(* the contents of a page, and fork gives the child a copy of everything.  *)
(* A process stores its own name, so a page that changes to another        *)
(* process's name, or back to zeros, was not changed by its owner.         *)
(***************************************************************************)
CONSTANTS Procs, Pages, Contents, Files, Unmapped, Zero, Untouched, Gone

VARIABLES
    view,    \* what each page of each process holds
    file     \* the contents of the mapped file

pvars == <<view, file>>

NoPages == [v \in Pages |-> Unmapped]
Nothing == [v \in Pages |-> Gone]

Init == view = [p \in Procs |-> Nothing] /\ file \in Files

Exists(p) == view[p] # Nothing

Start(p) ==
    /\ ~Exists(p)
    /\ view' = [view EXCEPT ![p] = NoPages]
    /\ UNCHANGED file

Map(p, vs, x) ==
    /\ Exists(p) /\ \A v \in vs : view[p][v] = Unmapped
    /\ view' = [view EXCEPT ![p] = [v \in Pages |-> IF v \in vs THEN x ELSE @[v]]]
    /\ UNCHANGED file

Unmap(p, vs) ==
    /\ Exists(p)
    /\ view' = [view EXCEPT ![p] =
                   [v \in Pages |-> IF v \in vs THEN Unmapped ELSE @[v]]]
    /\ UNCHANGED file

Touch(p, v) ==
    /\ view[p][v] = Untouched
    /\ view' = [view EXCEPT ![p][v] = file]
    /\ UNCHANGED file

Store(p, v) ==
    /\ view[p][v] \in Contents
    /\ view' = [view EXCEPT ![p][v] = p]
    /\ UNCHANGED file

Fork(p, q) ==
    /\ Exists(p) /\ ~Exists(q)
    /\ view' = [view EXCEPT ![q] = view[p]]
    /\ UNCHANGED file

Exit(p) ==
    /\ Exists(p)
    /\ view' = [view EXCEPT ![p] = Nothing]
    /\ UNCHANGED file

FileWrite(x) == file' = x /\ UNCHANGED view

Next ==
    \/ \E p \in Procs : Start(p) \/ Exit(p)
    \/ \E p \in Procs, vs \in SUBSET Pages :
          Unmap(p, vs) \/ \E x \in {Zero, Untouched} : Map(p, vs, x)
    \/ \E p \in Procs, v \in Pages :
          Touch(p, v) \/ Store(p, v)
    \/ \E p, q \in Procs : Fork(p, q)
    \/ \E x \in Files : FileWrite(x)

Spec == Init /\ [][Next]_pvars
=============================================================================
