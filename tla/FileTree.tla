------------------------------ MODULE FileTree ------------------------------
(***************************************************************************)
(* What a file system promises: names in directories, and nodes whose      *)
(* contents change only as the calls say.  A node lives as long as a name  *)
(* refers to it.  A call that fails half way, or that power loss cuts,     *)
(* spoils only what it names.                                              *)
(***************************************************************************)
EXTENDS Integers, Sequences, FiniteSets

CONSTANTS
    Root        \* the node of the root directory
VARIABLES
    names,      \* set of [dir, name, ino]
    node        \* the nodes, each [kind, attr, bytes]

vars == <<names, node>>

Byte(s, k) == IF k <= Len(s) THEN s[k] ELSE 0
Patched(s, off, data) ==
    [k \in 1..(IF off + Len(data) > Len(s) THEN off + Len(data) ELSE Len(s)) |->
        IF k \in (off + 1)..(off + Len(data)) THEN data[k - off] ELSE Byte(s, k)]
Resized(s, n) == [k \in 1..n |-> Byte(s, k)]
Live(s) == {Root} \cup {x.ino : x \in s}
Free(dir, name) == \A x \in names : ~(x.dir = dir /\ x.name = name)

Init == /\ names = {}
        /\ DOMAIN node = {Root}

(* The bytes of one node change.                                           *)
Write(i, off, data) ==
    /\ node[i].kind = "file"
    /\ node' = [node EXCEPT ![i].bytes = Patched(@, off, data)]
    /\ UNCHANGED names
Resize(i, n) ==
    /\ node[i].kind = "file"
    /\ node' = [node EXCEPT ![i].bytes = Resized(@, n)]
    /\ UNCHANGED names
Replace(i, data) ==
    /\ node[i].kind = "file"
    /\ node' = [node EXCEPT ![i].bytes = data]
    /\ UNCHANGED names
SetAttr(i, a) ==
    /\ node' = [node EXCEPT ![i].attr = a]
    /\ UNCHANGED names

(* A new node under a new name.                                            *)
Make(dir, name, i, kind, bytes) ==
    /\ Free(dir, name) /\ i \notin DOMAIN node /\ dir \in DOMAIN node
    /\ names' = names \cup {[dir |-> dir, name |-> name, ino |-> i]}
    /\ node' = [j \in DOMAIN node \cup {i} |->
                   IF j = i THEN [kind |-> kind, attr |-> 0, bytes |-> bytes]
                   ELSE node[j]]

(* A name more, a name less, a name in another place.                      *)
Renamed(gone, new) ==
    /\ names' = (names \ gone) \cup new
    /\ \A x \in new : Free(x.dir, x.name)
    /\ node' = [j \in Live(names') |-> node[j]]
Link(x) == Renamed({}, {x}) /\ x.ino \in DOMAIN node
Unlink(x) == Renamed({x}, {}) /\ x \in names
Move(x, dir, name) ==
    /\ x \in names
    /\ Renamed({x}, {[dir |-> dir, name |-> name, ino |-> x.ino]})
=============================================================================
