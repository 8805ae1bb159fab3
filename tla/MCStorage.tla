------------------------------ MODULE MCStorage -----------------------------
(***************************************************************************)
(* The layers of storage, each against what it promises the next one: the  *)
(* ext2 driver on a small volume with failing writes and power losses,     *)
(* open files over it, the name space of system calls, and the descriptor  *)
(* tables of processes.  A behaviour runs one layer; the others are absent.*)
(***************************************************************************)
EXTENDS Ext2, FdTable, TLC

CONSTANTS MaxOpen, Layers     \* bound on descriptors; the layers a run looks at

VARIABLES part,
    disk, obj, fd, ghost, res, calls, faults, fileJob,
    tree, mount, cwd, file, last, steps

fileVars == <<disk, obj, fd, ghost, res, calls, faults, fileJob>>
nameVars == <<tree, mount, cwd, file, last, steps>>

(* The ext2 driver: ten blocks, four inodes, files of up to eight blocks.  *)
A == <<"a">>
B == <<"b">>
D == <<"d">>
DA == <<"d", "a">>
MCTargets == << [abs |-> TRUE, path |-> A], [abs |-> FALSE, path |-> <<"..", "b">>] >>
MCDirs == {D}
\* Moves keep the directory they leave apart from the one they enter.
CrossMoves == {<<A, DA>>, <<DA, B>>, <<DA, <<>>>>}
MCJobs ==
    {[calls |-> {"write at", "resize", "rm"}, paths |-> {A, B}, most |-> 3],
     [calls |-> {"write at", "resize"}, paths |-> {A}, most |-> 4],
     [calls |-> {"mkdir", "write", "rmdir", "move"}, paths |-> {D, DA}, most |-> 4],
     [calls |-> {"mkdir", "write", "move"}, paths |-> {A, D}, most |-> 3],
     [calls |-> {"write", "link", "rm", "copy", "chmod"}, paths |-> {A, B}, most |-> 3],
     [calls |-> {"symlink", "mkdir", "write at"}, paths |-> {A, D, DA}, most |-> 3],
     [calls |-> {"mknod", "symlink", "lutimes"}, paths |-> {A}, most |-> 2],
     [calls |-> {"mknod", "link", "rm"}, paths |-> {A, B}, most |-> 3]}
\* A volume on which files are renamed within one directory.
SameMoves == {<<A, B>>}
RenameJobs == {[calls |-> {"write", "move"}, paths |-> {A, B}, most |-> 2]}

(* Open files: two processes, two objects, a cache of three pages.         *)
SharedJob == [calls |-> {"open", "read", "write", "seek", "close", "dup", "fork"},
              names |-> {"a"}, modes |-> {{"r", "w", "c"}}, most |-> 5]
ResizeJob == [calls |-> {"open", "write", "ftruncate", "read", "fsync", "close"},
              names |-> {"a"}, modes |-> {{"r", "w", "c"}, {"r", "w", "a"}}, most |-> 5]
NamesJob == [calls |-> {"open", "write", "rename", "unlink", "writefile", "close", "exit"},
             names |-> {"a", "b"}, modes |-> {{"w", "c", "t"}, {"r", "w"}, {"r"}},
             most |-> 4]
LinkJob == [calls |-> {"open", "write", "read", "close", "exit"},
            names |-> {"a", "l"}, modes |-> {{"r", "w", "c"}, {"w", "c", "x"}}, most |-> 4]
FileJobs == {SharedJob, ResizeJob, NamesJob, LinkJob}

F == INSTANCE Files WITH Names <- {"a", "b", "l"}, LinkTo <- [x \in {"l"} |-> "a"],
        Inos <- 1..3, Procs <- 1..2, Fds <- 1..2, Objs <- 1..2, CacheMax <- 3,
        Sizes <- {2, 3}, Jobs <- FileJobs, Faults <- {"before", "within"},
        MaxFaults <- 1, job <- fileJob

(* Names: root and a user, and two free entries in the mount table.        *)
All == {"r", "w", "x"}
Open3 == [u |-> All, g |-> All, o |-> All]
Shut3 == [u |-> All, g |-> {}, o |-> {}]
Dir(uid, mode) == [dir |-> TRUE, uid |-> uid, gid |-> uid, mode |-> mode]
FirstTree == [q \in {<<>>, <<"proc">>, <<"dev">>, <<"d">>, <<"d", "m">>} |->
                IF q = <<>> THEN Dir(0, Open3)
                ELSE IF q = <<"d">> THEN Dir(0, Shut3) ELSE Dir(1, Open3)]

N == INSTANCE Namespace WITH Procs <- 1..2,
        Cred <- [p \in 1..2 |-> [uid |-> p - 1, gid |-> p - 1]],
        Raw <- {<<"d">>, <<"d", "m">>, <<"..", "a">>, <<"d", "m", "mounts">>},
        Modes <- {Open3, Shut3}, Umask <- {"w"}, Slots <- 1..2,
        VirtualDirs <- {<<"proc">>, <<"dev">>, <<"proc", "net">>},
        VirtualFiles <- {<<"proc", "mounts">>, <<"dev", "null">>},
        InitialTree <- FirstTree, MaxSteps <- 3,
        Calls <- {"mkdir", "mknod", "rmdir", "unlink", "rename", "link", "chmod",
                  "chown", "open", "chdir", "mount"}

(* Descriptors: two processes with tables of two or three entries, one of  *)
(* them standard.  The bound counts the descriptors open at a time, a      *)
(* close-on-exec one twice.  No property names a process or an object.     *)
FewDescriptors ==
    Cardinality({h \in Procs \X Fds : Open(table[h[1]], h[2])})
      + Cardinality({h \in Procs \X Fds : table[h[1]].ent[h[2]].cloexec}) <= MaxOpen
Symmetry == Permutations(Procs) \cup Permutations(Objs)

NoVolume == f = 0 /\ op = 0 /\ job = 0 /\ ops = 0
NoFiles == /\ disk = 0 /\ obj = 0 /\ fd = 0 /\ ghost = 0
           /\ res = 0 /\ calls = 0 /\ faults = 0 /\ fileJob = 0
NoNames == tree = 0 /\ mount = 0 /\ cwd = 0 /\ file = 0 /\ last = 0 /\ steps = 0

MCInit ==
    /\ part \in Layers
    /\ IF part = "ext2" THEN Init ELSE NoVolume
    /\ IF part = "files" THEN F!Init ELSE NoFiles
    /\ IF part = "names" THEN N!Init ELSE NoNames
    /\ FdInit

MCNext ==
    \/ part = "ext2" /\ Next /\ UNCHANGED <<part, fileVars, nameVars, fdVars>>
    \/ part = "files" /\ F!Next /\ UNCHANGED <<part, vars, nameVars, fdVars>>
    \/ part = "names" /\ N!Next /\ UNCHANGED <<part, vars, fileVars, fdVars>>
    \/ part = "tables" /\ FdNext /\ UNCHANGED <<part, vars, fileVars, nameVars>>

MCSpec == MCInit /\ [][MCNext]_<<part, vars, fileVars, nameVars, fdVars>>

View ==
    CASE part = "ext2" -> <<part, vars>> [] part = "files" -> <<part, F!View>>
      [] part = "names" -> <<part, N!View>> [] part = "tables" -> <<part, fdVars>>

-----------------------------------------------------------------------------

(* A call that succeeds does what it promises, and one that does not       *)
(* leaves every other file alone (Ext2).                                   *)
CallsAsPromised == [][part = "ext2" => PromisedStep /\ OthersStep]_vars


=============================================================================
