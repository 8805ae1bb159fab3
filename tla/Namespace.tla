------------------------------ MODULE Namespace -----------------------------
(***************************************************************************)
(* The calls that take path names: syscall_fs.c and the path helpers of    *)
(* syscall_user.c over the mount table, the permissions, and the ext2 tree *)
(* (as FileTree promises it; symbolic links are in Ext2).  A path is a     *)
(* sequence of names, <<>> the root.  proc and dev are pseudo file systems *)
(* whose objects exist by name only.  Calls run with interrupts off: each  *)
(* is one step.                                                            *)
(***************************************************************************)
EXTENDS Integers, Sequences, FiniteSets, SequencesExt

CONSTANTS
    Procs, Cred,        \* Cred[p] = [uid, gid]; uid 0 is root
    Raw,                \* paths programs pass: sequences of names and ".."
    Modes,              \* arguments of chmod, mkdir and open: [u, g, o]
    Umask,              \* permissions removed from "g" and "o"
    Slots,              \* dynamic entries of the mount table
    VirtualDirs, VirtualFiles,
    InitialTree,        \* path -> [dir, uid, gid, mode]
    Calls, MaxSteps

VARIABLES
    tree,               \* the ext2 objects: a function from paths to nodes
    mount,              \* Slots -> a target and a file system, or Unused
    cwd,                \* Procs -> path
    file,               \* Procs -> an open descriptor with a name, or NoFile
    last,               \* the last call: [proc, call, path, rc, before]
    steps

vars == <<tree, mount, cwd, file, last, steps>>

Unused == [target |-> <<"unused">>, fs |-> "none"]
NoFile == [name |-> <<"none">>, kind |-> "none"]
StaticMounts == {[target |-> <<"proc">>, fs |-> "proc"], [target |-> <<"dev">>, fs |-> "dev"]}

(********************************** paths **********************************)

(* path_build_from: ".." drops a name and stops at the root.               *)
Build(base, raw) ==
    LET Add(path, name) == IF name # ".." THEN Append(path, name)
                           ELSE IF path = <<>> THEN path ELSE Front(path) IN
    FoldLeft(Add, base, raw)
(* copy_user_path_resolved, copy_user_path_at_resolved: raw is absolute,   *)
(* or relative to the working directory or to a directory descriptor.      *)
Bases(p) == {<<>>, cwd[p]} \cup {f \in {file[p].name} : file[p].kind = "dir"}
Given(p) == {Build(base, raw) : base \in Bases(p), raw \in Raw}

Under(path, target) == IsPrefix(target, path)
Ancestors(path) == {SubSeq(path, 1, k) : k \in 1..(Len(path) - 1)}

(********************************** mounts *********************************)

Mounts == StaticMounts \cup ({mount[s] : s \in Slots} \ {Unused})
(* mount_find_for_path: the longest target.                                *)
Longest(m) ==
    IF m = {} THEN [target |-> <<>>, fs |-> "ext2"]
    ELSE CHOOSE x \in m : \A y \in m : Len(x.target) >= Len(y.target)
Serving(path) == Longest({x \in Mounts : Under(path, x.target)})
OnPseudo(path) == Serving(path).fs # "ext2"
IsTarget(path) == path = <<>> \/ \E m \in Mounts : m.target = path
(* mount_translate_virtual_path.                                           *)
Translated(m, path) ==
    IF m.fs = "ext2" THEN path
    ELSE <<m.fs>> \o SubSeq(path, Len(m.target) + 1, Len(path))
Effective(path) == Translated(Serving(path), path)

(* virtual_path_exists, virtual_stat_info, stat_info_any.                  *)
VirtualDir(path) == Effective(path) \in VirtualDirs
Virtual(path) == Effective(path) \in VirtualDirs \cup VirtualFiles
InTree(path) == path \in DOMAIN tree
TreeDir(path) == InTree(path) /\ tree[path].dir
RX == {"r", "x"}
Stat(path) ==
    IF Virtual(path)
    THEN [dir |-> VirtualDir(path), uid |-> 0, gid |-> 0, mode |-> [u |-> RX, g |-> RX, o |-> RX]]
    ELSE tree[path]
Exists(path) == Virtual(path) \/ InTree(path)

(******************************* permissions *******************************)

IsRoot(p) == Cred[p].uid = 0
(* permission_class_bits, permission_allows.                               *)
Class(p, n) ==
    IF Cred[p].uid = n.uid THEN n.mode.u
    ELSE IF Cred[p].gid = n.gid THEN n.mode.g
    ELSE n.mode.o
Allows(p, n, need) == IsRoot(p) \/ need \subseteq Class(p, n)

(* path_lookup_errno, called when an operation failed or nothing is found. *)
LookupErrno(path) ==
    IF \E q \in Ancestors(path) : InTree(q) /\ ~tree[q].dir THEN "ENOTDIR"
    ELSE IF InTree(path) THEN "0"
    ELSE "ENOENT"

(* The first of several checks that fails decides.                         *)
FirstError(checks) == Head(SelectSeq(checks, LAMBDA rc : rc # "0") \o <<"0">>)
When(test, error) == IF test THEN error ELSE "0"

(* check_path_prefix_execute, check_path_permission,                       *)
(* check_parent_permission: "0" or an error.                               *)
CheckNode(p, path, need) ==
    IF ~Exists(path) THEN LookupErrno(path)
    ELSE When(~Allows(p, Stat(path), need), "EACCES")
CheckDir(p, path, need) ==
    FirstError(<<When(Exists(path) /\ ~Stat(path).dir, "ENOTDIR"), CheckNode(p, path, need)>>)
CheckPrefix(p, path) ==
    IF IsRoot(p) THEN "0"
    ELSE FirstError([k \in 1..(Len(path) - 1) |-> CheckDir(p, SubSeq(path, 1, k), {"x"})])
CheckPath(p, path, need) ==
    FirstError(<<CheckPrefix(p, path), CheckNode(p, path, need)>>)
CheckParent(p, path) ==
    LET parent == IF path = <<>> THEN <<>> ELSE Front(path) IN
    FirstError(<<CheckPrefix(p, parent), CheckDir(p, parent, {"w", "x"})>>)

(********************************* the calls *******************************)

Init ==
    /\ tree = InitialTree
    /\ mount = [s \in Slots |-> Unused]
    /\ cwd = [p \in Procs |-> <<>>]
    /\ file = [p \in Procs |-> NoFile]
    /\ last = [proc |-> 0, call |-> "none", path |-> <<>>, rc |-> "0"]
    /\ steps = 0

Begin(call) == call \in Calls /\ steps < MaxSteps /\ steps' = steps + 1
Returns(p, call, path, rc) ==
    last' = [proc |-> p, call |-> call, path |-> path, rc |-> rc]

(* One call that changes the tree: rc as its checks say; then ext2 does it *)
(* (ok, new), or the call returns what failure stands for.                 *)
Change(p, call, path, rc, ok, new, failure) ==
    /\ tree' = IF rc = "0" /\ ok THEN new ELSE tree
    /\ Returns(p, call, path, IF rc # "0" THEN rc ELSE IF ok THEN "0" ELSE failure)
    /\ UNCHANGED <<mount, cwd, file>>

Masked(mode) == [u |-> mode.u, g |-> mode.g \ Umask, o |-> mode.o \ Umask]
Node(p, dir, mode) ==
    [dir |-> dir, uid |-> Cred[p].uid, gid |-> Cred[p].gid, mode |-> Masked(mode)]
CanMake(path) == path # <<>> /\ ~InTree(path) /\ TreeDir(Front(path))
With(path, n) == [q \in DOMAIN tree \cup {path} |-> IF q = path THEN n ELSE tree[q]]
Without(path) == [q \in DOMAIN tree \ {path} |-> tree[q]]
Children(path) == {q \in DOMAIN tree : q # path /\ Under(q, path)}

(* sys_mkdir_impl, sys_mkdirat_impl; sys_mknod_impl.                       *)
Mkdir(p, path, mode) ==
    /\ Begin("mkdir")
    /\ Change(p, "mkdir", path,
              FirstError(<<When(OnPseudo(path), "EACCES"), CheckParent(p, path)>>),
              CanMake(path), With(path, Node(p, TRUE, mode)), "EIO")
Mknod(p, path, mode) ==
    /\ Begin("mknod")
    /\ Change(p, "mknod", path,
              FirstError(<<When(OnPseudo(path), "EACCES"), CheckParent(p, path)>>),
              CanMake(path), With(path, Node(p, FALSE, mode)),
              IF InTree(path) THEN "EEXIST" ELSE LookupErrno(path))

(* sys_rmdir_impl, sys_unlinkat_impl with AT_REMOVEDIR; sys_unlink_impl.   *)
Rmdir(p, path) ==
    /\ Begin("rmdir")
    /\ Change(p, "rmdir", path,
              FirstError(<<When(IsTarget(path), "EBUSY"), When(OnPseudo(path), "EACCES"),
                           CheckParent(p, path)>>),
              path # <<>> /\ TreeDir(path) /\ Children(path) = {}, Without(path),
              LookupErrno(path))
Unlink(p, path) ==
    /\ Begin("unlink")
    /\ Change(p, "unlink", path,
              FirstError(<<When(IsTarget(path), "EBUSY"), When(OnPseudo(path), "EACCES"),
                           When(TreeDir(path), "EISDIR"), CheckParent(p, path)>>),
              InTree(path), Without(path), LookupErrno(path))

(* sys_rename_impl, sys_renameat_impl; ext2_move into a directory keeps    *)
(* the last name.  A directory is not moved into itself.                   *)
Rename(p, src, dst) ==
    LET final == IF TreeDir(dst) /\ src # <<>> THEN Append(dst, Last(src)) ELSE dst
        moved == {src} \cup Children(src)
        To(q) == final \o SubSeq(q, Len(src) + 1, Len(q)) IN
    /\ Begin("rename") /\ ~Under(final, src)
    /\ Change(p, "rename", src,
              FirstError(<<When(IsTarget(src) \/ IsTarget(dst), "EBUSY"),
                           When(OnPseudo(src) \/ OnPseudo(dst), "EACCES"),
                           CheckParent(p, src), CheckParent(p, dst)>>),
              InTree(src) /\ CanMake(final),
              [q \in (DOMAIN tree \ moved) \cup {To(x) : x \in moved} |->
                  IF q \in DOMAIN tree \ moved THEN tree[q]
                  ELSE tree[CHOOSE x \in moved : To(x) = q]],
              LookupErrno(src))
(* sys_link_impl, sys_linkat_impl.                                         *)
Link(p, old, new) ==
    /\ Begin("link")
    /\ Change(p, "link", new,
              FirstError(<<When(OnPseudo(old) \/ OnPseudo(new), "EACCES"),
                           CheckPath(p, old, {}), CheckParent(p, new),
                           When(TreeDir(old), "EPERM")>>),
              InTree(old) /\ CanMake(new), With(new, tree[old]),
              IF InTree(new) THEN "EEXIST" ELSE LookupErrno(old))

(* sys_chmod_impl and sys_chown_impl; on a virtual object they do nothing. *)
Chmod(p, path, mode) ==
    /\ Begin("chmod")
    /\ Change(p, "chmod", path,
              IF Virtual(path) THEN When(~IsRoot(p), "EPERM")
              ELSE FirstError(<<When(OnPseudo(path), "EACCES"), CheckPath(p, path, {}),
                   When(~IsRoot(p) /\ InTree(path) /\ Cred[p].uid # tree[path].uid, "EPERM")>>),
              InTree(path) /\ ~Virtual(path),
              [tree EXCEPT ![path].mode = mode],
              IF Virtual(path) THEN "0" ELSE LookupErrno(path))
Chown(p, path, q) ==
    /\ Begin("chown")
    /\ Change(p, "chown", path,
              IF Virtual(path) THEN When(~IsRoot(p), "EPERM")
              ELSE FirstError(<<When(OnPseudo(path), "EACCES"), When(~IsRoot(p), "EPERM"),
                                CheckPath(p, path, {})>>),
              InTree(path) /\ ~Virtual(path),
              [tree EXCEPT ![path].uid = Cred[q].uid, ![path].gid = Cred[q].gid],
              IF Virtual(path) THEN "0" ELSE LookupErrno(path))

(* sys_open_impl and sys_open_mode_create_kpath_impl, as far as names go;  *)
(* close and exit.                                                         *)
OpenErrno(p, path, w, create, virtual) ==
    LET new == ~InTree(path) IN
    FirstError(
        IF virtual THEN <<When(VirtualDir(path) \/ create, "EISDIR"), When(w, "EBADF")>>
        ELSE <<When(new /\ OnPseudo(path), "EACCES"),
               When(w /\ TreeDir(path), "EISDIR"),
               When(new /\ ~create, LookupErrno(path)),
               IF new THEN CheckParent(p, path)
               ELSE CheckPath(p, path, IF w THEN {"r", "w"} ELSE {"r"}),
               When(new /\ ~CanMake(path), "EIO")>>)
Open(p, path, w, create, mode) ==
    /\ Begin("open") /\ file[p] = NoFile /\ (create => w)
    /\ \E virtual \in {Virtual(path)} :
       \E rc \in {OpenErrno(p, path, w, create, virtual)} :
         /\ tree' = IF rc = "0" /\ ~virtual /\ ~InTree(path)
                    THEN With(path, Node(p, FALSE, mode)) ELSE tree
         /\ file' = IF rc # "0" THEN file
                    ELSE [file EXCEPT ![p] = [name |-> path,
                             kind |-> IF ~virtual /\ TreeDir(path) THEN "dir" ELSE "file"]]
         /\ Returns(p, "open", path, rc)
    /\ UNCHANGED <<mount, cwd>>
Close(p) ==
    /\ Begin("open") /\ file[p] # NoFile
    /\ file' = [file EXCEPT ![p] = NoFile]
    /\ Returns(p, "close", <<>>, "0")
    /\ UNCHANGED <<tree, mount, cwd>>

(* sys_chdir_impl, sys_fchdir_impl.                                        *)
SetCwd(p, call, path, rc) ==
    /\ Begin("chdir")
    /\ cwd' = IF rc = "0" THEN [cwd EXCEPT ![p] = path] ELSE cwd
    /\ Returns(p, call, path, rc)
    /\ UNCHANGED <<tree, mount, file>>
IsDir(path) == VirtualDir(path) \/ TreeDir(path)
Chdir(p, path) ==
    SetCwd(p, "chdir", path,
           IF IsDir(path) THEN CheckPath(p, path, {"x"})
           ELSE IF Exists(path) THEN "ENOTDIR" ELSE LookupErrno(path))
Fchdir(p) ==
    /\ file[p] # NoFile
    /\ SetCwd(p, "fchdir", file[p].name,
              IF file[p].kind # "dir" THEN "ENOTDIR"
              ELSE IF ~IsDir(file[p].name) THEN "ENOENT"
              ELSE CheckPath(p, file[p].name, {"x"}))

(* sys_mount_impl: the target is looked up in ext2.                        *)
Mount(p, target, fs) ==
    LET free == {s \in Slots : mount[s] = Unused}
        rc == IF IsTarget(target) THEN "EBUSY"
              ELSE IF ~InTree(target) THEN LookupErrno(target)
              ELSE IF ~tree[target].dir THEN "ENOTDIR"
              ELSE IF free = {} THEN "ENFILE" ELSE "0" IN
    /\ Begin("mount")
    /\ mount' = IF rc # "0" THEN mount
                ELSE [mount EXCEPT ![CHOOSE s \in free : \A t \in free : s <= t] =
                        [target |-> target, fs |-> fs]]
    /\ Returns(p, "mount", target, rc)
    /\ UNCHANGED <<tree, cwd, file>>


(* mount_target_busy and sys_umount2_impl.                                 *)
Busy(target) ==
    \E p \in Procs : Under(cwd[p], target) \/ (file[p] # NoFile /\ Under(file[p].name, target))
Umount(p, target) ==
    LET slot == {s \in Slots : mount[s].target = target}
        rc == IF ~IsTarget(target) THEN "EINVAL"
              ELSE IF slot = {} \/ Busy(target) THEN "EBUSY" ELSE "0" IN
    /\ Begin("mount")
    /\ mount' = [s \in Slots |-> IF rc = "0" /\ s \in slot THEN Unused ELSE mount[s]]
    /\ Returns(p, "umount", target, rc)
    /\ UNCHANGED <<tree, cwd, file>>

(* stat, statfs, readlink, getcwd and dirlist change nothing.              *)
Look == UNCHANGED vars

Next ==
    \/ \E p \in Procs : \E path \in Given(p) :
         \/ \E m \in Modes : Mkdir(p, path, m)
         \/ \E m \in Modes : Mknod(p, path, m)
         \/ Rmdir(p, path)
         \/ Unlink(p, path)
         \/ \E d \in Given(p) : Rename(p, path, d)
         \/ \E d \in Given(p) : Link(p, path, d)
         \/ \E m \in Modes : Chmod(p, path, m)
         \/ \E q \in Procs : Chown(p, path, q)
         \/ \E w, c \in BOOLEAN, m \in Modes : Open(p, path, w, c, m)
         \/ Chdir(p, path)
         \/ \E fs \in {"proc", "dev"} : Mount(p, path, fs)
         \/ Umount(p, path)
    \/ \E p \in Procs : Close(p)
    \/ \E p \in Procs : Fchdir(p)
    \/ Look

Spec == Init /\ [][Next]_vars

(* Nothing reads last.                                                     *)
View == <<tree, mount, cwd, file, steps>>

(******************************** properties *******************************)

(* A pseudo file system that serves a working directory or an open         *)
(* descriptor stays mounted: relative paths and dirfds keep their meaning  *)
(* (mount_target_busy).                                                    *)
KeepsServing ==
    \A p \in Procs, m \in Mounts :
        \/ m \in Mounts'
        \/ ~Under(cwd'[p], m.target) /\ ~Under(file'[p].name, m.target)
=============================================================================
