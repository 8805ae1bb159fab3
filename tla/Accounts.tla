------------------------------ MODULE Accounts ------------------------------
(***************************************************************************)
(* Accounts: /bin/passwd (user/passwd.c), which rewrites /etc/shadow       *)
(* through a temporary file and a backup name, one file system call at a   *)
(* time, and /bin/login (user/login.c), which may read it at any moment.   *)
(* A call of passwd's that changes a file may fail, and passwd may be      *)
(* killed between two; reading /etc/shadow, unlink and the rename that     *)
(* gives the backup its name back are taken to succeed.                    *)
(* A password and its hash are the same value; "" is an empty password     *)
(* and "!" a locked one.                                                   *)
(***************************************************************************)
EXTENDS Integers, Sequences, SequencesExt

CONSTANTS
    AcUsers,      \* accounts of /etc/passwd, all with password field "x"
    AcShadows,    \* contents /etc/shadow may start with
    AcPasswords,  \* what people type
    AcRuns,       \* runs of passwd in one behaviour
    AcLogins,     \* login attempts in one behaviour
    AcFaults      \* calls of passwd that fail, and kills, in one behaviour

VARIABLES
    acFile,    \* /etc/shadow, /etc/shadow.tmp, /etc/shadow.old
    pw,        \* the passwd in progress
    login,     \* the last login attempt
    agreed,    \* history: the password last confirmed for each account
    acAgain,   \* history: passwd was started again after it was killed
    acStart,   \* history: /etc/shadow when the current run began
    acLeft

acVars == <<acFile, pw, login, agreed, acAgain, acStart, acLeft>>

None == <<[name |-> "", hash |-> "absent"]>>
There(f) == f # None
Names(f) == {f[i].name : i \in DOMAIN f}

\* find_shadow: the first line of that name.
FindShadow(f, u) ==
    IF ~There(f) \/ u \notin Names(f) THEN "none"
    ELSE f[CHOOSE i \in DOMAIN f : f[i].name = u /\ \A j \in 1..(i - 1) : f[j].name # u].hash

(***************************************************************************)
(* passwd, from its start to its end.                                      *)
(***************************************************************************)

PwResting == [pc |-> "idle", target |-> "", new |-> "", had |-> FALSE, said |-> FALSE]
PwAt(pc) == pw.pc = pc
PwGoes(pc) == pw' = [pw EXCEPT !.pc = pc]
PwEnds(said) == pw' = [pw EXCEPT !.pc = "idle", !.said = said]
Same == UNCHANGED <<login, acAgain, acStart, acLeft>>
Unagreed == UNCHANGED agreed

\* A call that may fail takes a fault from the budget when it does.
Outcome(fails) ==
    /\ fails => acLeft.faults > 0
    /\ acLeft' = IF fails THEN [acLeft EXCEPT !.faults = @ - 1] ELSE acLeft

\* passwd_user_exists and login's find_account: a line of /etc/passwd.
FindAccount(u) == u \in AcUsers

\* set_password: typed twice, the same, and not empty.
TypedTwice(first, second) == first # "" /\ first = second

\* _start: root, or the account's owner (current_username), gives the new
\* password; passwd -d (clear) is root's and asks for nothing.
PwStart(caller, target, first, second, clear) ==
    /\ PwAt("idle") /\ acLeft.runs > 0
    /\ acLeft' = [acLeft EXCEPT !.runs = @ - 1]
    /\ acAgain' = (acAgain \/ acLeft.killed)
    /\ acStart' = acFile.shadow
    /\ LET allowed == caller = "root" \/ (caller = target /\ ~clear)
       IN pw' = IF FindAccount(target) /\ allowed /\ (clear \/ TypedTwice(first, second))
                THEN [PwResting EXCEPT !.pc = "unlink tmp", !.target = target,
                                     !.new = IF clear THEN "" ELSE first]
                ELSE PwResting
    /\ UNCHANGED <<acFile, login, agreed>>

\* update_shadow, call by call.
UnlinkTmp ==
    /\ PwAt("unlink tmp")
    /\ acFile' = [acFile EXCEPT !.tmp = None]
    /\ PwGoes("open") /\ Same /\ Unagreed

OpenTmp(fails) ==
    /\ PwAt("open") /\ Outcome(fails)
    /\ acFile' = IF fails THEN acFile ELSE [acFile EXCEPT !.tmp = <<>>]
    /\ IF fails THEN PwEnds(FALSE) ELSE PwGoes("close")
    /\ UNCHANGED <<login, acAgain, acStart>> /\ Unagreed

\* write_shadow_line on every line, and a line of its own when none matched.
NewShadow(f, target, new) ==
    LET lines == IF There(f) THEN f ELSE <<>>
        copied == [i \in DOMAIN lines |->
                     IF lines[i].name = target THEN [lines[i] EXCEPT !.hash = new] ELSE lines[i]]
    IN IF target \in Names(lines) THEN copied
       ELSE Append(copied, [name |-> target, hash |-> new])


\* The copy reaches the file when it is flushed: n of its lines, not all when
\* a write fails; fclose says so and the temporary file is removed.
CloseTmp(n) ==
    /\ PwAt("close")
    /\ LET lines == NewShadow(acFile.shadow, pw.target, pw.new)
       IN /\ n <= Len(lines) /\ Outcome(n < Len(lines))
          /\ acFile' = [acFile EXCEPT !.tmp = IF n < Len(lines) THEN None ELSE lines]
          /\ IF n < Len(lines) THEN PwEnds(FALSE) ELSE PwGoes("unlink old")
    /\ UNCHANGED <<login, acAgain, acStart>> /\ Unagreed

UnlinkOld ==
    /\ PwAt("unlink old")
    /\ acFile' = [acFile EXCEPT !.old = None]
    /\ pw' = [pw EXCEPT !.had = There(acFile.shadow),
                        !.pc = IF There(acFile.shadow) THEN "backup" ELSE "replace"]
    /\ Same /\ Unagreed

Backup(fails) ==
    /\ PwAt("backup") /\ Outcome(fails)
    /\ acFile' = IF fails THEN [acFile EXCEPT !.tmp = None]
                 ELSE [acFile EXCEPT !.old = acFile.shadow, !.shadow = None]
    /\ IF fails THEN PwEnds(FALSE) ELSE PwGoes("replace")
    /\ UNCHANGED <<login, acAgain, acStart>> /\ Unagreed

\* The second rename; when it fails the backup gets its name back.
Replace(fails) ==
    /\ PwAt("replace") /\ Outcome(fails)
    /\ acFile' = IF ~fails THEN [acFile EXCEPT !.shadow = acFile.tmp, !.tmp = None]
                 ELSE IF pw.had
                 THEN [acFile EXCEPT !.shadow = acFile.old, !.old = None, !.tmp = None]
                 ELSE [acFile EXCEPT !.tmp = None]
    /\ IF fails THEN PwEnds(FALSE) ELSE PwGoes("done")
    /\ UNCHANGED <<login, acAgain, acStart>> /\ Unagreed

PwDone ==
    /\ PwAt("done")
    /\ acFile' = IF pw.had THEN [acFile EXCEPT !.old = None] ELSE acFile
    /\ agreed' = [agreed EXCEPT ![pw.target] = pw.new]
    /\ PwEnds(TRUE) /\ Same

\* Ctrl+C or a crash of passwd between two calls.
PwKilled ==
    /\ ~PwAt("idle") /\ acLeft.faults > 0
    /\ PwEnds(FALSE)
    /\ acLeft' = [acLeft EXCEPT !.faults = @ - 1, !.killed = TRUE]
    /\ UNCHANGED <<acFile, login, agreed, acAgain, acStart>>

(***************************************************************************)
(* login.                                                                  *)
(***************************************************************************)

\* authenticate_account: no shadow line and a locked one refuse, an empty
\* password asks nothing, else the hashes are compared.
Authenticates(u, typed) ==
    LET stored == FindShadow(acFile.shadow, u)
    IN CASE stored \in {"none", "!"} -> FALSE
         [] stored = ""              -> TRUE
         [] OTHER                    -> typed = stored

\* main: find_account, authenticate_account, login_session.
Login(u, typed) ==
    /\ acLeft.logins > 0
    /\ acLeft' = [acLeft EXCEPT !.logins = @ - 1]
    /\ login' = [user |-> u, typed |-> typed, in |-> FindAccount(u) /\ Authenticates(u, typed),
                 due |-> IF ~FindAccount(u) THEN {}
                         ELSE {agreed[u]} \cup (IF (~PwAt("idle") \/ acLeft.killed) /\ pw.target = u
                                                THEN {pw.new} ELSE {}),
                 sure |-> PwAt("idle") /\ ~acLeft.killed]
    /\ UNCHANGED <<acFile, pw, agreed, acAgain, acStart>>

AcInit ==
    /\ \E f \in AcShadows :
          /\ acFile = [shadow |-> f, tmp |-> None, old |-> None]
          /\ agreed = [u \in AcUsers |-> FindShadow(f, u)]
          /\ acStart = f
    /\ pw = PwResting
    /\ login = [user |-> "", typed |-> "", in |-> FALSE, due |-> {}, sure |-> FALSE]
    /\ acAgain = FALSE
    /\ acLeft = [runs |-> AcRuns, logins |-> AcLogins, faults |-> AcFaults, killed |-> FALSE]

AcNext ==
    \/ \E c, t \in AcUsers \cup {"guest"}, a, b \in AcPasswords, clear \in BOOLEAN :
          PwStart(c, t, a, b, clear)
    \/ UnlinkTmp \/ UnlinkOld \/ PwDone \/ PwKilled
    \/ \E fails \in BOOLEAN : OpenTmp(fails) \/ Backup(fails) \/ Replace(fails)
    \/ \E n \in 0..4 : CloseTmp(n)
    \/ \E u \in AcUsers \cup {"guest"}, p \in AcPasswords : Login(u, p)

AcSpec == AcInit /\ [][AcNext]_acVars

(***************************************************************************)
(* What the accounts' owners rely on.                                      *)
(***************************************************************************)

\* A run of passwd is all or nothing.  When it has ended, whichever of its
\* calls failed, /etc/shadow holds every line it held, the target's with its
\* old or, exactly when passwd said so, its new hash.  At every moment in
\* between, and after a kill, every account's line is in /etc/shadow or in
\* /etc/shadow.old, until passwd is started again.
ShadowWhole ==
    LET whole(f) == \A i \in DOMAIN acStart :
                       /\ There(f) /\ acStart[i].name \in Names(f)
                       /\ \/ FindShadow(f, acStart[i].name) = FindShadow(acStart, acStart[i].name)
                          \/ acStart[i].name = pw.target
    IN acAgain \/ IF PwAt("idle") /\ ~acLeft.killed
                  THEN whole(acFile.shadow)
                  ELSE There(acStart) =>
                         \/ whole(acFile.shadow)
                         \/ acLeft.killed /\ There(acFile.shadow)
                         \/ acFile.old = acStart

\* Login and passwd agree: nobody gets in with a password other than the one
\* last confirmed or the one being set, and when no change is under way the
\* confirmed password does get its owner in.
LoginAsSet ==
    acAgain \/
    /\ login.in => "" \in login.due \/ login.typed \in login.due
    /\ login.sure /\ login.typed \in login.due /\ login.due \cap {"!", "none"} = {} => login.in
=============================================================================
