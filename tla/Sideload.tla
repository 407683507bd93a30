------------------------------ MODULE Sideload ------------------------------
(***************************************************************************)
(* ADB sideload in TWRP: the action thread (adbsideload and                *)
(* apply_from_adb), the Cancel button in the GUI thread                    *)
(* (adbsideloadcancel), the child process that waits for the adb host and  *)
(* then serves the package (minadbd with FuseSideload), and the installer, *)
(* which reads it.  The threads share the child's pid and nothing else.    *)
(***************************************************************************)
EXTENDS FuseSideload

CONSTANTS
    ADB_INSTALL_TIMEOUT,
    Plans         \* plans: the package, and how many sessions, unasked deaths of the child
                  \* and forks that fail

(***************************************************************************)
(* The size the host gives is parsed with %d into an int: the low bits of  *)
(* it are left, and the highest of them is a sign.                         *)
(***************************************************************************)
Parsed(size) == LET low == size % Word IN IF low < Word \div 2 THEN low ELSE low - Word

\* A size that gives less than a block below 0, which wraps to a file without blocks, is
\* left out.
PlanOK(x) == /\ x.size \in Nat /\ {x.sessions, x.deaths, x.forks} \subseteq Nat
             /\ Parsed(x.size) \in Sizes \/ Parsed(x.size) < -block_size

ASSUME SideloadConstantsOK ==
    ADB_INSTALL_TIMEOUT \in Nat \ {0} /\ \A x \in Plans : PlanOK(x)

VARIABLES
    plan,
    act,          \* where the action thread is
    gui,          \* where the GUI thread is in adbsideloadcancel
    sideload_child_pid,
    tw_has_cancel,
    i,            \* the polls of apply_from_adb
    result,       \* what apply_from_adb returns, or the installation
    waited,
    sessions,     \* the sessions so far; the pid of the child of the last one
    child,        \* "none", "waiting", "serving" or "zombie"
    mount,        \* the mount point: "none", "live", or "dead" without its server
    adbd,         \* does adbd run?
    target,       \* what Cancel sent SIGTERM to in this session: "none", the "child",
                  \* TWRP's own process "group", "all" processes but TWRP, or some "other"
    deaths, forks

thread == <<act, i, result, waited>>
process == <<child, mount, fuse>>
history == <<plan, target, deaths, forks>>
vars == <<thread, gui, sideload_child_pid, tw_has_cancel, sessions, process, adbd, history>>

Init ==
    /\ FuseInit
    /\ act = "idle" /\ gui = "none" /\ sideload_child_pid = 0 /\ tw_has_cancel = FALSE
    /\ i = 0 /\ result = 0 /\ waited = FALSE /\ sessions = 0
    /\ child = "none" /\ mount = "none" /\ adbd = TRUE
    /\ plan \in Plans /\ target = "none" /\ deaths = 0 /\ forks = 0

Alive == child \in {"waiting", "serving"}

\* The child ends by itself, unmounted, or is killed and leaves the mount behind.
Exited == child' = "zombie" /\ mount' = (IF child = "serving" THEN "none" ELSE mount) /\ Fuse(0)
Killed == child' = "zombie" /\ mount' = (IF child = "serving" THEN "dead" ELSE mount) /\ Fuse(0)

\* stat of /sideload/exit ends a server; without one it does nothing.
StatExit == IF child = "serving" THEN Exited ELSE UNCHANGED process

-----------------------------------------------------------------------------
(***************************************************************************)
(* The child: --adbd, minadbd_main.  The host connects, and the server     *)
(* first removes what is mounted at its mount point; or the host is too    *)
(* old, or the server cannot start, and the child exits.  It does not      *)
(* start with a negative size: as an unsigned one it has too many blocks.  *)
(***************************************************************************)
HostConnects ==
    /\ child = "waiting"
    /\ IF Parsed(plan.size) >= 0
       THEN child' = "serving" /\ mount' = "live" /\ Fuse(Parsed(plan.size))
       ELSE child' = "zombie" /\ mount' = "none" /\ Fuse(0)
    /\ UNCHANGED <<thread, gui, sideload_child_pid, tw_has_cancel, sessions, adbd, history>>

OldHost ==
    /\ child = "waiting" /\ Exited
    /\ UNCHANGED <<thread, gui, sideload_child_pid, tw_has_cancel, sessions, adbd, history>>

ChildDies ==
    /\ Alive /\ Killed /\ deaths < plan.deaths /\ deaths' = deaths + 1
    /\ UNCHANGED <<thread, gui, sideload_child_pid, tw_has_cancel, sessions, adbd, plan,
                   target, forks>>

-----------------------------------------------------------------------------
\* The swipe: the page shows the Cancel button and starts the action thread.
Swipe ==
    /\ act = "idle" /\ gui = "none" /\ sessions < plan.sessions
    /\ act' = "stop" /\ tw_has_cancel' = TRUE /\ target' = "none"
    /\ i' = 0 /\ result' = 1 /\ waited' = FALSE
    /\ UNCHANGED <<gui, sideload_child_pid, sessions, process, adbd, plan, deaths, forks>>

Stop ==
    /\ act = "stop" /\ act' = "fork" /\ adbd' = FALSE
    /\ UNCHANGED <<i, result, waited, gui, sideload_child_pid, tw_has_cancel, sessions,
                   process, history>>

Fork ==
    /\ act = "fork" /\ act' = "pid" /\ sessions' = sessions + 1 /\ child' = "waiting"
    /\ UNCHANGED <<fuse, i, result, waited, gui, sideload_child_pid, tw_has_cancel, mount, adbd,
                   history>>

\* fork() fails and its -1 is taken for the pid.
ForkFails ==
    /\ act = "fork" /\ act' = "no pid" /\ sessions' = sessions + 1
    /\ forks < plan.forks /\ forks' = forks + 1
    /\ UNCHANGED <<process, i, result, waited, gui, sideload_child_pid, tw_has_cancel, adbd, plan,
                   target, deaths>>

SetPid ==
    /\ act \in {"pid", "no pid"} /\ act' = "wait"
    /\ sideload_child_pid' = IF act = "pid" THEN sessions ELSE -1
    /\ UNCHANGED <<i, result, waited, gui, tw_has_cancel, sessions, process, adbd, history>>

\* waitpid with WNOHANG: the child has exited, Cancel has waited for it already, or there
\* is none.
PollWait ==
    /\ act = "wait"
    /\ \/ /\ Alive /\ act' = "stat" /\ UNCHANGED <<result, waited, child>>
       \/ /\ ~Alive /\ act' = "failed" /\ result' = -1 /\ waited' = TRUE /\ child' = "none"
    /\ UNCHANGED <<fuse, i, gui, sideload_child_pid, tw_has_cancel, sessions, mount, adbd, history>>

(***************************************************************************)
(* stat of the package: it is there; it is not there yet; or, in the last  *)
(* poll and for any error but ENOENT, the child is killed.                 *)
(***************************************************************************)
PollStat ==
    /\ act = "stat"
    /\ \/ /\ mount = "live" /\ act' = "back" /\ result' = 0 /\ UNCHANGED <<i, process>>
       \/ /\ mount = "none" /\ i < ADB_INSTALL_TIMEOUT - 1 /\ i' = i + 1 /\ act' = "wait"
          /\ UNCHANGED <<result, process>>
       \/ /\ mount = "dead" \/ (mount = "none" /\ i = ADB_INSTALL_TIMEOUT - 1)
          /\ act' = "failed" /\ result' = -1 /\ UNCHANGED i
          /\ IF Alive THEN Killed ELSE UNCHANGED process
    /\ UNCHANGED <<waited, gui, sideload_child_pid, tw_has_cancel, sessions, adbd, history>>

\* Mutant: a child that was killed is not waited for.
FailedAtOnce ==
    /\ act = "failed" /\ act' = "usb" /\ sideload_child_pid' = 0
    /\ UNCHANGED <<i, result, waited, gui, tw_has_cancel, sessions, process, adbd, history>>

Failed ==
    /\ act = "failed" /\ act' = (IF waited THEN "usb" ELSE "exit") /\ sideload_child_pid' = 0
    /\ UNCHANGED <<i, result, waited, gui, tw_has_cancel, sessions, process, adbd, history>>

FailedExit ==
    /\ act = "exit" /\ act' = "reap" /\ StatExit
    /\ UNCHANGED <<i, result, waited, gui, sideload_child_pid, tw_has_cancel, sessions,
                   adbd, history>>

FailedReap ==
    /\ act = "reap" /\ ~Alive /\ act' = "usb" /\ child' = "none"
    /\ UNCHANGED <<fuse, i, result, waited, gui, sideload_child_pid, tw_has_cancel, sessions,
                   mount, adbd, history>>

\* adbd is restarted on a debuggable system.  The status of the child decides on the
\* result; it was never set if Cancel waited first.
RestartAdbd ==
    /\ act = "usb" /\ act' = "back" /\ adbd' \in BOOLEAN /\ result' \in {-1, -2}
    /\ UNCHANGED <<i, waited, gui, sideload_child_pid, tw_has_cancel, sessions, process,
                   history>>

\* adbsideload goes on when apply_from_adb has returned.
Returned ==
    /\ act = "back" /\ tw_has_cancel' = FALSE
    /\ act' = (IF result = 0 THEN "install" ELSE "signal") /\ result' = (IF result = 0 THEN 0 ELSE 1)
    /\ UNCHANGED <<i, waited, gui, sideload_child_pid, sessions, process, adbd, history>>

\* TWinstall_zip reads the package, as long as there is a server.
InstallReads ==
    /\ act = "install" /\ mount = "live" /\ Read
    /\ UNCHANGED <<thread, gui, sideload_child_pid, tw_has_cancel, sessions, child, mount, adbd,
                   history>>

Installed ==
    /\ act = "install" /\ act' = "signal"
    /\ result' \in {0, 1} /\ (result' = 0 => \A p \in DOMAIN seen : seen[p] # 0)
    /\ UNCHANGED <<i, waited, gui, sideload_child_pid, tw_has_cancel, sessions, process,
                   adbd, history>>

\* Mutant: the child is waited for without being told to exit.
WaitOnly ==
    /\ act = "signal" /\ act' = IF sideload_child_pid = 0 THEN "end" ELSE "last"
    /\ UNCHANGED <<i, result, waited, gui, sideload_child_pid, tw_has_cancel, sessions, process,
                   adbd, history>>

SignalExit ==
    /\ act = "signal"
    /\ IF sideload_child_pid = 0 THEN act' = "end" /\ UNCHANGED process
       ELSE act' = "last" /\ StatExit
    /\ UNCHANGED <<i, result, waited, gui, sideload_child_pid, tw_has_cancel, sessions,
                   adbd, history>>

\* Cancel may have set the pid to 0 by now: any child will do, and there is no other.
WaitLast ==
    /\ act = "last" /\ ~Alive /\ act' = "end" /\ child' = "none"
    /\ UNCHANGED <<fuse, i, result, waited, gui, sideload_child_pid, tw_has_cancel, sessions,
                   mount, adbd, history>>

End ==
    /\ act = "end" /\ act' = "idle" /\ adbd' = TRUE /\ i' = 0
    /\ UNCHANGED <<result, waited, gui, sideload_child_pid, tw_has_cancel, sessions, process,
                   history>>

-----------------------------------------------------------------------------
(***************************************************************************)
(* adbsideloadcancel, in the GUI thread: stat of the exit file, one second *)
(* of sleep, then SIGTERM and waitpid.  The pid is read again each time.   *)
(***************************************************************************)
Cancel ==
    /\ gui = "none" /\ tw_has_cancel /\ tw_has_cancel' = FALSE /\ gui' = "stat"
    /\ UNCHANGED <<thread, sideload_child_pid, sessions, process, adbd, history>>

CancelStat ==
    /\ gui = "stat" /\ gui' = "check" /\ StatExit
    /\ UNCHANGED <<thread, sideload_child_pid, tw_has_cancel, sessions, adbd, history>>

CancelCheck ==
    /\ gui = "check" /\ gui' = IF sideload_child_pid = 0 THEN "none" ELSE "kill"
    /\ UNCHANGED <<thread, sideload_child_pid, tw_has_cancel, sessions, process, adbd, history>>

\* kill of pid 0 goes to the process group: TWRP ends, and with it the child.  That of -1
\* goes to everything else.
CancelKill ==
    /\ gui = "kill" /\ gui' = "wait"
    /\ target' = CASE sideload_child_pid = 0 -> "group" [] sideload_child_pid = -1 -> "all"
                   [] sideload_child_pid = sessions /\ child # "none" -> "child"
                   [] OTHER -> "other"
    /\ IF Alive /\ sideload_child_pid \in {-1, 0, sessions} THEN Killed ELSE UNCHANGED process
    /\ act' = IF sideload_child_pid = 0 THEN "killed" ELSE act
    /\ UNCHANGED <<i, result, waited, sideload_child_pid, tw_has_cancel, sessions, adbd,
                   plan, deaths, forks>>

\* The child has ended and is waited for, or it is not a child of TWRP any more.
CancelWait ==
    /\ gui = "wait" /\ act # "killed" /\ gui' = "clear"
    /\ IF sideload_child_pid \in {-1, 0, sessions} THEN ~Alive /\ child' = "none"
       ELSE UNCHANGED child
    /\ UNCHANGED <<fuse, thread, sideload_child_pid, tw_has_cancel, sessions, mount, adbd, history>>

CancelClear ==
    /\ gui = "clear" /\ gui' = "none" /\ sideload_child_pid' = 0
    /\ UNCHANGED <<thread, tw_has_cancel, sessions, process, adbd, history>>

-----------------------------------------------------------------------------
Action ==
    \/ Stop \/ Fork \/ SetPid \/ PollWait \/ PollStat \/ Failed \/ FailedExit \/ FailedReap
    \/ RestartAdbd \/ Returned \/ SignalExit \/ WaitLast \/ End

Gui == CancelStat \/ CancelCheck \/ CancelKill \/ CancelWait \/ CancelClear

Next ==
    \/ Swipe \/ Action \/ ForkFails \/ InstallReads \/ Installed \/ Cancel \/ Gui
    \/ HostConnects \/ OldHost \/ ChildDies

Spec == Init /\ [][Next]_vars

\* The installer waits for the host as long as there is a server: read_block_adb has no
\* timeout.
FairSpec ==
    Spec /\ WF_vars(Action) /\ WF_vars(Gui) /\ WF_vars(mount # "live" /\ Installed)

\* Each read of a position returns what the first read of it returned, whatever the
\* host sends (the head comment of fuse_sideload.cpp), and past the end of the package
\* zeros, up to a transfer that breaks off: the buffer of the block that is kept has then
\* been written to, and is still taken for that block (fetch_block).
ReadsAreStable == (consistent /\ padded) \/ broken

(***************************************************************************)
(* When the operation has ended, however it was cancelled, timed out or    *)
(* failed: the child is gone and waited for, and adbd runs again.  Not so  *)
(* when Cancel took the pid of an earlier session for the child's.         *)
(***************************************************************************)
NothingLeft == (act = "idle" /\ target # "other") => (child = "none" /\ adbd)

\* "caller can now kill the child thread from another thread" (adb_install.cpp): what
\* Cancel sends its signal to is the child, and never TWRP itself.
KillsTheChild == target # "group"

(***************************************************************************)
(* EventuallyEnds: the operation ends, also when fork fails or the child   *)
(* dies: no thread waits for a child that nobody has told to exit.  What   *)
(* it may wait for is the host, in the installation.                       *)
(***************************************************************************)
EventuallyEnds ==
    (act # "idle") ~> (act \in {"idle", "killed"} \/ (act = "install" /\ mount = "live"))
=============================================================================
