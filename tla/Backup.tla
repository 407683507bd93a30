------------------------------- MODULE Backup -------------------------------
(***************************************************************************)
(* A backup and its cancellation: the action thread (nandroid, Run_Backup, *)
(* Backup_Partition, createTarFork and Raw_Read_Write), the GUI thread     *)
(* (cancelbackup, Cancel_Backup), and the process that writes a tar        *)
(* archive.  They share stop_backup, which is atomic, tar_fork_pid, which  *)
(* is a plain int, TW_BACKUP_NAME, and the backup folder.                  *)
(*                                                                         *)
(* A partition is backed up to a tar archive, to several of them if it is  *)
(* large or encrypted, or to an image of Blocks blocks.  The .info file    *)
(* goes with the archive.                                                  *)
(***************************************************************************)
EXTENDS Integers, Sequences, FiniteSets

CONSTANTS
    Blocks,       \* blocks of an image
    Split,        \* the archives one thread may fill (100)
    Plans         \* what the user does (see PlanOK)

Kinds == {"tar", "split", "image"}

(***************************************************************************)
(* A plan: the partitions of each backup in turn, the archives that each   *)
(* thread needs for its part of a split one, whether TW_BACKUP_NAME names  *)
(* the folder ("given"), is made to do so when the backup starts ("auto"), *)
(* or is "(Current Date)", whether digests are made, and whether a step of *)
(* a backup may fail.                                                      *)
(***************************************************************************)
PlanOK(x) ==
    /\ x.lists \in Seq(Seq(Kinds)) /\ x.need \in Seq(Nat \ {0})
    /\ x.name \in {"given", "auto", "date"} /\ x.digest \in BOOLEAN /\ x.fails \in BOOLEAN

ASSUME BackupConstantsOK ==
    Blocks \in Nat \ {0} /\ Split \in Nat \ {0} /\ \A x \in Plans : PlanOK(x)

VARIABLES
    plan,
    act,            \* where the action thread is, "idle" between operations
    backups,        \* the backups started
    part,           \* the partition being backed up
    block,          \* the blocks of an image that are written
    gui,            \* where the GUI thread is in Cancel_Backup
    stop_backup,
    tar_fork_pid,
    forks,          \* the children forked; the pid of the last
    child,          \* "none", "running", or not waited for yet: "good", "bad"
    tars,           \* tars[t]: how often thread t of the child has opened or closed an
                    \* archive, -1 when it has failed
    folder,         \* does the backup folder exist?
    archives,       \* archives[<<p, n>>]: "none", "partial" or "complete"
    digests,        \* the archives that have a digest
    log,            \* is recovery.log in the folder?
    name,           \* TW_BACKUP_NAME: does it name the folder?
    path,           \* does Cancel's copy of it?
    ret,            \* what Run_Backup returns
    report,         \* what the user is told: "none", "ok", "failed", "cancelled"
    swept,          \* has Cancel removed what was in the folder?
    unclean         \* has Clean_Backup_Folder failed to remove something?

files == <<folder, archives, digests, log>>
shared == <<stop_backup, tar_fork_pid, name>>
action == <<act, backups, part, block, ret, report>>
cancel == <<gui, path, swept, unclean>>
process == <<forks, child, tars>>
backupVars == <<plan, action, cancel, shared, process, files>>

List == plan.lists[backups]
Parts == DOMAIN List
AllParts == UNION {DOMAIN plan.lists[b] : b \in DOMAIN plan.lists}

\* How the name of an archive ends: in ".win", or in ".win" with the thread and two digits.
Plain == -1
Numbered(t, k) == Split * (t - 1) + k
Names == {Plain} \cup {Numbered(t, k) : t \in DOMAIN plan.need, k \in 0 .. Split - 1}
Files == AllParts \X Names

\* The archives partition p needs.
NamesOf(p) ==
    IF List[p] = "split"
    THEN UNION {{Numbered(t, k) : k \in 0 .. plan.need[t] - 1} : t \in DOMAIN plan.need}
    ELSE {Plain}

\* The archives Make_Digest and Check_Digest find among the ones that are there: the
\* plain one, or those with the numbers 000, 001, ... up to the first that is missing.
FirstNames(there) ==
    IF Plain \in there THEN {Plain} ELSE {n \in there : \A m \in 0 .. n : m \in there}

Check_Backup_Cancel == stop_backup # 0

BackupInit ==
    /\ plan \in Plans /\ act = "idle" /\ backups = 0 /\ part = 1 /\ block = 0
    /\ gui = "idle" /\ path = FALSE /\ swept = FALSE /\ unclean = FALSE
    /\ stop_backup = 0 /\ tar_fork_pid = 0 /\ forks = 0 /\ child = "none" /\ tars = <<>>
    /\ folder = FALSE /\ archives = [f \in Files |-> "none"] /\ digests = {} /\ log = FALSE
    /\ name = FALSE /\ ret = 0 /\ report = "none"

-----------------------------------------------------------------------------
(***************************************************************************)
(* The action thread.  The page starts nandroid("backup").  Each backup    *)
(* has a folder of its own, Check_Backup_Name sees to that.                *)
(***************************************************************************)
Nandroid ==
    /\ act = "idle" /\ gui = "idle" /\ backups < Len(plan.lists)
    /\ act' = "start" /\ backups' = backups + 1 /\ report' = "none" /\ part' = 1
    /\ name' = (plan.name = "given") /\ swept' = FALSE /\ unclean' = FALSE
    /\ folder' = FALSE /\ archives' = [f \in Files |-> "none"] /\ digests' = {} /\ log' = FALSE
    /\ UNCHANGED <<plan, block, ret, gui, path, stop_backup, tar_fork_pid, process>>

Start ==
    /\ act = "start" /\ act' = "mkdir" /\ stop_backup' = 0
    /\ UNCHANGED <<plan, backups, part, block, ret, report, cancel, tar_fork_pid, name,
                   process, files>>

\* The name is chosen and the folder is made, or there is no space for the backup.
Mkdir ==
    /\ act = "mkdir" /\ name' = (name \/ plan.name = "auto")
    /\ \/ act' = "next" /\ folder' = TRUE /\ UNCHANGED ret
       \/ plan.fails /\ act' = "report" /\ ret' = 0 /\ UNCHANGED folder
    /\ UNCHANGED <<plan, backups, part, block, report, cancel, stop_backup, tar_fork_pid,
                   process, archives, digests, log>>

\* Mutant: the last of the list is not taken, as if it had no ";" after it.
AllButLast ==
    /\ act = "next" /\ block' = 0
    /\ \/ /\ part >= Len(List) /\ act' = "finish" /\ UNCHANGED ret
       \/ /\ part < Len(List) /\ Check_Backup_Cancel /\ act' = "report" /\ ret' = -1
       \/ /\ part < Len(List) /\ ~Check_Backup_Cancel /\ UNCHANGED ret
          /\ act' = IF List[part] = "image" THEN "open" ELSE "fork"
    /\ UNCHANGED <<plan, backups, part, report, cancel, shared, process, files>>

NextPartition ==
    /\ act = "next" /\ block' = 0
    /\ \/ /\ part > Len(List) /\ act' = "finish" /\ UNCHANGED ret
       \/ /\ part <= Len(List) /\ Check_Backup_Cancel /\ act' = "report" /\ ret' = -1
       \/ /\ part <= Len(List) /\ ~Check_Backup_Cancel /\ UNCHANGED ret
          /\ act' = IF List[part] = "image" THEN "open" ELSE "fork"
    /\ UNCHANGED <<plan, backups, part, report, cancel, shared, process, files>>

\* The threads of the child: one, unless it encrypts.
Threads == IF List[part] = "split" THEN DOMAIN plan.need ELSE {1}

\* createTarFork, the parent: the pid is the result of fork, also if that is -1.
Fork ==
    /\ act = "fork"
    /\ \/ /\ act' = "pipe" /\ forks' = forks + 1 /\ tar_fork_pid' = forks + 1
          /\ child' = "running" /\ tars' = [t \in Threads |-> 0]
       \/ /\ plan.fails /\ act' = "error" /\ tar_fork_pid' \in {tar_fork_pid, -1}
          /\ UNCHANGED process
    /\ UNCHANGED <<plan, backups, part, block, ret, report, cancel, stop_backup, name, files>>

\* Mutant: the parent has not closed its own end, and reads on.
PipeHeldOpen ==
    /\ act = "pipe" /\ child = "none" /\ act' = "wait"
    /\ UNCHANGED <<plan, backups, part, block, ret, report, cancel, shared, process,
                   files>>

\* The pipe is read to its end, when the child has closed it.
Pipe ==
    /\ act = "pipe" /\ child # "running" /\ act' = "wait"
    /\ UNCHANGED <<plan, backups, part, block, ret, report, cancel, shared, process,
                   files>>

\* Wait_For_Child of tar_fork_pid, or of any child if Cancel has set that to 0.
Wait ==
    /\ act = "wait" /\ act' = (IF child = "good" THEN "digest" ELSE "error")
    /\ child' = "none" /\ tars' = <<>>
    /\ UNCHANGED <<plan, backups, part, block, ret, report, cancel, shared, forks, files>>

\* tarList: a thread opens one archive after the other and fills it, or fails, as it
\* does when the folder is gone or it needs too many.
Needed(t) == IF List[part] = "split" THEN plan.need[t] ELSE 1
Current(t) ==
    <<part, IF List[part] = "split" THEN Numbered(t, tars[t] \div 2) ELSE Plain>>
Done(t) == tars[t] = 2 * Needed(t)

TarOpen(t) ==
    /\ child = "running" /\ tars[t] % 2 = 0 /\ ~Done(t)
    /\ \/ /\ folder /\ tars[t] \div 2 < Split /\ tars' = [tars EXCEPT ![t] = @ + 1]
          /\ archives' = [archives EXCEPT ![Current(t)] = "partial"]
       \/ /\ ~folder \/ tars[t] \div 2 >= Split \/ plan.fails
          /\ tars' = [tars EXCEPT ![t] = -1] /\ UNCHANGED archives
    /\ UNCHANGED <<plan, action, cancel, shared, forks, child, folder, digests, log>>

\* An open file, if it has not been unlinked, is all there now.
Filled(f) == [archives EXCEPT ![f] = IF @ = "partial" THEN "complete" ELSE @]

\* closeTar fails if the archive has no size, as one that Cancel has unlinked.
TarClose(t) ==
    /\ child = "running" /\ tars[t] > 0 /\ tars[t] % 2 = 1
    /\ \/ /\ archives[Current(t)] # "none"
          /\ tars' = [tars EXCEPT ![t] = @ + 1] /\ archives' = Filled(Current(t))
       \/ /\ plan.fails \/ archives[Current(t)] = "none"
          /\ tars' = [tars EXCEPT ![t] = -1] /\ UNCHANGED archives
    /\ UNCHANGED <<plan, action, cancel, shared, forks, child, folder, digests, log>>

\* The child joins its threads in turn, and exits at the first that has failed.
TarExit ==
    /\ child = "running"
    /\ \/ child' = "good" /\ \A t \in Threads : Done(t)
       \/ child' = "bad" /\ \E t \in Threads :
                                 tars[t] = -1 /\ \A u \in Threads : u < t => Done(u)
    /\ UNCHANGED <<plan, action, cancel, shared, forks, tars, files>>

\* Raw_Read_Write: the image is opened, written block by block, and given up when the
\* backup is to stop.
Open ==
    /\ act = "open"
    /\ \/ folder /\ act' = "write" /\ archives' = [archives EXCEPT ![<<part, Plain>>] = "partial"]
       \/ (~folder \/ plan.fails) /\ act' = "error" /\ UNCHANGED archives
    /\ UNCHANGED <<plan, backups, part, block, ret, report, cancel, shared, process,
                   folder, digests, log>>

\* Mutant: a backup that is to stop returns at once.
WriteOrReturn ==
    /\ act = "write" /\ block' = block + 1
    /\ act' = IF Check_Backup_Cancel THEN "report"
              ELSE IF block + 1 = Blocks THEN "digest" ELSE "write"
    /\ ret' = IF Check_Backup_Cancel THEN -1 ELSE ret
    /\ archives' = IF block + 1 = Blocks THEN Filled(<<part, Plain>>) ELSE archives
    /\ UNCHANGED <<plan, backups, part, report, cancel, shared, process, folder,
                   digests, log>>

WriteBlock ==
    /\ act = "write"
    /\ \/ /\ block' = block + 1
          /\ act' = IF Check_Backup_Cancel THEN "error"
                    ELSE IF block + 1 = Blocks THEN "digest" ELSE "write"
          /\ archives' = IF block + 1 = Blocks THEN Filled(<<part, Plain>>) ELSE archives
       \/ plan.fails /\ act' = "error" /\ UNCHANGED <<block, archives>>
    /\ UNCHANGED <<plan, backups, part, ret, report, cancel, shared, process, folder,
                   digests, log>>

Write_Digest(found) == digests \cup ({part} \X found)

\* The archives Make_Digest makes digests of.
ToDigest == FirstNames({n \in Names : archives[<<part, n>>] # "none"})

\* It fails at one of them.
SomeDigests == \E n \in ToDigest : digests' = Write_Digest({m \in ToDigest : m < n})

\* Backup_Partition after the archive: Make_Digest, if digests are made.
Digest ==
    /\ act = "digest"
    /\ \/ /\ ~plan.digest \/ ToDigest # {}
          /\ act' = "next" /\ part' = part + 1
          /\ digests' = IF plan.digest THEN Write_Digest(ToDigest) ELSE digests
       \/ /\ plan.digest /\ act' = "error" /\ UNCHANGED part
          /\ \/ ToDigest = {} /\ UNCHANGED digests
             \/ plan.fails /\ SomeDigests
    /\ UNCHANGED <<plan, backups, block, ret, report, cancel, shared, process, folder,
                   archives, log>>

\* TWRP dies, and init starts it again.
Restarted == /\ act' = "idle" /\ gui' = "idle" /\ path' = FALSE
             /\ stop_backup' = 0 /\ tar_fork_pid' = 0 /\ name' = FALSE

(***************************************************************************)
(* stream_file_to_digest, when the archive cannot be read: the -1 of read  *)
(* is passed on as a length, which runs out of the buffer and into what is *)
(* not mapped.                                                             *)
(***************************************************************************)
DigestDies ==
    /\ act = "digest" /\ plan.digest /\ plan.fails /\ Restarted /\ SomeDigests
    /\ UNCHANGED <<plan, backups, part, block, ret, report, swept, unclean, process, folder,
                   archives, log>>

\* Mutant: only the archive that failed is removed.
ErrorHere ==
    /\ act = "error" /\ act' = "log" /\ archives' = [archives EXCEPT ![<<part, Plain>>] = "none"]
    /\ digests' = {}
    /\ UNCHANGED <<plan, backups, part, block, ret, report, cancel, shared, process,
                   folder, log>>

\* Clean_Backup_Folder knows the archives by their extension: "win", without digits.
Clean_Backup_Folder(kept) ==
    /\ archives' = [f \in Files |-> IF f[2] = Plain /\ f \notin kept THEN "none" ELSE archives[f]]
    /\ digests' = digests \cap kept

\* Then comes a copy of the log.
Error ==
    /\ act = "error" /\ act' = "log" /\ Clean_Backup_Folder({})
    /\ UNCHANGED <<plan, backups, part, block, ret, report, cancel, shared, process,
                   folder, log>>

\* The folder cannot be opened, or a file not be unlinked, which is only logged.
ErrorUnclean ==
    /\ act = "error" /\ act' = "log" /\ plan.fails /\ unclean' = TRUE
    /\ \E kept \in {Files} \cup {{f} : f \in Files} : Clean_Backup_Folder(kept)
    /\ UNCHANGED <<plan, backups, part, block, ret, report, gui, path, swept, shared, process,
                   folder, log>>

Log ==
    /\ act = "log" /\ act' = "report" /\ log' = folder /\ ret' = 0
    /\ UNCHANGED <<plan, backups, part, block, report, cancel, shared, process,
                   folder, archives, digests>>

Finish ==
    /\ act = "finish" /\ act' = "report" /\ log' = folder /\ ret' = 1
    /\ UNCHANGED <<plan, backups, part, block, report, cancel, shared, process,
                   folder, archives, digests>>

\* nandroid tells the user, and sets TW_BACKUP_NAME for the next time.
Report ==
    /\ act = "report" /\ act' = "name"
    /\ report' = IF Check_Backup_Cancel THEN "cancelled" ELSE IF ret = 0 THEN "failed" ELSE "ok"
    /\ UNCHANGED <<plan, backups, part, block, ret, cancel, shared, process, files>>

Name ==
    /\ act = "name" /\ act' = "idle" /\ name' = FALSE
    /\ UNCHANGED <<plan, backups, part, block, ret, report, cancel, stop_backup,
                   tar_fork_pid, process, files>>

-----------------------------------------------------------------------------
(***************************************************************************)
(* Cancel_Backup: the flag, and if there is a pid, a signal to it, a loop  *)
(* until there is no such process, and the removal of the folder.          *)
(***************************************************************************)
Cancel ==
    /\ gui = "idle" /\ act \notin {"idle", "restore"} /\ gui' = "check" /\ stop_backup' = 1
    /\ UNCHANGED <<plan, action, path, swept, unclean, tar_fork_pid, name, process, files>>

CancelCheck ==
    /\ gui = "check"
    /\ gui' = IF tar_fork_pid = 0 THEN "idle" ELSE "path"
    /\ UNCHANGED <<plan, action, path, swept, unclean, shared, process, files>>

CancelPath ==
    /\ gui = "path" /\ gui' = "kill" /\ path' = name
    /\ UNCHANGED <<plan, action, swept, unclean, shared, process, files>>

CancelKill ==
    /\ gui = "kill" /\ gui' = "gone"
    /\ child' = IF tar_fork_pid \in {-1, forks} /\ child = "running" THEN "bad" ELSE child
    /\ UNCHANGED <<plan, action, path, swept, unclean, shared, forks, tars, files>>

\* A child that has not been waited for still is a process; and -1 stands for any process.
CancelGone ==
    /\ gui = "gone" /\ tar_fork_pid # -1 /\ (tar_fork_pid = forks => child = "none")
    /\ gui' = "unlink"
    /\ UNCHANGED <<plan, action, path, swept, unclean, shared, process, files>>

\* removeDir: the files, then the folder if nothing has come into it since.
CancelUnlink ==
    /\ gui = "unlink"
    /\ IF path /\ folder
       THEN /\ gui' = "rmdir" /\ swept' = TRUE
            /\ archives' = [f \in Files |-> "none"] /\ digests' = {} /\ log' = FALSE
       ELSE gui' = "clear" /\ UNCHANGED <<swept, archives, digests, log>>
    /\ UNCHANGED <<plan, action, path, unclean, shared, process, folder>>

CancelRmdir ==
    /\ gui = "rmdir" /\ gui' = "clear"
    /\ folder' = (folder /\ (log \/ \E f \in Files : archives[f] # "none"))
    /\ UNCHANGED <<plan, action, path, swept, unclean, shared, process, archives, digests, log>>

CancelClear ==
    /\ gui = "clear" /\ gui' = "idle" /\ tar_fork_pid' = 0
    /\ UNCHANGED <<plan, action, path, swept, unclean, stop_backup, name, process, files>>

-----------------------------------------------------------------------------
Thread ==
    \/ Start \/ Mkdir \/ NextPartition \/ Fork \/ Pipe \/ Wait \/ Open \/ WriteBlock \/ Digest
    \/ Error \/ Log \/ Finish \/ Report \/ Name

Tar == (\E t \in DOMAIN tars : TarOpen(t) \/ TarClose(t)) \/ TarExit

Gui ==
    \/ CancelCheck \/ CancelPath \/ CancelKill \/ CancelGone \/ CancelUnlink \/ CancelRmdir
    \/ CancelClear

BackupNext == Nandroid \/ Thread \/ DigestDies \/ ErrorUnclean \/ Tar \/ Cancel \/ Gui

-----------------------------------------------------------------------------
(***************************************************************************)
(* A backup that is reported as completed is there, every archive of it,   *)
(* unless Cancel has removed the folder all the same: when it was pressed  *)
(* after nandroid had looked at stop_backup, or before Run_Backup reset it.*)
(***************************************************************************)
SuccessIsComplete ==
    (act \in {"name", "idle"} /\ report = "ok" /\ ~swept)
        => (folder /\ \A p \in Parts : \A n \in NamesOf(p) : archives[<<p, n>>] = "complete")

(***************************************************************************)
(* A backup in which a partition failed, or was given up because of Cancel *)
(* (the tar process killed, the image left), leaves nothing that could be  *)
(* restored, neither that partition nor the ones before it: at most the    *)
(* parts of a split archive, and these without their digests.  Not so if   *)
(* the folder could not be cleaned.                                        *)
(***************************************************************************)
GivenUpLeavesNoArchive ==
    (act \in {"name", "idle"} /\ report # "none" /\ ret = 0 /\ ~unclean)
        => \A f \in Files : archives[f] # "none" => f[2] # Plain /\ f \notin digests

\* However a backup ends, with whatever order of Cancel's steps, no part of an archive
\* stays, unless that is split or the folder could not be cleaned, and no tar process is
\* left running or unwaited for.
EndsClean ==
    act \in {"name", "idle"}
        => /\ child = "none"
           /\ unclean \/ \A f \in Files : archives[f] = "partial" => f[2] # Plain

\* Neither thread waits for ever for the other or for the tar process, unless fork has
\* failed: Cancel_Backup then signals -1, and waits until there is no process at all.
EventuallyIdle ==
    <>[](act = "idle" /\ (gui = "idle" \/ (gui = "gone" /\ tar_fork_pid = -1)))
=============================================================================
