------------------------------ MODULE Restore ------------------------------
(***************************************************************************)
(* Run_Restore of what a backup has left in its folder: the digests of all *)
(* archives first, then one partition after the other, a tar archive by a  *)
(* child process (extractTarFork) and an image by Raw_Read_Write, which    *)
(* looks at stop_backup also here.  No partition has subpartitions.        *)
(***************************************************************************)
EXTENDS Backup, SequencesExt

VARIABLES
    step,       \* where Run_Restore is, "none" when it does not run
    selected,   \* tw_restore_selected
    pos,        \* the partition of it that is checked or restored
    check,      \* TW_SKIP_DIGEST_CHECK_VAR, which is set if digests are to be checked
    damaged,    \* the archives the storage has spoilt since the backup
    lost,       \* the archives it has lost
    extractor,  \* the child: "none", "running", or how it ended: "good", "bad"
    written,    \* the blocks of an image written
    touched,    \* the partitions that have been wiped or written
    restored,   \* the archives whose contents are on their partition
    outcome     \* what the user is told of the restore: "none", "ok", "failed"; or "died"

restoreVars == <<step, selected, pos, check, damaged, lost, extractor, written, touched,
                 restored, outcome>>
vars == <<backupVars, restoreVars>>

Init ==
    /\ BackupInit
    /\ step = "none" /\ selected = <<>> /\ pos = 1 /\ check = FALSE /\ damaged = {} /\ lost = {}
    /\ extractor = "none" /\ written = 0 /\ touched = {} /\ restored = {} /\ outcome = "none"

\* The rest of a backup's state, while a restore has the action thread.
BackupRests == UNCHANGED <<plan, backups, part, block, ret, report, cancel, shared, process,
                           files>>

Partition == selected[pos]

Present(p) == {n \in Names : archives[<<p, n>>] # "none" /\ <<p, n>> \notin lost}

\* The page lists the partitions whose only or first archive is in the folder.
Set_Restore_Files(gone) ==
    {p \in Parts : \E n \in {Plain, 0} \cap Names :
                       archives[<<p, n>>] # "none" /\ <<p, n>> \notin gone}

-----------------------------------------------------------------------------
\* The user selects some of them.  The storage has spoilt or lost
\* at most one archive.
NandroidRestore ==
    /\ act = "idle" /\ gui = "idle" /\ outcome = "none" /\ backups > 0
    /\ \E bad \in {{}} \cup {{f} : f \in {g \in Files : plan.fails /\ archives[g] # "none"}} :
           \/ damaged' = bad /\ lost' = {}
           \/ damaged' = {} /\ lost' = bad
    /\ selected' \in SetToAllKPermutations(Set_Restore_Files(lost'))
    /\ check' \in BOOLEAN
    /\ act' = "restore" /\ step' = "check" /\ pos' = 1
    /\ BackupRests /\ UNCHANGED <<extractor, written, touched, restored, outcome>>

\* Run_Restore returns, and nandroid tells the user.
Return(how) == act' = "idle" /\ step' = "none" /\ outcome' = how

Fails == plan.fails /\ Return("failed")

Go(where) == step' = where /\ UNCHANGED <<act, outcome>>

\* An archive matches its digest, if that is there.
Check_Restore_File_Digest(f) == f \in digests /\ f \notin damaged

Check_Digest(p) == \A n \in FirstNames(Present(p)) : Check_Restore_File_Digest(<<p, n>>)

\* Mutant: the last of the list is not checked, as if it had no ";" after it.
CheckAllButLast ==
    /\ step = "check"
    /\ \/ pos >= Len(selected) /\ selected # <<>> /\ Go("next") /\ pos' = 1
       \/ selected = <<>> /\ Return("failed") /\ UNCHANGED pos
       \/ /\ pos < Len(selected) /\ (check => Check_Digest(Partition))
          /\ Go("check") /\ pos' = pos + 1
       \/ /\ pos < Len(selected) /\ check /\ ~Check_Digest(Partition)
          /\ Return("failed") /\ UNCHANGED pos
       \/ Fails /\ UNCHANGED pos
    /\ BackupRests /\ UNCHANGED <<selected, check, damaged, lost, extractor, written, touched,
                                 restored>>

\* The first loop.  It also fails if a partition is mounted read-only, or if the storage
\* or a digest cannot be read.
CheckDigest ==
    /\ step = "check"
    /\ \/ pos > Len(selected) /\ selected # <<>> /\ Go("next") /\ pos' = 1
       \/ selected = <<>> /\ Return("failed") /\ UNCHANGED pos
       \/ /\ pos <= Len(selected) /\ (check => Check_Digest(Partition))
          /\ Go("check") /\ pos' = pos + 1
       \/ /\ pos <= Len(selected) /\ check /\ ~Check_Digest(Partition)
          /\ Return("failed") /\ UNCHANGED pos
       \/ Fails /\ UNCHANGED pos
    /\ BackupRests /\ UNCHANGED <<selected, check, damaged, lost, extractor, written, touched,
                                 restored>>

\* The archive cannot be read while its digest is made (see DigestDies).
CheckDies ==
    /\ step = "check" /\ pos <= Len(selected) /\ check /\ plan.fails
    /\ \E n \in FirstNames(Present(Partition)) : <<Partition, n>> \in digests
    /\ Restarted /\ step' = "none" /\ outcome' = "died"
    /\ UNCHANGED <<plan, backups, part, block, ret, report, swept, unclean, process, files,
                   selected, pos, check, damaged, lost, extractor, written, touched, restored>>

\* TWPartition::Restore.
RestoreMethod == IF List[Partition] = "image" THEN "open" ELSE "wipe"

\* The second loop.
RestorePartition ==
    /\ step = "next"
    /\ \/ pos > Len(selected) /\ Return("ok")
       \/ pos <= Len(selected) /\ Go(RestoreMethod)
    /\ BackupRests /\ UNCHANGED <<selected, pos, check, damaged, lost, extractor, written, touched,
                                 restored>>

Wiped == touched \cup {Partition}

\* Restore_Tar: the partition is wiped and remounted, either of which may fail.
Wipe ==
    /\ step = "wipe"
    /\ \/ Go("fork") /\ touched' = Wiped
       \/ Fails /\ touched' \in {touched, Wiped}
    /\ BackupRests /\ UNCHANGED <<selected, pos, check, damaged, lost, extractor, written,
                                 restored>>

ForkExtract ==
    /\ step = "fork"
    /\ \/ Go("extract") /\ extractor' = "running"
       \/ Fails /\ UNCHANGED extractor
    /\ BackupRests /\ UNCHANGED <<selected, pos, check, damaged, lost, written, touched, restored>>

\* The archives the child extracts: the plain one, or for each thread, up to the first
\* without any, the ones that are there without a gap.
ToExtract(p) ==
    LET there == Present(p)
    IN  IF Plain \in there THEN {Plain}
        ELSE {n \in there : /\ \A t \in 0 .. n \div Split : Split * t \in there
                            /\ \A m \in Split * (n \div Split) .. n : m \in there}

Todo == {n \in ToExtract(Partition) : <<Partition, n>> \notin restored}

\* A thread takes its archives in turn.
Extract ==
    /\ extractor = "running"
    /\ \E n \in Todo : /\ n % Split # 0 => n - 1 \notin Todo
                      /\ restored' = restored \cup {<<Partition, n>>}
    /\ UNCHANGED <<backupVars, step, selected, pos, check, damaged, lost, extractor, written,
                   touched, outcome>>

\* The child joins its threads.  They may find out that an archive is spoilt or not
\* whole, or may not.
ExtractExit ==
    /\ extractor = "running"
    /\ \/ extractor' = "good" /\ Todo = {}
       \/ /\ extractor' = "bad"
          /\ plan.fails \/ \E n \in Todo : archives[<<Partition, n>>] = "partial"
    /\ UNCHANGED <<backupVars, step, selected, pos, check, damaged, lost, written, touched,
                   restored, outcome>>

\* The parent reads the pipe to its end and waits for the child.
WaitExtract ==
    /\ step = "extract" /\ extractor # "running" /\ extractor' = "none"
    /\ IF extractor = "good" THEN Go("next") /\ pos' = pos + 1
       ELSE Return("failed") /\ UNCHANGED pos
    /\ BackupRests /\ UNCHANGED <<selected, check, damaged, lost, written, touched, restored>>

\* Restore_Image: Raw_Read_Write from the archive to the block device.
OpenDevice ==
    /\ step = "open" /\ written' = 0
    /\ Go("write") \/ Fails
    /\ BackupRests /\ UNCHANGED <<selected, pos, check, damaged, lost, extractor, touched,
                                 restored>>

RestoreBlock ==
    /\ step = "write"
    /\ \/ /\ Fails /\ touched' \in {touched, touched \cup {Partition}}
          /\ UNCHANGED <<pos, written, restored>>
       \/ /\ written' = written + 1 /\ touched' = touched \cup {Partition}
          /\ restored' = restored \cup
                             (IF written' = Blocks THEN {<<Partition, Plain>>} ELSE {})
          /\ CASE Check_Backup_Cancel -> Return("failed") /\ UNCHANGED pos
               [] ~Check_Backup_Cancel /\ written' = Blocks -> Go("next") /\ pos' = pos + 1
               [] OTHER -> Go("write") /\ UNCHANGED pos
    /\ BackupRests /\ UNCHANGED <<selected, check, damaged, lost, extractor>>

-----------------------------------------------------------------------------
RestoreThread ==
    \/ CheckDigest \/ RestorePartition \/ Wipe \/ ForkExtract \/ WaitExtract \/ OpenDevice
    \/ RestoreBlock

\* A restore comes last.
Next ==
    \/ outcome = "none" /\ BackupNext /\ UNCHANGED restoreVars
    \/ NandroidRestore \/ RestoreThread \/ CheckDies \/ Extract \/ ExtractExit

Spec == Init /\ [][Next]_vars

FairSpec ==
    /\ Spec
    /\ WF_vars(Thread /\ UNCHANGED restoreVars) /\ WF_vars(Tar /\ UNCHANGED restoreVars)
    /\ WF_vars(Gui /\ UNCHANGED restoreVars) /\ WF_vars(RestoreThread)
    /\ WF_vars(Extract \/ ExtractExit)

-----------------------------------------------------------------------------
(***************************************************************************)
(* "Check Digest files first before restoring to ensure that all of them   *)
(* match before starting a restore" (Run_Restore): with digests, nothing   *)
(* is wiped or written if an archive is what was left of a backup that was *)
(* given up, or is spoilt, unless it is of a thread after the first.  And a*)
(* restore that is reported as completed has given every partition all of  *)
(* its archives: the names under which threads look for them are those     *)
(* under which threads have stored them.                                   *)
(***************************************************************************)
RestoreIsSafe ==
    /\ check /\ touched # {} =>
           \A p \in ToSet(selected) : \A n \in Names :
               /\ archives[<<p, n>>] # "partial"
               /\ <<p, n>> \in damaged => n >= Split
    /\ outcome = "ok" =>
           \A p \in ToSet(selected) :
               (\A n \in NamesOf(p) : n \in Present(p)) => {p} \X NamesOf(p) \subseteq restored
=============================================================================
