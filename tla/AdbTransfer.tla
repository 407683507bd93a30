---------------------------- MODULE AdbTransfer ----------------------------
(***************************************************************************)
(* A backup over adb, and its restore from what the host has kept.         *)
(***************************************************************************)
EXTENDS AdbBackup, AdbRestore

vars == <<plan, stream, backupVars, restoreVars>>

Init == plan \in Plans /\ BackupInit /\ RestoreInit

Backup == (TwrpBackup \/ BuBackup \/ BackupFails \/ HostLost) /\ UNCHANGED restoreVars

\* The host restores a backup that ended, if its data was not mixed up.
Restore ==
    /\ plan.restored /\ bu = "done" /\ twrp = "done" /\ ~outrun
    /\ StartRestore \/ BuRestore \/ TwrpRestore \/ HostStops
    /\ UNCHANGED backupVars

Next == Backup \/ Restore

Spec == Init /\ [][Next]_vars

FairSpec ==
    /\ Spec
    /\ WF_vars(TwrpBackup /\ UNCHANGED restoreVars) /\ WF_vars(BuBackup /\ UNCHANGED restoreVars)
    /\ WF_vars(BuRestore /\ UNCHANGED backupVars) /\ WF_vars(TwrpRestore /\ UNCHANGED backupVars)

-----------------------------------------------------------------------------
\* Where the structure of type t about file f begins in the stream.
Place(t, f) == CHOOSE i \in DOMAIN stream : stream[i] = Byte(t, f, 1)

\* What is between the header and the trailer of file f, in chunks.
Body(f) == SubSeq(stream, Place(File(f).type, f) + MAX_ADB_READ, Place("MD5TRAILER", f) - 1)

Payload(f) == SelectSeq(Body(f), LAMBDA b : b.t # "TWDATA")

Finished(f) == \E i \in DOMAIN stream : stream[i] = Byte("MD5TRAILER", f, 1)

\* The data of file f, whole and in order, then zeros.
Complete(f) ==
    /\ Place(File(f).type, f) < Place("MD5TRAILER", f)
    /\ Payload(f) = Data(f) \o Zeros(Len(Payload(f)) - Len(Data(f)))

(***************************************************************************)
(* The stream format of twadbstream.h: between the header and the trailer  *)
(* of a file its data and nothing but zeros after it, in whole chunks,     *)
(* each of which begins with a TWDATA structure if there is data in it;    *)
(* for reads of any size.  Not so if bu was outrun: data read after TWEOF  *)
(* is cut to a byte per read, and nothing keeps the data of the next file  *)
(* from being read before its header.                                      *)
(***************************************************************************)
StreamFormat ==
    ~outrun => \A f \in {g \in DOMAIN plan.files : Finished(g)} :
        /\ Complete(f) /\ Len(Body(f)) % DATA_MAX_CHUNK_SIZE = 0
        /\ \A i \in DOMAIN Body(f) : Body(f)[i].t = "data" =>
              Body(f)[i - ((i - 1) % DATA_MAX_CHUNK_SIZE)] = Byte("TWDATA", f, 1)

(***************************************************************************)
(* "We will flush the remaining data stream" (twrpback.cpp): when the      *)
(* trailer of a file is written, all of its data is in the stream.         *)
(***************************************************************************)
RestIsFlushed == \A f \in DOMAIN plan.files : Finished(f) => Complete(f)

(***************************************************************************)
(* A restore that is reported as complete has given every partition what   *)
(* was backed up, also when the host stops sending; if bu did wait for     *)
(* each TWEOF (it does not when tweofrcvd is left over from the file       *)
(* before, or happens to be set at the start).                             *)
(***************************************************************************)
RestoredIsBackedUp ==
    rtwrp = "complete" /\ ~unwaited => \A f \in DOMAIN plan.files : got[f] = Data(f)

(***************************************************************************)
(* Both processes come to an end, of a backup that is refused or made and  *)
(* of the restore that is made or stopped, also when the host is lost;     *)
(* if neither the backup failed (bu is not told), nor TWRP opened a fifo   *)
(* in the moment in which bu closed it, nor bu gave up before TWRP opened  *)
(* the fifo, nor the host stopped sending, nor bu did not wait.            *)
(***************************************************************************)
BothEnd ==
    <>[](\/ twrp = "failed" /\ (plan.fails \/ file = 0 \/ bu = "failed")
         \/ twrp = "stuck" \/ cut \/ unwaited \/ rbu = "failed"
         \/ twrp = "refused" /\ bu = "failed"
         \/ twrp = "done" /\ (bu = "failed" \/ (bu = "done" /\ rbu = "off"))
         \/ rbu = "done" /\ (rtwrp = "complete" \/ (plan.stopped /\ rtwrp = "error")))
=============================================================================
