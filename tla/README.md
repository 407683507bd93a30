# A TLA+ development for the Team Win Recovery Project

This directory holds TLA+ specifications of parts of the recovery, the TLC
configurations that check them on small instances, and TLAPS proofs of the main
safety properties of three of them for all instances.  Paths are relative to the
repository's `src/`; `blockimg.cpp` is `updater/blockimg.cpp`.

The parts chosen are those where a mistake costs a device, an update or a
backup, and where tests hardly reach: what a crash or a loss of power
interrupts, what two threads or processes share, and what is passed from one
boot to the next.

## 1. Modules

| Module | What it is |
|---|---|
| `BlockImg` | `block_image_verify` and `block_image_update`: commands, stash, `last_command`, crashes, I/O errors, retries |
| `NewData` | the main thread of such an update and the thread that expands `new.dat` |
| `AtomicUpdate` | what the update of one partition promises: the abstract specification |
| `ApplyPatch` | `applypatch/`: patch, check, space and flash, compared with `AtomicUpdate` |
| `Storage` | /misc and /cache as the modules below share them, and what a loss of power leaves of them |
| `Uncrypt` | `produce_block_map` and `MapBlockFile` |
| `RecoveryBoot` | bootloader message, command file, scripts: how TWRP learns what to do and does it |
| `UpdatePath` | `Uncrypt` and `RecoveryBoot` composed |
| `BootControl` | the slot table, its HAL, `update_verifier`, TWRP's change of slot |
| `FuseSideload` | the file system that fetches a package from the adb host |
| `Sideload` | the threads and processes of an ADB sideload, around `FuseSideload` |
| `Backup` | backup and cancellation: two threads, and a tar process with threads of its own |
| `Restore` | the restore of such a backup, composed with `Backup` |
| `AdbStream` | the bytes of a backup over adb |
| `AdbBackup`, `AdbRestore` | TWRP and `bu` on either side of their fifos, in each direction |
| `AdbTransfer` | both composed, with the stream the host keeps in between |
| `BlockImgProofs` | inductive invariant of `BlockImg`: an update that reports success is complete |
| `BlockImgResumable` | a second invariant on top of it: an update stays resumable; and which blocks are written |
| `NewDataProofs` | inductive invariant and theorems of `NewData` |
| `BootControlProofs` | inductive invariant and theorems of `BootControl` |
| `MCBlockImg`, `MCNewData`, `MCApplyPatch`, `MCUpdatePath`, `MCBootControl`, `MCSideload`, `MCBackup`, `MCAdbTransfer` | the instances TLC checks |

`PROJECT.json` maps every definition to source lines, and lists components,
runs, mutants (small changes of a definition that a property has to notice),
findings, hazards and theorems.

## 2. The system

| Part | State | What makes it hard | Module |
|---|---|---|---|
| Block image update (`blockimg.cpp`) | partition, stash directory on /cache, `last_command` | a crash at any step, resumption, overlapping source and target, power loss before fsync | `BlockImg` |
| New data receiver (`blockimg.cpp`) | `NewThreadInfo` | two threads on one condition variable, streams too short or too long | `NewData` |
| applypatch (`applypatch/`) | partition, copy of the source on /cache | a crash while the partition is written, running twice, a full cache | `ApplyPatch` |
| uncrypt (`uncrypt/`), block maps (`otautil/SysUtil.cpp`) | package on /data, `map.tmp`, block map | rewriting in place, rename before the data is durable | `Uncrypt` |
| Bootloader message, scripts (`twrp.cpp`, `openrecoveryscript.cpp`, `bootloader_message_twrp/`) | /misc, command file, scripts on /cache and /tmp | state carried over reboots and removed in several steps | `RecoveryBoot` |
| Boot control (`boot_control/`), `update_verifier/` | slot metadata with a CRC | a boot that fails anywhere, a table that is lost | `BootControl` |
| Sideload (`fuse_sideload.cpp`, `adb_install.cpp`, `gui/action.cpp`) | one cached block, a hash per block; the child's pid | two threads and a child, a pid that is stale or reset | `FuseSideload`, `Sideload` |
| Backup and restore (`partitionmanager.cpp`, `partition.cpp`, `twrpTar.cpp`, `twrpDigestDriver.cpp`) | `stop_backup`, `tar_fork_pid`, the folder with archives and digests | cancellation at any point, archives in many parts, a spoilt part | `Backup`, `Restore` |
| adb backup (`adbbu/`, `partitionmanager.cpp`) | four fifos, the stream | control and data on different fifos, non-blocking reads | `AdbStream` and its users |

How they interact: Android runs uncrypt, writes the bootloader message and
reboots; TWRP turns message, command file and scripts into a script in /tmp and
runs its lines.  A line that installs a package starts the updater, which calls
`block_image_verify` and `block_image_update` or the functions of applypatch.  A
package may instead come from the adb host by sideload.  On a device with two
slots the update engine writes the other slot while Android runs, and
`update_verifier` accepts it at its first boot.  Backups are made from the GUI
or, by `bu`, over adb.

`recovery.cpp`, `install.cpp` and `ui.cpp` of AOSP are in the repository but
not built: `Android.mk` takes `twrp.cpp` and `twinstall.cpp` in their place.

## 3. BlockImg

**State.**  `disk` is the partition as it is read, `durable` what the last fsync
made permanent.  `stashDir`, `stash` and `partial` are the directory under /cache
with its files, `lastCommand` is the index in `last_command` (-1: no file).  These
survive a crash.  `mode`, `pc`, `cmdindex`, `saved`, `createdStash`,
`isUnresumable`, `buffer`, `freeStash`, `written` and `newPos` are
`CommandParameters` and the locals of `PerformBlockImageUpdate`; `stashMap` and
`isRetry` are the file-level variables.  `verified` and `outcome` are what the two
edify functions returned.  `list` is the transfer list with its new data, what is
found on the partition, and how the script calls the two functions; `faults`
counts crashes and errors against `MaxFaults`.

**Actions.**  `BlockImageVerifyFn` and `BlockImageUpdateFn` are the start of
`PerformBlockImageUpdate` up to the command loop.  In verify mode each command
is one action, since it writes nothing to the partition.  In update mode a
command is a sequence of actions, one for each effect that a crash can separate
from the next:

* move, bsdiff, imgdiff: `MoveDiffAlreadyDone`, `LoadSource`,
  `LoadImplicitStash` or `MoveDiffFails` (the four results of
  `LoadSrcTgtVersion3`); then, for an overlapping source, `WriteStashPartial`,
  `WriteStashRename`, `UpdateLastCommandIndex`; then `DiscardBlocks`,
  `WriteBlock` once per block, `FreeImplicitStash`;
* stash: `PerformCommandStash`, then the same three stash steps;
* free, zero, new, erase: `PerformCommandFree`, `PerformCommandZeroNew`,
  `PerformCommandErase`;
* after every command `Fsync`; at the end `UpdateDone` and
  `DeleteLastCommandFile`.

`IOError` ends a run at any of these steps, `Crash` ends the process.  In a list
that is `lossy`, a crash is a loss of power and leaves each block that was not
fsynced with its old or its new contents.

Three errors are not treated as such by the code, which goes on from them.  The
history variable `unhandled` records them, so that properties can name them:

* "unread": a stash file that cannot be read (`LoadStashFails`) counts as a source
  with wrong contents.  The update is given up as unresumable and deletes its stash;
* "undeleted": `DeleteLastCommandFile` only logs that it failed (`IndexStays`), and
  the next run trusts an index that this one has found stale;
* "unsynced": an overlapping command deletes its implicit stash, then power is lost
  before the fsync of its target.

**Abstractions.**

* A hash is the sequence of contents it is computed from: no collisions.  A
  stash id is such a sequence.  `Junk` stands for contents that match no hash.
* A patch applied to its intended source yields the intended target, and
  `Junk` otherwise.
* The target of a command is discarded as a whole before it is written; the
  code does so range by range.
* Renames and unlinks on /cache are durable at once.  The two loops that delete
  the stash directory are one step.
* `stash_map` is filled in verify mode only; in update mode nothing reads it.
* A receiver thread that fails is an `IOError` here; `NewData` has the details.
* One partition, and one verification per updater process.
* The transfer lists satisfy `WellFormed`: what the comment above
  `BlockImageVerifyFn` requires of the tool that generates them.

**Runs.**  `blockimg_resume` takes a partition of four blocks and two faults (1.4
million states).  The lists are those of up to three commands out of 20 that are
well-formed, use each stash id once (`UniqueIds`) and have no stash after a `new`
(`NewDataLast`; section 11 says why), and four written by hand; some are
installed on partitions they were not made for, some without the verification.
Five lists are installed under losses of power, three of them by a script that
goes around the verification when the partition is the source image.
`blockimg_skipped_new` is violated, see section 11.

* `UpdateCorrect`: when `block_image_update` returns "t" every command has taken
  effect, unless the index was "undeleted".
* `Resumable`: an update of the right partition becomes unresumable only by one of the
  three errors above.
* `StashIntact`: a stash file under its final name has the contents the name
  promises.  `WriteStash` relies on it when it finds the file already there.
* `ResumePointSafe`: the commands before the index in `last_command` have
  taken effect, unless it was "undeleted".
* `OnlyTargetsWritten` (a property of steps): no block outside the targets
  changes, and verification changes none.
* `EventuallyUpdated`: an installation of the right partition that is started again
  after each of finitely many interruptions finishes, unless one of the three errors
  comes between.

Two faults are needed for an interruption of a run that resumes an interrupted
run.  Four blocks are needed for a move whose source and target overlap in one
of two blocks, next to a block that nobody touches.  Fairness: the updater's own
steps (one process that is not stopped), and starting it again: whoever asked for
the installation, the user or the host that sideloads it, asks again after an
interruption.  `MaxFaults` bounds the model and is not a property of the code.

## 4. NewData

`writer`, `receiverAvailable`, `waiting` and `nti` are the shared
`NewThreadInfo`: the `RangeSinkWriter` (ranges begun, rest of the current range,
blocks written), the flag, the threads blocked on the condition variable, and
whether the structure still exists.  `mpc` and `rpc` are the program counters of
the two threads.  `image` records which position of the stream each block of a
command got.

Everything between locking the mutex and the next unlock or wait is one step.
`SpuriousWakeup` lets `pthread_cond_wait` return without cause.
`ProcessZipEntryContents` may deliver the stream in any of the given ways and may
stop early.  The decoder of brotli takes its input with or without producing
output, and keeps output back when its buffer is full.  Writes, seeks and
discards may fail, and so may every other command of the list.

Data is counted in blocks, so a block that is partly written counts as not
written.  What the thread does after `nti` is gone is undefined and not modelled.
`ParseHeader` may return success for any list, where the code does so only for
one with no block to write.

`newdata_hand_over` checks both receivers, with a decoder buffer of two blocks
and streams that are exact, too long and too short, in pieces smaller and larger
than a command:

* `StreamPlaced`: block j of a new command gets the j-th block of its part of
  the stream, or nothing.
* `NewCommandsComplete`: a new command that returned 0 is completely written.
* `WriterOwned`: while the receiver uses the writer without the lock, the main
  thread is waiting and the structure exists.
* `UpdateReturns`: under weak fairness of both threads (the scheduler runs each
  of them) the update returns.

This and the other runs that do not check for deadlock are of systems that stop
when their work is done; their liveness properties cover the deadlocks that matter.

## 5. ApplyPatch and AtomicUpdate

An image is the sequence of its 4096-byte pieces and stands for its SHA-1.
`parts`, `saved` and `files` (the partitions, the copy `cache_temp_source` and the
other files on /cache) survive a crash; `source`, `output`, `start`, `listed` and
`needed` are what a running call holds.  A call goes through `Apply`, then
`MakeFreeSpaceOnCache` and `Unlink` while there is not enough room, then
`Truncate`, `SavePiece`, `Saved` for the copy, `Patch`, and `WritePiece`,
`Written`, `Verify` for the partition.  `Check`, `ApplyPatchSpace` and `Flash` are
the other entry points.  `Crash` leaves the piece that was being written old or
spoilt, `IoError` and `StatfsFails` are calls that fail, and the copy can fill up
/cache (`SaveFull`).

`AtomicUpdate` is the promise of the comment above `applypatch`, "safe … and
idempotent": the image is "new", or "old" as long as calling again can still
produce it, and success is answered only for "new".  The refinement mapping
(`Image`) computes that from the partition and from the image a call would start
with, so `KeepsItsPromise` says at every step that nothing needed is given up too
early.  The code does not keep it: the run `applypatch_twice`, with two faults, shows
how an in-place patch that is interrupted twice loses its source (section 11).

The run `applypatch` (22 729 states) has three faults and checks

* `LostOnlyWithTheCopy`: every step is one of `AtomicUpdate`, except that a call which
  works from the copy and ends after it has truncated the copy, and before it has
  written it again, may lose the image.  So that is the only way to lose it;
* `CheckedSourceIsFound`: when `apply_patch_check` passes, `apply_patch` has a source;
* `CopyBeforeWrite`: while a partition is patched the copy is whole;
* `EventuallyInstalled`: with room for two copies on /cache, an installation that has
  a source and is tried again gets the target in place, or loses the source in the way
  above.

Bounds: a source of two pieces and a target of three, so that a write can stop
before, inside and behind the old image; caches with room for two copies, for one
after deleting files, and for none; in-place patches, boot to recovery patches and a
flash; patches with a wrong result and with an unknown header.  Three faults, so that
something can go wrong before, in and after the call that works from the copy.
Fairness: a call that has begun goes on (`WF(Step)`), and an installation that
failed is tried again (`SF(Apply)`: the checks of the script come between).

Not modelled: plain files and MTD partitions.  Open files on /cache, which
`FindExpendableFiles` leaves out, are not among `files`.

## 6. Storage, Uncrypt, RecoveryBoot and UpdatePath

`Storage` holds `misc` (written with O_SYNC), `cache` (block map, `map.tmp`, command
file, script) and `may`: the contents /cache could have after a loss of power.  A
change of /cache adds to `may`; an fsync or a sync removes from it.

`Uncrypt` is `produce_block_map`: the window of blocks (`buffers`, `head`, `tail`),
FIBMAP with its retries, the lines of `map.tmp`, the fsyncs and the rename, and
`MapBlockFile`, by which recovery reads the map.  `dev` and `dirty` are the blocks
of the device, durable and not.  Reading an enciphered block gives it in the
clear, reading one that is already rewritten gives junk.  `retry_fibmap` asks for the
block whose number the first answer, 0, has overwritten, so what it gets is the place
of block 0 of the file.  `spoilt` records the packages that this happened to, and those
that were not whole any more when uncrypt was called on them; `stale` is how many lines
`map.tmp` had when the call began.

`RecoveryBoot` is `main` of `twrp.cpp` from `get_args` to the GUI, the scripts of
`OpenRecoveryScript`, `Update_Log_File`, which clears the message, and the reboot.
An order has an id of its own, so that the model can tell whether it was carried
out.  /tmp outlives the recovery process, which init starts again (`ProcessDies`), but
not a reboot.  Calls that fail and are at most logged are actions of their own
(`GetArgsFails`, `InsertFails`, `ClearMessageFails`, `UnlinkCommandFails`,
`CheckForScriptFileFails`); `lapses` records them, and a loss of power after the
message was cleared.

`UpdatePath` composes them, with an external caller of uncrypt's services, the
bootloader and the user at the decryption page.  The run `update_path` takes a package
in two pieces of the device and one in one piece, a window of three blocks, one FIBMAP
retry, and six plans (`Uncrypting`, `Repeating`, `Updating`, `Ordering`, `Typing`,
`Open`) that spend one or two faults each:

* `MapNeverWrong`: a map that `MapBlockFile` accepts gives one whole package in
  the clear, now and after a loss of power, unless that package is spoilt;
* `ReportedMapIsRead`: after status 100 recovery reads by the map the very package
  uncrypt was called on, unless that is spoilt, or rejects the map, and that only if an
  older `map.tmp` had more lines;
* `NothingLeft`: when TWRP reboots after a script that succeeded, no script is
  left, unless /cache could not be mounted or the script not be unlinked;
* `OrderIsRun`: an order in the message is carried out, also if the process dies or
  power is lost before the message is cleared, unless one of the listed faults comes
  between;
* `UpdateIsTried`: an update by block map reaches the installer without a password.

`OrderIsRun` does not say "once": a process that died inserts the arguments of a
message that was not cleared a second time, and nothing in the code could tell.

Fairness: the bootloader (a device that is off is switched on again), the steps of
TWRP's own thread, and the end of a script line (an installation or a wipe ends).

## 7. BootControl

`slot_info` and `valid` are the table with its CRC, `image` what the slots hold,
`what` and `current_slot` what runs, `step` where `update_verifier` is.  The HAL's
operations are `MarkedSuccessful`, `SetActive` and `SetUnbootable`, taken by
`MarkBootSuccessful`, `BeginUpdate`, `EndUpdate` and `Set_Active_Slot`, with
`LazyInitialization` before the first of each boot.  The bootloader (`Boot`, `NothingToBoot`) and the update
engine are external and modelled from what the comments and the table's layout
require of them.  Faults: a boot that dies, a HAL service that is not there, a table
that cannot be read or written, a reboot that fails, a table that is overwritten
(`Corrupt`).  After an error answer (`CheckFails`) or a failed reboot (`RebootFails`)
`update_verifier` returns and nothing is tried again: `step` is "left".  Liveness assumes that the bootloader, `update_verifier`
and the reset of a boot that died take their turn.

The run `boot_control` (896 465 states) has two slots, the constants of the code
(7, 15, 6), up to three updates, three changes of slot and two faults, for each
mode of dm-verity and kind of care map.  `Trusted` names when a verification
means anything: verity is on, there is a care map, and the table was never lost.

* `SuccessfulIsGood`, `GoodSlotBootable`: when trusted, a slot marked successful is
  good, and there always is one;
* `SuccessfulIsBootable`: also when it was verified in its last attempt;
* `ActiveSlotIsNext`: the slot last set active is the only candidate while it has
  tries left;
* `RollsBack`: after a reset the device comes to a good system or to recovery, unless
  `update_verifier` was left.

## 8. FuseSideload and Sideload

`FuseSideload` is `fetch_block` and `handle_read`: `curr_block`, `block_data` and
`hashes` are the server's, `seen`, `consistent` and `padded` record what readers
got.  The host may send something else the second time, or break off.  The product
of block number and block size is taken in a word of the model (`Word`, for 2^32).
The size the host gives is read with `%d` into an int of the same width (`Parsed`): one
that is too large becomes another size, or a negative one.

`Sideload` puts around it the action thread (`adbsideload`, `apply_from_adb` with
its polls), the GUI thread in `adbsideloadcancel`, the child with its mount, and
the installer.  They share `sideload_child_pid`; a pid is the number of its
session, so a stale one is told apart.  The run `sideload` (18 176 states) has
packages of one block, of a block and a half, and of two sizes that do not fit an int,
a timeout of two polls, up to two sessions, a child that may die and a fork that may
fail.

* `ReadsAreStable`: a position never reads differently, until a transfer breaks
  off;
* `NothingLeft`: afterwards no child is left and adbd runs again, unless Cancel
  took the pid of an earlier session for the child's;
* `EventuallyEnds`: the operation ends, or waits for the host in the installation:
  `read_block_adb` has no timeout.  Fairness is that of the two threads, and of the
  installer only when there is no server it could wait for.

## 9. Backup and Restore

`act` is the action thread in `nandroid`, `Run_Backup`, `Backup_Partition`,
`createTarFork` and `Raw_Read_Write`; `gui` the thread in `Cancel_Backup`, one step
for each of its effects; `child` the tar process and `tars` its threads, each with
the archives it has still to write.  `stop_backup` and `tar_fork_pid` are shared.
In the folder that Cancel removes there are `archives`, by partition and name,
`digests` and `log`.  A partition is backed up as an image, as one tar, or, when
the backup is encrypted or too large for one file, as a split archive: thread t
names its archive k by the number 100 (t-1) + k (`Numbered`, with `Split` for
100; threads count from 1, archives from 0).  `need` says how many archives each
thread fills.

`Restore` is `Run_Restore` after any of these backups: `Set_Restore_Files`, which
takes a split archive for present when its first part is; `CheckDigest` for every partition before anything is
written; then for each partition `Wipe`, `ForkExtract` and a child whose threads
extract the archives they find, or `OpenDevice` and `RestoreBlock` for an image.
`damaged` and `lost` are archives that were spoilt or lost in between; `touched`
and `restored` say which partitions were written to and which archives they got.
Each wipe, fork, extraction, open and write may fail.  `stop_backup` is whatever
the backups left it.  An archive that cannot be read while its digest is computed kills
TWRP (`DigestDies`, `CheckDies`): the -1 of `read` is passed on as a length.  A folder
that cannot be opened, or a file in it that cannot be unlinked, is only logged
(`ErrorUnclean`); `unclean` records it.

The run `backup` (1 656 865 states) has up to two backups in a row, tar, image and
split in several orders, images of two blocks, a name that is given, generated or
"(Current Date)", with and without digests and failing steps, Cancel at any point,
and a restore at the end with at most one archive spoilt or lost.  `Split` is 2,
so that a thread fills all its numbers with two archives, and the first thread's
numbers are followed by the second's with and without a gap.

* `SuccessIsComplete`: a backup reported as completed is complete, unless Cancel
  removed it all the same;
* `GivenUpLeavesNoArchive`: one that failed or was given up leaves nothing to
  restore but parts of a split archive, and those without digests, unless the folder is
  unclean;
* `EndsClean`: no partial archive, unless it is split or the folder is unclean, and no
  process is left;
* `RestoreIsSafe`: with digests, nothing is written if an archive is partial or
  spoilt, unless it is of a thread after the first; and a restore reported as
  completed gave each partition all its archives, unless one was lost;
* `EventuallyIdle`: with both threads and the tar process running, nobody waits
  for ever, unless fork failed.

Not modelled: sub-partitions, the pigz and openaes processes, flashing of MTD and BML
partitions, and mounting.

## 10. AdbStream, AdbBackup, AdbRestore and AdbTransfer

A byte of the stream is known by where it comes from, and every structure fills
one `MAX_ADB_READ`.  `AdbBackup` has TWRP writing headers, data and `TWEOF` to its
two fifos (with pigz between for a compressed tar) and the loop of `bu`, which
polls the control fifo, fills chunks and pads them.  `AdbRestore` has `bu` taking
the stream apart and TWRP's `Restore_ADB_Backup` reading structures and data.
Whether a read returns all, a part or nothing is a choice.

A file has a length, the data that comes, and a size, the estimate in its header.  The
host may be lost during a backup (`HostLost`): `bu` notices when an `fwrite` fails, which
it need not (`WriteFails`), closes its fifos and then unlinks them (`Unlink`).  TWRP
fails at its next write, or waits for ever if it opens a fifo between these two
(`OpenForEver`).  In a restore the host may stop sending.  libtar takes an end of the
data between two headers for the end of the archive (`TarEnds`), and a `stop_backup` left
by an earlier backup ends the restore of an image.

The run `adb_transfer` (281 892 states) has reads of 2 bytes, chunks of 6, fifos of
4 and a retry limit of 2; backups of two files, compressed or not, that may fail or lose
their host; and uncompressed backups of two and three files restored, with a host that
may stop.  The lengths fill a chunk exactly, in part, and more than one.

* `StreamFormat`: the stream has the format of `twadbstream.h`, for reads of any
  size, unless data was left in the fifo at `TWEOF`;
* `RestoredIsBackedUp`: a restore reported as complete gave every partition its
  data, unless `bu` did not wait for `TWEOF`;
* `BothEnd`: with the four loops running, both processes end, also when the command is
  refused or the host is lost, up to the cases the property lists.

Not modelled: the restore of compressed files (what pigz reads ahead is not in the
repository), digests, damaged streams, a read-only /system, and the listing of the
files in a backup.

## 11. Findings and observations

The findings are runs whose property is violated; `PROJECT.json` quotes the lines.

* `blockimg_skipped_new` (`blockimg.cpp:1739`): a resumed update skips `new`
  commands up to the saved index, but the receiver starts at the beginning of the
  stream, so the next `new` command writes the wrong data and the update reports
  success.  The theorems therefore assume `NewDataLast`: no stashing command
  follows a `new` command.
* `applypatch_twice` (`applypatch.cpp:721`): a call that works from `cache_temp_source`
  saves its source to that same file, which truncates it.  An interruption before the
  file is written again loses the only copy of the source, when an earlier one has left
  the partition half written.
* `sideload_kill` (`gui/action.cpp:1580`): Cancel tests the child's pid, sleeps,
  and reads it again; `apply_from_adb` may have set it to 0, and the signal goes to
  TWRP's own process group.
* `adb_flush` (`adbbu/twrpback.cpp:315`): `bytes = read(...) != 0` makes `bytes` 1,
  so of each read that is left at `TWEOF` one byte goes to the host.

The rest was met while modelling.  Where it touches a property, the property
names the exception; none of it has a run of its own.

* BlockImg.  Without verification the command *at* the saved index is skipped
  too (`blockimg.cpp:1739`; the comment at 1684 says *before*).  A repeated `free`
  can delete a stash that a later command left under the same id (1684-1685), which is
  why the runs have `UniqueIds`.  The implicit stash is deleted before the partition is
  fsynced (1171, 1229, 1458, 1766): after a loss of power in between, neither the source
  nor the target of the command need be there ("unsynced").  A stash file that cannot be
  read makes the update delete all of them (1062, 1188; "unread"), and a `last_command`
  found stale that cannot be unlinked is trusted by the next run (78, "undeleted"): that
  update can report a success that is wrong.  `last_command` is not tied to a package
  (1740, and the TODO at 1755).
* NewData.  Errors in the header return (1626-1673) while the thread runs on with
  a pointer into the frame that is gone.
* ApplyPatch.  `ota_close` releases the descriptor that `WriteToPartition` tests at
  its end, so a verified write is reported as failed and a second attempt would use
  a closed descriptor (`applypatch.cpp:361`, `365`, `432`; the tests at
  `applypatch_test.cpp:231` expect 0); the next call finds the target in place.
  Working from the copy needs room for two.  The loop at `freecache.cpp:144`
  compares the wrong way round, a failing `statfs` counts as enough space (541), and
  a flash goes on when the partition cannot be read (677).
* Update path.  `Update_Log_File` clears the message before the order is run
  (`twrp.cpp:275`, `twrp-functions.cpp:549`), although `bootloader_message.cpp:375`
  says that the device boots into recovery until the order is done.  `map.tmp` is not
  truncated (`uncrypt.cpp:260-261`): uncrypt reports 100 for a map with the last lines of
  an older one behind it, and recovery rejects it.  `retry_fibmap` passes `block`, which is
  0 by then, to FIBMAP again (240), so a block that had no place at first is mapped to
  that of block 0, and its contents are written there; uncrypt reports 100.  A script on /cache is unlinked without a sync
  (`openrecoveryscript.cpp:75`) and may be run again; so may a script in /tmp when the
  process dies, and `SkipDecryption` is lost then.  The failure of the script in /tmp
  is hidden when the one on /cache succeeds.
* BootControl.  A HAL that starts with no current slot stays so, whatever the
  comment at `boot_control.cpp:213-215` says; `update_verifier` does nothing when the HAL
  answers that the slot is invalid (264); a lost table makes the current slot
  successful without verification (236); TWRP's display changes even when the
  write fails; a care map in the legacy format is skipped like a missing one
  (`update_verifier.cpp:228`).
* Sideload.  A transfer that breaks off leaves the buffer overwritten and still taken
  for the old block (`fuse_sideload.cpp:261-262`, against 24-26).  A stale pid makes
  Cancel signal another process, Cancel before the fork is lost, and a killed server
  leaves a mount that makes later sideloads fail.  A package of 2 GiB or more does not fit
  the int it is parsed into (`minadbd_services.cpp:52-58`).
* Backup.  `stop_backup` stays set after a cancelled backup and cuts a later image
  restore short (`partition.cpp:2478`).  Cancel pressed before `Run_Backup` resets it
  is lost; pressed after `nandroid` has read it, it removes a backup reported as
  good; between two tars it empties the folder while the next tar completes.  With
  "(Current Date)" it looks in the wrong folder.  When fork fails, `tar_fork_pid` is
  left at -1, and Cancel signals every process and waits until there is none
  (`twrpTar.cpp:137`, `partitionmanager.cpp:741-742`).  `Clean_Backup_Folder` removes
  files that end in "win", so the parts of a split archive (.win000, ...) stay after a
  failed backup (697-717).  `stream_file_to_digest` passes a failed read's -1 on as a length
  (`twrpDigestDriver.cpp:213`).  The digest of a sub-partition is named after its parent
  (660, 1063).
* Restore.  Digests are made and checked for 000, 001, ... up to the first number
  that is missing, so the archives of later threads have none and are not checked
  (`twrpDigestDriver.cpp:98-110`, `173-203`), against the comment at
  `partitionmanager.cpp:1031`.  A thread stops at the first archive it does not find:
  when one is lost from the middle of a split archive, and digests are not checked or
  do not cover it, the restore reports success (`twrpTar.cpp:859`).
* adb.  The comment at `twrpback.cpp:309-310` speaks of padding to 512 bytes; the code
  pads to `DATA_MAX_CHUNK_SIZE`.  `bu` is not told when a backup fails, and waits for ever.  `tweofrcvd` is not
  initialised and not reset in time, so `bu` may not wait and data goes to the wrong
  reader.  The digest is never compared, against `twadbstream.h:39`: the flag it
  depends on is set to 0 just before.  When `bu` gives up opening a fifo, TWRP loops
  for ever.  A compressed tar sends `TWEOF` before its output is closed, and the next
  file's data may be read before its header.

## 12. Proofs

All theorems hold for every value of the constants that satisfies the named
assumptions (`ConstantsOK`, `ListsOK`, `StreamsOK`).

### BlockImgProofs

`TypeCorrect`, `UpdateIsCorrect`, `ResumeIsSafe` and `StashesAreIntact` hold in a
`SafeSetting`: the script verifies before it updates, a crash does not lose writes,
there is no stale index, and new commands follow the stashing ones.  Section 11 says
why `UpdateCorrect` fails without the first, the third and the fourth.  Losses of power
are checked by `blockimg_resume` only; the proof does not cover them.  There is no bound
on the number of blocks, commands or faults, and calls may fail anywhere; what is said of
the index is said up to an "undeleted" one (`Clean`).

`UpdateCorrect` alone is not inductive: it speaks about the end of an update.
`IInv` adds why each skipped or executed command is done:

* `VerifyInv`: the verification has seen the target of every move and diff up to
  the saved index, or has dropped the index;
* `VerifiedInv`: after it, every command up to the index, including the one at
  the index, is done.  This is the step that makes `<=` in the resume test safe;
* `UpdateInv`: all commands before the current one are done;
* `StepInv`: the buffer of the current command holds its source, and the blocks
  written so far are right;
* `NewDataInv`: the receiver is where the next new command needs it;
* `IndexOK`, `ResumePointSafe`, `OutcomeInv`, `StashIntact`.

A command that is done stays done because no later command writes its target
(`WellFormed`).  `StashIntact` is part of the invariant because `LoadSource`
trusts an existing file.

### BlockImgResumable

`UpdateIsResumable` says `Resumable` in a `SafeSetting` with unique stash ids.  `RInv` is,
as long as nothing unhandled happened, the reason why each command to come finds its
source:

* `StashedInv`: a stash that a command still needs is a file, or its stash command is yet
  to be performed and the blocks it saves are intact;
* `SourcesInv`: a move or diff is done, or the blocks it reads are intact, or it overlaps
  and its implicit stash is a file;
* `FlightInv`, `FreeInv`: the command being performed has all it needs to be performed
  again, and what it deletes in the end is its own stash;
* `DirInv`, `MapInv`: a stash directory the verification has created is empty, and the
  verification has noted the blocks of every stash without a file.

The proof takes `IInv` of `BlockImgProofs` as given and goes through the actions once more.

`OnlyTargetsAreWritten` holds for every list, script and loss of power.  Its invariant
`WInv` adds that a block whose last contents are not durable is a target, since a loss of
power changes it once more.

### NewDataProofs

`TypeCorrect`, `WriterIsOwned`, `StreamIsPlaced` and `NewCommandsAreComplete` hold
without further assumptions.  `IInv` consists of `ControlInv` (who has the writer,
and what each thread may conclude from the flag), `WriterInv` (the position of the
writer and that of the stream agree) and `ImageInv` (exactly the blocks before that
position are written).

### BootControlProofs

`TypeCorrect`, `SuccessfulSlotsAreGood`, `SuccessfulSlotsAreBootable`,
`AGoodSlotIsBootable` and `TheActiveSlotIsNext` hold for any number of slots, updates,
changes of slot and faults, and any numbers of tries that fit their bit fields
(`ConstantsOK`).  `IInv` adds to the properties `MarkedIsVerified` (a slot about to be
marked was verified), `InvalidIsLost` (a table fails its CRC only if it was
overwritten) and `ActiveIsAlone` (no other slot has the priority of the one last set
active, which `SetActive` establishes by lowering the others).


### Only model-checked

All properties of the modules of sections 5, 6, 8, 9 and 10, everything about losses of
power in `BlockImg` but `OnlyTargetsWritten`, and every liveness property, which is out of
the prover's reach.

## 13. Not modelled

* Range sets: interval arithmetic without state.  `BlockImg` uses sets of blocks.
* Patch formats, tar, signatures, edify: codecs, parsers and an interpreter without
  state of their own.  A patch is a function of its source in the models.
* `install.cpp`, `recovery.cpp`, `ui.cpp`: not built.  `twinstall.cpp` unpacks and runs
  the updater in sequence and reads its progress.
* The other partitions of one updater process, `range_sha1`, `check_first_block` and
  `block_image_recover`; plain files and MTD in applypatch.
* The wipe package that `setup_bcb` may write to /misc (`uncrypt.cpp:586-607`), which TWRP
  ignores, the status file of uncrypt and its socket.
* The rest of `gui/`: pages, widgets, drawing, input; no property of an update or a
  backup depends on it.  Settings: the two values the models depend on are
  variables of `Backup` and `Sideload`.
* Mounting, formatting and repair of partitions: sequences of system calls and
  external tools; a wipe before a restore is one step that may fail.  Sub-partitions.
* The `twrp` command line tool, the main program of the updater and the bootloader
  message library of the HAL: they pass on lines, a script and ranges of /misc to what
  is modelled.
* MTP, decryption, bundled libraries and tools: wire formats, key derivation, vendor
  and third-party code.
* Log rotation: renames, once per boot, of files nothing else reads.

## 14. What could follow

1. Proofs of the safety properties of `ApplyPatch`, `Uncrypt` and `FuseSideload`.
2. `BlockImg` with several partitions in one process, and with `NewData` in place of
   its abstract receiver.
3. The algorithms of `otautil/rangeset.cpp` against sets of blocks.
4. The restore of compressed files over adb, once what pigz reads ahead is settled.
5. Sub-partitions in `Backup` and `Restore`, and the processes that compress and encrypt.
