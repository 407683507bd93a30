------------------------------ MODULE BlockImg ------------------------------
(***************************************************************************)
(* block_image_verify() and block_image_update() of updater/blockimg.cpp:  *)
(* the in-place, resumable execution of a transfer list on a partition.    *)
(*                                                                         *)
(* A transfer list is executed command by command.  What survives a crash  *)
(* is the partition itself, the stash directory on /cache and the          *)
(* last_command file.  Everything in CommandParameters is lost.            *)
(*                                                                         *)
(* A hash is represented by the sequence of block contents it is computed  *)
(* from, so hashes do not collide.  A stash file is named by the hash of   *)
(* its contents, so a stash id is such a sequence as well.                 *)
(***************************************************************************)
EXTENDS Integers, Sequences, FiniteSets

CONSTANTS
    Block,        \* block numbers of the partition
    Content,      \* contents a block can have
    Zero,         \* a block full of zeros
    Junk,         \* contents no hash of the package is computed from
    SourceImage,  \* the partition the package was generated for
    Lists,        \* transfer lists that may be installed, see ListsOK
    StashIds,     \* ids the lists stash or free blocks under
    StaleIndex,   \* values last_command may have before the first run
    RetryFlags,   \* values state->is_retry may have
    MaxFaults     \* bound on crashes and I/O errors

(***************************************************************************)
(* Commands.  c.tgt lists the target blocks and c.out what they must       *)
(* contain.  c.src lists where each block of the source buffer comes from: *)
(* a block of the partition or a block of a stash.  c.id is the stash id   *)
(* of stash and free; c.at is the offset of a new command in new_data.     *)
(***************************************************************************)
Writers == {"move", "diff", "zero", "new", "erase"}

Elements(s) == {s[i] : i \in DOMAIN s}

SlotHash(s) == IF s.kind = "blk" THEN SourceImage[s.n] ELSE s.id[s.n]

SrcHash(c) == [i \in DOMAIN c.src |-> SlotHash(c.src[i])]

SrcBlocks(c) == {c.src[i].n : i \in {j \in DOMAIN c.src : c.src[j].kind = "blk"}}

Overlap(c) == SrcBlocks(c) \cap Elements(c.tgt) # {}

\* The command saves blocks to the stash, explicitly or implicitly.
Stashes(c) == c.op = "stash" \/ (c.op \in {"move", "diff"} /\ Overlap(c))

\* The id under which it saves them.
StashId(c) == IF c.op = "stash" THEN c.id ELSE SrcHash(c)

Ids(l) == {StashId(l.cmds[i]) : i \in {j \in DOMAIN l.cmds : Stashes(l.cmds[j])}}
             \cup {l.cmds[i].id : i \in {j \in DOMAIN l.cmds : l.cmds[j].op = "free"}}

NoStash == <<>>

Slot == [kind : {"blk"}, n : Block, id : {NoStash}]
           \cup [kind : {"stash"}, n : Nat \ {0}, id : StashIds]

Command == [op  : Writers \cup {"stash", "free"}, tgt : Seq(Block),
            out : Seq(Content), src : Seq(Slot), id : Seq(Content), at : Nat]

ASSUME ConstantsOK ==
    /\ SourceImage \in [Block -> Content]
    /\ Block \subseteq Nat
    /\ Zero \in Content /\ Junk \in Content
    /\ RetryFlags \subseteq BOOLEAN /\ RetryFlags # {}
    /\ MaxFaults \in Nat
    /\ StashIds \subseteq Seq(Content) \ {<<>>}
    /\ -1 \in StaleIndex /\ StaleIndex \subseteq Int

(***************************************************************************)
(* What the creator of the package guarantees (the comment above           *)
(* BlockImageVerifyFn): no block is read after it has been written, and a  *)
(* stash is loaded before it is used or freed and not used after it is     *)
(* freed.  Each block is the target of one command.                        *)
(***************************************************************************)
CommandOK(c) ==
    /\ c.op \in {"stash", "free"} => c.tgt = <<>>
    /\ c.op \in Writers => c.tgt # <<>>
    /\ c.op \in {"move", "diff"} => c.src # <<>>
    /\ c.op = "move" => c.out = SrcHash(c)
    /\ c.op = "zero" => \A i \in DOMAIN c.out : c.out[i] = Zero
    /\ c.op = "stash" => /\ c.id = SrcHash(c)
                         /\ \A i \in DOMAIN c.src : c.src[i].kind = "blk"
    /\ Len(c.out) = Len(c.tgt)
    /\ \A i, j \in DOMAIN c.tgt : i # j => c.tgt[i] # c.tgt[j]
    /\ Junk \notin Elements(SrcHash(c))
    /\ c.op # "erase" => Junk \notin Elements(c.out)

\* Command i of the list stashes id, and no command between it and k frees it.
StashedFor(cmds, id, k) ==
    \E i \in 1 .. k - 1 : /\ cmds[i].op = "stash" /\ cmds[i].id = id
                          /\ \A j \in i + 1 .. k - 1 : ~(cmds[j].op = "free" /\ cmds[j].id = id)

WellFormed(l) ==
    LET cmds == l.cmds IN
    /\ \A k \in DOMAIN cmds : CommandOK(cmds[k])
    /\ \A j, k \in DOMAIN cmds : j < k =>
          /\ Elements(cmds[j].tgt) \cap SrcBlocks(cmds[k]) = {}
          /\ Elements(cmds[j].tgt) \cap Elements(cmds[k].tgt) = {}
    /\ \A k \in DOMAIN cmds : \A s \in Elements(cmds[k].src) :
          s.kind = "stash" => s.n <= Len(s.id) /\ StashedFor(cmds, s.id, k)
    /\ \A k \in DOMAIN cmds : cmds[k].op = "free" => StashedFor(cmds, cmds[k].id, k)
    /\ \A k \in DOMAIN cmds : cmds[k].op = "new" =>
          \A i \in DOMAIN cmds[k].out : /\ cmds[k].at + i \in DOMAIN l.new
                                        /\ cmds[k].out[i] = l.new[cmds[k].at + i]
    /\ \A k \in DOMAIN cmds : cmds[k].op = "new" =>
          LET before == {j \in 1 .. k - 1 : cmds[j].op = "new"} IN
          IF before = {} THEN cmds[k].at = 0
          ELSE \E j \in before : /\ \A i \in before : i <= j
                                 /\ cmds[k].at = cmds[j].at + Len(cmds[j].tgt)

\* Different stash commands of a list use different ids.
UniqueIds(l) ==
    \A j, k \in DOMAIN l.cmds :
        j # k /\ Stashes(l.cmds[j]) /\ Stashes(l.cmds[k]) =>
            StashId(l.cmds[j]) # StashId(l.cmds[k])

\* No command that moves last_command forward follows a new command.
NewDataLast(l) ==
    \A j, k \in DOMAIN l.cmds : j < k /\ l.cmds[j].op = "new" => ~Stashes(l.cmds[k])

\* A list, its new_data, the partition that its first run finds, how the edify script
\* guards block_image_update (by block_image_verify, by that unless the partition is the
\* source, or not at all), and whether a crash may lose writes that were not fsynced.
ASSUME ListsOK ==
    \A l \in Lists : /\ l \in [cmds : Seq(Command), new : Seq(Content),
                                found : [Block -> Content],
                                script : {"verify", "shortcut", "update"},
                                lossy : BOOLEAN]
                     /\ l.cmds # <<>>
                     /\ Ids(l) \subseteq StashIds
                     /\ WellFormed(l)

-----------------------------------------------------------------------------
VARIABLES
    list,            \* the transfer list being installed
    disk,            \* the partition, as the updater reads it
    durable,         \* the partition, as of the last fsync
    stashDir,        \* does the stash directory exist?
    stash,           \* stash[id]: is file id absent, torn or good?
    partial,         \* ids with a .partial file
    lastCommand,     \* index in last_command, -1 if there is no such file
    mode,            \* "idle", "verify" or "update": what is running
    pc,              \* step of the current command
    cmdindex,        \* index of the current command, counted from 0
    saved,           \* saved_last_command_index
    createdStash,    \* params.createdstash
    stashMap,        \* stash_map: the source blocks of stash commands seen
    isUnresumable,   \* params.isunresumable
    buffer,          \* params.buffer: source data of the command
    freeStash,       \* params.freestash, NoStash if empty
    written,         \* target blocks of the current command written so far
    newPos,          \* position of the receiver thread in new_data
    isRetry,         \* is_retry
    verified,        \* block_image_verify returned "t" in this updater run
    outcome,         \* what the last block_image_update returned
    unhandled,       \* history: errors the code went on from (see Unhandled)
    faults           \* crashes and I/O errors so far

persistent == <<disk, durable, stashDir, stash, partial, lastCommand>>
command == <<buffer, freeStash, written>>
session == <<list, isRetry, verified, outcome, unhandled>>
vars == <<list, disk, durable, stashDir, stash, partial, lastCommand, mode, pc,
          cmdindex, saved, createdStash, stashMap, isUnresumable, buffer,
          freeStash, written, newPos, isRetry, verified, outcome, unhandled, faults>>

(***************************************************************************)
(* Errors that the code does not treat as such.                            *)
(* "unread": a stash file could not be read and counts as missing.         *)
(* "undeleted": last_command could not be unlinked.                        *)
(* "unsynced": power was lost after the implicit stash of a command was    *)
(* deleted and before the command's target was fsynced.                    *)
(***************************************************************************)
Unhandled == {"unread", "undeleted", "unsynced"}

Steps == {"cmd", "partial", "rename", "index", "discard", "write", "sync", "cleanup"}

PersistentOK ==
    /\ disk \in [Block -> Content] /\ durable \in [Block -> Content]
    /\ stashDir \in BOOLEAN
    /\ stash \in [StashIds -> {"absent", "torn", "good"}]
    /\ partial \subseteq StashIds
    /\ lastCommand \in Int

RunOK ==
    /\ list \in Lists
    /\ mode \in {"idle", "verify", "update"}
    /\ pc \in Steps
    /\ cmdindex \in 0 .. Len(list.cmds)
    /\ saved \in Int
    /\ outcome \in {"none", "t", "failed"}
    /\ unhandled \subseteq Unhandled
    /\ faults \in 0 .. MaxFaults

CommandStateOK ==
    /\ DOMAIN stashMap \subseteq StashIds
    /\ \A id \in DOMAIN stashMap : stashMap[id] \in Seq(Block)
    /\ buffer \in Seq(Content)
    /\ freeStash \in StashIds \cup {NoStash}
    /\ written \in Nat
    /\ newPos \in Nat

FlagsOK ==
    /\ createdStash \in BOOLEAN /\ isUnresumable \in BOOLEAN
    /\ isRetry \in BOOLEAN /\ verified \in BOOLEAN

\* TypeOK: the values the variables of an updater run can have.
TypeOK == PersistentOK /\ RunOK /\ CommandStateOK /\ FlagsOK

Init ==
    /\ list \in Lists
    /\ disk = list.found /\ durable = disk
    /\ stashDir = FALSE
    /\ stash = [id \in StashIds |-> "absent"]
    /\ partial = {}
    /\ lastCommand \in StaleIndex
    /\ mode = "idle" /\ pc = "cmd" /\ cmdindex = 0 /\ saved = -1
    /\ createdStash = FALSE
    /\ stashMap = <<>>
    /\ isUnresumable = FALSE
    /\ buffer = <<>> /\ freeStash = NoStash /\ written = 0 /\ newPos = 0
    /\ isRetry = FALSE /\ verified = FALSE
    /\ outcome = "none" /\ unhandled = {} /\ faults = 0

-----------------------------------------------------------------------------
Cmd == list.cmds[cmdindex + 1]

Finished == cmdindex = Len(list.cmds)

Executing(m, step) == mode = m /\ pc = step /\ ~Finished

ReadBlocks(src) == [i \in DOMAIN src |-> disk[src[i]]]

SrcRange(c) == [i \in DOMAIN c.src |-> c.src[i].n]

\* LoadStash(id): in verify mode the source blocks remembered in stash_map are
\* used instead of the file.
InMap(id) == mode = "verify" /\ id \in DOMAIN stashMap

StashGood(id) == IF InMap(id) THEN ReadBlocks(stashMap[id]) = id ELSE stash[id] = "good"

\* LoadStash with verify deletes a file whose contents do not match its name.
DeleteTorn(id) == IF ~InMap(id) /\ stash[id] = "torn"
                  THEN [stash EXCEPT ![id] = "absent"] ELSE stash

\* LoadSourceBlocks: data of a stash that does not load is left unspecified.
LoadSourceBlocks(c) ==
    [i \in DOMAIN c.src |->
        IF c.src[i].kind = "blk" THEN disk[c.src[i].n]
        ELSE IF StashGood(c.src[i].id) THEN c.src[i].id[c.src[i].n] ELSE Junk]

TargetVerified(c) == ReadBlocks(c.tgt) = c.out

SourceVerified(c) == LoadSourceBlocks(c) = SrcHash(c)
StashVerified(c) == Overlap(c) /\ StashGood(SrcHash(c))

NoStashFiles == [id \in StashIds |-> "absent"]

\* LoadSourceBlocks reads a stash file that is good.
ReadsStash(c) == \E s \in Elements(c.src) :
                     s.kind = "stash" /\ ~InMap(s.id) /\ stash[s.id] = "good"

Fault == faults < MaxFaults /\ faults' = faults + 1

-----------------------------------------------------------------------------
\* DeleteLastCommandFile: a failure to unlink the file is only logged.
IndexDeleted == lastCommand' = -1 /\ UNCHANGED unhandled
IndexStays == /\ lastCommand # -1
              /\ unhandled' = unhandled \cup {"undeleted"} /\ UNCHANGED lastCommand

(***************************************************************************)
(* The beginning of PerformBlockImageUpdate: CreateStash, which deletes    *)
(* .partial files, and ParseLastCommandFile.  A failed CacheSizeCheck      *)
(* returns at once and leaves the directory behind.  A last_command that   *)
(* cannot be read is deleted.                                              *)
(***************************************************************************)
Start(m) ==
    /\ mode = "idle"
    /\ stashDir' = TRUE
    /\ partial' = {}
    /\ createdStash' = ~stashDir
    /\ isUnresumable' = FALSE
    /\ buffer' = <<>> /\ freeStash' = NoStash /\ written' = 0
    /\ newPos' = 0
    /\ pc' = "cmd" /\ cmdindex' = 0
    /\ \/ /\ mode' = m /\ saved' = lastCommand
          /\ UNCHANGED <<lastCommand, unhandled, faults>>
       \/ /\ mode' = "idle" /\ Fault
          /\ UNCHANGED <<saved, lastCommand, unhandled>>
       \/ /\ mode' = m /\ Fault
          /\ lastCommand # -1 /\ saved' = -1
          /\ IndexDeleted \/ IndexStays
    /\ UNCHANGED <<list, disk, durable, stash>>

\* Each verification is the first of a new updater process: stash_map is empty.
BlockImageVerifyFn ==
    /\ list.script # "update" /\ ~verified
    /\ Start("verify")
    /\ stashMap' = <<>>
    /\ isRetry' \in {r \in RetryFlags : r => faults > 0}
    /\ UNCHANGED <<verified, outcome>>

BlockImageUpdateFn ==
    /\ \/ verified
       \/ list.script = "update"
       \/ list.script = "shortcut" /\ disk = SourceImage
    /\ Start("update")
    /\ verified' = FALSE
    /\ outcome' = IF mode' = "idle" THEN "failed" ELSE "none"
    /\ isRetry' \in IF verified THEN {isRetry} ELSE {r \in RetryFlags : r => faults > 0}
    /\ UNCHANGED stashMap

-----------------------------------------------------------------------------
(***************************************************************************)
(* Verify mode.  No command writes to the partition; zero, new and erase   *)
(* have no function and are skipped.                                       *)
(***************************************************************************)
NextCommand == cmdindex' = cmdindex + 1 /\ pc' = "cmd"

\* The last fsync of the partition and the deletion of last_command, if it is due.
\* Failures are only logged.
FinalFsync(deletes) ==
    \/ /\ durable' = disk /\ UNCHANGED faults
       /\ IF deletes THEN IndexDeleted ELSE UNCHANGED <<lastCommand, unhandled>>
    \/ /\ Fault
       /\ durable' \in {durable, disk}
       /\ IF deletes THEN IndexDeleted \/ IndexStays ELSE UNCHANGED <<lastCommand, unhandled>>

\* Mutant: a verification that finds the directory of an earlier run does not succeed.
EndFreshVerify(ok, unresumable) ==
    /\ mode' = "idle"
    /\ verified' = (ok /\ createdStash)
    /\ isUnresumable' = unresumable
    /\ IF unresumable \/ createdStash
       THEN stash' = NoStashFiles /\ partial' = {} /\ stashDir' = FALSE
       ELSE UNCHANGED <<stash, partial, stashDir>>
    /\ UNCHANGED <<list, disk, pc, cmdindex, saved, createdStash, stashMap,
                   command, newPos, isRetry, outcome>>

\* pbiudone in verify mode: the stash goes if this run created it, or if the
\* update cannot be resumed.
EndVerify(ok, unresumable) ==
    /\ mode' = "idle"
    /\ verified' = ok
    /\ isUnresumable' = unresumable
    /\ IF unresumable \/ createdStash
       THEN stash' = NoStashFiles /\ partial' = {} /\ stashDir' = FALSE
       ELSE UNCHANGED <<stash, partial, stashDir>>
    /\ UNCHANGED <<list, disk, pc, cmdindex, saved, createdStash, stashMap,
                   command, newPos, isRetry, outcome>>

\* Mutant: the stale index is noticed but last_command is kept.
KeepStaleIndex ==
    /\ Executing("verify", "cmd") /\ Cmd.op \in {"move", "diff"}
    /\ TargetVerified(Cmd) \/ SourceVerified(Cmd) \/ StashVerified(Cmd)
    /\ NextCommand
    /\ UNCHANGED <<persistent, mode, saved, createdStash, stashMap, isUnresumable,
                   command, newPos, session, faults>>

VerifyMoveDiff ==
    /\ Executing("verify", "cmd") /\ Cmd.op \in {"move", "diff"}
    /\ TargetVerified(Cmd) \/ SourceVerified(Cmd) \/ StashVerified(Cmd)
    /\ IF ~TargetVerified(Cmd) /\ saved # -1 /\ cmdindex <= saved
       THEN /\ saved' = -1
            /\ \/ IndexDeleted /\ UNCHANGED faults
               \/ IndexStays /\ Fault
       ELSE UNCHANGED <<saved, lastCommand, unhandled, faults>>
    /\ NextCommand
    /\ UNCHANGED <<list, disk, durable, stashDir, stash, partial, mode, createdStash,
                   stashMap, isUnresumable, command, newPos, isRetry, verified, outcome>>

\* LoadSrcTgtVersion3 finds neither the target nor the source.
VerifyMoveDiffFails ==
    /\ Executing("verify", "cmd") /\ Cmd.op \in {"move", "diff"}
    /\ ~TargetVerified(Cmd) /\ ~SourceVerified(Cmd) /\ ~StashVerified(Cmd)
    /\ EndVerify(FALSE, TRUE)
    /\ FinalFsync(TRUE)

\* The source blocks are remembered when the stash does not load, be it that the file
\* cannot be read.
VerifyStash ==
    /\ Executing("verify", "cmd") /\ Cmd.op = "stash"
    /\ \/ StashGood(Cmd.id) /\ UNCHANGED <<stash, stashMap, unhandled, faults>>
       \/ /\ \/ ~StashGood(Cmd.id) /\ UNCHANGED <<unhandled, faults>>
             \/ /\ ~InMap(Cmd.id) /\ StashGood(Cmd.id)
                /\ Fault /\ unhandled' = unhandled \cup {"unread"}
          /\ stash' = DeleteTorn(Cmd.id)
          /\ stashMap' = [id \in DOMAIN stashMap \cup {Cmd.id} |->
                            IF id = Cmd.id THEN SrcRange(Cmd) ELSE stashMap[id]]
    /\ NextCommand
    /\ UNCHANGED <<list, disk, durable, stashDir, partial, lastCommand, mode, saved,
                   createdStash, isUnresumable, command, newPos, isRetry, verified, outcome>>

VerifyFree ==
    /\ Executing("verify", "cmd") /\ Cmd.op = "free"
    /\ stashMap' = [id \in DOMAIN stashMap \ {Cmd.id} |-> stashMap[id]]
    /\ stash' = IF createdStash THEN [stash EXCEPT ![Cmd.id] = "absent"] ELSE stash
    /\ NextCommand
    /\ UNCHANGED <<disk, durable, stashDir, partial, lastCommand, mode, saved,
                   createdStash, isUnresumable, command, newPos, session, faults>>

VerifySkip ==
    /\ Executing("verify", "cmd") /\ Cmd.op \in {"zero", "new", "erase"}
    /\ NextCommand
    /\ UNCHANGED <<persistent, mode, saved, createdStash, stashMap, isUnresumable,
                   command, newPos, session, faults>>

VerifyDone ==
    /\ mode = "verify" /\ Finished
    /\ EndVerify(TRUE, FALSE)
    /\ FinalFsync(FALSE)

-----------------------------------------------------------------------------
(***************************************************************************)
(* Update mode: one action per step whose interruption leaves a state of   *)
(* its own behind.                                                         *)
(***************************************************************************)
Goto(step) == pc' = step /\ UNCHANGED cmdindex

\* The frame of a step that changes none of the persistent state.
Volatile == UNCHANGED <<persistent, mode, saved, createdStash, stashMap,
                        isUnresumable, newPos, session, faults>>

\* pbiudone in update mode.  The receiver thread is stopped in every case.
EndUpdate(ok, unresumable) ==
    /\ mode' = "idle"
    /\ outcome' = IF ok THEN "t" ELSE "failed"
    /\ isUnresumable' = unresumable
    /\ IF ok \/ unresumable
       THEN stash' = NoStashFiles /\ partial' = {} /\ stashDir' = FALSE
       ELSE UNCHANGED <<stash, partial, stashDir>>
    /\ UNCHANGED <<list, disk, pc, cmdindex, saved, createdStash, stashMap, command,
                   newPos, isRetry, verified>>

\* Mutant: skipping a command counts it twice.
SkipTwo ==
    /\ Executing("update", "cmd") /\ cmdindex <= saved
    /\ cmdindex' = cmdindex + 2 /\ pc' = "cmd"
    /\ UNCHANGED command /\ Volatile

SkipExecuted ==
    /\ Executing("update", "cmd") /\ cmdindex <= saved
    /\ NextCommand
    /\ UNCHANGED command /\ Volatile

Performing(ops) == Executing("update", "cmd") /\ cmdindex > saved /\ Cmd.op \in ops

\* LoadSrcTgtVersion3 returns 1: the target blocks have the expected content.
MoveDiffAlreadyDone ==
    /\ Performing({"move", "diff"}) /\ TargetVerified(Cmd)
    /\ Goto("sync")
    /\ UNCHANGED command /\ Volatile

\* Mutant: an overlapping source is not stashed.
LoadSourceUnstashed ==
    /\ Performing({"move", "diff"}) /\ ~TargetVerified(Cmd) /\ SourceVerified(Cmd)
    /\ buffer' = LoadSourceBlocks(Cmd)
    /\ written' = 0
    /\ freeStash' = NoStash
    /\ Goto("discard")
    /\ Volatile

\* It returns 0 with the source read from its blocks (and stashes).  An
\* overlapping source is stashed first, unless a file of that name exists.
LoadSource ==
    /\ Performing({"move", "diff"}) /\ ~TargetVerified(Cmd) /\ SourceVerified(Cmd)
    /\ buffer' = LoadSourceBlocks(Cmd)
    /\ written' = 0
    /\ freeStash' = NoStash
    /\ Goto(IF ~Overlap(Cmd) THEN "discard"
            ELSE IF stash[SrcHash(Cmd)] = "absent" THEN "partial" ELSE "index")
    /\ Volatile

\* It returns 0 with the source read from the stash an earlier run left, because the
\* source has changed or a stash it is made of cannot be read.
LoadImplicitStash ==
    /\ Performing({"move", "diff"}) /\ ~TargetVerified(Cmd) /\ StashVerified(Cmd)
    /\ \/ ~SourceVerified(Cmd) /\ UNCHANGED faults
       \/ ReadsStash(Cmd) /\ Fault
    /\ buffer' = SrcHash(Cmd)
    /\ written' = 0
    /\ freeStash' = NoStash
    /\ Goto("discard")
    /\ UNCHANGED <<persistent, mode, saved, createdStash, stashMap, isUnresumable, newPos,
                   session>>

MoveDiffFails ==
    /\ Performing({"move", "diff"})
    /\ ~TargetVerified(Cmd) /\ ~SourceVerified(Cmd) /\ ~StashVerified(Cmd)
    /\ EndUpdate(FALSE, TRUE)
    /\ FinalFsync(TRUE)

\* Mutant: the source is stashed without a look at its hash.
StashUnchecked ==
    /\ Performing({"stash"})
    /\ IF ~StashGood(Cmd.id)
       THEN buffer' = LoadSourceBlocks(Cmd) /\ Goto("partial")
       ELSE UNCHANGED buffer /\ Goto("sync")
    /\ stash' = DeleteTorn(Cmd.id)
    /\ UNCHANGED <<disk, durable, stashDir, partial, lastCommand, mode, saved,
                   createdStash, stashMap, isUnresumable, freeStash, written, newPos,
                   session, faults>>

\* A file that is there but cannot be read is written again, if its source still is.
PerformCommandStash ==
    /\ Performing({"stash"})
    /\ \/ /\ IF ~StashGood(Cmd.id) /\ LoadSourceBlocks(Cmd) = Cmd.id
             THEN buffer' = LoadSourceBlocks(Cmd) /\ Goto("partial")
             ELSE UNCHANGED buffer /\ Goto("sync")
          /\ UNCHANGED faults
       \/ /\ StashGood(Cmd.id) /\ LoadSourceBlocks(Cmd) = Cmd.id /\ Fault
          /\ buffer' = LoadSourceBlocks(Cmd) /\ Goto("partial")
    /\ stash' = DeleteTorn(Cmd.id)
    /\ UNCHANGED <<disk, durable, stashDir, partial, lastCommand, mode, saved,
                   createdStash, stashMap, isUnresumable, freeStash, written, newPos,
                   session>>

PerformCommandFree ==
    /\ Performing({"free"})
    /\ stash' = [stash EXCEPT ![Cmd.id] = "absent"]
    /\ Goto("sync")
    /\ UNCHANGED <<disk, durable, stashDir, partial, lastCommand, mode, saved,
                   createdStash, stashMap, isUnresumable, command, newPos, session, faults>>

PerformCommandZeroNew ==
    /\ Performing({"zero", "new"})
    /\ written' = 0
    /\ Goto("discard")
    /\ UNCHANGED <<buffer, freeStash>> /\ Volatile

\* Mutant: the end of the range is taken to be inclusive.
DiscardedInclusive(tgt) ==
    {[b \in Block |-> IF b \in Elements(tgt) \/ b - 1 \in Elements(tgt) THEN v ELSE disk[b]]
        : v \in {Zero, Junk}}

\* BLKDISCARD: what the blocks read as afterwards is up to the device.
Discarded(tgt) ==
    {[b \in Block |-> IF b \in Elements(tgt) THEN v ELSE disk[b]] : v \in {Zero, Junk}}
        \cup {disk}

PerformCommandErase ==
    /\ Performing({"erase"})
    /\ disk' \in Discarded(Cmd.tgt)
    /\ Goto("sync")
    /\ UNCHANGED <<durable, stashDir, stash, partial, lastCommand, mode, saved, createdStash,
                   stashMap, isUnresumable, command, newPos, session, faults>>

\* WriteStash: open, write and fsync the .partial file ...
WriteStashPartial ==
    /\ Executing("update", "partial")
    /\ partial' = partial \cup {StashId(Cmd)}
    /\ Goto("rename")
    /\ UNCHANGED <<disk, durable, stashDir, stash, lastCommand, mode, saved, createdStash,
                   stashMap, isUnresumable, command, newPos, session, faults>>

\* ... rename it and fsync the directory.
WriteStashRename ==
    /\ Executing("update", "rename")
    /\ partial' = partial \ {StashId(Cmd)}
    /\ stash' = [stash EXCEPT ![StashId(Cmd)] = IF buffer = StashId(Cmd) THEN "good" ELSE "torn"]
    /\ freeStash' = IF Cmd.op = "stash" THEN NoStash ELSE StashId(Cmd)
    /\ Goto("index")
    /\ UNCHANGED <<disk, durable, stashDir, lastCommand, mode, saved, createdStash, stashMap,
                   isUnresumable, buffer, written, newPos, session, faults>>

\* Mutant: the stored index is that of the next command.
StoreNextIndex ==
    /\ Executing("update", "index")
    /\ lastCommand' = cmdindex + 1
    /\ Goto(IF Cmd.op = "stash" THEN "sync" ELSE "discard")
    /\ UNCHANGED <<disk, durable, stashDir, stash, partial, mode, saved, createdStash, stashMap,
                   isUnresumable, command, newPos, session, faults>>

\* A failure to replace the file is only logged.
UpdateLastCommandIndex ==
    /\ Executing("update", "index")
    /\ \/ lastCommand' = cmdindex /\ UNCHANGED faults
       \/ Fault /\ UNCHANGED lastCommand
    /\ Goto(IF Cmd.op = "stash" THEN "sync" ELSE "discard")
    /\ UNCHANGED <<disk, durable, stashDir, stash, partial, mode, saved, createdStash, stashMap,
                   isUnresumable, command, newPos, session>>

\* discard_blocks, before anything is written to the target.
DiscardBlocks ==
    /\ Executing("update", "discard")
    /\ disk' \in IF isRetry THEN Discarded(Cmd.tgt) ELSE {disk}
    /\ Goto("write")
    /\ UNCHANGED <<durable, stashDir, stash, partial, lastCommand, mode, saved, createdStash,
                   stashMap, isUnresumable, command, newPos, session, faults>>

\* A patch applied to other data than it was made for yields garbage.
OutputBlock(c, i) ==
    CASE c.op = "move" -> buffer[i]
      [] c.op = "diff" -> IF buffer = SrcHash(c) THEN c.out[i] ELSE Junk
      [] c.op = "zero" -> Zero
      [] c.op = "new"  -> list.new[newPos + 1]

WriteBlock ==
    /\ Executing("update", "write") /\ written < Len(Cmd.tgt)
    /\ disk' = [disk EXCEPT ![Cmd.tgt[written + 1]] = OutputBlock(Cmd, written + 1)]
    /\ written' = written + 1
    /\ newPos' = IF Cmd.op = "new" THEN newPos + 1 ELSE newPos
    /\ Goto("write")
    /\ UNCHANGED <<durable, stashDir, stash, partial, lastCommand, mode, saved, createdStash,
                   stashMap, isUnresumable, buffer, freeStash, session, faults>>

\* The implicit stash can be deleted once the write has completed.
FreeImplicitStash ==
    /\ Executing("update", "write") /\ written = Len(Cmd.tgt)
    /\ stash' = IF freeStash = NoStash THEN stash ELSE [stash EXCEPT ![freeStash] = "absent"]
    /\ freeStash' = NoStash
    /\ Goto("sync")
    /\ UNCHANGED <<disk, durable, stashDir, partial, lastCommand, mode, saved, createdStash,
                   stashMap, isUnresumable, buffer, written, newPos, session, faults>>

\* ota_fsync of the partition after every command.
Fsync ==
    /\ Executing("update", "sync")
    /\ durable' = disk
    /\ NextCommand
    /\ UNCHANGED <<disk, stashDir, stash, partial, lastCommand, mode, saved, createdStash,
                   stashMap, isUnresumable, command, newPos, session, faults>>

\* All commands are done: first the stash is deleted, then last_command.
UpdateDone ==
    /\ mode = "update" /\ pc = "cmd" /\ Finished
    /\ stash' = NoStashFiles /\ partial' = {} /\ stashDir' = FALSE
    /\ Goto("cleanup")
    /\ UNCHANGED <<disk, durable, lastCommand, mode, saved, createdStash, stashMap,
                   isUnresumable, command, newPos, session, faults>>

DeleteLastCommandFile ==
    /\ mode = "update" /\ pc = "cleanup"
    /\ EndUpdate(TRUE, FALSE)
    /\ FinalFsync(TRUE)

-----------------------------------------------------------------------------
\* A read or write of the partition, or the writing of a stash, fails, or the receiver of
\* new_data stops early.  The stash and last_command are kept for a resume.
IOError ==
    /\ mode # "idle" /\ ~Finished /\ Fault
    /\ durable' \in {durable, disk}
    /\ \/ mode = "verify" /\ EndVerify(FALSE, FALSE)
       \/ mode = "update" /\ EndUpdate(FALSE, FALSE)
    /\ UNCHANGED <<lastCommand, unhandled>>

(***************************************************************************)
(* A stat, open or read of a stash file fails in LoadSrcTgtVersion3.  That *)
(* counts as a source with unexpected contents: the update is given up as  *)
(* unresumable, and the stash and last_command are deleted.                *)
(***************************************************************************)
LoadStashFails ==
    /\ pc = "cmd" /\ ~Finished /\ Cmd.op \in {"move", "diff"}
    /\ mode = "verify" \/ (mode = "update" /\ cmdindex > saved)
    /\ ~TargetVerified(Cmd)
    /\ ReadsStash(Cmd) \/ (~SourceVerified(Cmd) /\ StashVerified(Cmd) /\ ~InMap(SrcHash(Cmd)))
    /\ Fault
    /\ durable' \in {durable, disk}
    /\ \/ mode = "verify" /\ EndVerify(FALSE, TRUE)
       \/ mode = "update" /\ EndUpdate(FALSE, TRUE)
    /\ \/ lastCommand' = -1 /\ unhandled' = unhandled \cup {"unread"}
       \/ /\ lastCommand # -1 /\ UNCHANGED lastCommand
          /\ unhandled' = unhandled \cup {"unread", "undeleted"}

\* What a loss of power leaves of the partition: each block that was not fsynced has
\* its old or its new contents.
AfterPowerLoss == {[b \in Block |-> IF b \in S THEN durable[b] ELSE disk[b]] : S \in SUBSET Block}

\* Block b is the target of a command whose implicit stash is gone.
FreedFor(b) == \E c \in Elements(list.cmds) :
                   /\ c.op \in {"move", "diff"} /\ Overlap(c) /\ stash[SrcHash(c)] # "good"
                   /\ b \in Elements(c.tgt)

\* The device restarts.
Crash ==
    /\ Fault
    /\ mode' = "idle"
    /\ disk' \in IF list.lossy THEN AfterPowerLoss ELSE {disk}
    /\ durable' = disk'
    /\ verified' = FALSE
    /\ isUnresumable' = FALSE
    /\ unhandled' = IF \E b \in Block : disk'[b] # disk[b] /\ FreedFor(b)
                    THEN unhandled \cup {"unsynced"} ELSE unhandled
    /\ UNCHANGED <<list, stashDir, stash, partial, lastCommand, pc, cmdindex, saved,
                   createdStash, stashMap, command, newPos, isRetry, outcome>>

VerifyStep == \/ VerifyMoveDiff \/ VerifyMoveDiffFails \/ VerifyStash \/ VerifyFree
              \/ VerifySkip \/ VerifyDone

UpdateStep == \/ SkipExecuted \/ MoveDiffAlreadyDone \/ LoadSource \/ LoadImplicitStash
              \/ MoveDiffFails \/ PerformCommandStash \/ PerformCommandFree
              \/ PerformCommandZeroNew \/ PerformCommandErase
              \/ WriteStashPartial \/ WriteStashRename \/ UpdateLastCommandIndex
              \/ DiscardBlocks \/ WriteBlock \/ FreeImplicitStash
              \/ Fsync \/ UpdateDone \/ DeleteLastCommandFile

Next == \/ BlockImageVerifyFn \/ BlockImageUpdateFn
        \/ VerifyStep \/ UpdateStep
        \/ IOError \/ LoadStashFails \/ Crash

Spec == Init /\ [][Next]_vars

\* The updater keeps running, and whoever asked for the installation (the user, or the
\* host that sideloads it) asks again after an interruption.
Fairness == /\ WF_vars(BlockImageVerifyFn) /\ WF_vars(BlockImageUpdateFn)
            /\ WF_vars(VerifyStep) /\ WF_vars(UpdateStep)

FairSpec == Spec /\ Fairness

-----------------------------------------------------------------------------
\* Command c has taken effect on the image.
Produced(c, image) ==
    c.op \in Writers \ {"erase"} => \A i \in DOMAIN c.tgt : image[c.tgt[i]] = c.out[i]

AllTargets == UNION {Elements(list.cmds[k].tgt) : k \in DOMAIN list.cmds}

(***************************************************************************)
(* UpdateCorrect: when block_image_update returns "t", every command of    *)
(* the list has taken effect on the partition, whatever interruptions,     *)
(* unreadable files, resumed runs and skipped commands came before, unless *)
(* a last_command found stale could not be unlinked.                       *)
(***************************************************************************)
UpdateCorrect ==
    outcome = "t" /\ "undeleted" \notin unhandled =>
        \A k \in DOMAIN list.cmds : Produced(list.cmds[k], disk)

(***************************************************************************)
(* Resumable: an update of the partition it was made for becomes           *)
(* unresumable only by an error of the kinds in Unhandled: after any other *)
(* error and any crash each command that still has to run finds its source *)
(* on the partition or in the stash.                                       *)
(***************************************************************************)
Resumable == list.found = SourceImage /\ isUnresumable => unhandled # {}

(***************************************************************************)
(* StashIntact: a file under its final name in the stash directory has the *)
(* contents its name is the hash of (WriteStash relies on it when it finds *)
(* the file already there).                                                *)
(***************************************************************************)
StashIntact == \A id \in StashIds : stash[id] # "torn"

(***************************************************************************)
(* ResumePointSafe: the commands that an update resuming at last_command   *)
(* would skip have taken effect; the command at last_command itself may    *)
(* have been interrupted.  Excepted is an index found stale whose file     *)
(* could not be unlinked.                                                  *)
(***************************************************************************)
ResumePointSafe ==
    "undeleted" \notin unhandled =>
        \A k \in DOMAIN list.cmds : k <= lastCommand => Produced(list.cmds[k], disk)

(***************************************************************************)
(* EventuallyUpdated: an update of the partition it was made for, started  *)
(* again after every one of finitely many interruptions and failures,      *)
(* finishes, unless one of the errors in Unhandled comes between.          *)
(***************************************************************************)
EventuallyUpdated == list.found = SourceImage => <>(outcome = "t" \/ unhandled # {})

(***************************************************************************)
(* OnlyTargetsWritten: blocks that are no command's target are never       *)
(* touched, and block_image_verify touches no block (a crash may lose what *)
(* was not fsynced before it).                                             *)
(***************************************************************************)
OnlyTargetsWritten ==
    [][\A b \in Block : disk'[b] # disk[b] =>
          b \in AllTargets /\ (mode = "verify" => mode' = "idle")]_vars

=============================================================================
