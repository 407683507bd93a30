-------------------------- MODULE BlockImgProofs ---------------------------
(***************************************************************************)
(* The inductive invariant of BlockImg, the lemmas its proof rests on, one *)
(* lemma per step, and the properties of BlockImg that follow.             *)
(***************************************************************************)
EXTENDS BlockImg, TLAPS

-----------------------------------------------------------------------------
\* How a function is shown to be a sequence over S.
LEMMA SeqOfElements ==
    ASSUME NEW S, NEW s, NEW n \in Nat, s = [i \in 1 .. n |-> s[i]], \A i \in 1 .. n : s[i] \in S
    PROVE  s \in Seq(S)
  OBVIOUS

\* What ListsOK says of one command of a list.
LEMMA CommandTypes ==
    ASSUME NEW l \in Lists, NEW k \in DOMAIN l.cmds
    PROVE  /\ l.cmds \in Seq(Command) /\ l.new \in Seq(Content)
           /\ l.cmds[k] \in Command
           /\ CommandOK(l.cmds[k])
           /\ Stashes(l.cmds[k]) => StashId(l.cmds[k]) \in StashIds
           /\ l.cmds[k].op \in {"stash", "free"} => l.cmds[k].id \in StashIds
           /\ \A i \in DOMAIN l.cmds[k].src :
                 /\ l.cmds[k].src[i] \in Slot
                 /\ l.cmds[k].src[i].kind = "stash" =>
                       /\ l.cmds[k].src[i].id \in StashIds
                       /\ l.cmds[k].src[i].n \in DOMAIN l.cmds[k].src[i].id
<1>1. WellFormed(l) /\ Ids(l) \subseteq StashIds
  BY ListsOK
<1>2. l.cmds \in Seq(Command) /\ l.new \in Seq(Content)
  BY ListsOK
<1>3. l.cmds[k] \in Command
  BY <1>2
<1>4. CommandOK(l.cmds[k])
  BY Zenon, <1>1 DEF WellFormed
<1>5. Stashes(l.cmds[k]) => StashId(l.cmds[k]) \in StashIds
  BY Zenon, <1>1 DEF Ids
<1>6. l.cmds[k].op \in {"stash", "free"} => l.cmds[k].id \in StashIds
  BY Zenon, <1>1 DEF Ids, Stashes, StashId
<1>7. ASSUME NEW i \in DOMAIN l.cmds[k].src
      PROVE  /\ l.cmds[k].src[i] \in Slot
             /\ l.cmds[k].src[i].kind = "stash" =>
                   /\ l.cmds[k].src[i].id \in StashIds
                   /\ l.cmds[k].src[i].n \in DOMAIN l.cmds[k].src[i].id
  <2> DEFINE s == l.cmds[k].src[i]
  <2>1. l.cmds[k].src \in Seq(Slot)
    BY <1>3 DEF Command
  <2>2. s \in Slot
    BY <2>1
  <2>3. s.kind = "stash" => s.id \in StashIds /\ s.n \in Nat \ {0}
    BY Zenon, <2>2 DEF Slot
  <2>4. s \in Elements(l.cmds[k].src)
    BY Zenon DEF Elements
  <2>5. s.kind = "stash" => s.n <= Len(s.id)
    BY Zenon, <1>1, <2>4 DEF WellFormed
  <2>6. s.kind = "stash" => s.id \in Seq(Content)
    BY Zenon, <2>3, ConstantsOK
  <2> QED
    BY <2>2, <2>3, <2>5
<1> QED
  BY <1>2, <1>4, <1>5, <1>6, <1>7

\* What the invariants say of the command at cmdindex.
LEMMA CurrentCommand ==
    ASSUME TypeOK, ~Finished
    PROVE  /\ cmdindex + 1 \in DOMAIN list.cmds
           /\ Cmd \in Command
           /\ CommandOK(Cmd)
           /\ Stashes(Cmd) => StashId(Cmd) \in StashIds
           /\ Cmd.op \in {"stash", "free"} => Cmd.id \in StashIds
           /\ Cmd.op = "stash" => SrcRange(Cmd) \in Seq(Block)
           /\ SrcHash(Cmd) \in Seq(Content)
           /\ LoadSourceBlocks(Cmd) \in Seq(Content)
           /\ Len(list.cmds) \in Nat
           /\ list.new \in Seq(Content)
<1>1. list \in Lists /\ list.cmds \in Seq(Command)
  BY ListsOK DEF TypeOK, RunOK
<1>2. cmdindex + 1 \in DOMAIN list.cmds /\ Len(list.cmds) \in Nat
  BY <1>1 DEF TypeOK, RunOK, Finished
<1>3. /\ Cmd \in Command
      /\ CommandOK(Cmd)
      /\ Stashes(Cmd) => StashId(Cmd) \in StashIds
      /\ Cmd.op \in {"stash", "free"} => Cmd.id \in StashIds
      /\ list.new \in Seq(Content)
      /\ \A i \in DOMAIN Cmd.src :
            /\ Cmd.src[i] \in Slot
            /\ Cmd.src[i].kind = "stash" => /\ Cmd.src[i].id \in StashIds
                                            /\ Cmd.src[i].n \in DOMAIN Cmd.src[i].id
  BY Zenon, <1>1, <1>2, CommandTypes DEF Cmd
<1>4. Cmd.src \in Seq(Slot)
  BY <1>3 DEF Command
<1>5. ASSUME NEW i \in DOMAIN Cmd.src
      PROVE  /\ Cmd.src[i].n \in Nat
             /\ Cmd.src[i].kind = "blk" => Cmd.src[i].n \in Block
             /\ Cmd.src[i].kind # "blk" => Cmd.src[i].id[Cmd.src[i].n] \in Content
  <2>1. /\ Cmd.src[i].kind = "blk" => Cmd.src[i].n \in Block
        /\ Cmd.src[i].kind # "blk" => Cmd.src[i].kind = "stash"
        /\ Cmd.src[i].n \in Nat
    BY <1>3, ConstantsOK, Zenon DEF Slot
  <2>2. Cmd.src[i].kind = "stash" => Cmd.src[i].id \in Seq(Content)
    BY Zenon, <1>3, ConstantsOK
  <2> QED
    BY <1>3, <2>1, <2>2
<1>6. Cmd.op = "stash" => SrcRange(Cmd) \in Seq(Block)
  BY <1>3, <1>4, <1>5 DEF SrcRange, CommandOK
<1>7. SrcHash(Cmd) \in Seq(Content)
  BY <1>4, <1>5, ConstantsOK DEF SrcHash, SlotHash
<1>8. LoadSourceBlocks(Cmd) \in Seq(Content)
  <2>1. ASSUME NEW i \in DOMAIN Cmd.src PROVE LoadSourceBlocks(Cmd)[i] \in Content
    BY Zenon, <1>5, ConstantsOK DEF LoadSourceBlocks, TypeOK, PersistentOK
  <2>2. LoadSourceBlocks(Cmd) = [i \in 1 .. Len(Cmd.src) |-> LoadSourceBlocks(Cmd)[i]]
    BY DEF LoadSourceBlocks
  <2>3. Len(Cmd.src) \in Nat /\ DOMAIN Cmd.src = 1 .. Len(Cmd.src)
    BY <1>4
  <2>4. \A i \in 1 .. Len(Cmd.src) : LoadSourceBlocks(Cmd)[i] \in Content
    BY <2>1, <2>3
  <2> HIDE DEF LoadSourceBlocks
  <2> QED
    BY <2>2, <2>4, SeqOfElements
<1> QED
  BY Zenon, <1>2, <1>3, <1>6, <1>7, <1>8

-----------------------------------------------------------------------------
(***************************************************************************)
(* The inductive invariant behind UpdateCorrect and ResumePointSafe.       *)
(***************************************************************************)
cmds == list.cmds
Clean == "undeleted" \notin unhandled
Done(k) == Clean => Produced(cmds[k], disk)

\* last_command names a command that stashes.
IndexOK == /\ lastCommand \in -1 .. Len(cmds) - 1
           /\ lastCommand >= 0 => Stashes(cmds[lastCommand + 1])

\* block_image_verify has looked at the target of every move and diff before
\* cmdindex that the update is going to skip.
VerifyInv ==
    mode = "verify" =>
        /\ Clean => saved = lastCommand
        /\ pc = "cmd"
        /\ ~verified
        /\ \A k \in DOMAIN cmds :
              k <= cmdindex /\ k <= saved + 1 /\ cmds[k].op \in {"move", "diff"} => Done(k)

\* After it every command up to last_command, that one included, is done.
VerifiedInv ==
    verified => /\ mode = "idle"
                /\ \A k \in DOMAIN cmds : k <= lastCommand + 1 => Done(k)

\* An update has done, or skipped as done, all commands before the current one.
UpdateInv ==
    mode = "update" =>
        /\ pc = "cleanup" => Finished
        /\ ~verified
        /\ outcome = "none"
        /\ saved \in -1 .. Len(cmds) - 1
        /\ saved >= 0 => Stashes(cmds[saved + 1])
        /\ Clean => lastCommand <= saved \/ lastCommand <= cmdindex
        /\ \A k \in DOMAIN cmds : k <= saved + 1 => Done(k)
        /\ \A k \in DOMAIN cmds : k <= cmdindex => Done(k)

\* The steps of the current command.
StepInv ==
    mode = "update" /\ pc \notin {"cmd", "cleanup"} =>
        /\ cmdindex < Len(cmds) /\ cmdindex > saved
        /\ pc \in {"partial", "rename", "index"} => Stashes(Cmd)
        /\ pc \in {"partial", "rename", "index"} /\ Cmd.op # "stash" => written = 0
        /\ pc \in {"partial", "rename"} => buffer = StashId(Cmd)
        /\ pc \in {"discard", "write"} => Cmd.op \in {"move", "diff", "zero", "new"}
        /\ pc = "discard" => written = 0
        /\ pc \in {"partial", "rename", "index", "discard", "write"}
              /\ Cmd.op \in {"move", "diff"} => buffer = SrcHash(Cmd)
        /\ pc = "write" => /\ written <= Len(Cmd.tgt)
                           /\ \A i \in 1 .. written : disk[Cmd.tgt[i]] = Cmd.out[i]
        /\ pc = "sync" => Done(cmdindex + 1)

\* Command k is the next new command.
FirstNew(k) ==
    /\ k \in DOMAIN cmds /\ cmds[k].op = "new" /\ k > cmdindex
    /\ \A j \in DOMAIN cmds : cmdindex < j /\ j < k => cmds[j].op # "new"

NewWritten(k) ==
    IF k # cmdindex + 1 THEN 0
    ELSE CASE pc = "write" -> written
           [] pc = "sync"  -> Len(cmds[k].tgt)
           [] OTHER        -> 0

\* The receiver of new_data is where the next new command needs it.
NewDataInv ==
    mode = "update" => \A k \in DOMAIN cmds : FirstNew(k) => newPos = cmds[k].at + NewWritten(k)

OutcomeInv ==
    outcome = "t" => \A k \in DOMAIN cmds : Done(k)

IInv == /\ TypeOK /\ IndexOK /\ ResumePointSafe /\ VerifyInv /\ VerifiedInv
        /\ UpdateInv /\ StepInv /\ NewDataInv /\ OutcomeInv /\ StashIntact

\* The setting the theorems are about: the script verifies before it updates,
\* no interruption loses writes, and new commands follow the stashing ones.
SafeSetting ==
    /\ StaleIndex = {-1}
    /\ \A l \in Lists : l.script = "verify" /\ ~l.lossy /\ NewDataLast(l)

-----------------------------------------------------------------------------
\* The block a step writes is the one the command has to produce.
LEMMA OutputCorrect ==
    ASSUME IInv, Executing("update", "write"), written < Len(Cmd.tgt)
    PROVE  /\ OutputBlock(Cmd, written + 1) = Cmd.out[written + 1]
           /\ Cmd.out[written + 1] \in Content
           /\ Cmd.tgt[written + 1] \in Block
           /\ written + 1 \in DOMAIN Cmd.tgt
<1>1. /\ TypeOK /\ StepInv /\ NewDataInv /\ mode = "update" /\ pc = "write" /\ ~Finished
      /\ written \in Nat
  BY DEF IInv, Executing, TypeOK, CommandStateOK
<1>2. /\ Cmd \in Command /\ CommandOK(Cmd) /\ cmdindex + 1 \in DOMAIN cmds
      /\ SrcHash(Cmd) \in Seq(Content)
  BY Zenon, <1>1, CurrentCommand DEF cmds
<1>3. Cmd.tgt \in Seq(Block) /\ Cmd.out \in Seq(Content) /\ Len(Cmd.out) = Len(Cmd.tgt)
  BY Zenon, <1>2 DEF Command, CommandOK
<1>4. written + 1 \in DOMAIN Cmd.tgt /\ written + 1 \in DOMAIN Cmd.out
  BY <1>1, <1>3
<1>5. CASE Cmd.op = "new"
  <2>1. newPos = Cmd.at + written
    <3>1. FirstNew(cmdindex + 1)
      BY <1>1, <1>2, <1>5 DEF FirstNew, Cmd, cmds, TypeOK, RunOK
    <3> QED
      BY Zenon, <1>1, <1>2, <3>1 DEF NewDataInv, NewWritten, Cmd, cmds
  <2>2. Cmd.out[written + 1] = list.new[Cmd.at + (written + 1)]
    BY <1>1, <1>2, <1>4, <1>5, ListsOK DEF WellFormed, Cmd, cmds, TypeOK, RunOK
  <2>3. Cmd.at \in Nat
    BY <1>2 DEF Command
  <2>4. newPos + 1 = Cmd.at + (written + 1)
    BY <1>1, <2>1, <2>3
  <2>5. OutputBlock(Cmd, written + 1) = list.new[newPos + 1]
    BY <1>5 DEF OutputBlock
  <2>6. OutputBlock(Cmd, written + 1) = Cmd.out[written + 1]
    BY <2>2, <2>4, <2>5
  <2> QED
    BY <1>3, <1>4, <2>6
<1>6. CASE Cmd.op = "move"
  BY <1>1, <1>2, <1>3, <1>6 DEF OutputBlock, StepInv, CommandOK
<1>7. CASE Cmd.op = "diff"
  BY <1>1, <1>3, <1>4, <1>7 DEF OutputBlock, StepInv
<1>8. CASE Cmd.op = "zero"
  BY <1>1, <1>2, <1>3, <1>8 DEF OutputBlock, CommandOK
<1> QED
  BY Zenon, <1>1, <1>5, <1>6, <1>7, <1>8 DEF StepInv


-----------------------------------------------------------------------------
\* A command whose target hash matches is done.
LEMMA TargetIsDone ==
    ASSUME NEW c, TargetVerified(c)
    PROVE  Produced(c, disk)
  BY DEF TargetVerified, ReadBlocks, Produced

\* Writing the target of the current command undoes no other command.
LEMMA DoneStable ==
    ASSUME TypeOK, ~Finished, list' = list, unhandled' = unhandled,
           \A b \in Block \ Elements(Cmd.tgt) : disk'[b] = disk[b]
    PROVE  \A k \in DOMAIN cmds : k # cmdindex + 1 => (Done(k)' <=> Done(k))
<1> SUFFICES ASSUME NEW k \in DOMAIN cmds, k # cmdindex + 1
             PROVE  Done(k)' <=> Done(k)
  OBVIOUS
<1>1. cmdindex + 1 \in DOMAIN cmds /\ list \in Lists /\ WellFormed(list)
  BY Zenon, CurrentCommand, ListsOK DEF TypeOK, RunOK, cmds
<1>2. Elements(cmds[k].tgt) \cap Elements(Cmd.tgt) = {}
  <2>1. cmds \in Seq(Command)
    BY <1>1, ListsOK DEF cmds
  <2>2. k < cmdindex + 1 \/ cmdindex + 1 < k
    BY <1>1, <2>1
  <2> QED
    BY <1>1, <2>2, Zenon DEF WellFormed, Cmd, cmds
<1>3. cmds[k].tgt \in Seq(Block)
  BY Zenon, <1>1, CommandTypes DEF Command, cmds
<1>4. \A i \in DOMAIN cmds[k].tgt : disk'[cmds[k].tgt[i]] = disk[cmds[k].tgt[i]]
  BY <1>2, <1>3 DEF Elements
<1> QED
  BY Zenon, <1>4 DEF Done, Clean, Produced, cmds

\* The stream position is kept by steps that neither move on to another
\* command nor write new data.
LEMMA NewDataSame ==
    ASSUME NewDataInv, mode = "update", UNCHANGED <<list, cmdindex, newPos>>,
           Cmd.op = "new" => NewWritten(cmdindex + 1)' = NewWritten(cmdindex + 1)
    PROVE  NewDataInv'
<1> SUFFICES ASSUME NEW k \in DOMAIN cmds, FirstNew(k)'
             PROVE  newPos' = cmds[k].at + NewWritten(k)'
  BY Zenon DEF NewDataInv, cmds
<1>1. FirstNew(k) /\ newPos' = cmds[k].at + NewWritten(k)
  BY Zenon DEF NewDataInv, FirstNew, cmds
<1>2. NewWritten(k)' = NewWritten(k)
  <2>1. CASE k = cmdindex + 1
    BY Zenon, <2>1 DEF FirstNew, Cmd, cmds
  <2>2. CASE k # cmdindex + 1
    BY <2>2 DEF NewWritten
  <2> QED
    BY <2>1, <2>2
<1> QED
  BY <1>1, <1>2

\* Moving on to the next command keeps the stream position right for the
\* next new command.
LEMMA NewDataNext ==
    ASSUME TypeOK, NewDataInv, mode = "update", ~Finished,
           UNCHANGED <<list, newPos>>, cmdindex' = cmdindex + 1, pc' = "cmd",
           Cmd.op # "new" \/ pc = "sync"
    PROVE  NewDataInv'
<1> SUFFICES ASSUME NEW k \in DOMAIN cmds, FirstNew(k)'
             PROVE  newPos' = cmds[k].at + NewWritten(k)'
  BY Zenon DEF NewDataInv, cmds
<1>1. /\ list \in Lists /\ WellFormed(list) /\ cmds \in Seq(Command)
      /\ cmdindex \in Nat /\ cmdindex + 1 \in DOMAIN cmds /\ DOMAIN cmds = 1 .. Len(cmds)
  BY CurrentCommand, ListsOK DEF TypeOK, RunOK, cmds
<1>2. /\ cmds[k].op = "new" /\ k > cmdindex + 1 /\ k \in Nat
      /\ \A j \in DOMAIN cmds : cmdindex + 1 < j /\ j < k => cmds[j].op # "new"
  BY <1>1 DEF FirstNew, cmds
<1>3. NewWritten(k)' = 0
  BY DEF NewWritten
<1>4. cmds[k].at \in Nat /\ cmds[cmdindex + 1].at \in Nat
  <2>1. cmds[k] \in Command /\ cmds[cmdindex + 1] \in Command
    BY <1>1
  <2> QED
    BY Zenon, <2>1 DEF Command
<1>5. CASE Cmd.op # "new"
  <2>1. FirstNew(k) /\ k # cmdindex + 1
    <3>1. \A j \in DOMAIN cmds : cmdindex < j /\ j < k => j = cmdindex + 1 \/ cmdindex + 1 < j
      BY <1>1
    <3> QED
      BY <1>1, <1>5 DEF FirstNew, Cmd, cmds
  <2> QED
    BY <1>3, <2>1 DEF NewDataInv, NewWritten
<1>6. CASE Cmd.op = "new" /\ pc = "sync"
  <2>1. FirstNew(cmdindex + 1)
    BY <1>1, <1>6 DEF FirstNew, Cmd, cmds
  <2>2. newPos = Cmd.at + Len(Cmd.tgt)
    BY Zenon, <1>1, <1>6, <2>1 DEF NewDataInv, NewWritten, Cmd, cmds
  <2>3. cmds[k].at = Cmd.at + Len(Cmd.tgt)
    <3> DEFINE before == {j \in 1 .. k - 1 : cmds[j].op = "new"}
    <3>1. cmdindex + 1 \in before
      BY <1>1, <1>2, <1>6 DEF Cmd, cmds
    <3>2. PICK j \in before : /\ \A i \in before : i <= j
                              /\ cmds[k].at = cmds[j].at + Len(cmds[j].tgt)
      BY Zenon, <1>1, <1>2, <3>1 DEF WellFormed, cmds
    <3>3. j = cmdindex + 1
      BY <1>1, <1>2, <3>1, <3>2
    <3> QED
      BY Zenon, <3>2, <3>3 DEF Cmd, cmds
  <2> QED
    BY <1>3, <2>2, <2>3
<1> QED
  BY <1>5, <1>6

\* An update starts at the beginning of new_data.
LEMMA NewDataStart ==
    ASSUME TypeOK, list' = list, cmdindex' = 0, newPos' = 0, pc' = "cmd"
    PROVE  NewDataInv'
<1> SUFFICES ASSUME NEW k \in DOMAIN cmds, FirstNew(k)'
             PROVE  newPos' = cmds[k].at + NewWritten(k)'
  BY DEF NewDataInv, cmds
<1>1. list \in Lists /\ WellFormed(list) /\ cmds \in Seq(Command) /\ DOMAIN cmds = 1 .. Len(cmds)
  BY ListsOK DEF TypeOK, RunOK, cmds
<1>2. cmds[k].op = "new" /\ \A j \in 1 .. k - 1 : cmds[j].op # "new"
  BY <1>1 DEF FirstNew, cmds
<1>3. cmds[k].at = 0
  BY Zenon, <1>1, <1>2 DEF WellFormed, cmds
<1> QED
  BY <1>3 DEF NewWritten

-----------------------------------------------------------------------------
\* last_command is deleted, or stays where it is and the failure is recorded.
Dropped == lastCommand' = -1 \/ (UNCHANGED lastCommand /\ ~Clean')

\* What every step may assume of the state before it.
Known ==
    /\ TypeOK /\ PersistentOK /\ RunOK /\ CommandStateOK /\ FlagsOK
    /\ IInv /\ IndexOK /\ ResumePointSafe /\ VerifyInv /\ VerifiedInv
    /\ UpdateInv /\ StepInv /\ NewDataInv /\ OutcomeInv /\ StashIntact
    /\ list.script = "verify" /\ ~list.lossy /\ NewDataLast(list)
    /\ cmdindex \in 0 .. Len(list.cmds) /\ Len(list.cmds) \in Nat
    /\ list.cmds \in Seq(Command)
    /\ DOMAIN list.cmds = 1 .. Len(list.cmds)
    /\ lastCommand \in Int /\ saved \in Int /\ written \in Nat /\ newPos \in Nat

\* It follows from the invariant.
LEMMA KnownFacts ==
    ASSUME SafeSetting, IInv
    PROVE  Known
  BY ListsOK DEF Known, TypeOK, RunOK, IInv, SafeSetting, PersistentOK, CommandStateOK

\* Before the last command there is a current one, and indices are numbers.
LEMMA IndexFacts ==
    ASSUME Known
    PROVE  /\ cmdindex \in Nat /\ cmdindex <= cmdindex
           /\ ~Finished => cmdindex < Len(cmds)
           /\ \A k \in DOMAIN cmds : k \in Nat /\ ~(k <= -1 + 1)
           /\ \A k \in DOMAIN cmds : k <= cmdindex + 1 => k <= cmdindex \/ k = cmdindex + 1
           /\ saved \in Int /\ (cmdindex > saved => ~(cmdindex + 1 <= saved + 1))
           /\ lastCommand \in Int
<1>1. /\ cmdindex \in 0 .. Len(list.cmds) /\ Len(list.cmds) \in Nat
      /\ DOMAIN list.cmds = 1 .. Len(list.cmds) /\ saved \in Int /\ lastCommand \in Int
  BY Zenon DEF Known
<1> QED
  BY <1>1 DEF Finished, cmds

\* Which part of the invariant depends on which variables.
LEMMA Frames ==
    ASSUME Known
    PROVE  /\ UNCHANGED <<disk, durable, stashDir, stash, partial, lastCommand>> => PersistentOK'
           /\ UNCHANGED disk /\ durable' \in {durable, disk} /\ stashDir' \in {stashDir, FALSE}
                 /\ stash' \in {stash, NoStashFiles} /\ partial' \in {partial, {}}
                 /\ lastCommand' \in {lastCommand, -1} => PersistentOK'
           /\ UNCHANGED <<list, mode, cmdindex, saved, outcome, unhandled, faults>> /\ pc' \in Steps => RunOK'
           /\ UNCHANGED <<list, mode, saved, outcome, unhandled, faults>> /\ ~Finished /\ NextCommand => RunOK'
           /\ mode' = "idle" /\ UNCHANGED <<list, pc, cmdindex, saved>>
                 /\ outcome' \in {"none", "t", "failed"} /\ unhandled' \subseteq Unhandled
                 /\ (faults' = faults \/ (faults < MaxFaults /\ faults' = faults + 1)) => RunOK'
           /\ UNCHANGED <<stashMap, buffer, freeStash, written, newPos>> => CommandStateOK'
           /\ UNCHANGED <<createdStash, isUnresumable, isRetry, verified>> => FlagsOK'
           /\ UNCHANGED <<list, disk, lastCommand, unhandled>> => IndexOK' /\ ResumePointSafe'
           /\ UNCHANGED list /\ Dropped => IndexOK' /\ ResumePointSafe'
           /\ mode' # "verify" => VerifyInv'
           /\ ~verified' => VerifiedInv'
           /\ mode' # "update" => UpdateInv' /\ StepInv' /\ NewDataInv'
           /\ mode = "update" /\ pc' # "cleanup"
                 /\ UNCHANGED <<list, disk, cmdindex, saved, lastCommand, verified, outcome, unhandled>>
                    => UpdateInv'
           /\ outcome' # "t" \/ (UNCHANGED <<list, disk, outcome>> /\ (Clean' => Clean)) => OutcomeInv'
           /\ UNCHANGED <<list, disk, outcome, unhandled>> => OutcomeInv'
           /\ stash' = stash \/ stash' = NoStashFiles => StashIntact'
           /\ mode = "verify" => ~verified /\ (Clean => saved = lastCommand) /\ pc = "cmd"
           /\ mode = "update" => ~verified /\ outcome = "none"
<1>1. UNCHANGED <<disk, durable, stashDir, stash, partial, lastCommand>> => PersistentOK'
  BY Zenon DEF PersistentOK, Known
<1>1a. UNCHANGED disk /\ durable' \in {durable, disk} /\ stashDir' \in {stashDir, FALSE}
          /\ stash' \in {stash, NoStashFiles} /\ partial' \in {partial, {}}
          /\ lastCommand' \in {lastCommand, -1} => PersistentOK'
  <2>1. NoStashFiles \in [StashIds -> {"absent", "torn", "good"}] /\ -1 \in Int
    BY DEF NoStashFiles
  <2> QED
    BY <2>1, Zenon DEF PersistentOK, Known
<1>2. UNCHANGED <<list, mode, cmdindex, saved, outcome, unhandled, faults>> /\ pc' \in Steps => RunOK'
  BY Zenon DEF RunOK, Known
<1>2a. UNCHANGED <<list, mode, saved, outcome, unhandled, faults>> /\ ~Finished /\ NextCommand => RunOK'
  BY DEF RunOK, Steps, NextCommand, Finished, Known
<1>2b. mode' = "idle" /\ UNCHANGED <<list, pc, cmdindex, saved>>
          /\ outcome' \in {"none", "t", "failed"} /\ unhandled' \subseteq Unhandled
          /\ (faults' = faults \/ (faults < MaxFaults /\ faults' = faults + 1)) => RunOK'
  BY ConstantsOK DEF RunOK, Known
<1>3. UNCHANGED <<stashMap, buffer, freeStash, written, newPos>> => CommandStateOK'
  BY Zenon DEF CommandStateOK, Known
<1>4. UNCHANGED <<createdStash, isUnresumable, isRetry, verified>> => FlagsOK'
  BY DEF FlagsOK, Known
<1>5. UNCHANGED <<list, disk, lastCommand, unhandled>> => IndexOK' /\ ResumePointSafe'
  BY Zenon DEF IndexOK, ResumePointSafe, cmds, Known
<1>5a. UNCHANGED list /\ Dropped => IndexOK' /\ ResumePointSafe'
  <2>1. lastCommand' = -1 => IndexOK' /\ ResumePointSafe'
    BY DEF IndexOK, ResumePointSafe, cmds, Known
  <2> QED
    BY Zenon, <2>1 DEF Dropped, IndexOK, ResumePointSafe, Clean, cmds, Known
<1>6. (mode' # "verify" => VerifyInv') /\ (~verified' => VerifiedInv')
  BY DEF VerifyInv, VerifiedInv
<1>7. mode' # "update" => UpdateInv' /\ StepInv' /\ NewDataInv'
  BY Zenon DEF UpdateInv, StepInv, NewDataInv
<1>8. mode = "update" /\ pc' # "cleanup"
         /\ UNCHANGED <<list, disk, cmdindex, saved, lastCommand, verified, outcome, unhandled>>
            => UpdateInv'
  BY DEF UpdateInv, Done, Clean, cmds, Known
<1>9. outcome' # "t" \/ (UNCHANGED <<list, disk, outcome>> /\ (Clean' => Clean)) => OutcomeInv'
  BY Zenon DEF OutcomeInv, Done, cmds, Known
<1>9a. UNCHANGED <<list, disk, outcome, unhandled>> => OutcomeInv'
  BY Zenon, <1>9 DEF Clean
<1>10. stash' = stash \/ stash' = NoStashFiles => StashIntact'
  BY Zenon DEF StashIntact, NoStashFiles, Known
<1>11. /\ mode = "verify" => ~verified /\ (Clean => saved = lastCommand) /\ pc = "cmd"
       /\ mode = "update" => ~verified /\ outcome = "none"
  BY Zenon DEF VerifyInv, UpdateInv, Known
<1> QED
  BY <1>1, <1>1a, <1>2, <1>2a, <1>2b, <1>3, <1>4, <1>5, <1>5a, <1>6, <1>7, <1>8, <1>9,
     <1>9a, <1>10, <1>11, Zenon

\* The count of faults stays within its bound.
LEMMA FaultCounted ==
    ASSUME Known
    PROVE  faults' = faults \/ Fault => faults' \in 0 .. MaxFaults
<1>1. faults \in 0 .. MaxFaults
  BY Zenon DEF RunOK, Known
<1> QED
  BY <1>1, ConstantsOK DEF Fault

\* A step of the current command writes its target only: what was done before
\* stays done.
LEMMA TargetStep ==
    ASSUME Known, mode = "update", mode' = mode, ~Finished, cmdindex > saved,
           cmdindex' = cmdindex, pc' # "cleanup",
           UNCHANGED <<list, lastCommand, saved, verified, outcome, unhandled>>,
           \A b \in Block \ Elements(Cmd.tgt) : disk'[b] = disk[b]
    PROVE  IndexOK' /\ ResumePointSafe' /\ UpdateInv'
<1>1. \A k \in DOMAIN cmds : k # cmdindex + 1 => (Done(k)' <=> Done(k))
  BY Zenon, DoneStable DEF Known
<1>2. Clean => lastCommand <= cmdindex
  BY DEF UpdateInv, Known
<1>3. IndexOK' /\ ResumePointSafe'
  <2>1. \A k \in DOMAIN cmds : k <= lastCommand => Done(k)'
    BY <1>1, <1>2 DEF ResumePointSafe, Done, Clean, cmds, Known
  <2>2. IndexOK'
    BY Zenon DEF IndexOK, cmds, Known
  <2>3. ResumePointSafe'
    BY Zenon, <2>1 DEF ResumePointSafe, Done, Clean, cmds
  <2> QED
    BY Zenon, <2>2, <2>3
<1>4. UpdateInv'
  <2>1. \A k \in DOMAIN cmds : k <= saved + 1 \/ k <= cmdindex => Done(k)'
    BY <1>1 DEF UpdateInv, Known
  <2> QED
    BY Zenon, <1>2, <2>1 DEF UpdateInv, Clean, cmds, Known
<1> QED
  BY Zenon, <1>3, <1>4

\* IInv holds initially.
LEMMA InvInit ==
    ASSUME SafeSetting, Init
    PROVE  IInv
<1>1. /\ list \in Lists /\ lastCommand = -1 /\ lastCommand \in Int /\ mode = "idle" /\ verified = FALSE
      /\ outcome = "none"
      /\ list.cmds \in Seq(Command) /\ list.found \in [Block -> Content]
      /\ Len(list.cmds) \in Nat /\ DOMAIN list.cmds = 1 .. Len(list.cmds)
  BY ListsOK DEF Init, SafeSetting
<1>2. PersistentOK
  BY <1>1, Zenon DEF Init, PersistentOK
<1>3. RunOK
  BY ConstantsOK DEF Init, RunOK, Steps
<1>4. CommandStateOK
  BY DEF Init, CommandStateOK
<1>5. FlagsOK
  BY Zenon DEF Init, FlagsOK
<1>6. IndexOK /\ ResumePointSafe
  BY <1>1 DEF IndexOK, ResumePointSafe, cmds
<1>7. VerifyInv /\ VerifiedInv /\ UpdateInv /\ StepInv /\ NewDataInv /\ OutcomeInv
  BY Zenon, <1>1 DEF VerifyInv, VerifiedInv, UpdateInv, StepInv, NewDataInv, OutcomeInv
<1>8. StashIntact
  BY Zenon DEF Init, StashIntact
<1> QED
  BY Zenon, <1>2, <1>3, <1>4, <1>5, <1>6, <1>7, <1>8 DEF IInv, TypeOK

\* A stuttering step changes nothing.
LEMMA StutterInv ==
    ASSUME Known, UNCHANGED vars
    PROVE  IInv'
<1>1. UNCHANGED <<list, disk, durable, stashDir, stash, partial, lastCommand, mode, pc, cmdindex,
                  saved, createdStash, stashMap, isUnresumable, buffer, freeStash, written, newPos,
                  isRetry, verified, outcome, unhandled, faults>>
  BY Zenon DEF Known, vars
<1>2. VerifyInv' /\ VerifiedInv'
  BY Zenon, <1>1 DEF VerifyInv, VerifiedInv, Done, Clean, cmds, Known
<1>3. UpdateInv'
  BY Zenon, <1>1 DEF UpdateInv, Done, Clean, Finished, cmds, Known
<1>4. StepInv'
  BY <1>1, Zenon DEF StepInv, Done, Clean, Cmd, cmds, Known, vars
<1>5. NewDataInv'
  <2>1. CASE mode = "update"
    <3>1. NewWritten(cmdindex + 1)' = NewWritten(cmdindex + 1)
      BY Zenon, <1>1 DEF NewWritten, cmds
    <3> QED
      BY Zenon, <1>1, <2>1, <3>1, NewDataSame DEF Known
  <2> QED
    BY Zenon, <1>1, <2>1 DEF NewDataInv
<1>6. pc' \in Steps
  BY <1>1, Zenon DEF RunOK, Known, vars
<1> QED
  BY <1>1, <1>2, <1>3, <1>4, <1>5, <1>6, Frames, Zenon DEF IInv, TypeOK, Known, vars

-----------------------------------------------------------------------------
(***************************************************************************)
(* The steps that do not write the partition preserve IInv: starting a     *)
(* run, block_image_verify, an I/O error, a restart, and those steps of    *)
(* block_image_update that skip a command, load its source, stash, free    *)
(* and store last_command.                                                 *)
(***************************************************************************)

\* DeleteLastCommandFile, whether the file goes or stays.
LEMMA Deletion ==
    ASSUME Known, IndexDeleted \/ IndexStays
    PROVE  /\ Dropped /\ (Clean' => Clean) /\ unhandled' \subseteq Unhandled
           /\ lastCommand' \in {lastCommand, -1}
<1>1. unhandled \subseteq Unhandled
  BY Zenon DEF RunOK, Known
<1>2. CASE IndexDeleted
  BY Zenon, <1>1, <1>2 DEF IndexDeleted, Dropped, Clean
<1>3. CASE IndexStays
  BY Zenon, <1>1, <1>3 DEF IndexStays, Dropped, Clean, Unhandled
<1> QED
  BY Zenon, <1>2, <1>3

\* The last fsync of a run that deletes last_command.
LEMMA LastFsync ==
    ASSUME Known, FinalFsync(TRUE)
    PROVE  /\ Dropped /\ (Clean' => Clean) /\ unhandled' \subseteq Unhandled
           /\ lastCommand' \in {lastCommand, -1} /\ durable' \in {durable, disk}
           /\ faults' \in 0 .. MaxFaults
<1>1. IndexDeleted \/ IndexStays
  BY Zenon DEF FinalFsync
<1>2. durable' \in {durable, disk} /\ (faults' = faults \/ Fault)
  BY Zenon DEF FinalFsync
<1>3. faults \in 0 .. MaxFaults
  BY Zenon DEF RunOK, Known
<1>4. faults' \in 0 .. MaxFaults
  BY <1>2, <1>3, ConstantsOK DEF Fault
<1> QED
  BY Zenon, <1>1, <1>2, <1>4, Deletion

\* The beginning of a run: last_command is read, or dropped.
LEMMA StartFacts ==
    ASSUME Known, NEW m \in {"verify", "update"}, Start(m)
    PROVE  /\ mode' \in {m, "idle"} /\ pc' = "cmd" /\ cmdindex' = 0 /\ newPos' = 0
           /\ UNCHANGED <<list, disk, durable, stash>>
           /\ PersistentOK' /\ IndexOK' /\ ResumePointSafe'
           /\ Clean' => Clean
           /\ mode' = m => saved' \in {lastCommand, -1} /\ (Clean' => saved' = lastCommand')
           /\ saved' \in Int /\ unhandled' \subseteq Unhandled /\ faults' \in 0 .. MaxFaults
<1>1. /\ mode' \in {m, "idle"} /\ pc' = "cmd" /\ cmdindex' = 0 /\ newPos' = 0
      /\ stashDir' = TRUE /\ partial' = {}
      /\ UNCHANGED <<list, disk, durable, stash>>
      /\ faults' = faults \/ Fault
  BY Zenon DEF Start
<1>2. \/ /\ UNCHANGED <<lastCommand, unhandled>> /\ saved' \in {saved, lastCommand}
         /\ mode' = m => saved' = lastCommand
      \/ saved' = -1 /\ (IndexDeleted \/ IndexStays)
  <2>1. m # "idle"
    OBVIOUS
  <2> QED
    BY Zenon, <2>1 DEF Start
<1>3. /\ lastCommand \in Int /\ saved \in Int /\ -1 \in Int
      /\ unhandled \subseteq Unhandled /\ faults \in 0 .. MaxFaults
  <2>1. -1 \in Int
    OBVIOUS
  <2> QED
    BY Zenon, <2>1 DEF RunOK, Known
<1>4. faults' \in 0 .. MaxFaults
  BY <1>1, <1>3, ConstantsOK DEF Fault
<1>5. CASE UNCHANGED <<lastCommand, unhandled>> /\ saved' \in {saved, lastCommand}
           /\ (mode' = m => saved' = lastCommand)
  <2>1. IndexOK' /\ ResumePointSafe'
    BY Zenon, <1>1, <1>5, Frames
  <2>2. PersistentOK'
    BY Zenon, <1>1, <1>5 DEF PersistentOK, Known
  <2> QED
    BY Zenon, <1>1, <1>3, <1>4, <1>5, <2>1, <2>2 DEF Clean
<1>6. CASE saved' = -1 /\ (IndexDeleted \/ IndexStays)
  <2>1. /\ Dropped /\ (Clean' => Clean) /\ unhandled' \subseteq Unhandled
        /\ lastCommand' \in {lastCommand, -1}
    BY Zenon, <1>6, Deletion
  <2>2. IndexOK' /\ ResumePointSafe'
    BY Zenon, <1>1, <2>1, Frames
  <2>3. PersistentOK'
    BY Zenon, <1>1, <1>3, <2>1 DEF PersistentOK, Known
  <2> QED
    BY Zenon, <1>1, <1>3, <1>4, <1>6, <2>1, <2>2, <2>3 DEF Dropped
<1> QED
  BY Zenon, <1>2, <1>5, <1>6

\* A verification starts.
LEMMA BlockImageVerifyFnInv ==
    ASSUME Known, BlockImageVerifyFn
    PROVE  IInv'
<1>1. /\ Start("verify") /\ ~verified /\ stashMap' = <<>> /\ isRetry' \in RetryFlags
      /\ UNCHANGED <<verified, outcome>>
  BY Zenon DEF BlockImageVerifyFn
<1>2. /\ mode' \in {"verify", "idle"} /\ pc' = "cmd" /\ cmdindex' = 0
      /\ UNCHANGED <<list, disk, durable, stash>>
      /\ PersistentOK' /\ IndexOK' /\ ResumePointSafe' /\ (Clean' => Clean)
      /\ mode' = "verify" => (Clean' => saved' = lastCommand')
      /\ saved' \in Int /\ unhandled' \subseteq Unhandled /\ faults' \in 0 .. MaxFaults
  BY Zenon, <1>1, StartFacts
<1>3. RunOK'
  BY <1>1, <1>2 DEF RunOK, Steps, Known
<1>4. CommandStateOK'
  BY <1>1 DEF Start, CommandStateOK
<1>5. FlagsOK'
  BY <1>1, ConstantsOK, Zenon DEF Start, FlagsOK, PersistentOK, Known
<1>6. VerifyInv'
  BY <1>1, <1>2 DEF VerifyInv, cmds, Known
<1> QED
  BY <1>1, <1>2, <1>3, <1>4, <1>5, <1>6, Frames, Zenon DEF IInv, TypeOK, Known

\* An update starts: all it will skip is done.
LEMMA BlockImageUpdateFnInv ==
    ASSUME Known, BlockImageUpdateFn
    PROVE  IInv'
<1>1. /\ Start("update") /\ verified /\ verified' = FALSE /\ stashMap' = stashMap
      /\ isRetry' = isRetry
      /\ outcome' \in {"none", "failed"} /\ (mode' = "update" => outcome' = "none")
  BY Zenon DEF BlockImageUpdateFn, Known
<1>2. /\ mode' \in {"update", "idle"} /\ pc' = "cmd" /\ cmdindex' = 0 /\ newPos' = 0
      /\ UNCHANGED <<list, disk, durable, stash>>
      /\ PersistentOK' /\ IndexOK' /\ ResumePointSafe' /\ (Clean' => Clean)
      /\ mode' = "update" => saved' \in {lastCommand, -1} /\ (Clean' => saved' = lastCommand')
      /\ saved' \in Int /\ unhandled' \subseteq Unhandled /\ faults' \in 0 .. MaxFaults
  BY Zenon, <1>1, StartFacts
<1>3. RunOK'
  BY <1>1, <1>2 DEF RunOK, Steps, Known
<1>4. CommandStateOK'
  BY <1>1 DEF Start, CommandStateOK, Known
<1>5. FlagsOK'
  BY <1>1, Zenon DEF Start, FlagsOK, PersistentOK, Known
<1>6. UpdateInv'
  <2> SUFFICES ASSUME mode' = "update" PROVE UpdateInv'
    BY Zenon, Frames
  <2>1. \A k \in DOMAIN cmds : k <= saved' + 1 => Done(k)'
    <3>1. CASE saved' = lastCommand
      BY Zenon, <1>1, <1>2, <3>1 DEF VerifiedInv, Done, cmds, Known
    <3>2. CASE saved' = -1
      BY Zenon, <3>2, IndexFacts
    <3> QED
      BY Zenon, <1>2, <3>1, <3>2
  <2>2. saved' \in -1 .. Len(cmds) - 1 /\ (saved' >= 0 => Stashes(cmds[saved' + 1]))
    BY <1>2 DEF IndexOK, cmds, Known
  <2>3. \A k \in DOMAIN cmds : ~(k <= 0)
    BY DEF cmds, Known
  <2>4. Clean' => lastCommand' <= saved'
    BY <1>2
  <2> QED
    BY Zenon, <1>1, <1>2, <2>1, <2>2, <2>3, <2>4 DEF UpdateInv, cmds
<1>7. StepInv' /\ NewDataInv'
  BY Zenon, <1>2, NewDataStart DEF StepInv, Known
<1> QED
  BY <1>1, <1>2, <1>3, <1>4, <1>5, <1>6, <1>7, Frames, Zenon DEF IInv, TypeOK, Known

\* Verification passes a move or diff.
LEMMA VerifyMoveDiffInv ==
    ASSUME Known, VerifyMoveDiff
    PROVE  IInv'
<1>1. /\ mode = "verify" /\ ~Finished /\ NextCommand
      /\ UNCHANGED <<list, disk, durable, stashDir, stash, partial, mode, createdStash, stashMap,
                     isUnresumable, buffer, freeStash, written, newPos, isRetry, verified, outcome>>
  BY Zenon DEF VerifyMoveDiff, Executing, command
<1>2. \/ saved' = -1 /\ (IndexDeleted \/ IndexStays) /\ (faults' = faults \/ Fault)
      \/ /\ UNCHANGED <<saved, lastCommand, unhandled, faults>>
         /\ TargetVerified(Cmd) \/ saved = -1 \/ ~(cmdindex <= saved)
  BY Zenon DEF VerifyMoveDiff
<1>3. \/ /\ saved' = -1 /\ Dropped /\ (Clean' => Clean) /\ lastCommand' \in {lastCommand, -1}
         /\ unhandled' \subseteq Unhandled
         /\ (faults' = faults \/ Fault)
      \/ /\ UNCHANGED <<saved, lastCommand, unhandled, faults>>
         /\ TargetVerified(Cmd) \/ saved = -1 \/ ~(cmdindex <= saved)
  BY Zenon, <1>2, Deletion
<1>4. PersistentOK' /\ RunOK'
  <2>1. lastCommand' \in {lastCommand, -1} /\ saved' \in {saved, -1} /\ (faults' = faults \/ Fault)
    BY Zenon, <1>3
  <2>2. PersistentOK'
    BY Zenon, <1>1, <2>1, Frames
  <2>3. saved' \in Int /\ faults' \in 0 .. MaxFaults
    <3>1. saved \in Int /\ faults \in 0 .. MaxFaults
      BY Zenon DEF RunOK, Known
    <3> QED
      BY <2>1, <3>1, ConstantsOK DEF Fault
  <2>4. cmdindex' \in 0 .. Len(list.cmds) /\ pc' \in Steps
    BY <1>1 DEF NextCommand, Finished, Steps, Known
  <2>5. unhandled' \subseteq Unhandled
    BY Zenon, <1>3 DEF RunOK, Known
  <2> QED
    BY Zenon, <1>1, <2>2, <2>3, <2>4, <2>5 DEF RunOK, Known
<1>5. IndexOK' /\ ResumePointSafe' /\ (Clean' => Clean)
  <2>1. CASE UNCHANGED <<lastCommand, unhandled>>
    BY <1>1, <2>1, Frames, Zenon DEF Clean
  <2>2. CASE Dropped /\ (Clean' => Clean)
    BY <1>1, <2>2, Frames, Zenon
  <2> QED
    BY Zenon, <1>3, <2>1, <2>2
<1>6. VerifyInv'
  <2>1. TargetVerified(Cmd) => Done(cmdindex + 1)
    BY Zenon, TargetIsDone DEF Done, Cmd, cmds
  <2>2. \A k \in DOMAIN cmds : Done(k) => Done(k)'
    BY Zenon, <1>1, <1>5 DEF Done, cmds
  <2>3. Clean' => saved' = lastCommand'
    <3>1. Clean => saved = lastCommand
      BY Zenon, <1>1 DEF VerifyInv, Known
    <3>2. CASE UNCHANGED <<saved, lastCommand>>
      BY Zenon, <1>5, <3>1, <3>2
    <3>3. CASE saved' = -1 /\ Dropped
      <4>1. Clean' => lastCommand' = -1
        BY Zenon, <3>3 DEF Dropped
      <4> QED
        BY <3>3, <4>1
    <3> QED
      BY Zenon, <1>3, <3>2, <3>3
  <2>4. ASSUME NEW k \in DOMAIN cmds, k <= cmdindex + 1, k <= saved' + 1,
               cmds[k].op \in {"move", "diff"}
        PROVE  Done(k)
    <3>1. UNCHANGED saved /\ (TargetVerified(Cmd) \/ saved = -1 \/ ~(cmdindex <= saved))
      BY Zenon, <1>3, <2>4, IndexFacts
    <3>2. CASE k <= cmdindex
      BY Zenon, <1>1, <2>4, <3>1, <3>2 DEF VerifyInv, Known
    <3>3. CASE k = cmdindex + 1
      <4>1. cmdindex <= saved /\ saved # -1
        BY <2>4, <3>1, <3>3, IndexFacts
      <4> QED
        BY Zenon, <2>1, <3>1, <3>3, <4>1
    <3> QED
      BY Zenon, <2>4, <3>2, <3>3, IndexFacts
  <2> QED
    BY Zenon, <1>1, <2>2, <2>3, <2>4 DEF VerifyInv, NextCommand, cmds, Known
<1> QED
  BY <1>1, <1>4, <1>5, <1>6, Frames, Zenon DEF IInv, TypeOK, Known

\* A verification gives the update up: the stash and last_command go.
LEMMA UnresumableVerifyInv ==
    ASSUME Known, EndVerify(FALSE, TRUE), Dropped, Clean' => Clean, unhandled' \subseteq Unhandled,
           lastCommand' \in {lastCommand, -1}, durable' \in {durable, disk},
           faults' \in 0 .. MaxFaults
    PROVE  IInv'
<1>1. /\ mode' = "idle" /\ verified' = FALSE /\ stash' = NoStashFiles
      /\ stashDir' = FALSE /\ partial' = {} /\ isUnresumable' = TRUE
      /\ UNCHANGED <<list, disk, pc, cmdindex, saved, createdStash, stashMap, buffer, freeStash,
                     written, newPos, isRetry, outcome>>
  BY Zenon DEF EndVerify, command
<1>2. PersistentOK'
  BY <1>1, Frames, Zenon
<1>3. RunOK'
  BY Zenon, <1>1 DEF RunOK, Known
<1>4. FlagsOK'
  BY <1>1, Zenon DEF FlagsOK, Known
<1>5. IndexOK' /\ ResumePointSafe'
  BY <1>1, Frames, Zenon
<1> QED
  BY <1>1, <1>2, <1>3, <1>4, <1>5, Frames, Zenon DEF IInv, TypeOK, Known

\* An update is given up.
LEMMA UnresumableUpdateInv ==
    ASSUME Known, mode = "update", EndUpdate(FALSE, TRUE), Dropped, Clean' => Clean,
           unhandled' \subseteq Unhandled, lastCommand' \in {lastCommand, -1},
           durable' \in {durable, disk}, faults' \in 0 .. MaxFaults
    PROVE  IInv'
<1>1. /\ mode' = "idle" /\ outcome' = "failed" /\ stash' = NoStashFiles
      /\ stashDir' = FALSE /\ partial' = {} /\ isUnresumable' = TRUE
      /\ UNCHANGED <<list, disk, pc, cmdindex, saved, createdStash, stashMap, buffer, freeStash,
                     written, newPos, isRetry, verified>>
  BY Zenon DEF EndUpdate, command
<1>2. PersistentOK'
  BY <1>1, Frames, Zenon
<1>3. RunOK'
  BY Zenon, <1>1 DEF RunOK, Known
<1>4. FlagsOK'
  BY <1>1, Zenon DEF FlagsOK, Known
<1>5. IndexOK' /\ ResumePointSafe'
  BY <1>1, Frames, Zenon
<1> QED
  BY <1>1, <1>2, <1>3, <1>4, <1>5, Frames, Zenon DEF IInv, TypeOK, Known

\* A stash file cannot be read: the update is given up.
LEMMA LoadStashFailsInv ==
    ASSUME Known, LoadStashFails
    PROVE  IInv'
<1>1. /\ Fault /\ durable' \in {durable, disk}
      /\ \/ EndVerify(FALSE, TRUE)
         \/ mode = "update" /\ EndUpdate(FALSE, TRUE)
      /\ \/ lastCommand' = -1 /\ unhandled' = unhandled \cup {"unread"}
         \/ UNCHANGED lastCommand /\ unhandled' = unhandled \cup {"unread", "undeleted"}
  BY Zenon DEF LoadStashFails
<1>2. unhandled \subseteq Unhandled /\ faults \in 0 .. MaxFaults
  BY Zenon DEF RunOK, Known
<1>3. /\ Dropped /\ (Clean' => Clean) /\ unhandled' \subseteq Unhandled
      /\ lastCommand' \in {lastCommand, -1}
  BY Zenon, <1>1, <1>2 DEF Dropped, Clean, Unhandled
<1>4. faults' \in 0 .. MaxFaults
  BY <1>1, <1>2, ConstantsOK DEF Fault
<1> QED
  BY Zenon, <1>1, <1>3, <1>4, UnresumableVerifyInv, UnresumableUpdateInv

\* Verification finds neither target nor source: the update starts over.
LEMMA VerifyMoveDiffFailsInv ==
    ASSUME Known, VerifyMoveDiffFails
    PROVE  IInv'
<1>1. EndVerify(FALSE, TRUE) /\ FinalFsync(TRUE)
  BY Zenon DEF VerifyMoveDiffFails
<1> QED
  BY Zenon, <1>1, LastFsync, UnresumableVerifyInv

\* Verification passes a stash command.
LEMMA VerifyStashInv ==
    ASSUME Known, VerifyStash
    PROVE  IInv'
<1>1. /\ mode = "verify" /\ ~Finished /\ NextCommand
      /\ UNCHANGED <<list, disk, durable, stashDir, partial, lastCommand, mode, saved, createdStash,
                     isUnresumable, buffer, freeStash, written, newPos, isRetry, verified, outcome>>
      /\ faults' = faults \/ Fault
      /\ unhandled' = unhandled \/ unhandled' = unhandled \cup {"unread"}
  BY Zenon DEF VerifyStash, Executing, command
<1>1a. RunOK' /\ (Clean' <=> Clean)
  <2>1. unhandled \subseteq Unhandled /\ faults \in 0 .. MaxFaults
    BY Zenon DEF RunOK, Known
  <2>2. unhandled' \subseteq Unhandled /\ (Clean' <=> Clean)
    BY Zenon, <1>1, <2>1 DEF Unhandled, Clean
  <2>3. faults' \in 0 .. MaxFaults
    BY <1>1, <2>1, ConstantsOK DEF Fault
  <2>4. cmdindex' \in 0 .. Len(list.cmds) /\ pc' \in Steps
    BY <1>1 DEF NextCommand, Finished, Steps, Known
  <2> QED
    BY Zenon, <1>1, <2>2, <2>3, <2>4 DEF RunOK, Known
<1>1b. IndexOK' /\ ResumePointSafe'
  BY Zenon, <1>1, <1>1a DEF IndexOK, ResumePointSafe, Clean, cmds, Known
<1>2. Cmd.id \in StashIds /\ SrcRange(Cmd) \in Seq(Block)
  BY Zenon, <1>1, CurrentCommand DEF VerifyStash, Known
<1>3. stash' = stash \/ stash' = [stash EXCEPT ![Cmd.id] = "absent"]
  BY Zenon DEF VerifyStash, DeleteTorn
<1>4. PersistentOK' /\ StashIntact'
  BY Zenon, <1>1, <1>3 DEF PersistentOK, StashIntact, Known
<1>5. CommandStateOK'
  <2>1. CASE stashMap' = stashMap
    BY <1>1, <2>1, Frames, Zenon DEF Known
  <2>2. CASE stashMap' = [id \in DOMAIN stashMap \cup {Cmd.id} |->
                            IF id = Cmd.id THEN SrcRange(Cmd) ELSE stashMap[id]]
    BY Zenon, <1>1, <1>2, <2>2 DEF CommandStateOK, Known
  <2> QED
    BY Zenon, <2>1, <2>2 DEF VerifyStash
<1>6. VerifyInv'
  <2>1. Cmd.op \notin {"move", "diff"}
    BY Zenon DEF VerifyStash
  <2>2. \A k \in DOMAIN cmds : Done(k)' <=> Done(k)
    BY Zenon, <1>1, <1>1a DEF Done, cmds
  <2> QED
    BY <1>1, <1>1a, <2>1, <2>2 DEF VerifyInv, NextCommand, Cmd, cmds, Known
<1> QED
  BY <1>1, <1>1a, <1>1b, <1>4, <1>5, <1>6, Frames, Zenon DEF IInv, TypeOK, Known

\* Verification passes a free command.
LEMMA VerifyFreeInv ==
    ASSUME Known, VerifyFree
    PROVE  IInv'
<1>1. /\ mode = "verify" /\ ~Finished /\ NextCommand
      /\ UNCHANGED <<list, disk, durable, stashDir, partial, lastCommand, mode, saved, createdStash,
                     isUnresumable, buffer, freeStash, written, newPos, isRetry, verified, outcome,
                     unhandled, faults>>
  BY Zenon DEF VerifyFree, Executing, command, session
<1>2. Cmd.id \in StashIds
  BY Zenon, <1>1, CurrentCommand DEF VerifyFree, Known
<1>3. PersistentOK' /\ StashIntact'
  BY Zenon, <1>2 DEF VerifyFree, PersistentOK, StashIntact, Known
<1>4. CommandStateOK'
  BY Zenon, <1>1 DEF VerifyFree, CommandStateOK, Known
<1>5. VerifyInv'
  <2>1. Cmd.op \notin {"move", "diff"}
    BY Zenon DEF VerifyFree
  <2>2. (Clean' <=> Clean) /\ \A k \in DOMAIN cmds : Done(k)' <=> Done(k)
    BY Zenon, <1>1 DEF Done, Clean, persistent, cmds
  <2> QED
    BY <1>1, <2>1, <2>2 DEF VerifyInv, NextCommand, Cmd, cmds, Known
<1> QED
  BY <1>1, <1>3, <1>4, <1>5, Frames, Zenon DEF IInv, TypeOK, Known

\* Verification skips a command.
LEMMA VerifySkipInv ==
    ASSUME Known, VerifySkip
    PROVE  IInv'
<1>1. /\ mode = "verify" /\ ~Finished /\ NextCommand /\ UNCHANGED <<stash, stashMap>>
      /\ UNCHANGED <<list, disk, durable, stashDir, partial, lastCommand, mode, saved, createdStash,
                     isUnresumable, buffer, freeStash, written, newPos, isRetry, verified, outcome,
                     unhandled, faults>>
  BY Zenon DEF VerifySkip, Executing, persistent, command, session
<1>2. VerifyInv'
  <2>1. Cmd.op \notin {"move", "diff"}
    BY Zenon DEF VerifySkip
  <2>2. (Clean' <=> Clean) /\ \A k \in DOMAIN cmds : Done(k)' <=> Done(k)
    BY Zenon, <1>1 DEF Done, Clean, persistent, session, cmds
  <2> QED
    BY <1>1, <2>1, <2>2 DEF VerifyInv, NextCommand, Cmd, cmds, Known
<1> QED
  BY <1>1, <1>2, Frames, Zenon DEF IInv, TypeOK, Known

\* Verification succeeds: every command the update will skip is done.
LEMMA VerifyDoneInv ==
    ASSUME Known, VerifyDone
    PROVE  IInv'
<1>1. /\ mode' = "idle" /\ verified' = TRUE /\ stash' \in {stash, NoStashFiles}
      /\ stashDir' \in {stashDir, FALSE} /\ partial' \in {partial, {}} /\ isUnresumable' = FALSE
      /\ durable' \in {durable, disk}
      /\ faults' = faults \/ Fault
      /\ UNCHANGED <<list, disk, lastCommand, unhandled, pc, cmdindex, saved, createdStash, stashMap, buffer,
                     freeStash, written, newPos, isRetry, outcome>>
  BY Zenon DEF VerifyDone, EndVerify, FinalFsync, command, Known
<1>2. PersistentOK' /\ RunOK'
  <2>1. PersistentOK'
    BY <1>1, Frames, Zenon DEF Known
  <2>2. faults' \in 0 .. MaxFaults
    <3>1. faults \in 0 .. MaxFaults
      BY Zenon DEF RunOK, Known
    <3> QED
      BY <1>1, <3>1, ConstantsOK DEF Fault
  <2>3. RunOK'
    BY Zenon, <1>1, <2>2 DEF RunOK, Known
  <2> QED
    BY Zenon, <2>1, <2>3
<1>3. FlagsOK'
  BY <1>1, Zenon DEF FlagsOK, Known
<1>4. VerifiedInv'
  <2>1. ASSUME NEW k \in DOMAIN cmds, k <= lastCommand + 1 PROVE Done(k)
    <3> SUFFICES ASSUME Clean PROVE Done(k)
      BY Zenon DEF Done
    <3>1. CASE k <= lastCommand
      BY Zenon, <3>1 DEF ResumePointSafe, Done, Clean, cmds, Known
    <3>2. CASE cmds[k].op \in {"move", "diff"}
      BY <2>1, <3>2 DEF VerifyDone, Finished, VerifyInv, cmds, Known
    <3>3. CASE cmds[k].op = "stash"
      BY Zenon, <3>3 DEF Done, Clean, Produced, Writers
    <3>4. k = lastCommand + 1 => cmds[k].op \in {"move", "diff", "stash"}
      <4>1. k = lastCommand + 1 => lastCommand >= 0
        BY IndexFacts
      <4> QED
        BY Zenon, <4>1 DEF IndexOK, Stashes, Known
    <3> QED
      BY <2>1, <3>1, <3>2, <3>3, <3>4 DEF cmds, Known
  <2> QED
    BY Zenon, <1>1, <2>1 DEF VerifiedInv, Done, Clean, cmds
<1> QED
  BY <1>1, <1>2, <1>3, <1>4, Frames, Zenon DEF IInv, TypeOK, Known

\* The current command fails; the stash and last_command are kept.
LEMMA IOErrorInv ==
    ASSUME Known, IOError
    PROVE  IInv'
<1>1. /\ mode' = "idle" /\ ~verified' /\ stash' \in {stash, NoStashFiles}
      /\ stashDir' \in {stashDir, FALSE} /\ partial' \in {partial, {}} /\ isUnresumable' = FALSE
      /\ durable' \in {durable, disk} /\ faults < MaxFaults /\ faults' = faults + 1
      /\ outcome' \in {outcome, "failed"} /\ verified' \in {verified, FALSE}
      /\ UNCHANGED <<list, disk, lastCommand, unhandled, pc, cmdindex, saved, createdStash, stashMap, buffer,
                     freeStash, written, newPos, isRetry>>
  <2>1. CASE mode = "verify"
    BY <2>1, Zenon DEF IOError, EndVerify, Fault, command, Known
  <2>2. CASE mode = "update"
    <3>1. ~verified
      BY <2>2, Frames, Zenon DEF Known
    <3> QED
      BY <2>2, <3>1 DEF IOError, EndUpdate, Fault, command
  <2> QED
    BY <2>1, <2>2, Zenon DEF IOError, Known
<1>2. PersistentOK'
  BY <1>1, Frames, Zenon DEF Known
<1>3. RunOK'
  BY <1>1, ConstantsOK DEF RunOK, Known
<1>4. FlagsOK'
  BY <1>1, Zenon DEF FlagsOK, Known
<1> QED
  BY <1>1, <1>2, <1>3, <1>4, Frames, Zenon DEF IInv, TypeOK, Known

\* The device restarts.
LEMMA CrashInv ==
    ASSUME Known, Crash
    PROVE  IInv'
<1>1. /\ mode' = "idle" /\ verified' = FALSE /\ isUnresumable' = FALSE /\ durable' = disk
      /\ faults < MaxFaults /\ faults' = faults + 1
      /\ UNCHANGED <<list, disk, stashDir, stash, partial, lastCommand, pc, cmdindex, saved,
                     createdStash, stashMap, buffer, freeStash, written, newPos, isRetry, outcome,
                     unhandled>>
  BY Zenon DEF Crash, Fault, command, Known
<1>2. PersistentOK'
  BY Zenon, <1>1 DEF PersistentOK, Known
<1>3. RunOK'
  BY <1>1, ConstantsOK DEF RunOK, Known
<1>4. FlagsOK'
  BY <1>1, Zenon DEF FlagsOK, Known
<1> QED
  BY <1>1, <1>2, <1>3, <1>4, Frames, Zenon DEF IInv, TypeOK, Known

-----------------------------------------------------------------------------
\* The update skips a command.
LEMMA SkipExecutedInv ==
    ASSUME Known, SkipExecuted
    PROVE  IInv'
<1>1. /\ mode = "update" /\ ~Finished /\ NextCommand /\ cmdindex <= saved
      /\ UNCHANGED <<list, disk, durable, stashDir, stash, partial, lastCommand, mode, saved,
                     createdStash, stashMap, isUnresumable, newPos, isRetry, verified, outcome,
                     unhandled, faults, buffer, freeStash, written>>
  BY Zenon DEF SkipExecuted, Executing, Volatile, persistent, command, session
<1>2. UpdateInv'
  <2>1. \A k \in DOMAIN cmds : Done(k)' <=> Done(k)
    BY Zenon, <1>1 DEF Done, Clean, cmds
  <2>2. cmdindex' = cmdindex + 1 /\ pc' = "cmd" /\ cmdindex <= saved
    BY Zenon, <1>1 DEF NextCommand
  <2>3. \A k \in DOMAIN cmds : k <= saved + 1 \/ k <= cmdindex' => Done(k)'
    <3>1. \A k \in DOMAIN cmds : k <= saved + 1 => Done(k)
      BY Zenon, <1>1 DEF UpdateInv, Known
    <3>2. \A k \in DOMAIN cmds : k <= cmdindex' => k <= saved + 1
      BY <2>2, IndexFacts
    <3> QED
      BY Zenon, <2>1, <3>1, <3>2
  <2>4. Clean' => lastCommand <= saved \/ lastCommand <= cmdindex'
    BY <1>1 DEF UpdateInv, Clean, Known
  <2> QED
    BY <1>1, <2>2, <2>3, <2>4, Zenon DEF UpdateInv, cmds, Known
<1>3. StepInv'
  BY Zenon, <1>1 DEF StepInv, NextCommand
<1>4. NewDataInv'
  <2>1. Cmd.op # "new"
    <3>1. cmdindex + 1 <= saved + 1 /\ saved + 1 \in DOMAIN cmds /\ Stashes(cmds[saved + 1])
      BY <1>1 DEF UpdateInv, Known
    <3>2. cmdindex + 1 \in DOMAIN cmds
      BY Zenon, <1>1, CurrentCommand DEF cmds, Known
    <3>3. CASE cmdindex = saved
      BY Zenon, <3>1, <3>3 DEF Stashes, Cmd, cmds
    <3>4. CASE cmdindex < saved
      BY <3>1, <3>2, <3>4 DEF NewDataLast, Cmd, cmds, Known
    <3> QED
      BY <1>1, <3>3, <3>4 DEF Known
  <2> QED
    BY Zenon, <1>1, <2>1, NewDataNext DEF NextCommand, Known
<1> QED
  BY <1>1, <1>2, <1>3, <1>4, Frames, Zenon DEF IInv, TypeOK, Known

\* The target of a move or diff is there already.
LEMMA MoveDiffAlreadyDoneInv ==
    ASSUME Known, MoveDiffAlreadyDone
    PROVE  IInv'
<1>1. /\ mode = "update" /\ ~Finished /\ cmdindex > saved /\ Cmd.op \in {"move", "diff"}
      /\ pc' = "sync" /\ cmdindex' = cmdindex
      /\ UNCHANGED <<list, disk, durable, stashDir, stash, partial, lastCommand, mode, saved,
                     createdStash, stashMap, isUnresumable, newPos, isRetry, verified, outcome,
                     unhandled, faults, buffer, freeStash, written>>
  BY Zenon DEF MoveDiffAlreadyDone, Performing, Executing, Goto, Volatile, persistent, command,
     session
<1>2. StepInv'
  <2>1. Done(cmdindex + 1)
    BY Zenon, TargetIsDone DEF MoveDiffAlreadyDone, Done, Clean, Cmd, cmds
  <2>3. cmdindex < Len(cmds)
    <3>1. cmdindex \in 0 .. Len(list.cmds) /\ Len(list.cmds) \in Nat
      BY Zenon DEF Known
    <3> QED
      BY <1>1, <3>1 DEF Finished, cmds
  <2>4. Cmd' = Cmd /\ cmds' = cmds /\ Done(cmdindex + 1)'
    BY Zenon, <1>1, <2>1 DEF Done, Clean, Cmd, cmds
  <2> QED
    BY Zenon, <1>1, <2>3, <2>4 DEF StepInv
<1>3. NewDataInv' /\ pc' \in Steps
  BY Zenon, <1>1, NewDataSame DEF Steps, Known
<1> QED
  BY <1>1, <1>2, <1>3, Frames, Zenon DEF IInv, TypeOK, Known

\* The source of a move or diff is read from the partition.
LEMMA LoadSourceInv ==
    ASSUME Known, LoadSource
    PROVE  IInv'
<1>1. /\ mode = "update" /\ ~Finished /\ cmdindex > saved /\ Cmd.op \in {"move", "diff"}
      /\ pc' \in {"partial", "index", "discard"} /\ cmdindex' = cmdindex
      /\ buffer' = SrcHash(Cmd) /\ written' = 0 /\ freeStash' = NoStash
      /\ pc' # "discard" => Overlap(Cmd)
      /\ UNCHANGED <<list, disk, durable, stashDir, stash, partial, lastCommand, mode, saved,
                     createdStash, stashMap, isUnresumable, newPos, isRetry, verified, outcome,
                     unhandled, faults>>
  BY Zenon DEF LoadSource, Performing, Executing, Goto, SourceVerified, Volatile, persistent,
     session
<1>2. CommandStateOK'
  <2>1. 0 \in Nat
    OBVIOUS
  <2>2. SrcHash(Cmd) \in Seq(Content)
    BY Zenon, <1>1, CurrentCommand DEF Known
  <2> QED
    BY Zenon, <1>1, <2>1, <2>2 DEF CommandStateOK, Known
<1>3. StepInv'
  <2>1. StashId(Cmd) = SrcHash(Cmd) /\ (Overlap(Cmd) => Stashes(Cmd))
    BY Zenon, <1>1 DEF StashId, Stashes
  <2> QED
    BY Zenon, <1>1, <2>1, IndexFacts DEF StepInv, Cmd, cmds
<1>4. NewDataInv' /\ pc' \in Steps
  BY Zenon, <1>1, NewDataSame DEF Steps, Known
<1> QED
  BY <1>1, <1>2, <1>3, <1>4, Frames, Zenon DEF IInv, TypeOK, Known

\* The source is read from the stash an earlier run left.
LEMMA LoadImplicitStashInv ==
    ASSUME Known, LoadImplicitStash
    PROVE  IInv'
<1>1. /\ mode = "update" /\ ~Finished /\ cmdindex > saved /\ Cmd.op \in {"move", "diff"}
      /\ pc' = "discard" /\ cmdindex' = cmdindex
      /\ buffer' = SrcHash(Cmd) /\ written' = 0 /\ freeStash' = NoStash
      /\ UNCHANGED <<list, disk, durable, stashDir, stash, partial, lastCommand, mode, saved,
                     createdStash, stashMap, isUnresumable, newPos, isRetry, verified, outcome,
                     unhandled>>
      /\ faults' = faults \/ Fault
  BY Zenon DEF LoadImplicitStash, Performing, Executing, Goto, persistent, session
<1>2. CommandStateOK'
  <2>1. 0 \in Nat
    BY Zenon
  <2>2. SrcHash(Cmd) \in Seq(Content)
    BY Zenon, <1>1, CurrentCommand DEF Known
  <2> QED
    BY Zenon, <1>1, <2>1, <2>2 DEF CommandStateOK, Known
<1>3. StepInv'
  BY Zenon, <1>1, IndexFacts DEF StepInv, Cmd, cmds
<1>4. NewDataInv' /\ pc' \in Steps
  BY Zenon, <1>1, NewDataSame DEF Steps, Known
<1>5. RunOK'
  BY Zenon, <1>1, <1>4, FaultCounted DEF RunOK, Known
<1> QED
  BY <1>1, <1>2, <1>3, <1>4, <1>5, Frames, Zenon DEF IInv, TypeOK, Known

\* The update finds no valid source: it starts over.
LEMMA MoveDiffFailsInv ==
    ASSUME Known, MoveDiffFails
    PROVE  IInv'
<1>1. mode = "update" /\ EndUpdate(FALSE, TRUE) /\ FinalFsync(TRUE)
  BY Zenon DEF MoveDiffFails, Performing, Executing
<1> QED
  BY Zenon, <1>1, LastFsync, UnresumableUpdateInv

\* A stash command reads its blocks.
LEMMA PerformCommandStashInv ==
    ASSUME Known, PerformCommandStash
    PROVE  IInv'
<1>1. /\ mode = "update" /\ ~Finished /\ cmdindex > saved /\ Cmd.op = "stash"
      /\ cmdindex' = cmdindex
      /\ \/ pc' = "sync" /\ buffer' = buffer
         \/ pc' = "partial" /\ buffer' = Cmd.id /\ buffer' = LoadSourceBlocks(Cmd)
      /\ stash' = stash \/ stash' = [stash EXCEPT ![Cmd.id] = "absent"]
      /\ UNCHANGED <<list, disk, durable, stashDir, partial, lastCommand, mode, saved, createdStash,
                     stashMap, isUnresumable, freeStash, written, newPos, isRetry, verified,
                     outcome, unhandled>>
      /\ faults' = faults \/ Fault
  BY Zenon DEF PerformCommandStash, Performing, Executing, Goto, DeleteTorn, session
<1>2. PersistentOK' /\ StashIntact'
  BY Zenon, <1>1 DEF PersistentOK, StashIntact, Known
<1>3. CommandStateOK'
  <2>1. Cmd \in Command
    BY Zenon, <1>1, CurrentCommand DEF Known
  <2>2. Cmd.id \in Seq(Content)
    BY Zenon, <2>1 DEF Command
  <2> QED
    BY Zenon, <1>1, <2>2 DEF CommandStateOK, Known
<1>4. StepInv'
  <2>1. Done(cmdindex + 1)
    BY Zenon, <1>1 DEF Done, Clean, Produced, Writers, Cmd, cmds
  <2>2. StashId(Cmd) = Cmd.id /\ Stashes(Cmd)
    BY Zenon, <1>1 DEF StashId, Stashes
  <2>3. cmdindex < Len(cmds)
    <3>1. cmdindex \in 0 .. Len(list.cmds) /\ Len(list.cmds) \in Nat
      BY Zenon DEF Known
    <3> QED
      BY <1>1, <3>1 DEF Finished, cmds
  <2>4. Cmd' = Cmd /\ cmds' = cmds /\ Done(cmdindex + 1)'
    BY Zenon, <1>1, <2>1 DEF Done, Clean, Cmd, cmds
  <2> QED
    BY Zenon, <1>1, <2>1, <2>2, <2>3, <2>4 DEF StepInv, Known
<1>5. NewDataInv' /\ pc' \in Steps
  BY Zenon, <1>1, NewDataSame DEF Steps, Known
<1>6. RunOK'
  BY Zenon, <1>1, <1>5, FaultCounted DEF RunOK, Known
<1> QED
  BY <1>1, <1>2, <1>3, <1>4, <1>5, <1>6, Frames, Zenon DEF IInv, TypeOK, Known

\* A free command deletes its stash.
LEMMA PerformCommandFreeInv ==
    ASSUME Known, PerformCommandFree
    PROVE  IInv'
<1>1. /\ mode = "update" /\ ~Finished /\ cmdindex > saved /\ Cmd.op = "free"
      /\ cmdindex' = cmdindex /\ pc' = "sync" /\ stash' = [stash EXCEPT ![Cmd.id] = "absent"]
      /\ UNCHANGED <<list, disk, durable, stashDir, partial, lastCommand, mode, saved, createdStash,
                     stashMap, isUnresumable, buffer, freeStash, written, newPos, isRetry, verified,
                     outcome, unhandled, faults>>
  BY Zenon DEF PerformCommandFree, Performing, Executing, Goto, command, session
<1>2. PersistentOK' /\ StashIntact'
  BY Zenon, <1>1, CurrentCommand DEF PersistentOK, StashIntact, Known
<1>3. StepInv'
  <2>1. Done(cmdindex + 1)
    BY Zenon, <1>1 DEF Done, Clean, Produced, Writers, Cmd, cmds
  <2>3. cmdindex < Len(cmds)
    <3>1. cmdindex \in 0 .. Len(list.cmds) /\ Len(list.cmds) \in Nat
      BY Zenon DEF Known
    <3> QED
      BY <1>1, <3>1 DEF Finished, cmds
  <2>4. Cmd' = Cmd /\ cmds' = cmds /\ Done(cmdindex + 1)'
    BY Zenon, <1>1, <2>1 DEF Done, Clean, Cmd, cmds
  <2> QED
    BY Zenon, <1>1, <2>3, <2>4 DEF StepInv
<1>4. NewDataInv' /\ pc' \in Steps
  BY Zenon, <1>1, NewDataSame DEF Steps, Known
<1> QED
  BY <1>1, <1>2, <1>3, <1>4, Frames, Zenon DEF IInv, TypeOK, Known

\* A zero or new command starts.
LEMMA PerformCommandZeroNewInv ==
    ASSUME Known, PerformCommandZeroNew
    PROVE  IInv'
<1>1. /\ mode = "update" /\ pc = "cmd" /\ ~Finished /\ cmdindex > saved /\ Cmd.op \in {"zero", "new"}
      /\ cmdindex' = cmdindex /\ pc' = "discard" /\ written' = 0
      /\ UNCHANGED <<list, disk, durable, stashDir, stash, partial, lastCommand, mode, saved,
                     createdStash, stashMap, isUnresumable, newPos, isRetry, verified, outcome,
                     unhandled, faults, buffer, freeStash>>
  BY Zenon DEF PerformCommandZeroNew, Performing, Executing, Goto, Volatile, persistent, session
<1>2. CommandStateOK'
  BY Zenon, <1>1 DEF CommandStateOK, Known
<1>3. StepInv'
  BY Zenon, <1>1, IndexFacts DEF StepInv, Cmd, cmds
<1>4. NewDataInv' /\ pc' \in Steps
  BY Zenon, <1>1, NewDataSame DEF Steps, NewWritten, Known
<1> QED
  BY <1>1, <1>2, <1>3, <1>4, Frames, Zenon DEF IInv, TypeOK, Known

\* The .partial file of a stash is written.
LEMMA WriteStashPartialInv ==
    ASSUME Known, WriteStashPartial
    PROVE  IInv'
<1>1. /\ mode = "update" /\ pc = "partial" /\ ~Finished /\ cmdindex' = cmdindex /\ pc' = "rename"
      /\ partial' = partial \cup {StashId(Cmd)}
      /\ UNCHANGED <<list, disk, durable, stashDir, stash, lastCommand, mode, saved, createdStash,
                     stashMap, isUnresumable, buffer, freeStash, written, newPos, isRetry, verified,
                     outcome, unhandled, faults>>
  BY Zenon DEF WriteStashPartial, Executing, Goto, command, session
<1>2. Stashes(Cmd) /\ Cmd.op # "new"
  BY Zenon, <1>1 DEF StepInv, Stashes, Known
<1>3. PersistentOK'
  BY Zenon, <1>1, <1>2, CurrentCommand DEF PersistentOK, Known
<1>4. StepInv'
  BY Zenon, <1>1 DEF StepInv, Cmd, cmds, Known
<1>5. NewDataInv' /\ pc' \in Steps
  BY Zenon, <1>1, <1>2, NewDataSame DEF Steps, Known
<1> QED
  BY <1>1, <1>3, <1>4, <1>5, Frames, Zenon DEF IInv, TypeOK, Known

\* It gets its final name.
LEMMA WriteStashRenameInv ==
    ASSUME Known, WriteStashRename
    PROVE  IInv'
<1>1. /\ mode = "update" /\ pc = "rename" /\ ~Finished /\ cmdindex' = cmdindex /\ pc' = "index"
      /\ partial' = partial \ {StashId(Cmd)}
      /\ stash' = [stash EXCEPT ![StashId(Cmd)] = IF buffer = StashId(Cmd) THEN "good" ELSE "torn"]
      /\ freeStash' \in {NoStash, StashId(Cmd)}
      /\ UNCHANGED <<list, disk, durable, stashDir, lastCommand, mode, saved, createdStash,
                     stashMap, isUnresumable, buffer, written, newPos, isRetry, verified, outcome,
                     unhandled, faults>>
  BY Zenon DEF WriteStashRename, Executing, Goto, session
<1>2. Stashes(Cmd) /\ Cmd.op # "new" /\ buffer = StashId(Cmd)
  BY Zenon, <1>1 DEF StepInv, Stashes, Known
<1>3. StashId(Cmd) \in StashIds
  BY Zenon, <1>1, <1>2, CurrentCommand DEF Known
<1>4. PersistentOK' /\ StashIntact'
  BY Zenon, <1>1, <1>2, <1>3 DEF PersistentOK, StashIntact, Known
<1>5. CommandStateOK'
  BY Zenon, <1>1, <1>3 DEF CommandStateOK, Known
<1>6. StepInv'
  BY Zenon, <1>1 DEF StepInv, Cmd, cmds, Known
<1>7. NewDataInv' /\ pc' \in Steps
  BY Zenon, <1>1, <1>2, NewDataSame DEF Steps, Known
<1> QED
  BY <1>1, <1>4, <1>5, <1>6, <1>7, Frames, Zenon DEF IInv, TypeOK, Known

\* last_command is moved to the current command.
LEMMA UpdateLastCommandIndexInv ==
    ASSUME Known, UpdateLastCommandIndex
    PROVE  IInv'
<1>1. /\ mode = "update" /\ pc = "index" /\ ~Finished /\ cmdindex' = cmdindex
      /\ pc' = IF Cmd.op = "stash" THEN "sync" ELSE "discard"
      /\ lastCommand' = cmdindex \/ lastCommand' = lastCommand
      /\ faults' = faults \/ Fault
      /\ UNCHANGED <<list, disk, durable, stashDir, stash, partial, mode, saved, createdStash,
                     stashMap, isUnresumable, buffer, freeStash, written, newPos, isRetry, verified,
                     outcome, unhandled>>
  BY Zenon DEF UpdateLastCommandIndex, Executing, Goto, command, session
<1>2. /\ Stashes(Cmd) /\ Cmd.op \in {"stash", "move", "diff"}
      /\ cmdindex < Len(list.cmds) /\ cmdindex > saved
  BY Zenon, <1>1 DEF StepInv, Stashes, cmds, Known
<1>3. PersistentOK' /\ RunOK'
  <2>1. lastCommand' \in Int
    BY <1>1, IndexFacts
  <2>2. faults' \in 0 .. MaxFaults
    BY Zenon, <1>1, FaultCounted
  <2> QED
    BY Zenon, <1>1, <2>1, <2>2 DEF PersistentOK, RunOK, Steps, Known
<1>4. IndexOK'
  BY <1>1, <1>2 DEF IndexOK, Cmd, cmds, Known
<1>5. ResumePointSafe' /\ UpdateInv'
  <2>1. \A k \in DOMAIN cmds : k <= cmdindex \/ k <= saved + 1 => Done(k)
    BY Zenon, <1>1 DEF UpdateInv, Known
  <2>2. \A k \in DOMAIN cmds : Done(k)' <=> Done(k)
    BY Zenon, <1>1 DEF Done, Clean, cmds
  <2>3. ResumePointSafe'
    BY Zenon, <1>1, <2>1 DEF ResumePointSafe, Done, Clean, cmds, Known
  <2>4. UpdateInv'
    BY Zenon, <1>1, <2>2, IndexFacts DEF UpdateInv, Clean, cmds, Known
  <2> QED
    BY Zenon, <2>3, <2>4
<1>6. StepInv'
  <2>1. Cmd.op = "stash" => Done(cmdindex + 1)
    BY Zenon DEF Done, Clean, Produced, Writers, Cmd, cmds
  <2> QED
    BY Zenon, <1>1, <1>2, <2>1 DEF StepInv, Done, Clean, Cmd, cmds, Known
<1>7. NewDataInv'
  BY Zenon, <1>1, <1>2, NewDataSame DEF Known
<1> QED
  BY <1>1, <1>3, <1>4, <1>5, <1>6, <1>7, Frames, Zenon DEF IInv, TypeOK, Known

-----------------------------------------------------------------------------
(***************************************************************************)
(* The steps of block_image_update that write the partition or end the     *)
(* update preserve IInv too; hence IInv is an invariant, and with it the   *)
(* properties of BlockImg hold.                                            *)
(***************************************************************************)

\* An erase command discards its blocks.
LEMMA PerformCommandEraseInv ==
    ASSUME Known, PerformCommandErase
    PROVE  IInv'
<1>1. /\ mode = "update" /\ ~Finished /\ cmdindex > saved /\ Cmd.op = "erase"
      /\ cmdindex' = cmdindex /\ pc' = "sync" /\ pc' # "cleanup"
      /\ disk' \in [Block -> Content]
      /\ \A b \in Block \ Elements(Cmd.tgt) : disk'[b] = disk[b]
      /\ UNCHANGED <<list, durable, stashDir, stash, partial, lastCommand, mode, saved,
                     createdStash, stashMap, isUnresumable, buffer, freeStash, written, newPos,
                     isRetry, verified, outcome, unhandled, faults>>
  BY Zenon, ConstantsOK DEF PerformCommandErase, Performing, Executing, Goto, Discarded,
     PersistentOK, command, session, Known
<1>2. IndexOK' /\ ResumePointSafe' /\ UpdateInv'
  BY <1>1, TargetStep, Zenon DEF Known
<1>3. PersistentOK' /\ pc' \in Steps
  BY Zenon, <1>1 DEF PersistentOK, Steps, Known
<1>4. StepInv'
  <2>1. Done(cmdindex + 1)'
    BY Zenon, <1>1 DEF Done, Clean, Produced, Cmd, cmds
  <2> QED
    BY Zenon, <1>1, <2>1, IndexFacts DEF StepInv, cmds
<1>5. NewDataInv'
  BY Zenon, <1>1, NewDataSame DEF Known
<1> QED
  BY <1>1, <1>2, <1>3, <1>4, <1>5, Frames, Zenon DEF IInv, TypeOK, Known

\* The target blocks are discarded.
LEMMA DiscardBlocksInv ==
    ASSUME Known, DiscardBlocks
    PROVE  IInv'
<1>1. /\ mode = "update" /\ pc = "discard" /\ ~Finished /\ cmdindex > saved
      /\ cmdindex' = cmdindex /\ pc' = "write" /\ pc' # "cleanup"
      /\ disk' \in [Block -> Content]
      /\ \A b \in Block \ Elements(Cmd.tgt) : disk'[b] = disk[b]
      /\ UNCHANGED <<list, durable, stashDir, stash, partial, lastCommand, mode, saved,
                     createdStash, stashMap, isUnresumable, buffer, freeStash, written, newPos,
                     isRetry, verified, outcome, unhandled, faults>>
  <2>1. disk' = disk \/ disk' \in Discarded(Cmd.tgt)
    BY Zenon DEF DiscardBlocks
  <2>2. disk' \in [Block -> Content] /\ \A b \in Block \ Elements(Cmd.tgt) : disk'[b] = disk[b]
    <3>1. disk \in [Block -> Content]
      BY Zenon DEF PersistentOK, Known
    <3>2. CASE disk' = disk
      BY Zenon, <3>1, <3>2
    <3>3. CASE disk' \in Discarded(Cmd.tgt)
      BY Zenon, <3>1, <3>3, ConstantsOK DEF Discarded
    <3> QED
      BY Zenon, <2>1, <3>2, <3>3
  <2> QED
    BY Zenon, <2>2 DEF DiscardBlocks, Executing, Goto, StepInv, command, session, Known
<1>2. IndexOK' /\ ResumePointSafe' /\ UpdateInv'
  BY <1>1, TargetStep, Zenon DEF Known
<1>3. PersistentOK' /\ pc' \in Steps
  BY Zenon, <1>1 DEF PersistentOK, Steps, Known
<1>4. StepInv'
  <2>1. Cmd.tgt \in Seq(Block)
    BY Zenon, <1>1, CurrentCommand DEF Command, Known
  <2>2. /\ written = 0 /\ Cmd.op \in {"move", "diff", "zero", "new"} /\ cmdindex < Len(cmds)
        /\ Cmd.op \in {"move", "diff"} => buffer = SrcHash(Cmd)
    BY Zenon, <1>1 DEF StepInv, Known
  <2>3. 0 <= Len(Cmd.tgt) /\ \A i \in 1 .. 0 : FALSE
    BY <2>1
  <2>4. Cmd' = Cmd /\ cmds' = cmds
    BY Zenon, <1>1 DEF Cmd, cmds
  <2> QED
    BY Zenon, <1>1, <2>2, <2>3, <2>4 DEF StepInv
<1>5. NewDataInv'
  BY Zenon, <1>1, NewDataSame DEF StepInv, NewWritten, Known
<1> QED
  BY <1>1, <1>2, <1>3, <1>4, <1>5, Frames, Zenon DEF IInv, TypeOK, Known

\* A target block is written.
LEMMA WriteBlockInv ==
    ASSUME Known, WriteBlock
    PROVE  IInv'
<1>1. /\ mode = "update" /\ pc = "write" /\ ~Finished /\ cmdindex > saved /\ written < Len(Cmd.tgt)
      /\ cmdindex' = cmdindex /\ pc' = "write" /\ pc' # "cleanup" /\ written' = written + 1
      /\ disk' \in [Block -> Content]
      /\ \A b \in Block \ Elements(Cmd.tgt) : disk'[b] = disk[b]
      /\ disk' = [disk EXCEPT ![Cmd.tgt[written + 1]] = Cmd.out[written + 1]]
      /\ written + 1 \in DOMAIN Cmd.tgt
      /\ UNCHANGED <<list, durable, stashDir, stash, partial, lastCommand, mode, saved,
                     createdStash, stashMap, isUnresumable, buffer, freeStash, isRetry, verified,
                     outcome, unhandled, faults>>
  <2>1. /\ OutputBlock(Cmd, written + 1) = Cmd.out[written + 1]
        /\ Cmd.out[written + 1] \in Content
        /\ Cmd.tgt[written + 1] \in Elements(Cmd.tgt)
        /\ written + 1 \in DOMAIN Cmd.tgt
    BY Zenon, OutputCorrect DEF WriteBlock, Elements, Known
  <2>2. disk' \in [Block -> Content] /\ \A b \in Block \ Elements(Cmd.tgt) : disk'[b] = disk[b]
    BY <2>1, Zenon DEF WriteBlock, PersistentOK, Known
  <2> QED
    BY <2>1, <2>2, Zenon DEF WriteBlock, Executing, Goto, StepInv, session, Known
<1>2. IndexOK' /\ ResumePointSafe' /\ UpdateInv'
  BY <1>1, TargetStep, Zenon DEF Known
<1>3. PersistentOK' /\ CommandStateOK' /\ pc' \in Steps
  <2>1. PersistentOK' /\ pc' \in Steps
    BY Zenon, <1>1 DEF PersistentOK, Steps, Known
  <2>2. newPos' \in Nat /\ written' \in Nat
    <3>1. newPos \in Nat /\ written \in Nat
      BY Zenon DEF Known
    <3>2. written' = written + 1 /\ (newPos' = newPos + 1 \/ newPos' = newPos)
      BY Zenon DEF WriteBlock
    <3> QED
      BY <3>1, <3>2
  <2>3. CommandStateOK'
    BY Zenon, <1>1, <2>2 DEF CommandStateOK, Known
  <2> QED
    BY Zenon, <2>1, <2>3
<1>4. StepInv'
  <2>1. Cmd.tgt \in Seq(Block) /\ \A i, j \in DOMAIN Cmd.tgt : i # j => Cmd.tgt[i] # Cmd.tgt[j]
    BY Zenon, <1>1, CurrentCommand DEF Command, CommandOK, Known
  <2>2. /\ Cmd.op \in {"move", "diff", "zero", "new"} /\ cmdindex < Len(cmds)
        /\ Cmd.op \in {"move", "diff"} => buffer = SrcHash(Cmd)
        /\ \A i \in 1 .. written : disk[Cmd.tgt[i]] = Cmd.out[i]
    BY Zenon, <1>1 DEF StepInv, Known
  <2>3. \A i \in 1 .. written + 1 : disk'[Cmd.tgt[i]] = Cmd.out[i]
    <3> SUFFICES ASSUME NEW i \in 1 .. written + 1
                 PROVE  disk'[Cmd.tgt[i]] = Cmd.out[i]
      BY Zenon
    <3>1. i \in DOMAIN Cmd.tgt /\ Cmd.tgt[i] \in Block /\ Cmd.tgt[written + 1] \in Block
      BY <1>1, <2>1
    <3>2. CASE i = written + 1
      BY <1>1, <3>2
    <3>3. CASE i # written + 1
      <4>1. written \in Nat
        BY Zenon DEF Known
      <4>2. i \in 1 .. written
        BY <3>3, <4>1
      <4>3. Cmd.tgt[i] # Cmd.tgt[written + 1] /\ disk[Cmd.tgt[i]] = Cmd.out[i]
        BY Zenon, <1>1, <2>1, <2>2, <3>1, <3>3, <4>2
      <4>4. disk \in [Block -> Content]
        BY Zenon DEF PersistentOK, Known
      <4> QED
        BY Zenon, <1>1, <3>1, <4>3, <4>4
    <3> QED
      BY Zenon, <3>2, <3>3
  <2>4. written + 1 <= Len(Cmd.tgt) /\ Cmd' = Cmd
    <3>1. written \in Nat /\ written < Len(Cmd.tgt) /\ Cmd' = Cmd
      BY Zenon, <1>1 DEF Cmd, Known
    <3>2. Len(Cmd.tgt) \in Nat
      BY <2>1
    <3> QED
      BY <3>1, <3>2
  <2> QED
    BY Zenon, <1>1, <2>2, <2>3, <2>4 DEF StepInv, cmds
<1>5. NewDataInv'
  <2> SUFFICES ASSUME NEW k \in DOMAIN cmds, FirstNew(k)'
               PROVE  newPos' = cmds[k].at + NewWritten(k)'
    BY Zenon, <1>1 DEF NewDataInv, cmds
  <2>1. FirstNew(k) /\ newPos = cmds[k].at + NewWritten(k)
    BY Zenon, <1>1 DEF FirstNew, NewDataInv, cmds, Known
  <2>2. cmds[k] \in Command
    BY DEF cmds, Known
  <2>3. cmds[k].at \in Nat
    BY Zenon, <2>2 DEF Command
  <2>4. CASE k = cmdindex + 1
    <3>1. NewWritten(k) = written /\ NewWritten(k)' = written + 1
      BY Zenon, <1>1, <2>4 DEF NewWritten
    <3>2. newPos' = newPos + 1
      BY Zenon, <2>1, <2>4 DEF WriteBlock, FirstNew, Cmd, cmds
    <3> QED
      <4>1. written \in Nat /\ newPos = cmds[k].at + written
        BY Zenon, <2>1, <3>1 DEF Known
      <4> QED
        BY <2>3, <3>1, <3>2, <4>1
  <2>5. CASE k # cmdindex + 1
    <3>1. Cmd.op # "new"
      <4>1. cmdindex + 1 \in DOMAIN cmds
        BY Zenon, <1>1, CurrentCommand DEF cmds, Known
      <4>2. cmdindex + 1 < k
        BY <2>1, <2>5 DEF FirstNew, cmds, Known
      <4> QED
        BY <2>1, <4>1, <4>2 DEF FirstNew, Cmd, cmds, Known
    <3> QED
      BY Zenon, <1>1, <2>1, <2>5, <3>1 DEF WriteBlock, NewWritten
  <2> QED
    BY Zenon, <2>4, <2>5
<1> QED
  BY <1>1, <1>2, <1>3, <1>4, <1>5, Frames, Zenon DEF IInv, TypeOK, Known

\* The command is complete and its implicit stash goes.
LEMMA FreeImplicitStashInv ==
    ASSUME Known, FreeImplicitStash
    PROVE  IInv'
<1>1. /\ mode = "update" /\ pc = "write" /\ ~Finished /\ written = Len(Cmd.tgt)
      /\ cmdindex' = cmdindex /\ pc' = "sync" /\ freeStash' = NoStash
      /\ stash' = stash \/ (freeStash # NoStash /\ stash' = [stash EXCEPT ![freeStash] = "absent"])
      /\ UNCHANGED <<list, disk, durable, stashDir, partial, lastCommand, mode, saved, createdStash,
                     stashMap, isUnresumable, buffer, written, newPos, isRetry, verified, outcome,
                     unhandled, faults>>
  BY Zenon DEF FreeImplicitStash, Executing, Goto, session
<1>2. PersistentOK' /\ StashIntact'
  BY Zenon, <1>1 DEF PersistentOK, StashIntact, Known
<1>3. CommandStateOK'
  BY Zenon, <1>1 DEF CommandStateOK, Known
<1>4. StepInv'
  <2>1. DOMAIN Cmd.tgt = 1 .. written
    <3>1. Cmd.tgt \in Seq(Block)
      BY Zenon, <1>1, CurrentCommand DEF Command, Known
    <3> QED
      BY <1>1
  <2>2. /\ cmdindex < Len(cmds) /\ cmdindex > saved
        /\ \A i \in 1 .. written : disk[Cmd.tgt[i]] = Cmd.out[i]
    BY Zenon, <1>1 DEF StepInv, Known
  <2>3. Done(cmdindex + 1)
    BY Zenon, <2>1, <2>2 DEF Done, Clean, Produced, Cmd, cmds
  <2> QED
    BY Zenon, <1>1, <2>2, <2>3 DEF StepInv, Done, Clean, cmds
<1>5. NewDataInv' /\ pc' \in Steps
  BY Zenon, <1>1, NewDataSame DEF Steps, NewWritten, Cmd, cmds, Known
<1> QED
  BY <1>1, <1>2, <1>3, <1>4, <1>5, Frames, Zenon DEF IInv, TypeOK, Known

\* The command is made durable.
LEMMA FsyncInv ==
    ASSUME Known, Fsync
    PROVE  IInv'
<1>1. /\ mode = "update" /\ pc = "sync" /\ ~Finished /\ NextCommand /\ durable' = disk
      /\ UNCHANGED <<list, disk, stashDir, stash, partial, lastCommand, mode, saved, createdStash,
                     stashMap, isUnresumable, buffer, freeStash, written, newPos, isRetry, verified,
                     outcome, unhandled, faults>>
  BY Zenon DEF Fsync, Executing, command, session
<1>2. PersistentOK'
  BY Zenon, <1>1 DEF PersistentOK, Known
<1>3. UpdateInv'
  <2>1. \A k \in DOMAIN cmds : k <= cmdindex + 1 \/ k <= saved + 1 => Done(k)
    BY <1>1 DEF UpdateInv, StepInv, Known
  <2>2. \A k \in DOMAIN cmds : Done(k)' <=> Done(k)
    BY Zenon, <1>1 DEF Done, Clean, cmds
  <2> QED
    <3>1. /\ ~verified /\ outcome = "none" /\ saved \in -1 .. Len(cmds) - 1
          /\ saved >= 0 => Stashes(cmds[saved + 1])
          /\ Clean => lastCommand <= saved \/ lastCommand <= cmdindex
      BY Zenon, <1>1 DEF UpdateInv, Known
    <3>2. Clean' => lastCommand <= saved \/ lastCommand <= cmdindex + 1
      BY <1>1, <3>1, IndexFacts DEF Clean
    <3> QED
      BY Zenon, <1>1, <2>1, <2>2, <3>1, <3>2 DEF UpdateInv, NextCommand, cmds
<1>4. StepInv' /\ NewDataInv'
  BY Zenon, <1>1, NewDataNext DEF StepInv, NextCommand, Known
<1> QED
  BY <1>1, <1>2, <1>3, <1>4, Frames, Zenon DEF IInv, TypeOK, Known

\* All commands are done and the stash goes.
LEMMA UpdateDoneInv ==
    ASSUME Known, UpdateDone
    PROVE  IInv'
<1>1. /\ mode = "update" /\ Finished /\ cmdindex' = cmdindex /\ pc' = "cleanup"
      /\ stash' = NoStashFiles /\ partial' = {} /\ stashDir' = FALSE
      /\ UNCHANGED <<list, disk, durable, lastCommand, mode, saved, createdStash, stashMap,
                     isUnresumable, buffer, freeStash, written, newPos, isRetry, verified, outcome,
                     unhandled, faults>>
  BY Zenon DEF UpdateDone, Goto, command, session
<1>2. PersistentOK' /\ pc' \in Steps
  <2>1. PersistentOK'
    BY <1>1, Frames, Zenon DEF Known
  <2> QED
    BY Zenon, <1>1, <2>1 DEF Steps
<1>3. UpdateInv' /\ StepInv'
  <2>1. \A k \in DOMAIN cmds : Done(k)' <=> Done(k)
    BY <1>1, Zenon DEF Done, Clean, cmds, Known
  <2> QED
    BY <1>1, <2>1, Zenon DEF UpdateInv, StepInv, Clean, Finished, cmds, Known
<1>4. NewDataInv'
  <2>1. \A k \in DOMAIN cmds : ~FirstNew(k)'
    BY <1>1 DEF FirstNew, Finished, cmds
  <2> QED
    BY Zenon, <1>1, <2>1 DEF NewDataInv, cmds
<1> QED
  BY <1>1, <1>2, <1>3, <1>4, Frames, Zenon DEF IInv, TypeOK, Known

\* last_command goes and the update returns.
LEMMA DeleteLastCommandFileInv ==
    ASSUME Known, DeleteLastCommandFile
    PROVE  IInv'
<1>1. /\ mode = "update" /\ pc = "cleanup" /\ mode' = "idle" /\ outcome' = "t"
      /\ stash' = NoStashFiles /\ stashDir' = FALSE /\ partial' = {} /\ isUnresumable' = FALSE
      /\ UNCHANGED <<list, disk, pc, cmdindex, saved, createdStash, stashMap, buffer, freeStash,
                     written, newPos, isRetry, verified>>
      /\ FinalFsync(TRUE)
  BY Zenon DEF DeleteLastCommandFile, EndUpdate, command
<1>2. /\ Dropped /\ (Clean' => Clean) /\ unhandled' \subseteq Unhandled
      /\ lastCommand' \in {lastCommand, -1} /\ durable' \in {durable, disk}
      /\ faults' \in 0 .. MaxFaults
  BY Zenon, <1>1, LastFsync
<1>3. PersistentOK' /\ RunOK'
  <2>1. PersistentOK'
    BY <1>1, <1>2, Frames, Zenon
  <2>2. RunOK'
    BY Zenon, <1>1, <1>2 DEF RunOK, Known
  <2> QED
    BY Zenon, <2>1, <2>2
<1>4. FlagsOK' /\ IndexOK' /\ ResumePointSafe'
  <2>1. FlagsOK'
    BY <1>1, Zenon DEF FlagsOK, Known
  <2> QED
    BY <1>1, <1>2, <2>1, Frames, Zenon
<1>5. OutcomeInv'
  <2>1. \A k \in DOMAIN cmds : Done(k)
    <3>1. Finished /\ \A k \in DOMAIN cmds : k <= cmdindex => Done(k)
      BY Zenon, <1>1 DEF UpdateInv, Known
    <3>2. DOMAIN cmds = 1 .. Len(cmds) /\ Len(cmds) \in Nat
      BY Zenon DEF cmds, Known
    <3> QED
      BY <3>1 DEF Finished, cmds
  <2> QED
    BY Zenon, <1>1, <1>2, <2>1 DEF OutcomeInv, Done, cmds
<1> QED
  BY <1>1, <1>2, <1>3, <1>4, <1>5, Frames, Zenon DEF IInv, TypeOK, Known

\* Every step preserves IInv.
LEMMA InvStep ==
    ASSUME SafeSetting, IInv, [Next]_vars
    PROVE  IInv'
<1>1. Known
  BY Zenon, KnownFacts
<1>2. CASE UNCHANGED vars
  BY Zenon, <1>1, <1>2, StutterInv
<1>3. CASE BlockImageVerifyFn \/ BlockImageUpdateFn
  BY Zenon, <1>1, <1>3, BlockImageVerifyFnInv, BlockImageUpdateFnInv
<1>4. CASE VerifyStep
  BY Zenon, <1>1, <1>4, VerifyMoveDiffInv, VerifyMoveDiffFailsInv, VerifyStashInv, VerifyFreeInv,
     VerifySkipInv, VerifyDoneInv DEF VerifyStep
<1>5. CASE UpdateStep
  BY Zenon, <1>1, <1>5, SkipExecutedInv, MoveDiffAlreadyDoneInv, LoadSourceInv,
     LoadImplicitStashInv, MoveDiffFailsInv, PerformCommandStashInv, PerformCommandFreeInv,
     PerformCommandZeroNewInv, PerformCommandEraseInv, WriteStashPartialInv, WriteStashRenameInv,
     UpdateLastCommandIndexInv, DiscardBlocksInv, WriteBlockInv, FreeImplicitStashInv, FsyncInv,
     UpdateDoneInv, DeleteLastCommandFileInv DEF UpdateStep
<1>6. CASE IOError \/ LoadStashFails \/ Crash
  BY Zenon, <1>1, <1>6, IOErrorInv, LoadStashFailsInv, CrashInv
<1> QED
  BY Zenon, <1>2, <1>3, <1>4, <1>5, <1>6 DEF Next

\* IInv is an invariant of every update that is verified first.
THEOREM Invariance == SafeSetting => (Spec => []IInv)
<1> SUFFICES ASSUME SafeSetting PROVE Spec => []IInv
  OBVIOUS
<1>1. Init => IInv
  BY Zenon, InvInit
<1>2. IInv /\ [Next]_vars => IInv'
  BY Zenon, InvStep
<1> QED
  BY <1>1, <1>2, PTL DEF Spec

(***************************************************************************)
(* The values of PerformBlockImageUpdate's state stay in their types: the  *)
(* current command is one of the list, what is written to a block is a     *)
(* block and what is read from new_data is there.                          *)
(***************************************************************************)
THEOREM TypeCorrect == SafeSetting => (Spec => []TypeOK)
<1>1. IInv => TypeOK
  BY Zenon DEF IInv
<1> QED
  BY <1>1, Invariance, PTL

(***************************************************************************)
(* A block_image_update that returns "t" has performed every command, for  *)
(* every list and after any number of interruptions, errors and retries,   *)
(* when the script verifies first and nothing that was written is lost,    *)
(* unless a last_command found stale could not be unlinked.                *)
(***************************************************************************)
THEOREM UpdateIsCorrect == SafeSetting => (Spec => []UpdateCorrect)
<1>1. IInv => UpdateCorrect
  BY Zenon DEF IInv, OutcomeInv, UpdateCorrect, Done, Clean, cmds
<1> QED
  BY <1>1, Invariance, PTL

(***************************************************************************)
(* The index UpdateLastCommandIndex stores never runs ahead of what has    *)
(* been performed.                                                         *)
(***************************************************************************)
THEOREM ResumeIsSafe == SafeSetting => (Spec => []ResumePointSafe)
<1>1. IInv => ResumePointSafe
  BY Zenon DEF IInv
<1> QED
  BY <1>1, Invariance, PTL

(***************************************************************************)
(* The .partial file and the rename of WriteStash keep every stash file    *)
(* complete under its final name.                                          *)
(***************************************************************************)
THEOREM StashesAreIntact == SafeSetting => (Spec => []StashIntact)
<1>1. IInv => StashIntact
  BY Zenon DEF IInv
<1> QED
  BY <1>1, Invariance, PTL
=============================================================================
