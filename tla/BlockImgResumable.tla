------------------------- MODULE BlockImgResumable --------------------------
(***************************************************************************)
(* An update of the partition it was made for can always be resumed, and   *)
(* writes no block but the targets of its commands.                        *)
(***************************************************************************)
EXTENDS BlockImgProofs, TLAPS

(***************************************************************************)
(* The inductive invariant behind Resumable.  A move or diff that is not   *)
(* done finds its blocks on the partition or its implicit stash, and the   *)
(* stashes it reads are there, or are still to be made from blocks that    *)
(* nothing has overwritten.                                                *)
(***************************************************************************)
Copies(k) == cmds[k].op \in {"move", "diff"}
Saves(k) == cmds[k].op = "stash"

Loads(k) == {cmds[k].src[n].id : n \in {m \in DOMAIN cmds[k].src : cmds[k].src[m].kind = "stash"}}

Good(id) == stash[id] = "good"

\* The blocks command k reads are those of the image the package was made for.
Intact(k) == \A b \in SrcBlocks(cmds[k]) : disk[b] = SourceImage[b]

\* Stash command k is not going to be performed before what follows it.
Passed(k) ==
    \/ k <= lastCommand + 1
    \/ /\ mode = "update"
       /\ k <= saved + 1 \/ k <= cmdindex \/ (k = cmdindex + 1 /\ pc \in {"index", "sync"})

StashedInv ==
    \A i, u \in DOMAIN cmds :
        Saves(i) /\ Copies(u) /\ cmds[i].id \in Loads(u) =>
            Done(u) \/ Good(cmds[i].id) \/ (~Passed(i) /\ Intact(i))

SourcesInv ==
    \A u \in DOMAIN cmds :
        Copies(u) => Done(u) \/ Intact(u) \/ (Overlap(cmds[u]) /\ Good(SrcHash(cmds[u])))

\* The command being performed has all it needs to be performed again.
FlightInv ==
    mode = "update" /\ pc \in {"partial", "rename", "index", "discard", "write"}
        /\ Copies(cmdindex + 1) =>
            /\ \A id \in Loads(cmdindex + 1) : Good(id)
            /\ pc \in {"index", "discard", "write"} /\ Overlap(Cmd) => Good(SrcHash(Cmd))
            /\ pc \in {"discard", "write"} /\ ~Overlap(Cmd) => Intact(cmdindex + 1)

\* What is deleted after a write is the command's own stash.
FreeInv ==
    mode = "update" /\ freeStash # NoStash =>
        /\ pc \in {"index", "discard", "write"} /\ Copies(cmdindex + 1)
        /\ Overlap(Cmd) /\ freeStash = SrcHash(Cmd)

\* Stash files are in the stash directory, and there are none in one that
\* block_image_verify has created.
DirInv ==
    /\ ~stashDir => stash = NoStashFiles /\ mode # "verify" /\ (mode = "update" => pc = "cleanup")
    /\ mode = "verify" /\ createdStash => stash = NoStashFiles

\* block_image_verify has remembered the blocks of the stashes that have no file.
MapInv ==
    mode = "verify" =>
        /\ \A id \in DOMAIN stashMap :
              /\ ~Good(id)
              /\ \E i \in DOMAIN cmds : /\ i <= cmdindex /\ Saves(i) /\ cmds[i].id = id
                                        /\ stashMap[id] = SrcRange(cmds[i])
        /\ \A i \in DOMAIN cmds : i <= cmdindex /\ Saves(i) =>
              \/ Good(cmds[i].id)
              \/ cmds[i].id \in DOMAIN stashMap
              \/ \E f \in i + 1 .. cmdindex : cmds[f].op = "free" /\ cmds[f].id = cmds[i].id

SInv == StashedInv /\ SourcesInv /\ FlightInv /\ FreeInv /\ DirInv /\ MapInv

RInv == list.found = SourceImage /\ unhandled = {} => SInv /\ ~isUnresumable

-----------------------------------------------------------------------------
\* What every step that is none of the errors in Unhandled may assume.
Here == /\ Known /\ SInv /\ list.found = SourceImage /\ ~isUnresumable
        /\ list \in Lists /\ WellFormed(list) /\ UniqueIds(list)
        /\ unhandled = {} /\ unhandled' = {}

\* last_command is what the code takes it for.
LEMMA IndexIsClean ==
    ASSUME Here
    PROVE  Clean /\ Clean'
  BY Zenon DEF Here, Clean

\* The current command is the same as long as the index is.
LEMMA SameCommand ==
    ASSUME UNCHANGED <<list, cmdindex>>
    PROVE  /\ Cmd' = Cmd /\ (Copies(cmdindex + 1)' <=> Copies(cmdindex + 1))
           /\ Loads(cmdindex + 1)' = Loads(cmdindex + 1)
<1>1. Cmd' = Cmd /\ (Copies(cmdindex + 1)' <=> Copies(cmdindex + 1))
  BY Zenon DEF Cmd, Copies, cmds
<1>2. Loads(cmdindex + 1)' = Loads(cmdindex + 1)
  BY DEF Loads, cmds
<1> QED
  BY Zenon, <1>1, <1>2

\* The types of a command.
LEMMA CommandAt ==
    ASSUME Here, NEW k \in DOMAIN cmds
    PROVE  /\ cmds[k] \in Command /\ CommandOK(cmds[k]) /\ k \in Nat /\ k >= 1 /\ k <= Len(cmds)
           /\ cmds[k].tgt \in Seq(Block) /\ cmds[k].out \in Seq(Content) /\ cmds[k].src \in Seq(Slot)
           /\ \A n \in DOMAIN cmds[k].src :
                 /\ cmds[k].src[n].kind \in {"blk", "stash"}
                 /\ cmds[k].src[n].kind = "blk" => cmds[k].src[n].n \in Block
                 /\ cmds[k].src[n].kind = "stash" => cmds[k].src[n].id \in StashIds
<1>1. cmds[k] \in Command /\ CommandOK(cmds[k]) /\ k \in Nat /\ k >= 1 /\ k <= Len(cmds)
  BY CommandTypes DEF Here, cmds
<1>2. /\ cmds[k].tgt \in Seq(Block) /\ cmds[k].out \in Seq(Content) /\ cmds[k].src \in Seq(Slot)
  BY Zenon, <1>1 DEF Command
<1>3. ASSUME NEW n \in DOMAIN cmds[k].src
      PROVE  /\ cmds[k].src[n].kind \in {"blk", "stash"}
             /\ cmds[k].src[n].kind = "blk" => cmds[k].src[n].n \in Block
             /\ cmds[k].src[n].kind = "stash" => cmds[k].src[n].id \in StashIds
  <2>1. cmds[k].src[n] \in Slot
    BY <1>2
  <2> QED
    BY <2>1, Zenon DEF Slot
<1> QED
  BY Zenon, <1>1, <1>2, <1>3

\* A move or a diff is done when its target has the expected hash.
LEMMA DoneIsVerified ==
    ASSUME Here, NEW k \in DOMAIN cmds, Copies(k)
    PROVE  Done(k) <=> TargetVerified(cmds[k])
<1>1. cmds[k].tgt \in Seq(Block) /\ cmds[k].out \in Seq(Content) /\ Len(cmds[k].out) = Len(cmds[k].tgt)
  BY Zenon, CommandAt DEF CommandOK
<1>2. ASSUME Done(k) PROVE TargetVerified(cmds[k])
  <2>1. \A i \in DOMAIN cmds[k].tgt : disk[cmds[k].tgt[i]] = cmds[k].out[i]
    BY Zenon, <1>2, IndexIsClean DEF Done, Produced, Copies, Writers
  <2>2. ReadBlocks(cmds[k].tgt) = [i \in 1 .. Len(cmds[k].out) |-> cmds[k].out[i]]
    BY <1>1, <2>1 DEF ReadBlocks
  <2>3. cmds[k].out = [i \in 1 .. Len(cmds[k].out) |-> cmds[k].out[i]]
    BY <1>1
  <2> QED
    BY Zenon, <2>2, <2>3 DEF TargetVerified
<1> QED
  BY Zenon, <1>2, TargetIsDone, IndexIsClean DEF Done

\* The ids commands stash under.
LEMMA IdsKnown ==
    ASSUME Here, NEW i \in DOMAIN cmds
    PROVE  /\ Saves(i) => cmds[i].id \in StashIds
           /\ Copies(i) /\ Overlap(cmds[i]) => SrcHash(cmds[i]) \in StashIds
<1>1. Stashes(cmds[i]) => StashId(cmds[i]) \in StashIds
  BY Zenon, CommandTypes DEF Here, cmds
<1> QED
  BY Zenon, <1>1 DEF Saves, Copies, Stashes, StashId

\* Ids are not shared.
LEMMA OneStash ==
    ASSUME Here, NEW i \in DOMAIN cmds, NEW j \in DOMAIN cmds
    PROVE  /\ Saves(i) /\ Saves(j) /\ cmds[i].id = cmds[j].id => i = j
           /\ Saves(i) /\ Copies(j) /\ Overlap(cmds[j]) => cmds[i].id # SrcHash(cmds[j])
           /\ Copies(i) /\ Copies(j) /\ Overlap(cmds[i]) /\ Overlap(cmds[j])
                 /\ SrcHash(cmds[i]) = SrcHash(cmds[j]) => i = j
<1>1. i # j /\ Stashes(cmds[i]) /\ Stashes(cmds[j]) => StashId(cmds[i]) # StashId(cmds[j])
  BY Zenon DEF Here, UniqueIds, cmds
<1>2. /\ Saves(i) => Stashes(cmds[i]) /\ StashId(cmds[i]) = cmds[i].id
      /\ Saves(j) => Stashes(cmds[j]) /\ StashId(cmds[j]) = cmds[j].id
      /\ Copies(i) /\ Overlap(cmds[i]) =>
            Stashes(cmds[i]) /\ StashId(cmds[i]) = SrcHash(cmds[i]) /\ ~Saves(i)
      /\ Copies(j) /\ Overlap(cmds[j]) =>
            Stashes(cmds[j]) /\ StashId(cmds[j]) = SrcHash(cmds[j]) /\ ~Saves(j)
  BY Zenon DEF Saves, Copies, Stashes, StashId
<1> QED
  BY Zenon, <1>1, <1>2

\* A stash is made before it is used, and not freed in between.
LEMMA LoadsStashed ==
    ASSUME Here, NEW u \in DOMAIN cmds, NEW id \in Loads(u)
    PROVE  \E i \in DOMAIN cmds :
              /\ i < u /\ Saves(i) /\ cmds[i].id = id
              /\ \A j \in i + 1 .. u - 1 : ~(cmds[j].op = "free" /\ cmds[j].id = id)
<1>1. PICK n \in DOMAIN cmds[u].src : cmds[u].src[n].kind = "stash" /\ cmds[u].src[n].id = id
  BY Zenon DEF Loads
<1>2. cmds[u].src[n] \in Elements(cmds[u].src)
  BY Zenon DEF Elements
<1>3. StashedFor(cmds, id, u)
  BY Zenon, <1>1, <1>2 DEF Here, WellFormed, cmds
<1>4. u \in Nat /\ u <= Len(cmds) /\ DOMAIN cmds = 1 .. Len(cmds) /\ Len(cmds) \in Nat
  OBVIOUS
<1> QED
  BY <1>3, <1>4 DEF StashedFor, Saves

\* The command that frees a stash comes after those that use it.
LEMMA FreedAfterUse ==
    ASSUME Here, NEW f \in DOMAIN cmds, NEW u \in DOMAIN cmds, cmds[f].op = "free", Copies(u),
           cmds[f].id \in Loads(u)
    PROVE  u < f
<1>1. PICK i \in DOMAIN cmds : /\ i < u /\ Saves(i) /\ cmds[i].id = cmds[f].id
                               /\ \A j \in i + 1 .. u - 1 : ~(cmds[j].op = "free" /\ cmds[j].id = cmds[f].id)
  BY Zenon, LoadsStashed
<1>2. f \in Nat /\ u \in Nat /\ DOMAIN cmds = 1 .. Len(cmds) /\ Len(cmds) \in Nat
  BY DEF Here, Known, cmds
<1>3. StashedFor(cmds, cmds[f].id, f)
  BY Zenon DEF Here, WellFormed, cmds
<1>4. PICK j \in 1 .. f - 1 : cmds[j].op = "stash" /\ cmds[j].id = cmds[f].id
  BY Zenon, <1>3 DEF StashedFor
<1>5. j = i
  BY <1>1, <1>2, <1>4, OneStash DEF Saves
<1>6. f # u
  BY Zenon DEF Copies
<1> QED
  BY <1>1, <1>2, <1>5, <1>6

\* The source of a stash command is the partition.
LEMMA StashReads ==
    ASSUME Here, NEW i \in DOMAIN cmds, Saves(i), Intact(i)
    PROVE  /\ LoadSourceBlocks(cmds[i]) = cmds[i].id
           /\ ReadBlocks(SrcRange(cmds[i])) = cmds[i].id
<1>1. cmds[i].id = SrcHash(cmds[i]) /\ \A n \in DOMAIN cmds[i].src : cmds[i].src[n].kind = "blk"
  BY Zenon, CommandAt DEF Saves, CommandOK
<1>2. \A n \in DOMAIN cmds[i].src : disk[cmds[i].src[n].n] = SourceImage[cmds[i].src[n].n]
  BY Zenon, <1>1 DEF Intact, SrcBlocks
<1> QED
  BY <1>1, <1>2 DEF LoadSourceBlocks, ReadBlocks, SrcRange, SrcHash, SlotHash

\* A command whose blocks are intact, and whose stashes are good, has its source.
LEMMA SourceReads ==
    ASSUME Here, NEW u \in DOMAIN cmds, Intact(u), \A id \in Loads(u) : StashGood(id)
    PROVE  SourceVerified(cmds[u])
<1>1. ASSUME NEW n \in DOMAIN cmds[u].src
      PROVE  LoadSourceBlocks(cmds[u])[n] = SrcHash(cmds[u])[n]
  <2>1. CASE cmds[u].src[n].kind = "blk"
    <3>1. disk[cmds[u].src[n].n] = SourceImage[cmds[u].src[n].n]
      BY Zenon, <2>1 DEF Intact, SrcBlocks
    <3> QED
      BY Zenon, <2>1, <3>1 DEF LoadSourceBlocks, SrcHash, SlotHash
  <2>2. CASE cmds[u].src[n].kind # "blk"
    <3>1. cmds[u].src[n].kind = "stash"
      BY Zenon, <2>2, CommandAt
    <3>2. StashGood(cmds[u].src[n].id)
      BY Zenon, <3>1 DEF Loads
    <3> QED
      BY Zenon, <2>2, <3>2 DEF LoadSourceBlocks, SrcHash, SlotHash
  <2> QED
    BY Zenon, <2>1, <2>2
<1>2. /\ LoadSourceBlocks(cmds[u]) = [n \in DOMAIN cmds[u].src |-> LoadSourceBlocks(cmds[u])[n]]
      /\ SrcHash(cmds[u]) = [n \in DOMAIN cmds[u].src |-> SrcHash(cmds[u])[n]]
  BY Zenon DEF LoadSourceBlocks, SrcHash
<1> QED
  BY Zenon, <1>1, <1>2 DEF SourceVerified

\* And a command that has found its source had its blocks intact.
LEMMA SourceWasIntact ==
    ASSUME Here, NEW u \in DOMAIN cmds, SourceVerified(cmds[u])
    PROVE  Intact(u)
<1> SUFFICES ASSUME NEW n \in DOMAIN cmds[u].src, cmds[u].src[n].kind = "blk"
             PROVE  disk[cmds[u].src[n].n] = SourceImage[cmds[u].src[n].n]
  BY Zenon DEF Intact, SrcBlocks
<1>1. LoadSourceBlocks(cmds[u])[n] = SrcHash(cmds[u])[n]
  BY Zenon DEF SourceVerified
<1> QED
  BY Zenon, <1>1 DEF LoadSourceBlocks, SrcHash, SlotHash

-----------------------------------------------------------------------------
\* The heart of it: a move or diff that has to be performed finds its source, when it
\* is verified and when it is performed.
LEMMA HasSource ==
    ASSUME Here, mode # "idle", ~Finished, Copies(cmdindex + 1), ~TargetVerified(Cmd)
    PROVE  /\ SourceVerified(Cmd) \/ StashVerified(Cmd)
           /\ mode = "update" => \A id \in Loads(cmdindex + 1) : Good(id)
<1> DEFINE k == cmdindex + 1
<1>1. /\ k \in DOMAIN cmds /\ Cmd = cmds[k] /\ cmdindex \in Nat /\ ~Done(k)
      /\ DOMAIN cmds = 1 .. Len(cmds) /\ Len(cmds) \in Nat
      /\ StashedInv /\ SourcesInv /\ MapInv /\ mode \in {"verify", "update"}
  <2>1. k \in DOMAIN cmds /\ Cmd = cmds[k]
    BY Zenon, CurrentCommand DEF Here, Known, Cmd, cmds
  <2>2. ~Done(k)
    BY Zenon, <2>1, DoneIsVerified
  <2> QED
    BY <2>1, <2>2 DEF Here, Known, SInv, RunOK
<1>2. ASSUME NEW id \in Loads(k)
      PROVE  StashGood(id) /\ (mode = "update" => Good(id))
  <2>1. PICK i \in DOMAIN cmds :
            /\ i < k /\ Saves(i) /\ cmds[i].id = id
            /\ \A j \in i + 1 .. k - 1 : ~(cmds[j].op = "free" /\ cmds[j].id = id)
    BY Zenon, <1>1, LoadsStashed
  <2>2. Good(id) \/ (~Passed(i) /\ Intact(i))
    BY Zenon, <1>1, <2>1 DEF StashedInv
  <2>3. i <= cmdindex
    BY <1>1, <2>1
  <2>4. CASE mode = "update"
    BY Zenon, <2>2, <2>3, <2>4 DEF Passed, StashGood, InMap, Good
  <2>5. CASE mode = "verify" /\ Good(id)
    BY Zenon, <1>1, <2>5 DEF MapInv, StashGood, InMap, Good
  <2>6. CASE mode = "verify" /\ ~Good(id)
    <3>1. id \in DOMAIN stashMap
      BY <1>1, <2>1, <2>3, <2>6 DEF MapInv
    <3>2. PICK h \in DOMAIN cmds : Saves(h) /\ cmds[h].id = id /\ stashMap[id] = SrcRange(cmds[h])
      BY Zenon, <1>1, <2>6, <3>1 DEF MapInv
    <3>3. h = i
      BY Zenon, <2>1, <3>2, OneStash
    <3> QED
      BY Zenon, <2>2, <2>6, <3>1, <3>2, <3>3, StashReads DEF StashGood, InMap
  <2> QED
    BY Zenon, <1>1, <2>4, <2>5, <2>6
<1>3. CASE Intact(k)
  BY Zenon, <1>1, <1>2, <1>3, SourceReads
<1>4. CASE ~Intact(k)
  <2>1. Overlap(Cmd) /\ Good(SrcHash(Cmd))
    BY Zenon, <1>1, <1>4 DEF SourcesInv
  <2>2. StashGood(SrcHash(Cmd))
    BY Zenon, <1>1, <2>1 DEF MapInv, StashGood, InMap, Good
  <2> QED
    BY Zenon, <1>2, <2>1, <2>2 DEF StashVerified
<1> QED
  BY Zenon, <1>3, <1>4

\* What there is to show of the next state.
LEMMA StashedNext ==
    ASSUME list' = list,
           \A i, u \in DOMAIN cmds :
               Saves(i) /\ Copies(u) /\ cmds[i].id \in Loads(u) =>
                   Done(u)' \/ stash'[cmds[i].id] = "good" \/ (~Passed(i)' /\ Intact(i)')
    PROVE  StashedInv'
<1>1. cmds' = cmds
  BY Zenon DEF cmds
<1> SUFFICES ASSUME NEW i \in DOMAIN cmds, NEW u \in DOMAIN cmds, Saves(i)', Copies(u)',
                    cmds[i].id \in Loads(u)'
             PROVE  Done(u)' \/ stash'[cmds[i].id] = "good" \/ (~Passed(i)' /\ Intact(i)')
  BY Zenon, <1>1 DEF StashedInv, Good
<1>2. Saves(i) /\ Copies(u) /\ cmds[i].id \in Loads(u)
  BY Zenon, <1>1 DEF Saves, Copies, Loads
<1> QED
  BY Zenon, <1>2

LEMMA SourcesNext ==
    ASSUME list' = list,
           \A u \in DOMAIN cmds :
               Copies(u) => \/ Done(u)' \/ Intact(u)'
                            \/ Overlap(cmds[u]) /\ stash'[SrcHash(cmds[u])] = "good"
    PROVE  SourcesInv'
<1>1. cmds' = cmds
  BY Zenon DEF cmds
<1> SUFFICES ASSUME NEW u \in DOMAIN cmds, Copies(u)'
             PROVE  \/ Done(u)' \/ Intact(u)'
                    \/ Overlap(cmds[u]) /\ stash'[SrcHash(cmds[u])] = "good"
  BY Zenon, <1>1 DEF SourcesInv, Good
<1>2. Copies(u)
  BY Zenon, <1>1 DEF Copies
<1> QED
  BY Zenon, <1>2

\* Which part of the invariant depends on which variables.
LEMMA SFrames ==
    ASSUME Here, list' = list
    PROVE  /\ UNCHANGED <<disk, stash>> /\ (\A i \in DOMAIN cmds : Saves(i) /\ Passed(i)' => Passed(i))
                 => StashedInv' /\ SourcesInv'
           /\ UNCHANGED <<disk, stash>> /\ mode' # "update" /\ lastCommand' \in {lastCommand, -1}
                 => StashedInv' /\ SourcesInv'
           /\ mode' # "update" \/ pc' \in {"cmd", "sync", "cleanup"} => FlightInv'
           /\ mode' # "update" \/ freeStash' = NoStash => FreeInv'
           /\ mode = "update" /\ pc \notin {"index", "discard", "write"} => freeStash = NoStash
           /\ mode' # "verify" => MapInv'
           /\ mode' = "idle" /\ UNCHANGED <<stash, stashDir>> => DirInv'
           /\ mode = "update" /\ pc # "cleanup" => stashDir
           /\ mode = "update" /\ pc # "cleanup" /\ mode' = "update" /\ stashDir' = stashDir => DirInv'
<1>1. ASSUME UNCHANGED <<disk, stash>>, \A i \in DOMAIN cmds : Saves(i) /\ Passed(i)' => Passed(i)
      PROVE  StashedInv' /\ SourcesInv'
  <2>1. /\ \A u \in DOMAIN cmds : Done(u)' <=> Done(u)
        /\ \A u \in DOMAIN cmds : Intact(u)' <=> Intact(u)
    BY Zenon, <1>1, IndexIsClean DEF Done, Intact, cmds
  <2>2. \A i \in DOMAIN cmds : /\ Saves(i)' <=> Saves(i)
                               /\ Copies(i)' <=> Copies(i)
                               /\ Loads(i)' = Loads(i)
    BY Zenon DEF Saves, Copies, Loads, cmds
  <2>3. \A i \in DOMAIN cmds : /\ Good(cmds[i].id)' <=> Good(cmds[i].id)
                               /\ Good(SrcHash(cmds[i]))' <=> Good(SrcHash(cmds[i]))
    BY Zenon, <1>1 DEF Good, cmds
  <2>4. StashedInv'
    BY Zenon, <1>1, <2>1, <2>2, <2>3 DEF Here, SInv, StashedInv, cmds
  <2>5. SourcesInv'
    BY Zenon, <2>1, <2>2, <2>3 DEF Here, SInv, SourcesInv, cmds
  <2> QED
    BY Zenon, <2>4, <2>5
<1>2. ASSUME UNCHANGED <<disk, stash>>, mode' # "update", lastCommand' \in {lastCommand, -1}
      PROVE  StashedInv' /\ SourcesInv'
  <2>1. \A i \in DOMAIN cmds : Passed(i)' => Passed(i)
    BY <1>2 DEF Passed, Here, Known, cmds
  <2> QED
    BY Zenon, <1>1, <1>2, <2>1
<1>3. /\ mode' # "update" \/ pc' \in {"cmd", "sync", "cleanup"} => FlightInv'
      /\ mode' # "update" \/ freeStash' = NoStash => FreeInv'
      /\ mode' # "verify" => MapInv'
  BY Zenon DEF FlightInv, FreeInv, MapInv
<1>4. /\ mode = "update" /\ pc \notin {"index", "discard", "write"} => freeStash = NoStash
      /\ mode = "update" /\ pc # "cleanup" => stashDir
      /\ mode' = "idle" /\ UNCHANGED <<stash, stashDir>> => DirInv'
      /\ mode = "update" /\ pc # "cleanup" /\ mode' = "update" /\ stashDir' = stashDir => DirInv'
  <2>1. FreeInv /\ DirInv
    BY Zenon DEF Here, SInv
  <2>2. mode' = "idle" /\ UNCHANGED <<stash, stashDir>> => DirInv'
    BY <2>1 DEF DirInv
  <2> QED
    BY Zenon, <2>1 DEF FreeInv, DirInv
<1> QED
  BY Zenon, <1>1, <1>2, <1>3, <1>4

-----------------------------------------------------------------------------
\* A verification or an update starts.
LEMMA StartKeeps ==
    ASSUME Here, BlockImageVerifyFn \/ BlockImageUpdateFn
    PROVE  SInv' /\ ~isUnresumable'
<1>1. /\ UNCHANGED <<list, disk, stash>> /\ stashDir' = TRUE
      /\ createdStash' = ~stashDir /\ isUnresumable' = FALSE /\ freeStash' = NoStash /\ pc' = "cmd"
      /\ cmdindex' = 0 /\ lastCommand' \in {lastCommand, -1}
      /\ mode' = "update" => saved' \in {lastCommand, -1}
      /\ mode' = "verify" => stashMap' = <<>>
  BY Zenon DEF BlockImageVerifyFn, BlockImageUpdateFn, Start, IndexDeleted, IndexStays
<1>2. StashedInv' /\ SourcesInv'
  <2>1. \A i \in DOMAIN cmds : Passed(i)' => Passed(i)
    BY <1>1 DEF Passed, Here, Known, cmds
  <2> QED
    BY Zenon, <1>1, <2>1, SFrames
<1>3. FlightInv' /\ FreeInv'
  BY Zenon, <1>1, SFrames
<1>4. DirInv'
  BY Zenon, <1>1 DEF Here, SInv, DirInv, NoStashFiles
<1>5. MapInv'
  <2> SUFFICES ASSUME mode' = "verify" PROVE MapInv'
    BY Zenon DEF MapInv
  <2>1. DOMAIN stashMap' = {} /\ \A i \in DOMAIN cmds : ~(i <= cmdindex')
    BY <1>1
  <2> QED
    BY Zenon, <1>1, <2>1 DEF MapInv, cmds
<1> QED
  BY Zenon, <1>1, <1>2, <1>3, <1>4, <1>5 DEF SInv

\* block_image_verify passes a command that has nothing to do with a stash.
LEMMA VerifyPassKeeps ==
    ASSUME Here, VerifyMoveDiff \/ VerifySkip
    PROVE  SInv' /\ ~isUnresumable'
<1>1. /\ mode = "verify" /\ ~Finished /\ Cmd.op \notin {"stash", "free"} /\ cmdindex' = cmdindex + 1
      /\ UNCHANGED <<list, disk, stash, stashDir, stashMap, createdStash, mode, isUnresumable>>
      /\ lastCommand' \in {lastCommand, -1}
  BY Zenon DEF VerifyMoveDiff, VerifySkip, IndexDeleted, IndexStays, Executing, NextCommand,
     persistent, session
<1>2. StashedInv' /\ SourcesInv' /\ FlightInv' /\ FreeInv'
  BY Zenon, <1>1, SFrames
<1>3. DirInv'
  BY Zenon, <1>1 DEF Here, SInv, DirInv
<1>4. MapInv'
  <2>1. /\ cmdindex \in Nat /\ DOMAIN cmds = 1 .. Len(cmds) /\ Len(cmds) \in Nat /\ MapInv
        /\ \A i \in DOMAIN cmds : i <= cmdindex + 1 /\ Saves(i) => i <= cmdindex
    BY <1>1 DEF Here, Known, SInv, Saves, Cmd, cmds
  <2>2. \A i \in DOMAIN cmds : i + 1 .. cmdindex \subseteq i + 1 .. cmdindex + 1
    BY <2>1
  <2>3. cmds' = cmds /\ \A id : Good(id)' <=> Good(id)
    BY Zenon, <1>1 DEF cmds, Good
  <2>4. \A i \in DOMAIN cmds : Saves(i)' <=> Saves(i)
    BY Zenon, <2>3 DEF Saves
  <2>5. \A id \in DOMAIN stashMap :
              /\ ~Good(id)
              /\ \E i \in DOMAIN cmds : /\ i <= cmdindex + 1 /\ Saves(i) /\ cmds[i].id = id
                                        /\ stashMap[id] = SrcRange(cmds[i])
    BY <1>1, <2>1 DEF MapInv
  <2>6. \A i \in DOMAIN cmds : i <= cmdindex + 1 /\ Saves(i) =>
              \/ Good(cmds[i].id)
              \/ cmds[i].id \in DOMAIN stashMap
              \/ \E f \in i + 1 .. cmdindex + 1 : cmds[f].op = "free" /\ cmds[f].id = cmds[i].id
    BY <1>1, <2>1 DEF MapInv
  <2> QED
    BY <1>1, <2>3, <2>4, <2>5, <2>6 DEF MapInv
<1> QED
  BY Zenon, <1>1, <1>2, <1>3, <1>4 DEF SInv, Here

\* block_image_verify finds a stash, or remembers the blocks it would be made from.
LEMMA VerifyStashKeeps ==
    ASSUME Here, VerifyStash
    PROVE  SInv' /\ ~isUnresumable'
<1>1. /\ mode = "verify" /\ ~Finished /\ Cmd.op = "stash" /\ cmdindex' = cmdindex + 1
      /\ UNCHANGED <<list, disk, stashDir, createdStash, mode, isUnresumable, lastCommand>>
      /\ \/ StashGood(Cmd.id) /\ UNCHANGED <<stash, stashMap>>
         \/ /\ ~StashGood(Cmd.id) /\ stash' = DeleteTorn(Cmd.id)
            /\ stashMap' = [id \in DOMAIN stashMap \cup {Cmd.id} |->
                              IF id = Cmd.id THEN SrcRange(Cmd) ELSE stashMap[id]]
  BY Zenon DEF VerifyStash, Executing, NextCommand, Here
<1>2. stash' = stash
  <2>1. Cmd.id \in StashIds
    BY Zenon, <1>1, CurrentCommand DEF Here, Known
  <2>2. stash[Cmd.id] # "torn"
    BY Zenon, <2>1 DEF Here, Known, StashIntact
  <2> QED
    BY Zenon, <1>1, <2>2 DEF DeleteTorn
<1>3. StashedInv' /\ SourcesInv' /\ FlightInv' /\ FreeInv'
  BY Zenon, <1>1, <1>2, SFrames
<1>4. DirInv'
  BY Zenon, <1>1, <1>2 DEF Here, SInv, DirInv
<1>5. MapInv'
  <2> DEFINE k == cmdindex + 1
  <2>1. /\ cmdindex \in Nat /\ DOMAIN cmds = 1 .. Len(cmds) /\ Len(cmds) \in Nat /\ MapInv
        /\ k \in DOMAIN cmds /\ Cmd = cmds[k] /\ Saves(k)
    BY <1>1, CurrentCommand DEF Here, Known, SInv, Saves, Cmd, cmds
  <2>2. \A i \in DOMAIN cmds : i + 1 .. cmdindex \subseteq i + 1 .. cmdindex + 1
    BY <2>1
  <2>3. cmds' = cmds /\ \A id : Good(id)' <=> Good(id)
    BY Zenon, <1>1, <1>2 DEF cmds, Good
  <2>4. \A i \in DOMAIN cmds : Saves(i)' <=> Saves(i)
    BY Zenon, <2>3 DEF Saves
  <2>5. ~StashGood(Cmd.id) => ~Good(Cmd.id)
    BY Zenon, <2>1 DEF StashGood, InMap, MapInv, Good
  <2>6. ASSUME NEW id \in DOMAIN stashMap'
        PROVE  /\ ~Good(id)
               /\ \E i \in DOMAIN cmds : /\ i <= cmdindex + 1 /\ Saves(i) /\ cmds[i].id = id
                                         /\ stashMap'[id] = SrcRange(cmds[i])
    <3>1. CASE id = Cmd.id /\ ~StashGood(Cmd.id)
      BY <1>1, <2>1, <2>5, <3>1
    <3>2. CASE ~(id = Cmd.id /\ ~StashGood(Cmd.id))
      <4>1. id \in DOMAIN stashMap /\ stashMap'[id] = stashMap[id]
        BY Zenon, <1>1, <3>2
      <4> QED
        BY <1>1, <2>1, <4>1 DEF MapInv
    <3> QED
      BY Zenon, <3>1, <3>2
  <2>7. ASSUME NEW i \in DOMAIN cmds, i <= cmdindex + 1, Saves(i)
        PROVE  \/ Good(cmds[i].id)
               \/ cmds[i].id \in DOMAIN stashMap'
               \/ \E f \in i + 1 .. cmdindex + 1 : cmds[f].op = "free" /\ cmds[f].id = cmds[i].id
    <3>1. DOMAIN stashMap \subseteq DOMAIN stashMap'
      BY Zenon, <1>1
    <3>2. CASE i = k
      BY Zenon, <1>1, <2>1, <3>2 DEF StashGood, InMap, Good
    <3>3. CASE i <= cmdindex
      BY <1>1, <2>1, <2>7, <3>3 DEF MapInv
    <3> QED
      BY <2>1, <2>7, <3>2, <3>3
  <2> QED
    BY <1>1, <2>3, <2>4, <2>6, <2>7 DEF MapInv
<1> QED
  BY Zenon, <1>1, <1>3, <1>4, <1>5 DEF SInv, Here

\* block_image_verify forgets a stash that is freed.
LEMMA VerifyFreeKeeps ==
    ASSUME Here, VerifyFree
    PROVE  SInv' /\ ~isUnresumable'
<1>1. /\ mode = "verify" /\ ~Finished /\ Cmd.op = "free" /\ cmdindex' = cmdindex + 1
      /\ UNCHANGED <<list, disk, stashDir, createdStash, mode, isUnresumable, lastCommand>>
      /\ stashMap' = [id \in DOMAIN stashMap \ {Cmd.id} |-> stashMap[id]]
      /\ stash' = IF createdStash THEN [stash EXCEPT ![Cmd.id] = "absent"] ELSE stash
  BY Zenon DEF VerifyFree, Executing, NextCommand, session
<1>2. stash' = stash
  <2>1. createdStash => stash = NoStashFiles
    BY Zenon, <1>1 DEF Here, SInv, DirInv
  <2>2. [NoStashFiles EXCEPT ![Cmd.id] = "absent"] = NoStashFiles
    BY Zenon DEF NoStashFiles
  <2> QED
    BY Zenon, <1>1, <2>1, <2>2
<1>3. StashedInv' /\ SourcesInv' /\ FlightInv' /\ FreeInv'
  BY Zenon, <1>1, <1>2, SFrames
<1>4. DirInv'
  BY Zenon, <1>1, <1>2 DEF Here, SInv, DirInv
<1>5. MapInv'
  <2> DEFINE k == cmdindex + 1
  <2>1. /\ cmdindex \in Nat /\ DOMAIN cmds = 1 .. Len(cmds) /\ Len(cmds) \in Nat /\ MapInv
        /\ k \in DOMAIN cmds /\ Cmd = cmds[k] /\ ~Saves(k)
    BY <1>1, CurrentCommand DEF Here, Known, SInv, Saves, Cmd, cmds
  <2>2. \A i \in DOMAIN cmds : i + 1 .. cmdindex \subseteq i + 1 .. cmdindex + 1
    BY <2>1
  <2>3. cmds' = cmds /\ \A id : Good(id)' <=> Good(id)
    BY Zenon, <1>1, <1>2 DEF cmds, Good
  <2>4. \A i \in DOMAIN cmds : Saves(i)' <=> Saves(i)
    BY Zenon, <2>3 DEF Saves
  <2>5. ASSUME NEW id \in DOMAIN stashMap'
        PROVE  /\ ~Good(id)
               /\ \E i \in DOMAIN cmds : /\ i <= cmdindex + 1 /\ Saves(i) /\ cmds[i].id = id
                                         /\ stashMap'[id] = SrcRange(cmds[i])
    BY <1>1, <2>1 DEF MapInv
  <2>6. ASSUME NEW i \in DOMAIN cmds, i <= cmdindex + 1, Saves(i)
        PROVE  \/ Good(cmds[i].id)
               \/ cmds[i].id \in DOMAIN stashMap'
               \/ \E f \in i + 1 .. cmdindex + 1 : cmds[f].op = "free" /\ cmds[f].id = cmds[i].id
    <3>1. i <= cmdindex
      BY <2>1, <2>6
    <3>2. CASE cmds[i].id = Cmd.id
      <4>1. k \in i + 1 .. cmdindex + 1
        BY <2>1, <3>1
      <4> QED
        BY Zenon, <1>1, <2>1, <3>2, <4>1
    <3>3. CASE cmds[i].id # Cmd.id
      BY <1>1, <2>1, <2>6 DEF MapInv
    <3> QED
      BY Zenon, <3>2, <3>3
  <2> QED
    BY <1>1, <2>3, <2>4, <2>5, <2>6 DEF MapInv
<1> QED
  BY Zenon, <1>1, <1>3, <1>4, <1>5 DEF SInv, Here

\* A verification ends, a run is given up, or the device restarts.
LEMMA EndKeeps ==
    ASSUME Here, VerifyDone \/ IOError \/ Crash
    PROVE  SInv' /\ ~isUnresumable'
<1>1. /\ mode' = "idle" /\ isUnresumable' = FALSE /\ UNCHANGED <<list, disk, lastCommand>>
      /\ \/ UNCHANGED <<stash, stashDir>>
         \/ mode = "verify" /\ createdStash /\ stash' = NoStashFiles /\ stashDir' = FALSE
  BY Zenon DEF VerifyDone, IOError, Crash, EndVerify, EndUpdate, FinalFsync, Here, Known
<1>2. stash' = stash
  BY Zenon, <1>1 DEF Here, SInv, DirInv
<1>3. StashedInv' /\ SourcesInv' /\ FlightInv' /\ FreeInv' /\ MapInv'
  BY Zenon, <1>1, <1>2, SFrames
<1>4. DirInv'
  BY Zenon, <1>1 DEF Here, SInv, DirInv
<1> QED
  BY Zenon, <1>1, <1>3, <1>4 DEF SInv

\* A command never fails for lack of its source.
LEMMA NeverFails ==
    ASSUME Here
    PROVE  ~VerifyMoveDiffFails /\ ~MoveDiffFails /\ ~LoadStashFails
<1>1. ASSUME VerifyMoveDiffFails \/ MoveDiffFails PROVE FALSE
  <2>1. /\ mode # "idle" /\ ~Finished /\ Cmd.op \in {"move", "diff"} /\ ~TargetVerified(Cmd)
        /\ ~SourceVerified(Cmd) /\ ~StashVerified(Cmd)
    BY Zenon, <1>1 DEF VerifyMoveDiffFails, MoveDiffFails, Performing, Executing
  <2>2. Copies(cmdindex + 1)
    BY Zenon, <2>1 DEF Copies, Cmd, cmds
  <2> QED
    BY Zenon, <2>1, <2>2, HasSource
<1>2. ~LoadStashFails
  BY Zenon DEF LoadStashFails, Here
<1> QED
  BY Zenon, <1>1, <1>2

-----------------------------------------------------------------------------
\* The current command of an update.
LEMMA Current ==
    ASSUME Here, mode = "update", ~Finished
    PROVE  /\ cmdindex + 1 \in DOMAIN cmds /\ Cmd = cmds[cmdindex + 1] /\ cmdindex \in Nat
           /\ lastCommand \in Int /\ saved \in Int
           /\ DOMAIN cmds = 1 .. Len(cmds) /\ Len(cmds) \in Nat
           /\ \A u \in DOMAIN cmds : u < cmdindex + 1 => Done(u)
           /\ StashedInv /\ SourcesInv /\ FlightInv /\ FreeInv /\ StepInv
           /\ Stashes(Cmd) => StashId(Cmd) \in StashIds
           /\ stash \in [StashIds -> {"absent", "torn", "good"}]
           /\ \A id \in StashIds : stash[id] # "torn"
<1>1. cmdindex + 1 \in DOMAIN cmds /\ Cmd = cmds[cmdindex + 1] /\ (Stashes(Cmd) => StashId(Cmd) \in StashIds)
  BY Zenon, CurrentCommand DEF Here, Known, Cmd, cmds
<1>2. \A u \in DOMAIN cmds : u < cmdindex + 1 => Done(u)
  BY DEF Here, Known, UpdateInv
<1> QED
  BY <1>1, <1>2 DEF Here, Known, SInv, PersistentOK, StashIntact

\* The update passes a command that is done.
LEMMA PassKeeps ==
    ASSUME Here, SkipExecuted \/ MoveDiffAlreadyDone \/ Fsync
    PROVE  SInv' /\ ~isUnresumable'
<1>1. /\ mode = "update" /\ ~Finished /\ pc \in {"cmd", "sync"}
      /\ UNCHANGED <<list, disk, stash, stashDir, lastCommand, mode, saved, isUnresumable, freeStash>>
      /\ \/ pc = "cmd" /\ cmdindex <= saved /\ pc' = "cmd" /\ cmdindex' = cmdindex + 1
         \/ Cmd.op # "stash" /\ pc' = "sync" /\ cmdindex' = cmdindex
         \/ pc = "sync" /\ pc' = "cmd" /\ cmdindex' = cmdindex + 1
  BY Zenon DEF SkipExecuted, MoveDiffAlreadyDone, Fsync, Performing, Executing, Goto, NextCommand,
     Volatile, persistent, command, session
<1>2. \A i \in DOMAIN cmds : Saves(i) /\ Passed(i)' => Passed(i)
  BY <1>1, Current DEF Passed, Saves
<1> QED
  BY Zenon, <1>1, <1>2, SFrames DEF SInv, Here

\* The source of a move or diff is loaded.
LEMMA LoadKeeps ==
    ASSUME Here, LoadSource \/ LoadImplicitStash
    PROVE  SInv' /\ ~isUnresumable'
<1> DEFINE k == cmdindex + 1
<1>1. /\ mode = "update" /\ ~Finished /\ pc = "cmd" /\ Cmd.op \in {"move", "diff"} /\ ~TargetVerified(Cmd)
      /\ UNCHANGED <<list, disk, stash, stashDir, lastCommand, mode, saved, isUnresumable, cmdindex>>
      /\ freeStash' = NoStash
      /\ \/ pc' = "discard" /\ ~Overlap(Cmd) /\ SourceVerified(Cmd)
         \/ pc' = "partial"
         \/ pc' = "index" /\ Overlap(Cmd) /\ stash[SrcHash(Cmd)] # "absent"
         \/ pc' = "discard" /\ StashVerified(Cmd)
  BY Zenon DEF LoadSource, LoadImplicitStash, Performing, Executing, Goto, Volatile, persistent,
     session
<1>2. Copies(k) /\ ~Saves(k) /\ k \in DOMAIN cmds /\ Cmd = cmds[k]
  BY Zenon, <1>1, Current DEF Copies, Saves
<1>3. \A i \in DOMAIN cmds : Saves(i) /\ Passed(i)' => Passed(i)
  BY Zenon, <1>1, <1>2 DEF Passed
<1>4. FlightInv'
  <2>1. \A id \in Loads(k) : Good(id)
    BY Zenon, <1>1, <1>2, HasSource
  <2>2. pc' \in {"index", "discard"} /\ Overlap(Cmd) => Good(SrcHash(Cmd))
    <3>1. Overlap(Cmd) => SrcHash(Cmd) \in StashIds
      BY Zenon, <1>1, Current DEF Stashes, StashId
    <3>2. CASE pc' = "index"
      BY Zenon, <1>1, <3>1, <3>2, Current DEF Good
    <3>3. CASE pc' = "discard" /\ Overlap(Cmd)
      BY Zenon, <1>1, <3>3 DEF StashVerified, StashGood, InMap, Good
    <3> QED
      BY Zenon, <3>2, <3>3
  <2>3. pc' = "discard" /\ ~Overlap(Cmd) => Intact(k)
    BY Zenon, <1>1, <1>2, SourceWasIntact DEF StashVerified
  <2>4. k' = k /\ Cmd' = Cmd /\ (Intact(k)' <=> Intact(k)) /\ Loads(k)' = Loads(k) /\ pc' # "write"
    BY Zenon, <1>1 DEF Cmd, Intact, Loads, cmds
  <2>5. \A id : Good(id)' <=> Good(id)
    BY Zenon, <1>1 DEF Good
  <2> QED
    BY Zenon, <2>1, <2>2, <2>3, <2>4, <2>5 DEF FlightInv
<1> QED
  BY Zenon, <1>1, <1>3, <1>4, SFrames DEF SInv, Here

\* A stash command begins.
LEMMA StashKeeps ==
    ASSUME Here, PerformCommandStash
    PROVE  SInv' /\ ~isUnresumable'
<1> DEFINE k == cmdindex + 1
<1>1. /\ mode = "update" /\ ~Finished /\ pc = "cmd" /\ Cmd.op = "stash"
      /\ UNCHANGED <<list, disk, stashDir, lastCommand, mode, saved, isUnresumable, cmdindex, freeStash>>
      /\ stash' = DeleteTorn(Cmd.id)
      /\ \/ pc' = "partial"
         \/ pc' = "sync" /\ (StashGood(Cmd.id) \/ LoadSourceBlocks(Cmd) # Cmd.id)
  BY Zenon DEF PerformCommandStash, Performing, Executing, Goto, session
<1>2. Saves(k) /\ ~Copies(k) /\ k \in DOMAIN cmds /\ Cmd = cmds[k] /\ Cmd.id \in StashIds
  BY Zenon, <1>1, Current DEF Copies, Saves, Stashes, StashId
<1>3. stash' = stash
  BY Zenon, <1>1, Current DEF DeleteTorn
<1>4. \A u \in DOMAIN cmds : (Done(u)' <=> Done(u)) /\ (Intact(u)' <=> Intact(u))
  BY Zenon, <1>1, IndexIsClean DEF Done, Intact, cmds
<1>5. ASSUME NEW i \in DOMAIN cmds, NEW u \in DOMAIN cmds, Saves(i), Copies(u), cmds[i].id \in Loads(u)
      PROVE  Done(u) \/ Good(cmds[i].id) \/ (~Passed(i)' /\ Intact(i))
  <2>1. Done(u) \/ Good(cmds[i].id) \/ (~Passed(i) /\ Intact(i))
    BY Zenon, <1>1, <1>5, Current DEF StashedInv
  <2>2. CASE i = k /\ pc' = "sync"
    BY Zenon, <1>1, <1>2, <2>1, <2>2, StashReads DEF StashGood, InMap, Good
  <2>3. CASE ~(i = k /\ pc' = "sync")
    BY Zenon, <1>1, <2>1, <2>3 DEF Passed
  <2> QED
    BY Zenon, <2>2, <2>3
<1>6. StashedInv'
  BY Zenon, <1>1, <1>3, <1>4, <1>5, StashedNext DEF Good
<1>7. SourcesInv'
  BY Zenon, <1>1, <1>3, <1>4, Current, SourcesNext DEF SourcesInv, Good
<1>8. FlightInv'
  BY Zenon, <1>1, <1>2 DEF FlightInv, Copies, cmds
<1> QED
  BY Zenon, <1>1, <1>6, <1>7, <1>8, SFrames DEF SInv, Here

\* A free command deletes a stash that no later command uses.
LEMMA FreeKeeps ==
    ASSUME Here, PerformCommandFree
    PROVE  SInv' /\ ~isUnresumable'
<1> DEFINE k == cmdindex + 1
<1>1. /\ mode = "update" /\ ~Finished /\ pc = "cmd" /\ Cmd.op = "free" /\ pc' = "sync"
      /\ UNCHANGED <<list, disk, stashDir, lastCommand, mode, saved, isUnresumable, cmdindex, freeStash>>
      /\ stash' = [stash EXCEPT ![Cmd.id] = "absent"]
  BY Zenon DEF PerformCommandFree, Performing, Executing, Goto, command, session
<1>2. ~Saves(k) /\ ~Copies(k) /\ k \in DOMAIN cmds /\ Cmd = cmds[k] /\ k \in Nat
  BY <1>1, Current DEF Copies, Saves
<1>3. /\ \A u \in DOMAIN cmds : (Done(u)' <=> Done(u)) /\ (Intact(u)' <=> Intact(u))
      /\ \A id \in StashIds : id # Cmd.id => stash'[id] = stash[id]
  BY <1>1, IndexIsClean DEF Done, Intact, cmds
<1>4. \A i \in DOMAIN cmds : Saves(i) /\ Passed(i)' => Passed(i)
  BY Zenon, <1>1, <1>2 DEF Passed
<1>5. StashedInv'
  <2> SUFFICES ASSUME NEW i \in DOMAIN cmds, NEW u \in DOMAIN cmds,
                      Saves(i), Copies(u), cmds[i].id \in Loads(u)
               PROVE  Done(u)' \/ stash'[cmds[i].id] = "good" \/ (~Passed(i)' /\ Intact(i)')
    BY Zenon, <1>1, StashedNext
  <2>1. Done(u) \/ Good(cmds[i].id) \/ (~Passed(i) /\ Intact(i))
    BY Zenon, <1>1, Current DEF StashedInv
  <2>2. CASE cmds[i].id = Cmd.id
    BY Zenon, <1>1, <1>3, <2>2, FreedAfterUse, Current
  <2>3. CASE cmds[i].id # Cmd.id
    BY Zenon, <1>3, <1>4, <2>1, <2>3, IdsKnown DEF Good
  <2> QED
    BY Zenon, <2>2, <2>3
<1>6. SourcesInv'
  <2> SUFFICES ASSUME NEW u \in DOMAIN cmds, Copies(u)
               PROVE  \/ Done(u)' \/ Intact(u)'
                      \/ Overlap(cmds[u]) /\ stash'[SrcHash(cmds[u])] = "good"
    BY Zenon, <1>1, SourcesNext
  <2>1. Done(u) \/ Intact(u) \/ (Overlap(cmds[u]) /\ Good(SrcHash(cmds[u])))
    BY Zenon, <1>1, Current DEF SourcesInv
  <2>2. Overlap(cmds[u]) => SrcHash(cmds[u]) # Cmd.id
    <3>1. StashedFor(cmds, Cmd.id, k)
      BY Zenon, <1>1, <1>2 DEF Here, WellFormed, cmds
    <3>2. PICK i \in 1 .. k - 1 : cmds[i].op = "stash" /\ cmds[i].id = Cmd.id
      BY Zenon, <3>1 DEF StashedFor
    <3>3. i \in DOMAIN cmds
      BY <1>2, Current
    <3> QED
      BY Zenon, <3>2, <3>3, OneStash DEF Saves
  <2> QED
    BY Zenon, <1>3, <2>1, <2>2, IdsKnown DEF Good
<1> QED
  BY Zenon, <1>1, <1>5, <1>6, SFrames DEF SInv, Here

\* A command without a source begins.
LEMMA ZeroNewKeeps ==
    ASSUME Here, PerformCommandZeroNew
    PROVE  SInv' /\ ~isUnresumable'
<1>1. /\ mode = "update" /\ ~Finished /\ pc = "cmd" /\ Cmd.op \in {"zero", "new"} /\ pc' = "discard"
      /\ UNCHANGED <<list, disk, stash, stashDir, lastCommand, mode, saved, isUnresumable, cmdindex,
                     freeStash>>
  BY Zenon DEF PerformCommandZeroNew, Performing, Executing, Goto, Volatile, persistent, session
<1>2. \A i \in DOMAIN cmds : Saves(i) /\ Passed(i)' => Passed(i)
  BY Zenon, <1>1 DEF Passed
<1>3. FlightInv'
  BY Zenon, <1>1 DEF FlightInv, Copies, Cmd, cmds
<1> QED
  BY Zenon, <1>1, <1>2, <1>3, SFrames DEF SInv, Here

-----------------------------------------------------------------------------
\* Writing the target of the current command takes no source away: not from the
\* commands before it, which are done; not from those after it, which read no block it
\* writes; and not from the command itself, which has stashed what it overwrites.
LEMMA TargetKeeps ==
    ASSUME Here, mode = "update", mode' = mode, ~Finished, cmdindex' = cmdindex,
           pc \in {"cmd", "discard", "write"}, pc' \in {"write", "sync"},
           Copies(cmdindex + 1) => pc # "cmd" /\ pc' = "write",
           ~Saves(cmdindex + 1),
           pc' = "sync" => pc = "cmd",
           UNCHANGED <<list, stash, stashDir, lastCommand, saved, isUnresumable, freeStash>>,
           \A b \in Block \ Elements(Cmd.tgt) : disk'[b] = disk[b]
    PROVE  SInv' /\ ~isUnresumable'
<1> DEFINE k == cmdindex + 1
<1>1. k \in DOMAIN cmds /\ Cmd = cmds[k] /\ k \in Nat /\ DOMAIN cmds = 1 .. Len(cmds) /\ Len(cmds) \in Nat
  BY Current
<1>2. \A u \in DOMAIN cmds : u # k => (Done(u)' <=> Done(u))
  BY Zenon, DoneStable DEF Here, Known
<1>3. ASSUME NEW u \in DOMAIN cmds, Intact(u), k < u \/ (u = k /\ ~Overlap(Cmd))
      PROVE  Intact(u)'
  <2>1. Elements(Cmd.tgt) \cap SrcBlocks(cmds[u]) = {}
    BY Zenon, <1>1, <1>3 DEF Here, WellFormed, Overlap, cmds
  <2>2. SrcBlocks(cmds[u]) \subseteq Block
    BY Zenon, CommandAt DEF SrcBlocks
  <2>3. \A b \in SrcBlocks(cmds[u]) : disk'[b] = SourceImage[b]
    BY Zenon, <1>3, <2>1, <2>2 DEF Intact
  <2> QED
    BY Zenon, <2>3 DEF Intact, cmds
<1>4. \A i \in DOMAIN cmds : Saves(i) => (Passed(i)' <=> Passed(i))
  BY Zenon DEF Passed
<1>5. Copies(k) => /\ pc \in {"discard", "write"}
                   /\ \A id \in Loads(k) : Good(id)
                   /\ Overlap(Cmd) => Good(SrcHash(Cmd))
                   /\ ~Overlap(Cmd) => Intact(k)
  BY Zenon, Current DEF FlightInv
<1>6. StashedInv'
  <2> SUFFICES ASSUME NEW i \in DOMAIN cmds, NEW u \in DOMAIN cmds,
                      Saves(i), Copies(u), cmds[i].id \in Loads(u)
               PROVE  Done(u)' \/ stash'[cmds[i].id] = "good" \/ (~Passed(i)' /\ Intact(i)')
    BY Zenon, StashedNext
  <2>1. CASE u = k
    BY Zenon, <1>5, <2>1 DEF Good
  <2>2. CASE u # k
    <3>1. Done(u) \/ Good(cmds[i].id) \/ (~Passed(i) /\ Intact(i))
      BY Zenon, Current DEF StashedInv
    <3>2. ~Passed(i) => k < i
      BY Current DEF Passed
    <3>3. CASE Done(u)
      BY Zenon, <1>2, <2>2, <3>3
    <3>4. CASE Good(cmds[i].id)
      BY Zenon, <3>4 DEF Good
    <3>5. CASE ~Passed(i) /\ Intact(i)
      BY Zenon, <1>3, <1>4, <3>2, <3>5
    <3> QED
      BY Zenon, <3>1, <3>3, <3>4, <3>5
  <2> QED
    BY Zenon, <2>1, <2>2
<1>7. SourcesInv'
  <2> SUFFICES ASSUME NEW u \in DOMAIN cmds, Copies(u)
               PROVE  \/ Done(u)' \/ Intact(u)'
                      \/ Overlap(cmds[u]) /\ stash'[SrcHash(cmds[u])] = "good"
    BY Zenon, SourcesNext
  <2>1. CASE u = k
    BY Zenon, <1>1, <1>3, <1>5, <2>1 DEF Good
  <2>2. CASE u < k
    <3>1. u # k
      BY <1>1, <2>2
    <3> QED
      BY Zenon, <1>2, <2>2, <3>1, Current
  <2>3. CASE k < u
    <3>1. u # k
      BY <1>1, <2>3
    <3>2. Done(u) \/ Intact(u) \/ (Overlap(cmds[u]) /\ Good(SrcHash(cmds[u])))
      BY Zenon, Current DEF SourcesInv
    <3> QED
      BY Zenon, <1>2, <1>3, <2>3, <3>1, <3>2 DEF Good
  <2>4. u = k \/ u < k \/ k < u
    BY <1>1
  <2> QED
    BY Zenon, <2>1, <2>2, <2>3, <2>4
<1>8. k' = k /\ Cmd' = Cmd /\ (Copies(k)' <=> Copies(k))
  BY Zenon DEF Cmd, Copies, cmds
<1>9. FlightInv'
  <2> SUFFICES ASSUME Copies(k), pc' = "write"
               PROVE  /\ \A id \in Loads(k) : stash'[id] = "good"
                      /\ Overlap(Cmd) => stash'[SrcHash(Cmd)] = "good"
                      /\ ~Overlap(Cmd) => Intact(k)'
    <3>1. Loads(k)' = Loads(k)
      BY Zenon, SameCommand
    <3> QED
      BY Zenon, <1>8, <3>1 DEF FlightInv, Good
  <2> QED
    BY Zenon, <1>1, <1>3, <1>5 DEF Good
<1>10. FreeInv'
  <2>1. freeStash # NoStash => Copies(k) /\ Overlap(Cmd) /\ freeStash = SrcHash(Cmd) /\ pc # "cmd"
    BY Zenon, Current DEF FreeInv
  <2> QED
    BY Zenon, <1>8, <2>1 DEF FreeInv
<1> QED
  BY Zenon, <1>6, <1>7, <1>9, <1>10, SFrames DEF SInv, Here

\* The steps that write.
LEMMA WriteKeeps ==
    ASSUME Here, PerformCommandErase \/ DiscardBlocks \/ WriteBlock
    PROVE  SInv' /\ ~isUnresumable'
<1>1. /\ mode = "update" /\ ~Finished /\ cmdindex' = cmdindex
      /\ UNCHANGED <<list, stash, stashDir, lastCommand, mode, saved, isUnresumable, freeStash>>
      /\ \/ pc = "cmd" /\ pc' = "sync" /\ Cmd.op = "erase"
         \/ pc \in {"discard", "write"} /\ pc' = "write" /\ Cmd.op \in {"move", "diff", "zero", "new"}
  BY Zenon, Current DEF PerformCommandErase, DiscardBlocks, WriteBlock, Performing, Executing,
     Goto, command, session, StepInv
<1>2. \A b \in Block \ Elements(Cmd.tgt) : disk'[b] = disk[b]
  <2>1. CASE PerformCommandErase \/ DiscardBlocks
    <3>1. disk' = disk \/ disk' \in Discarded(Cmd.tgt)
      BY Zenon, <2>1 DEF PerformCommandErase, DiscardBlocks
    <3> QED
      BY Zenon, <3>1 DEF Discarded
  <2>2. CASE WriteBlock
    <3>1. /\ disk' = [disk EXCEPT ![Cmd.tgt[written + 1]] = OutputBlock(Cmd, written + 1)]
          /\ disk \in [Block -> Content] /\ Cmd.tgt[written + 1] \in Elements(Cmd.tgt)
      BY Zenon, <2>2, OutputCorrect DEF WriteBlock, Here, Known, PersistentOK, Elements
    <3> QED
      BY Zenon, <3>1
  <2> QED
    BY Zenon, <2>1, <2>2
<1>3. Cmd = cmds[cmdindex + 1]
  BY Zenon DEF Cmd, cmds
<1>4. /\ Copies(cmdindex + 1) => pc # "cmd" /\ pc' = "write"
      /\ ~Saves(cmdindex + 1)
  BY Zenon, <1>1, <1>3 DEF Copies, Saves
<1> QED
  BY Zenon, <1>1, <1>2, <1>4, TargetKeeps

\* The copy of the source is written ...
LEMMA PartialKeeps ==
    ASSUME Here, WriteStashPartial
    PROVE  SInv' /\ ~isUnresumable'
<1>1. /\ mode = "update" /\ ~Finished /\ pc = "partial" /\ pc' = "rename"
      /\ UNCHANGED <<list, disk, stash, stashDir, lastCommand, mode, saved, isUnresumable, cmdindex,
                     freeStash>>
  BY Zenon DEF WriteStashPartial, Executing, Goto, command, session
<1>2. \A i \in DOMAIN cmds : Saves(i) /\ Passed(i)' => Passed(i)
  BY Zenon, <1>1 DEF Passed
<1>3. FlightInv'
  <2>1. FlightInv
    BY Zenon, <1>1, Current
  <2> QED
    BY Zenon, <1>1, <2>1, SameCommand DEF FlightInv, Good
<1> QED
  BY Zenon, <1>1, <1>2, <1>3, SFrames DEF SInv, Here

\* ... and gets its name.
LEMMA RenameKeeps ==
    ASSUME Here, WriteStashRename
    PROVE  SInv' /\ ~isUnresumable'
<1> DEFINE k == cmdindex + 1
           id0 == StashId(Cmd)
<1>1. /\ mode = "update" /\ ~Finished /\ pc = "rename" /\ pc' = "index"
      /\ UNCHANGED <<list, disk, stashDir, lastCommand, mode, saved, isUnresumable, cmdindex>>
      /\ stash' = [stash EXCEPT ![id0] = IF buffer = id0 THEN "good" ELSE "torn"]
      /\ freeStash' = IF Cmd.op = "stash" THEN NoStash ELSE id0
  BY Zenon DEF WriteStashRename, Executing, Goto, session
<1>2. /\ buffer = id0 /\ Stashes(Cmd) /\ id0 \in StashIds /\ k \in DOMAIN cmds /\ Cmd = cmds[k]
      /\ stash \in [StashIds -> {"absent", "torn", "good"}]
  BY Zenon, <1>1, Current DEF StepInv
<1>3. /\ stash'[id0] = "good"
      /\ \A id \in StashIds : Good(id) => stash'[id] = "good"
  BY Zenon, <1>1, <1>2 DEF Good
<1>4. \A u \in DOMAIN cmds : (Done(u)' <=> Done(u)) /\ (Intact(u)' <=> Intact(u))
  BY Zenon, <1>1, IndexIsClean DEF Done, Intact, cmds
<1>5. StashedInv'
  <2> SUFFICES ASSUME NEW i \in DOMAIN cmds, NEW u \in DOMAIN cmds,
                      Saves(i), Copies(u), cmds[i].id \in Loads(u)
               PROVE  Done(u)' \/ stash'[cmds[i].id] = "good" \/ (~Passed(i)' /\ Intact(i)')
    BY Zenon, <1>1, StashedNext
  <2>1. CASE i = k
    BY Zenon, <1>2, <1>3, <2>1 DEF Saves, StashId
  <2>2. CASE i # k
    <3>1. Done(u) \/ Good(cmds[i].id) \/ (~Passed(i) /\ Intact(i))
      BY Zenon, <1>1, Current DEF StashedInv
    <3>2. Passed(i)' => Passed(i)
      BY Zenon, <1>1, <2>2 DEF Passed
    <3> QED
      BY Zenon, <1>3, <1>4, <3>1, <3>2, IdsKnown
  <2> QED
    BY Zenon, <2>1, <2>2
<1>6. SourcesInv'
  <2> SUFFICES ASSUME NEW u \in DOMAIN cmds, Copies(u)
               PROVE  \/ Done(u)' \/ Intact(u)'
                      \/ Overlap(cmds[u]) /\ stash'[SrcHash(cmds[u])] = "good"
    BY Zenon, <1>1, SourcesNext
  <2>1. Done(u) \/ Intact(u) \/ (Overlap(cmds[u]) /\ Good(SrcHash(cmds[u])))
    BY Zenon, <1>1, Current DEF SourcesInv
  <2> QED
    BY Zenon, <1>3, <1>4, <2>1, IdsKnown
<1>7. k' = k /\ Cmd' = Cmd /\ (Copies(k)' <=> Copies(k)) /\ Loads(k)' = Loads(k)
  BY Zenon, <1>1 DEF Cmd, Copies, Loads, cmds
<1>8. Copies(k) => Overlap(Cmd) /\ id0 = SrcHash(Cmd)
  BY Zenon, <1>2 DEF Copies, Stashes, StashId
<1>9. FlightInv'
  <2> SUFFICES ASSUME Copies(k)
               PROVE  /\ \A id \in Loads(k) : stash'[id] = "good"
                      /\ stash'[SrcHash(Cmd)] = "good"
    BY Zenon, <1>1, <1>7 DEF FlightInv, Good
  <2>1. \A id \in Loads(k) : Good(id) /\ id \in StashIds
    <3>1. \A id \in Loads(k) : Good(id)
      BY Zenon, <1>1, Current DEF FlightInv
    <3>2. \A id \in Loads(k) : id \in StashIds
      BY <1>2, CommandAt DEF Loads
    <3> QED
      BY Zenon, <3>1, <3>2
  <2> QED
    BY Zenon, <1>3, <1>8, <2>1
<1>10. FreeInv'
  <2>1. freeStash' # NoStash => Copies(k)
    BY Zenon, <1>1, <1>2 DEF Copies, Stashes
  <2> QED
    BY Zenon, <1>1, <1>7, <1>8, <2>1 DEF FreeInv
<1> QED
  BY Zenon, <1>1, <1>5, <1>6, <1>9, <1>10, SFrames DEF SInv, Here

\* last_command is stored.
LEMMA IndexKeeps ==
    ASSUME Here, UpdateLastCommandIndex
    PROVE  SInv' /\ ~isUnresumable'
<1> DEFINE k == cmdindex + 1
<1>1. /\ mode = "update" /\ ~Finished /\ pc = "index"
      /\ UNCHANGED <<list, disk, stash, stashDir, mode, saved, isUnresumable, cmdindex, freeStash>>
      /\ lastCommand' \in {lastCommand, cmdindex}
      /\ pc' = IF Cmd.op = "stash" THEN "sync" ELSE "discard"
  BY Zenon DEF UpdateLastCommandIndex, Executing, Goto, command, session
<1>2. \A i \in DOMAIN cmds : Saves(i) /\ Passed(i)' => Passed(i)
  BY <1>1, Current DEF Passed
<1>3. FlightInv /\ FreeInv /\ Stashes(Cmd) /\ Cmd = cmds[k]
  BY Zenon, <1>1, Current DEF StepInv
<1>4. k' = k /\ Cmd' = Cmd /\ (Copies(k)' <=> Copies(k)) /\ Loads(k)' = Loads(k) /\ \A id : Good(id)' <=> Good(id)
  BY Zenon, <1>1 DEF Cmd, Copies, Loads, Good, cmds
<1>5. FlightInv'
  <2>1. Copies(k) => /\ Overlap(Cmd) /\ Good(SrcHash(Cmd)) /\ pc' # "write"
                     /\ \A id \in Loads(k) : Good(id)
    BY Zenon, <1>1, <1>3 DEF FlightInv, Copies, Stashes
  <2> QED
    BY Zenon, <1>4, <2>1 DEF FlightInv
<1>6. FreeInv'
  BY Zenon, <1>1, <1>3, <1>4 DEF FreeInv, Copies
<1> QED
  BY Zenon, <1>1, <1>2, <1>5, <1>6, SFrames DEF SInv, Here

\* The write is over and the implicit stash goes.
LEMMA FreeImplicitKeeps ==
    ASSUME Here, FreeImplicitStash
    PROVE  SInv' /\ ~isUnresumable'
<1> DEFINE k == cmdindex + 1
<1>1. /\ mode = "update" /\ ~Finished /\ pc = "write" /\ pc' = "sync" /\ freeStash' = NoStash
      /\ UNCHANGED <<list, disk, stashDir, lastCommand, mode, saved, isUnresumable, cmdindex>>
      /\ stash' = IF freeStash = NoStash THEN stash ELSE [stash EXCEPT ![freeStash] = "absent"]
  BY Zenon DEF FreeImplicitStash, Executing, Goto, session
<1>2. /\ k \in DOMAIN cmds /\ Cmd = cmds[k] /\ ~Saves(k)
      /\ stash \in [StashIds -> {"absent", "torn", "good"}]
      /\ freeStash # NoStash => Copies(k) /\ Overlap(Cmd) /\ freeStash = SrcHash(Cmd)
  BY Zenon, <1>1, Current DEF StepInv, FreeInv, Saves
<1>3. \A id \in StashIds : id # freeStash => stash'[id] = stash[id]
  BY <1>1
<1>4. \A u \in DOMAIN cmds : (Done(u)' <=> Done(u)) /\ (Intact(u)' <=> Intact(u))
  BY Zenon, <1>1, IndexIsClean DEF Done, Intact, cmds
<1>5. Done(k)
  <2>1. StepInv'
    BY Zenon, FreeImplicitStashInv DEF Here, IInv
  <2>2. Done(cmdindex + 1)'
    BY Zenon, <1>1, <2>1 DEF StepInv
  <2> QED
    BY Zenon, <1>1, <2>2, IndexIsClean DEF Done, cmds
<1>6. StashedInv'
  <2> SUFFICES ASSUME NEW i \in DOMAIN cmds, NEW u \in DOMAIN cmds,
                      Saves(i), Copies(u), cmds[i].id \in Loads(u)
               PROVE  Done(u)' \/ stash'[cmds[i].id] = "good" \/ (~Passed(i)' /\ Intact(i)')
    BY Zenon, <1>1, StashedNext
  <2>1. Done(u) \/ Good(cmds[i].id) \/ (~Passed(i) /\ Intact(i))
    BY Zenon, <1>1, Current DEF StashedInv
  <2>2. stash'[cmds[i].id] = stash[cmds[i].id]
    BY <1>1, <1>2, OneStash
  <2>3. Passed(i)' => Passed(i)
    BY Zenon, <1>1, <1>2 DEF Passed
  <2> QED
    BY Zenon, <1>4, <2>1, <2>2, <2>3 DEF Good
<1>7. SourcesInv'
  <2> SUFFICES ASSUME NEW u \in DOMAIN cmds, Copies(u)
               PROVE  \/ Done(u)' \/ Intact(u)'
                      \/ Overlap(cmds[u]) /\ stash'[SrcHash(cmds[u])] = "good"
    BY Zenon, <1>1, SourcesNext
  <2>1. Done(u) \/ Intact(u) \/ (Overlap(cmds[u]) /\ Good(SrcHash(cmds[u])))
    BY Zenon, <1>1, Current DEF SourcesInv
  <2>2. CASE u = k
    BY Zenon, <1>4, <1>5, <2>2
  <2>3. CASE u # k
    <3>1. Overlap(cmds[u]) => stash'[SrcHash(cmds[u])] = stash[SrcHash(cmds[u])]
      BY <1>1, <1>2, <2>3, OneStash
    <3> QED
      BY Zenon, <1>4, <2>1, <3>1 DEF Good
  <2> QED
    BY Zenon, <2>2, <2>3
<1> QED
  BY Zenon, <1>1, <1>6, <1>7, SFrames DEF SInv, Here

\* All is done: nothing is needed any more.
LEMMA FinishKeeps ==
    ASSUME Here, UpdateDone \/ DeleteLastCommandFile
    PROVE  SInv' /\ ~isUnresumable'
<1>1. /\ mode = "update" /\ Finished /\ UNCHANGED <<list, disk>>
      /\ stash' = NoStashFiles /\ stashDir' = FALSE /\ ~isUnresumable'
      /\ \/ mode' = "idle"
         \/ pc = "cmd" /\ mode' = "update" /\ pc' = "cleanup" /\ freeStash' = freeStash
  <2>1. pc = "cleanup" /\ mode = "update" => Finished
    BY Zenon DEF Here, Known, UpdateInv
  <2>2. CASE UpdateDone
    BY Zenon, <2>2 DEF UpdateDone, Goto, command, session, Here
  <2>3. CASE DeleteLastCommandFile
    BY Zenon, <2>1, <2>3 DEF DeleteLastCommandFile, EndUpdate
  <2> QED
    BY Zenon, <2>2, <2>3
<1>2. \A u \in DOMAIN cmds : Done(u)'
  <2>1. \A u \in DOMAIN cmds : Done(u)
    BY <1>1 DEF Here, Known, UpdateInv, Finished, cmds
  <2> QED
    BY Zenon, <1>1, <2>1, IndexIsClean DEF Done, cmds
<1>3. StashedInv' /\ SourcesInv'
  BY Zenon, <1>1, <1>2, StashedNext, SourcesNext
<1>4. DirInv'
  BY Zenon, <1>1 DEF DirInv
<1> QED
  BY Zenon, <1>1, <1>3, <1>4, SFrames DEF SInv

-----------------------------------------------------------------------------
\* Every step of an update of the right partition.
LEMMA StepKeeps ==
    ASSUME Here, Next
    PROVE  SInv' /\ ~isUnresumable'
<1>1. CASE BlockImageVerifyFn \/ BlockImageUpdateFn
  BY Zenon, <1>1, StartKeeps
<1>2. CASE VerifyStep
  BY Zenon, <1>2, VerifyPassKeeps, VerifyStashKeeps, VerifyFreeKeeps, EndKeeps, NeverFails DEF
     VerifyStep
<1>3. CASE UpdateStep
  BY Zenon, <1>3, PassKeeps, LoadKeeps, NeverFails, StashKeeps, FreeKeeps, ZeroNewKeeps,
     WriteKeeps, PartialKeeps, RenameKeeps, IndexKeeps, FreeImplicitKeeps, FinishKeeps DEF UpdateStep
<1>4. CASE IOError \/ LoadStashFails \/ Crash
  BY Zenon, <1>4, EndKeeps, NeverFails
<1> QED
  BY Zenon, <1>1, <1>2, <1>3, <1>4 DEF Next

\* What happened stays on record.
LEMMA RecordGrows ==
    ASSUME [Next]_vars, unhandled' = {}
    PROVE  unhandled = {}
<1>1. unhandled' = unhandled \/ \E e : unhandled' = unhandled \cup e
  <2>1. CASE BlockImageVerifyFn \/ BlockImageUpdateFn
    BY Zenon, <2>1 DEF BlockImageVerifyFn, BlockImageUpdateFn, Start, IndexDeleted, IndexStays
  <2>2. CASE VerifyStep
    BY Zenon, <2>2 DEF VerifyStep, VerifyMoveDiff, VerifyMoveDiffFails, VerifyStash, VerifyFree,
       VerifySkip, VerifyDone, FinalFsync, IndexDeleted, IndexStays, session
  <2>3. CASE UpdateStep
    BY Zenon, <2>3 DEF UpdateStep, SkipExecuted, MoveDiffAlreadyDone, LoadSource, LoadImplicitStash,
       MoveDiffFails, PerformCommandStash, PerformCommandFree, PerformCommandZeroNew,
       PerformCommandErase, WriteStashPartial, WriteStashRename, UpdateLastCommandIndex,
       DiscardBlocks, WriteBlock, FreeImplicitStash, Fsync, UpdateDone, DeleteLastCommandFile,
       FinalFsync, IndexDeleted, IndexStays, Volatile, session
  <2>4. CASE IOError \/ LoadStashFails \/ Crash
    BY Zenon, <2>4 DEF IOError, LoadStashFails, Crash
  <2>5. CASE UNCHANGED vars
    BY Zenon, <2>5 DEF vars
  <2> QED
    BY Zenon, <2>1, <2>2, <2>3, <2>4, <2>5 DEF Next
<1> QED
  BY Zenon, <1>1

\* The list stays what it is.
LEMMA SameList ==
    ASSUME [Next]_vars
    PROVE  list' = list
  BY Zenon DEF Next, VerifyStep, UpdateStep, BlockImageVerifyFn, BlockImageUpdateFn, Start,
     VerifyMoveDiff, VerifyMoveDiffFails, VerifyStash, VerifyFree, VerifySkip, VerifyDone, EndVerify,
     SkipExecuted, MoveDiffAlreadyDone, LoadSource, LoadImplicitStash, MoveDiffFails, EndUpdate,
     PerformCommandStash, PerformCommandFree, PerformCommandZeroNew, PerformCommandErase,
     WriteStashPartial, WriteStashRename, UpdateLastCommandIndex, DiscardBlocks, WriteBlock,
     FreeImplicitStash, Fsync, UpdateDone, DeleteLastCommandFile, IOError, LoadStashFails, Crash, Volatile, session,
     vars

LEMMA RInvInit ==
    ASSUME SafeSetting, Init
    PROVE  RInv
<1> SUFFICES ASSUME list.found = SourceImage PROVE SInv /\ ~isUnresumable
  BY Zenon DEF RInv
<1>1. /\ list \in Lists /\ disk = SourceImage /\ lastCommand = -1 /\ stash = NoStashFiles /\ mode = "idle"
      /\ list.cmds \in Seq(Command) /\ isUnresumable = FALSE
  BY Zenon, ListsOK DEF Init, SafeSetting, NoStashFiles
<1>2. \A k \in DOMAIN cmds : Intact(k) /\ ~Passed(k)
  BY <1>1 DEF Intact, Passed
<1>3. StashedInv /\ SourcesInv
  BY Zenon, <1>2 DEF StashedInv, SourcesInv
<1> QED
  BY Zenon, <1>1, <1>3 DEF SInv, FlightInv, FreeInv, DirInv, MapInv

LEMMA RInvStep ==
    ASSUME SafeSetting, \A l \in Lists : UniqueIds(l), IInv, RInv, [Next]_vars
    PROVE  RInv'
<1>1. list' = list
  BY Zenon, SameList
<1> SUFFICES ASSUME list.found = SourceImage, unhandled' = {} PROVE SInv' /\ ~isUnresumable'
  BY Zenon, <1>1 DEF RInv
<1>2. Here
  <2>1. Known /\ list \in Lists
    BY Zenon, KnownFacts DEF IInv, TypeOK, RunOK
  <2> QED
    BY Zenon, <2>1, ListsOK, RecordGrows DEF RInv, Here
<1>3. CASE Next
  BY Zenon, <1>2, <1>3, StepKeeps
<1>4. CASE UNCHANGED vars
  <2>1. UNCHANGED <<list, disk, stashDir, stash, lastCommand, mode, pc, cmdindex, saved, createdStash,
                    stashMap, isUnresumable, freeStash>>
    BY Zenon, <1>4 DEF vars
  <2>2. StashedInv' /\ SourcesInv'
    <3>1. \A i \in DOMAIN cmds : Passed(i)' => Passed(i)
      BY Zenon, <2>1 DEF Passed
    <3> QED
      BY Zenon, <1>2, <2>1, <3>1, SFrames
  <2>3. FlightInv' /\ FreeInv'
    <3>1. FlightInv /\ FreeInv
      BY Zenon, <1>2 DEF Here, SInv
    <3>2. Cmd' = Cmd /\ (Copies(cmdindex + 1)' <=> Copies(cmdindex + 1))
      BY Zenon, <2>1 DEF Copies, Cmd, cmds
    <3>3. Loads(cmdindex + 1)' = Loads(cmdindex + 1)
      BY Zenon, <2>1 DEF Loads, cmds
    <3>4. Intact(cmdindex + 1)' <=> Intact(cmdindex + 1)
      BY Zenon, <2>1 DEF Intact, cmds
    <3>5. \A id : Good(id)' <=> Good(id)
      BY Zenon, <2>1 DEF Good
    <3> QED
      BY Zenon, <2>1, <3>1, <3>2, <3>3, <3>4, <3>5 DEF FlightInv, FreeInv
  <2>4. DirInv' /\ MapInv'
    <3>1. DirInv /\ MapInv
      BY Zenon, <1>2 DEF Here, SInv
    <3>2. DirInv'
      BY Zenon, <2>1, <3>1 DEF DirInv
    <3>3. cmds' = cmds /\ \A i, id : (Saves(i)' <=> Saves(i)) /\ (Good(id)' <=> Good(id))
      BY Zenon, <2>1 DEF Saves, Good, cmds
    <3>4. MapInv'
      BY Zenon, <2>1, <3>1, <3>3 DEF MapInv
    <3> QED
      BY Zenon, <3>2, <3>4
  <2> QED
    BY Zenon, <1>2, <2>1, <2>2, <2>3, <2>4 DEF SInv, Here
<1> QED
  BY Zenon, <1>3, <1>4

(***************************************************************************)
(* An update of the partition it was made for becomes unresumable only by  *)
(* one of the errors in Unhandled: whatever else interrupts it, wherever   *)
(* it is resumed and however often, LoadSrcTgtVersion3 finds the target,   *)
(* the source or the stash of every command, when the script verifies      *)
(* first, nothing that was written is lost, and no two commands stash      *)
(* under the same id.                                                      *)
(***************************************************************************)
THEOREM UpdateIsResumable ==
    SafeSetting /\ (\A l \in Lists : UniqueIds(l)) => (Spec => []Resumable)
<1> SUFFICES ASSUME SafeSetting, \A l \in Lists : UniqueIds(l) PROVE Spec => []Resumable
  BY Zenon
<1>1. Init => IInv /\ RInv
  BY Zenon, InvInit, RInvInit
<1>2. IInv /\ RInv /\ [Next]_vars => IInv' /\ RInv'
  BY Zenon, InvStep, RInvStep
<1>3. RInv => Resumable
  BY Zenon DEF RInv, Resumable
<1> QED
  BY <1>1, <1>2, <1>3, PTL DEF Spec

-----------------------------------------------------------------------------
(***************************************************************************)
(* What is written, for every list, script and kind of interruption.       *)
(***************************************************************************)
WInv ==
    /\ list \in Lists /\ cmdindex \in 0 .. Len(cmds) /\ written \in Nat
    /\ disk = [b \in Block |-> disk[b]] /\ durable = [b \in Block |-> durable[b]]
    /\ \A b \in Block : durable[b] # disk[b] => b \in AllTargets

\* The blocks a step may change.
Touched == IF mode = "update" /\ ~Finished THEN Elements(Cmd.tgt) ELSE {}

LEMMA TouchedAreTargets ==
    ASSUME WInv
    PROVE  Touched \subseteq AllTargets
<1>1. cmds \in Seq(Command)
  BY Zenon, ListsOK DEF WInv, cmds
<1>2. ~Finished => cmdindex + 1 \in DOMAIN cmds
  BY DEF WInv, Finished, cmds
<1> QED
  BY Zenon, <1>2 DEF Touched, AllTargets, Cmd, cmds

\* A step changes the target of its command, a crash what was not durable, and a fsync
\* nothing that is read.
LEMMA Changes ==
    ASSUME WInv, Next
    PROVE  /\ disk' = [b \in Block |-> disk'[b]]
           /\ \/ \A b \in Block \ Touched : disk'[b] = disk[b]
              \/ Crash /\ \A b \in Block : disk'[b] \in {disk[b], durable[b]}
           /\ durable' \in {durable, disk, disk'}
<1>1. CASE PerformCommandErase \/ DiscardBlocks
  <2>1. disk' \in Discarded(Cmd.tgt) \cup {disk} /\ durable' = durable /\ Touched = Elements(Cmd.tgt)
    BY Zenon, <1>1 DEF PerformCommandErase, DiscardBlocks, Performing, Executing, Touched
  <2>2. \A d \in Discarded(Cmd.tgt) \cup {disk} :
            d = [b \in Block |-> d[b]] /\ \A b \in Block \ Elements(Cmd.tgt) : d[b] = disk[b]
    BY Zenon DEF Discarded, WInv
  <2> QED
    BY Zenon, <2>1, <2>2
<1>2. CASE WriteBlock
  <2>1. /\ disk' = [disk EXCEPT ![Cmd.tgt[written + 1]] = OutputBlock(Cmd, written + 1)]
        /\ durable' = durable /\ Touched = Elements(Cmd.tgt) /\ written < Len(Cmd.tgt) /\ ~Finished
    BY Zenon, <1>2 DEF WriteBlock, Executing, Touched
  <2>2. Cmd.tgt[written + 1] \in Elements(Cmd.tgt)
    <3>1. cmds \in Seq(Command) /\ cmdindex + 1 \in DOMAIN cmds
      BY <2>1, ListsOK DEF WInv, Finished, cmds
    <3>2. Cmd \in Command
      BY <3>1 DEF Cmd, cmds
    <3>3. Cmd.tgt \in Seq(Block)
      BY Zenon, <3>2 DEF Command
    <3> QED
      BY <2>1 DEF Elements, WInv
  <2>3. disk' = [b \in Block |-> disk'[b]] /\ \A b \in Block \ Elements(Cmd.tgt) : disk'[b] = disk[b]
    BY Zenon, <2>1, <2>2 DEF WInv
  <2> QED
    BY Zenon, <2>1, <2>3
<1>3. CASE Crash
  <2>1. CASE list.lossy
    <3>1. PICK S \in SUBSET Block : disk' = [b \in Block |-> IF b \in S THEN durable[b] ELSE disk[b]]
      BY Zenon, <1>3, <2>1 DEF Crash, AfterPowerLoss
    <3> QED
      BY Zenon, <1>3, <3>1 DEF Crash
  <2>2. CASE ~list.lossy
    BY Zenon, <1>3, <2>2 DEF Crash, WInv
  <2> QED
    BY Zenon, <2>1, <2>2
<1>4. CASE ~(PerformCommandErase \/ DiscardBlocks \/ WriteBlock \/ Crash)
  <2>1. disk' = disk /\ durable' \in {durable, disk}
    BY Zenon, <1>4 DEF Next, VerifyStep, UpdateStep, BlockImageVerifyFn, BlockImageUpdateFn,
       Start, VerifyMoveDiff, VerifyMoveDiffFails, VerifyStash, VerifyFree, VerifySkip, VerifyDone,
       EndVerify, FinalFsync, SkipExecuted, MoveDiffAlreadyDone, LoadSource, LoadImplicitStash,
       MoveDiffFails, EndUpdate, PerformCommandStash, PerformCommandFree, PerformCommandZeroNew,
       WriteStashPartial, WriteStashRename, UpdateLastCommandIndex, FreeImplicitStash, Fsync,
       UpdateDone, DeleteLastCommandFile, IOError, LoadStashFails, Volatile, persistent
  <2> QED
    BY Zenon, <2>1 DEF WInv
<1> QED
  BY Zenon, <1>1, <1>2, <1>3, <1>4

LEMMA WInvStep == WInv /\ [Next]_vars => WInv'
<1> SUFFICES ASSUME WInv, [Next]_vars PROVE WInv'
  BY Zenon
<1>1. list' = list /\ AllTargets' = AllTargets /\ cmds' = cmds
  BY Zenon, SameList DEF AllTargets, cmds
<1>2. CASE UNCHANGED vars
  BY Zenon, <1>1, <1>2 DEF WInv, vars
<1>3. CASE Next
  <2>1. cmds \in Seq(Command) /\ Len(cmds) \in Nat /\ cmdindex \in Nat /\ cmdindex <= Len(cmds) /\ written \in Nat
    BY ListsOK DEF WInv, cmds
  <2>2. /\ cmdindex' \in {cmdindex, 0} \/ (~Finished /\ cmdindex' = cmdindex + 1)
        /\ written' \in {written, 0, written + 1}
    BY Zenon, <1>3 DEF Next, VerifyStep, UpdateStep, BlockImageVerifyFn, BlockImageUpdateFn, Start,
       VerifyMoveDiff, VerifyMoveDiffFails, VerifyStash, VerifyFree, VerifySkip, VerifyDone, EndVerify,
       SkipExecuted, MoveDiffAlreadyDone, LoadSource, LoadImplicitStash, MoveDiffFails, EndUpdate,
       PerformCommandStash, PerformCommandFree, PerformCommandZeroNew, PerformCommandErase,
       WriteStashPartial, WriteStashRename, UpdateLastCommandIndex, DiscardBlocks, WriteBlock,
       FreeImplicitStash, Fsync, UpdateDone, DeleteLastCommandFile, IOError, LoadStashFails, Crash, Volatile,
       Performing, Executing, NextCommand, Goto, command
  <2>3. cmdindex' \in 0 .. Len(cmds) /\ written' \in Nat
    BY <2>1, <2>2 DEF Finished, cmds
  <2>4. /\ disk' = [b \in Block |-> disk'[b]] /\ durable' = [b \in Block |-> durable'[b]]
        /\ \A b \in Block : durable'[b] # disk'[b] => b \in AllTargets
    <3>1. durable' = [b \in Block |-> durable'[b]] /\ disk' = [b \in Block |-> disk'[b]]
      BY Zenon, <1>3, Changes DEF WInv
    <3>2. CASE Crash
      BY Zenon, <3>1, <3>2 DEF Crash
    <3>3. CASE ~Crash
      <4>1. \A b \in Block \ AllTargets : disk'[b] = disk[b] /\ durable[b] = disk[b]
        BY Zenon, <1>3, Changes, TouchedAreTargets DEF WInv
      <4> QED
        BY Zenon, <1>3, <3>1, <4>1, Changes
    <3> QED
      BY Zenon, <3>2, <3>3
  <2> QED
    BY Zenon, <1>1, <2>3, <2>4 DEF WInv
<1> QED
  BY Zenon, <1>2, <1>3

(***************************************************************************)
(* Only targets of commands are ever written or discarded, by any update,  *)
(* and block_image_verify writes nothing at all; what a loss of power      *)
(* brings back are earlier contents of such blocks.                        *)
(***************************************************************************)
THEOREM OnlyTargetsAreWritten == Spec => OnlyTargetsWritten
<1>1. Init => WInv
  BY ListsOK DEF Init, WInv
<1>2. WInv /\ [Next]_vars => WInv'
  BY Zenon, WInvStep
<1>3. WInv /\ [Next]_vars =>
         [\A b \in Block : disk'[b] # disk[b] =>
             b \in AllTargets /\ (mode = "verify" => mode' = "idle")]_vars
  <2> SUFFICES ASSUME WInv, Next, NEW b \in Block, disk'[b] # disk[b]
               PROVE  b \in AllTargets /\ (mode = "verify" => mode' = "idle")
    BY Zenon
  <2>1. CASE b \in Touched
    BY Zenon, <2>1, TouchedAreTargets DEF Touched
  <2>2. CASE b \notin Touched
    <3>1. Crash /\ disk'[b] \in {disk[b], durable[b]}
      BY Zenon, <2>2, Changes
    <3> QED
      BY Zenon, <3>1 DEF Crash, WInv
  <2> QED
    BY Zenon, <2>1, <2>2
<1> QED
  BY <1>1, <1>2, <1>3, PTL DEF Spec, OnlyTargetsWritten
=============================================================================
