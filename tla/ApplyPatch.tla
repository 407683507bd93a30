----------------------------- MODULE ApplyPatch -----------------------------
(***************************************************************************)
(* applypatch/applypatch.cpp and freecache.cpp: apply_patch(),             *)
(* apply_patch_check(), apply_patch_space() and the flash mode, which      *)
(* bring one EMMC partition from a source image to a target image.         *)
(*                                                                         *)
(* An image is the sequence of the contents of its 4096-byte pieces, and   *)
(* stands for its SHA-1 as well, so hashes do not collide.  Images of      *)
(* different lengths share a partition.  What survives a crash is the      *)
(* partitions, the copy in cache_temp_source and the other files on        *)
(* /cache.                                                                 *)
(***************************************************************************)
EXTENDS Integers, Sequences, FiniteSetsExt

CONSTANTS
    Piece,       \* contents a piece of a partition can have
    Junk,        \* what a faulty write leaves in a piece
    Installs,    \* what may be installed (see InstallOK)
    Starts,      \* what /cache and the partitions may hold at first
    FileSize,    \* FileSize[f]: size of the expendable file f of /cache
    MaxFaults    \* bound on crashes, faulty writes and I/O errors

NoFile == <<"no file">>

Released == -1

Prefix(s, n) == SubSeq(s, 1, n)

Holds(part, img) == Len(img) <= Len(part) /\ Prefix(part, Len(img)) = img

(***************************************************************************)
(* An installation: the partitions it reads (src) and writes (tgt), the    *)
(* images their EMMC: names list with a size and a hash, the patches with  *)
(* the source each is for and what it produces, the target's hash and the  *)
(* size of /cache.  A flash has no patch: image is the image file it       *)
(* writes, NoFile if that cannot be read.  A patch with an unknown header  *)
(* produces NoFile.                                                        *)
(***************************************************************************)
Contents == Seq(Piece) \ {<<>>}

InstallOK(x) ==
    /\ x.srcNames \subseteq Contents /\ x.tgtNames \subseteq Contents
    /\ x.src = x.tgt => x.srcNames = x.tgtNames
    /\ x.patches \in Seq([src : Contents, out : Contents \cup {NoFile}])
    /\ x.image \in Seq(Piece) \cup {NoFile}
    /\ x.target \in Contents
    /\ x.cache \in Nat

\* What is there at first: partitions large enough for what may be installed, the copy
\* an interrupted call has left, if any, and other files.
StartOK(s) ==
    /\ \A x \in Installs :
          /\ {x.src, x.tgt} \subseteq DOMAIN s.parts
          /\ Len(x.target) <= Len(s.parts[x.tgt])
    /\ \A p \in DOMAIN s.parts : s.parts[p] \in Seq(Piece)
    /\ s.saved \in Seq(Piece) \cup {NoFile}
    /\ s.files \subseteq DOMAIN FileSize

ASSUME ConstantsOK ==
    /\ Junk \in Piece /\ NoFile \notin Seq(Piece)
    /\ MaxFaults \in Nat
    /\ \A x \in Installs : InstallOK(x)
    /\ \A s \in Starts : StartOK(s)
    /\ DOMAIN FileSize \subseteq Nat
    /\ \A f \in DOMAIN FileSize : FileSize[f] \in Nat \ {0}
    /\ \A fs \in SUBSET DOMAIN FileSize : SumFunctionOnSet(FileSize, fs) \in Nat

VARIABLES
    job,       \* the installation
    parts,     \* parts[p]: the pieces of partition p
    saved,     \* cache_temp_source, NoFile if there is none
    files,     \* expendable files on /cache
    pc,        \* step of the running call, "idle" between calls
    source,    \* source_file or copy_file: the source in memory
    fromCopy,  \* was it loaded from cache_temp_source?
    output,    \* what WriteToPartition is given
    start,     \* pieces written so far by SaveFileContents or WriteToPartition
    listed,    \* the files FindExpendableFiles found that are not yet deleted
    needed,    \* bytes_needed of MakeFreeSpaceOnCache
    then,      \* the step after MakeFreeSpaceOnCache
    answer,    \* what the last call returned
    faults     \* crashes, faulty writes and I/O errors so far

disk == <<parts, saved, files>>
memory == <<source, fromCopy, output, start, listed, needed, then>>
vars == <<job, disk, pc, memory, answer, faults>>

\* The free space on /cache when fs are its files besides the copy.
FreeSpaceForFile(fs) ==
    job.cache - SumFunctionOnSet(FileSize, fs) - (IF saved = NoFile THEN 0 ELSE Len(saved))

Init ==
    /\ job \in Installs
    /\ \E s \in Starts : parts = s.parts /\ saved = s.saved /\ files = s.files
    /\ FreeSpaceForFile(files) >= 0
    /\ pc = "idle" /\ source = <<>> /\ fromCopy = FALSE /\ output = <<>> /\ start = 0
    /\ listed = {} /\ needed = 0 /\ then = "return"
    /\ answer = "none" /\ faults = 0

Answer(a) == /\ answer' = a /\ pc' = "idle"
             /\ source' = <<>> /\ fromCopy' = FALSE /\ output' = <<>> /\ start' = 0
             /\ listed' = {} /\ needed' = 0 /\ then' = "return"

Fault == faults < MaxFaults /\ faults' = faults + 1

-----------------------------------------------------------------------------
(***************************************************************************)
(* LoadPartitionContents: the shortest image the name lists that the       *)
(* partition holds a copy of.  A bare name lists none and cannot be read.  *)
(***************************************************************************)
LoadPartitionContents(p, names) ==
    LET hits == {img \in names : Holds(parts[p], img)}
    IN  IF hits = {} THEN NoFile
        ELSE CHOOSE img \in hits : \A other \in hits : Len(img) <= Len(other)

FindMatchingPatch(img) == {i \in DOMAIN job.patches : job.patches[i].src = img}

PatchFor(img) == job.patches[Min(FindMatchingPatch(img))]

(***************************************************************************)
(* applypatch_check.  It is called with the hashes in shas, or with none,  *)
(* when loading the partition is all it asks for.                          *)
(***************************************************************************)
\* Mutant: any copy will do.
AnyCopyPasses(shas) ==
    LET file == LoadPartitionContents(job.src, job.srcNames)
    IN  (file # NoFile /\ (shas = {} \/ file \in shas)) \/ saved # NoFile

CheckPasses(shas) ==
    LET file == LoadPartitionContents(job.src, job.srcNames) IN
    \/ file # NoFile /\ (shas = {} \/ file \in shas)
    \/ saved # NoFile /\ saved \in shas

Check(shas) ==
    /\ pc = "idle" /\ job.patches # <<>>
    /\ Answer(IF CheckPasses(shas) THEN "checked" ELSE "rejected")
    /\ UNCHANGED <<job, disk, faults>>

\* MakeFreeSpaceOnCache(bytes) is called by GenerateTarget and CacheSizeCheck.
MakeFreeSpace(bytes, next) == pc' = "free" /\ needed' = bytes /\ then' = next

\* apply_patch_space: an update that is a retry does not look.
ApplyPatchSpace ==
    /\ pc = "idle" /\ job.patches # <<>>
    /\ \/ /\ MakeFreeSpace(Len(job.patches[1].src), "return")
          /\ answer' = "none"
          /\ UNCHANGED <<source, fromCopy, output, start, listed>>
       \/ faults > 0 /\ Answer("space")
    /\ UNCHANGED <<job, disk, faults>>

(***************************************************************************)
(* applypatch.  GenerateTarget looks at the patch's header before anything *)
(* else; a patch that produces NoFile has an unknown one.                  *)
(***************************************************************************)
GenerateTarget(img, copied) ==
    IF PatchFor(img).out = NoFile
    THEN Answer("failed")
    ELSE /\ MakeFreeSpace(Len(img), "truncate")
         /\ source' = img /\ fromCopy' = copied
         /\ answer' = "none"
         /\ UNCHANGED <<output, start, listed>>

\* What applypatch uses as its source before it turns to the copy.
LoadSource(target) ==
    IF target = NoFile \/ job.src # job.tgt
    THEN LoadPartitionContents(job.src, job.srcNames) ELSE target

\* Mutant: the copy is not tried.
ApplyWithoutCopy(target, file) ==
    \/ target = job.target /\ Answer("ok")
    \/ /\ target # job.target
       /\ IF file # NoFile /\ FindMatchingPatch(file) # {}
          THEN GenerateTarget(file, FALSE) ELSE Answer("bad source")

ApplyWith(target, file) ==
    \/ target = job.target /\ Answer("ok")
    \/ /\ target # job.target
       /\ file # NoFile /\ FindMatchingPatch(file) # {}
       /\ GenerateTarget(file, FALSE)
    \/ /\ target # job.target
       /\ file = NoFile \/ FindMatchingPatch(file) = {}
       /\ IF saved = NoFile \/ FindMatchingPatch(saved) = {}
          THEN Answer("bad source")
          ELSE GenerateTarget(saved, TRUE)

Apply ==
    /\ pc = "idle" /\ job.patches # <<>>
    /\ LET target == LoadPartitionContents(job.tgt, job.tgtNames)
       IN  ApplyWith(target, LoadSource(target))
    /\ UNCHANGED <<job, disk, faults>>

\* A read of the target, of the source or of both fails, and applypatch goes on as if
\* the contents were bad.
ApplyUnreadable ==
    /\ pc = "idle" /\ job.patches # <<>>
    /\ Fault
    /\ \/ \E file \in {NoFile, LoadSource(NoFile)} : ApplyWith(NoFile, file)
       \/ /\ job.src # job.tgt
          /\ ApplyWith(LoadPartitionContents(job.tgt, job.tgtNames), NoFile)
    /\ UNCHANGED <<job, disk>>

(***************************************************************************)
(* applypatch_flash.  When the image file cannot be read, WriteToPartition *)
(* is called with an empty vector's data(), and its write fails.           *)
(***************************************************************************)
Flash ==
    /\ pc = "idle" /\ job.patches = <<>>
    /\ IF Holds(parts[job.tgt], job.target) THEN Answer("ok")
       ELSE IF job.image # job.target THEN Answer("failed")
       ELSE /\ pc' = "write" /\ output' = job.image /\ answer' = "none"
            /\ UNCHANGED <<source, fromCopy, start, listed, needed, then>>
    /\ UNCHANGED <<job, disk, faults>>

-----------------------------------------------------------------------------
(***************************************************************************)
(* freecache.cpp.  The loop stops after a file that did not free enough,   *)
(* and goes on deleting as long as there is enough.                        *)
(***************************************************************************)
FreeDone == IF then = "return"
            THEN Answer("space")
            ELSE /\ pc' = "truncate" /\ listed' = {}
                 /\ UNCHANGED <<source, fromCopy, output, start, needed, then, answer>>

MakeFreeSpaceOnCache ==
    /\ pc = "free"
    /\ \/ FreeSpaceForFile(files) >= needed /\ FreeDone
       \/ /\ FreeSpaceForFile(files) < needed /\ files = {}
          /\ Answer("no space")
       \/ /\ FreeSpaceForFile(files) < needed /\ files # {}
          /\ pc' = "unlink" /\ listed' = files
          /\ UNCHANGED <<source, fromCopy, output, start, needed, then, answer>>
    /\ UNCHANGED <<job, disk, faults>>

StopFreeing(free) == free < needed

\* The loop has deleted the file f and found this much space.
Unlinked(f, free) ==
    /\ files' = files \ {f}
    /\ IF listed # {f} /\ ~StopFreeing(free)
       THEN /\ listed' = listed \ {f}
            /\ UNCHANGED <<pc, source, fromCopy, output, start, needed, then, answer>>
       ELSE IF free >= needed THEN FreeDone ELSE Answer("no space")

Unlink ==
    /\ pc = "unlink"
    /\ LET f == Min(listed) IN Unlinked(f, FreeSpaceForFile(files \ {f}))
    /\ UNCHANGED <<job, parts, saved, faults>>

\* statfs fails: FreeSpaceForFile returns (size_t)-1, which is always enough.
StatfsFails ==
    /\ Fault
    /\ \/ pc = "free" /\ FreeDone /\ UNCHANGED files
       \/ pc = "unlink" /\ Unlinked(Min(listed), needed)
    /\ UNCHANGED <<job, parts, saved>>

-----------------------------------------------------------------------------
(***************************************************************************)
(* SaveFileContents to cache_temp_source: open with O_TRUNC and O_SYNC,    *)
(* write, fsync, close.                                                    *)
(***************************************************************************)
Truncate ==
    /\ pc = "truncate"
    /\ saved' = <<>> /\ pc' = "save"
    /\ UNCHANGED <<job, parts, files, memory, answer, faults>>

SavePiece ==
    /\ pc = "save" /\ start < Len(source)
    /\ FreeSpaceForFile(files) > 0
    /\ saved' = Append(saved, source[start + 1]) /\ start' = start + 1
    /\ UNCHANGED <<job, parts, files, pc, source, fromCopy, output, listed, needed, then,
                   answer, faults>>

\* Mutant: the short write goes unnoticed.
ShortCopyTaken ==
    /\ pc = "save" /\ start < Len(source)
    /\ FreeSpaceForFile(files) = 0
    /\ pc' = "patch"
    /\ UNCHANGED <<job, disk, memory, answer, faults>>

SaveFull ==
    /\ pc = "save" /\ start < Len(source)
    /\ FreeSpaceForFile(files) = 0
    /\ Answer("failed")
    /\ UNCHANGED <<job, disk, faults>>

Saved ==
    /\ pc = "save" /\ start = Len(source)
    /\ pc' = "patch"
    /\ UNCHANGED <<job, disk, memory, answer, faults>>

\* The rest of GenerateTarget: the patch is applied in memory and its output checked.
Patch ==
    /\ pc = "patch"
    /\ LET out == PatchFor(source).out IN
       IF out # job.target
       THEN Answer("failed")
       ELSE /\ pc' = "write" /\ output' = out /\ start' = 0
            /\ UNCHANGED <<source, fromCopy, listed, needed, then, answer>>
    /\ UNCHANGED <<job, disk, faults>>

(***************************************************************************)
(* WriteToPartition, with O_SYNC.  ota_close leaves the descriptor at -1,  *)
(* and the one the verification reads from is another variable of the same *)
(* name.  So a second attempt fails in lseek, and the ota_close after the  *)
(* loop fails when the verification succeeded: neither branch returns 0.   *)
(***************************************************************************)
WritePiece ==
    /\ pc = "write" /\ start < Len(output)
    /\ \/ parts' = [parts EXCEPT ![job.tgt][start + 1] = output[start + 1]] /\ UNCHANGED faults
       \/ parts' = [parts EXCEPT ![job.tgt][start + 1] = Junk] /\ Fault
    /\ start' = start + 1
    /\ UNCHANGED <<job, saved, files, pc, source, fromCopy, output, listed, needed, then, answer>>

Written ==
    /\ pc = "write" /\ start = Len(output)
    /\ pc' = "verify"
    /\ UNCHANGED <<job, disk, memory, answer, faults>>

\* close(): ota_close releases the descriptor, so a second one closes -1.
OtaClose(fd) == IF fd = Released THEN -1 ELSE 0

\* Mutant: what was written is not compared.
VerifyNothing ==
    /\ pc = "verify"
    /\ saved' = IF job.patches # <<>> THEN NoFile ELSE saved
    /\ Answer("ok")
    /\ UNCHANGED <<job, parts, files, faults>>

Verify ==
    /\ pc = "verify"
    /\ IF Holds(parts[job.tgt], output) /\ OtaClose(Released) = 0
       THEN /\ saved' = IF job.patches # <<>> THEN NoFile ELSE saved
            /\ Answer("ok")
       ELSE Answer("failed") /\ UNCHANGED saved
    /\ UNCHANGED <<job, parts, files, faults>>

-----------------------------------------------------------------------------
\* A call of open, write, fsync or read fails and is reported.
IoError ==
    /\ pc \in {"truncate", "save", "write", "verify"}
    /\ Fault
    /\ Answer("failed")
    /\ UNCHANGED <<job, disk>>

\* The process is killed; a piece being written to the partition is lost.
Crash ==
    /\ pc # "idle"
    /\ Fault
    /\ \/ UNCHANGED parts
       \/ /\ pc = "write" /\ start < Len(output)
          /\ parts' = [parts EXCEPT ![job.tgt][start + 1] = Junk]
    /\ Answer("none")
    /\ UNCHANGED <<job, saved, files>>

Step == \/ MakeFreeSpaceOnCache \/ Unlink
        \/ Truncate \/ SavePiece \/ SaveFull \/ Saved \/ Patch
        \/ WritePiece \/ Written \/ Verify

Shas == {{}, {job.patches[i].src : i \in DOMAIN job.patches}}

Next == \/ Apply \/ ApplyUnreadable \/ Flash \/ ApplyPatchSpace
        \/ \E shas \in Shas : Check(shas)
        \/ Step \/ StatfsFails \/ IoError \/ Crash

Spec == Init /\ [][Next]_vars

(***************************************************************************)
(* A call that has begun goes on, and an installation that has not         *)
(* succeeded is tried again: the package is installed once more after an   *)
(* interruption.  Each run of the script calls apply_patch after its       *)
(* checks, so the checks cannot keep it from being called for ever.        *)
(***************************************************************************)
FairSpec == Spec /\ WF_vars(Step) /\ SF_vars(Apply) /\ WF_vars(Flash)

-----------------------------------------------------------------------------
\* The image a call that starts now would work from.
Start == LET file == LoadSource(LoadPartitionContents(job.tgt, job.tgtNames))
         IN  IF file # NoFile /\ FindMatchingPatch(file) # {} THEN file ELSE saved

Yields(img) == FindMatchingPatch(img) # {} /\ PatchFor(img).out = job.target

\* The running call, or the next one, has what it takes to produce the target.
Recoverable == IF job.patches = <<>> THEN job.image = job.target
               ELSE Yields(Start) \/ (source # <<>> /\ Yields(source))

Image == IF Holds(parts[job.tgt], job.target) THEN "new"
         ELSE IF Recoverable THEN "old" ELSE "lost"

Promise == INSTANCE AtomicUpdate WITH image <- Image

(***************************************************************************)
(* KeepsItsPromise: the comments above applypatch, "safe (the original     *)
(* file is not touched until we have the desired replacement for it) and   *)
(* idempotent", and above ApplyPatchFn, "it will not be left in an         *)
(* unrecoverable intermediate state": a fault never leaves the device with *)
(* neither the target nor a source to start again from, and 0 is returned  *)
(* only when the partition holds the target.                               *)
(***************************************************************************)
KeepsItsPromise == Promise!Spec

\* SaveFileContents has truncated the file its source was loaded from.
CopyTruncated == fromCopy /\ pc = "save"

(***************************************************************************)
(* LostOnlyWithTheCopy: the promise of applypatch is broken in one place.  *)
(* A call that works from cache_temp_source writes that file anew, and the *)
(* source is lost if the call ends before it has.  No other crash, faulty  *)
(* write, failing call or full /cache loses it, and 0 is returned only     *)
(* when the partition holds the target.                                    *)
(***************************************************************************)
LostOnlyWithTheCopy ==
    /\ Promise!Init
    /\ [][\/ Promise!Next
          \/ CopyTruncated /\ pc' = "idle" /\ Image' = "lost" /\ answer' # "ok"]_<<Image, answer>>

\* apply_patch_check with the patches' hashes tells whether apply_patch has a source:
\* when it passes, a call of apply_patch right after it does not end in "source file
\* is bad" or "copy file doesn't match source SHA-1s either".
CheckedSourceIsFound ==
    pc = "idle" /\ job.patches # <<>> =>
        LET shas == {job.patches[i].src : i \in DOMAIN job.patches} IN
        CheckPasses(shas) => \/ Holds(parts[job.tgt], job.target)
                             \/ FindMatchingPatch(Start) # {}

\* While a partition is overwritten in place the copy on /cache is whole: the comment
\* in GenerateTarget, "We still write the original source to cache, in case the
\* partition write is interrupted".
CopyBeforeWrite ==
    pc \in {"write", "verify"} /\ job.patches # <<>> => saved = source

\* There is room on /cache for the copy and its replacement.
RoomForCopies == \A i \in DOMAIN job.patches : 2 * Len(job.patches[i].src) <= job.cache

\* With that room, an installation that has a source and is tried again ends with the
\* target on the partition in spite of the faults, unless they lose the source (see
\* LostOnlyWithTheCopy).
EventuallyInstalled == (Image = "old" /\ RoomForCopies) ~> (Image \in {"new", "lost"})
=============================================================================
