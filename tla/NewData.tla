------------------------------ MODULE NewData -------------------------------
(***************************************************************************)
(* The two threads of block_image_update (updater/blockimg.cpp).  The main *)
(* thread executes the transfer list; a background thread expands the new  *)
(* data of the package and writes it to the target of the new command the  *)
(* main thread has reached.  They share a NewThreadInfo on the stack of    *)
(* PerformBlockImageUpdate.                                                *)
(*                                                                         *)
(* Everything a thread does between pthread_mutex_lock and the following   *)
(* unlock or pthread_cond_wait is one step.  Data is counted in blocks.    *)
(***************************************************************************)
EXTENDS Integers, Sequences

CONSTANTS
    Lists,        \* the new commands of the possible transfer lists, see ListsOK
    Streams,      \* new.dat: is it compressed with brotli, and what pieces it comes in
    BufferSize    \* output buffer of receive_brotli_new_data

\* A new command: its target has ranges that end after ends[1], ends[2], ...
\* blocks of its data; its data starts at position `at` of the stream.
Blocks(c) == c.ends[Len(c.ends)]

RangeLen(c, i) == IF i = 1 THEN c.ends[1] ELSE c.ends[i] - c.ends[i - 1]

NewCommand == [at : Nat, ends : Seq(Nat)]

ASSUME ListsOK ==
    \A l \in Lists :
        /\ l \in Seq(NewCommand)
        /\ \A k \in DOMAIN l :
              /\ l[k].ends # <<>> /\ l[k].ends[1] > 0
              /\ \A i, j \in DOMAIN l[k].ends : i < j => l[k].ends[i] < l[k].ends[j]
              /\ l[k].at = IF k = 1 THEN 0 ELSE l[k - 1].at + Blocks(l[k - 1])

ASSUME StreamsOK ==
    /\ Streams \subseteq [brotli : BOOLEAN, pieces : Seq(Nat)]
    /\ \A s \in Streams : ~s.brotli => \A i \in DOMAIN s.pieces : s.pieces[i] > 0
    /\ BufferSize \in Nat \ {0}

Threads == {"main", "receiver"}

NoWriter == [next |-> -1, left |-> 0, bytes |-> 0]

Smaller(a, b) == IF a < b THEN a ELSE b

VARIABLES
    list,               \* the new commands of the list
    brotli,             \* nti.brotli_compressed
    chunks,             \* pieces of the stream not yet delivered
    writer,             \* nti.writer: ranges begun, rest of the range, bytes_written
    receiverAvailable,  \* nti.receiver_available
    waiting,            \* threads blocked in pthread_cond_wait(nti.cv)
    nti,                \* does the NewThreadInfo exist?
    mpc,                \* where the main thread is
    cur,                \* the new command reached
    done,               \* new commands that returned 0
    rc,                 \* rc
    rpc,                \* where the background thread is
    size,               \* decoded data of this piece not yet written
    input,              \* brotli: compressed data of this piece is left
    want,               \* what Write has still to write
    pos,                \* stream position of `data`
    image               \* image[k][j]: stream position in block j of command k, 0 if none

package == <<list, brotli>>
main == <<mpc, cur, done, rc>>
receiver == <<rpc, size, input, want, pos>>
shared == <<writer, receiverAvailable, waiting, nti>>
vars == <<list, brotli, chunks, writer, receiverAvailable, waiting, nti, mpc, cur, done,
          rc, rpc, size, input, want, pos, image>>

DataOK ==
    /\ list \in Lists
    /\ chunks \in Seq(Nat)
    /\ writer \in [next : Int, left : Int, bytes : Int]
    /\ DOMAIN image = DOMAIN list
    /\ \A k \in DOMAIN list : image[k] \in [1 .. Blocks(list[k]) -> Nat]

CountsOK ==
    /\ cur \in 0 .. Len(list) /\ done \in 0 .. cur /\ rc \in {0, -1}
    /\ size \in Nat /\ want \in Nat /\ pos \in Nat

ThreadsOK ==
    /\ receiverAvailable \in BOOLEAN /\ nti \in BOOLEAN /\ input \in BOOLEAN
    /\ brotli \in BOOLEAN
    /\ waiting \subseteq Threads
    /\ mpc \in {"create", "header", "loop", "wait", "end", "join", "returned"}
    /\ rpc \in {"none", "process", "lock", "decode", "write", "clear", "finish", "exited"}

\* TypeOK: the values the variables of the two threads can have.
TypeOK == DataOK /\ CountsOK /\ ThreadsOK

Init ==
    /\ list \in Lists
    /\ \E s \in Streams : brotli = s.brotli /\ chunks = s.pieces
    /\ writer = NoWriter /\ receiverAvailable = TRUE /\ waiting = {} /\ nti = TRUE
    /\ mpc = "create" /\ cur = 0 /\ done = 0 /\ rc = -1
    /\ rpc = "none" /\ size = 0 /\ input = FALSE /\ want = 0 /\ pos = 0
    /\ image = [k \in DOMAIN list |-> [j \in 1 .. Blocks(list[k]) |-> 0]]

-----------------------------------------------------------------------------
(***************************************************************************)
(* The main thread.                                                        *)
(***************************************************************************)
Return(value) == mpc' = "returned" /\ rc' = value /\ nti' = FALSE

PthreadCreate ==
    /\ mpc = "create"
    /\ \/ mpc' = "header" /\ rpc' = "process" /\ UNCHANGED <<rc, nti>>
       \/ Return(-1) /\ UNCHANGED rpc
    /\ UNCHANGED <<package, chunks, writer, receiverAvailable, waiting, cur, done,
                   size, input, want, pos, image>>

\* The header of the transfer list is parsed after the thread was started:
\* an error in it, or a list with no block to write, returns at once.
ParseHeader ==
    /\ mpc = "header"
    /\ \/ mpc' = "loop" /\ UNCHANGED <<rc, nti>>
       \/ \E value \in {0, -1} : Return(value)
    /\ UNCHANGED <<package, chunks, writer, receiverAvailable, waiting, cur, done,
                   receiver, image>>

\* Another command, or the fsync after a command, fails.
CommandFails ==
    /\ mpc = "loop"
    /\ mpc' = "end"
    /\ UNCHANGED <<package, chunks, shared, cur, done, rc, receiver, image>>

\* PerformCommandNew up to the first pthread_cond_wait.
PerformCommandNew ==
    /\ mpc = "loop" /\ cur < Len(list)
    /\ cur' = cur + 1
    /\ writer' = [next |-> 0, left |-> 0, bytes |-> 0]
    /\ IF receiverAvailable
       THEN mpc' = "wait" /\ waiting' = {"main"}
       ELSE mpc' = "end" /\ waiting' = {}
    /\ UNCHANGED <<package, chunks, receiverAvailable, nti, done, rc, receiver, image>>

\* Mutant: the condition is not tested again after pthread_cond_wait.
WakeupTrusted ==
    /\ mpc = "wait" /\ "main" \notin waiting
    /\ mpc' = "loop" /\ done' = cur /\ UNCHANGED waiting
    /\ UNCHANGED <<package, chunks, writer, receiverAvailable, nti, cur, rc, receiver, image>>

\* PerformCommandNew after a pthread_cond_wait.
NewDataWritten ==
    /\ mpc = "wait" /\ "main" \notin waiting
    /\ \/ writer = NoWriter /\ mpc' = "loop" /\ done' = cur /\ UNCHANGED waiting
       \/ /\ writer # NoWriter /\ ~receiverAvailable
          /\ mpc' = "end" /\ UNCHANGED <<done, waiting>>
       \/ /\ writer # NoWriter /\ receiverAvailable
          /\ waiting' = waiting \cup {"main"} /\ UNCHANGED <<mpc, done>>
    /\ UNCHANGED <<package, chunks, writer, receiverAvailable, nti, cur, rc, receiver, image>>

AllCommandsDone ==
    /\ mpc = "loop" /\ cur = Len(list)
    /\ rc' = 0
    /\ mpc' = "end"
    /\ UNCHANGED <<package, chunks, shared, cur, done, receiver, image>>

\* pbiudone: end the receiver, then wait for it.
EndReceiver ==
    /\ mpc = "end"
    /\ receiverAvailable' = FALSE
    /\ waiting' = {}
    /\ mpc' = "join"
    /\ UNCHANGED <<package, chunks, writer, nti, cur, done, rc, receiver, image>>

PthreadJoin ==
    /\ mpc = "join" /\ rpc = "exited"
    /\ Return(rc)
    /\ UNCHANGED <<package, chunks, writer, receiverAvailable, waiting, cur, done, receiver, image>>

-----------------------------------------------------------------------------
(***************************************************************************)
(* The background thread: receive_new_data, or receive_brotli_new_data, as *)
(* the callback of ProcessZipEntryContents.                                *)
(***************************************************************************)
More == size > 0 \/ input

\* ProcessZipEntryContents delivers the next piece, or ends.
ProcessZipEntryContents ==
    /\ rpc = "process"
    /\ \/ /\ chunks # <<>>
          /\ size' = Head(chunks) /\ input' = brotli /\ chunks' = Tail(chunks)
          /\ rpc' = "lock"
       \/ rpc' = "finish" /\ UNCHANGED <<size, input, chunks>>
    /\ UNCHANGED <<package, shared, main, want, pos, image>>

\* The callback has used up its data and returns true.
ReceiveDone ==
    /\ rpc = "lock" /\ ~More
    /\ rpc' = "process"
    /\ UNCHANGED <<package, chunks, shared, main, size, input, want, pos, image>>

\* Wait for nti->writer to be non-null.
WaitForWriter ==
    /\ rpc = "lock" /\ More /\ "receiver" \notin waiting
    /\ \/ writer = NoWriter /\ ~receiverAvailable /\ rpc' = "finish" /\ UNCHANGED waiting
       \/ /\ writer = NoWriter /\ receiverAvailable
          /\ waiting' = waiting \cup {"receiver"} /\ UNCHANGED rpc
       \/ writer # NoWriter /\ rpc' = "decode" /\ UNCHANGED waiting
    /\ UNCHANGED <<package, chunks, writer, receiverAvailable, nti, main, size, input, want, pos,
                   image>>

-----------------------------------------------------------------------------
(***************************************************************************)
(* From here on the background thread owns the writer (RangeSinkWriter).   *)
(***************************************************************************)
AvailableSpace == Blocks(list[cur]) - writer.bytes

Finished == writer.next = Len(list[cur].ends) /\ writer.left = 0

\* Mutant: the size of the piece does not bound what is written.
DecodePastPiece ==
    /\ rpc = "decode"
    /\ want' = AvailableSpace
    /\ rpc' = "write"
    /\ UNCHANGED <<package, chunks, shared, main, size, input, pos, image>>

\* What goes to the next Write: for brotli, the output of one call of the
\* decoder, which takes all input unless its output buffer is full.
Decode ==
    /\ rpc = "decode"
    /\ \/ /\ ~brotli
          /\ want' = Smaller(size, AvailableSpace)
          /\ rpc' = "write" /\ UNCHANGED input
       \/ /\ brotli
          /\ LET buffer == Smaller(BufferSize, AvailableSpace) IN
                IF buffer = 0
                THEN rpc' = "finish" /\ UNCHANGED <<want, input>>
                ELSE /\ want' = Smaller(buffer, size)
                     /\ input' \in IF size < buffer THEN {FALSE} ELSE {input, FALSE}
                     /\ rpc' \in {"write", "finish"}
    /\ UNCHANGED <<package, chunks, shared, main, size, pos, image>>

\* Move to the next range of the target; the discard or the seek may fail.
SeekToOutputRange ==
    /\ rpc = "write" /\ want > 0 /\ writer.left = 0
    /\ IF writer.next < Len(list[cur].ends)
       THEN /\ writer' = [writer EXCEPT !.next = @ + 1,
                                        !.left = RangeLen(list[cur], writer.next + 1)]
            /\ rpc' \in {"write", "finish"}
       ELSE rpc' = "finish" /\ UNCHANGED writer
    /\ UNCHANGED <<package, chunks, receiverAvailable, waiting, nti, main, size, input, want, pos,
                   image>>

\* Mutant: the position in the target is counted from the start of the range.
WriteRestarted ==
    /\ rpc = "write" /\ want > 0 /\ writer.left > 0
    /\ writer' = [writer EXCEPT !.left = @ - 1, !.bytes = @ + 1]
    /\ image' = [image EXCEPT ![cur][RangeLen(list[cur], writer.next) - writer.left + 1] = pos + 1]
    /\ want' = want - 1 /\ size' = size - 1 /\ pos' = pos + 1
    /\ UNCHANGED <<package, chunks, receiverAvailable, waiting, nti, main, rpc, input>>

\* One block of write_all, which may fail.
Write ==
    /\ rpc = "write" /\ want > 0 /\ writer.left > 0
    /\ \/ /\ writer' = [writer EXCEPT !.left = @ - 1, !.bytes = @ + 1]
          /\ image' = [image EXCEPT ![cur][list[cur].ends[writer.next] - writer.left + 1] = pos + 1]
          /\ want' = want - 1 /\ size' = size - 1 /\ pos' = pos + 1
          /\ UNCHANGED rpc
       \/ rpc' = "finish" /\ UNCHANGED <<writer, image, want, size, pos>>
    /\ UNCHANGED <<package, chunks, receiverAvailable, waiting, nti, main, input>>

WriteDone ==
    /\ rpc = "write" /\ want = 0
    /\ rpc' = IF Finished THEN "clear" ELSE "lock"
    /\ UNCHANGED <<package, chunks, shared, main, size, input, want, pos, image>>

\* All bytes of this writer are written: wake the main thread.
ClearWriter ==
    /\ rpc = "clear"
    /\ writer' = NoWriter
    /\ waiting' = {}
    /\ rpc' = "lock"
    /\ UNCHANGED <<package, chunks, receiverAvailable, nti, main, size, input, want, pos, image>>

\* Mutant: the main thread is not told that no more data will come.
FinishSilently ==
    /\ rpc = "finish"
    /\ receiverAvailable' = FALSE
    /\ rpc' = "exited"
    /\ UNCHANGED <<package, chunks, writer, waiting, nti, main, size, input, want, pos, image>>

\* The end of unzip_new_data.
UnzipNewDataEnds ==
    /\ rpc = "finish"
    /\ receiverAvailable' = FALSE
    /\ waiting' = IF writer # NoWriter THEN {} ELSE waiting
    /\ rpc' = "exited"
    /\ UNCHANGED <<package, chunks, writer, nti, main, size, input, want, pos, image>>

\* pthread_cond_wait may return without a broadcast.
SpuriousWakeup ==
    /\ \E t \in waiting : waiting' = waiting \ {t}
    /\ UNCHANGED <<package, chunks, writer, receiverAvailable, nti, main, receiver, image>>

-----------------------------------------------------------------------------
MainStep == \/ PthreadCreate \/ ParseHeader \/ CommandFails \/ PerformCommandNew
            \/ NewDataWritten \/ AllCommandsDone \/ EndReceiver \/ PthreadJoin

\* What the thread does after its NewThreadInfo is gone is undefined.
ReceiverStep == /\ nti
                /\ \/ ProcessZipEntryContents \/ ReceiveDone \/ WaitForWriter \/ Decode
                   \/ SeekToOutputRange \/ Write \/ WriteDone \/ ClearWriter
                   \/ UnzipNewDataEnds

Next == MainStep \/ ReceiverStep \/ SpuriousWakeup

Spec == Init /\ [][Next]_vars

\* Both threads are scheduled.
FairSpec == Spec /\ WF_vars(MainStep) /\ WF_vars(ReceiverStep)

-----------------------------------------------------------------------------
(***************************************************************************)
(* StreamPlaced: whatever pieces the stream comes in, however it is        *)
(* decoded and whoever wakes up when, block j of a new command only ever   *)
(* gets the j-th block of that command's part of the stream.               *)
(***************************************************************************)
StreamPlaced ==
    \A k \in DOMAIN list : \A j \in 1 .. Blocks(list[k]) :
        image[k][j] \in {0, list[k].at + j}

(***************************************************************************)
(* NewCommandsComplete: a new command that has returned 0 has all its      *)
(* blocks written.                                                         *)
(***************************************************************************)
NewCommandsComplete ==
    \A k \in 1 .. done : \A j \in 1 .. Blocks(list[k]) : image[k][j] # 0

(***************************************************************************)
(* WriterOwned: while the background thread uses nti->writer without the   *)
(* lock, the main thread is in PerformCommandNew, waiting for the writer   *)
(* to disappear, so that the writer, its target and nti exist.             *)
(***************************************************************************)
WriterOwned ==
    rpc \in {"decode", "write", "clear"} => mpc = "wait" /\ writer # NoWriter /\ nti

(***************************************************************************)
(* UpdateReturns: neither thread waits for the other for ever: the update  *)
(* returns, also when the data is too short or a thread fails.             *)
(***************************************************************************)
UpdateReturns == <>(mpc = "returned")

=============================================================================
