--------------------------- MODULE NewDataProofs ----------------------------
(***************************************************************************)
(* Safety of NewData for all lists, all ways to cut the stream, with and   *)
(* without brotli.                                                         *)
(***************************************************************************)
EXTENDS NewData, TLAPS

USE DEF package

\* Data of c written when i ranges are.
Cum(c, i) == IF i = 0 THEN 0 ELSE c.ends[i]

\* The two threads agree on who has the writer, and on what is left to do.
ControlInv ==
    /\ WriterOwned
    /\ rpc = "clear" => Finished
    /\ rpc = "write" => want <= size
    /\ ~receiverAvailable => rpc = "exited" \/ mpc \in {"join", "returned"}
    /\ mpc = "create" => rpc = "none"
    /\ writer # NoWriter => mpc = "wait" \/ rpc = "exited"
    /\ ~nti <=> mpc = "returned"
    /\ mpc \in {"create", "header", "loop"} => done = cur
    /\ mpc = "wait" => done = cur - 1
    /\ done = cur => writer = NoWriter

\* The writer is where the stream is.
WriterInv ==
    IF writer = NoWriter
    THEN pos = IF cur = 0 THEN 0 ELSE list[cur].at + Blocks(list[cur])
    ELSE /\ cur > 0
         /\ writer.next \in 0 .. Len(list[cur].ends)
         /\ writer.left >= 0
         /\ writer.left <= IF writer.next = 0 THEN 0 ELSE RangeLen(list[cur], writer.next)
         /\ writer.bytes = Cum(list[cur], writer.next) - writer.left
         /\ pos = list[cur].at + writer.bytes

\* The blocks written so far.
Written(k, j) == k < cur \/ (k = cur /\ (writer = NoWriter \/ j <= writer.bytes))

ImageInv ==
    \A k \in DOMAIN list : \A j \in 1 .. Blocks(list[k]) :
        image[k][j] = IF Written(k, j) THEN list[k].at + j ELSE 0

IInv == TypeOK /\ ControlInv /\ WriterInv /\ ImageInv

-----------------------------------------------------------------------------
\* What ListsOK says of a command.
CommandFine(c) ==
    /\ c.at \in Nat /\ Len(c.ends) \in Nat \ {0} /\ Blocks(c) \in Nat \ {0}
    /\ \A i \in 0 .. Len(c.ends) : Cum(c, i) \in Nat /\ Cum(c, i) <= Blocks(c)
    /\ \A i \in 1 .. Len(c.ends) : /\ Cum(c, i) = c.ends[i]
                                   /\ RangeLen(c, i) \in Nat \ {0}
                                   /\ RangeLen(c, i) = c.ends[i] - Cum(c, i - 1)

LEMMA CommandFacts ==
    ASSUME DataOK, NEW k \in 1 .. Len(list)
    PROVE  /\ DOMAIN list = 1 .. Len(list) /\ Len(list) \in Nat
           /\ CommandFine(list[k])
           /\ list[k].at = IF k = 1 THEN 0 ELSE list[k - 1].at + Blocks(list[k - 1])
<1>1. list \in Seq(NewCommand) /\ list \in Lists
  BY ListsOK DEF DataOK
<1>2. DOMAIN list = 1 .. Len(list) /\ Len(list) \in Nat /\ k \in DOMAIN list
  BY <1>1
<1>3. list[k].at \in Nat /\ list[k].ends \in Seq(Nat)
  <2>1. list[k] \in NewCommand
    BY <1>1, <1>2
  <2> QED
    BY <2>1 DEF NewCommand
<1>4. /\ list[k].ends # <<>> /\ list[k].ends[1] > 0
      /\ \A i, j \in DOMAIN list[k].ends : i < j => list[k].ends[i] < list[k].ends[j]
      /\ list[k].at = IF k = 1 THEN 0 ELSE list[k - 1].at + Blocks(list[k - 1])
  BY <1>1, <1>2, ListsOK, Zenon
<1>5. Len(list[k].ends) \in Nat \ {0} /\ DOMAIN list[k].ends = 1 .. Len(list[k].ends)
  BY <1>3, <1>4
<1>6. ASSUME NEW i \in 1 .. Len(list[k].ends)
      PROVE  /\ list[k].ends[i] \in Nat /\ list[k].ends[i] <= Blocks(list[k])
             /\ list[k].ends[i] > 0
             /\ RangeLen(list[k], i) \in Nat \ {0}
             /\ RangeLen(list[k], i) = list[k].ends[i] - Cum(list[k], i - 1)
  <2>1. list[k].ends[i] \in Nat /\ list[k].ends[1] \in Nat
    BY <1>3, <1>5
  <2>2. list[k].ends[i] <= Blocks(list[k]) /\ list[k].ends[i] > 0
    <3>1. Len(list[k].ends) \in DOMAIN list[k].ends /\ 1 \in DOMAIN list[k].ends
      BY <1>5
    <3>2. i < Len(list[k].ends) => list[k].ends[i] < list[k].ends[Len(list[k].ends)]
      BY <1>4, <1>5, <3>1
    <3>3. 1 < i => list[k].ends[1] < list[k].ends[i]
      BY <1>4, <1>5, <3>1
    <3>4. list[k].ends[Len(list[k].ends)] \in Nat
      BY <1>3, <3>1
    <3>5. i \in Nat /\ i >= 1 /\ i <= Len(list[k].ends) /\ list[k].ends[1] > 0
      BY <1>4, <1>5
    <3> QED
      BY <1>5, <2>1, <3>2, <3>3, <3>4, <3>5 DEF Blocks
  <2>3. CASE i = 1
    BY <1>4, <2>1, <2>2, <2>3 DEF RangeLen, Cum
  <2>4. CASE i # 1
    <3>1. i - 1 \in 1 .. Len(list[k].ends) /\ i - 1 < i
      BY <1>5, <2>4
    <3>2. list[k].ends[i - 1] \in Nat /\ list[k].ends[i - 1] < list[k].ends[i]
      <4>1. list[k].ends[i - 1] \in Nat
        BY <1>3, <1>5, <3>1
      <4>2. list[k].ends[i - 1] < list[k].ends[i]
        BY <1>4, <1>5, <3>1
      <4> QED
        BY <4>1, <4>2
    <3> QED
      BY <2>1, <2>2, <2>4, <3>1, <3>2 DEF RangeLen, Cum
  <2> QED
    BY <2>1, <2>2, <2>3, <2>4
<1>7. Blocks(list[k]) \in Nat \ {0}
  BY <1>5, <1>6 DEF Blocks
<1>8. CommandFine(list[k])
  <2>1. \A i \in 1 .. Len(list[k].ends) :
           /\ Cum(list[k], i) = list[k].ends[i] /\ Cum(list[k], i) \in Nat
           /\ Cum(list[k], i) <= Blocks(list[k])
    BY <1>5, <1>6 DEF Cum
  <2>2. Cum(list[k], 0) = 0
    BY DEF Cum
  <2>3. \A i \in 0 .. Len(list[k].ends) :
           Cum(list[k], i) \in Nat /\ Cum(list[k], i) <= Blocks(list[k])
    BY <1>5, <1>7, <2>1, <2>2
  <2> QED
    BY <1>3, <1>5, <1>6, <1>7, <2>1, <2>3 DEF CommandFine
<1> QED
  BY <1>2, <1>4, <1>8

\* WriterInv and ImageInv depend on the data only.
LEMMA DataFrame ==
    ASSUME IInv, UNCHANGED <<list, cur, writer, pos, image>>
    PROVE  WriterInv' /\ ImageInv'
<1>1. WriterInv'
  BY DEF IInv, WriterInv
<1>2. ImageInv'
  BY DEF IInv, ImageInv, Written
<1> QED
  BY <1>1, <1>2

\* Every step of the main thread preserves IInv.
LEMMA MainInv ==
    ASSUME IInv, MainStep
    PROVE  IInv'
<1>0. DataOK /\ CountsOK /\ ThreadsOK /\ ControlInv /\ WriterInv /\ ImageInv
  BY DEF IInv, TypeOK
<1>1. CASE PthreadCreate
  <2>1. UNCHANGED <<list, chunks, cur, writer, pos, image>>
    BY <1>1 DEF PthreadCreate, Return
  <2>2. DataOK' /\ CountsOK'
    BY <1>0, <1>1, <2>1 DEF DataOK, CountsOK, PthreadCreate, Return
  <2>3. ThreadsOK'
    BY <1>0, <1>1, Zenon DEF ThreadsOK, Threads, PthreadCreate, Return
  <2>4. ControlInv'
    BY <1>0, <1>1, <2>1, Zenon
       DEF CountsOK, ControlInv, WriterOwned, Finished, PthreadCreate, Return
  <2> QED
    BY <2>1, <2>2, <2>3, <2>4, DataFrame DEF IInv, TypeOK
<1>2. CASE ParseHeader
  <2>1. UNCHANGED <<list, chunks, cur, writer, pos, image>>
    BY <1>2 DEF ParseHeader, Return, receiver
  <2>2. DataOK' /\ CountsOK'
    BY <1>0, <1>2, <2>1 DEF DataOK, CountsOK, ParseHeader, Return, receiver
  <2>3. ThreadsOK'
    BY <1>0, <1>2, Zenon DEF ThreadsOK, Threads, ParseHeader, Return, receiver
  <2>4. ControlInv'
    BY <1>0, <1>2, <2>1, Zenon
       DEF CountsOK, ControlInv, WriterOwned, Finished, ParseHeader, Return, receiver
  <2> QED
    BY <2>1, <2>2, <2>3, <2>4, DataFrame DEF IInv, TypeOK
<1>3. CASE CommandFails
  <2>1. UNCHANGED <<list, chunks, cur, writer, pos, image>>
    BY <1>3 DEF CommandFails, shared, receiver
  <2>2. DataOK' /\ CountsOK'
    BY <1>0, <1>3, <2>1 DEF DataOK, CountsOK, CommandFails, shared, receiver
  <2>3. ThreadsOK'
    BY <1>0, <1>3, Zenon DEF ThreadsOK, Threads, CommandFails, shared, receiver
  <2>4. ControlInv'
    BY <1>0, <1>3, <2>1 DEF CountsOK, ControlInv, WriterOwned, Finished, CommandFails, shared, receiver
  <2> QED
    BY <2>1, <2>2, <2>3, <2>4, DataFrame DEF IInv, TypeOK
<1>4. CASE NewDataWritten
  <2>1. UNCHANGED <<list, chunks, cur, writer, pos, image>>
    BY <1>4 DEF NewDataWritten, receiver
  <2>2. DataOK' /\ CountsOK'
    BY <1>0, <1>4, <2>1 DEF DataOK, CountsOK, NewDataWritten, receiver
  <2>3. ThreadsOK'
    BY <1>0, <1>4, Zenon DEF ThreadsOK, Threads, NewDataWritten, receiver
  <2>4. ControlInv'
    BY <1>0, <1>4, <2>1 DEF CountsOK, ControlInv, WriterOwned, Finished, NewDataWritten, receiver
  <2> QED
    BY <2>1, <2>2, <2>3, <2>4, DataFrame DEF IInv, TypeOK
<1>5. CASE AllCommandsDone
  <2>1. UNCHANGED <<list, chunks, cur, writer, pos, image>>
    BY <1>5 DEF AllCommandsDone, shared, receiver
  <2>2. DataOK' /\ CountsOK'
    BY <1>0, <1>5, <2>1 DEF DataOK, CountsOK, AllCommandsDone, shared, receiver
  <2>3. ThreadsOK'
    BY <1>0, <1>5, Zenon DEF ThreadsOK, Threads, AllCommandsDone, shared, receiver
  <2>4. ControlInv'
    BY <1>0, <1>5, <2>1 DEF CountsOK, ControlInv, WriterOwned, Finished, AllCommandsDone, shared, receiver
  <2> QED
    BY <2>1, <2>2, <2>3, <2>4, DataFrame DEF IInv, TypeOK
<1>6. CASE EndReceiver
  <2>1. UNCHANGED <<list, chunks, cur, writer, pos, image>>
    BY <1>6 DEF EndReceiver, receiver
  <2>2. DataOK' /\ CountsOK'
    BY <1>0, <1>6, <2>1 DEF DataOK, CountsOK, EndReceiver, receiver
  <2>3. ThreadsOK'
    BY <1>0, <1>6, Zenon DEF ThreadsOK, Threads, EndReceiver, receiver
  <2>4. ControlInv'
    BY <1>0, <1>6, <2>1 DEF CountsOK, ControlInv, WriterOwned, Finished, EndReceiver, receiver
  <2> QED
    BY <2>1, <2>2, <2>3, <2>4, DataFrame DEF IInv, TypeOK
<1>7. CASE PthreadJoin
  <2>1. UNCHANGED <<list, chunks, cur, writer, pos, image>>
    BY <1>7 DEF PthreadJoin, Return, receiver
  <2>2. DataOK' /\ CountsOK'
    BY <1>0, <1>7, <2>1 DEF DataOK, CountsOK, PthreadJoin, Return, receiver
  <2>3. ThreadsOK'
    BY <1>0, <1>7, Zenon DEF ThreadsOK, Threads, PthreadJoin, Return, receiver
  <2>4. ControlInv'
    BY <1>0, <1>7, <2>1 DEF CountsOK, ControlInv, WriterOwned, Finished, PthreadJoin, Return, receiver
  <2> QED
    BY <2>1, <2>2, <2>3, <2>4, DataFrame DEF IInv, TypeOK
<1>8. CASE PerformCommandNew
  <2>1. cur + 1 \in 1 .. Len(list) /\ cur \in 0 .. Len(list) /\ Len(list) \in Nat
    <3>1. Len(list) \in Nat
      BY <1>0, ListsOK DEF DataOK
    <3> QED
      BY <1>0, <1>8, <3>1 DEF CountsOK, PerformCommandNew
  <2>2. TypeOK'
    <3>1. DataOK' /\ CountsOK'
      BY <1>0, <1>8, <2>1 DEF DataOK, CountsOK, PerformCommandNew, receiver
    <3>2. ThreadsOK'
      BY <1>0, <1>8, Zenon DEF ThreadsOK, Threads, PerformCommandNew, receiver
    <3> QED
      BY <3>1, <3>2 DEF TypeOK
  <2>3. writer = NoWriter /\ done = cur
    BY <1>0, <1>8 DEF ControlInv, PerformCommandNew
  <2>4. writer' # NoWriter
    BY <1>8 DEF PerformCommandNew, NoWriter
  <2>5. ControlInv'
    BY <1>0, <1>8, <2>1, <2>3, <2>4
       DEF CountsOK, ControlInv, WriterOwned, Finished, PerformCommandNew, receiver
  <2>6. WriterInv'
    <3>1. Len(list[cur + 1].ends) \in Nat \ {0} /\ list[cur + 1].at \in Nat
      BY <1>0, <2>1, CommandFacts DEF CommandFine
    <3>2. pos = list[cur + 1].at
      <4>1. CASE cur = 0
        BY <1>0, <2>1, <2>3, <4>1, CommandFacts DEF WriterInv
      <4>2. CASE cur # 0
        BY <1>0, <2>1, <2>3, <4>2, CommandFacts DEF WriterInv
      <4> QED
        BY <4>1, <4>2
    <3> QED
      BY <1>8, <2>1, <2>4, <3>1, <3>2 DEF WriterInv, PerformCommandNew, receiver, Cum
  <2>7. ImageInv'
    <3> SUFFICES ASSUME NEW k \in DOMAIN list, NEW j \in 1 .. Blocks(list[k])
                 PROVE  image[k][j] = IF Written(k, j)' THEN list[k].at + j ELSE 0
      BY <1>8 DEF ImageInv, PerformCommandNew
    <3>1. k \in Nat /\ j \in Nat /\ j > 0
      BY <1>0, <2>1, CommandFacts
    <3>2. Written(k, j)' <=> Written(k, j)
      BY <1>8, <2>1, <2>3, <2>4, <3>1 DEF Written, PerformCommandNew
    <3> QED
      BY <1>0, <3>2 DEF ImageInv
  <2> QED
    BY <2>2, <2>5, <2>6, <2>7 DEF IInv
<1> QED
  BY <1>1, <1>2, <1>3, <1>4, <1>5, <1>6, <1>7, <1>8 DEF MainStep

\* Every step of the background thread preserves IInv.
LEMMA ReceiverInv ==
    ASSUME IInv, ReceiverStep
    PROVE  IInv'
<1>0. DataOK /\ CountsOK /\ ThreadsOK /\ ControlInv /\ WriterInv /\ ImageInv
  BY DEF IInv, TypeOK
<1>a. rpc \in {"decode", "write", "clear"} => cur \in 1 .. Len(list) /\ writer # NoWriter
  <2>1. Len(list) \in Nat
    BY <1>0, ListsOK DEF DataOK
  <2> QED
    BY <1>0, <2>1 DEF CountsOK, ControlInv, WriterOwned, WriterInv
<1>b. rpc \in {"decode", "write", "clear"} => CommandFine(list[cur]) /\ cur \in DOMAIN list
  BY <1>0, <1>a, CommandFacts
<1>1. CASE ProcessZipEntryContents
  <2>1. UNCHANGED <<list, cur, writer, pos, image>>
    BY <1>1 DEF ProcessZipEntryContents, shared, main
  <2>2. DataOK' /\ CountsOK'
    <3>1. chunks' \in Seq(Nat) /\ size' \in Nat
      <4>1. chunks \in Seq(Nat) /\ size \in Nat
        BY <1>0 DEF DataOK, CountsOK
      <4>2. chunks # <<>> => Head(chunks) \in Nat /\ Tail(chunks) \in Seq(Nat)
        BY <4>1
      <4>3. \/ chunks # <<>> /\ size' = Head(chunks) /\ chunks' = Tail(chunks)
            \/ UNCHANGED <<size, chunks>>
        BY <1>1, Zenon DEF ProcessZipEntryContents
      <4> QED
        BY <4>1, <4>2, <4>3, Zenon
    <3> QED
      BY <1>0, <1>1, <2>1, <3>1 DEF DataOK, CountsOK, ProcessZipEntryContents, main
  <2>3. ThreadsOK'
    BY <1>0, <1>1, StreamsOK, Zenon DEF ThreadsOK, Threads, ProcessZipEntryContents, shared, main
  <2>4. ControlInv'
    BY <1>0, <1>1, <2>1 DEF CountsOK, ControlInv, WriterOwned, Finished, ProcessZipEntryContents, shared, main
  <2> QED
    BY <2>1, <2>2, <2>3, <2>4, DataFrame DEF IInv, TypeOK
<1>2. CASE ReceiveDone
  <2>1. UNCHANGED <<list, cur, writer, pos, image>>
    BY <1>2 DEF ReceiveDone, shared, main
  <2>2. DataOK' /\ CountsOK'
    BY <1>0, <1>2, <2>1 DEF DataOK, CountsOK, ReceiveDone, shared, main
  <2>3. ThreadsOK'
    BY <1>0, <1>2, StreamsOK, Zenon DEF ThreadsOK, Threads, ReceiveDone, shared, main
  <2>4. ControlInv'
    BY <1>0, <1>2, <2>1 DEF CountsOK, ControlInv, WriterOwned, Finished, ReceiveDone, shared, main
  <2> QED
    BY <2>1, <2>2, <2>3, <2>4, DataFrame DEF IInv, TypeOK
<1>3. CASE WaitForWriter
  <2>1. UNCHANGED <<list, cur, writer, pos, image>>
    BY <1>3 DEF WaitForWriter, main
  <2>2. DataOK' /\ CountsOK'
    BY <1>0, <1>3, <2>1 DEF DataOK, CountsOK, WaitForWriter, main
  <2>3. ThreadsOK'
    BY <1>0, <1>3, StreamsOK, Zenon DEF ThreadsOK, Threads, WaitForWriter, main
  <2>4. ControlInv'
    <3>1. nti
      BY DEF ReceiverStep
    <3> QED
      BY <1>0, <1>3, <2>1, <3>1, Zenon DEF ControlInv, WriterOwned, WaitForWriter, main
  <2> QED
    BY <2>1, <2>2, <2>3, <2>4, DataFrame DEF IInv, TypeOK
<1>4. CASE WriteDone
  <2>1. UNCHANGED <<list, cur, writer, pos, image>>
    BY <1>4 DEF WriteDone, shared, main
  <2>2. DataOK' /\ CountsOK'
    BY <1>0, <1>4, <2>1 DEF DataOK, CountsOK, WriteDone, shared, main
  <2>3. ThreadsOK'
    BY <1>0, <1>4, StreamsOK, Zenon DEF ThreadsOK, Threads, WriteDone, shared, main
  <2>4. ControlInv'
    BY <1>0, <1>4, <2>1 DEF CountsOK, ControlInv, WriterOwned, Finished, WriteDone, shared, main
  <2> QED
    BY <2>1, <2>2, <2>3, <2>4, DataFrame DEF IInv, TypeOK
<1>5. CASE UnzipNewDataEnds
  <2>1. UNCHANGED <<list, cur, writer, pos, image>>
    BY <1>5 DEF UnzipNewDataEnds, main
  <2>2. DataOK' /\ CountsOK'
    BY <1>0, <1>5, <2>1 DEF DataOK, CountsOK, UnzipNewDataEnds, main
  <2>3. ThreadsOK'
    BY <1>0, <1>5, StreamsOK, Zenon DEF ThreadsOK, Threads, UnzipNewDataEnds, main
  <2>4. ControlInv'
    BY <1>0, <1>5, <2>1 DEF CountsOK, ControlInv, WriterOwned, Finished, UnzipNewDataEnds, main
  <2> QED
    BY <2>1, <2>2, <2>3, <2>4, DataFrame DEF IInv, TypeOK
<1>6. CASE Decode
  <2>1. UNCHANGED <<list, cur, writer, pos, image>>
    BY <1>6 DEF Decode, shared, main
  <2>2. AvailableSpace \in Nat
    <3>1. writer.next \in 0 .. Len(list[cur].ends) /\ CommandFine(list[cur])
      BY <1>0, <1>6, <1>a, <1>b DEF Decode, WriterInv
    <3>2. writer.left \in Nat /\ writer.bytes = Cum(list[cur], writer.next) - writer.left
      BY <1>0, <1>6, <1>a DEF Decode, WriterInv, DataOK
    <3>3. /\ Cum(list[cur], writer.next) \in Nat /\ Blocks(list[cur]) \in Nat
          /\ Cum(list[cur], writer.next) <= Blocks(list[cur])
      BY <3>1 DEF CommandFine
    <3> QED
      BY <3>2, <3>3 DEF AvailableSpace
  <2>3. want' \in Nat /\ (rpc' = "write" => want' <= size)
    <3>1. size \in Nat /\ want \in Nat /\ BufferSize \in Nat
      BY <1>0, StreamsOK DEF CountsOK
    <3>2. CASE ~brotli
      <4>1. want' = Smaller(size, AvailableSpace)
        BY <1>6, <3>2, Zenon DEF Decode
      <4> QED
        BY <2>2, <3>1, <4>1 DEF Smaller
    <3>3. CASE brotli
      <4>1. CASE Smaller(BufferSize, AvailableSpace) = 0
        BY <1>6, <3>1, <3>3, <4>1 DEF Decode
      <4>2. CASE Smaller(BufferSize, AvailableSpace) # 0
        <5>1. want' = Smaller(Smaller(BufferSize, AvailableSpace), size)
          BY <1>6, <3>3, <4>2 DEF Decode
        <5> QED
          BY <2>2, <3>1, <5>1 DEF Smaller
      <4> QED
        BY <4>1, <4>2
    <3> QED
      BY <3>2, <3>3
  <2>4. DataOK' /\ CountsOK'
    BY <1>0, <1>6, <2>1, <2>3 DEF DataOK, CountsOK, Decode, shared, main
  <2>5. ThreadsOK'
    BY <1>0, <1>6, Zenon DEF ThreadsOK, Threads, Decode, shared, main
  <2>6. ControlInv'
    BY <1>0, <1>6, <2>1, <2>3, Zenon DEF ControlInv, WriterOwned, Decode, shared, main
  <2> QED
    BY <2>1, <2>4, <2>5, <2>6, DataFrame DEF IInv, TypeOK
<1>7. CASE ClearWriter
  <2>1. writer' = NoWriter /\ UNCHANGED <<list, cur, pos, image, size, want>> /\ writer # NoWriter
    BY <1>7, <1>a DEF ClearWriter, main
  <2>2. DataOK' /\ CountsOK'
    BY <1>0, <1>7, <2>1 DEF DataOK, CountsOK, ClearWriter, main, NoWriter
  <2>3. ThreadsOK'
    BY <1>0, <1>7, Zenon DEF ThreadsOK, Threads, ClearWriter, main
  <2>4. ControlInv'
    BY <1>0, <1>7, <2>1 DEF CountsOK, ControlInv, WriterOwned, ClearWriter, main
  <2>5. cur > 0 /\ writer.bytes = Blocks(list[cur]) /\ pos = list[cur].at + Blocks(list[cur])
    <3>1. writer.next = Len(list[cur].ends) /\ writer.left = 0
      BY <1>0, <1>7 DEF ControlInv, Finished, ClearWriter
    <3>2. Len(list[cur].ends) \in Nat \ {0} /\ Blocks(list[cur]) \in Nat
      BY <1>7, <1>b DEF ClearWriter, CommandFine
    <3> QED
      BY <1>0, <2>1, <3>1, <3>2 DEF WriterInv, Cum, Blocks
  <2>6. WriterInv'
    BY <1>0, <2>1, <2>5 DEF WriterInv, CountsOK
  <2>7. ImageInv'
    <3> SUFFICES ASSUME NEW k \in DOMAIN list, NEW j \in 1 .. Blocks(list[k])
                 PROVE  image[k][j] = IF Written(k, j)' THEN list[k].at + j ELSE 0
      BY <2>1 DEF ImageInv
    <3>1. Written(k, j)' <=> Written(k, j)
      BY <2>1, <2>5 DEF Written
    <3> QED
      BY <1>0, <3>1 DEF ImageInv
  <2> QED
    BY <2>2, <2>3, <2>4, <2>6, <2>7 DEF IInv, TypeOK
<1>8. CASE SeekToOutputRange
  <2>1. /\ UNCHANGED <<list, chunks, cur, done, pos, image, size, want, input, receiverAvailable>>
        /\ UNCHANGED <<brotli, waiting, nti, mpc, rc>>
        /\ rpc = "write" /\ rpc' \in {"write", "finish"}
    BY <1>8 DEF SeekToOutputRange, main
  <2>2. CASE writer' = writer
    <3>1. DataOK' /\ CountsOK'
      BY <1>0, <2>1, <2>2 DEF DataOK, CountsOK
    <3>2. ThreadsOK'
      BY <1>0, <2>1, Zenon DEF ThreadsOK
    <3>3. ControlInv'
      BY <1>0, <2>1, <2>2, Zenon DEF ControlInv, WriterOwned
    <3> QED
      BY <2>1, <2>2, <3>1, <3>2, <3>3, DataFrame DEF IInv, TypeOK
  <2>3. CASE writer.next < Len(list[cur].ends)
    <3>1. /\ writer' = [next |-> writer.next + 1, left |-> RangeLen(list[cur], writer.next + 1),
                        bytes |-> writer.bytes]
          /\ writer.left = 0
      BY <1>0, <1>8, <2>3, Zenon DEF SeekToOutputRange, DataOK
    <3>2. /\ writer.next \in 0 .. Len(list[cur].ends) /\ CommandFine(list[cur])
          /\ writer.bytes = Cum(list[cur], writer.next) - 0
      BY <1>0, <1>a, <1>b, <2>1, <3>1 DEF WriterInv
    <3>3. /\ writer.next + 1 \in 1 .. Len(list[cur].ends) /\ writer.next \in Nat
          /\ RangeLen(list[cur], writer.next + 1) \in Nat \ {0}
          /\ RangeLen(list[cur], writer.next + 1)
                = list[cur].ends[writer.next + 1] - Cum(list[cur], writer.next)
          /\ Cum(list[cur], writer.next + 1) = list[cur].ends[writer.next + 1]
          /\ Cum(list[cur], writer.next + 1) \in Nat /\ Cum(list[cur], writer.next) \in Nat
      <4>1. Len(list[cur].ends) \in Nat /\ writer.next + 1 \in 1 .. Len(list[cur].ends)
        BY <2>3, <3>2 DEF CommandFine
      <4>2. writer.next \in Nat /\ (writer.next + 1) - 1 = writer.next
        BY <3>2, <4>1
      <4> QED
        BY <3>2, <4>1, <4>2 DEF CommandFine
    <3>4. writer' # NoWriter /\ writer # NoWriter
      BY <1>a, <2>1, <3>1, <3>3 DEF NoWriter
    <3>5. DataOK' /\ CountsOK'
      BY <1>0, <2>1, <3>1, <3>2, <3>3 DEF DataOK, CountsOK
    <3>6. ThreadsOK'
      BY <1>0, <2>1, Zenon DEF ThreadsOK
    <3>7. ControlInv'
      BY <1>0, <2>1, <3>4, Zenon DEF ControlInv, WriterOwned
    <3>8. WriterInv'
      <4>1. pos = list[cur].at + writer.bytes /\ cur > 0
        BY <1>0, <3>4 DEF WriterInv
      <4> QED
        BY <2>1, <3>1, <3>2, <3>3, <3>4, <4>1, SMTT(20) DEF WriterInv
    <3>9. ImageInv'
      BY <1>0, <2>1, <3>1, <3>4 DEF ImageInv, Written
    <3> QED
      BY <3>5, <3>6, <3>7, <3>8, <3>9 DEF IInv, TypeOK
  <2> QED
    BY <1>8, <2>2, <2>3 DEF SeekToOutputRange
<1>9. CASE Write
  <2>1. /\ UNCHANGED <<list, brotli, chunks, cur, done, input, receiverAvailable, waiting, nti, mpc, rc>>
        /\ rpc = "write" /\ rpc' \in {"write", "finish"} /\ want > 0 /\ writer.left > 0
    BY <1>9 DEF Write, main
  <2>2. CASE UNCHANGED <<writer, image, want, size, pos>>
    <3>1. DataOK' /\ CountsOK'
      BY <1>0, <2>1, <2>2 DEF DataOK, CountsOK
    <3>2. ThreadsOK'
      BY <1>0, <2>1, Zenon DEF ThreadsOK
    <3>3. ControlInv'
      BY <1>0, <2>1, <2>2, Zenon DEF ControlInv, WriterOwned
    <3> QED
      BY <2>1, <2>2, <3>1, <3>2, <3>3, DataFrame DEF IInv, TypeOK
  <2>3. CASE ~UNCHANGED <<writer, image, want, size, pos>>
    <3>1. /\ writer' = [next |-> writer.next, left |-> writer.left - 1, bytes |-> writer.bytes + 1]
          /\ want' = want - 1 /\ size' = size - 1 /\ pos' = pos + 1
          /\ image' = [image EXCEPT ![cur][list[cur].ends[writer.next] - writer.left + 1] = pos + 1]
      BY <1>0, <1>9, <2>3, Zenon DEF Write, DataOK
    <3>2. /\ writer.next \in 1 .. Len(list[cur].ends)
          /\ writer.left \in Nat \ {0} /\ writer.left <= RangeLen(list[cur], writer.next)
          /\ writer.bytes = list[cur].ends[writer.next] - writer.left
          /\ pos = list[cur].at + writer.bytes /\ cur > 0
      <4>1. writer.next # 0 /\ writer.left \in Int
        BY <1>0, <1>a, <2>1 DEF WriterInv, DataOK
      <4>2. writer.next \in 1 .. Len(list[cur].ends)
        BY <1>0, <1>a, <1>b, <2>1, <4>1 DEF WriterInv, CommandFine
      <4>3. Cum(list[cur], writer.next) = list[cur].ends[writer.next]
        BY <1>b, <2>1, <4>2 DEF CommandFine
      <4> QED
        BY <1>0, <1>a, <2>1, <4>1, <4>2, <4>3 DEF WriterInv
    <3>3. /\ RangeLen(list[cur], writer.next) <= list[cur].ends[writer.next]
          /\ RangeLen(list[cur], writer.next) \in Nat
          /\ list[cur].ends[writer.next] \in Nat
          /\ list[cur].ends[writer.next] <= Blocks(list[cur])
          /\ list[cur].at \in Nat /\ Blocks(list[cur]) \in Nat
      <4>1. CommandFine(list[cur])
        BY <1>b, <2>1
      <4>2. writer.next \in 0 .. Len(list[cur].ends) /\ writer.next - 1 \in 0 .. Len(list[cur].ends)
        BY <3>2, <4>1 DEF CommandFine
      <4>3. /\ Cum(list[cur], writer.next - 1) \in Nat
            /\ Cum(list[cur], writer.next) \in Nat
            /\ Cum(list[cur], writer.next) <= Blocks(list[cur])
            /\ list[cur].at \in Nat /\ Blocks(list[cur]) \in Nat
        BY <4>1, <4>2 DEF CommandFine
      <4>4. /\ Cum(list[cur], writer.next) = list[cur].ends[writer.next]
            /\ RangeLen(list[cur], writer.next) \in Nat
            /\ RangeLen(list[cur], writer.next)
                  = list[cur].ends[writer.next] - Cum(list[cur], writer.next - 1)
        BY <3>2, <4>1 DEF CommandFine
      <4> QED
        BY <4>3, <4>4
    <3>4. writer.bytes + 1 \in 1 .. Blocks(list[cur]) /\ writer.bytes \in Nat
      BY <3>2, <3>3
    <3>5. image' = [image EXCEPT ![cur][writer.bytes + 1] = pos + 1]
      BY <3>1, <3>2, <3>3
    <3>6. writer' # NoWriter /\ writer # NoWriter
      BY <1>a, <2>1, <3>1, <3>2 DEF NoWriter
    <3>7. want - 1 \in Nat /\ size - 1 \in Nat /\ want - 1 <= size - 1
      BY <1>0, <2>1 DEF CountsOK, ControlInv
    <3>8. CountsOK'
      BY <1>0, <2>1, <3>1, <3>7 DEF CountsOK
    <3>9. cur \in DOMAIN list
      BY <1>b, <2>1
    <3>10. DataOK'
      <4>1. writer' \in [next : Int, left : Int, bytes : Int]
        BY <1>0, <3>1 DEF DataOK
      <4>2. pos + 1 \in Nat
        BY <1>0 DEF CountsOK
      <4>3. DOMAIN image' = DOMAIN list
        BY <1>0, <3>5 DEF DataOK
      <4>4. ASSUME NEW k \in DOMAIN list PROVE image'[k] \in [1 .. Blocks(list[k]) -> Nat]
        <5>1. image[k] \in [1 .. Blocks(list[k]) -> Nat] /\ k \in DOMAIN image
          BY <1>0 DEF DataOK
        <5>2. CASE k = cur
          BY <3>4, <3>5, <4>2, <5>1, <5>2
        <5>3. CASE k # cur
          BY <3>5, <5>1, <5>3
        <5> QED
          BY <5>2, <5>3
      <4> QED
        BY <1>0, <2>1, <4>1, <4>3, <4>4 DEF DataOK
    <3>11. ThreadsOK'
      BY <1>0, <2>1, Zenon DEF ThreadsOK
    <3>12. ControlInv'
      BY <1>0, <2>1, <3>1, <3>6, <3>7 DEF ControlInv, WriterOwned
    <3>13. WriterInv'
      <4>1. Cum(list[cur], writer.next) = list[cur].ends[writer.next] /\ writer.next # 0
        BY <1>b, <2>1, <3>2 DEF CommandFine
      <4> QED
        BY <2>1, <3>1, <3>2, <3>3, <3>6, <4>1, SMTT(20) DEF WriterInv
    <3>14. ImageInv'
      <4> SUFFICES ASSUME NEW k \in DOMAIN list, NEW j \in 1 .. Blocks(list[k])
                   PROVE  image'[k][j] = IF Written(k, j)' THEN list[k].at + j ELSE 0
        BY <2>1 DEF ImageInv
      <4>1. /\ image[k][j] = IF Written(k, j) THEN list[k].at + j ELSE 0
            /\ image[k] \in [1 .. Blocks(list[k]) -> Nat] /\ k \in DOMAIN image
        BY <1>0 DEF ImageInv, DataOK
      <4>2. Written(k, j)' <=> Written(k, j) \/ (k = cur /\ j = writer.bytes + 1)
        BY <2>1, <3>1, <3>4, <3>6 DEF Written
      <4>3. CASE k = cur /\ j = writer.bytes + 1
        <5>1. image'[k][j] = pos + 1
          BY <3>5, <4>1, <4>3
        <5> QED
          BY <3>2, <3>3, <3>4, <4>2, <4>3, <5>1
      <4>4. CASE ~(k = cur /\ j = writer.bytes + 1)
        <5>1. image'[k][j] = image[k][j]
          BY <3>5, <4>1, <4>4, Zenon
        <5> QED
          BY <4>1, <4>2, <4>4, <5>1
      <4> QED
        BY <4>3, <4>4
    <3> QED
      BY <3>8, <3>10, <3>11, <3>12, <3>13, <3>14 DEF IInv, TypeOK
  <2> QED
    BY <1>9, <2>2, <2>3 DEF Write
<1> QED
  BY <1>1, <1>2, <1>3, <1>4, <1>5, <1>6, <1>7, <1>8, <1>9 DEF ReceiverStep

-----------------------------------------------------------------------------
LEMMA InvInit == Init => IInv
<1> SUFFICES ASSUME Init PROVE IInv
  OBVIOUS
<1>1. list \in Lists /\ Len(list) \in Nat
  BY ListsOK DEF Init
<1>2. DataOK
  <2>1. chunks \in Seq(Nat)
    BY StreamsOK DEF Init
  <2> QED
    BY <1>1, <2>1 DEF Init, DataOK, NoWriter
<1>3. CountsOK
  BY <1>1 DEF Init, CountsOK
<1>4. ThreadsOK
  <2>1. brotli \in BOOLEAN
    BY StreamsOK, Zenon DEF Init
  <2> QED
    BY <2>1, Zenon DEF Init, ThreadsOK
<1>5. ControlInv
  BY Zenon DEF Init, ControlInv, WriterOwned
<1>6. WriterInv
  BY DEF Init, WriterInv
<1>7. ImageInv
  <2>1. \A k \in DOMAIN list : k > 0
    BY <1>1, ListsOK
  <2> SUFFICES ASSUME NEW k \in DOMAIN list, NEW j \in 1 .. Blocks(list[k])
               PROVE  image[k][j] = IF Written(k, j) THEN list[k].at + j ELSE 0
    BY DEF ImageInv
  <2>2. image[k][j] = 0
    BY DEF Init
  <2>3. cur = 0 /\ k > 0 /\ k \in Int
    BY <1>1, <2>1, ListsOK DEF Init
  <2>4. ~Written(k, j)
    BY <2>3 DEF Written
  <2> QED
    BY <2>2, <2>4
<1> QED
  BY <1>2, <1>3, <1>4, <1>5, <1>6, <1>7 DEF IInv, TypeOK

LEMMA InvStep == IInv /\ [Next]_vars => IInv'
<1>1. ASSUME IInv, SpuriousWakeup PROVE IInv'
  <2>1. UNCHANGED <<list, brotli, chunks, writer, image, main, receiver, nti, receiverAvailable>>
    BY <1>1 DEF SpuriousWakeup
  <2>2. waiting' \subseteq waiting
    BY <1>1 DEF SpuriousWakeup
  <2>3. DataOK' /\ CountsOK'
    BY <1>1, <2>1, Zenon DEF IInv, TypeOK, DataOK, CountsOK, main, receiver
  <2>4. ThreadsOK'
    BY <1>1, <2>1, <2>2, Zenon DEF IInv, TypeOK, ThreadsOK, main, receiver
  <2>5. ControlInv'
    BY <1>1, <2>1, Zenon DEF IInv, ControlInv, WriterOwned, Finished, main, receiver
  <2> QED
    BY <1>1, <2>1, <2>3, <2>4, <2>5, DataFrame DEF IInv, TypeOK, main, receiver
<1>2. ASSUME IInv, UNCHANGED vars PROVE IInv'
  <2>1. DataOK' /\ CountsOK' /\ ThreadsOK'
    BY <1>2, Zenon DEF IInv, TypeOK, DataOK, CountsOK, ThreadsOK, vars
  <2>2. ControlInv'
    BY <1>2, Zenon DEF IInv, ControlInv, WriterOwned, Finished, vars
  <2>3. WriterInv' /\ ImageInv'
    BY <1>2, Zenon DEF IInv, WriterInv, ImageInv, Written, vars
  <2> QED
    BY <2>1, <2>2, <2>3 DEF IInv, TypeOK
<1> QED
  BY <1>1, <1>2, MainInv, ReceiverInv DEF Next

\* The inductive invariant of the two threads.
THEOREM Invariance == Spec => []IInv
  BY InvInit, InvStep, PTL DEF Spec

\* TypeOK for every list and every stream.
THEOREM TypeCorrect == Spec => []TypeOK
<1>1. IInv => TypeOK
  BY DEF IInv
<1> QED
  BY <1>1, Invariance, PTL

\* WriterOwned: what the background thread does to nti->writer without the
\* lock never races with PerformCommandNew or with the end of the update.
THEOREM WriterIsOwned == Spec => []WriterOwned
<1>1. IInv => WriterOwned
  BY DEF IInv, ControlInv
<1> QED
  BY <1>1, Invariance, PTL

\* StreamPlaced: receive_new_data and RangeSinkWriter put every block of the
\* stream where the transfer list wants it.
THEOREM StreamIsPlaced == Spec => []StreamPlaced
<1>1. IInv => StreamPlaced
  BY DEF IInv, ImageInv, StreamPlaced
<1> QED
  BY <1>1, Invariance, PTL

\* NewCommandsComplete: PerformCommandNew returns 0 only after the whole
\* target of the command was written.
THEOREM NewCommandsAreComplete == Spec => []NewCommandsComplete
<1>1. ASSUME IInv PROVE NewCommandsComplete
  <2> SUFFICES ASSUME NEW k \in 1 .. done, NEW j \in 1 .. Blocks(list[k])
               PROVE  image[k][j] # 0
    BY DEF NewCommandsComplete
  <2>1. DataOK /\ Len(list) \in Nat /\ cur \in 0 .. Len(list) /\ done \in 0 .. cur
    BY <1>1, ListsOK DEF IInv, TypeOK, DataOK, CountsOK
  <2>2. k \in 1 .. Len(list) /\ (k < cur \/ (k = cur /\ done = cur))
    BY <2>1
  <2>3. k \in DOMAIN list /\ CommandFine(list[k])
    BY <2>1, <2>2, CommandFacts
  <2>4. Written(k, j)
    BY <1>1, <2>2 DEF IInv, ControlInv, Written
  <2>5. image[k][j] = list[k].at + j
    BY <1>1, <2>3, <2>4 DEF IInv, ImageInv
  <2> QED
    BY <2>3, <2>5 DEF CommandFine
<1> QED
  BY <1>1, Invariance, PTL
=============================================================================
