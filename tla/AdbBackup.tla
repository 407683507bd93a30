----------------------------- MODULE AdbBackup -----------------------------
(***************************************************************************)
(* adb backup: TWRP (Run_Backup with adbbackup set, Raw_Read_Write,        *)
(* twrpTar) and the bu process (twrpback::backup), which adbd started and  *)
(* which writes to the host.  TWRP sends control structures through one    *)
(* fifo and the data of the files through another; bu reads both without   *)
(* waiting, in a loop, and nothing is acknowledged.                        *)
(*                                                                         *)
(* The digest is left out: it goes into the trailer and is never compared. *)
(***************************************************************************)
EXTENDS AdbStream

CONSTANT SPIN_LIMIT      \* bound: reads of an empty fifo at the end of a file

VARIABLES
    twrp,            \* where TWRP is
    file,            \* the file TWRP is backing up
    off,             \* the bytes of it written to the fifo
    control,         \* TW_ADB_BU_CONTROL
    fifo,            \* TW_ADB_BACKUP
    writer,          \* is the fifo open for writing?
    bu,              \* where bu is
    section,         \* the file whose header bu has written, 0 after its trailer
    writedata, compressed, firstDataPacket,
    fileBytes, dataChunkBytes,
    lost,            \* has the host stopped receiving?
    spins,           \* reads of an empty fifo since TWEOF
    outrun           \* has bu read data after TWEOF, or data of another file?

twrpVars == <<twrp, file, off>>
buVars == <<bu, section, writedata, compressed, firstDataPacket, fileBytes, dataChunkBytes, lost,
            spins, outrun>>
backupVars == <<twrpVars, control, fifo, writer, buVars>>

BackupInit ==
    /\ twrp = "start" /\ file = 0 /\ off = 0
    /\ control = <<>> /\ fifo = <<>> /\ writer = FALSE
    /\ bu = "open" /\ section = 0 /\ stream = <<>>
    /\ writedata = TRUE /\ compressed = FALSE /\ firstDataPacket = TRUE
    /\ fileBytes = 0 /\ dataChunkBytes = 0 /\ spins = 0 /\ outrun = FALSE
    /\ lost = FALSE

-----------------------------------------------------------------------------
(***************************************************************************)
(* TWRP.  The control fifo is opened for each structure with O_NONBLOCK;   *)
(* that fails as long as bu has not opened its end.                        *)
(***************************************************************************)
Send(t, f) == control' = Append(control, Message(t, f))

\* bu has closed its ends of the fifos; it unlinks them before it ends.
Gone == bu \in {"closed", "failed"}

Write_ADB_Stream_Header ==
    /\ twrp = "start"
    /\ IF bu = "open" THEN twrp' = "failed" /\ UNCHANGED control
                      ELSE twrp' = "file" /\ Send("TWSTREAMHDR", 0)
    /\ UNCHANGED <<plan, stream, file, off, fifo, writer, buVars>>

\* The command that came with "adb backup" is wrong.
Write_TWERROR ==
    /\ plan.fails /\ twrp = "start"
    /\ IF bu = "open" THEN twrp' = "failed" /\ UNCHANGED control
                      ELSE twrp' = "refused" /\ Send("TWERROR", 0)
    /\ UNCHANGED <<plan, stream, file, off, fifo, writer, buVars>>

\* Write_TWIMG or Write_TWFN
WriteFileHeader ==
    /\ twrp = "file" /\ file < Len(plan.files) /\ ~Gone
    /\ twrp' = "open" /\ file' = file + 1 /\ off' = 0 /\ Send(File(file').type, file')
    /\ UNCHANGED <<plan, stream, fifo, writer, buVars>>

OpenFifo ==
    /\ twrp = "open" /\ ~Gone /\ twrp' = "write" /\ writer' = TRUE
    /\ UNCHANGED <<plan, stream, file, off, control, fifo, buVars>>

\* An image and a tar are written block by block, the output of pigz in any pieces.
WriteFifo ==
    /\ twrp = "write" /\ ~Gone
    /\ \E n \in IF File(file).compressed THEN 1 .. MAX_ADB_READ ELSE {MAX_ADB_READ} :
          /\ off + n <= File(file).length /\ Len(fifo) + n <= PIPE_SIZE
          /\ fifo' = fifo \o SubSeq(Data(file), off + 1, off + n) /\ off' = off + n
    /\ UNCHANGED <<plan, stream, twrp, file, control, writer, buVars>>

\* pigz has ended, but twrpTar still holds its output_fd.
CloseFifo ==
    /\ twrp = "write" /\ off = File(file).length
    /\ twrp' = "eof" /\ writer' = File(file).compressed
    /\ UNCHANGED <<plan, stream, file, off, control, fifo, buVars>>

Write_TWEOF ==
    /\ twrp = "eof" /\ ~Gone /\ Send("TWEOF", file)
    /\ twrp' = IF writer THEN "close" ELSE "file"
    /\ UNCHANGED <<plan, stream, file, off, fifo, writer, buVars>>

CloseOutput ==
    /\ twrp = "close" /\ twrp' = "file" /\ writer' = FALSE
    /\ UNCHANGED <<plan, stream, file, off, control, fifo, buVars>>

\* The control fifo is opened for the trailer without O_NONBLOCK.
Write_ADB_Stream_Trailer ==
    /\ twrp = "file" /\ file = Len(plan.files) /\ ~Gone /\ twrp' = "done" /\ Send("TWENDADB", 0)
    /\ UNCHANGED <<plan, stream, file, off, fifo, writer, buVars>>

\* A partition cannot be read or the backup is cancelled: bu is told nothing.
BackupFails ==
    /\ plan.fails /\ twrp \in {"file", "write"} /\ twrp' = "failed" /\ writer' = FALSE
    /\ UNCHANGED <<plan, stream, file, off, control, fifo, buVars>>

\* An open that waits for a reader; TW_ADB_BACKUP and the control fifo at the end.
Waits == twrp = "open" \/ (twrp = "file" /\ file = Len(plan.files))

\* Without bu nothing can be sent, and a write to the fifo gets EPIPE.  (An image finds no
\* TW_ADB_BACKUP, makes a file of that name and fails at Write_TWEOF.)
BuIsGone ==
    /\ Gone /\ twrp \in {"file", "open", "write", "eof"} /\ (Waits => bu = "failed")
    /\ twrp = "write" => off < File(file).length
    /\ twrp' = "failed" /\ writer' = FALSE
    /\ UNCHANGED <<plan, stream, file, off, control, fifo, buVars>>

\* A fifo that is opened after bu has closed it and before it is unlinked has no reader
\* any more.
OpenForEver ==
    /\ bu = "closed" /\ Waits /\ twrp' = "stuck"
    /\ UNCHANGED <<plan, stream, file, off, control, fifo, writer, buVars>>

-----------------------------------------------------------------------------
(***************************************************************************)
(* bu.  A read of an empty fifo gives -1 while there is a writer, and 0    *)
(* when there is none.                                                     *)
(***************************************************************************)
OpenFifos ==
    /\ bu = "open" /\ bu' = "control"
    /\ UNCHANGED <<plan, lost, stream, twrpVars, control, fifo, writer, section, writedata, compressed,
                   firstDataPacket, fileBytes, dataChunkBytes, spins, outrun>>

\* The host gets what is written as long as it receives.
Out(s) == stream' = IF lost THEN stream ELSE stream \o s

\* A structure other than TWEOF and TWERROR goes to the host as it is.
Command(c) ==
    /\ Out(IF c.t = "TWERROR" THEN <<>> ELSE Struct(c.t, c.f))
    /\ writedata' = (c.t \in {"TWIMG", "TWFN"})
    /\ IF writedata' THEN section' = c.f /\ compressed' = File(c.f).compressed
                     ELSE UNCHANGED <<section, compressed>>
    /\ bu' = CASE c.t = "TWENDADB" -> "done"
               [] c.t = "TWERROR" -> "closed"
               [] OTHER -> IF writedata' \/ compressed' THEN "data" ELSE "control"

ReadControl ==
    /\ bu = "control" /\ control # <<>> /\ control' = Tail(control) /\ dataChunkBytes' = 0
    /\ IF Head(control).t = "TWEOF"
       THEN bu' = "flush" /\ spins' = 0 /\ UNCHANGED <<stream, section, writedata, compressed>>
       ELSE Command(Head(control)) /\ UNCHANGED spins
    /\ UNCHANGED <<plan, lost, twrpVars, fifo, writer, firstDataPacket, fileBytes, outrun>>

NoControl ==
    /\ bu = "control" /\ control = <<>> /\ (writedata \/ compressed) /\ bu' = "data"
    /\ UNCHANGED <<plan, lost, stream, twrpVars, control, fifo, writer, section, writedata, compressed,
                   firstDataPacket, fileBytes, dataChunkBytes, spins, outrun>>

-----------------------------------------------------------------------------
\* The next n bytes of the fifo, of which some may not be the section's.
Taken(n) == SubSeq(fifo, 1, n)
Foreign(n) == \E i \in 1 .. n : fifo[i].f # section

\* The data of one read, after a TWDATA structure if it is the first of its chunk.
Chunk(n) ==
    LET header == IF firstDataPacket THEN Struct("TWDATA", section) ELSE <<>>
        size == dataChunkBytes + Len(header) + n
    IN  /\ Out(header \o Taken(n))
        /\ fileBytes' = fileBytes + Len(header) + n
        /\ firstDataPacket' = (size = DATA_MAX_CHUNK_SIZE)
        /\ dataChunkBytes' = size % DATA_MAX_CHUNK_SIZE
        /\ bu' = IF size % DATA_MAX_CHUNK_SIZE > DATA_MAX_CHUNK_SIZE - MAX_ADB_READ
                 THEN "fill" ELSE "data"

ReadData ==
    /\ bu = "data"
    /\ IF fifo = <<>>
       THEN /\ bu' = "control"
            /\ UNCHANGED <<stream, fifo, firstDataPacket, fileBytes, dataChunkBytes, outrun>>
       ELSE LET n == Min({Len(fifo), MAX_ADB_READ})
            IN  /\ Chunk(n) /\ fifo' = SubSeq(fifo, n + 1, Len(fifo))
                /\ outrun' = (outrun \/ Foreign(n))
    /\ UNCHANGED <<plan, lost, twrpVars, control, writer, section, writedata, compressed, spins>>

\* Mutant: only data ends the wait.
FillWithData ==
    /\ bu = "fill" /\ fifo # <<>>
    /\ LET n == Min({Len(fifo), DATA_MAX_CHUNK_SIZE - dataChunkBytes})
           full == dataChunkBytes + n = DATA_MAX_CHUNK_SIZE
       IN  /\ Out(Taken(n)) /\ fifo' = SubSeq(fifo, n + 1, Len(fifo))
           /\ fileBytes' = fileBytes + n /\ outrun' = (outrun \/ Foreign(n))
           /\ dataChunkBytes' = IF full THEN 0 ELSE dataChunkBytes + n
           /\ firstDataPacket' = full /\ bu' = IF full THEN "data" ELSE "fill"
    /\ UNCHANGED <<plan, lost, twrpVars, control, writer, section, writedata, compressed, spins>>

\* Less than a read fits into the chunk; bu waits for that much, or for the last writer
\* to close the fifo.
FillChunk ==
    /\ bu = "fill" /\ (fifo = <<>> => ~writer)
    /\ LET n == Min({Len(fifo), DATA_MAX_CHUNK_SIZE - dataChunkBytes})
           full == n = 0 \/ dataChunkBytes + n = DATA_MAX_CHUNK_SIZE
       IN  /\ Out(Taken(n)) /\ fifo' = SubSeq(fifo, n + 1, Len(fifo))
           /\ fileBytes' = fileBytes + n /\ outrun' = (outrun \/ Foreign(n))
           /\ dataChunkBytes' = IF full THEN 0 ELSE dataChunkBytes + n
           /\ firstDataPacket' = full /\ bu' = IF full THEN "data" ELSE "fill"
    /\ UNCHANGED <<plan, lost, twrpVars, control, writer, section, writedata, compressed, spins>>

\* "bytes = read(...) != 0" is 1 whatever is read, up to MAX_ADB_READ bytes or, with the
\* result -1, nothing: one byte of the buffer goes to the host.
FlushByte ==
    /\ bu = "flush" /\ (fifo = <<>> => writer /\ spins < SPIN_LIMIT)
    /\ Out(IF fifo = <<>> THEN <<Zero>> ELSE Taken(1))
    /\ fifo' = SubSeq(fifo, MAX_ADB_READ + 1, Len(fifo))
    /\ fileBytes' = fileBytes + 1
    /\ spins' = IF fifo = <<>> THEN spins + 1 ELSE spins
    /\ outrun' = (outrun \/ fifo # <<>>)
    /\ UNCHANGED <<plan, lost, twrpVars, control, writer, bu, section, writedata, compressed,
                   firstDataPacket, dataChunkBytes>>

\* Mutant: no padding to the end of the chunk.
TrailerUnpadded ==
    /\ bu = "flush" /\ fifo = <<>> /\ ~writer
    /\ Out(Struct("MD5TRAILER", section))
    /\ section' = 0 /\ writedata' = FALSE /\ firstDataPacket' = TRUE /\ fileBytes' = 0
    /\ bu' = IF compressed THEN "data" ELSE "control"
    /\ UNCHANGED <<plan, lost, twrpVars, control, fifo, writer, compressed, dataChunkBytes, spins, outrun>>

\* The chunk is filled with zeros, and the trailer ends the file.
WriteTrailer ==
    /\ bu = "flush" /\ fifo = <<>> /\ ~writer
    /\ Out(Zeros((-fileBytes) % DATA_MAX_CHUNK_SIZE) \o Struct("MD5TRAILER", section))
    /\ section' = 0 /\ writedata' = FALSE /\ firstDataPacket' = TRUE /\ fileBytes' = 0
    /\ bu' = IF compressed THEN "data" ELSE "control"
    /\ UNCHANGED <<plan, lost, twrpVars, control, fifo, writer, compressed, dataChunkBytes, spins, outrun>>

HostLost ==
    /\ plan.lost /\ bu \notin {"closed", "failed", "done"} /\ ~lost /\ lost' = TRUE
    /\ UNCHANGED <<plan, stream, twrpVars, control, fifo, writer, bu, section, writedata, compressed,
                   firstDataPacket, fileBytes, dataChunkBytes, spins, outrun>>

\* bu returns when an fwrite to the host fails.  It need not fail: the buffer of stdio may
\* take the data, and what fflush says is not looked at.  While a chunk is filled and the
\* rest of a file is flushed, the result of fwrite is not found to be wrong either.
WriteFails ==
    /\ lost
    /\ \/ bu = "control" /\ control # <<>> /\ Head(control).t \notin {"TWEOF", "TWERROR"}
       \/ bu = "data" /\ fifo # <<>>
       \/ bu = "flush" /\ fifo = <<>> /\ ~writer
    /\ bu' = "closed" /\ control' = <<>> /\ fifo' = <<>>
    /\ UNCHANGED <<plan, lost, stream, twrpVars, writer, section, writedata, compressed,
                   firstDataPacket, fileBytes, dataChunkBytes, spins, outrun>>

Unlink ==
    /\ bu = "closed" /\ bu' = "failed"
    /\ UNCHANGED <<plan, lost, stream, twrpVars, control, fifo, writer, section, writedata,
                   compressed, firstDataPacket, fileBytes, dataChunkBytes, spins, outrun>>

-----------------------------------------------------------------------------
TwrpBackup ==
    \/ Write_ADB_Stream_Header \/ Write_TWERROR \/ WriteFileHeader \/ OpenFifo \/ WriteFifo
    \/ CloseFifo \/ Write_TWEOF \/ CloseOutput \/ Write_ADB_Stream_Trailer \/ BuIsGone \/ OpenForEver

BuBackup ==
    \/ OpenFifos \/ ReadControl \/ NoControl \/ ReadData \/ FillChunk \/ FlushByte \/ WriteTrailer
    \/ WriteFails \/ Unlink
=============================================================================
