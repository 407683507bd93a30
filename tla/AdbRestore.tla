----------------------------- MODULE AdbRestore -----------------------------
(***************************************************************************)
(* adb restore: the bu process (twrpback::restore) reads the stream from   *)
(* the host, tells TWRP of each file through one fifo and writes its data  *)
(* to another; TWRP (Restore_ADB_Backup) restores one partition after the  *)
(* other, and sends TWEOF to bu through a third when a partition is done.  *)
(*                                                                         *)
(* An image is read to its size and a tar to its own end, which come       *)
(* before the padding; the data left in the fifo is never read.            *)
(***************************************************************************)
EXTENDS AdbStream

VARIABLES
    input,           \* what bu has not read of the stream
    cut,             \* has the host stopped sending?
    rbu,             \* where bu is, "off" before the restore
    adb_write_fd,    \* is it open on TW_ADB_RESTORE?
    leaked,          \* is a descriptor that was overwritten still open on it?
    read_from_adb, tweofrcvd,
    rfile,           \* the file of the last header, whose size is md5fnsize
    rfileBytes, rdataChunkBytes,
    buControl,       \* TW_ADB_BU_CONTROL
    twrpControl,     \* TW_ADB_TWRP_CONTROL
    rfifo,           \* TW_ADB_RESTORE
    reader,          \* its other end: "none", "opening" or "open"
    rtwrp,           \* where TWRP is
    restoring,       \* the partition being restored
    got,             \* got[f]: the bytes read for the partition of file f
    eof,             \* the file of the last TWEOF bu has read
    unwaited         \* has bu passed a trailer without the TWEOF of that file?

rbuVars == <<input, cut, rbu, adb_write_fd, leaked, read_from_adb, tweofrcvd, rfile, rfileBytes,
             rdataChunkBytes, eof, unwaited>>
rtwrpVars == <<reader, rtwrp, restoring, got>>
restoreVars == <<rbuVars, rtwrpVars, buControl, twrpControl, rfifo>>

\* tweofrcvd is not initialised.
RestoreInit ==
    /\ input = <<>> /\ cut = FALSE /\ rbu = "off" /\ adb_write_fd = FALSE /\ leaked = FALSE
    /\ read_from_adb = TRUE /\ tweofrcvd = FALSE /\ rfile = 0 /\ rfileBytes = 0
    /\ rdataChunkBytes = 0 /\ buControl = <<>> /\ twrpControl = <<>> /\ rfifo = <<>>
    /\ reader = "none" /\ rtwrp = "off" /\ restoring = 0 /\ got = [f \in DOMAIN plan.files |-> <<>>]
    /\ eof = 0 /\ unwaited = FALSE

\* bu sends "adbrestore" and TWRP takes it up.
StartRestore ==
    /\ rbu = "off" /\ rbu' = "open" /\ rtwrp' = "open" /\ input' = stream
    /\ tweofrcvd' \in BOOLEAN
    /\ UNCHANGED <<plan, stream, cut, adb_write_fd, leaked, read_from_adb, rfile, rfileBytes,
                   rdataChunkBytes, eof, unwaited, reader, restoring, got, buControl, twrpControl,
                   rfifo>>

-----------------------------------------------------------------------------
(***************************************************************************)
(* bu.                                                                     *)
(***************************************************************************)
Writers == adb_write_fd \/ leaked

\* A fifo that nobody has open loses what is in it.
Kept(s, writers, readers) == IF writers \/ readers # "none" THEN s ELSE <<>>

\* TW_ADB_TWRP_CONTROL is opened, with O_NONBLOCK and ADB_BU_MAX_ERROR attempts.
OpenTwrpControl ==
    /\ rbu = "open"
    /\ \/ rtwrp # "open" /\ rbu' = "control"
       \/ rtwrp = "open" /\ rbu' = "failed"
    /\ UNCHANGED <<plan, stream, input, cut, adb_write_fd, leaked, read_from_adb, tweofrcvd, rfile,
                   rfileBytes, rdataChunkBytes, eof, unwaited, rtwrpVars, buControl, twrpControl,
                   rfifo>>

\* The process ends, and with it its descriptors.
BuExits(how) ==
    /\ rbu' = how /\ adb_write_fd' = FALSE /\ leaked' = FALSE
    /\ rfifo' = Kept(rfifo, FALSE, reader)

\* TWEOF closes whatever adb_write_fd is by now.
ReadTwrp ==
    /\ rbu = "control" /\ buControl # <<>> /\ buControl' = Tail(buControl)
    /\ IF Head(buControl).t = "TWEOF"
       THEN /\ read_from_adb' = TRUE /\ tweofrcvd' = TRUE /\ eof' = Head(buControl).f
            /\ adb_write_fd' = FALSE /\ rfifo' = Kept(rfifo, leaked, reader)
            /\ rbu' = "stream" /\ UNCHANGED leaked
       ELSE BuExits("done") /\ UNCHANGED <<read_from_adb, tweofrcvd, eof>>
    /\ UNCHANGED <<plan, stream, input, cut, rfile, rfileBytes, rdataChunkBytes, unwaited, rtwrpVars,
                   twrpControl>>

NoCommand ==
    /\ rbu = "control" /\ buControl = <<>> /\ read_from_adb /\ rbu' = "stream"
    /\ UNCHANGED <<plan, stream, input, cut, adb_write_fd, leaked, read_from_adb, tweofrcvd, rfile,
                   rfileBytes, rdataChunkBytes, eof, unwaited, rtwrpVars, buControl, twrpControl,
                   rfifo>>

Type == IF SubSeq(input, 1, MAX_ADB_READ) = Struct(Head(input).t, Head(input).f)
        THEN Head(input).t ELSE "data"
Rest == SubSeq(input, MAX_ADB_READ + 1, Len(input))
Read(pc, types) == rbu = pc /\ input # <<>> /\ Type \in types /\ input' = Rest
Types == {"TWSTREAMHDR", "TWIMG", "TWFN", "TWDATA", "data", "zero", "MD5TRAILER", "TWENDADB"}

Tell(ms) == twrpControl' = twrpControl \o ms

ForwardHeader ==
    /\ Read("stream", {"TWSTREAMHDR", "TWENDADB"}) /\ rbu' = "control"
    /\ Tell(<<Message(Type, 0)>>) /\ read_from_adb' = (Type = "TWSTREAMHDR")
    /\ UNCHANGED <<plan, stream, cut, adb_write_fd, leaked, tweofrcvd, rfile, rfileBytes,
                   rdataChunkBytes, eof, unwaited, rtwrpVars, buControl, rfifo>>

ForwardFile ==
    /\ Read("stream", {"TWIMG", "TWFN"}) /\ rbu' = "fifo" /\ rfile' = Head(input).f
    /\ rfileBytes' = 0 /\ rdataChunkBytes' = 0 /\ Tell(<<Message(Type, rfile')>>)
    /\ UNCHANGED <<plan, stream, cut, adb_write_fd, leaked, read_from_adb, tweofrcvd, eof, unwaited,
                   rtwrpVars, buControl, rfifo>>

\* open waits for a reader, whose ever it is.
OpenRestoreFifo ==
    /\ rbu = "fifo" /\ reader # "none" /\ reader' = "open" /\ rbu' = "control"
    /\ adb_write_fd' = TRUE /\ leaked' = Writers
    /\ UNCHANGED <<plan, stream, input, cut, read_from_adb, tweofrcvd, rfile, rfileBytes,
                   rdataChunkBytes, eof, unwaited, rtwrp, restoring, got, buControl, twrpControl,
                   rfifo>>

BeginChunk ==
    /\ Read("stream", {"TWDATA"}) /\ rbu' = "chunk"
    /\ rdataChunkBytes' = rdataChunkBytes + MAX_ADB_READ
    /\ UNCHANGED <<plan, stream, cut, adb_write_fd, leaked, read_from_adb, tweofrcvd, rfile,
                   rfileBytes, eof, unwaited, rtwrpVars, buControl, twrpControl, rfifo>>

\* Outside a chunk what is no structure is the padding behind the end of a file.
SkipBlock ==
    /\ Read("stream", {"data", "zero"}) /\ rbu' = "control"
    /\ UNCHANGED <<plan, stream, cut, adb_write_fd, leaked, read_from_adb, tweofrcvd, rfile,
                   rfileBytes, rdataChunkBytes, eof, unwaited, rtwrpVars, buControl, twrpControl,
                   rfifo>>

\* Within a chunk everything but a trailer is data.  The write fails when there is no
\* reader, or when adb_write_fd has been closed.
WriteBlock ==
    /\ Read("chunk", Types \ {"MD5TRAILER"})
    /\ rfileBytes' = rfileBytes + MAX_ADB_READ
    /\ LET failed == ~adb_write_fd \/ reader = "none"
           size == rdataChunkBytes + MAX_ADB_READ
       IN  /\ ~failed => Len(rfifo) + MAX_ADB_READ <= PIPE_SIZE
           /\ rfifo' = IF failed THEN rfifo ELSE rfifo \o SubSeq(input, 1, MAX_ADB_READ)
           /\ rdataChunkBytes' = IF ~failed /\ size = DATA_MAX_CHUNK_SIZE THEN 0 ELSE size
           /\ rbu' = IF failed \/ size = DATA_MAX_CHUNK_SIZE THEN "control" ELSE "chunk"
    /\ UNCHANGED <<plan, stream, cut, adb_write_fd, leaked, read_from_adb, tweofrcvd, rfile, eof,
                   unwaited, rtwrpVars, buControl, twrpControl>>

checkMD5Trailer == Tell(<<Message("MD5TRAILER", rfile), Message("TWMD5", rfile)>>)

\* A trailer within a chunk is counted like data.
Counted ==
    LET n == IF rbu = "chunk" THEN MAX_ADB_READ ELSE 0
    IN  rfileBytes' = rfileBytes + n /\ rdataChunkBytes' = rdataChunkBytes + n

\* Mutant: bu does not wait for TWEOF.
PassTrailerAtOnce ==
    /\ \E pc \in {"stream", "chunk"} : Read(pc, {"MD5TRAILER"})
    /\ rbu' = "control" /\ checkMD5Trailer
    /\ Counted /\ adb_write_fd' = (adb_write_fd /\ rfileBytes' < File(rfile).size)
    /\ rfifo' = Kept(rfifo, adb_write_fd' \/ leaked, reader)
    /\ read_from_adb' = TRUE /\ tweofrcvd' = FALSE /\ UNCHANGED unwaited
    /\ UNCHANGED <<plan, stream, cut, leaked, rfile, eof, rtwrpVars, buControl>>

\* The stream is read on only after TWEOF, which may have come already; tweofrcvd says
\* so, but also when the TWEOF was the one of the file before.
PassTrailer ==
    /\ \E pc \in {"stream", "chunk"} : Read(pc, {"MD5TRAILER"})
    /\ rbu' = "control" /\ checkMD5Trailer
    /\ Counted /\ adb_write_fd' = (adb_write_fd /\ rfileBytes' < File(rfile).size)
    /\ rfifo' = Kept(rfifo, adb_write_fd' \/ leaked, reader)
    /\ read_from_adb' = tweofrcvd /\ tweofrcvd' = FALSE
    /\ unwaited' = (unwaited \/ (tweofrcvd /\ eof # rfile))
    /\ UNCHANGED <<plan, stream, cut, leaked, rfile, eof, rtwrpVars, buControl>>

\* Outside a chunk a short read is tried again for ever, within one bu gives up.
ShortRead ==
    /\ input = <<>>
    /\ \/ rbu = "stream" /\ rbu' = "control" /\ UNCHANGED <<adb_write_fd, leaked, rfifo>>
       \/ rbu = "chunk" /\ BuExits("failed")
    /\ UNCHANGED <<plan, stream, input, cut, read_from_adb, tweofrcvd, rfile, rfileBytes,
                   rdataChunkBytes, eof, unwaited, rtwrpVars, buControl, twrpControl>>

HostStops ==
    /\ plan.cut /\ ~cut /\ input # <<>> /\ cut' = TRUE /\ input' = <<>>
    /\ UNCHANGED <<plan, stream, rbu, adb_write_fd, leaked, read_from_adb, tweofrcvd, rfile,
                   rfileBytes, rdataChunkBytes, eof, unwaited, rtwrpVars, buControl, twrpControl,
                   rfifo>>

-----------------------------------------------------------------------------
(***************************************************************************)
(* TWRP.                                                                   *)
(***************************************************************************)
BuRuns == rbu \notin {"off", "done", "failed"}

Answer(t, f) == buControl' = IF BuRuns THEN Append(buControl, Message(t, f)) ELSE buControl

OpenControls ==
    /\ rtwrp = "open" /\ rtwrp' = "loop"
    /\ UNCHANGED <<plan, stream, rbuVars, reader, restoring, got, buControl, twrpControl, rfifo>>

\* MD5TRAILER is kept, and TWMD5, since TW_SKIP_DIGEST_CHECK_VAR has been set to 0, is
\* not compared with it.
ReadBu ==
    /\ rtwrp = "loop" /\ twrpControl # <<>> /\ twrpControl' = Tail(twrpControl)
    /\ LET c == Head(twrpControl)
       IN  CASE c.t \in {"TWIMG", "TWFN"} ->
                    rtwrp' = "fifo" /\ restoring' = c.f /\ UNCHANGED buControl
             [] c.t = "TWENDADB" -> rtwrp' = "complete" /\ Answer("TWENDADB", 0) /\ UNCHANGED restoring
             [] OTHER -> UNCHANGED <<rtwrp, restoring, buControl>>
    /\ UNCHANGED <<plan, stream, rbuVars, reader, got, rfifo>>

OpenReader ==
    /\ rtwrp = "fifo" /\ reader = "none" /\ rtwrp' = "read"
    /\ reader' = IF Writers THEN "open" ELSE "opening"
    /\ UNCHANGED <<plan, stream, rbuVars, restoring, got, buControl, twrpControl, rfifo>>

ReadBlock ==
    /\ rtwrp = "read" /\ reader = "open" /\ rfifo # <<>>
    /\ Len(got[restoring]) < File(restoring).length
    /\ got' = [got EXCEPT ![restoring] = @ \o SubSeq(rfifo, 1, MAX_ADB_READ)]
    /\ rfifo' = SubSeq(rfifo, MAX_ADB_READ + 1, Len(rfifo))
    /\ UNCHANGED <<plan, stream, rbuVars, reader, rtwrp, restoring, buControl, twrpControl>>

\* The partition is restored, and the fifo closed; TWEOF comes after that.
CloseReader ==
    /\ rtwrp = "read" /\ Len(got[restoring]) = File(restoring).length
    /\ rtwrp' = "eof" /\ reader' = "none" /\ rfifo' = Kept(rfifo, Writers, "none")
    /\ UNCHANGED <<plan, stream, rbuVars, restoring, got, buControl, twrpControl>>

AnswerEof ==
    /\ rtwrp = "eof" /\ rtwrp' = (IF BuRuns THEN "loop" ELSE "error") /\ Answer("TWEOF", restoring)
    /\ UNCHANGED <<plan, stream, rbuVars, reader, restoring, got, twrpControl, rfifo>>

\* libtar takes an end of the data between two headers for the end of the archive.
TarEnds ==
    /\ rtwrp = "read" /\ reader = "open" /\ File(restoring).type = "TWFN"
    /\ Len(got[restoring]) < File(restoring).length /\ rfifo = <<>> /\ ~Writers
    /\ rtwrp' = "eof" /\ reader' = "none"
    /\ UNCHANGED <<plan, stream, rbuVars, restoring, got, buControl, twrpControl, rfifo>>

\* The data ends too early or is not a tar, or stop_backup is set when Raw_Read_Write has
\* copied a block.
RestoreFails ==
    /\ rtwrp = "read" /\ reader = "open"
    /\ \/ Len(got[restoring]) < File(restoring).length /\ rfifo = <<>> /\ ~Writers
       \/ File(restoring).type = "TWFN" /\ ~IsPrefix(got[restoring], Data(restoring))
       \/ plan.stopped /\ File(restoring).type = "TWIMG" /\ got[restoring] # <<>>
    /\ rtwrp' = "error" /\ reader' = "none" /\ rfifo' = Kept(rfifo, Writers, "none")
    /\ Answer("TWENDADB", 0)
    /\ UNCHANGED <<plan, stream, rbuVars, restoring, got, twrpControl>>

-----------------------------------------------------------------------------
BuRestore ==
    \/ OpenTwrpControl \/ ReadTwrp \/ NoCommand \/ ForwardHeader \/ ForwardFile \/ OpenRestoreFifo
    \/ BeginChunk \/ SkipBlock \/ WriteBlock \/ PassTrailer \/ ShortRead

TwrpRestore ==
    OpenControls \/ ReadBu \/ OpenReader \/ ReadBlock \/ CloseReader \/ AnswerEof \/ TarEnds \/ RestoreFails
=============================================================================
