------------------------------ MODULE Uncrypt ------------------------------
(***************************************************************************)
(* uncrypt/uncrypt.cpp, produce_block_map(): while Android runs, rewrites  *)
(* an update package on an encrypted /data in the clear, in place, and     *)
(* writes the block map recovery reads it by; and MapBlockFile() of        *)
(* otautil/SysUtil.cpp, by which recovery reads it.                        *)
(*                                                                         *)
(* A block of the device holds block i of package k, in the clear or not.  *)
(* Read through the file system, an enciphered block is in the clear and   *)
(* one already rewritten is Junk.  A block map is the sequence of its      *)
(* lines, all of one length: the number of blocks (for the device's name   *)
(* and the sizes), the number of ranges, and the ranges.                   *)
(***************************************************************************)
EXTENDS Storage, FiniteSets

CONSTANTS
    Package,             \* update packages on /data
    Blocks,              \* Blocks[k]: device blocks of package k, in order
    WINDOW_SIZE,
    FIBMAP_RETRY_LIMIT

Device == UNION {{Blocks[k][i] : i \in DOMAIN Blocks[k]} : k \in Package}

ASSUME UncryptConstantsOK ==
    /\ Package \subseteq Nat \ {0}
    /\ \A k \in Package : Blocks[k] \in Seq(Nat \ {0}) /\ Blocks[k] # <<>>
    /\ \A j, k \in Package : \A i \in DOMAIN Blocks[j], h \in DOMAIN Blocks[k] :
           Blocks[j][i] = Blocks[k][h] => j = k /\ i = h
    /\ WINDOW_SIZE \in Nat \ {0, 1} /\ FIBMAP_RETRY_LIMIT \in Nat

VARIABLES
    dev,         \* the blocks on the device
    dirty,       \* blocks written to the device that no fsync has covered
    step,        \* step of produce_block_map, "idle" between calls
    package,     \* the package being processed
    buffers,     \* the window of blocks read and not yet written
    head, tail,
    pos,         \* blocks read
    head_block,  \* blocks written
    ranges,
    lines,       \* lines of the map written so far
    tries,       \* how often FIBMAP has answered 0 for this block
    stale,       \* lines that were in map.tmp when this call began
    status,      \* what the last call reported: 100, -1, or 0 for nothing
    spoilt,      \* history: packages that were not whole when a call began, or that got
                 \* a block mapped to the wrong place
    calls,       \* calls of produce_block_map so far
    failures     \* calls of the system that have failed

call == <<step, package, buffers, head, tail, pos, head_block, ranges, lines, tries, stale>>
uncryptVars == <<dev, dirty, call, status, spoilt, calls, failures>>

Clear(k, i) == [of |-> <<k, i>>, clear |-> TRUE]
Cipher(k, i) == [of |-> <<k, i>>, clear |-> FALSE]
Junk == [of |-> <<>>, clear |-> TRUE]

\* What reading the device gives while it is up.
Seen == [p \in Device |-> IF p \in DOMAIN dirty THEN dirty[p] ELSE dev[p]]

Stored(k, i) == IF plan.encrypted THEN Cipher(k, i) ELSE Clear(k, i)

\* What reading block i of the file gives.
FileBlock(k, i) == IF Seen[Blocks[k][i]] = Stored(k, i) THEN Clear(k, i) ELSE Junk

Whole(k) == \A i \in DOMAIN Blocks[k] : FileBlock(k, i) = Clear(k, i)

NoCall == /\ step = "idle" /\ package = 0 /\ buffers = <<>> /\ head = 0 /\ tail = 0
          /\ pos = 0 /\ head_block = 0 /\ ranges = <<>> /\ lines = 0 /\ tries = 0
          /\ stale = 0

EndCall == /\ step' = "idle" /\ package' = 0 /\ buffers' = <<>> /\ head' = 0 /\ tail' = 0
           /\ pos' = 0 /\ head_block' = 0 /\ ranges' = <<>> /\ lines' = 0 /\ tries' = 0
           /\ stale' = 0

UncryptInit ==
    /\ dev = [p \in Device |->
                 CHOOSE c \in UNION {{Stored(k, i) : i \in {n \in DOMAIN Blocks[k] :
                                         Blocks[k][n] = p}} : k \in Package} : TRUE]
    /\ dirty = <<>> /\ status = 0 /\ spoilt = {} /\ calls = 0 /\ failures = 0 /\ NoCall

-----------------------------------------------------------------------------
Line(file, n, x) == IF n <= Len(file) THEN [file EXCEPT ![n] = x] ELSE Append(file, x)

\* WriteStringToFd(x, mapfd): the next line, over what was there.
WriteLine(x) == /\ Change([cache EXCEPT !.tmp = Line(cache.tmp, lines + 1, x)])
                /\ lines' = lines + 1

Return(s) == status' = s /\ EndCall

(***************************************************************************)
(* The call begins: the old map is removed, map.tmp opened or created but  *)
(* not truncated.  Nothing looks at the package: one that an earlier call  *)
(* has rewritten is rewritten again.                                       *)
(***************************************************************************)
Begin(k) ==
    LET removed == [cache EXCEPT !.map = NoFile]
        opened == [removed EXCEPT !.tmp = IF @ = NoFile THEN <<>> ELSE @]
    IN  /\ step = "idle" /\ k \in plan.packages
        /\ calls < plan.calls /\ calls' = calls + 1
        /\ cache' = opened /\ may' = may \cup {removed, opened}
        /\ step' = "header" /\ package' = k /\ status' = 0
        /\ stale' = Len(opened.tmp)
        /\ spoilt' = IF Whole(k) THEN spoilt ELSE spoilt \cup {k}
        /\ buffers' = [n \in 0 .. WINDOW_SIZE - 1 |-> Junk]
        /\ UNCHANGED <<plan, misc, dev, dirty, head, tail, pos, head_block, ranges, lines, tries,
                       failures>>

WriteHeader ==
    /\ step = "header" /\ WriteLine(Len(Blocks[package]))
    /\ step' = "blocks"
    /\ UNCHANGED <<plan, misc, dev, dirty, package, buffers, head, tail, pos, head_block, ranges,
                   tries, stale, status, spoilt, calls,
                   failures>>

WindowFull == (tail + 1) % WINDOW_SIZE = head

ReadAll == pos = Len(Blocks[package])

ReadTail ==
    /\ step = "blocks" /\ ~ReadAll /\ ~WindowFull
    /\ buffers' = IF plan.encrypted
                  THEN [buffers EXCEPT ![tail] = FileBlock(package, pos + 1)] ELSE buffers
    /\ pos' = pos + 1 /\ tail' = (tail + 1) % WINDOW_SIZE
    /\ UNCHANGED <<storage, dev, dirty, step, package, head, head_block, ranges, lines, tries,
                   stale, status, spoilt, calls,
                   failures>>

\* Mutant: a new range is empty.
AddEmptyRange(new_block) ==
    LET n == Len(ranges)
    IN  IF n > 0 /\ ranges[n][2] = new_block
        THEN [ranges EXCEPT ![n][2] = new_block + 1]
        ELSE Append(ranges, <<new_block, new_block>>)

add_block_to_ranges(new_block) ==
    LET n == Len(ranges)
    IN  IF n > 0 /\ ranges[n][2] = new_block
        THEN [ranges EXCEPT ![n][2] = new_block + 1]
        ELSE Append(ranges, <<new_block, new_block + 1>>)

MustWrite == step = "blocks" /\ (IF ReadAll THEN head # tail ELSE WindowFull)

\* A block of the device joins the map, and the head buffer is written there.
WriteHeadAt(block) ==
    /\ ranges' = add_block_to_ranges(block)
    /\ dirty' = IF plan.encrypted
                THEN [p \in DOMAIN dirty \cup {block} |->
                         IF p = block THEN buffers[head] ELSE dirty[p]]
                ELSE dirty
    /\ head' = (head + 1) % WINDOW_SIZE /\ head_block' = head_block + 1 /\ tries' = 0
    /\ spoilt' = IF block = Blocks[package][head_block + 1] THEN spoilt
                 ELSE spoilt \cup {package}
    /\ UNCHANGED <<storage, dev, step, package, buffers, tail, pos, lines, stale, status, calls,
                   failures>>

WriteHead == MustWrite /\ tries = 0 /\ WriteHeadAt(Blocks[package][head_block + 1])

(***************************************************************************)
(* FIBMAP answers 0 for a block that has no place yet; retry_fibmap asks   *)
(* again, each time after an fsync of the file, and gives up in the end.   *)
(***************************************************************************)
FibmapZero ==
    /\ MustWrite
    /\ IF tries < FIBMAP_RETRY_LIMIT
       THEN tries' = tries + 1 /\ UNCHANGED <<status, step, package, buffers, head, tail, pos,
                                              head_block, ranges, lines, stale>>
       ELSE Return(-1)
    /\ UNCHANGED <<storage, dev, dirty, spoilt, calls, failures>>

\* What it asks for is the block whose number the answer has overwritten: block 0 of the
\* file, whichever block it was called for.
retry_fibmap == MustWrite /\ tries > 0 /\ WriteHeadAt(Blocks[package][1])

WriteCount ==
    /\ step = "blocks" /\ ReadAll /\ head = tail
    /\ WriteLine(Len(ranges)) /\ step' = "ranges"
    /\ UNCHANGED <<plan, misc, dev, dirty, package, buffers, head, tail, pos, head_block, ranges,
                   tries, stale, status, spoilt, calls,
                   failures>>

WriteRange ==
    /\ step = "ranges" /\ lines < Len(ranges) + 2
    /\ WriteLine(ranges[lines - 1])
    /\ UNCHANGED <<plan, misc, dev, dirty, step, package, buffers, head, tail, pos, head_block,
                   ranges, tries, stale, status, spoilt, calls,
                   failures>>

\* Mutant: the map is published before the device is synced.
SyncMapOnly ==
    /\ step = "ranges" /\ lines = Len(ranges) + 2 /\ Sync(cache) /\ step' = "rename"
    /\ UNCHANGED <<plan, misc, dev, dirty, package, buffers, head, tail, pos, head_block, ranges,
                   lines, tries, stale, status, spoilt, calls,
                   failures>>

SyncMap ==
    /\ step = "ranges" /\ lines = Len(ranges) + 2 /\ Sync(cache)
    /\ step' = IF plan.encrypted THEN "device" ELSE "rename"
    /\ UNCHANGED <<plan, misc, dev, dirty, package, buffers, head, tail, pos, head_block, ranges,
                   lines, tries, stale, status, spoilt, calls,
                   failures>>

SyncDevice ==
    /\ step = "device" /\ dev' = Seen /\ dirty' = <<>> /\ step' = "rename"
    /\ UNCHANGED <<storage, package, buffers, head, tail, pos, head_block, ranges, lines, tries,
                   stale, status, spoilt, calls,
                   failures>>

Rename ==
    /\ step = "rename" /\ Change([cache EXCEPT !.map = cache.tmp, !.tmp = NoFile])
    /\ step' = "directory"
    /\ UNCHANGED <<plan, misc, dev, dirty, package, buffers, head, tail, pos, head_block, ranges,
                   lines, tries, stale, status, spoilt, calls,
                   failures>>

SyncDirectory ==
    /\ step = "directory" /\ Sync(cache) /\ status' = 100
    /\ step' = "reported"
    /\ UNCHANGED <<plan, misc, dev, dirty, package, buffers, head, tail, pos, head_block, ranges,
                   lines, tries, stale, spoilt, calls, failures>>

\* main waits for the caller's answer to the last status, and exits.
Exit == /\ step = "reported" /\ EndCall
        /\ UNCHANGED <<storage, dev, dirty, status, spoilt, calls, failures>>

\* Any call of the system may fail; what was done so far stays as it is.
SystemCallFails ==
    /\ step \notin {"idle", "reported"} /\ failures < plan.failures
    /\ failures' = failures + 1 /\ Return(-1)
    /\ UNCHANGED <<storage, dev, dirty, spoilt, calls>>

UncryptStep ==
    \/ WriteHeader \/ ReadTail \/ WriteHead \/ FibmapZero \/ retry_fibmap \/ WriteCount \/ WriteRange
    \/ SyncMap \/ SyncDevice \/ Rename \/ SyncDirectory \/ Exit

\* The device loses power: of the writes no fsync covered, any may be lost.
UncryptAfterPowerLoss ==
    /\ \E kept \in SUBSET DOMAIN dirty :
           dev' = [p \in Device |-> IF p \in kept THEN dirty[p] ELSE dev[p]]
    /\ dirty' = <<>> /\ EndCall /\ status' = 0
    /\ UNCHANGED <<spoilt, calls, failures>>

-----------------------------------------------------------------------------
\* The device blocks the ranges of a map name, in order.
Named(map) ==
    LET End[i \in 0 .. map[2]] ==
            IF i = 0 THEN 0 ELSE End[i - 1] + map[i + 2][2] - map[i + 2][1]
    IN  [n \in 1 .. End[map[2]] |->
            LET i == CHOOSE i \in 1 .. map[2] : End[i - 1] < n /\ n <= End[i]
            IN  map[i + 2][1] + n - End[i - 1] - 1]

(***************************************************************************)
(* Does MapBlockFile accept the map?  It wants as many lines as the range  *)
(* count says, and ranges that add up to the size.                         *)
(***************************************************************************)
MapBlockFile(map) ==
    /\ map # NoFile /\ Len(map) >= 3
    /\ map[2] > 0 /\ Len(map) = 2 + map[2]
    /\ \A i \in 3 .. Len(map) : map[i][1] < map[i][2]
    /\ Len(Named(map)) = map[1]

\* Does the map, on a device that holds d, give package k?
Gives(map, d, k) ==
    /\ Len(Named(map)) = Len(Blocks[k])
    /\ \A i \in DOMAIN Blocks[k] : Named(map)[i] \in Device /\ d[Named(map)[i]] = Clear(k, i)
=============================================================================
