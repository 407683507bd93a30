---------------------------- MODULE FuseSideload ----------------------------
(***************************************************************************)
(* fuse_sideload.cpp: the file system of one file, package.zip, whose      *)
(* blocks are fetched from the adb host when they are read.  The server    *)
(* keeps the block it fetched last and the hash of every block it has      *)
(* fetched, and is a single thread: a request is one step.                 *)
(*                                                                         *)
(* A byte of the package is its position, negative if the host sends       *)
(* something else than the first time, and 0 is padding.  SHA-256 is taken *)
(* to tell any two blocks apart, so a hash is the block.                   *)
(***************************************************************************)
EXTENDS Integers, Sequences

CONSTANTS
    block_size,
    Sizes,        \* sizes of the packages the host may offer
    Word          \* one more than the largest uint32_t (2^32)

ASSUME FuseConstantsOK ==
    /\ block_size \in Nat \ {0} /\ Sizes \subseteq Nat
    /\ Word \in Nat /\ block_size < Word

VARIABLES
    file_size,
    curr_block,   \* the block in block_data, -1 if none
    block_data,
    hashes,       \* hashes[b] for every block of the file, <<>> if not read yet
    seen,         \* seen[p]: the first byte a reader got for position p, 0 if none
    consistent,   \* was every byte the same as the first at its position?
    padded,       \* was every byte past the end of the file a zero?
    broken        \* has a transfer broken off in the buffer of a block that is kept?

fuse == <<file_size, curr_block, block_data, hashes, seen, consistent, padded, broken>>

Blocks == IF file_size = 0 THEN 0 ELSE (file_size - 1) \div block_size + 1

Positions == 0 .. (Blocks + 1) * block_size - 1

\* The server starts: calloc for the hashes, and no block yet.
Fuse(size) ==
    /\ file_size' = size /\ curr_block' = -1 /\ block_data' = [i \in 1 .. block_size |-> 0]
    /\ hashes' = [b \in 0 .. (IF size = 0 THEN -1 ELSE (size - 1) \div block_size) |-> <<>>]
    /\ seen' = [p \in 0 .. size - 1 |-> 0]
    /\ consistent' = TRUE /\ padded' = TRUE /\ broken' = FALSE

FuseInit ==
    /\ file_size = 0 /\ curr_block = -1 /\ block_data = [i \in 1 .. block_size |-> 0]
    /\ hashes = [b \in {} |-> <<>>] /\ seen = [p \in {} |-> 0]
    /\ consistent = TRUE /\ padded = TRUE /\ broken = FALSE

-----------------------------------------------------------------------------
\* What the server holds while it handles a request; ret is 0, -1 if the transfer broke
\* off, or -2 if the hash was another.
Held == [ret |-> 0, curr |-> curr_block, data |-> block_data, hashes |-> hashes]

\* The product of block and block_size is computed in 32 bits.
Start(b) == (b * block_size) % Word

fetch_size(b) ==
    IF Start(b) + block_size > file_size THEN file_size - Start(b) ELSE block_size

\* What the host sends for position p, the first time or another time.
Sent(p, other) == IF other THEN -(p + 1) ELSE p + 1

\* The block after n bytes of it have arrived; the rest of a short block is zero.
Arrived(h, b, n, other) ==
    [h EXCEPT !.data = [i \in 1 .. block_size |->
        IF i <= n THEN Sent(b * block_size + i - 1, other)
        ELSE IF i > fetch_size(b) THEN 0 ELSE h.data[i]]]

(***************************************************************************)
(* read_block: all that was asked for arrives, or the transfer breaks off  *)
(* after some of it.  It does break off at the end of the package.         *)
(***************************************************************************)
Left(b) == file_size - b * block_size

Transfers(h, b) ==
    {[Arrived(h, b, n, o) EXCEPT !.ret = IF n = fetch_size(b) THEN 0 ELSE -1] :
        n \in 0 .. (IF Left(b) < fetch_size(b) THEN Left(b) ELSE fetch_size(b)), o \in BOOLEAN}

\* Mutant: a block that was rejected is still the current one.
KeepRejected(h, b) ==
    CASE h.hashes[b] = h.data -> [h EXCEPT !.curr = b]
      [] h.hashes[b] = <<>> -> [h EXCEPT !.curr = b, !.hashes[b] = h.data]
      [] OTHER -> [h EXCEPT !.curr = b, !.ret = -2]

\* The hash of the block that has arrived against the one that is stored.
Verified(h, b) ==
    CASE h.hashes[b] = h.data -> [h EXCEPT !.curr = b]
      [] h.hashes[b] = <<>> -> [h EXCEPT !.curr = b, !.hashes[b] = h.data]
      [] OTHER -> [h EXCEPT !.curr = -1, !.ret = -2]

fetch_block(h, b) ==
    IF b = h.curr THEN {h}
    ELSE IF b >= Blocks
    THEN {[h EXCEPT !.curr = b, !.data = [i \in 1 .. block_size |-> 0]]}
    ELSE {IF t.ret = 0 THEN Verified(t, b) ELSE t : t \in Transfers(h, b)}

\* The bytes the reader gets, by position.
Part(h, b, from, to) == [p \in from .. to |-> h.data[p - b * block_size + 1]]

(***************************************************************************)
(* handle_read of size bytes at offset, in one block or over the edge to   *)
(* the next.  An error anywhere is the whole reply.                        *)
(***************************************************************************)
Replied(bytes) ==
    LET within == {p \in DOMAIN bytes : p < file_size}
    IN  /\ seen' = [p \in DOMAIN seen |->
                       IF p \in within /\ seen[p] = 0 THEN bytes[p] ELSE seen[p]]
        /\ consistent' = (consistent /\ \A p \in within : seen[p] \in {0, bytes[p]})
        /\ padded' = (padded /\ \A p \in DOMAIN bytes \ within : bytes[p] = 0)

Keep(h) ==
    /\ curr_block' = h.curr /\ block_data' = h.data /\ hashes' = h.hashes
    /\ UNCHANGED file_size

NoReply == UNCHANGED <<seen, consistent, padded>>

\* Did a transfer break off into the buffer of the block still taken to be there?
BrokeOff(h) == h.ret = -1 /\ h.curr # -1

handle_read(offset, size) ==
    LET b == offset \div block_size
        end == offset + size - 1
        edge == (b + 1) * block_size - 1
    IN  \E h \in fetch_block(Held, b) :
          \/ /\ h.ret # 0 /\ Keep(h) /\ NoReply /\ broken' = (broken \/ BrokeOff(h))
          \/ /\ h.ret = 0 /\ end <= edge /\ Keep(h) /\ Replied(Part(h, b, offset, end))
             /\ UNCHANGED broken
          \/ /\ h.ret = 0 /\ end > edge
             /\ \E g \in fetch_block(h, b + 1) :
                  /\ Keep(g)
                  /\ \/ g.ret # 0 /\ NoReply /\ broken' = (broken \/ BrokeOff(g))
                     \/ /\ g.ret = 0 /\ UNCHANGED broken
                        /\ Replied([p \in offset .. end |->
                               IF p <= edge THEN Part(h, b, offset, edge)[p]
                               ELSE Part(g, b + 1, edge + 1, end)[p]])

\* The reader maps the file in pages of the kernel, of at most block_size bytes.
Read ==
    \E offset \in Positions, size \in 1 .. block_size :
        offset + size - 1 \in Positions /\ offset < file_size /\ handle_read(offset, size)
=============================================================================
