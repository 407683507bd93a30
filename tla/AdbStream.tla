----------------------------- MODULE AdbStream -----------------------------
(***************************************************************************)
(* What an adb backup is made of: the bytes that go from TWRP to the host  *)
(* and back.  A byte is [t, f, j]: byte j of file f, a zero of the         *)
(* padding, or byte j of a structure of type t about file f.  Every        *)
(* structure fills MAX_ADB_READ bytes, so that one read takes one of them. *)
(***************************************************************************)
EXTENDS Integers, Sequences, SequencesExt

CONSTANTS
    MAX_ADB_READ,
    DATA_MAX_CHUNK_SIZE,
    PIPE_SIZE,           \* what a fifo holds, in bytes
    Plans                \* what is backed up and what may go wrong (see PlanOK)

(***************************************************************************)
(* A plan: the files of the backup in turn, each an image ("TWIMG") or a   *)
(* tar ("TWFN"), compressed or not, with its length in bytes and the size  *)
(* its header gives (of a tar an estimate, the sum of the files in it);    *)
(* whether the backup may fail in TWRP; whether the host may be lost;      *)
(* whether the backup is restored; whether the host may stop sending; and  *)
(* whether stop_backup may be set during the restore.                      *)
(***************************************************************************)
FileOK(x) ==
    /\ x.type \in {"TWIMG", "TWFN"} /\ x.compressed \in BOOLEAN /\ x.length \in Nat \ {0}
    /\ x.size \in Nat \ {0} /\ (x.type = "TWIMG" => ~x.compressed /\ x.size = x.length)
    /\ ~x.compressed => x.length % MAX_ADB_READ = 0

PlanOK(x) ==
    /\ \A f \in DOMAIN x.files : FileOK(x.files[f])
    /\ {x.fails, x.lost, x.restored, x.cut, x.stopped} \subseteq BOOLEAN
    /\ x.restored => ~x.lost /\ \A f \in DOMAIN x.files : ~x.files[f].compressed

ASSUME AdbConstantsOK ==
    /\ MAX_ADB_READ \in Nat \ {0} /\ PIPE_SIZE \in Nat /\ PIPE_SIZE >= MAX_ADB_READ
    /\ DATA_MAX_CHUNK_SIZE \in Nat /\ DATA_MAX_CHUNK_SIZE % MAX_ADB_READ = 0
    /\ DATA_MAX_CHUNK_SIZE > MAX_ADB_READ
    /\ \A x \in Plans : PlanOK(x)

VARIABLES
    plan,
    stream      \* what the host has received of the backup

Byte(t, f, j) == [t |-> t, f |-> f, j |-> j]
Zero == Byte("zero", 0, 0)
Zeros(n) == [j \in 1 .. n |-> Zero]

File(f) == plan.files[f]
Data(f) == [j \in 1 .. File(f).length |-> Byte("data", f, j)]
Struct(t, f) == [j \in 1 .. MAX_ADB_READ |-> Byte(t, f, j)]

\* A control structure in a fifo; the end of file f is [t |-> "TWEOF", f |-> f].
Message(t, f) == [t |-> t, f |-> f]
=============================================================================
