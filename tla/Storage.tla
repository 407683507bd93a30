------------------------------ MODULE Storage ------------------------------
(***************************************************************************)
(* What Android and recovery share and a reboot leaves in place: the       *)
(* bootloader message in /misc and the files of /cache/recovery.           *)
(*                                                                         *)
(* misc is written with O_SYNC.  A change to /cache reaches the disk at    *)
(* some later time, and changes reach it in order: may holds every state   *)
(* of /cache that a loss of power could leave.                             *)
(***************************************************************************)
EXTENDS Integers, Sequences

CONSTANTS
    NoFile,   \* stands for a file that is not there
    Plans     \* what may be asked of the device and what may go wrong (see PlanOK)

\* What a recovery option or a line of a script may ask for.
Options == {"map", "zip", "wipe cache", "wipe data", "sideload", "reboot", "reason"}

(***************************************************************************)
(* A plan: is /data encrypted, the packages uncrypt is called on and how   *)
(* often it is called, the sequences of orders one request may make, how   *)
(* many orders there are in all, how many commands the twrp tool sends,    *)
(* and how often power is lost, the recovery process dies, a call of the   *)
(* system fails, and how often in all.                                     *)
(***************************************************************************)
PlanOK(x) ==
    /\ x.encrypted \in BOOLEAN /\ x.packages \subseteq Nat \ {0}
    /\ x.options \subseteq Seq(Options)
    /\ {x.calls, x.orders, x.commands, x.outages, x.crashes, x.failures, x.faults} \subseteq Nat

ASSUME PlansOK == \A x \in Plans : PlanOK(x)

\* An order, and the lines of a file (see RecoveryBoot).
Order == [do : Options, id : Nat, from : {"message", "command", "script", "tool"}]

ASSUME NoFileOK == NoFile \notin Seq(Order)

VARIABLES
    plan,    \* the plan followed
    misc,    \* bootloader_message: [command, recovery]
    cache,   \* the files of /cache/recovery: [command, script, map, tmp]
    may      \* the states of /cache that a loss of power may leave

storage == <<plan, misc, cache, may>>

NoMessage == [command |-> "", recovery |-> <<>>]

EmptyCache == [command |-> NoFile, script |-> NoFile, map |-> NoFile, tmp |-> NoFile]

Change(c) == cache' = c /\ may' = may \cup {c}

Sync(c) == cache' = c /\ may' = {c}

StorageInit == plan \in Plans /\ misc = NoMessage /\ cache = EmptyCache /\ may = {EmptyCache}

\* A loss of power: /cache comes back as it was at some earlier time.
StorageAfterPowerLoss == /\ cache' \in may /\ may' = {cache'}
                         /\ UNCHANGED <<plan, misc>>
=============================================================================
