---------------------------- MODULE BootControl ----------------------------
(***************************************************************************)
(* A/B slots: the bootctrl HAL of boot_control/boot_control.cpp, the       *)
(* update_verifier that runs at every boot of Android, and TWRP's          *)
(* Set_Active_Slot(); with the bootloader and the update engine that use   *)
(* the same slot table, which are external.                                *)
(*                                                                         *)
(* The table is written in one piece with O_SYNC and carries a CRC, so it  *)
(* is read as it was written or found invalid.  The content of a slot is   *)
(* "good" or "bad": bad is what dm-verity would not let update_verifier    *)
(* read.  A bad slot may also die before it gets that far.  The bit        *)
(* verity_corrupted, which nothing here reads, is left out.                *)
(***************************************************************************)
EXTENDS Integers, FiniteSetsExt

CONSTANTS
    num_slots,
    kDefaultBootAttempts,
    kActivePriority,
    kActiveTries,
    Cases       \* devices and updates considered (see CaseOK)

Slot == 0 .. num_slots - 1

(***************************************************************************)
(* A case: the mode of dm-verity, the care map the updates come with, and  *)
(* how many updates, changes of slot by the user, and faults there are.    *)
(***************************************************************************)
CaseOK(x) ==
    /\ x.verity \in {"enforcing", "disabled", "other"}
    /\ x.care \in {"full", "none", "malformed"}
    /\ {x.updates, x.switches, x.faults} \subseteq Nat

ASSUME ConstantsOK ==
    /\ num_slots \in Nat \ {0, 1} /\ kDefaultBootAttempts \in 1 .. 7
    /\ kActivePriority = 15 /\ kActiveTries \in 1 .. 7
    /\ \A x \in Cases : CaseOK(x)

VARIABLES
    case,
    slot_info,    \* slot_info[s]: [priority, tries_remaining, successful_boot]
    valid,        \* does the CRC of the table match?
    image,        \* image[s]: what slot s holds
    what,         \* what runs: "off", "android", "recovery", or "stuck"
    current_slot,
    step,         \* step of update_verifier; "done" when it has ended, and "left" when it has
                  \* without learning about the slot or without the reboot it asked for
    update,       \* the update engine: "none", "writing" or "written"
    active,       \* the slot last set active, -1 if none since the table was made
    initialized,  \* has the HAL of the running system looked at the table?
    display,      \* Active_Slot_Display, the slot TWRP shows as active
    corrupted,    \* has the table ever been overwritten?
    updates, switches, faults

world == <<case, image, update, updates, switches, corrupted>>
table == <<slot_info, valid, active>>
session == <<what, current_slot, initialized, display>>
vars == <<world, table, session, step, faults>>

TypeOK ==
    /\ case \in Cases
    /\ slot_info \in [Slot -> [priority : 0 .. kActivePriority, tries_remaining : 0 .. 7,
                               successful_boot : 0 .. 1]]
    /\ image \in [Slot -> {"good", "bad"}]
    /\ what \in {"off", "android", "recovery", "stuck"} /\ current_slot \in Slot
    /\ step \in {"init", "check", "verify", "mark", "reboot", "done", "left"}
    /\ update \in {"none", "writing", "written"}
    /\ active \in Slot \cup {-1} /\ display \in Slot
    /\ {valid, initialized, corrupted} \subseteq BOOLEAN

-----------------------------------------------------------------------------
\* InitDefaultBootloaderControl: current is taken to have booted successfully.
InitDefault(current) ==
    [s \in Slot |-> [priority |-> 7, tries_remaining |-> kDefaultBootAttempts,
                     successful_boot |-> IF s = current THEN 1 ELSE 0]]

isSlotBootable(s) == slot_info[s].tries_remaining > 0

isSlotMarkedSuccessful(s) == slot_info[s].successful_boot = 1 /\ slot_info[s].tries_remaining > 0

\* Mutant: the last attempt that succeeds leaves the slot without tries.
MarkedOnly(s) == [slot_info EXCEPT ![s].successful_boot = 1]

MarkedSuccessful(s) ==
    [slot_info EXCEPT ![s].successful_boot = 1, ![s].tries_remaining = 1]

\* Mutant: the other slots keep their priority.
RaiseOnly(old, s) ==
    [old EXCEPT ![s].priority = kActivePriority, ![s].tries_remaining = kActiveTries]

\* Mutant: the slot set active is put above the others, past what the field holds.
RaiseAbove(old, s) ==
    [old EXCEPT ![s].priority = Max({old[i].priority + 1 : i \in Slot} \cup {kActivePriority}),
                ![s].tries_remaining = kActiveTries]

SetActive(old, s) ==
    [i \in Slot |->
        IF i = s THEN [old[s] EXCEPT !.priority = kActivePriority,
                                     !.tries_remaining = kActiveTries]
        ELSE IF old[i].priority >= kActivePriority
        THEN [old[i] EXCEPT !.priority = kActivePriority - 1] ELSE old[i]]

\* Mutant: every slot is cleared, as if the table were made anew.
AllUnbootable(s) ==
    [i \in Slot |-> [slot_info[i] EXCEPT !.successful_boot = 0, !.tries_remaining = 0]]

SetUnbootable(s) ==
    [slot_info EXCEPT ![s].successful_boot = 0, ![s].tries_remaining = 0]

Init ==
    /\ case \in Cases
    /\ slot_info = InitDefault(0) /\ valid = TRUE /\ active = -1
    /\ image = [s \in Slot |-> IF s = 0 THEN "good" ELSE "bad"]
    /\ what = "off" /\ current_slot = 0 /\ step = "done" /\ update = "none"
    /\ initialized = FALSE /\ display = 0 /\ corrupted = FALSE
    /\ updates = 0 /\ switches = 0 /\ faults = 0

(***************************************************************************)
(* The bootloader, external: it repairs an invalid table, picks a bootable *)
(* slot of the highest priority, and counts the attempt unless the slot    *)
(* has booted successfully before.  Recovery is entered without counting,  *)
(* and shows the slot it was booted from as the active one.                *)
(***************************************************************************)
Repaired == IF valid THEN slot_info ELSE InitDefault(-1)

Candidates ==
    LET bootable == {s \in Slot : Repaired[s].tries_remaining > 0}
    IN  {s \in bootable : \A t \in bootable : Repaired[t].priority <= Repaired[s].priority}

Boot(s, into) ==
    /\ what = "off" /\ s \in Candidates
    /\ what' = into /\ current_slot' = s /\ initialized' = FALSE /\ display' = s
    /\ slot_info' = IF into = "recovery" \/ Repaired[s].successful_boot = 1 THEN Repaired
                    ELSE [Repaired EXCEPT ![s].tries_remaining = @ - 1]
    /\ valid' = TRUE /\ active' = IF valid THEN active ELSE -1
    /\ step' = IF into = "android" THEN "init" ELSE "done"
    /\ UNCHANGED <<world, faults>>

NothingToBoot ==
    /\ what = "off" /\ Candidates = {} /\ what' = "stuck"
    /\ UNCHANGED <<world, table, current_slot, initialized, display, step, faults>>

\* The system that runs ends; an update under way is given up.
Off ==
    /\ what' = "off" /\ step' = "done" /\ update' = "none"
    /\ UNCHANGED <<case, image, updates, switches, corrupted, table, current_slot, initialized,
                   display>>

-----------------------------------------------------------------------------
(***************************************************************************)
(* BootControl_lazyInitialization, in the HAL of the system that runs: an  *)
(* invalid table is replaced, the first time it is looked at.  Afterwards  *)
(* the CRC is written and never compared.                                  *)
(***************************************************************************)
Replaced == ~initialized /\ ~valid

Initialized == IF Replaced THEN InitDefault(current_slot) ELSE slot_info

LazyInitialization ==
    /\ what = "android" /\ step = "init" /\ step' = "check"
    /\ slot_info' = Initialized /\ valid' = (valid \/ Replaced) /\ initialized' = TRUE
    /\ active' = IF Replaced THEN -1 ELSE active
    /\ UNCHANGED <<world, what, current_slot, display, faults>>

\* There is no HAL: update_verifier reboots.
NoModule ==
    /\ what = "android" /\ step = "init" /\ step' = "reboot"
    /\ faults < case.faults /\ faults' = faults + 1
    /\ UNCHANGED <<world, table, session>>

(***************************************************************************)
(* The table cannot be read, when the HAL initializes itself or when it is *)
(* asked about the slot.  It answers with an error, and update_verifier    *)
(* acts on BoolResult::FALSE only.                                         *)
(***************************************************************************)
CheckFails ==
    /\ what = "android" /\ step \in {"init", "check"} /\ step' = "left"
    /\ faults < case.faults /\ faults' = faults + 1
    /\ UNCHANGED <<world, table, session>>

\* update_verifier looks whether the slot has booted before, and at dm-verity.
CheckBooted ==
    /\ what = "android" /\ step = "check"
    /\ step' = IF isSlotMarkedSuccessful(current_slot) THEN "done"
               ELSE CASE case.verity = "enforcing" -> "verify"
                      [] case.verity = "disabled" -> "mark"
                      [] OTHER -> "reboot"
    /\ UNCHANGED <<world, table, session, faults>>

\* verify_image: without a care map all is well, with a malformed one nothing is.
\* Mutant: a care map that makes no sense is skipped like one that is not there.
VerifyIfPossible == case.care = "full" => image[current_slot] = "good"

VerifyImage ==
    CASE case.care = "none" -> TRUE
      [] case.care = "malformed" -> FALSE
      [] case.care = "full" -> image[current_slot] = "good"

\* Mutant: a failed verification is logged and the system goes on.
VerifyWithoutReboot ==
    /\ what = "android" /\ step = "verify"
    /\ step' = IF VerifyImage THEN "mark" ELSE "done"
    /\ UNCHANGED <<world, table, session, faults>>

Verify ==
    /\ what = "android" /\ step = "verify"
    /\ step' = IF VerifyImage THEN "mark" ELSE "reboot"
    /\ UNCHANGED <<world, table, session, faults>>

MarkBootSuccessful ==
    /\ what = "android" /\ step = "mark" /\ step' = "done"
    /\ slot_info' = MarkedSuccessful(current_slot) /\ valid' = TRUE
    /\ UNCHANGED <<world, active, session, faults>>

MarkFails ==
    /\ what = "android" /\ step = "mark" /\ step' = "reboot"
    /\ faults < case.faults /\ faults' = faults + 1
    /\ UNCHANGED <<world, table, session>>

RebootDevice == what = "android" /\ step = "reboot" /\ Off /\ UNCHANGED faults

RebootFails ==
    /\ what = "android" /\ step = "reboot" /\ step' = "left"
    /\ faults < case.faults /\ faults' = faults + 1
    /\ UNCHANGED <<world, table, session>>

\* A bad system dies before or while it is being verified.
BootFails ==
    /\ what = "android" /\ image[current_slot] = "bad" /\ step \in {"init", "check", "verify"}
    /\ Off /\ UNCHANGED faults

-----------------------------------------------------------------------------
(***************************************************************************)
(* The update engine, external, in Android or sideloaded in recovery: once *)
(* the running slot has booted successfully it makes another slot          *)
(* unbootable, writes it, and sets it active.  A HAL that could not        *)
(* initialize itself knows no slots.                                       *)
(***************************************************************************)
Running == what = "recovery" \/ (what = "android" /\ step \in {"done", "left"})

BeginUpdate(s) ==
    /\ Running /\ update # "writing" /\ updates < case.updates /\ updates' = updates + 1
    /\ s # current_slot /\ isSlotMarkedSuccessful(current_slot) /\ valid
    /\ what = "android" => initialized
    /\ slot_info' = SetUnbootable(s) /\ update' = "writing"
    /\ image' = [image EXCEPT ![s] = "bad"]
    /\ UNCHANGED <<case, switches, corrupted, valid, active, session, step, faults>>

EndUpdate(s) ==
    /\ Running /\ update = "writing" /\ s # current_slot /\ ~isSlotBootable(s)
    /\ \E i \in {"good", "bad"} : image' = [image EXCEPT ![s] = i]
    /\ slot_info' = SetActive(slot_info, s) /\ valid' = TRUE /\ active' = s /\ update' = "written"
    /\ UNCHANGED <<case, updates, switches, corrupted, session, step, faults>>

(***************************************************************************)
(* Set_Active_Slot, when the user changes slots on TWRP's reboot page:     *)
(* init, then setActiveBootSlot.  The slot shown changes even when the     *)
(* table could not be written.                                             *)
(***************************************************************************)
Set_Active_Slot(s) ==
    /\ what = "recovery" /\ update # "writing" /\ display # s
    /\ switches < case.switches /\ switches' = switches + 1
    /\ display' = s /\ initialized' = TRUE
    /\ \/ /\ slot_info' = SetActive(Initialized, s)
          /\ valid' = TRUE /\ active' = s /\ UNCHANGED faults
       \/ /\ faults < case.faults /\ faults' = faults + 1
          /\ \/ UNCHANGED table
             \/ /\ Replaced /\ slot_info' = Initialized /\ valid' = TRUE /\ active' = -1
    /\ UNCHANGED <<case, image, update, updates, corrupted, what, current_slot, step>>

\* A reboot by the user, or, before the system is up, a loss of power.
Reboot ==
    /\ what \in {"android", "recovery"} /\ Off
    /\ IF Running THEN UNCHANGED faults ELSE faults < case.faults /\ faults' = faults + 1

\* Something else wipes the table.
Corrupt ==
    /\ what # "stuck" /\ faults < case.faults /\ faults' = faults + 1
    /\ slot_info' = [s \in Slot |-> [priority |-> 0, tries_remaining |-> 0, successful_boot |-> 0]]
    /\ valid' = FALSE /\ corrupted' = TRUE
    /\ UNCHANGED <<case, image, update, updates, switches, active, session, step>>

Bootloader == NothingToBoot \/ \E s \in Slot : Boot(s, "android")

Verifier == LazyInitialization \/ CheckBooted \/ Verify \/ MarkBootSuccessful \/ RebootDevice

Next ==
    \/ Bootloader \/ (\E s \in Slot : Boot(s, "recovery"))
    \/ Verifier \/ NoModule \/ CheckFails \/ MarkFails \/ RebootFails \/ BootFails
    \/ (\E s \in Slot : BeginUpdate(s) \/ EndUpdate(s) \/ Set_Active_Slot(s))
    \/ Reboot \/ Corrupt

Spec == Init /\ [][Next]_vars

FairSpec == Spec /\ WF_vars(Bootloader) /\ WF_vars(Verifier) /\ WF_vars(BootFails)

-----------------------------------------------------------------------------
\* Is what update_verifier marks, verified?  Not when it is told to skip the
\* verification, and not in a table that was made up after the old one was lost.
Trusted == case.verity # "disabled" /\ case.care # "none" /\ ~corrupted

(***************************************************************************)
(* A slot marked successful holds a system that was verified: not an       *)
(* update that has been written over it since, nor one that was only set   *)
(* active (markBootSuccessful, setSlotAsUnbootable, and setActiveBootSlot, *)
(* which "doesn't change the successful bit").                             *)
(***************************************************************************)
SuccessfulIsGood ==
    Trusted => \A s \in Slot : isSlotMarkedSuccessful(s) => image[s] = "good"

(***************************************************************************)
(* A slot marked successful can be booted, even when it was verified in    *)
(* its last attempt ("make sure we mark the current slot as bootable if it *)
(* succeeds in the last attempt", markBootSuccessful).                     *)
(***************************************************************************)
SuccessfulIsBootable ==
    \A s \in Slot : slot_info[s].successful_boot = 1 => isSlotBootable(s)

(***************************************************************************)
(* Whatever is installed, interrupted, switched to or tried in vain, there *)
(* is a good system to go back to: the bootloader finds it once the tries  *)
(* of the others are used up.                                              *)
(***************************************************************************)
GoodSlotBootable ==
    Trusted => \E s \in Slot : isSlotMarkedSuccessful(s) /\ image[s] = "good"

(***************************************************************************)
(* The slot last set active, by an update or by the user, is the one the   *)
(* bootloader takes as long as it has tries left: no other slot has its    *)
(* priority, in whatever order slots were set active before.               *)
(***************************************************************************)
ActiveSlotIsNext ==
    (active # -1 /\ valid /\ ~corrupted /\ isSlotBootable(active)) => Candidates = {active}

(***************************************************************************)
(* Rollback: from wherever the device is reset, it comes to a good Android *)
(* or to recovery, unless update_verifier could not read the table or      *)
(* reboot.  A bad update uses up its tries, whether it dies by itself or   *)
(* is rejected by update_verifier.                                         *)
(***************************************************************************)
RollsBack ==
    (Trusted /\ what = "off")
        ~> \/ what = "recovery" \/ ~Trusted
           \/ what = "android" /\ (image[current_slot] = "good" \/ step = "left")
=============================================================================
