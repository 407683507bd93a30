----------------------------- MODULE UpdatePath -----------------------------
(***************************************************************************)
(* The way of an update from Android to recovery: uncrypt prepares the     *)
(* package and its block map, the caller orders its installation in the    *)
(* bootloader message, and TWRP carries the order out, with power lost or  *)
(* the recovery process dying on the way.                                  *)
(***************************************************************************)
EXTENDS Uncrypt, RecoveryBoot

VARIABLE result   \* of the last installation by a block map: "none", "installed", "failed",
                  \* or "no map" if MapBlockFile rejects the map

vars == <<storage, uncryptVars, recoveryVars, result>>

Init == StorageInit /\ UncryptInit /\ RecoveryInit /\ result = "none"

-----------------------------------------------------------------------------
(***************************************************************************)
(* The caller of uncrypt's services, external: it does one thing at a      *)
(* time, first the packages and then the orders, and orders an             *)
(* installation by block map only once uncrypt has reported 100.           *)
(***************************************************************************)
CallUncrypt == /\ mode = "android" /\ issued = 0
               /\ \E k \in Package : Begin(k)
               /\ UNCHANGED <<recoveryVars, result>>

MayAsk(options) == "map" \in {options[i] : i \in DOMAIN options} => status = 100

Ask == /\ step = "idle"
       /\ \E o \in {x \in plan.options : MayAsk(x)} :
              setup_bcb(o) \/ WriteCommandFile(o) \/ WriteScript(o)
       /\ UNCHANGED <<uncryptVars, result>>

Unask == clear_bcb /\ UNCHANGED <<uncryptVars, result>>

UncryptRuns == mode = "android" /\ UncryptStep /\ UNCHANGED <<recoveryVars, result>>

CanGoWrong == failures + outages + crashes + Cardinality(lapses \ {"power"}) < plan.faults

UncryptFails == CanGoWrong /\ mode = "android" /\ SystemCallFails /\ UNCHANGED <<recoveryVars, result>>

\* An orderly shutdown ends uncrypt and writes out what it wrote.
LeaveAndroid == /\ RebootAndroid
                /\ dev' = Seen /\ dirty' = <<>> /\ EndCall /\ status' = 0
                /\ UNCHANGED <<spoilt, calls, failures, result>>

Bootloader == (\E what \in {"android", "recovery"} : Boot(what)) /\ UNCHANGED <<uncryptVars, result>>

RecoveryStarts == Startup /\ UNCHANGED <<uncryptVars, result>>

RecoveryRuns == RunStep /\ UNCHANGED <<uncryptVars, result>>

RecoveryLapses == CanGoWrong /\ RecoveryLapse /\ UNCHANGED <<uncryptVars, result>>

\* An installation by block map needs a map MapBlockFile accepts.  With one it may still
\* fail: the package is not signed or not whole, or its updater gives up.
LineEnds ==
    /\ \E ok \in BOOLEAN :
          /\ EndLine(ok)
          /\ IF tmp[line + 1].do = "map"
             THEN /\ ok => MapBlockFile(cache.map)
                  /\ result' = IF ok THEN "installed"
                               ELSE IF MapBlockFile(cache.map) THEN "failed" ELSE "no map"
             ELSE UNCHANGED result
    /\ UNCHANGED uncryptVars

UserActs == User /\ UNCHANGED <<uncryptVars, result>>

Dies == CanGoWrong /\ ProcessDies /\ UNCHANGED <<uncryptVars, result>>

PowerLoss == /\ CanGoWrong /\ RecoveryAfterPowerLoss /\ StorageAfterPowerLoss /\ UncryptAfterPowerLoss
             /\ UNCHANGED result

Next == \/ CallUncrypt \/ Ask \/ Unask \/ UncryptRuns \/ UncryptFails \/ LeaveAndroid
        \/ Bootloader \/ RecoveryStarts \/ RecoveryRuns \/ LineEnds \/ RecoveryLapses
        \/ UserActs \/ Dies \/ PowerLoss

Spec == Init /\ [][Next]_vars

\* A device that is off is switched on again, and what TWRP has begun goes on.
FairSpec == Spec /\ WF_vars(Bootloader \/ RecoveryStarts \/ RecoveryRuns \/ LineEnds)

-----------------------------------------------------------------------------
(***************************************************************************)
(* MapNeverWrong: whatever /cache and the device hold, now or after a loss *)
(* of power, a block map that MapBlockFile accepts gives one package,      *)
(* whole and in the clear, unless that package was not whole when uncrypt  *)
(* was called, or FIBMAP had to be asked again for a block of it.          *)
(***************************************************************************)
MapNeverWrong ==
    \A c \in may : MapBlockFile(c.map) =>
        \A d \in {dev, Seen} : \E k \in Package :
            Gives(c.map, d, k) \/ (k \in spoilt /\ Named(c.map)[1] = Blocks[k][1])

(***************************************************************************)
(* ReportedMapIsRead: when uncrypt reports 100, recovery reads by the map  *)
(* the very package uncrypt was called on ("Recovery can take this block   *)
(* map file and retrieve the underlying file data", the head comment of    *)
(* uncrypt.cpp), or rejects it, and that only if the map.tmp of an earlier *)
(* call had more lines: it is not truncated.                               *)
(***************************************************************************)
ReportedMapIsRead ==
    step = "reported" =>
        /\ stale <= lines => MapBlockFile(cache.map)
        /\ MapBlockFile(cache.map) /\ package \notin spoilt => Gives(cache.map, dev, package)

(***************************************************************************)
(* NothingLeft: when TWRP reboots because a script succeeded, no script is *)
(* left, unless /cache could not be mounted or the script not unlinked.    *)
(***************************************************************************)
NothingLeft ==
    reboot /\ pc = "reset" =>
        tmp = NoFile /\ (cache.script = NoFile \/ lapses \cap {"mount", "unlink script"} # {})

(***************************************************************************)
(* OrderIsRun: an order that recovery finds in the bootloader message is   *)
(* carried out, even if the recovery process dies or power is lost before  *)
(* the message is cleared.  What comes between is a loss of power after    *)
(* that, a message that cannot be read, a line that cannot be written, a   *)
(* line before it that fails or reboots, and a device left locked.         *)
(***************************************************************************)
Handed(id) == /\ mode = "recovery" /\ pc = "get_args"
              /\ \E i \in DOMAIN misc.recovery :
                     misc.recovery[i].id = id /\ misc.recovery[i].do \notin Ignored

Dropped == lapses \cap {"power", "read message", "insert"} # {}

OrderIsRun ==
    \A id \in UNION {1 .. x.orders : x \in Plans} :
        Handed(id) ~> \/ Dropped \/ failed \/ dying \/ (pc = "gui" /\ locked)
                      \/ \E i \in DOMAIN ran : ran[i].id = id

(***************************************************************************)
(* UpdateIsTried: an update ordered by block map is given to the installer *)
(* without anyone unlocking the device, also when power is lost before the *)
(* message is cleared.                                                     *)
(***************************************************************************)
UpdateIsTried ==
    /\ mode = "recovery" /\ pc = "get_args" /\ tmp = NoFile
    /\ misc.recovery # <<>> /\ misc.recovery[1].do = "map" /\ MapBlockFile(cache.map)
    ~> result \in {"installed", "failed"} \/ Dropped \/ crashes > 0
=============================================================================
