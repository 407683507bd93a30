---------------------------- MODULE RecoveryBoot ----------------------------
(***************************************************************************)
(* How TWRP learns what to do and does it: main() of twrp.cpp, get_args()  *)
(* of bootloader_message_twrp, OpenRecoveryScript, and Update_Log_File()   *)
(* and tw_reboot() of twrp-functions.cpp; with the Android side of the     *)
(* bootloader message, setup_bcb() and clear_bcb() of uncrypt.cpp.         *)
(*                                                                         *)
(* An order is what a recovery option or a script line asks for, with an   *)
(* id of its own: [do, id, from].  /tmp is in memory: it outlives the      *)
(* recovery process, which init starts again when it dies, but not a       *)
(* reboot.                                                                 *)
(***************************************************************************)
EXTENDS Storage, FiniteSets

VARIABLES
    mode,      \* what runs: "off", "android" or "recovery"
    pc,        \* where main() or the openrecoveryscript action is
    then,      \* where Update_Log_File returns to
    args,      \* arguments not yet turned into script lines
    skip,      \* SkipDecryption
    locked,    \* TW_IS_ENCRYPTED
    tmp,       \* the script in /tmp
    line,      \* lines of it that were run
    failed,    \* ret_val of run_script_file is not 0
    sideload,  \* the script had a sideload command
    file,      \* which script runs: "tmp", "cache" or "cli"
    reboot,    \* a script succeeded: reboot afterwards
    dying,     \* a reboot was asked of init and will happen
    ran,       \* orders begun, in order
    issued,    \* ids of requests so far
    typed,     \* commands of the command line tool so far
    cleared,   \* Update_Log_File has cleared the message since the device started
    lapses,    \* history: what went wrong in recovery and was not made good (see Lapses)
    outages, crashes

process == <<pc, then, args, skip, line, failed, sideload, file, reboot>>
history == <<ran, issued, typed, outages, crashes>>
recoveryVars == <<mode, process, locked, tmp, dying, cleared, lapses, history>>

(***************************************************************************)
(* Calls of the system that failed, which the code at most logs, and       *)
(* "power": power was lost when the message had been cleared.              *)
(***************************************************************************)
Lapses == {"read message", "write message", "insert", "clear message", "unlink command",
           "mount", "copy", "unlink script", "power"}

Lapse(what) == /\ what \notin lapses /\ lapses' = lapses \cup {what}
               /\ Cardinality(lapses \ {"power"}) < plan.failures

NewProcess == /\ pc = "get_args" /\ then = "decide" /\ args = <<>> /\ skip = FALSE
              /\ line = 0 /\ failed = FALSE /\ sideload = FALSE /\ file = "tmp"
              /\ reboot = FALSE

StartProcess == /\ pc' = "get_args" /\ then' = "decide" /\ args' = <<>> /\ skip' = FALSE
                /\ line' = 0 /\ failed' = FALSE /\ sideload' = FALSE /\ file' = "tmp"
                /\ reboot' = FALSE

RecoveryInit ==
    /\ mode = "android" /\ NewProcess /\ locked = plan.encrypted /\ tmp = NoFile /\ dying = FALSE
    /\ cleared = FALSE /\ lapses = {} /\ ran = <<>> /\ issued = 0 /\ typed = 0 /\ outages = 0 /\ crashes = 0

\* The orders of a request: its options, with an id each.
Orders(options, from) ==
    [i \in DOMAIN options |-> [do |-> options[i], id |-> issued + i, from |-> from]]

-----------------------------------------------------------------------------
(* Android.  The caller of uncrypt's services is external.                 *)

CanRequest(options) == mode = "android" /\ issued + Len(options) <= plan.orders

write_bootloader_message(options) == misc' = [command |-> "boot-recovery", recovery |-> options]

setup_bcb(options) ==
    /\ CanRequest(options) /\ write_bootloader_message(Orders(options, "message"))
    /\ issued' = issued + Len(options)
    /\ UNCHANGED <<plan, cache, may, mode, process, locked, tmp, dying, cleared, lapses, ran, typed, outages,
                   crashes>>

clear_bcb ==
    /\ mode = "android" /\ misc' = NoMessage
    /\ UNCHANGED <<plan, cache, may, recoveryVars>>

\* An application leaves orders in the command file or in a script.
WriteCommandFile(options) ==
    /\ CanRequest(options) /\ Change([cache EXCEPT !.command = Orders(options, "command")])
    /\ issued' = issued + Len(options)
    /\ UNCHANGED <<plan, misc, mode, process, locked, tmp, dying, cleared, lapses, ran, typed, outages,
                   crashes>>

WriteScript(options) ==
    /\ CanRequest(options) /\ Change([cache EXCEPT !.script = Orders(options, "script")])
    /\ issued' = issued + Len(options)
    /\ UNCHANGED <<plan, misc, mode, process, locked, tmp, dying, cleared, lapses, ran, typed, outages,
                   crashes>>

\* Shutting down unmounts /cache.
RebootAndroid ==
    /\ mode = "android" /\ mode' = "off" /\ Sync(cache)
    /\ UNCHANGED <<plan, misc, process, locked, tmp, dying, cleared, lapses, history>>

(***************************************************************************)
(* The bootloader, external: recovery if the message or a key combination  *)
(* says so, else Android.                                                  *)
(***************************************************************************)
Boot(what) ==
    /\ mode = "off" /\ mode' = what /\ locked' = plan.encrypted
    /\ misc.command = "boot-recovery" => what = "recovery"
    /\ UNCHANGED <<storage, process, tmp, dying, cleared, lapses, history>>

-----------------------------------------------------------------------------
At(where) == mode = "recovery" /\ pc = where

\* Nothing changes but what the action names.
Keep(rest) == UNCHANGED <<mode, dying, issued, typed, outages, crashes>> /\ UNCHANGED rest

Stay(rest) == Keep(rest) /\ UNCHANGED <<cleared, lapses>>

Lines(script) == IF script = NoFile THEN <<>> ELSE script

\* The options come from the message, else from the command file.
Arguments(message) ==
    /\ At("get_args") /\ pc' = "insert"
    /\ args' = IF message # <<>> THEN message ELSE Lines(cache.command)
    /\ Keep(<<plan, cache, may, locked, tmp, cleared, ran, then, skip, line, failed, sideload,
              file, reboot>>)

\* Mutant: the arguments are taken from the message, not written back to it.
TakeArguments == Arguments(misc.recovery) /\ misc' = NoMessage /\ UNCHANGED lapses

\* get_args: the options are written back to the message, ...
get_args == Arguments(misc.recovery) /\ write_bootloader_message(args') /\ UNCHANGED lapses

\* ... if that can be done; and a message that cannot be read is taken for an empty one.
GetArgsFails ==
    \/ Arguments(<<>>) /\ write_bootloader_message(args') /\ Lapse("read message")
    \/ Arguments(misc.recovery) /\ UNCHANGED misc /\ Lapse("write message")

Insert_ORS_Command(order) == tmp' = Append(Lines(tmp), order)

\* The options the loop over the arguments makes no line of.
Ignored == {"reason", "reboot"}

\* Mutant: SkipDecryption is set for a package file, not for a block map.
SkippingForFile(do) == IF do \in {"map", "zip"} THEN do = "zip" ELSE skip

\* SkipDecryption is what the last package says.
Skipping(do) == IF do \in {"map", "zip"} THEN do = "map" ELSE skip

\* The loop over the arguments, one argument.
Insert ==
    /\ At("insert") /\ args # <<>> /\ args' = Tail(args)
    /\ skip' = Skipping(Head(args).do)
    /\ IF Head(args).do \in Ignored THEN UNCHANGED tmp ELSE Insert_ORS_Command(Head(args))
    /\ Stay(<<storage, locked, ran, pc, then, line, failed, sideload, file, reboot>>)

\* A line that cannot be written ends the loop.
InsertFails ==
    /\ At("insert") /\ args # <<>> /\ Head(args).do \notin Ignored /\ args' = <<>>
    /\ skip' = Skipping(Head(args).do) /\ Lapse("insert")
    /\ Keep(<<storage, locked, tmp, cleared, ran, pc, then, line, failed, sideload, file, reboot>>)

Inserted ==
    /\ At("insert") /\ args = <<>> /\ pc' = "log" /\ then' = "decide"
    /\ Stay(<<storage, locked, tmp, ran, args, skip, line, failed, sideload, file, reboot>>)

\* Update_Log_File clears the message, if it can, ...
ClearMessage ==
    /\ At("log") /\ pc' = "unlink"
    /\ misc' = NoMessage /\ cleared' = TRUE /\ UNCHANGED lapses
    /\ Keep(<<plan, cache, may, locked, tmp, ran, then, args, skip, line, failed, sideload, file,
              reboot>>)

ClearMessageFails ==
    /\ At("log") /\ pc' = "unlink" /\ Lapse("clear message")
    /\ Keep(<<storage, locked, tmp, cleared, ran, then, args, skip, line, failed, sideload, file,
              reboot>>)

\* ... unlinks the command file, if it can, and syncs.
UnlinkCommand ==
    /\ At("unlink") /\ Sync([cache EXCEPT !.command = NoFile]) /\ pc' = then
    /\ Stay(<<plan, misc, locked, tmp, ran, then, args, skip, line, failed, sideload, file, reboot>>)

UnlinkCommandFails ==
    /\ At("unlink") /\ Sync(cache) /\ pc' = then /\ Lapse("unlink command")
    /\ Keep(<<plan, misc, locked, tmp, cleared, ran, then, args, skip, line, failed, sideload,
              file, reboot>>)

Decide ==
    /\ At("decide") /\ pc' = IF locked /\ ~skip THEN "decrypt" ELSE "outstanding"
    /\ Stay(<<storage, locked, tmp, ran, then, args, skip, line, failed, sideload, file, reboot>>)

\* The decrypt page: the user gives the password, or goes on without.
DecryptPage ==
    /\ At("decrypt") /\ locked' \in BOOLEAN /\ pc' = "outstanding"
    /\ Stay(<<storage, tmp, ran, then, args, skip, line, failed, sideload, file, reboot>>)

Outstanding ==
    /\ At("outstanding")
    /\ pc' = IF (~locked \/ skip) /\ (tmp # NoFile \/ cache.script # NoFile)
             THEN "action" ELSE "gui"
    /\ Stay(<<storage, locked, tmp, ran, then, args, skip, line, failed, sideload, file, reboot>>)

-----------------------------------------------------------------------------
RunScript(which) == /\ pc' = "run" /\ file' = which /\ line' = 0
                    /\ failed' = FALSE /\ sideload' = FALSE

\* Run_OpenRecoveryScript_Action: the script in /tmp first, if there is one.
Action ==
    /\ At("action") /\ reboot' = FALSE
    /\ IF tmp # NoFile THEN RunScript("tmp")
       ELSE pc' = "check" /\ UNCHANGED <<file, line, failed, sideload>>
    /\ Stay(<<storage, locked, tmp, ran, then, args, skip>>)

\* check_for_script_file: the script on /cache is moved to /tmp and run there.
CheckForScriptFile ==
    /\ At("check")
    /\ IF cache.script # NoFile
       THEN /\ tmp' = cache.script /\ Change([cache EXCEPT !.script = NoFile])
            /\ RunScript("cache")
       ELSE /\ pc' = "end" /\ UNCHANGED <<cache, may, tmp, file, line, failed, sideload>>
    /\ Stay(<<plan, misc, locked, ran, then, args, skip, reboot>>)

(***************************************************************************)
(* /cache cannot be mounted, the copy fails and leaves a part of the       *)
(* script or nothing, or the script cannot be unlinked.  The last two go   *)
(* unnoticed.                                                              *)
(***************************************************************************)
CheckForScriptFileFails ==
    /\ At("check")
    /\ \/ /\ Lapse("mount") /\ pc' = "end"
          /\ UNCHANGED <<cache, may, tmp, file, line, failed, sideload>>
       \/ /\ Lapse("copy") /\ cache.script # NoFile
          /\ Change([cache EXCEPT !.script = NoFile])
          /\ \/ /\ tmp' = NoFile /\ pc' = "end"
                /\ UNCHANGED <<file, line, failed, sideload>>
             \/ /\ tmp' \in {SubSeq(cache.script, 1, n) : n \in 0 .. Len(cache.script) - 1}
                /\ RunScript("cache")
       \/ /\ Lapse("unlink script") /\ cache.script # NoFile
          /\ tmp' = cache.script /\ RunScript("cache")
          /\ UNCHANGED <<cache, may>>
    /\ Keep(<<plan, misc, locked, cleared, ran, then, args, skip, reboot>>)

\* run_script_file begins the next line.
BeginLine ==
    /\ At("run") /\ line < Len(tmp) /\ ~failed
    /\ ran' = Append(ran, tmp[line + 1]) /\ pc' = "busy"
    /\ Stay(<<storage, locked, tmp, then, args, skip, line, failed, sideload, file, reboot>>)

(***************************************************************************)
(* The line ends, well or not.  An installation may ask for /cache to be   *)
(* wiped; whether a wipe succeeds is not looked at.  sideload makes the    *)
(* script end at the main page.  A reboot runs Update_Log_File and leaves  *)
(* the rest to init.                                                       *)
(***************************************************************************)
EndLine(ok) ==
    LET do == tmp[line + 1].do
    IN  /\ At("busy") /\ line' = line + 1
        /\ do \in {"wipe cache", "wipe data", "reboot"} => ok
        /\ failed' = ~ok
        /\ sideload' = (sideload \/ do = "sideload")
        /\ \/ do # "reboot" /\ ok /\ Sync(EmptyCache)
           \/ UNCHANGED <<cache, may>>
        /\ IF do = "reboot" THEN pc' = "log" /\ then' = "rebooting"
           ELSE pc' = "run" /\ UNCHANGED then
        /\ Stay(<<plan, misc, locked, tmp, ran, args, skip, file, reboot>>)

\* init has been asked to reboot; until it does, the script goes on.
Rebooting ==
    /\ At("rebooting") /\ dying' = TRUE /\ pc' = "run"
    /\ UNCHANGED <<mode, storage, locked, tmp, cleared, lapses, history, then, args, skip, line,
                   failed, sideload, file, reboot>>

Finished == line = Len(tmp) \/ failed

\* Mutant: the action ends with the first script that succeeds.
EndActionEarly ==
    /\ At("run") /\ Finished /\ tmp' = NoFile
    /\ line' = 0 /\ failed' = FALSE /\ sideload' = FALSE
    /\ reboot' = (reboot \/ (file # "cli" /\ ~failed /\ ~sideload))
    /\ pc' = CASE file = "tmp" -> (IF reboot' THEN "end" ELSE "check") [] file = "cache" -> "end"
             [] file = "cli" -> "gui"
    /\ Stay(<<storage, locked, ran, then, args, skip, file>>)

\* The script has ended: it is removed, and the next one is looked for.
EndScript ==
    /\ At("run") /\ Finished /\ tmp' = NoFile
    /\ line' = 0 /\ failed' = FALSE /\ sideload' = FALSE
    /\ reboot' = (reboot \/ (file # "cli" /\ ~failed /\ ~sideload))
    /\ pc' = CASE file = "tmp" -> "check" [] file = "cache" -> "end" [] file = "cli" -> "gui"
    /\ Stay(<<storage, locked, ran, then, args, skip, file>>)

\* The action ends: tw_reboot if a script succeeded, else the main page.
EndAction ==
    /\ At("end")
    /\ IF reboot THEN pc' = "log" /\ then' = "reset" ELSE pc' = "gui" /\ UNCHANGED then
    /\ Stay(<<storage, locked, tmp, ran, args, skip, line, failed, sideload, file, reboot>>)

\* The user reboots from the main page.
ChooseReboot ==
    /\ At("gui") /\ pc' = "log" /\ then' = "reset"
    /\ Stay(<<storage, locked, tmp, ran, args, skip, line, failed, sideload, file, reboot>>)

(***************************************************************************)
(* Run_CLI_Command: a command of the twrp tool is appended to the script   *)
(* in /tmp, and the script is run; one that cannot be appended is dropped. *)
(* The pages that take such commands are the main page and the decrypt     *)
(* page; it is modelled on the main page.                                  *)
(***************************************************************************)
Run_CLI_Command(do) ==
    /\ At("gui") /\ typed < plan.commands /\ typed' = typed + 1
    /\ Insert_ORS_Command([do |-> do, id |-> plan.orders + typed + 1, from |-> "tool"])
    /\ RunScript("cli")
    /\ UNCHANGED <<mode, dying, cleared, lapses, issued, outages, crashes, storage, locked, ran,
                   then, args, skip, reboot>>

-----------------------------------------------------------------------------
\* The device goes down in an orderly way: /cache is unmounted, /tmp is gone.
Reset ==
    /\ mode = "recovery" /\ (dying \/ pc = "reset")
    /\ mode' = "off" /\ StartProcess /\ tmp' = NoFile /\ dying' = FALSE /\ Sync(cache)
    /\ cleared' = FALSE
    /\ UNCHANGED <<plan, misc, locked, lapses, history>>

\* The recovery process dies and init starts it again.
ProcessDies ==
    /\ mode = "recovery" /\ crashes < plan.crashes /\ crashes' = crashes + 1 /\ StartProcess
    /\ UNCHANGED <<storage, mode, locked, tmp, dying, cleared, lapses, ran, issued, typed, outages>>

RecoveryAfterPowerLoss ==
    /\ outages < plan.outages /\ outages' = outages + 1
    /\ mode # "off" /\ mode' = "off" /\ StartProcess /\ tmp' = NoFile /\ dying' = FALSE
    /\ lapses' = IF cleared THEN lapses \cup {"power"} ELSE lapses
    /\ cleared' = FALSE
    /\ UNCHANGED <<locked, ran, issued, typed, crashes>>

Startup == \/ get_args \/ Insert \/ Inserted \/ ClearMessage \/ UnlinkCommand \/ Decide
           \/ DecryptPage \/ Outstanding

RunStep == \/ Action \/ CheckForScriptFile \/ BeginLine \/ Rebooting
           \/ EndScript \/ EndAction \/ Reset

RecoveryLapse == \/ GetArgsFails \/ InsertFails \/ ClearMessageFails \/ UnlinkCommandFails
                 \/ CheckForScriptFileFails

User == ChooseReboot \/ \E do \in {"zip"} : Run_CLI_Command(do)
=============================================================================
