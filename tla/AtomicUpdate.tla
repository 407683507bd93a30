---------------------------- MODULE AtomicUpdate ----------------------------
(***************************************************************************)
(* What an update of one partition promises to its caller, whatever        *)
(* interrupts it: the image being installed is never lost halfway, and     *)
(* success is answered only when the new image is in place.                *)
(*                                                                         *)
(* image is "new" when the partition holds the target, "old" when calling  *)
(* the update again can still produce it, and "lost" otherwise.            *)
(***************************************************************************)
VARIABLES image, answer

Init == image \in {"old", "new", "lost"} /\ answer = "none"

\* The update makes progress, is interrupted or fails, and can be called again.
Work == /\ image \in {"old", "new"} /\ image' \in {"old", "new"}
        /\ answer' # "ok"

\* There was nothing to start from; nothing makes it worse.
Refuse == image = "lost" /\ image' = "lost" /\ answer' # "ok"

Succeed == image = "new" /\ image' = "new" /\ answer' = "ok"

Next == Work \/ Refuse \/ Succeed

Spec == Init /\ [][Next]_<<image, answer>>

=============================================================================
