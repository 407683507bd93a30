--------------------------- MODULE MCBootControl ---------------------------
(***************************************************************************)
(* BootControl with two slots and the constants of the code.               *)
(***************************************************************************)
EXTENDS BootControl

Case(verity, care, u, s, f) ==
    [verity |-> verity, care |-> care, updates |-> u, switches |-> s, faults |-> f]

CasesDef ==
    {Case("enforcing", c, 3, 3, 2) : c \in {"full", "none", "malformed"}}
    \cup {Case(v, "full", 2, 2, 2) : v \in {"disabled", "other"}}
=============================================================================
