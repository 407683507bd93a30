----------------------------- MODULE MCSideload -----------------------------
(***************************************************************************)
(* With ints of three bits: one session with a package of a block and a    *)
(* half, or of a size an int takes for a negative one, or for 1; or two    *)
(* sessions with a package of one block and a child that may die or not be *)
(* forked.                                                                 *)
(***************************************************************************)
EXTENDS Sideload

SizesDef == {1, 3}

Plan(n, s, d, f) ==
    [size |-> n, sessions |-> s, deaths |-> d, forks |-> f]

PlansDef == {Plan(3, 1, 1, 0), Plan(5, 1, 0, 0), Plan(9, 1, 0, 1), Plan(1, 2, 1, 1)}

ForkingPlans == {x \in PlansDef : x.forks = 0}
=============================================================================
