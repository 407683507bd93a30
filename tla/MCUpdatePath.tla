---------------------------- MODULE MCUpdatePath ----------------------------
(***************************************************************************)
(* The instance: a package in two pieces on the device and one in a single *)
(* piece, so that its map has fewer lines.                                 *)
(***************************************************************************)
EXTENDS UpdatePath

PackageDef == {1, 2}

BlocksDef == <<<<3, 4, 7>>, <<9>>>>

Quiet == [encrypted |-> TRUE, packages |-> {}, calls |-> 0, options |-> {}, orders |-> 0,
          commands |-> 0, outages |-> 0, crashes |-> 0, failures |-> 0, faults |-> 2]

\* uncrypt alone, on both packages, with power lost and calls failing.
Uncrypting == [Quiet EXCEPT !.packages = {1, 2}, !.calls = 2, !.outages = 1, !.failures = 1,
                            !.faults = 1]

\* The package in one piece, over and over.
Repeating == [Quiet EXCEPT !.packages = {2}, !.calls = 3, !.outages = 2, !.failures = 1]

\* An update by block map, and another order.
Updating == [Quiet EXCEPT !.packages = {2}, !.calls = 1,
                          !.options = {<<"map">>, <<"zip", "wipe cache">>},
                          !.orders = 2, !.outages = 1, !.crashes = 1, !.failures = 1]

\* Orders of other kinds, from everywhere they can come from.
Ordering == [Quiet EXCEPT !.options = {<<"wipe data">>, <<"sideload">>, <<"reboot", "zip">>},
                          !.orders = 2, !.outages = 1, !.crashes = 1, !.failures = 1, !.faults = 1]

Typing == [Quiet EXCEPT !.options = {<<"reason", "zip">>}, !.orders = 2, !.commands = 1,
                        !.outages = 1, !.crashes = 1, !.failures = 1]

\* A device that is not encrypted.
Open == [Updating EXCEPT !.encrypted = FALSE, !.packages = {1}, !.calls = 1, !.options = {<<"map">>},
                         !.orders = 1]

AllPlans == {Uncrypting, Repeating, Updating, Ordering, Typing, Open}
=============================================================================
