------------------------------ MODULE MCBackup ------------------------------
(***************************************************************************)
(* Two backups in a row, of two partitions and of one, with tar and image  *)
(* in either order, with and without failures; and backups with an archive *)
(* split between two threads that need one or two each, or by one thread   *)
(* that needs too many, with and without digests.                          *)
(***************************************************************************)
EXTENDS Restore

PlansDef ==
    {[lists |-> l, need |-> <<>>, name |-> n, digest |-> TRUE, fails |-> f] :
        l \in {<< <<"tar", "image">>, <<"tar">> >>, << <<"image", "tar">>, <<"image">> >>,
               << <<"tar", "tar">>, <<"image", "image">> >>},
        n \in {"given", "auto", "date"}, f \in BOOLEAN}
    \cup
    {[lists |-> l, need |-> k, name |-> n, digest |-> d, fails |-> f] :
        l \in {<< <<"split", "tar">>, <<"image">> >>, << <<"image", "split">> >>},
        k \in {<<1, 1>>, <<2, 1>>, <<1, 2>>, <<3>>}, n \in {"given", "date"}, d \in BOOLEAN,
        f \in BOOLEAN}
=============================================================================
