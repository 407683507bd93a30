--------------------------- MODULE MCAdbTransfer ---------------------------
(***************************************************************************)
(* Chunks of three reads, of which the first is TWDATA, and fifos of two.  *)
(* The output of pigz comes in reads of one byte or two, so that a chunk   *)
(* can end within a read; the backups that are restored have a file of     *)
(* two chunks, one that ends with its chunk and ones that do not.          *)
(***************************************************************************)
EXTENDS AdbTransfer

Image(n) == [type |-> "TWIMG", compressed |-> FALSE, length |-> n, size |-> n]
Tar(n, s) == [type |-> "TWFN", compressed |-> FALSE, length |-> n, size |-> s]
Pigz(n) == [type |-> "TWFN", compressed |-> TRUE, length |-> n, size |-> n + 2]

BackupOf(files, mayFail, mayBeLost) ==
    [files |-> files, fails |-> mayFail, lost |-> mayBeLost,
     restored |-> FALSE, cut |-> FALSE, stopped |-> FALSE]

RestoreOf(files, mayBeCut, mayBeStopped) ==
    [files |-> files, fails |-> FALSE, lost |-> FALSE,
     restored |-> TRUE, cut |-> mayBeCut, stopped |-> mayBeStopped]

PlansDef ==
    {BackupOf(s, TRUE, FALSE) : s \in {<<Pigz(7), Pigz(3)>>, <<Image(4), Pigz(5)>>, <<Pigz(9), Tar(2, 4)>>}}
    \cup {BackupOf(s, FALSE, TRUE) : s \in {<<Pigz(5), Image(2)>>, <<Tar(4, 2)>>}}
    \cup {RestoreOf(<<Tar(6, 4), Image(2), Tar(4, 6)>>, c, FALSE) : c \in BOOLEAN}
    \cup {RestoreOf(<<Image(8), Tar(2, 2)>>, c, ~c) : c \in BOOLEAN}

OneTar == {BackupOf(<<Tar(4, 2)>>, FALSE, FALSE)}
=============================================================================
