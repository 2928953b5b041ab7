----------------------------- MODULE MCRestore -----------------------------
(* Restore with an archive made on another day, without the legacy admin.json. *)
EXTENDS Restore

OldFiles == [f \in Files |-> IF f = "admin.json" THEN Absent ELSE 100]
OldBackup == [i \in {0} |-> [kind |-> "daily", sums |-> OldFiles, files |-> OldFiles]]
=============================================================================
