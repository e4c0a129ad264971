--------------------------- MODULE MCProfileBackup ---------------------------
(* A database and its log, restored over a profile that has them or not. *)
EXTENDS ProfileBackup
CONSTANTS db, wal
ProfileFiles == {db, wal}
GuardedFiles == {db}
=============================================================================
