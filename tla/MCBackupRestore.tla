--------------------------- MODULE MCBackupRestore ---------------------------
(* The processes and contents for TLC.                                       *)
EXTENDS BackupRestore, TLC

Interchangeable == Permutations(Workers) \cup Permutations(Contents)
=============================================================================
