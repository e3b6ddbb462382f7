------------------------------ MODULE MCBackup ------------------------------
(* Backup for TLC: commands are interchangeable.                           *)
EXTENDS Backup, TLC

Commands == Permutations(Procs)
=============================================================================
