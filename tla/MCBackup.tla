------------------------------ MODULE MCBackup ------------------------------
(* Instances of Backup: two jobs, full and whitelist backups. *)
EXTENDS Backup

CONSTANTS j1, j2
=============================================================================
