------------------------------ MODULE MCBackup -------------------------------
(***************************************************************************)
(* A small instance of Backup.                                             *)
(***************************************************************************)
EXTENDS Backup

CONSTANTS r1, r2, a1

MCRestores == {r1, r2}
MCAdmins == {a1}
==============================================================================
