------------------------------ MODULE MCDocPeer ------------------------------
(***************************************************************************)
(* A small instance of DocPeer: one update typed here, one by another.     *)
(***************************************************************************)
EXTENDS DocPeer

CONSTANTS here, there

MCMine == {here}
MCTheirs == {there}
==============================================================================
