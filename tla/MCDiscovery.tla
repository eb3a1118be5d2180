----------------------------- MODULE MCDiscovery ------------------------------
(***************************************************************************)
(* A small instance of Discovery: an edit and the removal of the user.     *)
(***************************************************************************)
EXTENDS Discovery

CONSTANTS edit, removal

MCEdits == {edit}
MCRemovals == {removal}
==============================================================================
