---------------------------- MODULE MCIndexQueue -----------------------------
(***************************************************************************)
(* Small instances of IndexQueue.                                          *)
(***************************************************************************)
EXTENDS IndexQueue

CONSTANTS d1, d2, r1

MCDocs == {d1, d2}
MCPoison == {d2}
MCPurged == {d1}
MCRuns == {r1}
==============================================================================
