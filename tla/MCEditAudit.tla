----------------------------- MODULE MCEditAudit ------------------------------
(***************************************************************************)
(* A small instance of EditAudit: two pushes over the connections of two   *)
(* users, of a page or of the root document, which the audit leaves out.   *)
(***************************************************************************)
EXTENDS EditAudit, TLC

CONSTANTS p1, p2, c1, c2, u1, u2

MCPushes == {p1, p2}
MCConns == {c1, c2}
MCUsers == {u1, u2}
MCUserOf == (c1 :> u1) @@ (c2 :> u2)
==============================================================================
