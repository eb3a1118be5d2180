----------------------------- MODULE MCDocStore -----------------------------
(***************************************************************************)
(* Small instances of DocStore.                                            *)
(***************************************************************************)
EXTENDS DocStore, TLC

CONSTANTS u1, u2, u3, r1, w1, w2

MCUpdates == {u1, u2, u3}
MCTwoUpdates == {u1, u2}
MCRecoverers == {r1}
MCWriters == {w1, w2}
MCNobody == {}

\* Requests of one kind are interchangeable.
Symmetric == Permutations(Updates) \union Permutations(Writers)
==============================================================================
