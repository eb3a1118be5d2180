---------------------------- MODULE MCMembership -----------------------------
(***************************************************************************)
(* A small instance of Membership: the creator, one who joined before and  *)
(* one who has no account yet.                                             *)
(***************************************************************************)
EXTENDS Membership, TLC

CONSTANTS a, b, c, i1, i2, s1, s2

MCUsers == {a, b, c}
MCJoined == {b}
MCRegistered == {a, b}
MCIds == {i1, i2}
MCSlots == {s1, s2}
MCSymmetry == Permutations(MCIds) \union Permutations(MCSlots)
==============================================================================
