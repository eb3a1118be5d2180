----------------------------- MODULE MCTagWrite ------------------------------
(***************************************************************************)
(* A small instance of TagWrite: two clients, two tags.                    *)
(***************************************************************************)
EXTENDS TagWrite, TLC

CONSTANTS alice, bob, t1, t2

MCClients == {alice, bob}
MCTags == {t1, t2}

Symmetric == Permutations(MCClients) \union Permutations(MCTags)
==============================================================================
