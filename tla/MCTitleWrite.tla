---------------------------- MODULE MCTitleWrite -----------------------------
(***************************************************************************)
(* Small instances of TitleWrite: the creator of a page and one other      *)
(* client, two titles to type.                                             *)
(***************************************************************************)
EXTENDS TitleWrite, TLC

CONSTANTS alice, bob, t1, t2, none

MCClients == {alice, bob}
MCTitles == {t1, t2}

Symmetric == Permutations(MCTitles)
==============================================================================
