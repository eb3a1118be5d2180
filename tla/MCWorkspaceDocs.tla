-------------------------- MODULE MCWorkspaceDocs ----------------------------
(***************************************************************************)
(* A small instance of WorkspaceDocs: two pushes to the root document, of  *)
(* which one is an entry of the index, one to the folders and one to a     *)
(* page, two posted pages and a run of the script.  Three of the requests  *)
(* come in one behaviour, whichever they are.                              *)
(***************************************************************************)
EXTENDS WorkspaceDocs, TLC

CONSTANTS p1, e1, o1, f1, x1, x2

MCPage == {p1}
MCRoot == {e1, o1}
MCFolders == {f1}
MCEntries == {e1}
MCKept == {}
MCUpserters == {x1, x2}
MCSymmetry == Permutations(MCUpserters)
==============================================================================
