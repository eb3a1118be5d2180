------------------------------- MODULE DocBody -------------------------------
(***************************************************************************)
(* What the server promises about the stored body of one document, whatever*)
(* the layout of its tables.  A body is a set of Yjs updates: merging is   *)
(* commutative, associative and idempotent, so the set decides the text.   *)
(*                                                                         *)
(* An update arrives once, a version that was saved may be put back, and a *)
(* deletion empties the body.  Nothing else may take an update out, and    *)
(* what a recovery left behind stays behind.  The one leak is Revive: a    *)
(* handler that read the body before a deletion may write it afterwards,   *)
(* so erased content can come back.  DocStore!ErasedStaysErased is the     *)
(* promise without that leak; the code does not keep it.                   *)
(***************************************************************************)
CONSTANT Updates

VARIABLES
    body,       \* the updates a reader of the document is owed
    versions,   \* the saved versions a recovery may put back
    stored,     \* every update that was ever saved
    erased      \* the updates saved before the latest deletion

vars == <<body, versions, stored, erased>>

Init == body = {} /\ versions = {} /\ stored = {} /\ erased = {}

Arrive ==
    \E u \in Updates :
        /\ body' = body \union {u}
        /\ stored' = stored \union {u}
        /\ UNCHANGED <<versions, erased>>

Save ==
    /\ \E version \in SUBSET stored : versions' = versions \union {version}
    /\ UNCHANGED <<body, stored, erased>>

Recover ==
    /\ body' \in versions
    /\ versions' \subseteq versions
    /\ UNCHANGED <<stored, erased>>

\* A version nobody can put back any more.
Forget == versions' \subseteq versions /\ UNCHANGED <<body, stored, erased>>

\* A recovery that has begun may still hold one.
Erase == body' = {} /\ versions' \subseteq versions /\ erased' = stored /\ stored' = stored

Revive ==
    /\ \E lost \in SUBSET erased : body' = body \union lost
    /\ UNCHANGED <<versions, stored, erased>>

Next == Arrive \/ Save \/ Recover \/ Forget \/ Erase \/ Revive

Spec == Init /\ [][Next]_vars
==============================================================================
