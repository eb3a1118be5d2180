-------------------------- MODULE IndexQueueProofs ---------------------------
(***************************************************************************)
(* Proofs about IndexQueue, for any documents, batch size, number of       *)
(* edits, faults and purges, and finitely many calls of indexDocument.     *)
(*                                                                         *)
(* A call reads a document in two queries, and nothing holds it still      *)
(* meanwhile.  What makes the mark honest all the same is StillIsRead: as  *)
(* long as the mark has not moved past the generation the sweep noted, no  *)
(* push is in flight, so nobody rebuilds (MergesAndEdits), and what is     *)
(* marked of the body stands still (StillBody), so that whoever reads it   *)
(* has read all of it.  A deletion can break none of this: what it leaves  *)
(* when it takes the mark is unmarked from then on, and what a rebuild     *)
(* brings back after it as well.                                           *)
(***************************************************************************)
EXTENDS IndexQueue, FiniteSetTheorems, SequenceTheorems, TLAPS

\* The calls that have deleted the index rows of d and not inserted new ones.
Cleared(d) == {j \in Jobs : job[j].pc = "cleared" /\ job[j].doc = d}

\* Every insert follows a delete of its own call.
InsertsFollowDeletes ==
    \A d \in Docs : Len(index[d]) + Cardinality(Cleared(d)) <= Cardinality(Jobs)

\* The sweep's call is about the head of what is left of the batch.
SweepAtWork ==
    /\ ~running => sweep = <<>>
    /\ job["queue"].pc # "idle" => sweep # <<>> /\ job["queue"].doc = Head(sweep).doc

\* The marks, and the generations the sweep has noted of them.
MarksAndNotes ==
    /\ \A d \in Docs : /\ queue[d].pending <= edits
                       /\ queue[d].indexed <= edits
                       /\ queue[d].at <= edits
                       /\ queue[d].quiet => flying[d] = {}
                       /\ ~overtaken[d] => queue[d].indexed <= queue[d].pending
    /\ \A e \in Range(sweep) :
         /\ e.generation <= edits
         /\ ~overtaken[e.doc] => /\ e.generation <= queue[e.doc].pending
                                 /\ e.generation = queue[e.doc].pending => queue[e.doc].quiet

\* The sweep's call is about d, and no edit has come since the sweep noted its generation.
Passing(d) ==
    /\ job["queue"].pc # "idle"
    /\ job["queue"].doc = d
    /\ Head(sweep).generation = queue[d].pending

AllIndexed(d) == queue[d].indexed >= queue[d].pending

\* Nothing has come since the last pass, or since this one began.
Still(d) == ~overtaken[d] /\ (AllIndexed(d) \/ Passing(d))

StillBody == \A d \in Docs : ~overtaken[d] /\ AllIndexed(d) => queue[d].quiet \/ Marked(d) = {}

\* What a call has read of d, with what it is still to read, is all of d.
ReadsAll(j, d) ==
    /\ job[j].pc = "reading" => Marked(d) \subseteq job[j].base \union rows[d]
    /\ job[j].pc \in {"read", "cleared", "done"} => Marked(d) \subseteq job[j].base \union job[j].got

StillIsRead ==
    \A d \in Docs, j \in Jobs :
        Still(d) /\ (j = "queue" \/ d \notin spoilt) /\ job[j].pc # "idle" /\ job[j].doc = d =>
            ReadsAll(j, d)

\* The sweep's last call for d has inserted what it read.
Passed(d) == AllIndexed(d) \/ (job["queue"].pc = "done" /\ job["queue"].doc = d)

\* After that the index has everything, or a call is yet to insert it.
StillIsIndexed ==
    \A d \in Docs \ spoilt :
        Still(d) /\ Passed(d) => Marked(d) \subseteq UNION Range(index[d]) \/ Cleared(d) # {}

\* A rebuild belongs to a push in flight, and no edit is older than its number.
MergesAndEdits ==
    \A d \in Docs : /\ merge[d] # NoMerge => flying[d] # {}
                    /\ Body(d) \union merge[d].got \union unmarked[d] \subseteq 1..edits

IInv ==
    /\ TypeOK
    /\ MergesAndEdits
    /\ InsertsFollowDeletes
    /\ SweepAtWork
    /\ MarksAndNotes
    /\ StillBody
    /\ StillIsRead
    /\ StillIsIndexed
    /\ MarkIsHonest

-----------------------------------------------------------------------------
(* Lemmas about sequences. *)

\* Head and tail of what is left of a batch.
LEMMA TailIsLeft ==
    ASSUME NEW S, NEW s \in Seq(S), s # <<>>
    PROVE  /\ Head(s) \in Range(s) /\ Head(s) \in S
           /\ Tail(s) \in Seq(S)
           /\ Range(Tail(s)) \subseteq Range(s)
<1>1. /\ Tail(s) \in Seq(S) /\ Len(Tail(s)) = Len(s) - 1
      /\ \A i \in 1..Len(Tail(s)) : Tail(s)[i] = s[i + 1]
  BY HeadTailProperties
<1>2. Len(s) \in Nat \ {0} /\ Head(s) = s[1] OBVIOUS
<1>. QED BY <1>1, <1>2 DEF Range

\* What is in a sequence over S is in S.
LEMMA RangeIsOver ==
    ASSUME NEW S, NEW s \in Seq(S)
    PROVE  Range(s) \subseteq S
BY DEF Range

\* An appended element joins the range.
LEMMA AppendJoins ==
    ASSUME NEW S, NEW s \in Seq(S), NEW e \in S
    PROVE  /\ Append(s, e) \in Seq(S)
           /\ Len(Append(s, e)) = Len(s) + 1
           /\ Range(Append(s, e)) = Range(s) \union {e}
<1>1. /\ Append(s, e) \in Seq(S) /\ Len(Append(s, e)) = Len(s) + 1
      /\ \A i \in 1..Len(s) : Append(s, e)[i] = s[i]
      /\ Append(s, e)[Len(s) + 1] = e
  BY AppendProperties
<1>2. Len(s) \in Nat /\ DOMAIN s = 1..Len(s) /\ DOMAIN Append(s, e) = 1..(Len(s) + 1)
  BY <1>1
<1>. QED BY <1>1, <1>2 DEF Range

\* Nothing is in the empty sequence.
LEMMA EmptyRange == Range(<<>>) = {} /\ Len(<<>>) = 0 /\ \A S : <<>> \in Seq(S)
BY DEF Range

-----------------------------------------------------------------------------
(* What the invariant says of a state. *)

\* The sweep's call works on a document of the batch.
LEMMA HeadIsNoted ==
    ASSUME IInv, job["queue"].pc # "idle"
    PROVE  /\ sweep # <<>> /\ running
           /\ Head(sweep) \in Range(sweep)
           /\ Head(sweep) \in Notes /\ Head(sweep).doc \in Docs
           /\ Head(sweep).generation \in Nat \ {0}
           /\ Head(sweep).doc = job["queue"].doc
           /\ Tail(sweep) \in Seq(Notes)
           /\ Range(Tail(sweep)) \subseteq Range(sweep)
<1>1. sweep # <<>> /\ job["queue"].doc = Head(sweep).doc /\ running BY DEF IInv, SweepAtWork
<1>2. sweep \in Seq(Notes) BY DEF IInv, TypeOK
<1>3. Head(sweep) \in Notes BY <1>1, <1>2, TailIsLeft
<1>4. Head(sweep).doc \in Docs /\ Head(sweep).generation \in Nat \ {0}
  BY <1>3, BoundsAssumption DEF Notes
<1>. QED BY <1>1, <1>2, <1>3, <1>4, TailIsLeft

\* Marks and notes count.
LEMMA NumbersAreNatural ==
    ASSUME TypeOK
    PROVE  /\ edits \in Nat
           /\ \A d \in Docs : /\ queue[d].pending \in Nat /\ queue[d].indexed \in Nat
                              /\ queue[d].at \in Nat /\ queue[d].quiet \in BOOLEAN
                              /\ Len(log[d]) \in Nat
           /\ \A n \in Range(sweep) : n.doc \in Docs /\ n.generation \in Nat \ {0}
<1>1. edits \in Nat BY BoundsAssumption DEF TypeOK
<1>2. \A d \in Docs : queue[d] \in Marks /\ log[d] \in Seq(1..MaxEdits) BY DEF TypeOK
<1>3. \A d \in Docs : /\ queue[d].pending \in Nat /\ queue[d].indexed \in Nat
                       /\ queue[d].at \in Nat /\ queue[d].quiet \in BOOLEAN
  BY <1>2, BoundsAssumption DEF Marks
<1>4. \A d \in Docs : Len(log[d]) \in Nat BY <1>2
<1>5. sweep \in Seq(Notes) BY DEF TypeOK
<1>6. Range(sweep) \subseteq Notes BY <1>5, RangeIsOver
<1>7. \A n \in Range(sweep) : n.doc \in Docs /\ n.generation \in Nat \ {0}
  BY <1>6, BoundsAssumption DEF Notes
<1>. QED BY <1>1, <1>3, <1>4, <1>7

\* While a document is still, no push of it is in flight, unless it is empty.
LEMMA StillIsQuiet ==
    ASSUME IInv, NEW d \in Docs, Still(d)
    PROVE  (queue[d].quiet /\ flying[d] = {}) \/ Marked(d) = {}
<1>1. CASE AllIndexed(d) BY <1>1 DEF IInv, Still, StillBody, MarksAndNotes
<1>2. CASE Passing(d)
  BY <1>2, HeadIsNoted DEF IInv, Still, Passing, MarksAndNotes
<1>. QED BY <1>1, <1>2 DEF Still

\* A step that leaves marks and documents alone keeps what is known of them.
LEMMA MarksKept ==
    ASSUME IInv, UNCHANGED <<edits, snapshot, rows, queue, log, seen, unmarked, overtaken>>,
           \A d \in Docs : \/ merge'[d] = merge[d] /\ flying'[d] = flying[d]
                           \/ merge'[d] = NoMerge /\ flying'[d] = {},
           Range(sweep') \subseteq Range(sweep)
    PROVE  MergesAndEdits' /\ MarksAndNotes' /\ StillBody' /\ MarkIsHonest'
<1>1. \A d \in Docs : Body(d)' = Body(d) /\ Marked(d)' = Marked(d) BY DEF Body, Marked
<1>2. MergesAndEdits' BY <1>1 DEF IInv, MergesAndEdits, NoMerge
<1>3. MarksAndNotes' BY DEF IInv, MarksAndNotes
<1>4. StillBody' /\ MarkIsHonest' BY <1>1 DEF IInv, StillBody, AllIndexed, MarkIsHonest
<1>. QED BY <1>2, <1>3, <1>4

\* A step that leaves documents, marks and calls alone keeps all but what it changes.
LEMMA OthersKept ==
    ASSUME IInv, TypeOK', MergesAndEdits',
           UNCHANGED <<edits, snapshot, rows, queue, job, sweep, running, index, ghosts>>,
           \A d \in Docs : flying'[d] \subseteq flying[d]
    PROVE  IInv'
<1>. USE DEF IInv, ghosts
<1>1. \A d \in Docs : Marked(d)' = Marked(d) BY DEF Body, Marked
<1>2. InsertsFollowDeletes' BY DEF InsertsFollowDeletes, Cleared
<1>3. SweepAtWork' BY DEF SweepAtWork
<1>4. MarksAndNotes' BY DEF MarksAndNotes
<1>5. StillBody' /\ MarkIsHonest' BY <1>1 DEF StillBody, AllIndexed, MarkIsHonest
<1>6. StillIsRead' BY <1>1 DEF StillIsRead, Still, AllIndexed, Passing, ReadsAll
<1>7. StillIsIndexed' BY <1>1 DEF StillIsIndexed, Still, AllIndexed, Passing, Passed, Cleared
<1>. QED BY <1>2, <1>3, <1>4, <1>5, <1>6, <1>7

\* Finitely many calls can overlap.
LEMMA CallsAreFinite ==
    /\ IsFiniteSet(Jobs) /\ Cardinality(Jobs) \in Nat
    /\ \A S : S \subseteq Jobs =>
         IsFiniteSet(S) /\ Cardinality(S) \in Nat /\ Cardinality(S) <= Cardinality(Jobs)
<1>1. IsFiniteSet(Jobs) BY RunsAssumption, FS_AddElement DEF Jobs
<1>. QED BY <1>1, FS_Subset, FS_CardinalityType

\* No call has begun to write, and no index has grown.
LEMMA CountKept ==
    ASSUME IInv, \A d \in Docs : Len(index'[d]) \in Nat /\ Len(index'[d]) <= Len(index[d]),
           \A j \in Jobs : job'[j].pc = "cleared" => job'[j] = job[j]
    PROVE  InsertsFollowDeletes'
<1>. SUFFICES ASSUME NEW d \in Docs
              PROVE  Len(index'[d]) + Cardinality(Cleared(d)') <= Cardinality(Jobs)
  BY DEF InsertsFollowDeletes
<1>1. Cleared(d)' \subseteq Cleared(d) /\ Cleared(d) \subseteq Jobs BY DEF Cleared
<1>2. IsFiniteSet(Cleared(d)) BY <1>1, CallsAreFinite
<1>3. /\ Cardinality(Cleared(d)') <= Cardinality(Cleared(d))
      /\ Cardinality(Cleared(d)) \in Nat /\ Cardinality(Cleared(d)') \in Nat
  BY <1>1, <1>2, CallsAreFinite, FS_Subset
<1>4. index[d] \in Seq(SUBSET (1..MaxEdits)) BY DEF IInv, TypeOK
<1>5. Len(index'[d]) <= Len(index[d]) /\ Len(index[d]) \in Nat /\ Len(index'[d]) \in Nat
  BY <1>4
<1>6. Len(index[d]) + Cardinality(Cleared(d)) <= Cardinality(Jobs) BY DEF IInv, InsertsFollowDeletes
<1>. QED BY <1>3, <1>5, <1>6, CallsAreFinite

\* No call has begun to write, and the index is as it was.
LEMMA CountSame ==
    ASSUME IInv, index' = index, \A j \in Jobs : job'[j].pc = "cleared" => job'[j] = job[j]
    PROVE  InsertsFollowDeletes'
<1>1. \A d \in Docs : Len(index'[d]) \in Nat /\ Len(index'[d]) <= Len(index[d])
  BY DEF IInv, TypeOK
<1>. QED BY <1>1, CountKept

\* What stays still is read, if no call loses what it has read of it.
LEMMA ReadingKept ==
    ASSUME IInv, spoilt \subseteq spoilt',
           \A d \in Docs : Still(d)' => Still(d) \/ Marked(d)' = {},
           \A j \in Jobs :
             \/ job'[j].pc \in {"idle", "called"}
             \/ /\ job[j].pc # "idle" /\ job'[j].doc = job[j].doc
                /\ Still(job[j].doc)' /\ ReadsAll(j, job[j].doc) => ReadsAll(j, job[j].doc)'
    PROVE  StillIsRead'
<1>. SUFFICES ASSUME NEW d \in Docs, NEW j \in Jobs, Still(d)', j = "queue" \/ d \notin spoilt',
                     job'[j].pc # "idle", job'[j].doc = d
              PROVE  ReadsAll(j, d)'
  BY DEF StillIsRead
<1>1. CASE Marked(d)' = {} BY <1>1 DEF ReadsAll
<1>2. CASE job'[j].pc = "called" BY <1>2 DEF ReadsAll
<1>3. CASE Still(d) /\ job'[j].pc # "called" BY <1>3 DEF IInv, StillIsRead
<1>. QED BY <1>1, <1>2, <1>3

\* What stays still stays indexed, if no call stops short of its insert.
LEMMA IndexKept ==
    ASSUME IInv, spoilt \subseteq spoilt', index' = index,
           \A d \in Docs \ spoilt' : Still(d)' /\ Passed(d)' =>
             \/ Marked(d)' = {}
             \/ Still(d) /\ Passed(d) /\ Marked(d)' = Marked(d) /\ (Cleared(d) # {} => Cleared(d)' # {})
    PROVE  StillIsIndexed'
BY DEF IInv, StillIsIndexed

-----------------------------------------------------------------------------
(* Pushes, their rebuilds, deletions and the passing of time. *)

\* An edit raises the mark past every generation noted, so its document is no longer still.
LEMMA SaveEditInvariant ==
    ASSUME IInv, NEW d \in Docs, SaveEdit(d)
    PROVE  IInv'
<1>. USE DEF IInv
<1>1. /\ edits \in Nat /\ edits' = edits + 1 /\ edits' \in 1..MaxEdits
      /\ rows' = [rows EXCEPT ![d] = @ \union {edits'}]
      /\ flying' = [flying EXCEPT ![d] = @ \union {edits'}]
      /\ queue' = [queue EXCEPT ![d] = [pending |-> queue[d].pending + 1,
                                       indexed |-> queue[d].indexed,
                                       at |-> edits', quiet |-> FALSE]]
      /\ log' = [log EXCEPT ![d] = Append(log[d], edits')]
      /\ UNCHANGED <<snapshot, merge, timer, job, sweep, running, index, faults, deletion, seen,
                     unmarked, overtaken, spoilt>>
  BY BoundsAssumption DEF SaveEdit, TypeOK
<1>2. /\ log'[d] \in Seq(1..MaxEdits) /\ Len(log'[d]) = Len(log[d]) + 1
      /\ Range(log'[d]) = Range(log[d]) \union {edits'}
  <2>. DEFINE numbers == 1..MaxEdits
  <2>1. log[d] \in Seq(numbers) /\ edits' \in numbers /\ log'[d] = Append(log[d], edits')
    BY <1>1 DEF TypeOK
  <2>. HIDE DEF numbers
  <2>2. /\ log'[d] \in Seq(numbers) /\ Len(log'[d]) = Len(log[d]) + 1
        /\ Range(log'[d]) = Range(log[d]) \union {edits'}
    BY <2>1, AppendJoins
  <2>. QED BY <2>2 DEF numbers
<1>3. /\ queue[d].pending <= edits /\ queue[d].indexed <= edits
      /\ queue'[d].pending = queue[d].pending + 1 /\ queue'[d].indexed = queue[d].indexed
      /\ queue'[d].at = edits' /\ ~queue'[d].quiet
  BY <1>1 DEF TypeOK, MarksAndNotes
<1>4. \A e \in Docs : e # d =>
        /\ queue'[e] = queue[e] /\ rows'[e] = rows[e] /\ flying'[e] = flying[e]
        /\ log'[e] = log[e] /\ Body(e)' = Body(e) /\ Marked(e)' = Marked(e)
        /\ AllIndexed(e)' = AllIndexed(e) /\ Still(e)' = Still(e)
  <2>1. \A e \in Docs : e # d =>
          /\ queue'[e] = queue[e] /\ rows'[e] = rows[e] /\ flying'[e] = flying[e]
          /\ log'[e] = log[e]
    BY <1>1 DEF TypeOK
  <2>. QED BY <1>1, <2>1 DEF Body, Marked, AllIndexed, Still, Passing
<1>5. Body(d)' = Body(d) \union {edits'} /\ Marked(d)' = Marked(d) \union {edits'}
  <2>1. Body(d)' = Body(d) \union {edits'} BY <1>1 DEF TypeOK, Body
  <2>2. edits' \notin unmarked[d] /\ unmarked' = unmarked BY <1>1 DEF MergesAndEdits
  <2>. QED BY <2>1, <2>2 DEF Marked
<1>6. ~overtaken[d] => ~AllIndexed(d)' BY <1>1, <1>3, NumbersAreNatural DEF MarksAndNotes, AllIndexed
<1>7. ~Still(d)'
  <2>1. Passing(d)' => overtaken[d]
    <3>. SUFFICES ASSUME Passing(d)', ~overtaken[d] PROVE FALSE OBVIOUS
    <3>1. job["queue"].pc # "idle" /\ job["queue"].doc = d BY <1>1 DEF Passing
    <3>2. Head(sweep) \in Range(sweep) /\ Head(sweep).doc = d
      BY <3>1, HeadIsNoted
    <3>3. Head(sweep).generation <= queue[d].pending BY <3>2 DEF MarksAndNotes
    <3>4. Head(sweep).generation = queue[d].pending + 1 BY <1>1, <1>3 DEF Passing
    <3>. QED BY <3>3, <3>4, NumbersAreNatural
  <2>. QED BY <1>1, <1>6, <2>1 DEF Still
<1>8. TypeOK'
  <2>1. rows' \in [Docs -> SUBSET (1..MaxEdits)] /\ flying' \in [Docs -> SUBSET (1..MaxEdits)]
    BY <1>1 DEF TypeOK
  <2>2. queue' \in [Docs -> Marks]
    <3>1. queue'[d] \in Marks
      <4>1. /\ queue[d].pending + 1 \in 0..MaxEdits /\ edits' \in 0..MaxEdits
             /\ queue[d].indexed \in 0..MaxEdits
        BY <1>1, <1>3, NumbersAreNatural, BoundsAssumption
      <4>. QED BY <1>1, <1>3, <4>1 DEF TypeOK, Marks
    <3>. QED BY <1>1, <3>1 DEF TypeOK
  <2>3. log' \in [Docs -> Seq(1..MaxEdits)] BY <1>1, <1>2 DEF TypeOK
  <2>4. edits' \in 0..MaxEdits BY <1>1
  <2>. QED BY <1>1, <2>1, <2>2, <2>3, <2>4 DEF TypeOK, deletion
<1>9. InsertsFollowDeletes' BY <1>1, CountSame
<1>10. SweepAtWork' BY <1>1 DEF SweepAtWork
<1>11. MarksAndNotes'
  <2>1. \A e \in Docs : /\ queue'[e].pending <= edits' /\ queue'[e].indexed <= edits'
                        /\ queue'[e].at <= edits' /\ (queue'[e].quiet => flying'[e] = {})
                        /\ ~overtaken[e] => queue'[e].indexed <= queue'[e].pending
    <3>. SUFFICES ASSUME NEW e \in Docs
                  PROVE  /\ queue'[e].pending <= edits' /\ queue'[e].indexed <= edits'
                         /\ queue'[e].at <= edits' /\ (queue'[e].quiet => flying'[e] = {})
                         /\ ~overtaken[e] => queue'[e].indexed <= queue'[e].pending
      OBVIOUS
    <3>1. CASE e = d BY <1>1, <1>3, <3>1, NumbersAreNatural DEF MarksAndNotes
    <3>2. CASE e # d BY <1>1, <1>4, <3>2, NumbersAreNatural DEF MarksAndNotes
    <3>. QED BY <3>1, <3>2
  <2>3. \A n \in Range(sweep) :
          /\ n.generation <= edits'
          /\ ~overtaken[n.doc] => /\ n.generation <= queue'[n.doc].pending
                                  /\ n.generation = queue'[n.doc].pending => queue'[n.doc].quiet
    <3>. SUFFICES ASSUME NEW n \in Range(sweep)
                  PROVE  /\ n.generation <= edits'
                         /\ ~overtaken[n.doc] =>
                              /\ n.generation <= queue'[n.doc].pending
                              /\ n.generation = queue'[n.doc].pending => queue'[n.doc].quiet
      OBVIOUS
    <3>1. n.doc \in Docs /\ n.generation \in Nat BY NumbersAreNatural
    <3>. QED BY <1>1, <1>3, <1>4, <3>1, NumbersAreNatural DEF MarksAndNotes
  <2>. QED BY <1>1, <2>1, <2>3 DEF MarksAndNotes
<1>12. StillBody' BY <1>1, <1>4, <1>6 DEF StillBody
<1>13. StillIsRead'
  <2>1. \A e \in Docs : Still(e)' => Still(e) BY <1>4, <1>7
  <2>2. \A e \in Docs, j \in Jobs : e # d /\ ReadsAll(j, e) => ReadsAll(j, e)'
    BY <1>1, <1>4 DEF ReadsAll
  <2>3. \A j \in Jobs : job[j].pc # "idle" => job[j].doc \in Docs BY DEF TypeOK
  <2>. QED BY <1>1, <1>7, <2>1, <2>2, <2>3, ReadingKept DEF TypeOK
<1>14. StillIsIndexed' BY <1>1, <1>4, <1>7, IndexKept DEF Passed, Cleared
<1>15. MarkIsHonest' BY <1>1, <1>2, <1>3, <1>4, <1>5, <1>6 DEF MarkIsHonest, AllIndexed
<1>16. MergesAndEdits'
  <2>1. \A e \in Docs : merge[e] # NoMerge => flying'[e] # {} BY <1>1, <1>4 DEF TypeOK, MergesAndEdits
  <2>2. \A e \in Docs : Body(e)' \union merge[e].got \union unmarked[e] \subseteq 1..edits'
    BY <1>1, <1>4, <1>5 DEF MergesAndEdits
  <2>. QED BY <1>1, <2>1, <2>2 DEF MergesAndEdits
<1>. QED BY <1>8, <1>9, <1>10, <1>11, <1>12, <1>13, <1>14, <1>15, <1>16

\* A rebuild reads within its push.
LEMMA RebuildReadsInvariant ==
    ASSUME IInv, NEW d \in Docs, RebuildReads(d)
    PROVE  IInv'
<1>1. /\ flying[d] # {}
      /\ merge' = [merge EXCEPT ![d] = [base |-> snapshot[d], got |-> rows[d]]]
      /\ UNCHANGED <<edits, snapshot, rows, flying, queue, timer, job, sweep, running, index,
                     faults, deletion, ghosts>>
  BY DEF RebuildReads
<1>2. /\ merge'[d].got = rows[d] /\ \A e \in Docs : e # d => merge'[e] = merge[e]
      /\ merge' \in [Docs -> [base : SUBSET (1..MaxEdits), got : SUBSET (1..MaxEdits)]]
  BY <1>1 DEF IInv, TypeOK
<1>3. TypeOK' BY <1>1, <1>2 DEF IInv, TypeOK, deletion, ghosts
<1>4. MergesAndEdits' BY <1>1, <1>2 DEF IInv, MergesAndEdits, Body, ghosts
<1>. QED BY <1>1, <1>3, <1>4, OthersKept

\* A document that is rebuilt is not still, and what a rebuild brings back is unmarked.
LEMMA RebuildCommitsInvariant ==
    ASSUME IInv, NEW d \in Docs, RebuildCommits(d)
    PROVE  IInv'
<1>. USE DEF IInv
<1>1. /\ merge[d] # NoMerge
      /\ snapshot' = [snapshot EXCEPT ![d] = @ \union merge[d].got]
      /\ rows' = [rows EXCEPT ![d] = @ \ merge[d].got]
      /\ unmarked' = [unmarked EXCEPT ![d] = @ \union (merge[d].got \ Body(d))]
      /\ merge' = [merge EXCEPT ![d] = NoMerge]
      /\ UNCHANGED <<edits, flying, queue, timer, job, sweep, running, index, faults, deletion,
                     log, seen, overtaken, spoilt>>
  BY DEF RebuildCommits, MayWriteSnapshot
<1>2. merge[d].got \subseteq 1..MaxEdits /\ flying[d] # {} BY <1>1 DEF TypeOK, MergesAndEdits
<1>3. /\ Body(d)' = Body(d) \union merge[d].got
      /\ unmarked'[d] = unmarked[d] \union (merge[d].got \ Body(d))
      /\ Marked(d)' = Marked(d)
  <2>1. Body(d)' = Body(d) \union merge[d].got BY <1>1 DEF TypeOK, Body
  <2>2. unmarked'[d] = unmarked[d] \union (merge[d].got \ Body(d)) BY <1>1 DEF TypeOK
  <2>. QED BY <2>1, <2>2 DEF Marked
<1>4. \A e \in Docs : e # d =>
        /\ rows'[e] = rows[e] /\ merge'[e] = merge[e] /\ unmarked'[e] = unmarked[e]
        /\ Body(e)' = Body(e) /\ Marked(e)' = Marked(e)
  BY <1>1 DEF TypeOK, Body, Marked
<1>5. \A e \in Docs : /\ Marked(e)' = Marked(e) /\ Still(e)' = Still(e)
                      /\ AllIndexed(e)' = AllIndexed(e)
  BY <1>1, <1>3, <1>4 DEF Still, AllIndexed, Passing
<1>6. TypeOK'
  <2>1. NoMerge \in [base : SUBSET (1..MaxEdits), got : SUBSET (1..MaxEdits)] BY DEF NoMerge
  <2>2. merge' \in [Docs -> [base : SUBSET (1..MaxEdits), got : SUBSET (1..MaxEdits)]]
    BY <1>1, <2>1 DEF TypeOK
  <2>3. /\ snapshot' \in [Docs -> SUBSET (1..MaxEdits)] /\ rows' \in [Docs -> SUBSET (1..MaxEdits)]
        /\ unmarked' \in [Docs -> SUBSET (1..MaxEdits)]
    BY <1>1, <1>2 DEF TypeOK
  <2>. QED BY <1>1, <2>2, <2>3 DEF TypeOK, deletion
<1>7. MergesAndEdits'
  <2>1. merge'[d] = NoMerge /\ merge'[d].got = {} BY <1>1 DEF TypeOK, NoMerge
  <2>. QED BY <1>1, <1>3, <1>4, <2>1 DEF MergesAndEdits
<1>8. InsertsFollowDeletes' BY <1>1, CountSame
<1>9. SweepAtWork' BY <1>1 DEF SweepAtWork
<1>10. MarksAndNotes' BY <1>1 DEF MarksAndNotes
<1>11. StillBody' /\ MarkIsHonest' BY <1>1, <1>5 DEF StillBody, MarkIsHonest
<1>12. StillIsRead'
  <2>1. Still(d) => Marked(d)' = {} BY <1>2, <1>3, StillIsQuiet
  <2>2. \A e \in Docs, j \in Jobs : e # d /\ ReadsAll(j, e) => ReadsAll(j, e)'
    BY <1>1, <1>4, <1>5 DEF ReadsAll
  <2>3. \A j \in Jobs : Still(d)' => ReadsAll(j, d)' BY <1>5, <2>1 DEF ReadsAll
  <2>. QED BY <1>1, <1>5, <2>2, <2>3, ReadingKept DEF TypeOK
<1>13. StillIsIndexed' BY <1>1, <1>5, IndexKept DEF Passed, Cleared
<1>. QED BY <1>6, <1>7, <1>8, <1>9, <1>10, <1>11, <1>12, <1>13

\* A rebuild that stops leaves the tables alone, and takes its push with it or not.
LEMMA RebuildStopsInvariant ==
    ASSUME IInv, NEW d \in Docs, RebuildStops(d)
    PROVE  IInv'
<1>1. /\ merge' = [merge EXCEPT ![d] = NoMerge]
      /\ flying' = flying \/ \E e \in flying[d] : flying' = [flying EXCEPT ![d] = @ \ {e}]
      /\ UNCHANGED <<edits, snapshot, rows, queue, timer, job, sweep, running, index, faults,
                     deletion, ghosts>>
  BY DEF RebuildStops
<1>2. /\ merge'[d] = NoMerge /\ NoMerge.got = {}
      /\ \A e \in Docs : e # d => merge'[e] = merge[e] /\ flying'[e] = flying[e]
      /\ flying'[d] \subseteq flying[d]
  BY <1>1 DEF IInv, TypeOK, NoMerge
<1>3. TypeOK'
  <2>1. NoMerge \in [base : SUBSET (1..MaxEdits), got : SUBSET (1..MaxEdits)] BY DEF NoMerge
  <2>2. merge' \in [Docs -> [base : SUBSET (1..MaxEdits), got : SUBSET (1..MaxEdits)]]
    BY <1>1, <2>1 DEF IInv, TypeOK
  <2>3. flying' \in [Docs -> SUBSET (1..MaxEdits)]
    <3>1. flying \in [Docs -> SUBSET (1..MaxEdits)] BY DEF IInv, TypeOK
    <3>2. \A e : [flying EXCEPT ![d] = @ \ {e}] \in [Docs -> SUBSET (1..MaxEdits)] BY <3>1
    <3>. QED BY <1>1, <3>1, <3>2
  <2>. QED BY <1>1, <2>2, <2>3 DEF IInv, TypeOK, deletion, ghosts
<1>4. MergesAndEdits' BY <1>1, <1>2 DEF IInv, MergesAndEdits, Body, ghosts
<1>. QED BY <1>1, <1>2, <1>3, <1>4, OthersKept

\* The end of a request may set the timer; it does not end before its rebuild.
LEMMA PushEndsInvariant ==
    ASSUME IInv, NEW d \in Docs, PushEnds(d)
    PROVE  IInv'
<1>1. PICK e \in flying[d], scheduled \in {TRUE, timer[d]} :
        /\ flying[d] = {e} => merge[d] = NoMerge
        /\ flying' = [flying EXCEPT ![d] = @ \ {e}]
        /\ timer' = [timer EXCEPT ![d] = scheduled]
        /\ UNCHANGED <<edits, snapshot, rows, merge, queue, job, sweep, running, index, faults,
                       deletion, ghosts>>
  BY DEF PushEnds
<1>2. /\ \A c \in Docs : flying'[c] \subseteq flying[c] /\ (c # d => flying'[c] = flying[c])
      /\ flying'[d] = flying[d] \ {e}
  BY <1>1 DEF IInv, TypeOK
<1>3. TypeOK'
  <2>1. flying' \in [Docs -> SUBSET (1..MaxEdits)] /\ timer' \in [Docs -> BOOLEAN]
    BY <1>1 DEF IInv, TypeOK
  <2>. QED BY <1>1, <2>1 DEF IInv, TypeOK, deletion, ghosts
<1>4. MergesAndEdits'
  <2>1. merge[d] # NoMerge => flying'[d] # {} BY <1>1, <1>2
  <2>. QED BY <1>1, <1>2, <2>1 DEF IInv, MergesAndEdits, Body, ghosts
<1>. QED BY <1>1, <1>2, <1>3, <1>4, OthersKept

\* A mark becomes due only when no push of its document is in flight.
LEMMA QuietPassesInvariant ==
    ASSUME IInv, NEW d \in Docs, QuietPasses(d)
    PROVE  IInv'
<1>. USE DEF IInv
<1>1. /\ flying[d] = {}
      /\ queue' = [queue EXCEPT ![d].quiet = TRUE]
      /\ UNCHANGED <<document, timer, job, sweep, running, index, faults, deletion, ghosts>>
  BY DEF QuietPasses
<1>2. \A e \in Docs : /\ queue'[e].pending = queue[e].pending
                      /\ queue'[e].indexed = queue[e].indexed
                      /\ queue'[e].at = queue[e].at
                      /\ queue'[e].quiet = (queue[e].quiet \/ e = d)
  BY <1>1 DEF TypeOK, Marks
<1>3. \A e \in Docs : Marked(e)' = Marked(e) /\ Still(e)' = Still(e) /\ AllIndexed(e)' = AllIndexed(e)
  BY <1>1, <1>2 DEF Body, Marked, Still, AllIndexed, Passing, ghosts, document
<1>4. TypeOK'
  <2>1. queue' \in [Docs -> Marks] BY <1>1 DEF TypeOK, Marks
  <2>. QED BY <1>1, <2>1 DEF TypeOK, document, ghosts, deletion
<1>5. InsertsFollowDeletes' BY <1>1, CountSame
<1>6. SweepAtWork' BY <1>1 DEF SweepAtWork
<1>7. MarksAndNotes' BY <1>1, <1>2, <1>3, NumbersAreNatural DEF MarksAndNotes, document, ghosts
<1>8. StillBody' BY <1>1, <1>2, <1>3 DEF StillBody, ghosts
<1>9. StillIsRead'
  <2>1. \A e \in Docs, j \in Jobs : ReadsAll(j, e)' = ReadsAll(j, e)
    BY <1>1, <1>3 DEF ReadsAll, document
  <2>. QED BY <1>1, <1>3, <2>1, ReadingKept DEF TypeOK, ghosts
<1>10. StillIsIndexed' BY <1>1, <1>3, IndexKept DEF Passed, Cleared, ghosts
<1>11. MarkIsHonest' BY <1>1, <1>2, <1>3 DEF MarkIsHonest, ghosts
<1>12. MergesAndEdits' BY <1>1 DEF MergesAndEdits, Body, document, ghosts
<1>. QED BY <1>4, <1>5, <1>6, <1>7, <1>8, <1>9, <1>10, <1>11, <1>12

\* What deletions hold.
Purges == [pc : {"idle", "rows", "rest"}, rows : SUBSET (1..MaxEdits), snapshot : BOOLEAN,
           index : 0..Cardinality(Jobs)]

\* A deletion that is not at work holds nothing.
LEMMA NoPurgeTyped == NoPurge \in Purges
BY CallsAreFinite DEF NoPurge, Purges

\* Nobody sees what a deletion holds before it commits.
LEMMA PurgeHoldsInvariant ==
    ASSUME IInv, NEW d \in Docs, PurgeTakesRows(d) \/ PurgeTakesRest(d) \/ PurgeFails(d)
    PROVE  IInv'
<1>1. UNCHANGED <<document, queue, timer, job, sweep, running, index, ghosts>>
  BY DEF PurgeTakesRows, PurgeTakesRest, PurgeFails
<1>2. /\ purge \in [Docs -> Purges] /\ rows[d] \subseteq 1..MaxEdits
      /\ Len(index[d]) \in 0..Cardinality(Jobs)
  BY CallsAreFinite DEF IInv, TypeOK, Purges
<1>3. \E p \in Purges : purge' = [purge EXCEPT ![d] = p]
  <2>1. [NoPurge EXCEPT !.pc = "rows", !.rows = rows[d]] \in Purges
    BY <1>2, NoPurgeTyped DEF Purges
  <2>2. \A s \in BOOLEAN : [purge[d] EXCEPT !.pc = "rest", !.snapshot = s,
                                            !.index = Len(index[d])] \in Purges
    BY <1>2 DEF Purges
  <2>. QED BY <2>1, <2>2, NoPurgeTyped DEF PurgeTakesRows, PurgeTakesRest, PurgeFails
<1>4. purge' \in [Docs -> Purges] BY <1>2, <1>3
<1>5. faults' \in 0..MaxFaults /\ purges' \in 0..MaxPurges
  BY BoundsAssumption DEF IInv, TypeOK, PurgeTakesRows, PurgeTakesRest, PurgeFails, document, ghosts
<1>6. TypeOK' BY <1>1, <1>4, <1>5 DEF IInv, TypeOK, Purges, document, ghosts
<1>7. MergesAndEdits' BY <1>1 DEF IInv, MergesAndEdits, Body, document, ghosts
<1>. QED BY <1>1, <1>6, <1>7, OthersKept DEF document

\* What a sequence is without its first entries.
LEMMA RestIsLeft ==
    ASSUME NEW S, NEW s \in Seq(S), NEW n \in Nat
    PROVE  /\ SubSeq(s, n + 1, Len(s)) \in Seq(S)
           /\ Len(SubSeq(s, n + 1, Len(s))) <= Len(s)
           /\ Len(SubSeq(s, n + 1, Len(s))) \in Nat
<1>1. Len(s) \in Nat /\ \A i \in 1..Len(s) : s[i] \in S OBVIOUS
<1>2. \A i \in (n + 1)..Len(s) : s[i] \in S BY <1>1
<1>3. /\ SubSeq(s, n + 1, Len(s)) \in Seq(S)
      /\ Len(SubSeq(s, n + 1, Len(s))) = IF n + 1 <= Len(s) THEN Len(s) - (n + 1) + 1 ELSE 0
  BY <1>1, <1>2, SubSeqProperties
<1>. QED BY <1>1, <1>3

\* A deletion takes the mark, and leaves nothing that is marked, whatever else it leaves.
LEMMA PurgeCommitsInvariant ==
    ASSUME IInv, NEW d \in Docs, PurgeCommits(d)
    PROVE  IInv'
<1>. USE DEF IInv
<1>1. /\ rows' = [rows EXCEPT ![d] = @ \ purge[d].rows]
      /\ snapshot' = [snapshot EXCEPT ![d] = IF purge[d].snapshot THEN {} ELSE @]
      /\ index' = [index EXCEPT ![d] = SubSeq(@, purge[d].index + 1, Len(@))]
      /\ queue' = [queue EXCEPT ![d] = NoMark]
      /\ purge' = [purge EXCEPT ![d] = NoPurge]
      /\ log' = [log EXCEPT ![d] = <<>>]
      /\ seen' = [seen EXCEPT ![d] = {}]
      /\ unmarked' = [unmarked EXCEPT ![d] = Body(d)']
      /\ overtaken' = [overtaken EXCEPT ![d] = @ \/ \E i \in DOMAIN sweep : sweep[i].doc = d]
      /\ UNCHANGED <<edits, flying, merge, timer, job, sweep, running, faults, purges, spoilt>>
  BY DEF PurgeCommits
<1>2. \A e \in Docs : e # d =>
        /\ queue'[e] = queue[e] /\ rows'[e] = rows[e] /\ snapshot'[e] = snapshot[e]
        /\ log'[e] = log[e] /\ seen'[e] = seen[e] /\ index'[e] = index[e]
        /\ unmarked'[e] = unmarked[e] /\ overtaken'[e] = overtaken[e]
        /\ Body(e)' = Body(e) /\ Marked(e)' = Marked(e)
        /\ AllIndexed(e)' = AllIndexed(e) /\ Still(e)' = Still(e)
  BY <1>1 DEF TypeOK, Body, Marked, AllIndexed, Still, Passing
<1>3. /\ queue'[d] = NoMark /\ NoMark \in Marks /\ log'[d] = <<>> /\ seen'[d] = {}
      /\ ~overtaken'[d] => ~overtaken[d] /\ \A n \in Range(sweep) : n.doc # d
  <2>1. NoMark \in Marks BY BoundsAssumption DEF NoMark, Marks
  <2>2. queue'[d] = NoMark /\ log'[d] = <<>> /\ seen'[d] = {} BY <1>1 DEF TypeOK
  <2>3. overtaken'[d] = (overtaken[d] \/ \E i \in DOMAIN sweep : sweep[i].doc = d)
    BY <1>1 DEF TypeOK
  <2>. QED BY <2>1, <2>2, <2>3 DEF Range
<1>4. Body(d)' \subseteq Body(d) /\ unmarked'[d] = Body(d)' /\ Marked(d)' = {}
  <2>1. rows'[d] \subseteq rows[d] /\ snapshot'[d] \subseteq snapshot[d] BY <1>1 DEF TypeOK
  <2>2. unmarked'[d] = Body(d)' BY <1>1 DEF TypeOK
  <2>. QED BY <2>1, <2>2 DEF Body, Marked
<1>5. \A e \in Docs : /\ index'[e] \in Seq(SUBSET (1..MaxEdits))
                      /\ Len(index'[e]) \in Nat /\ Len(index'[e]) <= Len(index[e])
  <2>1. purge[d].index \in Nat BY CallsAreFinite DEF TypeOK
  <2>2. \A e \in Docs : index[e] \in Seq(SUBSET (1..MaxEdits)) BY DEF TypeOK
  <2>3. index'[d] = SubSeq(index[d], purge[d].index + 1, Len(index[d])) BY <1>1 DEF TypeOK
  <2>4. /\ index'[d] \in Seq(SUBSET (1..MaxEdits))
        /\ Len(index'[d]) \in Nat /\ Len(index'[d]) <= Len(index[d])
    BY <2>1, <2>2, <2>3, RestIsLeft
  <2>. QED BY <1>2, <2>2, <2>4
<1>6. TypeOK'
  <2>1. queue' \in [Docs -> Marks] BY <1>1, <1>3 DEF TypeOK
  <2>2. log' \in [Docs -> Seq(1..MaxEdits)] BY <1>1, EmptyRange DEF TypeOK
  <2>3. /\ index' \in [Docs -> Seq(SUBSET (1..MaxEdits))]
        /\ \A e \in Docs : Len(index'[e]) <= Cardinality(Jobs)
    <3>1. index' \in [Docs -> Seq(SUBSET (1..MaxEdits))] BY <1>1, <1>5 DEF TypeOK
    <3>2. \A e \in Docs : Len(index[e]) \in Nat /\ Len(index[e]) <= Cardinality(Jobs)
      BY DEF TypeOK
    <3>. QED BY <1>5, <3>1, <3>2, CallsAreFinite
  <2>4. overtaken' \in [Docs -> BOOLEAN] BY <1>1 DEF TypeOK
  <2>5. /\ snapshot' \in [Docs -> SUBSET (1..MaxEdits)] /\ rows' \in [Docs -> SUBSET (1..MaxEdits)]
        /\ seen' \in [Docs -> SUBSET (1..MaxEdits)]
    BY <1>1 DEF TypeOK
  <2>6. unmarked' \in [Docs -> SUBSET (1..MaxEdits)]
    <3>1. Body(d) \subseteq 1..MaxEdits BY DEF TypeOK, Body
    <3>. QED BY <1>1, <1>4, <3>1 DEF TypeOK
  <2>7. purge' \in [Docs -> Purges] BY <1>1, NoPurgeTyped DEF TypeOK, Purges
  <2>. QED BY <1>1, <2>1, <2>2, <2>3, <2>4, <2>5, <2>6, <2>7 DEF TypeOK, Purges
<1>7. MergesAndEdits' BY <1>1, <1>2, <1>4 DEF MergesAndEdits
<1>8. InsertsFollowDeletes' BY <1>1, <1>5, CountKept
<1>9. SweepAtWork' BY <1>1 DEF SweepAtWork
<1>10. MarksAndNotes'
  <2>1. /\ queue'[d].pending = 0 /\ queue'[d].indexed = 0 /\ queue'[d].at = 0 /\ ~queue'[d].quiet
        /\ 0 <= edits
    BY <1>3, NumbersAreNatural DEF NoMark
  <2>2. \A e \in Docs : /\ queue'[e].pending <= edits' /\ queue'[e].indexed <= edits'
                        /\ queue'[e].at <= edits' /\ (queue'[e].quiet => flying'[e] = {})
                        /\ ~overtaken'[e] => queue'[e].indexed <= queue'[e].pending
    <3>1. \A e \in Docs : e # d =>
            /\ queue'[e].pending <= edits' /\ queue'[e].indexed <= edits'
            /\ queue'[e].at <= edits' /\ (queue'[e].quiet => flying'[e] = {})
            /\ ~overtaken'[e] => queue'[e].indexed <= queue'[e].pending
      BY <1>1, <1>2 DEF MarksAndNotes
    <3>. QED BY <1>1, <2>1, <3>1
  <2>3. \A n \in Range(sweep) :
          /\ n.generation <= edits'
          /\ ~overtaken'[n.doc] => /\ n.generation <= queue'[n.doc].pending
                                   /\ n.generation = queue'[n.doc].pending => queue'[n.doc].quiet
    BY <1>1, <1>2, <1>3, NumbersAreNatural DEF MarksAndNotes
  <2>. QED BY <1>1, <2>2, <2>3 DEF MarksAndNotes
<1>11. StillBody' BY <1>2, <1>4 DEF StillBody
<1>12. StillIsRead'
  <2>1. \A e \in Docs, j \in Jobs : e # d /\ ReadsAll(j, e) => ReadsAll(j, e)'
    BY <1>1, <1>2 DEF ReadsAll
  <2>2. \A j \in Jobs : ReadsAll(j, d)' BY <1>4 DEF ReadsAll
  <2>3. \A j \in Jobs : job[j].pc # "idle" =>
          (Still(job[j].doc)' /\ ReadsAll(j, job[j].doc) => ReadsAll(j, job[j].doc)')
    BY <1>1, <2>1, <2>2 DEF TypeOK
  <2>4. \A e \in Docs : Still(e)' => Still(e) \/ Marked(e)' = {} BY <1>2, <1>4
  <2>. QED BY <1>1, <2>3, <2>4, ReadingKept
<1>13. StillIsIndexed'
  <2>1. \A e \in Docs : e # d => Passed(e)' = Passed(e) /\ Cleared(e)' = Cleared(e)
    BY <1>1, <1>2 DEF Passed, Cleared
  <2>. QED BY <1>1, <1>2, <1>4, <2>1 DEF StillIsIndexed
<1>14. MarkIsHonest'
  <2>1. Len(log'[d]) = 0 /\ Range(log'[d]) = {} /\ queue'[d].pending = 0
    BY <1>3, EmptyRange DEF NoMark
  <2>. QED BY <1>2, <1>4, <2>1 DEF MarkIsHonest
<1>. QED BY <1>6, <1>7, <1>8, <1>9, <1>10, <1>11, <1>12, <1>13, <1>14

-----------------------------------------------------------------------------
(* The calls of indexDocument. *)

\* A run of the timer has read nothing yet.
LEMMA TimerFiresInvariant ==
    ASSUME IInv, NEW d \in Docs, NEW r \in Runs, TimerFires(d, r)
    PROVE  IInv'
<1>. USE DEF IInv
<1>1. /\ job[r].pc = "idle"
      /\ timer' = [timer EXCEPT ![d] = FALSE]
      /\ job' = [job EXCEPT ![r] = Call("called", d, {}, {})]
      /\ UNCHANGED <<document, queue, sweep, running, index, faults, deletion, ghosts>>
  BY DEF TimerFires
<1>2. r \in Jobs /\ r # "queue" /\ job'["queue"] = job["queue"] /\ job'[r].pc = "called"
  BY <1>1, RunsAssumption DEF Jobs, TypeOK, Call
<1>3. \A j \in Jobs : j # r => job'[j] = job[j] BY <1>1 DEF TypeOK
<1>4. \A e \in Docs : /\ Marked(e)' = Marked(e) /\ Still(e)' = Still(e) /\ Passed(e)' = Passed(e)
                      /\ Cleared(e)' = Cleared(e)
  BY <1>1, <1>2, <1>3
     DEF Body, Marked, Still, AllIndexed, Passing, Passed, Cleared, document, ghosts
<1>5. TypeOK'
  <2>1. Call("called", d, {}, {}) \in Calls BY DEF Call, Calls
  <2>2. job' \in [Jobs -> Calls] /\ timer' \in [Docs -> BOOLEAN] BY <1>1, <2>1 DEF TypeOK
  <2>3. \A j \in Jobs : job'[j].pc # "idle" => job'[j].doc \in Docs
    BY <1>1, <1>2, <1>3 DEF TypeOK, Call
  <2>. QED BY <1>1, <2>2, <2>3 DEF TypeOK, document, ghosts, deletion
<1>6. InsertsFollowDeletes' BY <1>1, <1>2, <1>3, CountSame
<1>7. SweepAtWork' BY <1>1, <1>2 DEF SweepAtWork
<1>8. MergesAndEdits' /\ MarksAndNotes' /\ StillBody' /\ MarkIsHonest'
  BY <1>1, MarksKept DEF document, ghosts
<1>9. StillIsRead'
  <2>1. \A e \in Docs, j \in Jobs : j # r => ReadsAll(j, e)' = ReadsAll(j, e)
    BY <1>1, <1>3, <1>4 DEF ReadsAll, document
  <2>. QED BY <1>1, <1>2, <1>3, <1>4, <2>1, ReadingKept DEF TypeOK, ghosts
<1>10. StillIsIndexed' BY <1>1, <1>4, IndexKept DEF ghosts
<1>. QED BY <1>5, <1>6, <1>7, <1>8, <1>9, <1>10

\* The first query reads the snapshot; the rows it leaves to the second.
LEMMA ReadsSnapshotInvariant ==
    ASSUME IInv, NEW j \in Jobs, ReadsSnapshot(j)
    PROVE  IInv'
<1>. USE DEF IInv
<1>. DEFINE d == job[j].doc
<1>1. /\ job[j].pc = "called" /\ d \in Docs
      /\ job' = [job EXCEPT ![j] = Call("reading", d, snapshot[d], {})]
      /\ UNCHANGED <<document, queue, timer, sweep, running, index, faults, deletion, ghosts>>
  BY DEF ReadsSnapshot, TypeOK
<1>2. /\ job'[j].pc = "reading" /\ job'[j].doc = d /\ job'[j].base = snapshot[d]
      /\ \A i \in Jobs : i # j => job'[i] = job[i]
  BY <1>1 DEF TypeOK, Call
<1>3. \A e \in Docs : /\ Marked(e)' = Marked(e) /\ Still(e)' = Still(e) /\ Passed(e)' = Passed(e)
                      /\ Cleared(e)' = Cleared(e)
  <2>1. job'["queue"].doc = job["queue"].doc /\ (job'["queue"].pc = "idle" <=> job["queue"].pc = "idle")
        /\ (job'["queue"].pc = "done" <=> job["queue"].pc = "done")
    BY <1>1, <1>2 DEF Jobs
  <2>. QED BY <1>1, <1>2, <2>1
           DEF Body, Marked, Still, AllIndexed, Passing, Passed, Cleared, document, ghosts
<1>4. TypeOK'
  <2>1. Call("reading", d, snapshot[d], {}) \in Calls BY <1>1 DEF Call, Calls, TypeOK
  <2>2. job' \in [Jobs -> Calls] BY <1>1, <2>1 DEF TypeOK
  <2>3. \A i \in Jobs : job'[i].pc # "idle" => job'[i].doc \in Docs BY <1>1, <1>2 DEF TypeOK
  <2>. QED BY <1>1, <2>2, <2>3 DEF TypeOK, document, ghosts, deletion
<1>5. InsertsFollowDeletes' BY <1>1, <1>2, CountSame
<1>6. SweepAtWork' BY <1>1, <1>2 DEF SweepAtWork, Jobs
<1>7. MergesAndEdits' /\ MarksAndNotes' /\ StillBody' /\ MarkIsHonest'
  BY <1>1, MarksKept DEF document, ghosts
<1>8. StillIsRead'
  <2>1. ReadsAll(j, d)' BY <1>1, <1>2 DEF ReadsAll, Body, Marked, document
  <2>2. \A e \in Docs, i \in Jobs : i # j => ReadsAll(i, e)' = ReadsAll(i, e)
    BY <1>1, <1>2, <1>3 DEF ReadsAll, document
  <2>. QED BY <1>1, <1>2, <1>3, <2>1, <2>2, ReadingKept DEF TypeOK, ghosts
<1>9. StillIsIndexed' BY <1>1, <1>3, IndexKept DEF ghosts
<1>. QED BY <1>4, <1>5, <1>6, <1>7, <1>8, <1>9

\* The second query reads the rows: of a document that stood still it has everything.
LEMMA ReadsRowsInvariant ==
    ASSUME IInv, NEW j \in Jobs, ReadsRows(j)
    PROVE  IInv'
<1>. USE DEF IInv
<1>. DEFINE d == job[j].doc
<1>1. /\ job[j].pc = "reading" /\ d \in Docs
      /\ job' = [job EXCEPT ![j] = Call("read", d, job[j].base, rows[d])]
      /\ UNCHANGED <<document, queue, timer, sweep, running, index, faults, deletion, ghosts>>
  BY DEF ReadsRows, TypeOK
<1>2. /\ job'[j].pc = "read" /\ job'[j].doc = d /\ job'[j].base = job[j].base
      /\ job'[j].got = rows[d]
      /\ \A i \in Jobs : i # j => job'[i] = job[i]
  BY <1>1 DEF TypeOK, Call
<1>3. \A e \in Docs : /\ Marked(e)' = Marked(e) /\ Still(e)' = Still(e) /\ Passed(e)' = Passed(e)
                      /\ Cleared(e)' = Cleared(e)
  <2>1. job'["queue"].doc = job["queue"].doc /\ (job'["queue"].pc = "idle" <=> job["queue"].pc = "idle")
        /\ (job'["queue"].pc = "done" <=> job["queue"].pc = "done")
    BY <1>1, <1>2 DEF Jobs
  <2>. QED BY <1>1, <1>2, <2>1
           DEF Body, Marked, Still, AllIndexed, Passing, Passed, Cleared, document, ghosts
<1>4. TypeOK'
  <2>1. Call("read", d, job[j].base, rows[d]) \in Calls BY <1>1 DEF Call, Calls, TypeOK
  <2>2. job' \in [Jobs -> Calls] BY <1>1, <2>1 DEF TypeOK
  <2>3. \A i \in Jobs : job'[i].pc # "idle" => job'[i].doc \in Docs BY <1>1, <1>2 DEF TypeOK
  <2>. QED BY <1>1, <2>2, <2>3 DEF TypeOK, document, ghosts, deletion
<1>5. InsertsFollowDeletes' BY <1>1, <1>2, CountSame
<1>6. SweepAtWork' BY <1>1, <1>2 DEF SweepAtWork, Jobs
<1>7. MergesAndEdits' /\ MarksAndNotes' /\ StillBody' /\ MarkIsHonest'
  BY <1>1, MarksKept DEF document, ghosts
<1>8. StillIsRead'
  <2>1. ReadsAll(j, d) => ReadsAll(j, d)' BY <1>1, <1>2, <1>3 DEF ReadsAll
  <2>2. \A e \in Docs, i \in Jobs : i # j => ReadsAll(i, e)' = ReadsAll(i, e)
    BY <1>1, <1>2, <1>3 DEF ReadsAll, document
  <2>. QED BY <1>1, <1>2, <1>3, <2>1, <2>2, ReadingKept DEF TypeOK, ghosts
<1>9. StillIsIndexed' BY <1>1, <1>3, IndexKept DEF ghosts
<1>. QED BY <1>4, <1>5, <1>6, <1>7, <1>8, <1>9

\* What is deleted is yet to be inserted by this call.
LEMMA DeletesOldInvariant ==
    ASSUME IInv, NEW j \in Jobs, DeletesOld(j)
    PROVE  IInv'
<1>. USE DEF IInv
<1>0. PICK d \in Docs : d = job[j].doc BY DEF DeletesOld, TypeOK
<1>1. /\ job[j].pc = "read" /\ job[j].doc = d
      /\ index' = [index EXCEPT ![d] = <<>>]
      /\ job' = [job EXCEPT ![j].pc = "cleared"]
      /\ UNCHANGED <<document, queue, timer, sweep, running, faults, deletion, ghosts>>
  BY <1>0 DEF DeletesOld
<1>2. /\ job'[j] = [job[j] EXCEPT !.pc = "cleared"]
      /\ job'[j].pc = "cleared" /\ job'[j].doc = d /\ job'[j].base = job[j].base
      /\ job'[j].got = job[j].got
      /\ \A i \in Jobs : i # j => job'[i] = job[i]
  BY <1>1 DEF TypeOK, Calls
<1>3. \A e \in Docs : Marked(e)' = Marked(e) /\ Still(e)' = Still(e) /\ Passed(e)' = Passed(e)
  <2>1. job'["queue"].doc = job["queue"].doc /\ (job'["queue"].pc = "idle" <=> job["queue"].pc = "idle")
        /\ (job'["queue"].pc = "done" <=> job["queue"].pc = "done")
    BY <1>1, <1>2 DEF Jobs
  <2>. QED BY <1>1, <1>2, <2>1
           DEF Body, Marked, Still, AllIndexed, Passing, Passed, document, ghosts
<1>4. \A e \in Docs : e # d => index'[e] = index[e] /\ Cleared(e)' = Cleared(e)
  BY <1>1, <1>2 DEF Cleared, TypeOK
<1>5. index'[d] = <<>> /\ j \in Cleared(d)' BY <1>1, <1>2 DEF Cleared, TypeOK
<1>6. TypeOK'
  <2>1. job' \in [Jobs -> Calls]
    <3>1. job[j] \in Calls BY DEF TypeOK
    <3>2. job'[j] \in Calls BY <1>2, <3>1 DEF Calls
    <3>. QED BY <1>1, <3>2 DEF TypeOK
  <2>2. \A i \in Jobs : job'[i].pc # "idle" => job'[i].doc \in Docs BY <1>1, <1>2 DEF TypeOK
  <2>3. index' \in [Docs -> Seq(SUBSET (1..MaxEdits))] BY <1>1, EmptyRange DEF TypeOK
  <2>4. \A e \in Docs : Len(index'[e]) <= Cardinality(Jobs)
    <3>1. Len(index'[d]) = 0 /\ 0 <= Cardinality(Jobs) BY <1>5, EmptyRange, CallsAreFinite
    <3>2. \A e \in Docs : e # d => Len(index'[e]) <= Cardinality(Jobs) BY <1>4 DEF TypeOK
    <3>. QED BY <3>1, <3>2
  <2>. QED BY <1>1, <2>1, <2>2, <2>3, <2>4 DEF TypeOK, document, ghosts, deletion
<1>7. InsertsFollowDeletes'
  <2>1. Cleared(d)' \subseteq Jobs BY DEF Cleared
  <2>2. Len(index'[d]) + Cardinality(Cleared(d)') <= Cardinality(Jobs)
    BY <1>5, <2>1, EmptyRange, CallsAreFinite
  <2>. QED BY <1>4, <2>2 DEF InsertsFollowDeletes
<1>8. SweepAtWork' BY <1>1, <1>2 DEF SweepAtWork, Jobs
<1>9. MergesAndEdits' /\ MarksAndNotes' /\ StillBody' /\ MarkIsHonest'
  BY <1>1, MarksKept DEF document, ghosts
<1>10. StillIsRead'
  <2>1. ReadsAll(j, d) => ReadsAll(j, d)' BY <1>1, <1>2, <1>3 DEF ReadsAll
  <2>2. \A e \in Docs, i \in Jobs : i # j => ReadsAll(i, e)' = ReadsAll(i, e)
    BY <1>1, <1>2, <1>3 DEF ReadsAll, document
  <2>. QED BY <1>1, <1>2, <1>3, <2>1, <2>2, ReadingKept DEF TypeOK, ghosts
<1>11. StillIsIndexed' BY <1>1, <1>3, <1>4, <1>5 DEF StillIsIndexed, ghosts
<1>. QED BY <1>6, <1>7, <1>8, <1>9, <1>10, <1>11

\* A call that has read a document all through indexes all of it.
LEMMA InsertsNewInvariant ==
    ASSUME IInv, NEW j \in Jobs, InsertsNew(j)
    PROVE  IInv'
<1>. USE DEF IInv
<1>0. PICK d \in Docs : d = job[j].doc BY DEF InsertsNew, TypeOK
<1>. DEFINE content == job[j].base \union job[j].got
<1>1. /\ job[j].pc = "cleared" /\ job[j].doc = d
      /\ index' = [index EXCEPT ![d] = IF content = {} THEN index[d] ELSE Append(index[d], content)]
      /\ job' = [job EXCEPT ![j] = IF j = "queue" THEN [job[j] EXCEPT !.pc = "done"] ELSE Idle]
      /\ UNCHANGED <<document, queue, timer, sweep, running, faults, deletion, ghosts>>
  BY <1>0 DEF InsertsNew
<1>2. /\ j = "queue" => /\ job'[j].pc = "done" /\ job'[j].doc = d
                        /\ job'[j].base = job[j].base /\ job'[j].got = job[j].got
      /\ j # "queue" => job'[j].pc = "idle"
      /\ \A i \in Jobs : i # j => job'[i] = job[i]
  BY <1>1 DEF TypeOK, Calls, Idle
<1>3. \A e \in Docs : Marked(e)' = Marked(e) /\ Still(e)' = Still(e)
  <2>1. job'["queue"].doc = job["queue"].doc /\ (job'["queue"].pc = "idle" <=> job["queue"].pc = "idle")
    BY <1>1, <1>2 DEF Jobs
  <2>. QED BY <1>1, <1>2, <2>1 DEF Body, Marked, Still, AllIndexed, Passing, document, ghosts
<1>4. \A e \in Docs : e # d => /\ index'[e] = index[e] /\ Cleared(e)' = Cleared(e)
                               /\ Passed(e)' = Passed(e)
  BY <1>1, <1>2 DEF Cleared, Passed, AllIndexed, TypeOK, Jobs
<1>5. /\ index[d] \in Seq(SUBSET (1..MaxEdits)) /\ content \in SUBSET (1..MaxEdits)
      /\ index'[d] \in Seq(SUBSET (1..MaxEdits))
      /\ Len(index'[d]) <= Len(index[d]) + 1
      /\ content \subseteq UNION Range(index'[d])
  <2>1. index[d] \in Seq(SUBSET (1..MaxEdits)) /\ content \in SUBSET (1..MaxEdits)
    BY <1>1 DEF TypeOK, Calls
  <2>2. index'[d] = IF content = {} THEN index[d] ELSE Append(index[d], content)
    BY <1>1 DEF TypeOK
  <2>3. Len(index[d]) \in Nat BY <2>1
  <2>. HIDE DEF content
  <2>4. CASE content = {} BY <2>1, <2>2, <2>3, <2>4
  <2>5. CASE content # {}
    <3>1. index'[d] = Append(index[d], content) BY <2>2, <2>5
    <3>2. /\ Append(index[d], content) \in Seq(SUBSET (1..MaxEdits))
          /\ Len(Append(index[d], content)) = Len(index[d]) + 1
          /\ Range(Append(index[d], content)) = Range(index[d]) \union {content}
      <4>. DEFINE contents == SUBSET (1..MaxEdits)
      <4>1. index[d] \in Seq(contents) /\ content \in contents BY <2>1
      <4>. HIDE DEF contents
      <4>2. /\ Append(index[d], content) \in Seq(contents)
            /\ Len(Append(index[d], content)) = Len(index[d]) + 1
            /\ Range(Append(index[d], content)) = Range(index[d]) \union {content}
        BY <4>1, AppendJoins
      <4>. QED BY <4>2 DEF contents
    <3>3. content \in Range(index'[d]) BY <3>1, <3>2
    <3>. QED BY <2>1, <2>3, <3>1, <3>2, <3>3
  <2>. QED BY <2>4, <2>5
<1>. HIDE DEF content
<1>6. InsertsFollowDeletes'
  <2>1. Cleared(d)' = Cleared(d) \ {j} /\ j \in Cleared(d)
    BY <1>1, <1>2 DEF Cleared
  <2>2. Cleared(d) \subseteq Jobs BY DEF Cleared
  <2>3. IsFiniteSet(Cleared(d)) /\ Cardinality(Cleared(d)) \in Nat BY <2>2, CallsAreFinite
  <2>4. Cardinality(Cleared(d)') = Cardinality(Cleared(d)) - 1 BY <2>1, <2>3, FS_RemoveElement
  <2>5. Len(index[d]) + Cardinality(Cleared(d)) <= Cardinality(Jobs) BY <1>1 DEF InsertsFollowDeletes
  <2>6. Len(index[d]) \in Nat /\ Len(index'[d]) \in Nat BY <1>5
  <2>7. Len(index'[d]) + Cardinality(Cleared(d)') <= Cardinality(Jobs)
    BY <1>5, <2>3, <2>4, <2>5, <2>6, CallsAreFinite
  <2>. QED BY <1>4, <2>7 DEF InsertsFollowDeletes
<1>7. TypeOK'
  <2>1. job' \in [Jobs -> Calls]
    <3>1. job[j] \in Calls /\ Idle \in Calls BY DEF TypeOK, Idle, Calls
    <3>2. [job[j] EXCEPT !.pc = "done"] \in Calls BY <3>1 DEF Calls
    <3>. QED BY <1>1, <3>1, <3>2 DEF TypeOK
  <2>2. \A i \in Jobs : job'[i].pc # "idle" => job'[i].doc \in Docs BY <1>1, <1>2 DEF TypeOK
  <2>3. index' \in [Docs -> Seq(SUBSET (1..MaxEdits))] BY <1>1, <1>5 DEF TypeOK
  <2>4. \A e \in Docs : Len(index'[e]) <= Cardinality(Jobs)
    <3>1. Cleared(d)' \subseteq Jobs BY DEF Cleared
    <3>2. Len(index'[d]) + Cardinality(Cleared(d)') <= Cardinality(Jobs) /\ Len(index'[d]) \in Nat
      BY <1>1, <1>5, <1>6 DEF InsertsFollowDeletes
    <3>3. Len(index'[d]) <= Cardinality(Jobs) BY <3>1, <3>2, CallsAreFinite
    <3>. QED BY <1>4, <3>3 DEF TypeOK
  <2>. QED BY <1>1, <2>1, <2>2, <2>3, <2>4 DEF TypeOK, document, ghosts, deletion
<1>8. SweepAtWork' BY <1>1, <1>2 DEF SweepAtWork, Jobs
<1>9. MergesAndEdits' /\ MarksAndNotes' /\ StillBody' /\ MarkIsHonest'
  BY <1>1, MarksKept DEF document, ghosts
<1>10. StillIsRead'
  <2>1. j = "queue" /\ ReadsAll(j, d) => ReadsAll(j, d)' BY <1>1, <1>2, <1>3 DEF ReadsAll
  <2>2. \A e \in Docs, i \in Jobs : i # j => ReadsAll(i, e)' = ReadsAll(i, e)
    BY <1>1, <1>2, <1>3 DEF ReadsAll, document
  <2>. QED BY <1>1, <1>2, <1>3, <2>1, <2>2, ReadingKept DEF TypeOK, ghosts
<1>11. StillIsIndexed'
  <2>1. d \notin spoilt /\ Still(d) => Marked(d) \subseteq content
    BY <1>1 DEF StillIsRead, ReadsAll, content
  <2>. QED BY <1>1, <1>3, <1>4, <1>5, <2>1 DEF StillIsIndexed, ghosts
<1>. QED BY <1>6, <1>7, <1>8, <1>9, <1>10, <1>11

\* A call that fails before it deletes leaves the index alone, one that fails after it spoils it.
LEMMA JobFailsInvariant ==
    ASSUME IInv, NEW j \in Jobs, JobFails(j)
    PROVE  IInv'
<1>. USE DEF IInv
<1>1. /\ job[j].pc \in {"called", "reading", "read", "cleared"} /\ job[j].doc \in Docs
      /\ faults' \in 0..MaxFaults
      /\ job' = [job EXCEPT ![j] = Idle]
      /\ sweep' = IF j = "queue" THEN Tail(sweep) ELSE sweep
      /\ spoilt' = spoilt \union BrokenOff(j)
      /\ UNCHANGED <<document, queue, timer, running, index, deletion, log, seen, unmarked,
                     overtaken>>
  BY BoundsAssumption DEF JobFails, TypeOK
<1>2. /\ job'[j] = Idle /\ job'[j].pc = "idle"
      /\ \A i \in Jobs : i # j => job'[i] = job[i]
  BY <1>1 DEF TypeOK, Idle
<1>3. sweep' \in Seq(Notes) /\ Range(sweep') \subseteq Range(sweep)
  BY <1>1, HeadIsNoted DEF TypeOK
<1>4. \A e \in Docs : /\ Marked(e)' = Marked(e) /\ AllIndexed(e)' = AllIndexed(e)
                      /\ Still(e)' => Still(e)
                      /\ Passed(e)' => Passed(e)
  BY <1>1, <1>2 DEF Body, Marked, Still, AllIndexed, Passing, Passed, document, Jobs
<1>5. TypeOK'
  <2>1. Idle \in Calls BY DEF Idle, Calls
  <2>2. job' \in [Jobs -> Calls] BY <1>1, <2>1 DEF TypeOK
  <2>3. \A i \in Jobs : job'[i].pc # "idle" => job'[i].doc \in Docs BY <1>2 DEF TypeOK
  <2>4. spoilt' \subseteq Docs BY <1>1 DEF TypeOK, BrokenOff
  <2>. QED BY <1>1, <1>3, <2>2, <2>3, <2>4 DEF TypeOK, document, deletion
<1>6. InsertsFollowDeletes' BY <1>1, <1>2, CountSame
<1>7. SweepAtWork'
  <2>1. CASE j = "queue" BY <1>1, <1>2, <2>1, HeadIsNoted DEF SweepAtWork, Jobs
  <2>2. CASE j # "queue" BY <1>1, <1>2, <2>2 DEF SweepAtWork, Jobs
  <2>. QED BY <2>1, <2>2
<1>8. MergesAndEdits' /\ MarksAndNotes' /\ StillBody' /\ MarkIsHonest'
  BY <1>1, <1>3, MarksKept DEF document
<1>9. StillIsRead'
  <2>1. \A e \in Docs, i \in Jobs : i # j => ReadsAll(i, e)' = ReadsAll(i, e)
    BY <1>1, <1>2, <1>4 DEF ReadsAll, document
  <2>. QED BY <1>1, <1>2, <1>4, <2>1, ReadingKept DEF TypeOK
<1>10. StillIsIndexed'
  <2>1. \A e \in Docs \ spoilt' : Cleared(e) \subseteq Cleared(e)'
    BY <1>1, <1>2 DEF Cleared, BrokenOff
  <2>. QED BY <1>1, <1>4, <2>1, IndexKept
<1>. QED BY <1>5, <1>6, <1>7, <1>8, <1>9, <1>10
-----------------------------------------------------------------------------
(* The sweep. *)

\* What the sweep notes is quiet, and the generation the mark has.
LEMMA SweepStartsInvariant ==
    ASSUME IInv, SweepStarts
    PROVE  IInv'
<1>. USE DEF IInv
<1>1. PICK b \in Batches :
        sweep' = [i \in DOMAIN b |-> [doc |-> b[i], generation |-> queue[b[i]].pending]]
  BY DEF SweepStarts
<1>2. ~running /\ running' = TRUE /\ UNCHANGED <<document, queue, timer, job, index, faults, deletion, ghosts>>
  BY DEF SweepStarts
<1>3. job["queue"].pc = "idle" BY <1>2 DEF SweepAtWork
<1>4. PICK n \in Nat : b \in [1..n -> Due] BY <1>1 DEF Batches
<1>5. \A d \in Due : /\ d \in Docs /\ queue[d].pending \in 1..MaxEdits /\ queue[d].quiet
                     /\ queue[d].pending <= edits
  <2>1. \A d \in Due : d \in Docs /\ queue[d] \in Marks /\ queue[d].pending > queue[d].indexed
                      /\ queue[d].quiet
    BY DEF Due, TypeOK
  <2>. QED BY <2>1, BoundsAssumption DEF Marks, MarksAndNotes
<1>6. \A i \in 1..n : sweep'[i] = [doc |-> b[i], generation |-> queue[b[i]].pending] /\ b[i] \in Due
  BY <1>1, <1>4
<1>7. sweep' \in Seq(Notes)
  <2>1. DOMAIN sweep' = 1..n /\ \A i \in 1..n : sweep'[i] \in Notes
    BY <1>1, <1>4, <1>5, <1>6 DEF Notes
  <2>2. sweep' \in [1..n -> Notes] BY <1>1, <2>1
  <2>. QED BY <2>2
<1>8. \A x \in Range(sweep') : \E d \in Due : x.doc = d /\ x.generation = queue[d].pending
  BY <1>1, <1>4, <1>6 DEF Range
<1>9. \A d \in Docs : /\ Marked(d)' = Marked(d) /\ AllIndexed(d)' = AllIndexed(d)
                      /\ Still(d)' = Still(d) /\ Passed(d)' = Passed(d)
  BY <1>2, <1>3 DEF Body, Marked, AllIndexed, Still, Passing, Passed, document, ghosts
<1>10. TypeOK' BY <1>2, <1>7 DEF TypeOK, document, ghosts, deletion
<1>11. InsertsFollowDeletes' BY <1>2, CountSame
<1>12. SweepAtWork' BY <1>2, <1>3 DEF SweepAtWork
<1>13. MarksAndNotes'
  <2>1. \A x \in Range(sweep') : /\ x.generation <= edits
                                 /\ x.generation <= queue[x.doc].pending
                                 /\ queue[x.doc].quiet
    BY <1>5, <1>8, NumbersAreNatural
  <2>. QED BY <1>2, <1>9, <2>1 DEF MarksAndNotes, document, ghosts
<1>14. StillBody' BY <1>2, <1>9 DEF StillBody, ghosts
<1>15. StillIsRead'
  <2>1. \A d \in Docs, j \in Jobs : ReadsAll(j, d)' = ReadsAll(j, d)
    BY <1>2, <1>9 DEF ReadsAll, document
  <2>. QED BY <1>2, <1>9, <2>1, ReadingKept DEF TypeOK, ghosts
<1>16. StillIsIndexed' BY <1>2, <1>9, IndexKept DEF Cleared, ghosts
<1>17. MarkIsHonest' /\ MergesAndEdits'
  BY <1>2, <1>9 DEF MarkIsHonest, MergesAndEdits, Body, document, ghosts
<1>. QED BY <1>10, <1>11, <1>12, <1>13, <1>14, <1>15, <1>16, <1>17

\* From here on the document may be still: nobody else is at work on it, or it is spoilt.
LEMMA SweepIndexesInvariant ==
    ASSUME IInv, SweepIndexes
    PROVE  IInv'
<1>. USE DEF IInv
<1>0. /\ sweep # <<>> /\ Head(sweep) \in Notes /\ Head(sweep).doc \in Docs
  <2>1. sweep \in Seq(Notes) /\ sweep # <<>> BY DEF SweepIndexes, TypeOK
  <2>2. Head(sweep) \in Notes BY <2>1, TailIsLeft
  <2>. QED BY <2>1, <2>2 DEF Notes
<1>1. PICK d \in Docs : d = Head(sweep).doc BY <1>0
<1>2. /\ running /\ job["queue"].pc = "idle"
      /\ job' = [job EXCEPT !["queue"] = Call("called", d, {}, {})]
      /\ spoilt' = spoilt \union {e \in {d} : Busy(e)}
      /\ UNCHANGED <<document, queue, timer, sweep, running, index, faults, deletion, log, seen,
                     unmarked, overtaken>>
  BY <1>1 DEF SweepIndexes
<1>3. /\ job'["queue"].pc = "called" /\ job'["queue"].doc = d
      /\ \A i \in Jobs : i # "queue" => job'[i] = job[i]
  BY <1>2 DEF TypeOK, Call, Jobs
<1>4. \A e \in Docs : /\ Marked(e)' = Marked(e) /\ AllIndexed(e)' = AllIndexed(e)
                      /\ Still(e)' => Still(e) \/ e = d
                      /\ Still(e)' /\ Passed(e)' => Still(e) /\ Passed(e)
                      /\ Cleared(e)' = Cleared(e)
  BY <1>2, <1>3 DEF Body, Marked, AllIndexed, Still, Passing, Passed, Cleared, document
<1>5. TypeOK'
  <2>1. Call("called", d, {}, {}) \in Calls BY DEF Call, Calls
  <2>2. job' \in [Jobs -> Calls] BY <1>2, <2>1 DEF TypeOK
  <2>3. \A j \in Jobs : job'[j].pc # "idle" => job'[j].doc \in Docs BY <1>3 DEF TypeOK
  <2>. QED BY <1>2, <2>2, <2>3 DEF TypeOK, document, deletion
<1>6. InsertsFollowDeletes' BY <1>2, <1>3, CountSame
<1>7. SweepAtWork' BY <1>0, <1>1, <1>2, <1>3 DEF SweepAtWork
<1>8. MergesAndEdits' /\ MarksAndNotes' /\ StillBody' /\ MarkIsHonest'
  BY <1>2, MarksKept DEF document
<1>9. StillIsRead'
  <2>. SUFFICES ASSUME NEW e \in Docs, NEW j \in Jobs, Still(e)', j = "queue" \/ e \notin spoilt',
                       job'[j].pc # "idle", job'[j].doc = e
                PROVE  ReadsAll(j, e)'
    BY DEF StillIsRead
  <2>1. CASE j = "queue" BY <1>3, <2>1 DEF ReadsAll
  <2>2. CASE j # "queue"
    <3>1. job'[j] = job[j] /\ Busy(e) BY <1>3, <2>2 DEF Busy
    <3>2. Still(e) /\ e \notin spoilt BY <1>2, <1>4, <2>2, <3>1
    <3>3. ReadsAll(j, e) BY <2>2, <3>1, <3>2 DEF StillIsRead
    <3>. QED BY <1>2, <1>4, <3>1, <3>3 DEF ReadsAll, document
  <2>. QED BY <2>1, <2>2
<1>10. StillIsIndexed' BY <1>2, <1>4, IndexKept
<1>. QED BY <1>5, <1>6, <1>7, <1>8, <1>9, <1>10

\* The mark advances to the generation noted: either that is not the newest, or the pass
\* has read everything.
LEMMA SweepMarksInvariant ==
    ASSUME IInv, SweepMarks
    PROVE  IInv'
<1>. USE DEF IInv
<1>. DEFINE g == Head(sweep).generation
<1>1. /\ job["queue"].pc = "done" /\ "queue" \in Jobs /\ job["queue"].doc \in Docs
      /\ Head(sweep) \in Range(sweep) /\ Head(sweep).doc = job["queue"].doc
      /\ g \in Nat \ {0} /\ g \in 1..MaxEdits
      /\ sweep # <<>> /\ running
      /\ Tail(sweep) \in Seq(Notes) /\ Range(Tail(sweep)) \subseteq Range(sweep)
  <2>1. job["queue"].pc = "done" BY DEF SweepMarks
  <2>. QED BY <2>1, HeadIsNoted DEF Jobs, Notes
<1>2. PICK d \in Docs : d = Head(sweep).doc /\ d = job["queue"].doc BY <1>1
<1>3. /\ queue' = [queue EXCEPT ![d] = Advanced(queue[d], g)]
      /\ seen' = [seen EXCEPT ![d] = @ \union job["queue"].base \union job["queue"].got]
      /\ job' = [job EXCEPT !["queue"] = Idle]
      /\ sweep' = Tail(sweep)
      /\ UNCHANGED <<document, timer, running, index, faults, deletion, log, unmarked, overtaken,
                     spoilt>>
  BY <1>2 DEF SweepMarks
<1>4. /\ queue'[d].pending = queue[d].pending /\ queue'[d].at = queue[d].at
      /\ queue'[d].quiet = queue[d].quiet
      /\ queue'[d].indexed = queue[d].indexed \/ queue'[d].indexed = g
      /\ queue'[d] \in Marks
  <2>1. queue[d] \in Marks BY DEF TypeOK
  <2>2. queue'[d] = Advanced(queue[d], g) BY <1>3 DEF TypeOK
  <2>3. g \in 0..MaxEdits BY <1>1, BoundsAssumption
  <2>. HIDE DEF g
  <2>. QED BY <2>1, <2>2, <2>3 DEF Advanced, Marks
<1>5. /\ \A e \in Docs : e # d => queue'[e] = queue[e] /\ seen'[e] = seen[e]
      /\ seen'[d] = seen[d] \union job["queue"].base \union job["queue"].got
      /\ job'["queue"].pc = "idle" /\ \A j \in Jobs : j # "queue" => job'[j] = job[j]
  BY <1>3 DEF TypeOK, Idle, Jobs
<1>6. /\ g <= edits
      /\ ~overtaken[d] => g <= queue[d].pending /\ (g = queue[d].pending => queue[d].quiet)
  BY <1>1, <1>2 DEF MarksAndNotes
<1>7. AllIndexed(d)' /\ ~overtaken[d] => AllIndexed(d) \/ Passing(d)
  BY <1>1, <1>2, <1>4, <1>6, NumbersAreNatural DEF AllIndexed, Passing
<1>8. \A e \in Docs : /\ Marked(e)' = Marked(e)
                      /\ e # d => AllIndexed(e)' = AllIndexed(e)
                      /\ Still(e)' => Still(e) /\ AllIndexed(e)'
                      /\ Still(e)' /\ Passed(e)' => Passed(e)
                      /\ Cleared(e)' = Cleared(e)
  <2>1. \A e \in Docs : /\ Marked(e)' = Marked(e) /\ ~Passing(e)'
                        /\ e # d => AllIndexed(e)' = AllIndexed(e)
                        /\ Cleared(e)' = Cleared(e)
    BY <1>1, <1>3, <1>5 DEF Body, Marked, AllIndexed, Passing, Cleared, document
  <2>2. \A e \in Docs : Still(e)' => Still(e) /\ AllIndexed(e)'
    BY <1>3, <1>7, <2>1 DEF Still
  <2>3. \A e \in Docs : Still(e)' /\ Passed(e)' => Passed(e)
    BY <1>1, <1>2, <1>5, <2>1 DEF Passed
  <2>. QED BY <2>1, <2>2, <2>3
<1>9. TypeOK'
  <2>1. queue' \in [Docs -> Marks] BY <1>3, <1>4 DEF TypeOK
  <2>2. job' \in [Jobs -> Calls]
    <3>1. Idle \in Calls BY DEF Idle, Calls
    <3>. QED BY <1>3, <3>1 DEF TypeOK
  <2>3. \A j \in Jobs : job'[j].pc # "idle" => job'[j].doc \in Docs BY <1>5 DEF TypeOK
  <2>4. seen' \in [Docs -> SUBSET (1..MaxEdits)]
    <3>1. job["queue"] \in Calls BY <1>1 DEF TypeOK
    <3>2. job["queue"].base \union job["queue"].got \subseteq 1..MaxEdits BY <3>1 DEF Calls
    <3>. QED BY <1>3, <3>2 DEF TypeOK
  <2>. QED BY <1>1, <1>3, <2>1, <2>2, <2>3, <2>4 DEF TypeOK, document, deletion
<1>10. InsertsFollowDeletes' BY <1>3, <1>5, CountSame
<1>11. SweepAtWork' BY <1>1, <1>3, <1>5 DEF SweepAtWork
<1>12. MarksAndNotes'
  <2>1. \A e \in Docs : /\ queue'[e].pending = queue[e].pending /\ queue'[e].at = queue[e].at
                        /\ queue'[e].quiet = queue[e].quiet
                        /\ queue'[e].indexed <= edits
                        /\ ~overtaken[e] => queue'[e].indexed <= queue[e].pending
    BY <1>4, <1>5, <1>6 DEF MarksAndNotes
  <2>. QED BY <1>1, <1>3, <1>8, <2>1, NumbersAreNatural DEF MarksAndNotes, document
<1>13. StillBody'
  <2>1. \A e \in Docs : queue'[e].quiet = queue[e].quiet BY <1>4, <1>5
  <2>2. AllIndexed(d)' /\ ~overtaken[d] => queue[d].quiet \/ Marked(d) = {}
    BY <1>7, StillIsQuiet DEF Still
  <2>. QED BY <1>3, <1>8, <2>1, <2>2 DEF StillBody
<1>14. StillIsRead'
  <2>1. \A e \in Docs, j \in Jobs : j # "queue" => ReadsAll(j, e)' = ReadsAll(j, e)
    BY <1>3, <1>5, <1>8 DEF ReadsAll, document
  <2>. QED BY <1>3, <1>5, <1>8, <2>1, ReadingKept DEF TypeOK
<1>15. StillIsIndexed' BY <1>3, <1>8, IndexKept
<1>16. MarkIsHonest'
  <2>1. ~overtaken[d] /\ AllIndexed(d)' => Range(log[d]) \subseteq seen'[d]
    <3>1. ~overtaken[d] /\ AllIndexed(d)' => Still(d) BY <1>7 DEF Still
    <3>2. Still(d) => Marked(d) \subseteq job["queue"].base \union job["queue"].got
      BY <1>1, <1>2 DEF StillIsRead, ReadsAll
    <3>. QED BY <1>5, <3>1, <3>2 DEF MarkIsHonest
  <2>. QED BY <1>3, <1>4, <1>5, <1>8, <2>1 DEF MarkIsHonest, AllIndexed
<1>17. MergesAndEdits' BY <1>3 DEF MergesAndEdits, Body, document
<1>. QED BY <1>9, <1>10, <1>11, <1>12, <1>13, <1>14, <1>15, <1>16, <1>17

\* The batch is through, or given up after a pass: what is left of it is forgotten.
LEMMA SweepStopsInvariant ==
    ASSUME IInv, SweepEnds \/ SweepAborts
    PROVE  IInv'
<1>. USE DEF IInv
<1>1. CASE SweepEnds
  <2>1. /\ sweep = <<>> /\ running' = FALSE
        /\ UNCHANGED <<document, queue, timer, job, sweep, index, faults, deletion, ghosts>>
    BY <1>1 DEF SweepEnds
  <2>2. TypeOK' BY <2>1 DEF TypeOK, document, ghosts, deletion
  <2>3. InsertsFollowDeletes' BY <2>1, CountSame
  <2>4. SweepAtWork' BY <2>1 DEF SweepAtWork
  <2>5. MergesAndEdits' /\ MarksAndNotes' /\ StillBody' /\ MarkIsHonest'
    BY <2>1, MarksKept DEF document, ghosts
  <2>6. StillIsRead' BY <2>1 DEF StillIsRead, Still, AllIndexed, Passing, ReadsAll, Body, Marked,
      document, ghosts
  <2>7. StillIsIndexed' BY <2>1 DEF StillIsIndexed, Still, AllIndexed, Passing, Passed, Body, Marked,
      Cleared, document, ghosts
  <2>. QED BY <2>2, <2>3, <2>4, <2>5, <2>6, <2>7
<1>2. CASE SweepAborts
  <2>1. /\ job["queue"].pc = "done" /\ faults' \in 0..MaxFaults
        /\ job' = [job EXCEPT !["queue"] = Idle]
        /\ sweep' = <<>> /\ running' = FALSE
        /\ UNCHANGED <<document, queue, timer, index, deletion, ghosts>>
    BY <1>2, BoundsAssumption DEF SweepAborts, TypeOK
  <2>2. /\ job'["queue"].pc = "idle" /\ \A j \in Jobs : j # "queue" => job'[j] = job[j]
    BY <2>1 DEF TypeOK, Idle, Jobs
  <2>3. \A d \in Docs : /\ Marked(d)' = Marked(d)
                        /\ Still(d)' => Still(d)
                        /\ Passed(d)' => Passed(d)
                        /\ Cleared(d)' = Cleared(d)
    BY <2>1, <2>2 DEF Body, Marked, Still, AllIndexed, Passing, Passed, Cleared, document, ghosts
  <2>4. TypeOK'
    <3>1. Idle \in Calls BY DEF Idle, Calls
    <3>2. job' \in [Jobs -> Calls] BY <2>1, <3>1 DEF TypeOK
    <3>3. \A j \in Jobs : job'[j].pc # "idle" => job'[j].doc \in Docs BY <2>2 DEF TypeOK
    <3>. QED BY <2>1, <3>2, <3>3, EmptyRange DEF TypeOK, document, ghosts, deletion
  <2>5. InsertsFollowDeletes' BY <2>1, <2>2, CountSame
  <2>6. SweepAtWork' BY <2>1, <2>2 DEF SweepAtWork
  <2>7. MergesAndEdits' /\ MarksAndNotes' /\ StillBody' /\ MarkIsHonest'
    BY <2>1, MarksKept, EmptyRange DEF document, ghosts
  <2>8. StillIsRead'
    <3>1. \A d \in Docs, j \in Jobs : j # "queue" => ReadsAll(j, d)' = ReadsAll(j, d)
      <4>1. rows' = rows BY <2>1 DEF document
      <4>. QED BY <2>2, <2>3, <4>1 DEF ReadsAll
    <3>2. \A j \in Jobs : \/ job'[j].pc \in {"idle", "called"}
                           \/ /\ job[j].pc # "idle" /\ job'[j].doc = job[j].doc
                              /\ ReadsAll(j, job[j].doc) => ReadsAll(j, job[j].doc)'
      <4>. SUFFICES ASSUME NEW j \in Jobs, j # "queue", job[j].pc # "idle"
                    PROVE  /\ job'[j].doc = job[j].doc
                           /\ ReadsAll(j, job[j].doc) => ReadsAll(j, job[j].doc)'
        BY <2>2
      <4>1. job[j].doc \in Docs /\ job'[j] = job[j] BY <2>2 DEF TypeOK
      <4>2. PICK d \in Docs : d = job[j].doc BY <4>1
      <4>3. job'[j].doc = d BY <4>1, <4>2
      <4>4. job[j].doc' = d BY <4>1, <4>2
      <4>5. ReadsAll(j, d)' = ReadsAll(j, d) BY <3>1
      <4>. QED BY <4>2, <4>3, <4>4, <4>5
    <3>3. spoilt' = spoilt BY <2>1 DEF ghosts
    <3>4. \A d \in Docs : Still(d)' => Still(d) BY <2>3
    <3>. QED BY <3>2, <3>3, <3>4, ReadingKept
  <2>9. StillIsIndexed'
    <3>1. spoilt' = spoilt /\ index' = index BY <2>1 DEF ghosts
    <3>2. \A d \in Docs : Still(d)' /\ Passed(d)' =>
            /\ Still(d) /\ Passed(d) /\ Marked(d)' = Marked(d)
            /\ (Cleared(d) # {} => Cleared(d)' # {})
      BY <2>3
    <3>. QED BY <3>1, <3>2, IndexKept
  <2>. QED BY <2>4, <2>5, <2>6, <2>7, <2>8, <2>9
<1>. QED BY <1>1, <1>2

\* A restart forgets the calls; those that had deleted spoil their documents.
LEMMA RestartInvariant ==
    ASSUME IInv, Restart
    PROVE  IInv'
<1>. USE DEF IInv
<1>1. /\ faults' \in 0..MaxFaults
      /\ flying' = [d \in Docs |-> {}] /\ timer' = [d \in Docs |-> FALSE]
      /\ merge' = [d \in Docs |-> NoMerge] /\ purge' = [d \in Docs |-> NoPurge]
      /\ job' = [j \in Jobs |-> Idle]
      /\ sweep' = <<>> /\ running' = FALSE
      /\ spoilt' = spoilt \union UNION {BrokenOff(j) : j \in Jobs}
      /\ UNCHANGED <<edits, snapshot, rows, queue, index, purges, log, seen, unmarked,
                     overtaken>>
  BY BoundsAssumption DEF Restart, TypeOK
<1>2. \A j \in Jobs : job'[j].pc = "idle" /\ job'[j] = Idle BY <1>1 DEF Idle
<1>3. "queue" \in Jobs BY DEF Jobs
<1>4. \A d \in Docs : /\ Marked(d)' = Marked(d)
                      /\ Still(d)' => Still(d)
                      /\ Passed(d)' => Passed(d)
                      /\ Cleared(d) # {} => d \in spoilt'
  BY <1>1, <1>2, <1>3 DEF Body, Marked, Still, AllIndexed, Passing, Passed, Cleared, BrokenOff
<1>5. TypeOK'
  <2>1. Idle \in Calls BY DEF Idle, Calls
  <2>2. spoilt' \subseteq Docs BY <1>1 DEF TypeOK, BrokenOff
  <2>3. job' \in [Jobs -> Calls] BY <1>1, <2>1
  <2>4. flying' \in [Docs -> SUBSET (1..MaxEdits)] /\ timer' \in [Docs -> BOOLEAN] BY <1>1
  <2>5. merge' \in [Docs -> [base : SUBSET (1..MaxEdits), got : SUBSET (1..MaxEdits)]]
    BY <1>1 DEF NoMerge
  <2>6. purge' \in [Docs -> Purges] BY <1>1, NoPurgeTyped
  <2>. QED BY <1>1, <1>2, <2>2, <2>3, <2>4, <2>5, <2>6, EmptyRange DEF TypeOK, Purges
<1>6. InsertsFollowDeletes' BY <1>1, <1>2, CountSame
<1>7. SweepAtWork' BY <1>1, <1>2, <1>3 DEF SweepAtWork
<1>8. MergesAndEdits' /\ MarksAndNotes' /\ StillBody' /\ MarkIsHonest'
  BY <1>1, MarksKept, EmptyRange
<1>9. StillIsRead' BY <1>2 DEF StillIsRead
<1>10. StillIsIndexed'
  <2>1. spoilt \subseteq spoilt' /\ index' = index BY <1>1
  <2>2. \A d \in Docs \ spoilt' : Still(d)' /\ Passed(d)' =>
          /\ Still(d) /\ Passed(d) /\ Marked(d)' = Marked(d)
          /\ (Cleared(d) # {} => Cleared(d)' # {})
    BY <1>4
  <2>. QED BY <2>1, <2>2, IndexKept
<1>. QED BY <1>5, <1>6, <1>7, <1>8, <1>9, <1>10

-----------------------------------------------------------------------------
\* Init establishes the invariant.
LEMMA InitInvariant == Init => IInv
<1>. SUFFICES ASSUME Init PROVE IInv OBVIOUS
<1>. USE DEF Init
<1>1. "queue" \in Jobs /\ \A j \in Jobs : job[j] = Idle /\ job[j].pc = "idle" BY DEF Jobs, Idle
<1>2. TypeOK
  <2>1. NoMark \in Marks /\ Idle \in Calls BY BoundsAssumption DEF NoMark, Marks, Idle, Calls
  <2>2. queue \in [Docs -> Marks] /\ job \in [Jobs -> Calls] BY <2>1
  <2>3. /\ log \in [Docs -> Seq(1..MaxEdits)] /\ index \in [Docs -> Seq(SUBSET (1..MaxEdits))]
        /\ sweep \in Seq(Notes)
    BY EmptyRange
  <2>4. \A d \in Docs : Len(index[d]) <= Cardinality(Jobs) BY EmptyRange, CallsAreFinite
  <2>5. edits \in 0..MaxEdits /\ faults \in 0..MaxFaults /\ purges \in 0..MaxPurges
    BY BoundsAssumption
  <2>6. /\ merge \in [Docs -> [base : SUBSET (1..MaxEdits), got : SUBSET (1..MaxEdits)]]
        /\ purge \in [Docs -> Purges]
    BY NoPurgeTyped DEF NoMerge
  <2>. QED BY <1>1, <2>2, <2>3, <2>4, <2>5, <2>6 DEF TypeOK, Purges
<1>3. InsertsFollowDeletes
  <2>1. \A d \in Docs : Cleared(d) = {} /\ index[d] = <<>> BY <1>1 DEF Cleared
  <2>. QED BY <2>1, EmptyRange, CallsAreFinite, FS_EmptySet DEF InsertsFollowDeletes
<1>4. SweepAtWork BY <1>1 DEF SweepAtWork
<1>5. MergesAndEdits /\ MarksAndNotes /\ StillBody /\ MarkIsHonest
  BY EmptyRange DEF MergesAndEdits, MarksAndNotes, StillBody, MarkIsHonest, Body, Marked, NoMark,
     NoMerge
<1>6. StillIsRead BY <1>1 DEF StillIsRead
<1>7. StillIsIndexed BY DEF StillIsIndexed, Body, Marked
<1>. QED BY <1>2, <1>3, <1>4, <1>5, <1>6, <1>7 DEF IInv

\* Every step keeps it.
LEMMA StepInvariant == IInv /\ [Next]_vars => IInv'
<1>. SUFFICES ASSUME IInv, [Next]_vars PROVE IInv' OBVIOUS
<1>1. ASSUME NEW d \in Docs, Push(d) \/ QuietPasses(d) PROVE IInv'
  BY <1>1, SaveEditInvariant, RebuildReadsInvariant, RebuildCommitsInvariant,
     RebuildStopsInvariant, PushEndsInvariant, QuietPassesInvariant DEF Push, Rebuild
<1>0. ASSUME NEW d \in Docs, PurgeTakesRows(d) \/ PurgeGoesOn(d) PROVE IInv'
  BY <1>0, PurgeHoldsInvariant, PurgeCommitsInvariant DEF PurgeGoesOn
<1>2. ASSUME NEW d \in Docs, NEW r \in Runs, TimerFires(d, r) PROVE IInv'
  BY <1>2, TimerFiresInvariant
<1>3. ASSUME NEW j \in Jobs, JobSteps(j) \/ JobFails(j) PROVE IInv'
  BY <1>3, ReadsSnapshotInvariant, ReadsRowsInvariant, DeletesOldInvariant, InsertsNewInvariant,
     JobFailsInvariant DEF JobSteps
<1>4. CASE Sweep \/ SweepAborts
  BY <1>4, SweepStartsInvariant, SweepIndexesInvariant, SweepMarksInvariant, SweepStopsInvariant
     DEF Sweep
<1>5. CASE Restart BY <1>5, RestartInvariant
<1>6. CASE UNCHANGED vars
  <2>. USE <1>6 DEF IInv, vars
  <2>1. TypeOK' /\ SweepAtWork' BY DEF TypeOK, SweepAtWork
  <2>2. InsertsFollowDeletes' BY CountSame
  <2>3. MergesAndEdits' /\ MarksAndNotes' /\ StillBody' /\ MarkIsHonest'
    BY MarksKept
  <2>4. StillIsRead' BY DEF StillIsRead, Still, AllIndexed, Passing, ReadsAll, Body, Marked
  <2>5. StillIsIndexed' BY DEF StillIsIndexed, Still, AllIndexed, Passing, Passed, Body, Marked, Cleared
  <2>. QED BY <2>1, <2>2, <2>3, <2>4, <2>5
<1>. QED BY <1>0, <1>1, <1>2, <1>3, <1>4, <1>5, <1>6 DEF Next

\* The invariant holds in every state of every behaviour.
LEMMA Invariance == Spec => []IInv
BY InitInvariant, StepInvariant, PTL DEF Spec

\* No mark drops an edit: while it says "all done", every edit was read by a pass that
\* advanced it (processPending, which notes the generation before the pass and advances the
\* mark to it after).  Only DocGcService.purge drops some, and unmarked is exactly what it
\* leaves between its statements or a rebuild brings back.
THEOREM NoMarkDropsAnEdit == Spec => []MarksAreSound
<1>1. IInv => MarksAreSound BY DEF IInv, MarksAreSound
<1>. QED BY <1>1, Invariance, PTL

\* Once nobody has anything left to do for a document, its index rows hold every marked edit
\* of its body, unless the sweep met a call of the timer or a call broke off (indexDocument,
\* in two queries and two statements) or the sweep held the document when it was deleted.
THEOREM SettledIndexIsWhole == Spec => []IndexMissesNothing
<1>1. ASSUME IInv PROVE IndexMissesNothing
  <2>. SUFFICES ASSUME NEW d \in Docs \ (Poison \union spoilt), Settled(d), ~overtaken[d]
                PROVE  Marked(d) \subseteq UNION Range(index[d])
    BY DEF IndexMissesNothing
  <2>1. AllIndexed(d) BY <1>1, NumbersAreNatural DEF IInv, Settled, AllIndexed
  <2>2. Cleared(d) = {} BY DEF Settled, Busy, Cleared
  <2>. QED BY <1>1, <2>1, <2>2 DEF IInv, StillIsIndexed, Still, Passed
<1>. QED BY <1>1, Invariance, PTL
==============================================================================
