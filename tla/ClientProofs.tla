----------------------------- MODULE ClientProofs ----------------------------
(***************************************************************************)
(* Proofs about the two caches of a browser: the list of documents that    *)
(* Discovery keeps, and the copy of a document that DocPeer synchronises.  *)
(* For any changes, edits, loads, pushes and failures.                     *)
(*                                                                         *)
(* A list is honest if it shows what was in the tables when its revision   *)
(* was made.  snapshot reads the revision before the rows, so what it      *)
(* lists is at least that, and later revisions only add to it              *)
(* (RevisionsGrow).  The strengthening follows a load through its queries: *)
(* when it filters it has the edits of its revision, when it stores it has *)
(* everything of its revision (GoodLoad).                                  *)
(*                                                                         *)
(* A peer notes as pushed the time of a push it has an answer to, which    *)
(* says something of all edits up to that time.  So it must have sent all  *)
(* of them: while it listens, whatever was typed is stored at the server,  *)
(* under way, waiting for a push or part of the diff that a load will push *)
(* (NothingIsSkipped), and when it stops listening it forgets its jobs and *)
(* compares again at the next connect (LoadTakesAll, PushTakesAll).        *)
(***************************************************************************)
EXTENDS Discovery, DocPeer, FiniteSetTheorems, SequenceTheorems, TLAPS

\* Later revisions cover the earlier ones; the tables cover them all.
RevisionsGrow ==
    /\ \A i, j \in 1..revision : i <= j => due[i] \subseteq due[j]
    /\ \A i \in 1..revision : due[i] \subseteq made

\* A change raises the revision once at most.
Raised == {w \in Changes : writer[w] \in {"raised", "done"}}
RaisedOnce == revision <= Cardinality(Raised) + 1

\* A list that shows what its revision announces.
Good(list) ==
    /\ list \in Lists
    /\ list.rev <= revision
    /\ list.rev # 0 => due[list.rev] \subseteq list.has

\* A load that will store such a list.
GoodLoad(l) ==
    /\ l \in Loads
    /\ Good(l.cached)
    /\ l.pc \in {"lists", "filters", "stores"} => l.list.rev \in 1..revision
    /\ l.pc = "filters" => due[l.list.rev] \intersect Edits \subseteq l.list.has
    /\ l.pc = "stores" => Good(l.list)

IInv ==
    /\ TypeOK
    /\ RevisionsGrow
    /\ RaisedOnce
    /\ Good(cache)
    /\ Good(shown)
    /\ \A l \in loads : GoodLoad(l)

-----------------------------------------------------------------------------
(* Lemmas. *)

\* No list at all is a good one.
LEMMA NoListIsGood ==
    ASSUME TypeOK
    PROVE  Good(NoList)
<1>1. Cardinality(Changes) \in Nat BY DiscoveryBounds, FS_CardinalityType DEF Changes
<1>. QED BY <1>1 DEF TypeOK, NoList, Good, Lists

\* The revision stays within the numbers a list may carry.
LEMMA RevisionIsBounded ==
    ASSUME TypeOK, RaisedOnce
    PROVE  /\ Cardinality(Changes) \in Nat
           /\ Cardinality(Raised) \in Nat
           /\ Cardinality(Raised) <= Cardinality(Changes)
           /\ revision \in 0..(Cardinality(Changes) + 1)
<1>1. IsFiniteSet(Changes) BY DiscoveryBounds DEF Changes
<1>2. Raised \in SUBSET Changes BY DEF Raised
<1>3. IsFiniteSet(Raised) /\ Cardinality(Raised) <= Cardinality(Changes)
  BY <1>1, <1>2, FS_Subset
<1>4. Cardinality(Changes) \in Nat /\ Cardinality(Raised) \in Nat
  BY <1>1, <1>3, FS_CardinalityType
<1>. QED BY <1>3, <1>4 DEF TypeOK, RaisedOnce

\* While the tables stay, so does what the tables make good.
LEMMA TablesStay ==
    ASSUME IInv, UNCHANGED tables
    PROVE  /\ \A list : Good(list)' <=> Good(list)
           /\ \A l : GoodLoad(l)' <=> GoodLoad(l)
           /\ RevisionsGrow'
BY DEF IInv, tables, Good, GoodLoad, RevisionsGrow

\* What requests and tabs do beside the tables.
LEMMA BesideTables ==
    ASSUME IInv, UNCHANGED tables,
           writer' \in [Changes -> {"idle", "written", "raised", "done"}],
           \A w \in Changes : writer[w] \in {"raised", "done"} => writer'[w] \in {"raised", "done"},
           joined' \in BOOLEAN, noticed' \in BOOLEAN, behind' \in BOOLEAN,
           triggers' \in 0..MaxTriggers, faults' \in 0..MaxFaults,
           Good(cache'), Good(shown'), \A l \in loads' : GoodLoad(l)
    PROVE  IInv'
<1>1. TypeOK' BY DEF IInv, TypeOK, tables, Good, GoodLoad, Lists
<1>2. RaisedOnce'
  <2>1. IsFiniteSet(Raised')
    BY DiscoveryBounds, FS_Subset DEF Raised, Changes
  <2>2. Raised \in SUBSET (Raised') BY DEF Raised
  <2>3. Cardinality(Raised) <= Cardinality(Raised') BY <2>1, <2>2, FS_Subset
  <2>4. Cardinality(Raised') \in Nat BY <2>1, FS_CardinalityType
  <2>5. Cardinality(Raised) \in Nat BY RevisionIsBounded DEF IInv
  <2>. QED BY <2>3, <2>4, <2>5 DEF IInv, TypeOK, RaisedOnce, tables
<1>. QED BY <1>1, <1>2, TablesStay DEF IInv

\* Loads that end without an answer leave the tab what the client falls back on.
LEMMA BreakIsGood ==
    ASSUME IInv, NEW broken \in SUBSET loads, Break(broken)
    PROVE  Good(shown') /\ \A l \in loads' : GoodLoad(l)
<1>. DEFINE wanted == {l \in broken : l.own}
<1>1. loads' \subseteq loads /\ shown' = IF wanted = {} THEN shown
                                        ELSE Fallback(CHOOSE l \in wanted : TRUE)
  BY DEF Break
<1>2. \A l \in loads : Good(Fallback(l))
  BY NoListIsGood DEF IInv, GoodLoad, Fallback
<1>3. wanted # {} => (CHOOSE l \in wanted : TRUE) \in loads OBVIOUS
<1>. QED BY <1>1, <1>2, <1>3 DEF IInv

-----------------------------------------------------------------------------
(* The server's steps. *)

\* A change that is stored only adds to the tables.
LEMMA WritesInvariant ==
    ASSUME IInv, NEW w \in Changes, Writes(w)
    PROVE  IInv'
<1>. USE DEF IInv, Writes, browser
<1>1. TypeOK' BY DEF TypeOK
<1>2. RevisionsGrow' BY DEF RevisionsGrow
<1>3. Raised' = Raised BY DEF Raised, TypeOK
<1>4. RaisedOnce' BY <1>3 DEF RaisedOnce
<1>. QED BY <1>1, <1>2, <1>4 DEF Good, GoodLoad

\* A new revision covers the older ones, and ages the loads under way.
LEMMA RaisesInvariant ==
    ASSUME IInv, NEW w \in Changes, Raises(w)
    PROVE  IInv'
<1>. USE DEF IInv
<1>1. /\ revision' = revision + 1 /\ revision \in Nat \ {0}
      /\ due' = Append(due, made)
      /\ due' \in Seq(SUBSET Changes) /\ Len(due') = revision'
      /\ \A i \in 1..revision : due'[i] = due[i]
      /\ due'[revision + 1] = made
      /\ made' = made
  BY AppendProperties DEF Raises, TypeOK
<1>2. \A list : Good(list) => Good(list)'
  <2>1. Cardinality(Changes) \in Nat BY RevisionIsBounded
  <2>. QED BY <1>1, <2>1 DEF Good, Lists
<1>3. \A l \in loads : GoodLoad([l EXCEPT !.old = TRUE])'
  <2>1. \A l \in loads : l.pc \in {"lists", "filters", "stores"} =>
          l.list.rev \in 1..revision'
    BY <1>1 DEF GoodLoad
  <2>2. \A l \in loads : l.pc = "filters" =>
          due'[l.list.rev] \intersect Edits \subseteq l.list.has
    BY <1>1 DEF GoodLoad
  <2>3. \A l \in loads : l \in Loads /\ [l EXCEPT !.old = TRUE] \in Loads
    BY DEF GoodLoad, Loads
  <2>4. \A l \in loads : /\ [l EXCEPT !.old = TRUE].pc = l.pc
                         /\ [l EXCEPT !.old = TRUE].list = l.list
                         /\ [l EXCEPT !.old = TRUE].cached = l.cached
    BY <2>3 DEF Loads
  <2>. QED BY <1>2, <2>1, <2>2, <2>3, <2>4 DEF GoodLoad
<1>4. loads' = {[l EXCEPT !.old = TRUE] : l \in loads} BY DEF Raises
<1>5. \A l \in loads' : GoodLoad(l)' BY <1>3, <1>4
<1>6. Good(cache)' /\ Good(shown)' BY <1>2 DEF Raises
<1>7. RevisionsGrow' BY <1>1 DEF RevisionsGrow
<1>8. RaisedOnce'
  <2>1. Raised' = Raised \union {w} /\ w \notin Raised
    BY DEF Raised, Raises, TypeOK
  <2>2. IsFiniteSet(Raised) BY DiscoveryBounds, FS_Subset DEF Raised, Changes
  <2>3. Cardinality(Raised') = Cardinality(Raised) + 1 BY <2>1, <2>2, FS_AddElement
  <2>. QED BY <1>1, <2>3, RevisionIsBounded DEF RaisedOnce
<1>9. TypeOK'
  <2>1. loads' \subseteq Loads BY <1>5 DEF GoodLoad
  <2>. QED BY <1>1, <1>6, <2>1 DEF TypeOK, Raises, Good, Lists
<1>. QED BY <1>5, <1>6, <1>7, <1>8, <1>9

\* What becomes of the notice touches no list.
LEMMA NoticeInvariant ==
    ASSUME IInv, NEW w \in Changes, RaiseFails(w) \/ Notifies(w)
    PROVE  IInv'
<1>1. writer' = [writer EXCEPT ![w] = "done"] /\ UNCHANGED tables
  BY DEF RaiseFails, Notifies
<1>2. faults' \in 0..MaxFaults
  BY DiscoveryBounds DEF RaiseFails, Notifies, IInv, TypeOK
<1>. QED BY <1>1, <1>2, BesideTables DEF RaiseFails, Notifies, browser, IInv, TypeOK

\* Nor do the socket and the process, but for the loads they end.
LEMMA ConnectionInvariant ==
    ASSUME IInv, Restart \/ Joins \/ Disconnects
    PROVE  IInv'
<1>1. CASE Restart
  <2>1. UNCHANGED tables /\ UNCHANGED <<noticed, cache, triggers>> /\ Break(AtServer)
    BY <1>1 DEF Restart
  <2>2. faults' \in 0..MaxFaults BY <1>1, DiscoveryBounds DEF Restart, IInv, TypeOK
  <2>3. Good(shown') /\ \A l \in loads' : GoodLoad(l)
    BY <2>1, BreakIsGood DEF AtServer
  <2>4. behind' \in BOOLEAN /\ joined' \in BOOLEAN
    BY <1>1 DEF Restart
  <2>5. /\ writer' \in [Changes -> {"idle", "written", "raised", "done"}]
        /\ \A w \in Changes : writer[w] \in {"raised", "done"} => writer'[w] \in {"raised", "done"}
    BY <1>1 DEF Restart, IInv, TypeOK
  <2>. QED BY <2>1, <2>2, <2>3, <2>4, <2>5, BesideTables DEF IInv, TypeOK
<1>2. CASE Joins \/ Disconnects
  <2>1. faults' \in 0..MaxFaults BY <1>2, DiscoveryBounds DEF Joins, Disconnects, IInv, TypeOK
  <2>. QED BY <1>2, <2>1, BesideTables DEF Joins, Disconnects, browser, IInv, TypeOK
<1>. QED BY <1>1, <1>2

-----------------------------------------------------------------------------
(* The tab's steps. *)

\* A load that begins takes the cache along.
LEMMA NewLoadIsGood ==
    ASSUME IInv, NEW own \in BOOLEAN
    PROVE  GoodLoad(NewLoad(own))
<1>1. NoList \in Lists BY NoListIsGood DEF IInv, Good
<1>. QED BY <1>1 DEF IInv, GoodLoad, Good, Loads, NewLoad

\* A load that begins beside those that go on unwatched.
LEMMA BeginsIsGood ==
    ASSUME IInv, Begins
    PROVE  behind' \in BOOLEAN /\ \A l \in loads' : GoodLoad(l)
<1>1. \A l \in loads : GoodLoad([l EXCEPT !.own = FALSE])
  <2>1. \A l \in loads : l \in Loads BY DEF IInv, GoodLoad
  <2>2. \A l \in loads : [l EXCEPT !.own = FALSE] \in Loads
    BY <2>1 DEF Loads
  <2>3. \A l \in loads : /\ [l EXCEPT !.own = FALSE].pc = l.pc
                         /\ [l EXCEPT !.own = FALSE].list = l.list
                         /\ [l EXCEPT !.own = FALSE].cached = l.cached
    BY <2>1 DEF Loads
  <2>. QED BY <2>2, <2>3 DEF IInv, GoodLoad
<1>. QED BY <1>1, NewLoadIsGood DEF Begins

\* What makes the tabs load or show the cache.
LEMMA TabInvariant ==
    ASSUME IInv, Triggers \/ Reloads \/ OtherTabLoads \/ WatchEmits
    PROVE  IInv'
<1>1. CASE Triggers
  <2>1. triggers' \in 0..MaxTriggers BY <1>1, DiscoveryBounds DEF Triggers, IInv, TypeOK
  <2>. QED BY <1>1, <2>1, BeginsIsGood, BesideTables DEF Triggers, IInv, TypeOK
<1>2. CASE Reloads
  BY <1>2, BeginsIsGood, BesideTables DEF Reloads, IInv, TypeOK
<1>3. CASE OtherTabLoads
  <2>1. triggers' \in 0..MaxTriggers BY <1>3, DiscoveryBounds DEF OtherTabLoads, IInv, TypeOK
  <2>2. \A l \in loads' : GoodLoad(l) BY <1>3, NewLoadIsGood DEF OtherTabLoads, IInv
  <2>. QED BY <1>3, <2>1, <2>2, BesideTables DEF OtherTabLoads, IInv, TypeOK
<1>4. CASE WatchEmits
  BY <1>4, BesideTables DEF WatchEmits, tables, IInv, TypeOK
<1>. QED BY <1>1, <1>2, <1>3, <1>4

\* A load that goes on as a good load.
LEMMA MovesInvariant ==
    ASSUME IInv, NEW l \in loads, NEW next, GoodLoad(next), Moves(l, next)
    PROVE  IInv'
BY BesideTables DEF Moves, IInv, TypeOK

\* A load that ends with a good list.
LEMMA EndsInvariant ==
    ASSUME IInv, NEW l \in loads, NEW list, Good(list), Ends(l, list), Good(cache'),
           UNCHANGED <<tables, writer, joined, noticed, triggers, behind, faults>>
    PROVE  IInv'
<1>1. Good(shown') /\ \A m \in loads' : GoodLoad(m) BY DEF Ends, IInv
<1>. QED BY <1>1, BesideTables DEF IInv, TypeOK

\* Each step of a load, and its failure.
LEMMA LoadInvariant ==
    ASSUME IInv, NEW l \in loads, LoadStep(l) \/ LoadBreaks(l)
    PROVE  IInv'
<1>1. GoodLoad(l) /\ l \in Loads BY DEF IInv, GoodLoad
<1>2. /\ made \subseteq Changes /\ revision \in Nat \ {0}
      /\ revision \in 0..(Cardinality(Changes) + 1)
      /\ \A i \in 1..revision : due[i] \subseteq made
  BY RevisionIsBounded DEF IInv, TypeOK, RevisionsGrow
<1>3. CASE UsesCache(l)
  BY <1>1, <1>3, EndsInvariant DEF UsesCache, GoodLoad, IInv
<1>4. CASE Requests(l)
  <2>. DEFINE next == [l EXCEPT !.pc = "requests", !.cached = NoList]
  <2>1. NoList \in Lists /\ Good(NoList) BY NoListIsGood DEF IInv, Good
  <2>2. next \in Loads /\ next.pc = "requests" /\ next.cached = NoList
    BY <1>1, <2>1 DEF Loads
  <2>3. GoodLoad(next) BY <2>1, <2>2 DEF GoodLoad
  <2>. QED BY <1>4, <2>3, MovesInvariant DEF Requests
<1>5. CASE IsRejected(l)
  BY <1>5, NoListIsGood, EndsInvariant DEF IsRejected, ClearsCache, IInv
<1>6. CASE SnapshotDates(l)
  <2>. DEFINE next == [l EXCEPT !.pc = "lists", !.list.rev = revision]
  <2>1. l.list \in Lists BY <1>1 DEF Loads
  <2>2. [l.list EXCEPT !.rev = revision] \in Lists BY <1>2, <2>1 DEF Lists
  <2>3. next \in Loads /\ next.pc = "lists" /\ next.cached = l.cached /\ next.list.rev = revision
    BY <1>1, <2>1, <2>2 DEF Loads, Lists
  <2>4. GoodLoad(next) BY <1>1, <1>2, <2>3 DEF GoodLoad
  <2>. QED BY <1>6, <2>4, MovesInvariant DEF SnapshotDates
<1>7. CASE SnapshotLists(l)
  <2>. DEFINE next == [l EXCEPT !.pc = "filters", !.list.has = made \intersect Edits]
  <2>1. l.list \in Lists BY <1>1 DEF Loads
  <2>2. [l.list EXCEPT !.has = made \intersect Edits] \in Lists BY <1>2, <2>1 DEF Lists
  <2>3. /\ next \in Loads /\ next.pc = "filters" /\ next.cached = l.cached
        /\ next.list.rev = l.list.rev /\ next.list.has = made \intersect Edits
    BY <1>1, <2>1, <2>2 DEF Loads, Lists
  <2>4. l.list.rev \in 1..revision BY <1>1, <1>7 DEF SnapshotLists, GoodLoad
  <2>5. GoodLoad(next) BY <1>1, <1>2, <2>3, <2>4 DEF GoodLoad
  <2>. QED BY <1>7, <2>5, MovesInvariant DEF SnapshotLists
<1>8. CASE SnapshotFilters(l)
  <2>. DEFINE next == [l EXCEPT !.pc = "stores", !.list.has = @ \union (made \ Edits)]
  <2>1. l.list \in Lists BY <1>1 DEF Loads
  <2>2. [l.list EXCEPT !.has = @ \union (made \ Edits)] \in Lists BY <1>2, <2>1 DEF Lists
  <2>3. /\ next \in Loads /\ next.pc = "stores" /\ next.cached = l.cached
        /\ next.list.rev = l.list.rev /\ next.list.has = l.list.has \union (made \ Edits)
        /\ next.list \in Lists
    BY <1>1, <2>1, <2>2 DEF Loads, Lists
  <2>4. l.list.rev \in 1..revision /\ due[l.list.rev] \intersect Edits \subseteq l.list.has
    BY <1>1, <1>8 DEF SnapshotFilters, GoodLoad
  <2>5. due[l.list.rev] \subseteq l.list.has \union (made \ Edits) BY <1>2, <2>4
  <2>6. Good(next.list)
    <3>. HIDE DEF next
    <3>1. next.list.rev <= revision BY <1>2, <2>3, <2>4
    <3>. QED BY <2>3, <2>5, <3>1 DEF Good
  <2>7. GoodLoad(next) BY <1>1, <2>3, <2>4, <2>6 DEF GoodLoad
  <2>. QED BY <1>8, <2>7, MovesInvariant DEF SnapshotFilters
<1>9. CASE Stores(l)
  BY <1>1, <1>9, EndsInvariant DEF Stores, GoodLoad
<1>10. CASE LoadBreaks(l)
  <2>1. Good(shown') /\ \A m \in loads' : GoodLoad(m)
    BY <1>10, BreakIsGood DEF LoadBreaks
  <2>2. faults' \in 0..MaxFaults /\ behind' \in BOOLEAN
    BY <1>10, DiscoveryBounds DEF LoadBreaks, IInv, TypeOK
  <2>. QED BY <1>10, <2>1, <2>2, BesideTables DEF LoadBreaks, IInv, TypeOK
<1>. QED BY <1>3, <1>4, <1>5, <1>6, <1>7, <1>8, <1>9, <1>10 DEF LoadStep

-----------------------------------------------------------------------------
(* The theorems. *)

\* The first state.
LEMMA InitInvariant == Init => IInv
<1>. SUFFICES ASSUME Init PROVE IInv OBVIOUS
<1>1. TypeOK
  <2>1. Cardinality(Changes) \in Nat BY DiscoveryBounds, FS_CardinalityType DEF Changes
  <2>2. <<{}>> \in Seq(SUBSET Changes) /\ Len(<<{}>>) = 1 OBVIOUS
  <2>3. triggers \in 0..MaxTriggers /\ faults \in 0..MaxFaults
    BY DiscoveryBounds DEF Init
  <2>4. NoList \in Lists /\ NoList.rev = 0 BY <2>1 DEF NoList, Lists
  <2>5. due \in Seq(SUBSET Changes) /\ Len(due) = revision BY <2>2 DEF Init
  <2>6. /\ made \subseteq Changes /\ revision \in Nat \ {0} /\ loads \subseteq Loads
        /\ writer \in [Changes -> {"idle", "written", "raised", "done"}]
    BY DEF Init
  <2>7. joined = FALSE /\ noticed = FALSE /\ behind = TRUE BY DEF Init
  <2>8. {joined, noticed, behind} \subseteq BOOLEAN BY <2>7, Zenon
  <2>9. cache \in Lists /\ shown \in Lists /\ {cache.rev, shown.rev} \subseteq 0..revision
    BY <2>4 DEF Init
  <2>. QED BY <2>3, <2>5, <2>6, <2>8, <2>9 DEF TypeOK
<1>2. Good(cache) /\ Good(shown) /\ \A l \in loads : GoodLoad(l)
  BY <1>1, NoListIsGood DEF Init
<1>3. RevisionsGrow BY DEF Init, RevisionsGrow
<1>4. RaisedOnce
  <2>1. IsFiniteSet(Raised) BY DiscoveryBounds, FS_Subset DEF Raised, Changes
  <2>2. Cardinality(Raised) \in Nat BY <2>1, FS_CardinalityType
  <2>. QED BY <2>2 DEF Init, RaisedOnce
<1>. QED BY <1>1, <1>2, <1>3, <1>4 DEF IInv

\* Every step keeps the whole invariant.
LEMMA StepInvariant == IInv /\ [Next]_vars => IInv'
<1>. SUFFICES ASSUME IInv, [Next]_vars PROVE IInv' OBVIOUS
<1>1. ASSUME NEW w \in Changes, WriterStep(w) PROVE IInv'
  BY <1>1, WritesInvariant, RaisesInvariant, NoticeInvariant DEF WriterStep
<1>2. CASE UNCHANGED vars
  BY <1>2, BesideTables DEF vars, browser, IInv, TypeOK
<1>. QED BY <1>1, <1>2, ConnectionInvariant, TabInvariant, LoadInvariant DEF Next

\* So every state has it.
LEMMA Invariant == Spec => []IInv
BY InitInvariant, StepInvariant, PTL DEF Spec

\* Lists, loads and revisions are well formed, and no revision runs ahead of the changes.
THEOREM TypeCorrect == Spec => []TypeOK
<1>1. IInv => TypeOK BY DEF IInv
<1>. QED BY <1>1, Invariant, PTL

\* Whatever is written between the queries of a list, whichever tab stores it and whatever
\* breaks: no list hides a change that its own revision announced.
THEOREM NoListIsOlderThanItSays == Spec => []ListIsHonest
<1>1. IInv => ListIsHonest BY DEF IInv, Good, ListIsHonest
<1>. QED BY <1>1, Invariant, PTL

-----------------------------------------------------------------------------
(* The synchronisation of a document. *)

\* Edit u has been typed.
Typed(u) == typedAt[u] # 0

\* The store in the browser has what was typed, and its time is the latest.
TypedIsLocal == \A u \in Mine : Typed(u) => u \in local /\ typedAt[u] <= clock

\* No job is about a time that the store has not come to.
ClocksAreTaken == jobs.push.at <= clock /\ work.clock <= clock /\ peer.pushed <= clock

Loading == work.pc \in {"loads", "rows", "dates"}
Merging == work.pc \in {"merges", "notes"}
Pushing == work.pc \in {"pushesDiff", "pushesAll", "pushes"}

\* A document that is worked on, or connected, is known and need not be connected.
ConnectsFirst == work # Idle \/ connected => known /\ ~jobs.connect

\* This browser waits for one push; a push that is stored is stored; others push what is theirs.
RequestsAreSound ==
    /\ \A r \in requests : r.from = "me" => Pushing
    /\ \A r, s \in requests : r.from = "me" /\ s.from = "me" => r = s
    /\ \A r \in requests : r.pc = "stored" => r.has \subseteq Stored
    /\ \A r \in requests : r.from = "others" => r.has \subseteq Theirs

\* What was read from the server is stored there.
ReadIsStored == work.got \subseteq Stored

\* u is on its way in the push this browser waits for.
Sent(u) == \E r \in requests : r.from = "me" /\ u \in r.has

\* A load begins with all that was typed up to its time.
LoadTakesAll == Loading => \A u \in Mine : Typed(u) /\ typedAt[u] <= work.clock => u \in work.base

\* What is going to be noted as pushed is stored, or in the push that is waited for.
PushTakesAll ==
    work.pc \in {"pushesAll", "pushes"} =>
        \A u \in Mine : Typed(u) /\ typedAt[u] <= work.clock => u \in Stored \/ Sent(u)

\* While the peer listens, somebody takes care of whatever was typed.
NothingIsSkipped ==
    loop.pc # "off" =>
        \A u \in Mine : Typed(u) =>
            \/ u \in Stored \/ Sent(u)
            \/ jobs.connect \/ u \in jobs.push.has
            \/ (Loading \/ Merging) /\ work.both /\ u \in work.base

PeerInv ==
    /\ PeerTypeOK
    /\ TypedIsLocal
    /\ ClocksAreTaken
    /\ ConnectsFirst
    /\ RequestsAreSound
    /\ ReadIsStored
    /\ LoadTakesAll
    /\ PushTakesAll
    /\ NothingIsSkipped
    /\ PushedIsStored

-----------------------------------------------------------------------------
(* Lemmas about the parts. *)

\* Nothing is at work.
LEMMA IdleWork ==
    /\ Idle.pc = "idle" /\ Idle.got = {} /\ Idle.clock = 0
    /\ \A steps : "idle" \in steps =>
         Idle \in [pc : steps, both : BOOLEAN, base : SUBSET Updates, got : SUBSET Updates,
                  at : Nat, clock : Nat]
BY DEF Idle

\* The part of the invariant that tells what is stored.
Sound == TypedIsLocal /\ ClocksAreTaken /\ ConnectsFirst /\ RequestsAreSound /\ ReadIsStored
         /\ LoadTakesAll /\ PushTakesAll /\ NothingIsSkipped /\ PushedIsStored

\* Steps of the server and of others: the store, the loop and the job stay as they are, what
\* is stored stays, and what is on its way goes on.
LEMMA ServerKeepsTheRest ==
    ASSUME PeerInv,
           UNCHANGED <<store, peer, loop, work>>,
           Stored \subseteq Stored',
           \A u \in Mine : Sent(u) => Sent(u)' \/ u \in Stored',
           ConnectsFirst', RequestsAreSound',
           jobs.push' = jobs.push,
           jobs.connect => jobs.connect'
    PROVE  Sound'
<1>. USE DEF PeerInv, store
<1>1. TypedIsLocal' BY DEF TypedIsLocal, Typed
<1>2. ClocksAreTaken' BY DEF ClocksAreTaken
<1>3. ReadIsStored' BY DEF ReadIsStored
<1>4. LoadTakesAll' BY DEF LoadTakesAll, Loading, Typed
<1>5. PushTakesAll' BY DEF PushTakesAll, Typed
<1>6. NothingIsSkipped' BY DEF NothingIsSkipped, Loading, Merging, Typed
<1>7. PushedIsStored' BY DEF PushedIsStored
<1>. QED BY <1>1, <1>2, <1>3, <1>4, <1>5, <1>6, <1>7 DEF Sound

\* The requests of a push at the server, and what is stored, in each step of it.
LEMMA DatesInvariant ==
    ASSUME PeerInv, NEW r \in requests, Dates(r)
    PROVE  PeerInv'
<1>. DEFINE q == [r EXCEPT !.pc = "dated", !.at = now']
<1>1. q.from = r.from /\ q.has = r.has /\ q.pc = "dated" /\ q.at = now' /\ now' \in Nat
  BY DEF PeerInv, PeerTypeOK, Dates
<1>2. requests' = (requests \ {r}) \union {q} BY DEF Dates
<1>3. PeerTypeOK'
  <2>1. q \in [has : SUBSET Updates, at : Nat, from : {"me", "gone", "others"},
               pc : {"sent", "dated", "stored"}]
    BY <1>1 DEF PeerInv, PeerTypeOK
  <2>2. requests' \subseteq [has : SUBSET Updates, at : Nat, from : {"me", "gone", "others"},
                              pc : {"sent", "dated", "stored"}]
    BY <1>2, <2>1 DEF PeerInv, PeerTypeOK
  <2>. QED BY <1>1, <2>2 DEF PeerInv, PeerTypeOK, Dates, store, status, ghosts
<1>4. Stored' = Stored BY DEF Dates, Stored
<1>5. \A u \in Mine : Sent(u) => Sent(u)' BY <1>1, <1>2 DEF Sent
<1>6. RequestsAreSound' BY <1>1, <1>2, <1>4 DEF PeerInv, RequestsAreSound, Dates, Pushing
<1>7. ConnectsFirst' BY DEF PeerInv, ConnectsFirst, Dates, status
<1>8. Sound' BY <1>4, <1>5, <1>6, <1>7, ServerKeepsTheRest DEF Dates, status
<1>. QED BY <1>3, <1>8 DEF PeerInv, Sound

LEMMA CommitsInvariant ==
    ASSUME PeerInv, NEW r \in requests, Commits(r)
    PROVE  PeerInv'
<1>. DEFINE q == [r EXCEPT !.pc = "stored"]
<1>1. q.from = r.from /\ q.has = r.has /\ q.pc = "stored" /\ q.at = r.at
  BY DEF PeerInv, PeerTypeOK
<1>2. requests' = (requests \ {r}) \union {q} BY DEF Commits
<1>3. PeerTypeOK'
  BY <1>1, <1>2 DEF PeerInv, PeerTypeOK, Commits, store, status, ghosts, Higher
<1>4. Stored' = Stored \union r.has BY DEF Commits, Stored
<1>5. \A u \in Mine : Sent(u) => Sent(u)' BY <1>1, <1>2 DEF Sent
<1>6. RequestsAreSound' BY <1>1, <1>2, <1>4 DEF PeerInv, RequestsAreSound, Commits, Pushing
<1>7. ConnectsFirst' BY DEF PeerInv, ConnectsFirst, Commits, status
<1>8. Sound' BY <1>4, <1>5, <1>6, <1>7, ServerKeepsTheRest DEF Commits, status
<1>. QED BY <1>3, <1>8 DEF PeerInv, Sound

\* Rebuilding the snapshot moves what is stored from the rows to it.
LEMMA RebuildsInvariant ==
    ASSUME PeerInv, NEW r \in requests, Rebuilds(r)
    PROVE  PeerInv'
<1>3. PeerTypeOK' BY PeerBounds DEF PeerInv, PeerTypeOK, Rebuilds, store, status, ghosts, Happens,
                     Batch, Stored
<1>4. Stored' = Stored BY DEF Rebuilds, Stored
<1>5. \A u \in Mine : Sent(u) => Sent(u)' BY DEF Sent, Rebuilds
<1>6. RequestsAreSound' BY <1>4 DEF PeerInv, RequestsAreSound, Rebuilds, Pushing
<1>7. ConnectsFirst' BY DEF PeerInv, ConnectsFirst, Rebuilds, status
<1>8. Sound' BY <1>4, <1>5, <1>6, <1>7, ServerKeepsTheRest DEF Rebuilds, status
<1>. QED BY <1>3, <1>8 DEF PeerInv, Sound

LEMMA BroadcastsInvariant ==
    ASSUME PeerInv, NEW r \in requests, Broadcasts(r)
    PROVE  PeerInv'
<1>1. /\ r.has \subseteq Updates /\ r.at \in Nat /\ r.from # "me" /\ r.pc = "stored"
      /\ requests' = requests \ {r}
      /\ UNCHANGED <<server, store, peer, loop, work, events, ghosts, connected>>
  BY DEF PeerInv, PeerTypeOK, Broadcasts, status
<1>2. /\ jobs' \in [connect : BOOLEAN, push : Batch, save : Batch]
      /\ jobs.push' = jobs.push
      /\ jobs.connect => jobs.connect'
      /\ jobs.connect' => jobs.connect \/ ~known
      /\ remoteClock' \in Nat /\ known' \in BOOLEAN
      /\ known => known'
      /\ jobs' # NoJobs => known'
  <2>1. /\ jobs \in [connect : BOOLEAN, push : Batch, save : Batch]
        /\ remoteClock \in Nat /\ known \in BOOLEAN
        /\ jobs # NoJobs => known
    BY DEF PeerInv, PeerTypeOK
  <2>2. CASE UNCHANGED <<jobs, known, remoteClock>> BY <2>1, <2>2
  <2>3. CASE RemoteUpdated(r.at, r.has)
    <3>1. Plus(jobs.save, r.at, r.has) \in Batch BY <1>1, <2>1 DEF Plus, Higher, Batch
    <3>2. /\ jobs' = [[jobs EXCEPT !.connect = @ \/ ~known]
                        EXCEPT !.save = Plus(jobs.save, r.at, r.has)]
          /\ known' = TRUE /\ remoteClock' = Higher(remoteClock, r.at)
      BY <2>1, <2>3 DEF RemoteUpdated, AddDoc
    <3>. QED BY <1>1, <2>1, <3>1, <3>2 DEF Higher
  <2>. QED BY <2>2, <2>3 DEF Broadcasts, status
<1>3. PeerTypeOK'
  <2>1. answered' \subseteq Theirs
    BY <1>1 DEF PeerInv, PeerTypeOK, Broadcasts, RequestsAreSound
  <2>. QED BY <1>1, <1>2, <2>1 DEF PeerInv, PeerTypeOK, server, store, ghosts
<1>4. Stored' = Stored BY <1>1 DEF server, Stored
<1>5. \A u \in Mine : Sent(u) => Sent(u)' BY <1>1 DEF Sent
<1>6. RequestsAreSound' BY <1>1, <1>4 DEF PeerInv, RequestsAreSound, Pushing
<1>7. ConnectsFirst' BY <1>1, <1>2 DEF PeerInv, ConnectsFirst
<1>8. Sound' BY <1>1, <1>2, <1>4, <1>5, <1>6, <1>7, ServerKeepsTheRest
<1>. QED BY <1>3, <1>8 DEF PeerInv, Sound

LEMMA PushFailsInvariant ==
    ASSUME PeerInv, NEW r \in requests, PushFails(r)
    PROVE  PeerInv'
<1>3. PeerTypeOK' BY PeerBounds DEF PeerInv, PeerTypeOK, PushFails, Happens, server, store, status,
                     ghosts
<1>4. Stored' = Stored BY DEF PushFails, Stored, server
<1>5. \A u \in Mine : Sent(u) => Sent(u)' BY DEF Sent, PushFails
<1>6. RequestsAreSound' BY <1>4 DEF PeerInv, RequestsAreSound, PushFails, Pushing
<1>7. ConnectsFirst' BY DEF PeerInv, ConnectsFirst, PushFails, status
<1>8. Sound' BY <1>4, <1>5, <1>6, <1>7, ServerKeepsTheRest DEF PushFails, status
<1>. QED BY <1>3, <1>8 DEF PeerInv, Sound

LEMMA OthersInvariant ==
    ASSUME PeerInv, OtherDocumentMoves \/ \E u \in Theirs : OthersPush(u)
    PROVE  PeerInv'
<1>1. CASE OtherDocumentMoves
  <2>3. PeerTypeOK' BY <1>1, PeerBounds DEF PeerInv, PeerTypeOK, OtherDocumentMoves, Happens, store,
                       status, ghosts
  <2>4. Stored' = Stored BY <1>1 DEF OtherDocumentMoves, Stored
  <2>5. \A u \in Mine : Sent(u) => Sent(u)' BY <1>1 DEF Sent, OtherDocumentMoves
  <2>6. RequestsAreSound' BY <1>1, <2>4 DEF PeerInv, RequestsAreSound, OtherDocumentMoves, Pushing
  <2>7. ConnectsFirst' BY <1>1 DEF PeerInv, ConnectsFirst, OtherDocumentMoves, status
  <2>8. Sound' BY <1>1, <2>4, <2>5, <2>6, <2>7, ServerKeepsTheRest
        DEF OtherDocumentMoves, status
  <2>. QED BY <2>3, <2>8 DEF PeerInv, Sound
<1>2. CASE \E u \in Theirs : OthersPush(u)
  <2>1. PICK u \in Theirs : OthersPush(u) BY <1>2
  <2>2. /\ requests' = requests \union {Request("others", {u})}
        /\ UNCHANGED <<server, answered, store, peer, loop, status, work, events, ghosts>>
    BY <2>1 DEF OthersPush
  <2>3. PeerTypeOK' BY <2>2 DEF PeerInv, PeerTypeOK, Request, server, store, status, ghosts, Updates
  <2>4. Stored' = Stored BY <2>2 DEF Stored, server
  <2>5. \A v \in Mine : Sent(v) => Sent(v)' BY <2>2 DEF Sent
  <2>6. RequestsAreSound' BY <2>2, <2>4 DEF PeerInv, RequestsAreSound, Pushing, Request
  <2>7. ConnectsFirst' BY <2>2 DEF PeerInv, ConnectsFirst, status
  <2>8. Sound' BY <2>2, <2>4, <2>5, <2>6, <2>7, ServerKeepsTheRest DEF status
  <2>. QED BY <2>3, <2>8 DEF PeerInv, Sound
<1>. QED BY <1>1, <1>2

-----------------------------------------------------------------------------
(* The browser. *)

\* An edit is new, so that its time is later than whatever is noted or at work.
LEMMA LocalEditInvariant ==
    ASSUME PeerInv, NEW u \in Mine, LocalEdit(u)
    PROVE  PeerInv'
<1>. USE DEF PeerInv
<1>1. /\ u \notin local /\ local' = local \union {u}
      /\ clock \in Nat /\ clock' = clock + 1
      /\ typedAt \in [Mine -> Nat] /\ typedAt' = [typedAt EXCEPT ![u] = clock + 1]
      /\ UNCHANGED <<server, requests, answered, peer, loop, connected, remoteClock, work,
                     events, ghosts>>
  BY DEF LocalEdit, PeerTypeOK
<1>2. /\ jobs' \in [connect : BOOLEAN, push : Batch, save : Batch]
      /\ known' \in BOOLEAN
      /\ known => known'
      /\ jobs' # NoJobs => known'
      /\ jobs.connect => jobs'.connect
      /\ known => jobs'.connect = jobs.connect
      /\ jobs.push.has \subseteq jobs'.push.has
      /\ loop.pc # "off" => u \in jobs'.push.has
      /\ jobs'.push.at <= clock + 1
  <2>1. /\ jobs \in [connect : BOOLEAN, push : Batch, save : Batch] /\ known \in BOOLEAN
        /\ jobs # NoJobs => known
        /\ jobs.push.at <= clock
        /\ jobs.push.at \in Nat /\ u \in Updates
    BY DEF PeerTypeOK, ClocksAreTaken, Batch, Updates
  <2>2. CASE loop.pc = "off" BY <1>1, <2>1, <2>2 DEF LocalEdit
  <2>3. CASE loop.pc # "off"
    <3>1. /\ Plus(jobs.push, clock + 1, {u}) \in Batch
          /\ Plus(jobs.push, clock + 1, {u}).at <= clock + 1
          /\ Plus(jobs.push, clock + 1, {u}).has = jobs.push.has \union {u}
      BY <1>1, <2>1 DEF Plus, Higher, Batch
    <3>2. /\ jobs' = [[jobs EXCEPT !.connect = @ \/ ~known]
                        EXCEPT !.push = Plus(jobs.push, clock + 1, {u})]
          /\ known' = TRUE
      BY <1>1, <2>1, <2>3 DEF LocalEdit, LocalUpdated, AddDoc
    <3>. QED BY <2>1, <3>1, <3>2
  <2>. QED BY <2>2, <2>3
<1>3. PeerTypeOK' BY <1>1, <1>2 DEF PeerTypeOK, server, ghosts, Updates
<1>4. Stored' = Stored BY <1>1 DEF server, Stored
<1>5. ~Typed(u) /\ \A v \in Mine \ {u} : typedAt'[v] = typedAt[v]
  BY <1>1 DEF TypedIsLocal
<1>6. TypedIsLocal' BY <1>1, <1>5 DEF TypedIsLocal, Typed, PeerTypeOK
<1>7. ClocksAreTaken' BY <1>1, <1>2 DEF ClocksAreTaken, PeerTypeOK
<1>8. ConnectsFirst' BY <1>1, <1>2 DEF ConnectsFirst
<1>9. RequestsAreSound' BY <1>1, <1>4 DEF RequestsAreSound, Pushing
<1>10. ReadIsStored' BY <1>1, <1>4 DEF ReadIsStored
<1>11. LoadTakesAll' BY <1>1, <1>5 DEF LoadTakesAll, Loading, Typed, ClocksAreTaken, PeerTypeOK
<1>12. PushTakesAll'
  BY <1>1, <1>4, <1>5 DEF PushTakesAll, Typed, ClocksAreTaken, PeerTypeOK, Sent
<1>13. NothingIsSkipped'
  BY <1>1, <1>2, <1>4, <1>5 DEF NothingIsSkipped, Typed, Loading, Merging, Sent
<1>14. PushedIsStored' BY <1>1, <1>4, <1>5 DEF PushedIsStored, ClocksAreTaken, PeerTypeOK
<1>. QED BY <1>3, <1>6, <1>7, <1>8, <1>9, <1>10, <1>11, <1>12, <1>13, <1>14

\* A document that is stored is to be connected, and will be pushed with all that was typed.
LEMMA SubscribesInvariant ==
    ASSUME PeerInv, Subscribes
    PROVE  PeerInv'
<1>. USE DEF PeerInv
<1>1. /\ loop.pc = "off" /\ loop' = [Off EXCEPT !.pc = "subscribed"]
      /\ jobs' = [NoJobs EXCEPT !.connect = (clock # 0)] /\ known' = (clock # 0)
      /\ UNCHANGED <<server, requests, answered, store, peer, connected, remoteClock, work,
                     events, ghosts>>
      /\ clock \in Nat
  BY DEF Subscribes, PeerTypeOK
<1>2. work = Idle /\ ~connected BY <1>1 DEF PeerTypeOK
<1>3. PeerTypeOK' BY <1>1, <1>2 DEF PeerTypeOK, server, store, ghosts, Off, NoJobs, NoBatch, Batch
<1>4. Stored' = Stored BY <1>1 DEF server, Stored
<1>5. \A u \in Mine : Typed(u) => clock # 0 BY <1>1 DEF TypedIsLocal, Typed, PeerTypeOK
<1>6. TypedIsLocal' BY <1>1 DEF TypedIsLocal, Typed, store
<1>7. ClocksAreTaken' BY <1>1 DEF ClocksAreTaken, store, NoJobs, NoBatch
<1>8. ConnectsFirst' BY <1>1, <1>2 DEF ConnectsFirst
<1>9. RequestsAreSound' BY <1>1, <1>4 DEF RequestsAreSound, Pushing
<1>10. ReadIsStored' BY <1>1, <1>4 DEF ReadIsStored
<1>11. LoadTakesAll' BY <1>1 DEF LoadTakesAll, Loading, Typed, store
<1>12. PushTakesAll' BY <1>1, <1>4 DEF PushTakesAll, Typed, Sent, store
<1>13. NothingIsSkipped' BY <1>1, <1>5 DEF NothingIsSkipped, Typed, store, NoJobs
<1>14. PushedIsStored' BY <1>1, <1>4 DEF PushedIsStored, store
<1>. QED BY <1>3, <1>6, <1>7, <1>8, <1>9, <1>10, <1>11, <1>12, <1>13, <1>14

\* The loop up to the jobs asks and notes times of the server, and adds the document.
LEMMA LoopInvariant ==
    ASSUME PeerInv, Asks \/ TellsSnapshots \/ TellsRows \/ StoresTime \/ Runs
    PROVE  PeerInv'
<1>. USE DEF PeerInv
<1>1. /\ UNCHANGED <<server, requests, answered, store, connected, work, events, ghosts>>
      /\ loop.pc # "off"
      /\ jobs.push' = jobs.push
      /\ jobs.connect => jobs.connect'
      /\ known => known' /\ jobs'.connect = jobs.connect
      /\ peer'.pushed = peer.pushed
  BY DEF Asks, TellsSnapshots, TellsRows, StoresTime, Runs, AddDoc, status, PeerTypeOK
<1>2. PeerTypeOK'
  <2>1. CASE Asks BY <2>1 DEF PeerTypeOK, Asks, server, store, ghosts
  <2>2. CASE TellsSnapshots BY <2>2 DEF PeerTypeOK, TellsSnapshots, Batch, server, store, status,
                                              ghosts
  <2>3. CASE TellsRows BY <2>3 DEF PeerTypeOK, TellsRows, server, store, ghosts
  <2>4. CASE StoresTime BY <2>4 DEF PeerTypeOK, StoresTime, server, store, status, ghosts, Higher
  <2>5. CASE Runs BY <2>5 DEF PeerTypeOK, Runs, server, store, ghosts, Off, AddDoc
  <2>. QED BY <2>1, <2>2, <2>3, <2>4, <2>5
<1>4. Stored' = Stored BY <1>1 DEF server, Stored
<1>6. TypedIsLocal' BY <1>1 DEF TypedIsLocal, Typed, store
<1>7. ClocksAreTaken' BY <1>1 DEF ClocksAreTaken, store
<1>8. ConnectsFirst' BY <1>1 DEF ConnectsFirst
<1>9. RequestsAreSound' BY <1>1, <1>4 DEF RequestsAreSound, Pushing
<1>10. ReadIsStored' BY <1>1, <1>4 DEF ReadIsStored
<1>11. LoadTakesAll' BY <1>1 DEF LoadTakesAll, Loading, Typed, store
<1>12. PushTakesAll' BY <1>1, <1>4 DEF PushTakesAll, Typed, Sent, store
<1>13. NothingIsSkipped'
  BY <1>1, <1>4 DEF NothingIsSkipped, Typed, store, Sent, Loading, Merging
<1>14. PushedIsStored' BY <1>1, <1>4 DEF PushedIsStored, store
<1>. QED BY <1>2, <1>6, <1>7, <1>8, <1>9, <1>10, <1>11, <1>12, <1>13, <1>14

\* What is on its way to the server is no longer waited for; what is stored stays.
LEMMA ForgetsInvariant ==
    ASSUME PeerInv, PeerDisconnects \/ Crashes
    PROVE  PeerInv'
<1>. USE DEF PeerInv
<1>. DEFINE mine == {r \in requests : r.from = "me"}
            left == {[r EXCEPT !.from = "gone"] : r \in mine}
<1>1. /\ loop' = Off /\ known' = FALSE /\ connected' = FALSE /\ remoteClock' = 0
      /\ jobs' = NoJobs /\ work' = Idle
      /\ requests' \subseteq (requests \ mine) \union left
      /\ UNCHANGED <<server, answered, store, peer, unanswered>>
      /\ events' \in 0..MaxEvents /\ cut' \in BOOLEAN
  <2>1. Forgets BY DEF PeerDisconnects, Crashes
  <2>2. events' \in 0..MaxEvents BY <2>1, PeerBounds DEF Forgets, Happens, PeerTypeOK
  <2>3. cut' \in BOOLEAN BY DEF PeerDisconnects, Crashes, PeerTypeOK
  <2>4. requests' \subseteq (requests \ mine) \union left BY <2>1 DEF Forgets
  <2>. QED BY <2>1, <2>2, <2>3, <2>4 DEF Forgets
<1>2. \A q \in left : \E r \in mine : q.from = "gone" /\ q.has = r.has /\ q.pc = r.pc
                                      /\ q.at = r.at /\ q \in
        [has : SUBSET Updates, at : Nat, from : {"me", "gone", "others"},
         pc : {"sent", "dated", "stored"}]
  BY DEF PeerTypeOK
<1>3. PeerTypeOK'
  <2>1. requests' \subseteq [has : SUBSET Updates, at : Nat, from : {"me", "gone", "others"},
                             pc : {"sent", "dated", "stored"}]
    BY <1>1, <1>2 DEF PeerTypeOK
  <2>2. /\ work' \in [pc : {"idle", "loads", "rows", "dates", "merges", "notes",
                          "pushesDiff", "pushesAll", "pushes", "saved"},
                    both : BOOLEAN, base : SUBSET Updates, got : SUBSET Updates,
                    at : Nat, clock : Nat]
    BY <1>1 DEF Idle
  <2>3. jobs' \in [connect : BOOLEAN, push : Batch, save : Batch]
    BY <1>1 DEF NoJobs, NoBatch, Batch
  <2>4. loop' \in [pc : {"off", "subscribed", "asks", "rows", "stores", "runs"},
                   answer : Nat, highest : Nat]
    BY <1>1 DEF Off
  <2>5. /\ {now, elsewhere, clock, remoteClock}' \subseteq Nat
        /\ {known, connected, cut, unanswered}' \subseteq BOOLEAN
    <3>1. /\ now \in Nat /\ elsewhere \in Nat /\ clock \in Nat /\ unanswered \in BOOLEAN
      BY DEF PeerTypeOK
    <3>2. /\ now' = now /\ elsewhere' = elsewhere /\ clock' = clock /\ unanswered' = unanswered
      BY <1>1 DEF server, store
    <3>3. {now, elsewhere, clock, remoteClock}' \subseteq Nat
      BY <1>1, <3>1, <3>2
    <3>4. /\ known' \in BOOLEAN /\ connected' \in BOOLEAN /\ cut' \in BOOLEAN
          /\ unanswered' \in BOOLEAN
      BY <1>1, <3>1, <3>2
    <3>5. {known, connected, cut, unanswered}' \subseteq BOOLEAN BY <3>4
    <3>. QED BY <3>3, <3>5
  <2>6. /\ snapshot' \in Batch /\ rows' \subseteq Updates /\ stamp' \in [Updates -> Nat]
        /\ answered' \subseteq Theirs /\ local' \subseteq Updates /\ typedAt' \in [Mine -> Nat]
        /\ peer' \in [seen : Nat, highest : Nat, pulled : Nat, pushed : Nat]
    BY <1>1 DEF PeerTypeOK, server, store
  <2>7. ~connected' /\ work' = Idle /\ jobs' = NoJobs BY <1>1
  <2>. QED BY <1>1, <2>1, <2>2, <2>3, <2>4, <2>5, <2>6, <2>7 DEF PeerTypeOK
<1>4. Stored' = Stored BY <1>1 DEF server, Stored
<1>6. TypedIsLocal' BY <1>1 DEF TypedIsLocal, Typed, store
<1>7. ClocksAreTaken' BY <1>1 DEF ClocksAreTaken, store, NoJobs, NoBatch, Idle, PeerTypeOK
<1>8. ConnectsFirst' BY <1>1 DEF ConnectsFirst
<1>9. RequestsAreSound'
  <2>1. \A q \in requests' : q.from # "me" BY <1>1, <1>2
  <2>2. \A q \in requests' : q.pc = "stored" => q.has \subseteq Stored
    BY <1>1, <1>2 DEF RequestsAreSound
  <2>3. \A q \in requests' : q.from = "others" => q.has \subseteq Theirs
    BY <1>1, <1>2 DEF RequestsAreSound
  <2>. QED BY <1>4, <2>1, <2>2, <2>3 DEF RequestsAreSound
<1>10. ReadIsStored' BY <1>1 DEF ReadIsStored, Idle
<1>11. LoadTakesAll' BY <1>1 DEF LoadTakesAll, Loading, Idle
<1>12. PushTakesAll' BY <1>1 DEF PushTakesAll, Idle
<1>13. NothingIsSkipped' BY <1>1 DEF NothingIsSkipped, Off
<1>14. PushedIsStored' BY <1>1, <1>4 DEF PushedIsStored, store
<1>. QED BY <1>3, <1>6, <1>7, <1>8, <1>9, <1>10, <1>11, <1>12, <1>13, <1>14

-----------------------------------------------------------------------------
(* The jobs. *)

\* connect: unless everything typed is noted as pushed, and so is stored, all that was
\* typed is loaded to be pushed.
LEMMA ConnectsInvariant ==
    ASSUME PeerInv, Connects
    PROVE  PeerInv'
<1>. USE DEF PeerInv
<1>1. /\ loop.pc = "runs" /\ work = Idle /\ jobs.connect /\ ~connected
      /\ jobs' = [jobs EXCEPT !.connect = FALSE]
      /\ UNCHANGED <<server, requests, answered, store, peer, loop, known, remoteClock, events,
                     ghosts>>
      /\ jobs \in [connect : BOOLEAN, push : Batch, save : Batch]
      /\ clock \in Nat /\ local \subseteq Updates
      /\ known
  BY DEF Connects, Ready, PeerTypeOK, ConnectsFirst, NoJobs
<1>2. \/ work' = Load(MustPush) /\ connected' = connected
      \/ ~MustPush /\ connected' = TRUE /\ work' = Idle
  BY <1>1 DEF Connects
<1>. DEFINE loading == work' = Load(MustPush) /\ connected' = connected
<1>3. loading => /\ work'.pc = "loads" /\ work'.both = MustPush /\ work'.base = local
                 /\ work'.clock = clock /\ work'.got = {} /\ work'.at = 0
                 /\ work' \in [pc : {"loads"}, both : BOOLEAN, base : SUBSET Updates,
                               got : SUBSET Updates, at : Nat, clock : Nat]
  <2>1. loading => work' = [pc |-> "loads", both |-> MustPush, base |-> local, got |-> {},
                            at |-> 0, clock |-> clock]
    BY DEF Load, Idle
  <2>2. MustPush \in BOOLEAN BY DEF MustPush
  <2>. QED BY <1>1, <2>1, <2>2
<1>4. Stored' = Stored BY <1>1 DEF server, Stored
<1>5. ~MustPush => \A u \in Mine : Typed(u) => u \in Stored
  BY <1>1 DEF MustPush, TypedIsLocal, PushedIsStored, Typed, PeerTypeOK
<1>6. PeerTypeOK' BY <1>1, <1>2, <1>3 DEF PeerTypeOK, server, store, ghosts
<1>7. TypedIsLocal' BY <1>1 DEF TypedIsLocal, Typed, store
<1>8. ClocksAreTaken' BY <1>1, <1>2, <1>3 DEF ClocksAreTaken, store
<1>9. ConnectsFirst' BY <1>1 DEF ConnectsFirst
<1>10. RequestsAreSound' BY <1>1, <1>4 DEF RequestsAreSound, Pushing, Idle
<1>11. ReadIsStored' BY <1>1, <1>2, <1>3, <1>4 DEF ReadIsStored
<1>12. LoadTakesAll' BY <1>1, <1>2, <1>3 DEF LoadTakesAll, Loading, Typed, store, TypedIsLocal
<1>13. PushTakesAll' BY <1>1, <1>2, <1>3 DEF PushTakesAll, Idle
<1>14. NothingIsSkipped'
  BY <1>1, <1>2, <1>3, <1>4, <1>5 DEF NothingIsSkipped, Typed, store, Loading, TypedIsLocal
<1>15. PushedIsStored' BY <1>1, <1>4 DEF PushedIsStored, store
<1>. QED BY <1>6, <1>7, <1>8, <1>9, <1>10, <1>11, <1>12, <1>13, <1>14, <1>15

\* Three queries of loadDoc.
LEMMA LoadReadsInvariant ==
    ASSUME PeerInv, LoadReads
    PROVE  PeerInv'
<1>. USE DEF PeerInv
<1>1. /\ Loading /\ work'.pc \in {"rows", "dates", "merges"}
      /\ work'.both = work.both /\ work'.base = work.base /\ work'.clock = work.clock
      /\ work'.got \subseteq Stored
      /\ work' \in [pc : {"rows", "dates", "merges"}, both : BOOLEAN, base : SUBSET Updates,
                    got : SUBSET Updates, at : Nat, clock : Nat]
      /\ UNCHANGED <<server, requests, answered, store, peer, loop, status, events, ghosts>>
  <2>1. /\ work \in [pc : {work.pc}, both : BOOLEAN, base : SUBSET Updates,
                     got : SUBSET Updates, at : Nat, clock : Nat]
        /\ work.got \subseteq Stored /\ now \in Nat
        /\ snapshot.has \subseteq Stored /\ rows \subseteq Stored /\ Stored \subseteq Updates
    BY DEF PeerTypeOK, ReadIsStored, Stored, Batch
  <2>2. CASE work.pc = "loads"
    <3>1. work' = [work EXCEPT !.pc = "rows", !.got = snapshot.has] BY <2>2 DEF LoadReads
    <3>. QED BY <2>1, <2>2, <3>1 DEF LoadReads, Loading
  <2>3. CASE work.pc = "rows"
    <3>1. work' = [work EXCEPT !.pc = "dates", !.got = work.got \union rows]
      BY <2>1, <2>3 DEF LoadReads
    <3>. QED BY <2>1, <2>3, <3>1 DEF LoadReads, Loading
  <2>4. CASE work.pc = "dates"
    <3>1. work' = [work EXCEPT !.pc = "merges", !.at = now] BY <2>4 DEF LoadReads
    <3>. QED BY <2>1, <2>4, <3>1 DEF LoadReads, Loading
  <2>. QED BY <2>2, <2>3, <2>4 DEF LoadReads
<1>2. work # Idle BY <1>1 DEF Loading, Idle
<1>4. Stored' = Stored BY <1>1 DEF server, Stored
<1>6. PeerTypeOK' BY <1>1, <1>2 DEF PeerTypeOK, server, store, status, ghosts
<1>7. TypedIsLocal' BY <1>1 DEF TypedIsLocal, Typed, store
<1>8. ClocksAreTaken' BY <1>1 DEF ClocksAreTaken, store, status
<1>9. ConnectsFirst' BY <1>1, <1>2 DEF ConnectsFirst, status
<1>10. RequestsAreSound' BY <1>1, <1>4 DEF RequestsAreSound, Pushing, Loading
<1>11. ReadIsStored' BY <1>1, <1>4 DEF ReadIsStored
<1>12. LoadTakesAll' BY <1>1 DEF LoadTakesAll, Loading, Typed, store
<1>13. PushTakesAll' BY <1>1 DEF PushTakesAll
<1>14. NothingIsSkipped'
  BY <1>1, <1>4 DEF NothingIsSkipped, Typed, store, status, Loading, Merging, Sent
<1>15. PushedIsStored' BY <1>1, <1>4 DEF PushedIsStored, store
<1>. QED BY <1>6, <1>7, <1>8, <1>9, <1>10, <1>11, <1>12, <1>13, <1>14, <1>15

\* What was loaded goes into the store.
LEMMA LoadMergesInvariant ==
    ASSUME PeerInv, LoadMerges
    PROVE  PeerInv'
<1>. USE DEF PeerInv
<1>1. /\ work.pc = "merges" /\ work' = [work EXCEPT !.pc = "notes", !.clock = clock + 1]
      /\ local' = local \union work.got /\ clock' = clock + 1 /\ clock \in Nat
      /\ UNCHANGED <<server, requests, answered, typedAt, peer, loop, status, events, ghosts>>
  BY DEF LoadMerges, PeerTypeOK
<1>2. /\ work'.pc = "notes" /\ work'.clock = clock + 1
      /\ work'.both = work.both /\ work'.base = work.base /\ work'.got = work.got
      /\ work' \in [pc : {"notes"}, both : BOOLEAN, base : SUBSET Updates,
                    got : SUBSET Updates, at : Nat, clock : Nat]
      /\ work # Idle
  <2>1. work \in [pc : {work.pc}, both : BOOLEAN, base : SUBSET Updates,
                  got : SUBSET Updates, at : Nat, clock : Nat]
    BY DEF PeerTypeOK
  <2>2. work' = [pc |-> "notes", both |-> work.both, base |-> work.base, got |-> work.got,
                 at |-> work.at, clock |-> clock + 1]
    BY <1>1, <2>1
  <2>3. work # Idle BY <1>1 DEF Idle
  <2>. QED BY <1>1, <2>1, <2>2, <2>3
<1>4. Stored' = Stored BY <1>1 DEF server, Stored
<1>6. PeerTypeOK' BY <1>1, <1>2 DEF PeerTypeOK, server, status, ghosts
<1>7. TypedIsLocal' BY <1>1 DEF TypedIsLocal, Typed, PeerTypeOK
<1>8. ClocksAreTaken' BY <1>1, <1>2 DEF ClocksAreTaken, status, PeerTypeOK, Batch
<1>9. ConnectsFirst' BY <1>1, <1>2 DEF ConnectsFirst, status
<1>10. RequestsAreSound' BY <1>1, <1>4 DEF RequestsAreSound, Pushing
<1>11. ReadIsStored' BY <1>1, <1>2, <1>4 DEF ReadIsStored
<1>12. LoadTakesAll' BY <1>2 DEF LoadTakesAll, Loading
<1>13. PushTakesAll' BY <1>2 DEF PushTakesAll
<1>14. NothingIsSkipped'
  BY <1>1, <1>2, <1>4 DEF NothingIsSkipped, Typed, status, Loading, Merging, Sent
<1>15. PushedIsStored' BY <1>1, <1>4 DEF PushedIsStored
<1>. QED BY <1>6, <1>7, <1>8, <1>9, <1>10, <1>11, <1>12, <1>13, <1>14, <1>15

\* A save of broadcasts, and its note.
LEMMA SavesInvariant ==
    ASSUME PeerInv, Saves \/ SaveNotes
    PROVE  PeerInv'
<1>. USE DEF PeerInv
<1>1. /\ UNCHANGED <<server, requests, answered, typedAt, loop, known, connected, remoteClock,
                     events, ghosts>>
      /\ peer' \in [seen : Nat, highest : Nat, pulled : Nat, pushed : Nat]
      /\ peer'.pushed = peer.pushed
      /\ work.pc \in {"idle", "saved"} /\ work'.pc \in {"idle", "saved"}
      /\ work'.got = {} /\ work'.clock = 0
      /\ work' \in [pc : {"idle", "saved"}, both : BOOLEAN, base : SUBSET Updates,
                    got : SUBSET Updates, at : Nat, clock : Nat]
      /\ work' # Idle => connected
      /\ local \subseteq local' /\ local' \subseteq Updates
      /\ clock \in Nat /\ clock' \in {clock, clock + 1}
      /\ jobs' \in [connect : BOOLEAN, push : Batch, save : Batch]
      /\ jobs'.connect = jobs.connect
      /\ jobs.push.has \subseteq jobs'.push.has
      /\ jobs'.push.at <= clock'
      /\ jobs' # NoJobs => known
  <2>1. CASE SaveNotes
    BY <2>1 DEF SaveNotes, PeerTypeOK, PulledAt, Higher, store, status, Idle, ClocksAreTaken
  <2>2. CASE Saves
    <3>1. /\ work = Idle /\ connected
          /\ jobs \in [connect : BOOLEAN, push : Batch, save : Batch]
          /\ jobs.push = NoBatch /\ jobs.save.has \subseteq Updates /\ jobs.save.at \in Nat
          /\ clock \in Nat /\ local \subseteq Updates /\ known
          /\ peer \in [seen : Nat, highest : Nat, pulled : Nat, pushed : Nat]
          /\ UNCHANGED <<server, requests, answered, typedAt, loop, known, connected,
                         remoteClock, events, ghosts>>
      BY <2>2 DEF Saves, Ready, PeerTypeOK, Batch
    <3>2. CASE jobs.save.has = {}
      <4>1. /\ peer' = [peer EXCEPT !.pulled = Higher(peer.pulled, jobs.save.at)]
            /\ jobs' = [jobs EXCEPT !.save = NoBatch]
            /\ UNCHANGED <<local, clock, work>>
        BY <2>2, <3>1, <3>2 DEF Saves, PulledAt
      <4>2. Higher(peer.pulled, jobs.save.at) \in Nat BY <3>1 DEF Higher
      <4>3. /\ work' = [pc |-> "idle", both |-> FALSE, base |-> {}, got |-> {}, at |-> 0,
                        clock |-> 0]
            /\ NoBatch \in Batch
        BY <3>1, <4>1 DEF Idle, NoBatch, Batch
      <4>4. jobs' \in [connect : BOOLEAN, push : Batch, save : Batch] /\ jobs'.push = NoBatch
        BY <3>1, <4>1, <4>3
      <4>5. peer' \in [seen : Nat, highest : Nat, pulled : Nat, pushed : Nat]
            /\ peer'.pushed = peer.pushed
        BY <3>1, <4>1, <4>2
      <4>6. jobs'.connect = jobs.connect BY <3>1, <4>1
      <4>. QED BY <3>1, <4>1, <4>3, <4>4, <4>5, <4>6 DEF NoBatch
    <3>3. CASE jobs.save.has # {}
      <4>1. /\ Plus(jobs.push, clock + 1, {}) \in Batch
            /\ Plus(jobs.push, clock + 1, {}).at = clock + 1
        BY <3>1 DEF Plus, Higher, NoBatch, Batch
      <4>2. /\ jobs' = [jobs EXCEPT !.save = NoBatch, !.push = Plus(jobs.push, clock + 1, {})]
            /\ clock' = clock + 1 /\ local' = local \union jobs.save.has
            /\ work' = [Idle EXCEPT !.pc = "saved", !.at = jobs.save.at]
            /\ peer' = peer
        BY <2>2, <3>1, <3>3 DEF Saves
      <4>3. work' = [pc |-> "saved", both |-> FALSE, base |-> {}, got |-> {},
                     at |-> jobs.save.at, clock |-> 0]
        BY <4>2 DEF Idle
      <4>4. NoBatch \in Batch BY DEF NoBatch, Batch
      <4>5. /\ jobs' \in [connect : BOOLEAN, push : Batch, save : Batch]
            /\ jobs'.push.at = clock + 1 /\ jobs'.connect = jobs.connect
        BY <3>1, <4>1, <4>2, <4>4
      <4>6. work.pc = "idle" /\ jobs.push.has = {} BY <3>1 DEF Idle, NoBatch
      <4>7. /\ work' \in [pc : {"idle", "saved"}, both : BOOLEAN, base : SUBSET Updates,
                          got : SUBSET Updates, at : Nat, clock : Nat]
            /\ work'.pc = "saved" /\ work'.got = {} /\ work'.clock = 0
        BY <3>1, <4>3
      <4>. QED BY <3>1, <4>2, <4>5, <4>6, <4>7
    <3>. QED BY <3>2, <3>3
  <2>. QED BY <2>1, <2>2
<1>4. Stored' = Stored BY <1>1 DEF server, Stored
<1>6. PeerTypeOK' BY <1>1 DEF PeerTypeOK, server, ghosts
<1>7. TypedIsLocal' BY <1>1 DEF TypedIsLocal, Typed, PeerTypeOK
<1>8. ClocksAreTaken' BY <1>1 DEF ClocksAreTaken, PeerTypeOK
<1>9. ConnectsFirst' BY <1>1 DEF ConnectsFirst
<1>10. RequestsAreSound' BY <1>1, <1>4 DEF RequestsAreSound, Pushing
<1>11. ReadIsStored' BY <1>1 DEF ReadIsStored
<1>12. LoadTakesAll' BY <1>1 DEF LoadTakesAll, Loading
<1>13. PushTakesAll' BY <1>1 DEF PushTakesAll
<1>14. NothingIsSkipped'
  BY <1>1, <1>4 DEF NothingIsSkipped, Typed, Loading, Merging, Sent
<1>15. PushedIsStored' BY <1>1, <1>4 DEF PushedIsStored
<1>. QED BY <1>6, <1>7, <1>8, <1>9, <1>10, <1>11, <1>12, <1>13, <1>14, <1>15

\* pullAndPush: once the time is noted, what the server lacks is pushed.
LEMMA LoadNotesInvariant ==
    ASSUME PeerInv, LoadNotes
    PROVE  PeerInv'
<1>. USE DEF PeerInv
<1>. DEFINE diff == work.base \ work.got
            sends == work.both /\ diff # {}
<1>1. /\ work.pc = "notes" /\ work.base \subseteq Updates /\ work.got \subseteq Stored
      /\ work.clock \in Nat /\ work.clock <= clock /\ clock \in Nat
      /\ jobs \in [connect : BOOLEAN, push : Batch, save : Batch]
      /\ peer' = [peer EXCEPT !.pulled = Higher(peer.pulled, work.at)]
      /\ UNCHANGED <<server, answered, store, loop, known, remoteClock, events, ghosts>>
      /\ loop.pc = "runs"
      /\ known /\ ~jobs.connect
      /\ \A r \in requests : r.from # "me"
  BY DEF LoadNotes, PulledAt, PeerTypeOK, ReadIsStored, ClocksAreTaken, Idle, ConnectsFirst,
         RequestsAreSound, Pushing
<1>2. /\ peer' \in [seen : Nat, highest : Nat, pulled : Nat, pushed : Nat]
      /\ peer'.pushed = peer.pushed
  BY <1>1 DEF PeerTypeOK, Higher
<1>3. sends => /\ requests' = requests \union {Request("me", diff)}
               /\ work' = [work EXCEPT !.pc = "pushesDiff"]
               /\ UNCHANGED <<connected, jobs>>
  BY DEF LoadNotes
<1>4. ~sends => /\ work' = Idle
                /\ jobs' = [jobs EXCEPT !.push = Plus(jobs.push, work.clock, {})]
                /\ connected' = TRUE /\ requests' = requests
  BY <1>1 DEF LoadNotes, Schedules
<1>5. sends => /\ work'.pc = "pushesDiff" /\ work'.got = work.got /\ work'.clock = work.clock
               /\ work' \in [pc : {"pushesDiff"}, both : BOOLEAN, base : SUBSET Updates,
                             got : SUBSET Updates, at : Nat, clock : Nat]
  <2>1. work \in [pc : {work.pc}, both : BOOLEAN, base : SUBSET Updates,
                  got : SUBSET Updates, at : Nat, clock : Nat]
    BY DEF PeerTypeOK
  <2>. QED BY <1>3, <2>1
<1>6. /\ jobs' \in [connect : BOOLEAN, push : Batch, save : Batch]
      /\ jobs'.connect = jobs.connect /\ jobs'.push.has = jobs.push.has
      /\ jobs'.push.at <= clock
  <2>1. /\ Plus(jobs.push, work.clock, {}) \in Batch
        /\ Plus(jobs.push, work.clock, {}).has = jobs.push.has
        /\ Plus(jobs.push, work.clock, {}).at <= clock
        /\ jobs.push.at <= clock
    BY <1>1 DEF Plus, Higher, Batch, ClocksAreTaken
  <2>. QED BY <1>1, <1>3, <1>4, <2>1
<1>7. Request("me", diff) \in [has : SUBSET Updates, at : Nat, from : {"me", "gone", "others"},
                               pc : {"sent", "dated", "stored"}]
  BY <1>1 DEF Request
<1>8. Stored' = Stored BY <1>1 DEF server, Stored
<1>9. PeerTypeOK'
  <2>1. work' \in [pc : {"idle", "pushesDiff"}, both : BOOLEAN, base : SUBSET Updates,
                   got : SUBSET Updates, at : Nat, clock : Nat]
    <3>1. CASE sends BY <1>5, <3>1
    <3>2. CASE ~sends BY <1>4, <3>2, IdleWork
    <3>. QED BY <3>1, <3>2
  <2>2. requests' \subseteq [has : SUBSET Updates, at : Nat, from : {"me", "gone", "others"},
                             pc : {"sent", "dated", "stored"}]
    <3>1. CASE sends BY <1>3, <1>7, <3>1 DEF PeerTypeOK
    <3>2. CASE ~sends BY <1>4, <3>2 DEF PeerTypeOK
    <3>. QED BY <3>1, <3>2
  <2>3. connected' \in BOOLEAN BY <1>3, <1>4 DEF PeerTypeOK
  <2>. QED BY <1>1, <1>2, <1>6, <2>1, <2>2, <2>3 DEF PeerTypeOK, server, store, ghosts
<1>10. TypedIsLocal' BY <1>1 DEF TypedIsLocal, Typed, store
<1>11. ClocksAreTaken'
  BY <1>1, <1>2, <1>4, <1>5, <1>6 DEF ClocksAreTaken, store, Idle
<1>12. ConnectsFirst' BY <1>1, <1>6 DEF ConnectsFirst
<1>13. RequestsAreSound'
  <2>1. CASE ~sends BY <1>1, <1>4, <1>8, <2>1 DEF RequestsAreSound
  <2>2. CASE sends
    <3>1. /\ requests' = requests \union {Request("me", diff)} /\ work'.pc = "pushesDiff"
          /\ Request("me", diff).from = "me" /\ Request("me", diff).pc = "sent"
      BY <1>3, <1>5, <2>2 DEF Request
    <3>. QED BY <1>1, <1>8, <3>1 DEF RequestsAreSound, Pushing
  <2>. QED BY <2>1, <2>2
<1>14. ReadIsStored' BY <1>1, <1>4, <1>5, <1>8 DEF ReadIsStored, Idle
<1>15. LoadTakesAll' BY <1>4, <1>5 DEF LoadTakesAll, Loading, Idle
<1>16. PushTakesAll' BY <1>4, <1>5 DEF PushTakesAll, Idle
<1>17. NothingIsSkipped'
  <2>1. \A u \in Mine : Typed(u) => \/ u \in Stored \/ u \in jobs.push.has
                                    \/ work.both /\ u \in work.base
    BY <1>1 DEF NothingIsSkipped, Sent
  <2>2. CASE sends
    <3>2. /\ Request("me", diff) \in requests'
          /\ Request("me", diff).from = "me" /\ Request("me", diff).has = diff
      BY <1>3, <2>2 DEF Request
    <3>1. \A u \in diff : Sent(u)' BY <3>2 DEF Sent
    <3>. QED BY <1>1, <1>6, <1>8, <2>1, <3>1 DEF NothingIsSkipped, Typed, store
  <2>3. CASE ~sends
    BY <1>1, <1>6, <1>8, <2>1, <2>3 DEF NothingIsSkipped, Typed, store
  <2>. QED BY <2>2, <2>3
<1>18. PushedIsStored' BY <1>1, <1>2, <1>8 DEF PushedIsStored, store
<1>. QED BY <1>9, <1>10, <1>11, <1>12, <1>13, <1>14, <1>15, <1>16, <1>17, <1>18

\* push: everything typed up to the time of the batch is in it, or stored.
LEMMA PushesInvariant ==
    ASSUME PeerInv, Pushes
    PROVE  PeerInv'
<1>. USE DEF PeerInv
<1>. DEFINE batch == jobs.push
            q == Request("me", batch.has)
<1>1. /\ loop.pc = "runs" /\ work = Idle /\ work.pc = "idle" /\ connected /\ known
      /\ ~jobs.connect
      /\ batch.at \in Nat /\ batch.has \subseteq Updates /\ batch.at <= clock /\ clock \in Nat
      /\ jobs \in [connect : BOOLEAN, push : Batch, save : Batch]
      /\ jobs' = [jobs EXCEPT !.push = NoBatch]
      /\ NoBatch \in Batch /\ NoBatch.at = 0 /\ NoBatch.has = {}
      /\ UNCHANGED <<server, answered, store, loop, known, connected, remoteClock, events,
                     ghosts>>
      /\ peer \in [seen : Nat, highest : Nat, pulled : Nat, pushed : Nat]
      /\ \A r \in requests : r.from # "me"
  BY DEF Pushes, Ready, PeerTypeOK, Batch, NoBatch, ClocksAreTaken, ConnectsFirst, Idle,
         RequestsAreSound, Pushing
<1>2. batch.has = {} => /\ peer' = [peer EXCEPT !.pushed = Higher(peer.pushed, batch.at)]
                        /\ requests' = requests /\ work' = Idle
  BY <1>1 DEF Pushes, PushedAt
<1>3. batch.has # {} => /\ requests' = requests \union {q}
                        /\ work' = [Idle EXCEPT !.pc = "pushes", !.clock = batch.at]
                        /\ peer' = peer
  BY <1>1 DEF Pushes
<1>4. /\ q \in [has : SUBSET Updates, at : Nat, from : {"me", "gone", "others"},
                pc : {"sent", "dated", "stored"}]
      /\ q.from = "me" /\ q.has = batch.has /\ q.pc = "sent"
  BY <1>1 DEF Request
<1>5. /\ work' \in [pc : {"idle", "pushes"}, both : BOOLEAN, base : SUBSET Updates,
                    got : SUBSET Updates, at : Nat, clock : Nat]
      /\ work'.got = {}
      /\ batch.has = {} => work'.pc = "idle" /\ work'.clock = 0
      /\ batch.has # {} => work'.pc = "pushes" /\ work'.clock = batch.at
  <2>1. CASE batch.has = {} BY <1>2, <2>1, IdleWork
  <2>2. CASE batch.has # {}
    <3>1. work' = [pc |-> "pushes", both |-> FALSE, base |-> {}, got |-> {}, at |-> 0,
                   clock |-> batch.at]
      BY <1>3, <2>2 DEF Idle
    <3>. QED BY <1>1, <2>2, <3>1
  <2>. QED BY <2>1, <2>2
<1>6. /\ jobs' \in [connect : BOOLEAN, push : Batch, save : Batch]
      /\ jobs'.connect = FALSE /\ jobs'.push = NoBatch
  BY <1>1
<1>7. /\ peer' \in [seen : Nat, highest : Nat, pulled : Nat, pushed : Nat]
      /\ peer'.pushed <= clock
      /\ batch.has # {} => peer'.pushed = peer.pushed
  BY <1>1, <1>2, <1>3 DEF Higher, ClocksAreTaken
<1>8. \A u \in Mine : Typed(u) => u \in Stored \/ u \in batch.has
  BY <1>1 DEF NothingIsSkipped, Sent, Loading, Merging
<1>9. Stored' = Stored BY <1>1 DEF server, Stored
<1>10. batch.has # {} => \A u \in batch.has : Sent(u)' BY <1>3, <1>4 DEF Sent
<1>11. PeerTypeOK'
  <2>1. requests' \subseteq [has : SUBSET Updates, at : Nat, from : {"me", "gone", "others"},
                             pc : {"sent", "dated", "stored"}]
    BY <1>2, <1>3, <1>4 DEF PeerTypeOK
  <2>. QED BY <1>1, <1>5, <1>6, <1>7, <2>1 DEF PeerTypeOK, server, store, ghosts
<1>12. TypedIsLocal' BY <1>1 DEF TypedIsLocal, Typed, store
<1>13. ClocksAreTaken' BY <1>1, <1>5, <1>6, <1>7 DEF ClocksAreTaken, store
<1>14. ConnectsFirst' BY <1>1, <1>6 DEF ConnectsFirst
<1>15. RequestsAreSound'
  BY <1>1, <1>2, <1>3, <1>4, <1>5, <1>9 DEF RequestsAreSound, Pushing
<1>16. ReadIsStored' BY <1>5 DEF ReadIsStored
<1>17. LoadTakesAll' BY <1>5 DEF LoadTakesAll, Loading
<1>18. PushTakesAll' BY <1>1, <1>5, <1>8, <1>9, <1>10 DEF PushTakesAll, Typed, store
<1>19. NothingIsSkipped' BY <1>1, <1>8, <1>9, <1>10 DEF NothingIsSkipped, Typed, store
<1>20. PushedIsStored'
  BY <1>1, <1>7, <1>8, <1>9 DEF PushedIsStored, Typed, store
<1>. QED BY <1>11, <1>12, <1>13, <1>14, <1>15, <1>16, <1>17, <1>18, <1>19, <1>20

\* The answer to the one push that is waited for: it is stored, and with it everything
\* that is noted as pushed.
LEMMA AnswersInvariant ==
    ASSUME PeerInv, NEW r \in requests, Answers(r)
    PROVE  PeerInv'
<1>. USE DEF PeerInv
<1>1. /\ r.from = "me" /\ r.pc = "stored" /\ r.has \subseteq Stored /\ r.at \in Nat
      /\ requests' = requests \ {r}
      /\ Pushing /\ work # Idle /\ known /\ ~jobs.connect /\ loop.pc = "runs"
      /\ work.clock \in Nat /\ work.clock <= clock /\ clock \in Nat
      /\ work' = Idle /\ connected' = TRUE
      /\ jobs \in [connect : BOOLEAN, push : Batch, save : Batch]
      /\ peer \in [seen : Nat, highest : Nat, pulled : Nat, pushed : Nat]
      /\ UNCHANGED <<server, answered, store, loop, known, remoteClock, events, ghosts>>
      /\ \A s \in requests : s.from = "me" => s = r
  BY DEF Answers, Schedules, RequestsAreSound, ConnectsFirst, ClocksAreTaken, PeerTypeOK, Pushing,
         Idle
<1>2. \A u \in Mine : Sent(u) => u \in Stored BY <1>1 DEF Sent
<1>3. /\ jobs' \in [connect : BOOLEAN, push : Batch, save : Batch]
      /\ jobs'.connect = FALSE /\ jobs'.push.has = jobs.push.has /\ jobs'.push.at <= clock
  <2>. DEFINE saved == [jobs EXCEPT !.save = Plus(jobs.save, r.at, {})]
  <2>1. /\ Plus(jobs.save, r.at, {}) \in Batch
        /\ Plus(jobs.push, work.clock, {}) \in Batch
        /\ Plus(jobs.push, work.clock, {}).has = jobs.push.has
        /\ Plus(jobs.push, work.clock, {}).at <= clock
        /\ jobs.push.at <= clock
    BY <1>1 DEF Plus, Higher, Batch, ClocksAreTaken
  <2>2. /\ saved \in [connect : BOOLEAN, push : Batch, save : Batch]
        /\ saved.connect = jobs.connect /\ saved.push = jobs.push
    BY <1>1, <2>1
  <2>3. \/ jobs' = saved
        \/ jobs' = [saved EXCEPT !.push = Plus(jobs.push, work.clock, {})]
    BY <2>2 DEF Answers, Schedules
  <2>. HIDE DEF saved
  <2>. QED BY <1>1, <2>1, <2>2, <2>3
<1>4. /\ peer' \in [seen : Nat, highest : Nat, pulled : Nat, pushed : Nat]
      /\ peer'.pushed <= clock
      /\ \/ peer'.pushed = peer.pushed
         \/ work.pc # "pushesDiff" /\ peer'.pushed = Higher(peer.pushed, work.clock)
  BY <1>1 DEF Answers, PushedAt, Higher, ClocksAreTaken
<1>5. Stored' = Stored BY <1>1 DEF server, Stored
<1>6. PeerTypeOK'
  <2>1. work' \in [pc : {"idle"}, both : BOOLEAN, base : SUBSET Updates,
                   got : SUBSET Updates, at : Nat, clock : Nat]
    BY <1>1 DEF Idle
  <2>. QED BY <1>1, <1>3, <1>4, <2>1 DEF PeerTypeOK, server, store, ghosts
<1>7. TypedIsLocal' BY <1>1 DEF TypedIsLocal, Typed, store
<1>8. ClocksAreTaken' BY <1>1, <1>3, <1>4 DEF ClocksAreTaken, store, Idle
<1>9. ConnectsFirst' BY <1>1, <1>3 DEF ConnectsFirst
<1>10. RequestsAreSound' BY <1>1, <1>5 DEF RequestsAreSound
<1>11. ReadIsStored' BY <1>1 DEF ReadIsStored, Idle
<1>12. LoadTakesAll' BY <1>1 DEF LoadTakesAll, Loading, Idle
<1>13. PushTakesAll' BY <1>1 DEF PushTakesAll, Idle
<1>14. NothingIsSkipped'
  BY <1>1, <1>2, <1>3, <1>5 DEF NothingIsSkipped, Typed, store, Loading, Merging, Pushing
<1>15. PushedIsStored'
  BY <1>1, <1>2, <1>4, <1>5 DEF PushedIsStored, PushTakesAll, Typed, Pushing, store, Higher
<1>. QED BY <1>6, <1>7, <1>8, <1>9, <1>10, <1>11, <1>12, <1>13, <1>14, <1>15

\* loadDoc was answered as if the document were not there.
LEMMA LoadFailsInvariant ==
    ASSUME PeerInv, LoadFails
    PROVE  PeerInv'
<1>. USE DEF PeerInv
<1>. DEFINE q == Request("me", work.base)
            sends == work.both /\ work.base # {}
            pushed == [jobs EXCEPT !.push = Plus(jobs.push, work.clock, {})]
<1>1. /\ Loading /\ work # Idle /\ known /\ ~jobs.connect /\ loop.pc = "runs"
      /\ work.base \subseteq Updates /\ work.clock \in Nat /\ work.clock <= clock
      /\ clock \in Nat
      /\ jobs \in [connect : BOOLEAN, push : Batch, save : Batch]
      /\ peer \in [seen : Nat, highest : Nat, pulled : Nat, pushed : Nat]
      /\ UNCHANGED <<server, answered, store, loop, known, remoteClock, cut>>
      /\ unanswered' = TRUE /\ events' \in 0..MaxEvents
      /\ \A r \in requests : r.from # "me"
  BY PeerBounds DEF LoadFails, Happens, Loading, Idle, PeerTypeOK, ConnectsFirst, ClocksAreTaken,
     RequestsAreSound, Pushing
<1>2. sends => /\ requests' = requests \union {q}
               /\ work' = [work EXCEPT !.pc = "pushesAll"]
               /\ UNCHANGED <<peer, connected, jobs>>
  BY DEF LoadFails
<1>3. ~sends => /\ requests' = requests /\ connected' = TRUE /\ work' = Idle
                /\ \/ jobs' = jobs /\ peer' = peer /\ ~work.both
                   \/ /\ jobs' = pushed /\ work.base = {} /\ work.both
                      /\ peer' = [peer EXCEPT !.pushed = Higher(peer.pushed, work.clock)]
  BY DEF LoadFails, Schedules, PushedAt
<1>4. /\ q \in [has : SUBSET Updates, at : Nat, from : {"me", "gone", "others"},
                pc : {"sent", "dated", "stored"}]
      /\ q.from = "me" /\ q.has = work.base /\ q.pc = "sent"
  BY <1>1 DEF Request
<1>5. /\ work' \in [pc : {"idle", "pushesAll"}, both : BOOLEAN, base : SUBSET Updates,
                    got : SUBSET Updates, at : Nat, clock : Nat]
      /\ work'.got \subseteq Stored
      /\ sends => work'.pc = "pushesAll" /\ work'.clock = work.clock
      /\ ~sends => work'.pc = "idle" /\ work'.clock = 0
  <2>1. CASE sends
    <3>1. work \in [pc : {work.pc}, both : BOOLEAN, base : SUBSET Updates,
                    got : SUBSET Updates, at : Nat, clock : Nat]
      BY DEF PeerTypeOK
    <3>2. work' = [pc |-> "pushesAll", both |-> work.both, base |-> work.base,
                   got |-> work.got, at |-> work.at, clock |-> work.clock]
      BY <1>2, <2>1, <3>1
    <3>. QED BY <2>1, <3>1, <3>2 DEF ReadIsStored
  <2>2. CASE ~sends BY <1>3, <2>2, IdleWork
  <2>. QED BY <2>1, <2>2
<1>6. /\ jobs' \in [connect : BOOLEAN, push : Batch, save : Batch]
      /\ jobs'.connect = FALSE /\ jobs'.push.has = jobs.push.has /\ jobs'.push.at <= clock
  <2>1. /\ Plus(jobs.push, work.clock, {}) \in Batch
        /\ Plus(jobs.push, work.clock, {}).has = jobs.push.has
        /\ Plus(jobs.push, work.clock, {}).at <= clock
        /\ jobs.push.at <= clock
    BY <1>1 DEF Plus, Higher, Batch, ClocksAreTaken
  <2>2. jobs' = jobs \/ jobs' = pushed BY <1>2, <1>3
  <2>3. CASE jobs' = jobs BY <1>1, <2>1, <2>3
  <2>4. CASE jobs' = pushed BY <1>1, <2>1, <2>4
  <2>. QED BY <2>2, <2>3, <2>4
<1>7. /\ peer' \in [seen : Nat, highest : Nat, pulled : Nat, pushed : Nat]
      /\ peer'.pushed <= clock
      /\ \/ peer' = peer
         \/ work.base = {} /\ work.both /\ peer'.pushed = Higher(peer.pushed, work.clock)
  BY <1>1, <1>2, <1>3 DEF Higher, ClocksAreTaken
<1>8. Stored' = Stored BY <1>1 DEF server, Stored
<1>9. sends => \A u \in work.base : Sent(u)' BY <1>2, <1>4 DEF Sent
<1>10. \A u \in Mine : Typed(u) => \/ u \in Stored \/ u \in jobs.push.has
                                   \/ work.both /\ u \in work.base
  BY <1>1 DEF NothingIsSkipped, Sent
<1>11. PeerTypeOK'
  <2>1. requests' \subseteq [has : SUBSET Updates, at : Nat, from : {"me", "gone", "others"},
                             pc : {"sent", "dated", "stored"}]
    <3>1. CASE sends BY <1>2, <1>4, <3>1 DEF PeerTypeOK
    <3>2. CASE ~sends BY <1>3, <3>2 DEF PeerTypeOK
    <3>. QED BY <3>1, <3>2
  <2>2. connected' \in BOOLEAN BY <1>2, <1>3 DEF PeerTypeOK
  <2>. QED BY <1>1, <1>5, <1>6, <1>7, <2>1, <2>2 DEF PeerTypeOK, server, store
<1>12. TypedIsLocal' BY <1>1 DEF TypedIsLocal, Typed, store
<1>13. ClocksAreTaken' BY <1>1, <1>5, <1>6, <1>7 DEF ClocksAreTaken, store
<1>14. ConnectsFirst' BY <1>1, <1>6 DEF ConnectsFirst
<1>15. RequestsAreSound'
  BY <1>1, <1>2, <1>3, <1>4, <1>5, <1>8 DEF RequestsAreSound, Pushing
<1>16. ReadIsStored' BY <1>5, <1>8 DEF ReadIsStored
<1>17. LoadTakesAll' BY <1>5 DEF LoadTakesAll, Loading
<1>18. PushTakesAll'
  BY <1>1, <1>5, <1>8, <1>9 DEF PushTakesAll, LoadTakesAll, Typed, store
<1>19. NothingIsSkipped'
  BY <1>1, <1>6, <1>8, <1>9, <1>10 DEF NothingIsSkipped, Typed, store
<1>20. PushedIsStored'
  BY <1>1, <1>7, <1>8 DEF PushedIsStored, LoadTakesAll, Typed, store, Higher
<1>. QED BY <1>11, <1>12, <1>13, <1>14, <1>15, <1>16, <1>17, <1>18, <1>19, <1>20

-----------------------------------------------------------------------------
(* The theorem. *)

LEMMA PeerBegins == PeerInit => PeerInv
<1>. SUFFICES ASSUME PeerInit PROVE PeerInv OBVIOUS
<1>1. PeerTypeOK
  <2>1. NoBatch \in Batch BY DEF NoBatch, Batch
  <2>2. /\ jobs \in [connect : BOOLEAN, push : Batch, save : Batch]
        /\ loop \in [pc : {"off"}, answer : Nat, highest : Nat]
        /\ loop.pc = "off"
    BY <2>1 DEF PeerInit, NoJobs, Off
  <2>3. work \in [pc : {"idle"}, both : BOOLEAN, base : SUBSET Updates, got : SUBSET Updates,
                  at : Nat, clock : Nat]
    BY IdleWork DEF PeerInit
  <2>4. /\ snapshot \in Batch /\ rows \subseteq Updates /\ stamp \in [Updates -> Nat]
        /\ requests = {} /\ answered \subseteq Theirs /\ local \subseteq Updates
        /\ typedAt \in [Mine -> Nat]
        /\ peer \in [seen : Nat, highest : Nat, pulled : Nat, pushed : Nat]
    BY <2>1 DEF PeerInit
  <2>5. {now, elsewhere, clock, remoteClock} \subseteq Nat BY DEF PeerInit
  <2>6. {known, connected, cut, unanswered} \subseteq BOOLEAN BY DEF PeerInit
  <2>7. events \in 0..MaxEvents BY PeerBounds DEF PeerInit
  <2>8. ~connected /\ work = Idle /\ jobs = NoJobs BY DEF PeerInit
  <2>. QED BY <2>2, <2>3, <2>4, <2>5, <2>6, <2>7, <2>8 DEF PeerTypeOK
<1>2. TypedIsLocal BY DEF PeerInit, TypedIsLocal, Typed
<1>3. ClocksAreTaken BY DEF PeerInit, ClocksAreTaken, NoJobs, NoBatch, Idle
<1>4. ConnectsFirst BY DEF PeerInit, ConnectsFirst
<1>5. RequestsAreSound BY DEF PeerInit, RequestsAreSound
<1>6. ReadIsStored BY DEF PeerInit, ReadIsStored, Idle
<1>7. LoadTakesAll BY DEF PeerInit, LoadTakesAll, Loading, Idle
<1>8. PushTakesAll BY DEF PeerInit, PushTakesAll, Idle
<1>9. NothingIsSkipped BY DEF PeerInit, NothingIsSkipped, Off
<1>10. PushedIsStored BY DEF PeerInit, PushedIsStored
<1>. QED BY <1>1, <1>2, <1>3, <1>4, <1>5, <1>6, <1>7, <1>8, <1>9, <1>10 DEF PeerInv

LEMMA PeerStutters ==
    ASSUME PeerInv, UNCHANGED peerVars
    PROVE  PeerInv'
BY DEF PeerInv, peerVars, server, store, status, ghosts, PeerTypeOK, TypedIsLocal, Typed,
       ClocksAreTaken,
       ConnectsFirst, RequestsAreSound, Pushing, ReadIsStored, LoadTakesAll, Loading,
       PushTakesAll, Sent, NothingIsSkipped, Merging, PushedIsStored, Stored

LEMMA PeerGoesOn == PeerInv /\ [PeerNext]_peerVars => PeerInv'
<1>. SUFFICES ASSUME PeerInv, [PeerNext]_peerVars PROVE PeerInv' OBVIOUS
<1>1. CASE \E r \in requests : ServerStep(r) \/ Rebuilds(r) \/ PushFails(r)
  BY <1>1, DatesInvariant, CommitsInvariant, BroadcastsInvariant, AnswersInvariant,
     RebuildsInvariant, PushFailsInvariant
  DEF ServerStep
<1>2. CASE OtherDocumentMoves \/ \E u \in Theirs : OthersPush(u) BY <1>2, OthersInvariant
<1>3. CASE \E u \in Mine : LocalEdit(u) BY <1>3, LocalEditInvariant
<1>4. CASE PeerStep
  BY <1>4, SubscribesInvariant, LoopInvariant, ConnectsInvariant, LoadReadsInvariant,
     LoadMergesInvariant, LoadNotesInvariant, PushesInvariant, SavesInvariant
  DEF PeerStep
<1>5. CASE LoadFails BY <1>5, LoadFailsInvariant
<1>6. CASE PeerDisconnects \/ Crashes BY <1>6, ForgetsInvariant
<1>7. CASE UNCHANGED peerVars BY <1>7, PeerStutters
<1>. QED BY <1>1, <1>2, <1>3, <1>4, <1>5, <1>6, <1>7 DEF PeerNext

\* What this browser has noted as pushed is stored at the server, whatever breaks between a
\* push and its note, and whoever pushes and rebuilds beside it (peer.ts).
THEOREM NotesAreTrue == PeerSpec => []NotesAreSound
<1>1. PeerInv => NotesAreSound BY DEF PeerInv, NotesAreSound
<1>. QED BY <1>1, PeerBegins, PeerGoesOn, PTL DEF PeerSpec
==============================================================================
