------------------------------ MODULE Discovery ------------------------------
(***************************************************************************)
(* The list of a workspace's pages: the revision the server raises after   *)
(* every change, the notice that it moved, and a tab that reads the list   *)
(* and caches it (backend, modules/discovery and the notice of             *)
(* sync.gateway; frontend, modules/discovery and watchServerDocs of        *)
(* modules/doc).  The cache is shared with the other tabs of the browser.  *)
(* They are loads whose result this tab does not wait for, and so are the  *)
(* loads it has given up: switchMap drops the result, not the work.        *)
(*                                                                         *)
(* A list is the set of the changes it shows.  Changes of doc_meta and     *)
(* changes of who may read what are read by two queries.  Revisions are    *)
(* numbered from 1; 0 stands for no list.                                  *)
(***************************************************************************)
EXTENDS Naturals, Sequences, FiniteSets

CONSTANTS
    Edits,          \* changes of doc_meta
    Grants,         \* changes of roles
    Removals,       \* changes that take the user out of the workspace
    MaxTriggers,    \* bound: loads no notice asked for
    MaxLoads,       \* bound: loads at work at a time
    MaxFaults       \* bound: failures, restarts, broken sockets

ASSUME DiscoveryBounds ==
    /\ Edits \intersect Grants = {}
    /\ (Edits \union Grants) \intersect Removals = {}
    /\ IsFiniteSet(Edits \union Grants \union Removals)
    /\ MaxTriggers \in Nat /\ MaxLoads \in Nat /\ MaxFaults \in Nat

VARIABLES
    made,           \* the changes in the tables
    revision,       \* workspace.discoveryRevision
    writer,         \* writer[w]: how far the request is that makes change w
    joined,         \* whether the tab's socket is in the workspace's room
    noticed,        \* whether a notice is behind debounceTime
    loads,          \* loads at work: records with a program counter
    cache,          \* the list stored in the browser
    shown,          \* the list on the tab's screen
    triggers,
    faults,
    due,            \* ghost: due[r] is what was in the tables when revision r was made
    behind          \* ghost: the tab's last load got no answer, or a notice went past the
                    \* tab since it began

tables == <<made, revision, due>>
browser == <<noticed, loads, cache, shown, triggers, behind>>
vars == <<tables, writer, joined, browser, faults>>

Changes == Edits \union Grants \union Removals
NoList == [rev |-> 0, has |-> {}]
Lists == [rev : 0..(Cardinality(Changes) + 1), has : SUBSET Changes]
Loads ==
    [own : BOOLEAN, old : BOOLEAN, cached : Lists, list : Lists,
     pc : {"asks", "requests", "lists", "filters", "stores"}]

TypeOK ==
    /\ made \subseteq Changes
    /\ revision \in Nat \ {0}
    /\ writer \in [Changes -> {"idle", "written", "raised", "done"}]
    /\ {joined, noticed, behind} \subseteq BOOLEAN
    /\ loads \subseteq Loads
    /\ cache \in Lists
    /\ shown \in Lists
    /\ triggers \in 0..MaxTriggers /\ faults \in 0..MaxFaults
    /\ due \in Seq(SUBSET Changes) /\ Len(due) = revision
    /\ {cache.rev, shown.rev} \subseteq 0..revision

Init ==
    /\ made = {}
    /\ revision = 1
    /\ writer = [w \in Changes |-> "idle"]
    /\ joined = FALSE
    /\ noticed = FALSE
    /\ loads = {}
    /\ cache = NoList
    /\ shown = NoList
    /\ triggers = 0
    /\ faults = 0
    /\ due = <<{}>>
    /\ behind = TRUE

-----------------------------------------------------------------------------
(* The server: a change, then the revision, then the notice. *)

\* The statement or transaction of createDoc, changeTags, setTrash, purge, grantMember...
Writes(w) ==
    /\ writer[w] = "idle"
    /\ writer' = [writer EXCEPT ![w] = "written"]
    /\ made' = made \union {w}
    /\ UNCHANGED <<revision, due, joined, browser, faults>>

\* bump: one increment in the database.  What is loading now began before it.
Raises(w) ==
    /\ writer[w] = "written"
    /\ revision' = revision + 1
    /\ due' = Append(due, made)
    /\ writer' = [writer EXCEPT ![w] = "raised"]
    /\ loads' = {[l EXCEPT !.old = TRUE] : l \in loads}
    /\ UNCHANGED <<made, joined, noticed, cache, shown, triggers, behind, faults>>

\* bump fails: a warning, no notice; the next change carries this one along.
RaiseFails(w) ==
    /\ writer[w] = "written"
    /\ faults < MaxFaults
    /\ faults' = faults + 1
    /\ writer' = [writer EXCEPT ![w] = "done"]
    /\ UNCHANGED <<tables, joined, browser>>

\* notifyChanged, broadcastDiscoveryChanged: to everybody in the room at this moment.
Notifies(w) ==
    /\ writer[w] = "raised"
    /\ writer' = [writer EXCEPT ![w] = "done"]
    /\ noticed' = (noticed \/ joined)
    /\ behind' = (behind \/ ~joined)
    /\ UNCHANGED <<tables, joined, loads, cache, shown, triggers, faults>>

\* Loads whose request is not answered yet.
AtServer == {l \in loads : l.pc # "stores"}

\* use-offline-cache: without a revision an old list is better than none.  With one, a
\* list known to be old is not: the load throws, catchError shows nothing.
Fallback(l) == IF l.pc = "asks" THEN l.cached ELSE NoList

\* These loads are over without an answer.
Break(broken) ==
    LET wanted == {l \in broken : l.own} IN
    /\ loads' = loads \ broken
    /\ shown' = IF wanted = {} THEN shown ELSE Fallback(CHOOSE l \in wanted : TRUE)

\* The process stops: requests go no further, the socket breaks.
Restart ==
    LET unheard == \E w \in Changes : writer[w] = "raised" IN
    /\ faults < MaxFaults
    /\ faults' = faults + 1
    /\ writer' = [w \in Changes |-> IF writer[w] = "idle" THEN "idle" ELSE "done"]
    /\ joined' = FALSE
    /\ Break(AtServer)
    /\ behind' = (behind \/ unheard \/ \E l \in AtServer : l.own)
    /\ UNCHANGED <<tables, noticed, cache, triggers>>

\* space:join of a socket that was opened or opened again.
Joins ==
    /\ ~joined
    /\ joined' = TRUE
    /\ UNCHANGED <<tables, writer, browser, faults>>

\* handleDisconnect.
Disconnects ==
    /\ joined
    /\ faults < MaxFaults
    /\ faults' = faults + 1
    /\ joined' = FALSE
    /\ UNCHANGED <<tables, writer, browser>>

-----------------------------------------------------------------------------
(* DiscoveryService.load, run by watchServerDocs. *)

\* A load that begins, this tab's or another's.
NewLoad(own) == [own |-> own, old |-> FALSE, cached |-> cache, list |-> NoList, pc |-> "asks"]

\* switchMap turns to the new load.
Begins ==
    /\ Cardinality(loads) < MaxLoads
    /\ loads' = {[l EXCEPT !.own = FALSE] : l \in loads} \union {NewLoad(TRUE)}
    /\ behind' = FALSE

\* The first load, watchPendingRetry, watchOnline.
Triggers ==
    /\ triggers < MaxTriggers
    /\ triggers' = triggers + 1
    /\ Begins
    /\ UNCHANGED <<tables, writer, joined, noticed, cache, shown, faults>>

\* debounceTime has let the notice through.
Reloads ==
    /\ noticed
    /\ noticed' = FALSE
    /\ Begins
    /\ UNCHANGED <<tables, writer, joined, cache, shown, triggers, faults>>

\* Another tab loads, for whatever reason.
OtherTabLoads ==
    /\ triggers < MaxTriggers
    /\ triggers' = triggers + 1
    /\ Cardinality(loads) < MaxLoads
    /\ loads' = loads \union {NewLoad(FALSE)}
    /\ UNCHANGED <<tables, writer, joined, noticed, cache, shown, behind, faults>>

Member == Removals \intersect made = {}

\* The load goes on.
Moves(l, next) ==
    /\ loads' = (loads \ {l}) \union {next}
    /\ UNCHANGED <<tables, writer, joined, noticed, cache, shown, triggers, behind,
                   faults>>

\* The load is over; the tab shows what it gave, if it waited for it.
Ends(l, list) ==
    /\ loads' = loads \ {l}
    /\ shown' = IF l.own THEN list ELSE shown

\* Mutant of Matches: a cache that is there is good enough.
MatchesAny(l) == l.cached # NoList

\* decideDiscoverySource: not because it is recent but because it is the server's.
Matches(l) == l.cached # NoList /\ l.cached.rev = revision

\* discoveryRevision, and what the client makes of the answer.
UsesCache(l) ==
    /\ l.pc = "asks"
    /\ Member
    /\ Matches(l)
    /\ Ends(l, l.cached)
    /\ UNCHANGED <<tables, writer, joined, noticed, cache, triggers, behind, faults>>

Requests(l) ==
    /\ l.pc = "asks"
    /\ Member
    /\ ~Matches(l)
    /\ Moves(l, [l EXCEPT !.pc = "requests", !.cached = NoList])

\* Mutant of ClearsCache: the rejected list stays in the cache.
ClearsNothing == cache' = cache

ClearsCache == cache' = NoList

\* Who is no member is rejected, by either query: the cache is cleared, the load throws,
\* catchError shows nothing.
IsRejected(l) ==
    /\ l.pc \in {"asks", "requests"}
    /\ ~Member
    /\ ClearsCache
    /\ Ends(l, NoList)
    /\ UNCHANGED <<tables, writer, joined, noticed, triggers, behind, faults>>

\* Mutant of SnapshotDates: the revision the change under way is going to make.
SnapshotDatesAhead(l) ==
    /\ l.pc = "requests"
    /\ Member
    /\ Moves(l, [l EXCEPT !.pc = "lists", !.list.rev = revision + 1])

\* discoverySnapshot: the revision comes first.
SnapshotDates(l) ==
    /\ l.pc = "requests"
    /\ Member
    /\ Moves(l, [l EXCEPT !.pc = "lists", !.list.rev = revision])

\* docMeta.findMany.
SnapshotLists(l) ==
    /\ l.pc = "lists"
    /\ Moves(l, [l EXCEPT !.pc = "filters", !.list.has = made \intersect Edits])

\* Mutant of SnapshotFilters: the revision is read when the list is complete.
SnapshotFiltersDates(l) ==
    /\ l.pc = "filters"
    /\ Moves(l, [l EXCEPT !.pc = "stores", !.list.rev = revision,
                          !.list.has = @ \union (made \ Edits)])

\* filterReadable.
SnapshotFilters(l) ==
    /\ l.pc = "filters"
    /\ Moves(l, [l EXCEPT !.pc = "stores", !.list.has = @ \union (made \ Edits)])

\* cache.set, then the list is returned.
Stores(l) ==
    /\ l.pc = "stores"
    /\ cache' = l.list
    /\ Ends(l, l.list)
    /\ UNCHANGED <<tables, writer, joined, noticed, triggers, behind, faults>>

\* A request is lost, or answered with anything but a rejection.
LoadBreaks(l) ==
    /\ l \in AtServer
    /\ faults < MaxFaults
    /\ faults' = faults + 1
    /\ Break({l})
    /\ behind' = (behind \/ l.own)
    /\ UNCHANGED <<tables, writer, joined, noticed, cache, triggers>>

\* watch(cache): while a list is shown, whatever is stored replaces it, by any tab.
WatchEmits ==
    /\ \A l \in loads : ~l.own
    /\ NoList \notin {shown, cache}
    /\ shown # cache
    /\ shown' = cache
    /\ UNCHANGED <<tables, writer, joined, noticed, loads, cache, triggers, behind, faults>>

-----------------------------------------------------------------------------
WriterStep(w) == Writes(w) \/ Raises(w) \/ RaiseFails(w) \/ Notifies(w)

LoadStep(l) ==
    \/ UsesCache(l) \/ Requests(l) \/ IsRejected(l)
    \/ SnapshotDates(l) \/ SnapshotLists(l) \/ SnapshotFilters(l)
    \/ Stores(l)

Next ==
    \/ \E w \in Changes : WriterStep(w)
    \/ Restart \/ Joins \/ Disconnects
    \/ Triggers \/ Reloads \/ OtherTabLoads \/ WatchEmits
    \/ \E l \in loads : LoadStep(l) \/ LoadBreaks(l)

\* Queries settle, noticed pass the debounce, a stored list reaches the tab, a socket is
\* opened again.  Nobody has to make a change.
Fairness ==
    /\ \A w \in Changes : WF_vars(Raises(w)) /\ WF_vars(Notifies(w))
    /\ WF_vars(Reloads) /\ WF_vars(WatchEmits) /\ WF_vars(Joins)
    /\ WF_vars(\E l \in loads : LoadStep(l))

Spec == Init /\ [][Next]_vars /\ Fairness

-----------------------------------------------------------------------------
(* Properties. *)

\* A list shows every change that was stored when its revision was made, whatever was
\* written while it was read and whichever bump failed before (discovery.service.ts:35):
\* so a list whose revision is the server's hides nothing that was announced.
ListIsHonest ==
    \A list \in {cache, shown} : list.rev # 0 => due[list.rev] \subseteq list.has

\* No load that began before the latest bump is at work beside one that began after.
NoOverlap == \A l, m \in loads : l.old => m.old

Announced == due[revision]

\* The tab shows what was announced, or nothing to one who was taken out.
ShowsAnnounced ==
    IF shown = NoList THEN ~Member
    ELSE Announced \subseteq shown.has /\ Removals \intersect Announced = {}

\* A tab that heard the last notice, or has loaded since, ends with what it announced,
\* whatever the other tabs do to the cache they share; if loads do not overlap.
ListConverges == []NoOverlap => <>[](behind \/ ShowsAnnounced)

\* Once a removal is announced and the tab was turned away, the list is gone from the
\* browser for good, and no tab that goes offline finds it (discovery.ts:91, 101).
RejectedListIsGone ==
    []NoOverlap => <>[](Removals \intersect Announced # {} /\ ~behind => cache = NoList)
==============================================================================
