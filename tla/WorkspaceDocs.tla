--------------------------- MODULE WorkspaceDocs -----------------------------
(***************************************************************************)
(* The documents a workspace keeps for itself, the root document (its      *)
(* index of pages, tags and settings) and the folders, beside one of its   *)
(* pages, under the writers that replace a whole document at once:         *)
(* InternalDocController.upsertDoc, the REST endpoint that posts a page    *)
(* and enters it in the other two, and IndexPurgeService, the script that  *)
(* takes titles out of the root document.  Clients push to all three       *)
(* meanwhile.                                                              *)
(*                                                                         *)
(* A document is a snapshot and a log of rows, as in DocStore, and what it *)
(* holds is a set of items: the updates clients pushed, and the entry a    *)
(* posted page gets (the request stands for it).  The text posted is no    *)
(* item.  New here: a row takes its id when it is inserted and is seen     *)
(* only when its transaction commits, which is later.                      *)
(*                                                                         *)
(* upsertDoc's ledger row, which nothing here reads, and its last bump of  *)
(* the list's revision are left out.                                       *)
(* A posted page belongs to a folder: a prefix of its identifier says so.  *)
(***************************************************************************)
EXTENDS Naturals, FiniteSets

CONSTANTS
    PageUpdates, RootUpdates, FolderUpdates,    \* what clients push, by document
    Entries,        \* the root updates that put a page's title into the index
    Kept,           \* the entries the ledger does not vouch for
    Upserters,      \* concurrent requests of the endpoint, one page each
    Threshold,      \* SNAPSHOT_THRESHOLD (50 in the code)
    MaxCleanings,   \* bound: runs of the script
    MaxRequests     \* bound: requests that come in one behaviour

ASSUME EntriesAssumption == Entries \subseteq RootUpdates /\ Kept \subseteq Entries \union Upserters
ASSUME UpdatesAssumption ==
    /\ PageUpdates \intersect RootUpdates = {}
    /\ PageUpdates \intersect FolderUpdates = {}
    /\ RootUpdates \intersect FolderUpdates = {}
    /\ Upserters \intersect (PageUpdates \union RootUpdates \union FolderUpdates) = {}
    /\ IsFiniteSet(RootUpdates)
ASSUME BoundsAssumption == Threshold \in Nat \ {0} /\ MaxCleanings \in Nat /\ MaxRequests \in Nat

Docs == {"page", "root", "folders"}

Updates == PageUpdates \union RootUpdates \union FolderUpdates

Items == Updates \union Upserters

DocOf(u) == CASE u \in PageUpdates -> "page"
              [] u \in RootUpdates -> "root"
              [] u \in FolderUpdates -> "folders"

VARIABLES
    snapshot,       \* snapshot[d]: [version, items], version 0 when there is none
    rows,           \* rows[d]: the updates with a committed row
    rowId,          \* rowId[u]: doc_updates.id of a root update, 0 before the insert
    push,           \* push[u]: the request that carries u
    upsert,         \* upsert[x]: the request that posts page x
    cleaner,        \* the run of the script
    cleanings,      \* runs of the script so far
    cleaned,        \* ghost: the entries a run has removed
    before,         \* ghost: before[x], what the documents held when x began
    excused         \* ghost: what the races named below may have lost or brought back

vars == <<snapshot, rows, rowId, push, upsert, cleaner, cleanings, cleaned,
          before, excused>>

ghosts == <<cleaned, before, excused>>

-----------------------------------------------------------------------------
(* Values *)

NoSnapshot == [version |-> 0, items |-> {}]

Snapshots == [version : Nat, items : SUBSET Items]

\* What a reader of both tables at one instant would merge.
Body(d) == snapshot[d].items \union rows[d]

Push(pc, base, got) == [pc |-> pc, base |-> base, got |-> got]

\* A snapshot's version is the time of its write, compared for equality alone: every
\* write gives a new one.
Replaced(d, items) ==
    snapshot' = [snapshot EXCEPT ![d] = [version |-> @.version + 1, items |-> items]]

At(pc) == Push(pc, NoSnapshot, {})

\* doc is the document the request has come to, got what it has read of it.
Upsert(doc, step, got) == [doc |-> doc, step |-> step, got |-> got]

Running(x) == upsert[x].step \notin {"idle", "done", "failed"}

NoCleaner == [pc |-> "idle", base |-> NoSnapshot, got |-> {}, boundary |-> 0, gone |-> {}]

MoreMayCome ==
    Cardinality({u \in Updates : push[u].pc # "idle"})
      + Cardinality({x \in Upserters : upsert[x].step # "idle"}) < MaxRequests

\* late: committed below the boundary of a run after it read; revived: entries an
\* endpoint that had read before the run wrote back; mixed: requests that ran
\* together; torn: requests between whose two reads the folders were rebuilt.
Excuses == [late : SUBSET Updates, revived : SUBSET Items,
            mixed : SUBSET Upserters, torn : SUBSET Upserters]

Init ==
    /\ snapshot = [d \in Docs |-> NoSnapshot]
    /\ rows = [d \in Docs |-> {}]
    /\ rowId = [u \in RootUpdates |-> 0]
    /\ push = [u \in Updates |-> At("idle")]
    /\ upsert = [x \in Upserters |-> Upsert("page", "idle", {})]
    /\ cleaner = NoCleaner
    /\ cleanings = 0
    /\ cleaned = {}
    /\ before = [x \in Upserters |-> {}]
    /\ excused = [late |-> {}, revived |-> {}, mixed |-> {}, torn |-> {}]

-----------------------------------------------------------------------------
(* Clients: SyncService.pushUpdate and its rebuild. *)

NextId(u) ==
    [v \in RootUpdates |-> IF v = u THEN Cardinality({w \in RootUpdates : rowId[w] # 0}) + 1
                                   ELSE rowId[v]]

\* Mutant of PushInserts: the row is there at once, whatever becomes of the request.
PushInsertsForGood(u) ==
    /\ push[u].pc = "idle"
    /\ MoreMayCome
    /\ rowId' = NextId(u)
    /\ rows' = [rows EXCEPT ![DocOf(u)] = @ \union {u}]
    /\ push' = [push EXCEPT ![u] = At("inserted")]
    /\ UNCHANGED <<snapshot, upsert, cleaner, cleanings, ghosts>>

\* The insert takes the next id; nobody sees the row yet.
PushInserts(u) ==
    /\ push[u].pc = "idle"
    /\ MoreMayCome
    /\ rowId' = NextId(u)
    /\ push' = [push EXCEPT ![u] = At("inserted")]
    /\ UNCHANGED <<snapshot, rows, upsert, cleaner, cleanings, ghosts>>

PushCommits(u) ==
    /\ push[u].pc = "inserted"
    /\ rows' = [rows EXCEPT ![DocOf(u)] = @ \union {u}]
    /\ push' = [push EXCEPT ![u] = At("stored")]
    /\ excused' = [excused EXCEPT !.late = @ \union
                    {v \in {u} : DocOf(u) = "root" /\ rowId[u] <= cleaner.boundary}]
    /\ UNCHANGED <<snapshot, rowId, upsert, cleaner, cleanings, cleaned, before>>

\* The count is below the threshold, or any await of the request fails.
PushEnds(u) ==
    /\ push[u].pc \notin {"idle", "ended"}
    /\ push[u].pc = "stored" => Cardinality(rows[DocOf(u)]) < Threshold
    /\ push' = [push EXCEPT ![u] = At("ended")]
    /\ UNCHANGED <<snapshot, rows, rowId, upsert, cleaner, cleanings, ghosts>>

RebuildReadsSnapshot(u) ==
    /\ push[u].pc = "stored"
    /\ Cardinality(rows[DocOf(u)]) >= Threshold
    /\ push' = [push EXCEPT ![u] = Push("read", snapshot[DocOf(u)], {})]
    /\ UNCHANGED <<snapshot, rows, rowId, upsert, cleaner, cleanings, ghosts>>

\* With no snapshot and no row left the rebuild returns, which PushEnds covers.
RebuildReadsRows(u) ==
    /\ push[u].pc = "read"
    /\ push[u].base.version # 0 \/ rows[DocOf(u)] # {}
    /\ push' = [push EXCEPT ![u] = Push("merged", @.base, rows[DocOf(u)])]
    /\ UNCHANGED <<snapshot, rows, rowId, upsert, cleaner, cleanings, ghosts>>

\* Mutant of SameVersion: a rebuild that overwrites whatever is there.
SameVersionBlind(d, base) == TRUE

\* The condition of the write, with a rebuild and with the script.
SameVersion(d, base) == snapshot[d].version = base.version

\* When the version has changed nothing is written, which PushEnds covers.
RebuildCommits(u) ==
    LET d == DocOf(u) IN
    /\ push[u].pc = "merged"
    /\ SameVersion(d, push[u].base)
    /\ Replaced(d, push[u].base.items \union push[u].got)
    /\ rows' = [rows EXCEPT ![d] = @ \ push[u].got]
    /\ push' = [push EXCEPT ![u] = At("ended")]
    /\ excused' = [excused EXCEPT !.torn = @ \union
                    {x \in Upserters : upsert[x].doc = d /\ upsert[x].step = "rows"}]
    /\ UNCHANGED <<rowId, upsert, cleaner, cleanings, cleaned, before>>

-----------------------------------------------------------------------------
(* upsertDoc: the page, then the root document, then the folders. *)

\* After the checks the text is ready and the page needs no reading.
UpsertBegins(x) ==
    LET together == {y \in Upserters : Running(y)} IN
    /\ upsert[x].step = "idle"
    /\ MoreMayCome
    /\ upsert' = [upsert EXCEPT ![x] = Upsert("page", "writes", {})]
    /\ before' = [before EXCEPT ![x] = UNION {Body(d) : d \in Docs}]
    /\ excused' = [excused EXCEPT !.mixed = @ \union together \union
                                            (IF together = {} THEN {} ELSE {x})]
    /\ UNCHANGED <<snapshot, rows, rowId, push, cleaner, cleanings, cleaned>>

\* Mutant of UpsertReads: the folders are rewritten from their snapshot alone, as the
\* root document is.
UpsertReadsOnlySnapshot(x) ==
    /\ upsert[x].step = "reads"
    /\ upsert' = [upsert EXCEPT ![x] = Upsert(@.doc, "writes", snapshot[@.doc].items)]
    /\ UNCHANGED <<snapshot, rows, rowId, push, cleaner, cleanings, ghosts>>

\* The root document is rewritten from its snapshot alone.
UpsertReads(x) ==
    /\ upsert[x].step = "reads"
    /\ upsert' = [upsert EXCEPT ![x] =
                    Upsert(@.doc, IF @.doc = "folders" THEN "rows" ELSE "writes",
                           snapshot[@.doc].items)]
    /\ UNCHANGED <<snapshot, rows, rowId, push, cleaner, cleanings, ghosts>>

UpsertReadsRows(x) ==
    /\ upsert[x].step = "rows"
    /\ upsert' = [upsert EXCEPT ![x] = Upsert(@.doc, "writes", @.got \union rows[@.doc])]
    /\ UNCHANGED <<snapshot, rows, rowId, push, cleaner, cleanings, ghosts>>

\* Mutant of Written: the document is built anew.
WrittenAnew(x) == IF upsert[x].doc = "page" THEN {} ELSE {x}

\* What is written: the page becomes the text posted, the other two what was read of
\* them with the page entered.
Written(x) == IF upsert[x].doc = "page" THEN {} ELSE upsert[x].got \union {x}

\* An upsert of the row, without a look at its version.
UpsertWrites(x) ==
    LET d == upsert[x].doc IN
    /\ upsert[x].step = "writes"
    /\ Replaced(d, Written(x))
    /\ upsert' = [upsert EXCEPT ![x] = Upsert(d, "clears", {})]
    /\ excused' = [excused EXCEPT !.revived = @ \union
                                    (IF d = "root" THEN cleaned \intersect Written(x) ELSE {})]
    /\ UNCHANGED <<rows, rowId, push, cleaner, cleanings, cleaned, before>>

\* What the ghosts knew of a request that has ended.
Forgets(x) ==
    /\ before' = [before EXCEPT ![x] = {}]
    /\ excused' = [excused EXCEPT !.torn = @ \ {x}]
    /\ UNCHANGED cleaned

\* deleteMany over all rows of the document, then the next document.
UpsertClears(x) ==
    /\ upsert[x].step = "clears"
    /\ rows' = [rows EXCEPT ![upsert[x].doc] = {}]
    /\ upsert' = [upsert EXCEPT ![x] = CASE @.doc = "page" -> Upsert("root", "reads", {})
                                         [] @.doc = "root" -> Upsert("folders", "reads", {})
                                         [] @.doc = "folders" -> Upsert("page", "done", {})]
    /\ IF upsert[x].doc = "folders" THEN Forgets(x) ELSE UNCHANGED ghosts
    /\ UNCHANGED <<snapshot, rowId, push, cleaner, cleanings>>

\* Any await fails; what was written stays.
UpsertFails(x) ==
    /\ Running(x)
    /\ upsert' = [upsert EXCEPT ![x] = Upsert("page", "failed", {})]
    /\ Forgets(x)
    /\ UNCHANGED <<snapshot, rows, rowId, push, cleaner, cleanings>>

-----------------------------------------------------------------------------
(* IndexPurgeService.purgeWorkspace *)

CleanerReads ==
    /\ cleaner.pc = "idle"
    /\ cleanings < MaxCleanings
    /\ cleanings' = cleanings + 1
    /\ cleaner' = [NoCleaner EXCEPT !.pc = "rows", !.base = snapshot["root"]]
    /\ UNCHANGED <<snapshot, rows, rowId, push, upsert, ghosts>>

\* The boundary is the highest id among the rows read.  The ledger says of every entry
\* whether it may go; with none to remove there may still be identifiers in `spaces`,
\* which always go.
CleanerReadsRows ==
  \E highest \in {rowId[u] : u \in rows["root"]} \union {0} :
    /\ cleaner.pc = "rows"
    /\ cleaner.base.version # 0 \/ rows["root"] # {}
    /\ \A u \in rows["root"] : rowId[u] <= highest
    /\ cleaner' = [cleaner EXCEPT
                      !.pc = "commits",
                      !.got = rows["root"],
                      !.boundary = highest,
                      !.gone = ((cleaner.base.items \union rows["root"])
                                  \intersect (Entries \union Upserters)) \ Kept]
    /\ UNCHANGED <<snapshot, rows, rowId, push, upsert, cleanings, ghosts>>

\* Mutant of Unmoved: the rows that came after the read are not asked for.
UnmovedInRows == TRUE

\* Nothing was committed above the boundary.
Unmoved == \A u \in rows["root"] : rowId[u] <= cleaner.boundary

\* deleteMany up to the boundary.
Swept == {u \in rows["root"] : rowId[u] <= cleaner.boundary}

\* One transaction: its count, its versioned write and its deletion take effect as
\* one, since whatever commits between them is above the boundary or changes the
\* version.
CleanerCommits ==
    /\ cleaner.pc = "commits"
    /\ Unmoved
    /\ SameVersion("root", cleaner.base)
    /\ Replaced("root", (cleaner.base.items \union cleaner.got) \ cleaner.gone)
    /\ rows' = [rows EXCEPT !["root"] = @ \ Swept]
    /\ cleaned' = cleaned \union cleaner.gone
    /\ cleaner' = NoCleaner
    /\ UNCHANGED <<rowId, push, upsert, cleanings, before, excused>>

\* Nothing to do, a trial run, a conflict, or a failure: nothing is written.
CleanerStops ==
    /\ cleaner.pc # "idle"
    /\ cleaner' = NoCleaner
    /\ UNCHANGED <<snapshot, rows, rowId, push, upsert, cleanings, ghosts>>

-----------------------------------------------------------------------------
PushUpdate(u) ==
    \/ PushInserts(u)
    \/ PushCommits(u)
    \/ PushEnds(u)
    \/ RebuildReadsSnapshot(u)
    \/ RebuildReadsRows(u)
    \/ RebuildCommits(u)

UpsertDoc(x) ==
    \/ UpsertBegins(x)
    \/ UpsertReads(x)
    \/ UpsertReadsRows(x)
    \/ UpsertWrites(x)
    \/ UpsertClears(x)
    \/ UpsertFails(x)

PurgeWorkspace ==
    \/ CleanerReads
    \/ CleanerReadsRows
    \/ CleanerCommits
    \/ CleanerStops

Next ==
    \/ \E u \in Updates : PushUpdate(u)
    \/ \E x \in Upserters : UpsertDoc(x)
    \/ PurgeWorkspace

Spec == Init /\ [][Next]_vars

-----------------------------------------------------------------------------
TypeOK ==
    /\ snapshot \in [Docs -> Snapshots]
    /\ rows \in [Docs -> SUBSET Updates]
    /\ \A d \in Docs : \A u \in rows[d] : DocOf(u) = d /\ push[u].pc \notin {"idle", "inserted"}
    /\ rowId \in [RootUpdates -> Nat]
    /\ push \in [Updates -> [pc : {"idle", "inserted", "stored", "read", "merged", "ended"},
                             base : Snapshots, got : SUBSET Updates]]
    /\ upsert \in [Upserters ->
                     [doc : Docs, got : SUBSET Items,
                      step : {"idle", "reads", "rows", "writes", "clears", "done", "failed"}]]
    /\ cleaner \in [pc : {"idle", "rows", "commits"}, base : Snapshots,
                    got : SUBSET Updates, boundary : Nat, gone : SUBSET Items]
    /\ cleanings \in 0 .. MaxCleanings
    /\ cleaned \in SUBSET Items
    /\ before \in [Upserters -> SUBSET Items]
    /\ excused \in Excuses

(* A run of the script that replaces the root document takes out of it the entries the
   ledger vouches for and nothing else, and leaves nothing there that it has not read,
   although its decision is three queries old: a change that clients saved meanwhile is
   neither lost nor left with titles in it.  A row whose id was handed out before the
   run read and whose transaction committed after it is the exception: it lies below
   the boundary and is deleted unmerged. *)
CleaningIsExact ==
    [][CleanerCommits =>
         /\ Body("root") \ Body("root")' \subseteq cleaner.gone \union excused.late
         /\ Body("root")' \subseteq cleaner.base.items \union cleaner.got]_vars

(* A title taken out of the root document does not come back: no rebuild that read it
   before writes it again, and no row holds it.  upsertDoc is the exception: it writes
   what it read without asking whether that is still the document. *)
CleanedStaysClean == cleaned \intersect Body("root") \subseteq excused.revived

(* The tables and the requests are well formed, and what the cleaner took out stays out. *)
EntriesAreSound == TypeOK /\ CleanedStaysClean

(* A page the endpoint has posted stays entered in the index and in the folders,
   whatever clients push and rebuild and the script rewrites beside it, until the
   script takes its entry out of the index.  Only requests that ran together can
   overwrite each other's entries. *)
PostedIsEntered ==
    \A x \in Upserters \ excused.mixed :
        LET entered(d) == \/ upsert[x].step = "done"
                          \/ upsert[x].doc = d /\ upsert[x].step = "clears"
                          \/ upsert[x].doc = "folders" /\ d = "root" IN
        /\ entered("root") => x \in Body("root") \union cleaned
        /\ entered("folders") => x \in Body("folders")

(* Posting a page keeps the folders people arranged before: every update of the folders
   that was saved when the request began is still there when the request deletes their
   rows, unless a rebuild came between its two reads, or another request beside it. *)
PostingKeepsFolders ==
    [][\A x \in Upserters :
         /\ UpsertClears(x)
         /\ upsert[x].doc = "folders"
         /\ x \notin excused.mixed \union excused.torn
         => before[x] \intersect FolderUpdates \subseteq Body("folders")']_vars

(* "The deltas are cleared: they are not needed, the snapshot has been rebuilt", and
   "the root document's too": what clients had saved in the root document when a
   request began is in its snapshot when the request has deleted its rows. *)
ClearedIsMerged ==
    \A x \in Upserters :
        upsert[x].doc = "folders" /\ upsert[x].step = "reads" =>
            before[x] \intersect RootUpdates \subseteq Body("root") \union cleaned
==============================================================================
