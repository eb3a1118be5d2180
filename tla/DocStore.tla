------------------------------ MODULE DocStore -------------------------------
(***************************************************************************)
(* The persistence of one document in the backend: SyncService             *)
(* (sync.service.ts), DocGcService.purge, DocHistoryService.recoverDoc and *)
(* DocHistorySchedulerService.saveHistory.                                 *)
(*                                                                         *)
(* The body lives in two tables, an optional snapshot and the rows of      *)
(* updates not yet merged into it.  A push commits a row and, every        *)
(* Threshold rows, merges the rows into the snapshot inside the same       *)
(* request.  Every database round trip is an action of its own: between    *)
(* two of them any other handler may run.  A transaction is one action     *)
(* where its row locks make it so (PostgreSQL, READ COMMITTED).            *)
(*                                                                         *)
(* A push request is identified with the update it carries.  A document    *)
(* body is the set of updates merged into it (mergeUpdates is commutative  *)
(* and idempotent), so a blob is a set of updates.                         *)
(*                                                                         *)
(* Time.  A snapshot's version is the millisecond of its write.  The model *)
(* gives every new Date() a millisecond of its own: a merge and a round    *)
(* trip to the database take longer than one.  Two writers that did share  *)
(* a millisecond would defeat the version check; README.md says so.        *)
(***************************************************************************)
EXTENDS Naturals, FiniteSets

CONSTANTS
    Updates,        \* the updates clients push, one request each
    Recoverers,     \* concurrent recoverDoc requests
    Writers,        \* concurrent requests that write the ledger row
    Threshold,      \* SNAPSHOT_THRESHOLD (50 in the code)
    UserDoc,        \* isUserDoc(workspaceId, docId)
    MaxPurges       \* bound: permanent deletions in one behaviour

ASSUME ThresholdAssumption == Threshold \in Nat \ {0}
ASSUME UserDocAssumption == UserDoc \in BOOLEAN
ASSUME MaxPurgesAssumption == MaxPurges \in Nat

VARIABLES
    workspace,      \* the workspaces row exists
    clock,          \* the last millisecond handed out by new Date()
    rowTime,        \* doc_updates: the timestamp of u's row, 0 when there is none
    snapshot,       \* doc_snapshots: [ts, body], or NoSnapshot
    history,        \* doc_histories: the bodies saved there
    updatedAt,      \* doc_meta.updated_at, 0 when the ledger has no row
    marks,          \* search_index_queue.pending_generation, 0 when no row
    push,           \* push[u]: the pushUpdate request that carries u
    recover,        \* recover[r]: a recoverDoc request
    saver,          \* the hourly saveHistory job
    write,          \* write[w]: createDoc, or another write of the ledger row
    purges,         \* permanent deletions so far
    owed,           \* ghost: the body the committed requests add up to
    stored,         \* ghost: every update ever committed
    erased,         \* ghost: the updates committed before the last deletion
    tracked         \* ghost: the updates committed since the ledger row was written

vars == <<workspace, clock, rowTime, snapshot, history, updatedAt, marks, push,
          recover, saver, write, purges, owed, stored, erased, tracked>>

tables == <<rowTime, snapshot, history, updatedAt, marks>>
ghosts == <<owed, stored, erased, tracked>>
others == <<recover, saver, write, purges>>

-----------------------------------------------------------------------------
(* Values *)

Bodies == SUBSET Updates

NoSnapshot == [ts |-> 0, body |-> {}]

Snapshots == [ts : Nat, body : Bodies]

PushStates == {"idle", "arrived", "stored", "reading", "read", "merged", "ended"}

\* base is the snapshot row the rebuild read, got the update rows it read and
\* now the millisecond of its transaction; sent is the millisecond taken when
\* the push arrived, which its row will carry.
Pushes == [pc : PushStates, sent : Nat, now : Nat, base : Snapshots, got : Bodies]

Request(state, sent, now, base, got) ==
    [pc |-> state, sent |-> sent, now |-> now, base |-> base, got |-> got]

NoRequest(state) == Request(state, 0, 0, NoSnapshot, {})

Recoveries == [pc : {"idle", "read", "done"}, now : Nat, version : Bodies]

Writes == [pc : {"idle", "creating", "writing", "done"}, now : Nat]

Savers == [pc : {"idle", "read"}, version : Bodies]

\* The updates with a row.
Rows == {u \in Updates : rowTime[u] # 0}

\* deleteMany over the rows of a set of updates.
RowsWithout(gone) == [u \in Updates |-> IF u \in gone THEN 0 ELSE rowTime[u]]

\* What a reader of both tables at one instant would merge.
Body == snapshot.body \union Rows

TypeOK ==
    /\ workspace \in BOOLEAN
    /\ clock \in Nat
    /\ rowTime \in [Updates -> Nat]
    /\ snapshot \in Snapshots
    /\ history \in SUBSET Bodies
    /\ updatedAt \in Nat
    /\ marks \in Nat
    /\ push \in [Updates -> Pushes]
    /\ recover \in [Recoverers -> Recoveries]
    /\ saver \in Savers
    /\ write \in [Writers -> Writes]
    /\ purges \in Nat
    /\ owed \in Bodies
    /\ stored \in Bodies
    /\ erased \in Bodies
    /\ tracked \in Bodies

Init ==
    /\ workspace = TRUE
    /\ clock = 0
    /\ rowTime = [u \in Updates |-> 0]
    /\ snapshot = NoSnapshot
    /\ history = {}
    /\ updatedAt = 0
    /\ marks = 0
    /\ push = [u \in Updates |-> NoRequest("idle")]
    /\ recover = [r \in Recoverers |-> [pc |-> "idle", now |-> 0, version |-> {}]]
    /\ saver = [pc |-> "idle", version |-> {}]
    /\ write = [w \in Writers |-> [pc |-> "idle", now |-> 0]]
    /\ purges = 0
    /\ owed = {}
    /\ stored = {}
    /\ erased = {}
    /\ tracked = {}

-----------------------------------------------------------------------------
(* pushUpdate: save the update, then merge the log when it is long enough. *)

\* The request ends, acknowledged or with an error; what its handler held in
\* memory is gone.
PushEnds(u) ==
    push' = [push EXCEPT ![u] = NoRequest("ended")]

\* `now` is taken before anything else; an unknown workspace is refused.
PushArrives(u) ==
    /\ push[u].pc = "idle"
    /\ workspace
    /\ clock' = clock + 1
    /\ push' = [push EXCEPT ![u] = Request("arrived", clock + 1, 0, NoSnapshot, {})]
    /\ UNCHANGED <<workspace, tables, others, ghosts>>

PushRejected(u) ==
    /\ push[u].pc = "idle"
    /\ ~workspace
    /\ PushEnds(u)
    /\ UNCHANGED <<workspace, clock, tables, others, ghosts>>

\* Mutant of TouchLedger: without the condition on the stored time.
TouchLedgerAlways(sent) ==
    updatedAt' = IF UserDoc /\ updatedAt # 0 THEN sent ELSE updatedAt

\* The ledger moves with the body and never backwards (updatedAt <= now).
TouchLedger(sent) ==
    updatedAt' = IF UserDoc /\ updatedAt # 0 /\ updatedAt <= sent THEN sent
                                                                   ELSE updatedAt

\* One transaction: the row, the index mark and the ledger.
PushStores(u) ==
    /\ push[u].pc = "arrived"
    /\ workspace
    /\ rowTime' = [rowTime EXCEPT ![u] = push[u].sent]
    /\ marks' = IF UserDoc THEN marks + 1 ELSE marks
    /\ TouchLedger(push[u].sent)
    /\ push' = [push EXCEPT ![u] = NoRequest("stored")]
    /\ owed' = owed \union {u}
    /\ stored' = stored \union {u}
    /\ tracked' = IF updatedAt # 0 THEN tracked \union {u} ELSE tracked
    /\ UNCHANGED <<workspace, clock, snapshot, history, others, erased>>

\* A database error at any await: before the commit nothing is saved, after it
\* the update stays saved although the client is told PUSH_FAILED.
PushFails(u) ==
    /\ push[u].pc \in {"arrived", "stored", "reading", "read", "merged"}
    /\ PushEnds(u)
    /\ UNCHANGED <<workspace, clock, tables, others, ghosts>>

PushCounts(u) ==
    /\ push[u].pc = "stored"
    /\ IF Cardinality(Rows) >= Threshold
         THEN push' = [push EXCEPT ![u] = NoRequest("reading")]
         ELSE PushEnds(u)
    /\ UNCHANGED <<workspace, clock, tables, others, ghosts>>

RebuildReadsSnapshot(u) ==
    /\ push[u].pc = "reading"
    /\ push' = [push EXCEPT ![u] = Request("read", 0, 0, snapshot, {})]
    /\ UNCHANGED <<workspace, clock, tables, others, ghosts>>

\* The merge is synchronous: the new stamp is taken right after the read.
RebuildReadsRows(u) ==
    /\ push[u].pc = "read"
    /\ push[u].base.ts # 0 \/ Rows # {}
    /\ clock' = clock + 1
    /\ push' = [push EXCEPT ![u] = Request("merged", 0, clock + 1, push[u].base, Rows)]
    /\ UNCHANGED <<workspace, tables, others, ghosts>>

RebuildFindsNothing(u) ==
    /\ push[u].pc = "read"
    /\ push[u].base.ts = 0
    /\ Rows = {}
    /\ PushEnds(u)
    /\ UNCHANGED <<workspace, clock, tables, others, ghosts>>

\* Mutants of MayWriteSnapshot: a blind write, and a table without its foreign key.
MayWriteSnapshotBlind(u) == workspace
MayWriteSnapshotUnkeyed(u) == snapshot.ts = push[u].base.ts

\* The version read is a condition of the write; with no snapshot the create
\* fails on the primary key when another writer made one.
MayWriteSnapshot(u) == snapshot.ts = push[u].base.ts /\ workspace

\* Mutant of RebuildCommits: deletes every row, not only those it merged.
RebuildCommitsAllRows(u) ==
    /\ push[u].pc = "merged"
    /\ MayWriteSnapshot(u)
    /\ snapshot' = [ts |-> push[u].now, body |-> push[u].base.body \union push[u].got]
    /\ rowTime' = RowsWithout(Updates)
    /\ PushEnds(u)
    /\ UNCHANGED <<workspace, clock, history, updatedAt, marks, others, ghosts>>

RebuildCommits(u) ==
    /\ push[u].pc = "merged"
    /\ MayWriteSnapshot(u)
    /\ snapshot' = [ts |-> push[u].now, body |-> push[u].base.body \union push[u].got]
    /\ rowTime' = RowsWithout(push[u].got)
    /\ PushEnds(u)
    /\ UNCHANGED <<workspace, clock, history, updatedAt, marks, others, ghosts>>

\* Mutant of RebuildSkips: the merged rows go although the snapshot was not written.
RebuildSkipsButDeletes(u) ==
    /\ push[u].pc = "merged"
    /\ snapshot.ts # push[u].base.ts
    /\ rowTime' = RowsWithout(push[u].got)
    /\ PushEnds(u)
    /\ UNCHANGED <<workspace, clock, snapshot, history, updatedAt, marks, others, ghosts>>

RebuildSkips(u) ==
    /\ push[u].pc = "merged"
    /\ snapshot.ts # push[u].base.ts
    /\ PushEnds(u)
    /\ UNCHANGED <<workspace, clock, tables, others, ghosts>>

-----------------------------------------------------------------------------
(* History: the hourly job copies the snapshot, recoverDoc puts one back. *)

SaverReads ==
    /\ saver.pc = "idle"
    /\ snapshot.ts # 0
    /\ saver' = [pc |-> "read", version |-> snapshot.body]
    /\ UNCHANGED <<workspace, clock, tables, push, recover, write, purges, ghosts>>

SaverCommits ==
    /\ saver.pc = "read"
    /\ workspace
    /\ history' = history \union {saver.version}
    /\ saver' = [pc |-> "idle", version |-> {}]
    /\ UNCHANGED <<workspace, clock, rowTime, snapshot, updatedAt, marks, push,
                   recover, write, purges, ghosts>>

\* History was saved less than an hour ago, or the insert failed.
SaverPasses ==
    /\ saver.pc = "read"
    /\ saver' = [pc |-> "idle", version |-> {}]
    /\ UNCHANGED <<workspace, clock, tables, push, recover, write, purges, ghosts>>

RecoverReads(r) ==
    /\ recover[r].pc = "idle"
    /\ clock' = clock + 1
    /\ \E version \in history :
         recover' = [recover EXCEPT ![r] = [pc |-> "read", now |-> clock + 1,
                                            version |-> version]]
    /\ UNCHANGED <<workspace, tables, push, saver, write, purges, ghosts>>

\* The snapshot is upserted without a version check and every row deleted.
RecoverCommits(r) ==
    /\ recover[r].pc = "read"
    /\ workspace
    /\ snapshot' = [ts |-> recover[r].now, body |-> recover[r].version]
    /\ rowTime' = RowsWithout(Updates)
    /\ owed' = recover[r].version
    /\ recover' = [recover EXCEPT ![r] = [pc |-> "done", now |-> 0, version |-> {}]]
    /\ UNCHANGED <<workspace, clock, history, updatedAt, marks, push, saver,
                   write, purges, stored, erased, tracked>>

RecoverFails(r) ==
    /\ recover[r].pc = "read"
    /\ recover' = [recover EXCEPT ![r] = [pc |-> "done", now |-> 0, version |-> {}]]
    /\ UNCHANGED <<workspace, clock, tables, push, saver, write, purges, ghosts>>

-----------------------------------------------------------------------------
(* Creation and deletion of the ledger row, the document and the workspace. *)

\* Mutant of CreateDocDates: a time before the clock's first.
CreateDocDatesEarlier(w) ==
    /\ write[w].pc = "idle"
    /\ clock' = clock + 1
    /\ write' = [write EXCEPT ![w] = [pc |-> "creating", now |-> clock - 1]]
    /\ UNCHANGED <<workspace, tables, push, recover, saver, purges, ghosts>>

\* createDoc (DocMetaWriteService) dates the row before the database inserts it.
CreateDocDates(w) ==
    /\ write[w].pc = "idle"
    /\ clock' = clock + 1
    /\ write' = [write EXCEPT ![w] = [pc |-> "creating", now |-> clock + 1]]
    /\ UNCHANGED <<workspace, tables, push, recover, saver, purges, ghosts>>

WriteEnds(w) == write' = [write EXCEPT ![w] = [pc |-> "done", now |-> 0]]

\* The upsert leaves a row that is there as it is.
CreateDocInserts(w) ==
    /\ write[w].pc = "creating"
    /\ workspace
    /\ updatedAt' = IF updatedAt = 0 THEN write[w].now ELSE updatedAt
    /\ WriteEnds(w)
    /\ UNCHANGED <<workspace, clock, rowTime, snapshot, history, marks, push, recover,
                   saver, purges, ghosts>>

\* setTitle, setTrash, changeTags, publishPage and updateDocDefaultRole: Prisma's
\* @updatedAt dates the row when the request reaches it, the database writes it
\* later and whatever time is stored.
WriteMetaDates(w) ==
    /\ write[w].pc = "idle"
    /\ clock' = clock + 1
    /\ write' = [write EXCEPT ![w] = [pc |-> "writing", now |-> clock + 1]]
    /\ UNCHANGED <<workspace, tables, push, recover, saver, purges, ghosts>>

\* The last two make the row when there is none; the others fail without it.
WriteMetaCommits(w) ==
    /\ write[w].pc = "writing"
    /\ workspace
    /\ updatedAt' = write[w].now
    /\ tracked' = {}
    /\ WriteEnds(w)
    /\ UNCHANGED <<workspace, clock, rowTime, snapshot, history, marks, push, recover,
                   saver, purges, owed, stored, erased>>

\* A database error, no row to write, or another write was faster and the revision
\* did not match.
WriteFails(w) ==
    /\ write[w].pc \in {"creating", "writing"}
    /\ WriteEnds(w)
    /\ UNCHANGED <<workspace, clock, tables, push, recover, saver, purges, ghosts>>

ClearTables ==
    /\ rowTime' = RowsWithout(Updates)
    /\ snapshot' = NoSnapshot
    /\ history' = {}
    /\ updatedAt' = 0
    /\ marks' = 0

\* DocGcService.purge: one transaction over every table that knows the document.
Purge ==
    /\ purges < MaxPurges
    /\ ClearTables
    /\ purges' = purges + 1
    /\ owed' = {}
    /\ erased' = stored
    /\ tracked' = {}
    /\ UNCHANGED <<workspace, clock, push, recover, saver, write, stored>>

\* Deleting the workspaces row cascades to every table; later inserts break the
\* foreign key.
DeleteWorkspace ==
    /\ workspace
    /\ workspace' = FALSE
    /\ ClearTables
    /\ owed' = {}
    /\ erased' = stored
    /\ tracked' = {}
    /\ UNCHANGED <<clock, push, others, stored>>

-----------------------------------------------------------------------------
Rebuild(u) ==
    \/ RebuildReadsSnapshot(u)
    \/ RebuildReadsRows(u)
    \/ RebuildFindsNothing(u)
    \/ RebuildCommits(u)
    \/ RebuildSkips(u)

PushUpdate(u) ==
    \/ PushArrives(u)
    \/ PushRejected(u)
    \/ PushStores(u)
    \/ PushFails(u)
    \/ PushCounts(u)
    \/ Rebuild(u)

SaveHistory == SaverReads \/ SaverCommits \/ SaverPasses

RecoverDoc(r) == RecoverReads(r) \/ RecoverCommits(r) \/ RecoverFails(r)

WriteLedger(w) ==
    \/ CreateDocDates(w)
    \/ CreateDocInserts(w)
    \/ WriteMetaDates(w)
    \/ WriteMetaCommits(w)
    \/ WriteFails(w)

Next ==
    \/ \E u \in Updates : PushUpdate(u)
    \/ SaveHistory
    \/ \E r \in Recoverers : RecoverDoc(r)
    \/ \E w \in Writers : WriteLedger(w)
    \/ Purge
    \/ DeleteWorkspace

Spec == Init /\ [][Next]_vars

-----------------------------------------------------------------------------
(* Safety *)

(* An update whose transaction committed stays readable, in the log or in the
   snapshot, until a recovery or a deletion takes it out: however many rebuilds
   overlap, none deletes a row it did not merge or overwrites another's merge. *)
NothingLost == owed \subseteq Body

(* A rebuild that read the document before a recovery never brings back what the
   recovery replaced: the body holds nothing but what is owed, save content that
   outlived a deletion (that leak is ErasedStaysErased). *)
NothingUndone == Body \subseteq owed \union erased

(* The ledger's time moves with the body: it is not older than any update in the log
   that was committed since the row was created or last written otherwise (title,
   trash, tags, publication), in whatever order the pushes of two people commit.
   (The time of such a write may itself be older than updates that committed while
   it was under way.) *)
LedgerKeepsUp ==
    UserDoc /\ updatedAt # 0 => \A u \in tracked : rowTime[u] <= updatedAt

(* Deleting a workspace leaves nothing of the document behind, whatever was in
   flight: every late writer meets the foreign key. *)
WorkspaceTakesAll ==
    ~workspace => /\ Body = {}
                  /\ snapshot = NoSnapshot
                  /\ history = {}
                  /\ updatedAt = 0

(* Permanent deletion: nothing that was saved before it is ever readable again
   from the log, the snapshot or the history. *)
ErasedStaysErased == erased \intersect (Body \union UNION history) = {}

\* What a recovery can put back: the history, and what one that began has read.
Versions == history \union {recover[r].version : r \in {s \in Recoverers : recover[s].pc = "read"}}

(* The tables implement the abstract body: a push is one arrival, rebuilding the
   snapshot is invisible, and a recovery puts back a version that was saved. *)
Abstract == INSTANCE DocBody WITH body <- Body, versions <- Versions

ImplementsDocBody == Abstract!Spec
==============================================================================
