----------------------------- MODULE IndexQueue ------------------------------
(***************************************************************************)
(* The search index of the documents: the marks SyncService.pushUpdate     *)
(* raises, SearchIndexQueueService that works them off every few seconds,  *)
(* and IndexerService, whose debounce timer indexes the same documents on  *)
(* its own.  Both run indexDocument: read the snapshot, read the rows,     *)
(* delete the index rows, insert new ones, each an await of its own and    *)
(* outside any transaction.                                                *)
(*                                                                         *)
(* The other writers of these tables are rebuilds of the snapshot and the  *)
(* permanent deletion, a transaction of several statements.  Each document *)
(* has at most one of either at work: of two rebuilds the slower is turned *)
(* down (DocStore), and a second deletion waits for the first.  A snapshot *)
(* is told by what is merged into it, absent when that is nothing.  Edits  *)
(* are numbered as they commit, and the number stands for the time.        *)
(*                                                                         *)
(* Timing: a push request ends within QUIET_MS (3 s) of its commit, so a   *)
(* document is quiet only when no push of it is in flight.                 *)
(***************************************************************************)
EXTENDS Naturals, Sequences, FiniteSets, Functions

CONSTANTS
    Docs,
    Poison,         \* documents indexDocument always fails on (a broken blob)
    Purged,         \* documents somebody may delete for good
    Runs,           \* debounced runs of indexDocument that may overlap
    BatchSize,      \* BATCH_SIZE (20 in the code)
    MaxEdits,       \* bound: edits saved
    MaxFaults,      \* bound: transient errors and restarts
    MaxPurges       \* bound: permanent deletions

ASSUME DocsAssumption == Poison \subseteq Docs /\ Purged \subseteq Docs
ASSUME RunsAssumption == IsFiniteSet(Runs) /\ "queue" \notin Runs
ASSUME BoundsAssumption == MaxEdits \in Nat /\ MaxFaults \in Nat /\ MaxPurges \in Nat
ASSUME BatchAssumption == BatchSize \in Nat /\ BatchSize > Cardinality(Poison)

VARIABLES
    edits,          \* edits saved so far
    snapshot,       \* snapshot[d]: the edits merged into doc_snapshots
    rows,           \* rows[d]: the edits with a row in doc_updates
    flying,         \* flying[d]: edits saved whose push request has not ended
    merge,          \* merge[d]: what a rebuild of d has read: [base, got]
    queue,          \* search_index_queue: [pending, indexed, at, quiet]
    timer,          \* timer[d]: debounceTimers has an entry for d
    job,            \* job[j]: a call of indexDocument
    sweep,          \* the rows processPending still has to work off
    running,        \* SearchIndexQueueService.running
    index,          \* search_index: what each surviving insert had read
    faults,
    purge,          \* purge[d]: what a deletion of d holds so far: [pc, rows, snapshot, index]
    purges,         \* deletions begun so far
    log,            \* ghost: the edits of d in the order of their marks
    seen,           \* ghost: the edits read by passes that advanced the mark
    unmarked,       \* ghost: the edits of d whose mark a deletion took, but which it left,
                    \* or a rebuild brought back
    overtaken,      \* ghost: d was purged while the sweep held its generation
    spoilt          \* ghost: the sweep indexed d beside the timer, or a call broke off
                    \* between its deletion and its insertion

vars == <<edits, snapshot, rows, flying, merge, queue, timer, job, sweep, running,
          index, faults, purge, purges, log, seen, unmarked, overtaken, spoilt>>

document == <<edits, snapshot, rows, flying, merge>>
deletion == <<purge, purges>>
ghosts == <<log, seen, unmarked, overtaken, spoilt>>

-----------------------------------------------------------------------------
Jobs == Runs \union {"queue"}

NoMark == [pending |-> 0, indexed |-> 0, at |-> 0, quiet |-> FALSE]

Marks == [pending : 0..MaxEdits, indexed : 0..MaxEdits, at : 0..MaxEdits, quiet : BOOLEAN]

\* A row of a batch, with the generation it had when it was read.
Notes == [doc : Docs, generation : 1..MaxEdits]

NoMerge == [base |-> {}, got |-> {}]

NoPurge == [pc |-> "idle", rows |-> {}, snapshot |-> FALSE, index |-> 0]

Idle == [pc |-> "idle", doc |-> "none", base |-> {}, got |-> {}]

Call(pc, d, base, got) == [pc |-> pc, doc |-> d, base |-> base, got |-> got]

Calls == [pc : {"idle", "called", "reading", "read", "cleared", "done"},
          doc : Docs \union {"none"}, base : SUBSET (1..MaxEdits), got : SUBSET (1..MaxEdits)]

\* What a reader of both tables at one instant would merge, and what of it raised the mark.
Body(d) == snapshot[d] \union rows[d]
Marked(d) == Body(d) \ unmarked[d]

Busy(d) == \E j \in Jobs : job[j].pc # "idle" /\ job[j].doc = d

\* Every insert follows a delete of its own call, so the index rows of a document
\* are bounded by the calls that can overlap.
TypeOK ==
    /\ edits \in 0..MaxEdits
    /\ snapshot \in [Docs -> SUBSET (1..MaxEdits)]
    /\ rows \in [Docs -> SUBSET (1..MaxEdits)]
    /\ flying \in [Docs -> SUBSET (1..MaxEdits)]
    /\ merge \in [Docs -> [base : SUBSET (1..MaxEdits), got : SUBSET (1..MaxEdits)]]
    /\ queue \in [Docs -> Marks]
    /\ timer \in [Docs -> BOOLEAN]
    /\ job \in [Jobs -> Calls]
    /\ \A j \in Jobs : job[j].pc # "idle" => job[j].doc \in Docs
    /\ sweep \in Seq(Notes)
    /\ running \in BOOLEAN
    /\ index \in [Docs -> Seq(SUBSET (1..MaxEdits))]
    /\ \A d \in Docs : Len(index[d]) <= Cardinality(Jobs)
    /\ faults \in 0..MaxFaults
    /\ purge \in [Docs -> [pc : {"idle", "rows", "rest"}, rows : SUBSET (1..MaxEdits),
                            snapshot : BOOLEAN, index : 0..Cardinality(Jobs)]]
    /\ purges \in 0..MaxPurges
    /\ log \in [Docs -> Seq(1..MaxEdits)]
    /\ seen \in [Docs -> SUBSET (1..MaxEdits)]
    /\ unmarked \in [Docs -> SUBSET (1..MaxEdits)]
    /\ overtaken \in [Docs -> BOOLEAN]
    /\ spoilt \subseteq Docs

Init ==
    /\ edits = 0
    /\ snapshot = [d \in Docs |-> {}]
    /\ rows = [d \in Docs |-> {}]
    /\ flying = [d \in Docs |-> {}]
    /\ merge = [d \in Docs |-> NoMerge]
    /\ queue = [d \in Docs |-> NoMark]
    /\ timer = [d \in Docs |-> FALSE]
    /\ job = [j \in Jobs |-> Idle]
    /\ sweep = <<>>
    /\ running = FALSE
    /\ index = [d \in Docs |-> <<>>]
    /\ faults = 0
    /\ purge = [d \in Docs |-> NoPurge]
    /\ purges = 0
    /\ log = [d \in Docs |-> <<>>]
    /\ seen = [d \in Docs |-> {}]
    /\ unmarked = [d \in Docs |-> {}]
    /\ overtaken = [d \in Docs |-> FALSE]
    /\ spoilt = {}

-----------------------------------------------------------------------------
(* A push: the row and the mark in one transaction, then perhaps a rebuild of
   the snapshot, and last the debounce timer. *)

SaveEdit(d) ==
    /\ edits < MaxEdits
    /\ edits' = edits + 1
    /\ rows' = [rows EXCEPT ![d] = @ \union {edits'}]
    /\ flying' = [flying EXCEPT ![d] = @ \union {edits'}]
    /\ queue' = [queue EXCEPT ![d] = [pending |-> @.pending + 1, indexed |-> @.indexed,
                                      at |-> edits', quiet |-> FALSE]]
    /\ log' = [log EXCEPT ![d] = Append(@, edits')]
    /\ UNCHANGED <<snapshot, merge, timer, job, sweep, running, index, faults, deletion, seen,
                   unmarked, overtaken, spoilt>>

RebuildReads(d) ==
    /\ flying[d] # {}
    /\ rows[d] # {}
    /\ merge[d] = NoMerge
    /\ merge' = [merge EXCEPT ![d] = [base |-> snapshot[d], got |-> rows[d]]]
    /\ UNCHANGED <<edits, snapshot, rows, flying, queue, timer, job, sweep, running, index,
                   faults, deletion, ghosts>>

\* The snapshot is as it was read, and no deletion has hold of what is to be written.
MayWriteSnapshot(d) ==
    /\ merge[d].base = snapshot[d]
    /\ ~purge[d].snapshot
    /\ merge[d].got \intersect purge[d].rows = {}

RebuildCommits(d) ==
    /\ merge[d] # NoMerge
    /\ MayWriteSnapshot(d)
    /\ snapshot' = [snapshot EXCEPT ![d] = merge[d].base \union merge[d].got]
    /\ rows' = [rows EXCEPT ![d] = @ \ merge[d].got]
    /\ unmarked' = [unmarked EXCEPT ![d] = @ \union (merge[d].got \ Body(d))]
    /\ merge' = [merge EXCEPT ![d] = NoMerge]
    /\ UNCHANGED <<edits, flying, queue, timer, job, sweep, running, index, faults, deletion,
                   log, seen, overtaken, spoilt>>

\* The snapshot is another one by now, or the rebuild throws and its push with it.
RebuildStops(d) ==
    /\ merge[d] # NoMerge
    /\ merge' = [merge EXCEPT ![d] = NoMerge]
    /\ \/ merge[d].base # snapshot[d] /\ flying' = flying
       \/ \E e \in flying[d] : flying' = [flying EXCEPT ![d] = @ \ {e}]
    /\ UNCHANGED <<edits, snapshot, rows, queue, timer, job, sweep, running, index, faults,
                   deletion, ghosts>>

\* scheduleIndex, after the push and its rebuild; a request that fails after its commit
\* never gets here.
PushEnds(d) ==
    \E e \in flying[d], scheduled \in {TRUE, timer[d]} :
        /\ flying[d] = {e} => merge[d] = NoMerge
        /\ flying' = [flying EXCEPT ![d] = @ \ {e}]
        /\ timer' = [timer EXCEPT ![d] = scheduled]
        /\ UNCHANGED <<edits, snapshot, rows, merge, queue, job, sweep, running, index, faults,
                       deletion, ghosts>>

\* QUIET_MS pass after the last edit.
QuietPasses(d) ==
    /\ queue[d].pending > queue[d].indexed
    /\ ~queue[d].quiet
    /\ flying[d] = {}
    /\ queue' = [queue EXCEPT ![d].quiet = TRUE]
    /\ UNCHANGED <<document, timer, job, sweep, running, index, faults, deletion, ghosts>>

-----------------------------------------------------------------------------
(* indexDocument, one await after the other. *)

TimerFires(d, r) ==
    /\ timer[d]
    /\ job[r].pc = "idle"
    /\ timer' = [timer EXCEPT ![d] = FALSE]
    /\ job' = [job EXCEPT ![r] = Call("called", d, {}, {})]
    /\ UNCHANGED <<document, queue, sweep, running, index, faults, deletion, ghosts>>

ReadsSnapshot(j) ==
    /\ job[j].pc = "called"
    /\ job' = [job EXCEPT ![j] = Call("reading", @.doc, snapshot[@.doc], {})]
    /\ UNCHANGED <<document, queue, timer, sweep, running, index, faults, deletion, ghosts>>

ReadsRows(j) ==
    /\ job[j].pc = "reading"
    /\ job' = [job EXCEPT ![j] = Call("read", @.doc, @.base, rows[@.doc])]
    /\ UNCHANGED <<document, queue, timer, sweep, running, index, faults, deletion, ghosts>>

\* The blobs were applied: a poisoned document never comes this far.  Rows that a deletion
\* has hold of are waited for.
DeletesOld(j) ==
    /\ job[j].pc = "read"
    /\ job[j].doc \notin Poison
    /\ purge[job[j].doc].index = 0
    /\ index' = [index EXCEPT ![job[j].doc] = <<>>]
    /\ job' = [job EXCEPT ![j].pc = "cleared"]
    /\ UNCHANGED <<document, queue, timer, sweep, running, faults, deletion, ghosts>>

\* A document with neither blocks nor a title gets no index row.
InsertsNew(j) ==
    LET content == job[j].base \union job[j].got IN
    /\ job[j].pc = "cleared"
    /\ index' = [index EXCEPT ![job[j].doc] =
                     IF content = {} THEN @ ELSE Append(@, content)]
    /\ job' = [job EXCEPT ![j] = IF j = "queue" THEN [@ EXCEPT !.pc = "done"] ELSE Idle]
    /\ UNCHANGED <<document, queue, timer, sweep, running, faults, deletion, ghosts>>

JobSteps(j) == ReadsSnapshot(j) \/ ReadsRows(j) \/ DeletesOld(j) \/ InsertsNew(j)

BrokenOff(j) == {d \in Docs : job[j].pc = "cleared" /\ job[j].doc = d}

\* An await throws, or applying a broken blob does.  The timer's catch and the
\* sweep's (continue) both leave what was done so far; the mark stays.
JobFails(j) ==
    /\ job[j].pc \in {"called", "reading", "read", "cleared"}
    /\ IF job[j].doc \in Poison /\ job[j].pc = "read"
         THEN faults' = faults
         ELSE faults < MaxFaults /\ faults' = faults + 1
    /\ job' = [job EXCEPT ![j] = Idle]
    /\ sweep' = IF j = "queue" THEN Tail(sweep) ELSE sweep
    /\ spoilt' = spoilt \union BrokenOff(j)
    /\ UNCHANGED <<document, queue, timer, running, index, deletion, log, seen, unmarked,
                   overtaken>>

-----------------------------------------------------------------------------
(* The sweep: processPending under the running flag. *)

Due == {d \in Docs : queue[d].pending > queue[d].indexed /\ queue[d].quiet}

\* orderBy pendingAt, take BATCH_SIZE: at most so many of the due documents, oldest first,
\* none left out that is older.
Batches ==
    {b \in UNION {[1..n -> Due] : n \in 1..BatchSize} :
        /\ \A i, k \in DOMAIN b : i < k => queue[b[i]].at < queue[b[k]].at
        /\ \A d \in Due \ Range(b) :
              Len(b) = BatchSize /\ \A i \in DOMAIN b : queue[b[i]].at < queue[d].at}

\* The generation is noted with the row.
SweepStarts ==
    /\ ~running
    /\ running' = TRUE
    /\ \E b \in Batches :
         sweep' = [i \in DOMAIN b |-> [doc |-> b[i], generation |-> queue[b[i]].pending]]
    /\ UNCHANGED <<document, queue, timer, job, index, faults, deletion, ghosts>>

SweepIndexes ==
    /\ running
    /\ sweep # <<>>
    /\ job["queue"].pc = "idle"
    /\ job' = [job EXCEPT !["queue"] = Call("called", Head(sweep).doc, {}, {})]
    /\ spoilt' = spoilt \union {d \in {Head(sweep).doc} : Busy(d)}
    /\ UNCHANGED <<document, queue, timer, sweep, running, index, faults, deletion, log, seen,
                   unmarked, overtaken>>

\* Mutant of Advanced: the generation is read after the pass, not before.
AdvancedToLatest(row, generation) == [row EXCEPT !.indexed = row.pending]

\* Only forward, and only up to the generation noted before the pass.
Advanced(row, generation) ==
    IF row.pending # 0 /\ row.indexed < generation
      THEN [row EXCEPT !.indexed = generation]
      ELSE row

SweepMarks ==
    LET d == Head(sweep).doc IN
    /\ job["queue"].pc = "done"
    /\ queue' = [queue EXCEPT ![d] = Advanced(@, Head(sweep).generation)]
    /\ seen' = [seen EXCEPT ![d] = @ \union job["queue"].base \union job["queue"].got]
    /\ job' = [job EXCEPT !["queue"] = Idle]
    /\ sweep' = Tail(sweep)
    /\ UNCHANGED <<document, timer, running, index, faults, deletion, log, unmarked, overtaken,
                   spoilt>>

\* Mutant of SweepEnds: the flag is not reset.
SweepNeverEnds ==
    /\ running
    /\ sweep = <<>>
    /\ UNCHANGED vars

SweepEnds ==
    /\ running
    /\ sweep = <<>>
    /\ running' = FALSE
    /\ UNCHANGED <<document, queue, timer, job, sweep, index, faults, deletion, ghosts>>

\* Writing the mark throws: the rest of the batch is left for the next round.
SweepAborts ==
    /\ job["queue"].pc = "done"
    /\ faults < MaxFaults
    /\ faults' = faults + 1
    /\ job' = [job EXCEPT !["queue"] = Idle]
    /\ sweep' = <<>>
    /\ running' = FALSE
    /\ UNCHANGED <<document, queue, timer, index, deletion, ghosts>>

-----------------------------------------------------------------------------
\* The process restarts: what it held in memory is gone, a deletion not yet committed is
\* undone, the marks stay.
Restart ==
    /\ faults < MaxFaults
    /\ faults' = faults + 1
    /\ flying' = [d \in Docs |-> {}]
    /\ merge' = [d \in Docs |-> NoMerge]
    /\ purge' = [d \in Docs |-> NoPurge]
    /\ timer' = [d \in Docs |-> FALSE]
    /\ job' = [j \in Jobs |-> Idle]
    /\ sweep' = <<>>
    /\ running' = FALSE
    /\ spoilt' = spoilt \union UNION {BrokenOff(j) : j \in Jobs}
    /\ UNCHANGED <<edits, snapshot, rows, queue, index, purges, log, seen, unmarked, overtaken>>

-----------------------------------------------------------------------------
(* DocGcService.purge: one transaction, but every statement sees what was committed by
   then (READ COMMITTED).  What a statement has deleted is locked until the commit, and
   only then gone for the others; what comes in after a statement stays. *)

PurgeTakesRows(d) ==
    /\ d \in Purged
    /\ purges < MaxPurges
    /\ purges' = purges + 1
    /\ purge[d] = NoPurge
    /\ purge' = [purge EXCEPT ![d] = [NoPurge EXCEPT !.pc = "rows", !.rows = rows[d]]]
    /\ UNCHANGED <<document, queue, timer, job, sweep, running, index, faults, ghosts>>

\* The snapshot, if there is one, the history, the ledger and the index rows.
PurgeTakesRest(d) ==
    /\ purge[d].pc = "rows"
    /\ purge' = [purge EXCEPT ![d] = [@ EXCEPT !.pc = "rest", !.snapshot = snapshot[d] # {},
                                               !.index = Len(index[d])]]
    /\ UNCHANGED <<document, queue, timer, job, sweep, running, index, faults, purges, ghosts>>

\* The mark goes last, whatever raised it, and all of it is committed.
PurgeCommits(d) ==
    /\ purge[d].pc = "rest"
    /\ rows' = [rows EXCEPT ![d] = @ \ purge[d].rows]
    /\ snapshot' = [snapshot EXCEPT ![d] = IF purge[d].snapshot THEN {} ELSE @]
    /\ index' = [index EXCEPT ![d] = SubSeq(@, purge[d].index + 1, Len(@))]
    /\ queue' = [queue EXCEPT ![d] = NoMark]
    /\ purge' = [purge EXCEPT ![d] = NoPurge]
    /\ log' = [log EXCEPT ![d] = <<>>]
    /\ seen' = [seen EXCEPT ![d] = {}]
    /\ unmarked' = [unmarked EXCEPT ![d] = Body(d)']
    /\ overtaken' = [overtaken EXCEPT ![d] = @ \/ \E i \in DOMAIN sweep : sweep[i].doc = d]
    /\ UNCHANGED <<edits, flying, merge, timer, job, sweep, running, faults, purges, spoilt>>

\* A statement fails, or PostgreSQL resolves a deadlock with a push or a rebuild.
PurgeFails(d) ==
    /\ purge[d] # NoPurge
    /\ faults < MaxFaults
    /\ faults' = faults + 1
    /\ purge' = [purge EXCEPT ![d] = NoPurge]
    /\ UNCHANGED <<document, queue, timer, job, sweep, running, index, purges, ghosts>>

Rebuild(d) == RebuildReads(d) \/ RebuildCommits(d) \/ RebuildStops(d)

Push(d) == SaveEdit(d) \/ Rebuild(d) \/ PushEnds(d)

PurgeGoesOn(d) == PurgeTakesRest(d) \/ PurgeCommits(d) \/ PurgeFails(d)

Sweep == SweepStarts \/ SweepIndexes \/ SweepMarks \/ SweepEnds

Next ==
    \/ \E d \in Docs : Push(d) \/ QuietPasses(d) \/ PurgeTakesRows(d) \/ PurgeGoesOn(d)
    \/ \E d \in Docs, r \in Runs : TimerFires(d, r)
    \/ \E j \in Jobs : JobSteps(j) \/ JobFails(j)
    \/ Sweep
    \/ SweepAborts
    \/ Restart

\* Requests and transactions end, time passes, the interval keeps firing and every await of
\* the sweep settles.  Nothing is assumed of the debounced calls.
Fairness ==
    /\ \A d \in Docs : WF_vars(RebuildCommits(d) \/ RebuildStops(d) \/ PushEnds(d)
                               \/ PurgeGoesOn(d) \/ QuietPasses(d))
    /\ WF_vars(Sweep \/ JobSteps("queue") \/ JobFails("queue"))

Spec == Init /\ [][Next]_vars /\ Fairness

-----------------------------------------------------------------------------
(* No edit is dropped: every edit of the body raised the mark, and while the mark says
   "all done" every edit was read by some pass that advanced it.  A pass can be torn: a
   rebuild between its two reads hides edits from it, but the push that rebuilds has
   raised the mark past the generation the pass noted.  A deletion takes the mark and may
   leave edits, those committed between its statements and those a rebuild brings back:
   unmarked names them.  When it comes under the sweep's feet, the generation noted for
   the old mark is written into the new one, which counts from one again (overtaken). *)
MarkIsHonest ==
    \A d \in Docs :
        /\ queue[d].pending = Len(log[d])
        /\ Marked(d) = Range(log[d])
        /\ ~overtaken[d] /\ queue[d].indexed >= queue[d].pending => Range(log[d]) \subseteq seen[d]

(* Marks, rows and calls are well formed, and no mark drops an edit (push beside the
   sweep, processPending's conditional advance). *)
MarksAreSound == TypeOK /\ MarkIsHonest

(* Every edit is worked off in the end, whatever fails or restarts, as long as the
   documents that can never be indexed do not fill the batch. *)
MarksAreWorkedOff ==
    \A d \in Docs \ Poison :
        []<>(queue[d].pending <= queue[d].indexed)

\* Nobody has anything left to do for d.
Settled(d) ==
    /\ queue[d].pending <= queue[d].indexed
    /\ flying[d] = {}
    /\ ~timer[d]
    /\ ~Busy(d)

(* Rebuilding the index drops nothing: once nobody has anything left to do for a
   document, every marked edit of its body is in its index rows, whatever was saved,
   rebuilt, deleted, failed or restarted while it was read in two queries and written in
   two.  Two things spoil it, and nothing repairs it afterwards: the sweep indexes the
   document while a call of the timer, which may have read less, is still to write; and a
   call of the timer breaks off after its deletion when the mark already says "done". *)
IndexMissesNothing ==
    \A d \in Docs \ (Poison \union spoilt) :
        Settled(d) /\ ~overtaken[d] => Marked(d) \subseteq UNION Range(index[d])
==============================================================================
