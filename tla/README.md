# ofuro-wiki in TLA+

ofuro-wiki is a self-hosted wiki: a NestJS backend, written for this project, under a
fork of AFFiNE's local-first editor. This directory holds TLA+ modules of the parts of
the backend in which several requests, timers and a failing database meet, and of the
clients on the other side: the one that writes a page's title and tags, the one that
caches the list of pages, and the one that synchronises documents. With them are the TLC
configurations that check them, and TLAPS proofs about the document store, the documents a
workspace keeps for itself, a browser's synchronisation of a document, the search index queue,
the backup, the writes of titles and tags, the list of pages, the audit and the members of a
workspace.

* [1. The system](#1-the-system)
* [2. Modules and the code they model](#2-modules-and-the-code-they-model)
* [3. Runs](#3-runs)
* [4. Proofs](#4-proofs)
* [5. What the runs found](#5-what-the-runs-found)
* [6. Assumptions](#6-assumptions)
* [7. Not modelled](#7-not-modelled)
* [8. Plan](#8-plan)

Paths below are relative to `src/backend/src/modules/` unless they start with `src/`;
`core/` stands for `src/frontend/packages/frontend/core/src/modules/`.

## 1. The system

One Node.js process serves everything: GraphQL, a few REST endpoints and Socket.IO.
State that must survive is in PostgreSQL (Prisma, READ COMMITTED) and in files;
sessions, caches, timers and locks live in the memory of the process. Handlers are
`async`: between two `await`s any other handler may run, and no handler takes a lock on a
document. Documents are Yjs documents: a blob is a bag of updates, and merging is
commutative, associative and idempotent.

| Component | State it keeps | Operations | What makes it correct |
|---|---|---|---|
| Document store (`sync/sync.service.ts`) | `doc_snapshots`, `doc_updates`, the time in `doc_meta`, the mark in `search_index_queue` | pushUpdate (with rebuildSnapshot), loadDoc, deleteDoc, getDocTimestamps | a committed update stays readable; a merge never undoes a newer write; a reader gets all of the document |
| Document history (`doc/`) | `doc_histories` | the hourly saveHistory, recoverDoc | a recovery holds; a saved version is one the document had |
| Permanent deletion (`discovery/doc-gc.service.ts`, `workspace/workspace.service.ts`) | none of its own | purge, deleteWorkspace | nothing of the document is left, nothing comes back |
| Internal document API (`doc/internal-doc.controller.ts`) | none | upsertDoc from Markdown | enters the page in the root document and the folders and keeps what is in them |
| Search index (`search/`) | `search_index`, the marks, the debounce timers, the flag `running` | scheduleIndex, tick, processPending, indexDocument | every edit gets into the index, whatever fails |
| Backup and restore (`backup/`, the restore mode of `sync/sync.gateway.ts`) | `backup_records`, ZIP files, `activeJob`, `_restoreMode` | startBackup, createFullBackup, deleteBackup, pruneOldBackups, restoreFromBackup, onModuleInit | one job at a time; records and files agree; a good backup remains; synchronisation stops and comes back |
| Ledger writes (`discovery/doc-meta-write.service.ts`) | `doc_meta`: title, trash and tags, each with a revision | createDoc, setTitle, setTrash, changeTags | compare-and-set: nobody's write is silently overwritten |
| Discovery (`discovery/discovery*.ts`) | the revision of a workspace's list | snapshot, bump, notifyChanged | an older list is never cached as a newer one |
| Root-document cleaner (`discovery/index-purge.service.ts` and audits) | none | purgeWorkspace | entries are dropped only when the ledger has them |
| Client's ledger writes (`core/discovery/`) | a queue per field, writes kept for resending, the revisions heard of, the cached list | created, setDocMeta, resendAll, keepPending, revertToServer, hydrate | a title or a tag is not lost with a request or an answer, and does not overwrite what its author has not seen |
| Client's list of pages (`core/discovery/services/discovery.ts`, `core/doc/stores/docs.ts`) | the cached list, shared by the tabs of a browser | load, watchServerDocs | a list kept for offline use is not older than it says, and not kept for one who lost access |
| Client's document synchronisation (`src/frontend/packages/common/nbstore/src/sync/doc`) | clocks of documents, jobs | connect, pull, push, save | what is typed reaches the server, what others store reaches the browser |
| Gateway (`sync/sync.gateway.ts`) | rooms, access caches, awareness, the documents each connection has checked for the audit | join, push, load, delete, awareness | nobody reads on after access was taken away |
| Members and invitations (`workspace/`) | `workspace_members`, invitations | invite, accept, transfer, leave, remove | there is always one owner |
| Permissions (`permission/`) | roles per document | effective role | the table in `src/docs/doc-permission.md` |
| Sign-in and intrusion detection (`auth/`, `security/`) | sessions, failure counters | login, lockout | the counter cannot be bypassed by concurrent tries |
| Audit (`audit/`, recordEditAudit of the gateway) | audit rows, a window per user and document | recordEditAudit, track, flush, onModuleDestroy | every edit is counted once, a failing audit loses no edit |

They interact by calls inside the process (the gateway calls the store, the store raises
a mark the search queue works off), by shared tables (`doc_meta` and
`doc_snapshots` have several writers each), by events to the clients (a broadcast says only *that* something
changed) and by timers. What is hard about them:

* **Read, await, write.** rebuildSnapshot, saveHistory, recoverDoc, indexDocument and
  upsertDoc read, wait, and write what follows from what they read. Only
  rebuildSnapshot checks on writing that what it read is still there.
* **Stamps as versions.** A snapshot's version is the millisecond it was written.
* **Two roads to one place.** A debounce timer and a periodic sweep index the same
  documents; a scheduled and a manual backup, and any number of restores, want one lock.
* **Requests that fail half way.** A push may be stored and yet be answered with an error.
* **Requests that are given up.** A client resends what it has no answer to; the first
  request may still be served, before or after the second.
* **Restarts.** Timers, locks, flags and the restore mode are gone; records and marks
  are not.
* **Deletion.** A purge leaves no tombstone that a late writer could meet, and each of its
  statements sees what is committed by then (READ COMMITTED). The deletion
  of a workspace does: the foreign key.

Every place where this bites is listed at its line in `PROJECT.json` under `hazards`.

## 2. Modules and the code they model

```
DocBody  <== implemented by ==  DocStore  <-- EXTENDS --  DocStoreProofs (TLAPS)
WorkspaceDocs  root document, folders and a page under upsertDoc, the cleaner and pushes
               <-- EXTENDS -- WorkspaceProofs (TLAPS)
DocPeer        a browser's synchronisation of a document, composed with the server's
               pushUpdate, loadDoc and getDocTimestamps (takes DocStore's rebuild whole)
               <-- EXTENDS -- ClientProofs (TLAPS)
IndexQueue     the marks, the sweep and the debounced indexer beside pushes, rebuilds and
               the statements of a permanent deletion
               <-- EXTENDS -- IndexQueueProofs (TLAPS)
Backup         lock, records, files, pruning, restore mode
               <-- EXTENDS -- BackupProofs (TLAPS)
TitleWrite     a page's title: the server's compare-and-set and the clients' queues
               <-- EXTENDS -- TitleWriteProofs (TLAPS)
TagWrite       its tags: operations, retried at the server and merged at the client
               <-- EXTENDS -- TagWriteProofs (TLAPS)
Discovery      the list of pages: revision, notice, load, cache and the other tabs
               <-- EXTENDS -- ClientProofs (TLAPS)
EditAudit      the records of who made and edited a document: windows, timers, the stop
               <-- EXTENDS -- EditAuditProofs (TLAPS)
Membership     roles, the owner, invitations by mail and by link
               <-- EXTENDS -- WorkspaceProofs (TLAPS)
MC*            small instances
```

A body is the set of the updates merged into it, which is what commutative and
idempotent merging leaves of a Yjs blob. A request is a record with a program counter;
what the record holds are the local variables that live across an `await`.

### DocBody - what the store promises

Four variables: the body a reader is owed, the saved versions a recovery may put back,
everything ever stored, and what was stored before the last deletion. An update
arrives, a version is saved or put back or forgotten, a deletion empties the body.
`Revive` is the one leak (section 5).

### DocStore - the tables and everybody who writes them

| Action | Code |
|---|---|
| `PushArrives`, `PushStores`, `PushCounts`, `PushFails` | `SyncService.pushUpdate`: `now` is taken; one transaction of row, mark and ledger time; the count; an error at any await |
| `RebuildReadsSnapshot`, `RebuildReadsRows`, `RebuildFindsNothing`, `RebuildCommits`, `RebuildSkips` | `SyncService.rebuildSnapshot`: the two reads, the merge, and the transaction whose `updateMany` is conditional on the version read (`MayWriteSnapshot`); when it writes nothing the rows stay |
| `SaverReads`, `SaverCommits`, `SaverPasses` | `DocHistorySchedulerService.saveHistory` for this document |
| `RecoverReads`, `RecoverCommits`, `RecoverFails` | `DocHistoryService.recoverDoc` |
| `CreateDocDates`, `CreateDocInserts`, `WriteMetaDates`, `WriteMetaCommits`, `WriteFails` | the other writers of the ledger row. Prisma's `@updatedAt` dates the row in the process, PostgreSQL writes it later |
| `Purge` | `DocGcService.purge` |
| `DeleteWorkspace` | `WorkspaceService.deleteWorkspace` and its cascade |

`tables` are PostgreSQL; `push`, `recover`, `saver` and `write` are the memory of
requests; `owed`, `stored`, `erased` and `tracked` are ghosts that no action reads to
decide what to do. `Versions`, which the refinement maps to those of DocBody, is the
history and what a recovery that has begun has read from it. A transaction is one step where its row locks make it one: two
rebuilds, or a rebuild and a recovery, both write the one snapshot row first, so the
second waits for the first and then re-evaluates its condition.

### WorkspaceDocs - the documents a workspace keeps for itself

| Action | Code |
|---|---|
| `PushInserts`, `PushCommits`, `PushEnds` | `pushUpdate`: the row takes its id on the insert and is seen on the commit; an error at any await |
| `RebuildReadsSnapshot`, `RebuildReadsRows`, `RebuildCommits` | `rebuildSnapshot`, on each of the documents |
| `UpsertBegins`, `UpsertReads`, `UpsertReadsRows`, `UpsertWrites`, `UpsertClears`, `UpsertFails` | `InternalDocController.upsertDoc`: the page, then the root document, then the folders, each read, written and rid of its rows by statements of their own. The root document is read from its snapshot alone, the folders whole, the page not at all |
| `CleanerReads`, `CleanerReadsRows`, `CleanerCommits`, `CleanerStops` | `IndexPurgeService.purgeWorkspace` with its boundary, and the transaction of `commit` |

A document is a set of items: the updates pushed to it, and the entries of posted pages.
`before` and `excused` are ghosts. `excused` names what the known races may break, each by
the step that is the race, so that the properties can say that nothing else breaks.

### DocPeer - a browser's synchronisation of one document

| Action | Code |
|---|---|
| `Dates`, `Commits`, `Rebuilds`, `Broadcasts`, `Answers`, `PushFails` | a push at the server: `now`, the transaction, the rebuild, then the answer to its sender and the broadcast to the others, or an error without either |
| `OthersPush`, `OtherDocumentMoves` | another client, which pushes again what failed; the other documents of the workspace, by the highest of their times |
| `LocalEdit` | the user types: the store in the browser takes a time, the peer hears of it |
| `Subscribes`, `Asks`, `TellsSnapshots`, `TellsRows`, `StoresTime`, `Runs` | `retryLoop` up to the jobs, with the two queries of `getDocTimestamps` and the clocks stored one by one |
| `Connects`, `LoadReads`, `LoadFails`, `LoadMerges`, `LoadNotes` | the jobs `connect`, `pull` and `pullAndPush`, with the two queries and the time of `loadDoc` |
| `Pushes`, `Saves`, `SaveNotes` | the jobs `push` and `save`; waiting ones are taken as one |
| `PeerDisconnects`, `Crashes` | `mainLoop` resets the status and tries again; what is stored in the browser stays |

`PeerSpec` and its parts carry the component's name, because `ClientProofs` extends Discovery too.

### TagWrite - tags by operations

The actions are those of TitleWrite for a field that no revision turns down:
`ServerReads`, `ServerWrites` and `ServerIsBeaten` are one attempt of `changeTags`
(`TAG_WRITE_ATTEMPTS`), `Diff` is `diffTags`, `Merged` is `mergeTagOps`, and `Discarded`
says which kept operation an answer throws away. An operation carries the edits it is
made of, a ghost, so that the properties can follow an edit through merging and resending.

### Discovery - the list of pages and its cache

| Action | Code |
|---|---|
| `Writes`, `Raises`, `RaiseFails`, `Notifies` | a change of the ledger, of roles or of members, then `DiscoveryRevisionService.bump`, then the notice to the workspace's room |
| `Joins`, `Disconnects`, `Restart` | the tab's socket and the process |
| `Triggers`, `Reloads`, `OtherTabLoads` | what makes `watchServerDocs` load, in this tab and in the others; `switchMap` drops the result of the load before, not its work |
| `UsesCache`, `Requests`, `IsRejected`, `LoadBreaks`, `Stores` | `DiscoveryService.load` with `decideDiscoverySource`, and the cache |
| `SnapshotDates`, `SnapshotLists`, `SnapshotFilters` | `DiscoveryService.snapshot`: the revision first, then the ledger, then who may read what |
| `WatchEmits` | the cache is watched: what any tab stores is shown |

`due` is a ghost: what was in the tables when a revision was made.

### IndexQueue - marks, sweep and debounce

| Action | Code |
|---|---|
| `SaveEdit`, `PushEnds` | a push as the index sees it: row and mark in one transaction, and at the end `scheduleIndex` (or an error before it) |
| `RebuildReads`, `RebuildCommits`, `RebuildStops` | `SyncService.rebuildSnapshot` within a push: the reads, the transaction conditional on the version read, or nothing (another version, an error) |
| `QuietPasses` | `pendingAt` is more than `QUIET_MS` ago |
| `TimerFires` | the `setTimeout` of `IndexerService.scheduleIndex` |
| `ReadsSnapshot`, `ReadsRows`, `DeletesOld`, `InsertsNew`, `JobFails` | `IndexerService.indexDocument`, one await each, for the timer and for the sweep |
| `SweepStarts`, `SweepIndexes`, `SweepMarks`, `SweepEnds`, `SweepAborts` | `SearchIndexQueueService.tick` and `processPending`: the flag, the batch with the generations noted, and per document the pass and the conditional advance of the mark |
| `PurgeTakesRows`, `PurgeTakesRest`, `PurgeCommits`, `PurgeFails` | `DocGcService.purge`: the deletion of the rows, those of snapshot, history, ledger and index rows, that of the mark with the commit, and a statement that fails |
| `Restart` | memory is lost, a deletion not committed is undone |

A deletion's statements each see what is committed by then. `purge` is what they have
deleted so far: it is locked, nobody sees it gone before the commit, and what comes in behind a
statement stays. So a push that commits between the first statement and the last keeps its
row and loses its mark, and a rebuild that read before the deletion writes back what nobody
will mark. The ghost `unmarked` holds exactly these edits: it is set by `PurgeCommits` to
what is left of the body, and a rebuild adds what was not in the body any more. `Marked(d)`
is the rest of the body, and `MarkIsHonest` says that it is what the mark counts. A
snapshot is told by its content; the version is that of DocStore.

### Backup - one lock, records, files

| Action | Code |
|---|---|
| `AcquireJob`, `ReleaseJob` | `acquireJob`, `releaseJob` of `ScheduledBackupService` |
| `BeginBackup` ... `MarkingFails` | `startBackup` / `createFullBackup`, `beginBackup`, `runBackupJob` with every await that may throw, and the handler of that error, which may fail itself |
| `PruneReads`, `PruneEnds`, `PruneFindsNothing` | `pruneOldBackups`, which a scheduled backup that completed goes on to |
| `DeleteReads`, `DeleteUnlinks`, `UnlinkFails`, `DeleteRow` | `deleteBackup`, for administrators and for the pruning |
| `RestoreEnters` ... `ExitRestoreMode` | `BackupController.restoreBackup` with its `finally`, `restoreFromBackup`, `enterRestoreMode`, `exitRestoreMode` |
| `Restart` | the process stops; `onModuleInit` fails the records left running |

`backup_records` is excluded from the dump (`backup/scheduled-backup.service.ts:139`),
so a restore does not touch the records, and the model leaves them alone.

### TitleWrite - one title, several writers

| Action | Code |
|---|---|
| `UserCreates`, `UserTypes` | `DocMetaWriteService.created` of the client, and `setDocMeta`: shown at once, planned with the revision known, queued |
| `SendsCreation`, `SendsEdit` | `FieldQueue`'s loop and `sendOne`, behind the gate of the creation (`createGates`), on the revision `refresh` puts under the edit |
| `Resends`, `ResendFindsNothing` | the task of `resendAll`, which reads the kept entry again when its turn has come |
| `ServerCreates` | `DocMetaWriteService.createDoc` of the server, an upsert that leaves a row alone |
| `ServerReads`, `ServerWrites`, `ServerIsBeaten`, `ServerRereads`, `ServerRefuses` | `writeValueField`: the read with its early answers, the conditional `updateMany`, `staleFrom`, and `requireUpdate` |
| `GetsCreated`, `GetsAnswer`, `GetsRefusal` | the client on each result of a mutation |
| `RevertReads`, `RevertApplies` | `revertToServer` with `fetchServerMeta` |
| `Fails` | the request or its answer is lost: `keepPending`. The server may come to the request afterwards |
| `ListReads`, `ListApplies`, `CacheApplies` | a list is read; `hydrateRevisions`, `hydrateMetaCache` and `resendPending` on a list; the first two when the watched cache changes |

`row` is the server's. Everything indexed by a client is that client's tab, except what
is kept for resending (`pending`, `unsent`), which the code stores. `requests` are mutations with a
program counter. `log`, `told` and `answered` are ghosts: who made each revision, what
each client has heard of, which of its edits were answered.

### EditAudit - who made and edited a document

| Action | Code |
|---|---|
| `Receive`, `Asks`, `Creates`, `CreateFails`, `Counts`, `AuditThrows` | `SyncGateway.recordEditAudit` in a push, with the two queries of `isNewDoc`, the record `doc.create`, and `track`; what throws is caught and the push goes on |
| `Stores`, `StoreFails`, `Rebuilds` | the push itself, as `isNewDoc` sees it: something is in the rows, or has been moved into the snapshot |
| `TimerFires`, `Records`, `RecordFails` | `DocEditAggregator.flush` by the window's timer: the window leaves the map before the record is awaited |
| `Stop`, `StopTakes`, `Exit` | `onModuleDestroy`: the keys are taken once, each is flushed and awaited; requests are still served meanwhile |
| `Crash`, `Start` | the process goes without a stop, or comes back |

A window is the set of the pushes it counts. `missed`, `lost`, `promised` and `doubted` are
ghosts; `lost` has the edits that left memory without a record. The
deletion of a document is left out, and so are the other records of the audit log.

### Membership - who belongs to a workspace

| Action | Code |
|---|---|
| `Calls`, `Guard`, `Fails` | a mutation of `WorkspaceResolver` behind `WorkspaceMemberGuard`, with the role `@WorkspaceRole` asks for; it may fail at any await |
| `GrantReads`, `GrantWrites` | `grantMember`: the role is read once more, then one update, or the transaction that hands the workspace over |
| `Removes`, `LeaveReads`, `LeaveDeletes` | `removeMember`; `leaveWorkspace` with its look at the owner |
| `InviteFinds`, `InviteCreates`, `InviteAdds` | `inviteByEmail`: whoever has an account is a member at once; the mail stands all the same |
| `LinkClears`, `LinkCreates`, `Revokes` | `createInviteLink`, `revokeInviteLink` |
| `AcceptReads`, `MailAdmits`, `LinkCounts`, `LinkAdmits` | `acceptInvite`: the judgement (`judgeInvitation`), then the transaction. A mail is deleted, which locks its row and makes the transaction one step; a link is counted, which does not |
| `Expires`, `SignsUp` | time passes; somebody makes an account |

`ownerId`, `role` and `invites` are tables; `slot` are the requests at work. `uses` and
`stale` are ghosts: how often a mail has brought somebody in, and whether a request has
written on a role or owner that was not so any more. `MembershipSpec` and its parts carry the
component's name, because `WorkspaceProofs` extends WorkspaceDocs too.

## 3. Runs

| Run | Instance | Distinct states | What it shows |
|---|---|---|---|
| `docstore` | 2 pushes, 1 recovery, 2 ledger writers, the history job, 1 purge, workspace deletion, threshold 1 | 911 894 | `NothingLost`, `NothingUndone`, `LedgerKeepsUp`, `WorkspaceTakesAll` hold and the tables implement `DocBody` |
| `docstore_erase` | 3 pushes, 1 recovery, 1 purge, threshold 2 | stops | `ErasedStaysErased` is violated |
| `wsdocs` | 3 of: 2 pushes to the root document, 1 to the folders, 1 to a page, 2 posted pages; 1 run of the cleaner; threshold 1 | 871 330 | `EntriesAreSound`, `PostedIsEntered` and, of steps, `CleaningIsExact` and `PostingKeepsFolders` hold |
| `wsdocs_cleared` | the same without the cleaner, threshold 2 | stops | `ClearedIsMerged` is violated |
| `peer` | 1 update typed here, 1 by another, 2 failures, breaks, crashes, rebuilds or writes of other documents | 377 891 | `NotesAreSound` and the liveness `EditsReachServer` and `CatchesUp` hold |
| `index` | 2 documents (one cannot be indexed), 2 edits, 1 debounced run, 1 fault or restart, 1 purge of the other | 886 843 | `MarksAreSound`, `IndexMissesNothing` and the liveness `MarksAreWorkedOff` hold |
| `backup` | 2 backups, 2 restore requests, 1 administrator, the pruning, 1 restart | 89 700 | `RecordsAreSound`, `GoodBackupStays` and the liveness `SyncComesBack` hold |
| `title` | 2 clients, one creates; 3 edits, 1 fault, 1 list | 604 613 | `EditsAreSound`, `ResendSeesConflicts`, `TypedOrder` and, of steps, `NoBlindOverwrite` hold |
| `tags` | 2 clients, 2 tags, 3 edits, 2 attempts, 1 fault, 1 list | 732 657 | `TagsAreTheOperations`, `KeptUntilAnswered` and `WordsInOrder` hold |
| `discovery` | 1 edit, the removal of the user, 2 loads nobody asked for, 2 loads at a time, 2 faults | 210 318 | `ListIsHonest` and the liveness `ListConverges` and `RejectedListIsGone` hold |
| `edits` | 2 pushes over the connections of 2 users, of a page or the root document; 2 failed queries, repeated pushes or crashes | 139 661 | `CountsAreSound`, `MakingIsRecorded`, of steps `StopKeepsItsWord`, and the liveness `AuditFailsOpen` and `CountsAreRecorded` hold |
| `members` | the creator, a member, one without an account; 2 invitations, 4 requests, 2 at a time | 1 103 565 | `MailsWorkOnce`, `OwnerIsOne` and, of steps, `DeadInvitationsAdmitNobody` hold |

Every run checks the types of the module's variables, by `TypeOK` (`MembershipTypeOK`) or, with the invariants
that say what must agree in the tables, as a part of `MarksAreSound`, `RecordsAreSound`,
`EditsAreSound`, `NotesAreSound`, `EntriesAreSound` and `CountsAreSound`. The parts have names
and comments of their own (`MarkIsHonest`, `LockMatchesWork`, `NewestIsKept` and so on).

**Why the bounds are enough.** With a threshold of one every push rebuilds, so two
pushes already give two overlapping rebuilds, the case the version check is for; a
recovery between them is the case that would be undone. Two ledger writers let a write
be dated before and stored after another. What the instance cannot show, three
overlapping rebuilds or another threshold, the proofs of section 4 cover. In
`index`, two edits of one document let one arrive during the pass over the other, and
one poisoned document makes the batch contain a failure every time; either edit may be
pushed between the statements of the purge or be brought back after it by a rebuild, and the
other be indexed around it (only the document that can be indexed is in `Purged`: of the
other nothing but types and marks is claimed); `BatchSize` is
larger than the number of poisoned documents because the code needs that (section 6).
In `backup`, two records let one be pruned while the other is at work or just done, and
two restores let one be refused while the other writes. In `title`, three edits let two
wait in one queue while the other client writes, or one be kept and merged with the
next; one fault is a lost request, a lost answer, a request served after it was given
up, or a refusal; one list may be applied at any time and again later, so that a stale
one is covered. In `tags`, three edits of two tags let a second one be kept and merged while
the first is at the server, and with two attempts an operation can be beaten once and
succeed, or be beaten for good. In `wsdocs`, three requests and the cleaner let a push
commit late, another rebuild and a page be posted around it; one posting overlaps another
at every statement. In `peer`, two events let a broadcast be missed and a clock stored
half way, or a load fail and the socket break after it; one update of each side suffices
because a batch is taken as one. In `discovery`, two loads at a time are a load given up,
or another tab's, beside this tab's own. In `edits`, two pushes let one be counted
while the record of the other is awaited, or while the process stops. In
`members`, four requests let a mail be sent, accepted, its user removed and accepted again,
or a transfer run between the two statements of another request; two at a time are enough for
each race, and the theorems of section 4 hold for any number.
`MaxPurges`, `MaxEdits`, `MaxFaults`, `MaxLists`, `MaxBackups`, `MaxRestarts`,
`MaxRequests`, `MaxCalls`, `MaxCleanings`, `MaxEvents`, `MaxTriggers` and `MaxLoads` only cap counters,
each in the guard of the action that counts.

**Symmetry** is used in `docstore` and `docstore_erase` (pushes, writers), `tags` (clients,
tags), `wsdocs` (posted pages) and `members` (invitations, requests), and only with safety
properties. **Deadlock** is not checked anywhere: every instance
has a finite number of requests, and a server that has answered them all may stop.

**Fairness.** None in DocStore, WorkspaceDocs, TitleWrite, TagWrite and Membership: their properties are about what never
happens. IndexQueue
assumes weak fairness, of each document, of the end of push requests, their rebuilds and deletions
(queries and the driver time out) and of the passing of `QUIET_MS`; and of the sweep with its calls of
indexDocument (`setInterval` keeps firing, an await settles one way or the other). It
assumes nothing about the debounce timer and its calls: the marks alone must do. Backup assumes it of the
steps of the backup at work (child processes, file operations and queries end, with or
without an error) and of those of a restore request; nothing makes an administrator,
the night or the pruning come. Discovery assumes it of the queries of loads and of bump,
of the debounce that lets a notice through, of the watched cache, and of the socket, which
the client opens again; a change is up to the users. DocPeer assumes it of handlers,
which answer or fail, of the loop, which is tried again five seconds after a break, with
its jobs, and of other clients, which push again what failed after it was stored; nobody
has to type. EditAudit assumes it of the handlers of pushes (queries end, with or without
an error), of the windows' timers while the process lives, of the records, and of a stop
that has begun; nobody has to push or to start the process again.

**Mutants.** For every property of a passing run, `PROJECT.json` names a change of one
definition that a plausible bug would make, and the run then finds the property
violated: a blind write in place of the version check, deleting all rows in place of
those merged, a mark advanced to the newest generation, a lock taken without looking,
and so on. Each is defined in its module, before the definition it mutates.

## 4. Proofs

`DocStoreProofs` proves, for every set of updates, recoverers and writers, every
threshold, either kind of document and any number of purges:

| Theorem | Statement |
|---|---|
| `TypeCorrect` | `Spec => []TypeOK` |
| `NoUpdateIsLost` | `Spec => []NothingLost` |
| `NoRecoveryIsUndone` | `Spec => []NothingUndone` |
| `LedgerIsCurrent` | `Spec => []LedgerKeepsUp` |
| `WorkspaceDeletionIsTotal` | `Spec => []WorkspaceTakesAll` |
| `TablesImplementBody` | `Spec => ImplementsDocBody`, the refinement of DocBody |

None of the four safety properties is inductive alone. A rebuild deletes the rows it
read and relies on the snapshot it is about to write; that this loses nothing depends on
what the rebuild knew when it read, long before. The inductive invariant `IInv` adds:

* `StampsKnown`, `StampsFresh`: no stamp in anybody's hands was handed out twice, and
  the stamp of a pending write was never read by anyone;
* `VersionsAgree`: therefore a rebuild whose version still matches read the very
  snapshot that is stored, and the rows it read are still there, or belonged to
  something that was erased;
* `AbsentIsEmpty`: the version "no snapshot" means an empty one;
* `OnlyStored`: whatever anybody holds was stored once, so what a late writer brings
  back after a purge is erased content and nothing else;
* `LedgerTracks`: an update is tracked only while the ledger has a row.

`VersionsAgree` is where it would break: with the blind write in place of
`MayWriteSnapshot` a rebuild deletes rows whose content only the overwritten snapshot had.
The refinement needs `IInv` too: that a rebuild is a stutter of the body is
`VersionsAgree` again. The assumption on the constants is that the threshold is a
positive number; the proofs do not use its value.

`TagWriteProofs` proves, for every set of clients and of tags, and every number of edits,
attempts, faults and lists:

| Theorem | Statement |
|---|---|
| `TypeCorrect` | `Spec => []TypeOK` |
| `NoOperationIsLost` | `Spec => []TagsAreTheOperations` |
| `NoEditIsForgotten` | `Spec => []KeptUntilAnswered` |
| `LastWordCounts` | `Spec => []WordsInOrder` |

`changeTags` writes a set it computed before. What makes it the operation applied to the
row it replaces is `ReadingAgrees`: the revision only grows, so a request that finds the
revision it read finds the tags it read; with the check dropped (`MayWriteUnchecked`) this
is what no longer follows. `OneAtWork` says that a client waits for one request, which is
the head of its queue, so that an answer has something to remove; one that was given up
gets no further than the server. `QueuesAreSound` says that no operation puts on and takes
off one tag, so that the order of its two halves does not matter.

The last two theorems follow the edits through queues, merging and resending, and need half a
dozen facts at once (`Edits`). A client's edits leave its queue in the order they were typed
(`QueueInOrder`, `QueueIsLater`), the request it waits for is the head of the queue or what it
keeps (`LiveIsHead`), and an operation, however often merged, puts on and takes off what the
latest of its edits say (`OpsAreSpelled`). What decides is `KeptIsLatest`: about a tag that something
kept is about, no later edit was ever sent than the latest kept, but for the one at the head of
the queue. Without it a resend could take back a word said after it: it breaks when the answer to
a fresh edit leaves what was kept before it (`DiscardedByResend`).

`TitleWriteProofs` proves, for every set of clients and of titles, and every number of edits,
faults and lists:

| Theorem | Statement |
|---|---|
| `EditsAreKept` | `Spec => []EditsAreSound` |
| `TypedOrderHolds` | `Spec => []TypedOrder` |
| `ResendsReplaceWhatWasSeen` | `Spec => []ResendSeesConflicts` |
| `NobodyOverwritesBlindly` | `Spec => NoBlindOverwrite` |

The server accepts a title only when it is based on the latest revision. That this makes an
overwrite a knowing one is `RevisionsAreTold`: whatever revision a queue, a kept write or a
request goes by, its client was told of, and nothing is told before it is so.

The order of titles is harder than that of tags, because a request that was given up may
still be served, before or after its resend. `CurrentIsLater` says that a request on the latest
revision has an edit later than any its client has in the log; it is what an accepted write
needs, and it must survive that others are accepted meanwhile, that a base is renewed from
an answer, and that a list brings a newer revision. Beside the counterparts of the facts about
tags (`QueueIsLater`, `KeptIsLatest`, `LiveIsHead`, `OneAtWork`) it rests on `LogIsTyped`: an
accepted edit was typed before it was accepted, and a resend replaces only a revision told
when its edit was typed. An edit that was served after it was given up is in the log at a
higher revision than that, so its resend finds another base and is refused.

`CreationIsKept` follows the making of a page, whose title waits until there is a row. The log holds
no edit twice, which by counting gives `RoomToWrite`: there are never more revisions than edits
and the creation.

`ClientProofs` proves of Discovery, for every finite set of changes and any number of loads
and failures:

| Theorem | Statement |
|---|---|
| `TypeCorrect` | `Spec => []TypeOK` |
| `NoListIsOlderThanItSays` | `Spec => []ListIsHonest` |

`GoodLoad` follows a load from query to query: when it filters it has the edits of its
revision, when it stores it has everything of it. That the later queries may only add rests
on `RevisionsGrow`: what was in the tables when a revision was made stays in them. That the
changes are finitely many is needed for `RaisedOnce`, which bounds the revision by the
number of changes that raised it.

Of DocPeer it proves, for any edits typed here, any pushes of others and any number of breaks:

| Theorem | Statement |
|---|---|
| `NotesAreTrue` | `PeerSpec => []NotesAreSound` |

The note of a push is a time, and says something of every edit typed up to it, not only of what
the push carried; nothing in it shows an edit that was left out. `PushTakesAll` is that when a note
is about to be made, and `LoadTakesAll` its beginning: a load reads the local body at a time, and
has every edit up to that time. Both rest on `NothingIsSkipped`: while the peer listens, an edit
that was typed is stored at the server, in the push that is waited for, in the job of the next push,
in the diff that a load in progress will push, or the document has yet to be compared. It is about
listening peers only, because a break forgets the jobs; then the document is connected anew
before anything is pushed (`ConnectsFirst`). `RequestsAreSound` has at most one push of this
browser under way, so that the answer is to the push that was sent.

`WorkspaceProofs` proves of WorkspaceDocs, for any updates, posted pages and entries, any threshold, and
any number of requests and runs of the cleaner:

| Theorem | Statement |
|---|---|
| `CleanedTitlesStayOut` | `Spec => []EntriesAreSound` |
| `PostedPagesStayEntered` | `Spec => []PostedIsEntered` |
| `CleaningTakesWhatItRead` | `Spec => CleaningIsExact` |
| `PostingKeepsTheFolders` | `Spec => PostingKeepsFolders` |

`VersionsTell` is what `VersionsAgree` is in DocStore: a rebuild or a cleaner that finds the version
it read finds the snapshot it read. `CleanedIsGone` adds that no row, and no rebuild that may still
write, has a title the cleaner took out; `LateIsNamed` that every row below the boundary was read or
came late. `upsertDoc` asks for no version. What it overwrites is safe only as long as it runs
alone: `PostedStands` and `ReadersHavePosted` say that whoever is about to write has read the pages
others have entered, and `MixedIsNamed` that requests that did run together are named in
`excused`. `FoldersAreKept` follows what the folders held through the two reads, the write and the deletion of
the rows; it is the step from the reads to the write that a request for the root document,
which reads the snapshot alone, does not have (section 5).

Of Membership it proves, for any users, members, invitations and number of requests:

| Theorem | Statement |
|---|---|
| `TypeCorrect` | `MembershipSpec => []MembershipTypeOK` |
| `MailBringsInOnce` | `MembershipSpec => []MailsWorkOnce` |
| `OnlyTheInvitedComeIn` | `MembershipSpec => DeadInvitationsAdmitNobody` |
| `OneOwner` | `MembershipSpec => []OwnerIsOne` |

The tables alone are not inductive, because a request writes on what it read before.
`AcceptsOK` says that an acceptance keeps to the addressee it has read of a row that is
still there, which needs `RowsOK` (ids are never given out twice) and that a link counted is
a link; `SlotsOK` says that nobody changes his own row, without which a transfer to oneself
would leave no owner. `RowsKept` and `RequestKept` are proved once of every step, and the
three follow from them. `MailsOK` adds to `MailsWorkOnce` that a mail not yet sent was not
used.

`IndexQueueProofs` proves, for any documents and batches, finitely many calls of
indexDocument, and any number of edits, faults and purges:

| Theorem | Statement |
|---|---|
| `NoMarkDropsAnEdit` | `Spec => []MarksAreSound` |
| `SettledIndexIsWhole` | `Spec => []IndexMissesNothing` |

A pass reads a document in two queries while anybody may push and rebuild. The argument is
that the mark says when nobody did: if no edit has come since the sweep noted its generation
(`Passing`), then the document was quiet at that time, no push of it is in flight, nobody rebuilds
it (`MergesAndEdits`: a rebuild belongs to a push in flight), and what is marked of its body
stands still (`MarksAndNotes`, `StillBody`), so that the two queries together see all of it
(`StillIsRead`). The mark advances to the generation that was noted and no further, so that it says
"done" only when no edit came after. `StillIsIndexed` carries what was
read into the index, or into the call that is yet to insert it; that two calls of one document
may delete and insert in any order is why `IndexMissesNothing` leaves out what is `spoilt`.
A deletion takes the mark with everything marked: nothing marked is left when it commits,
whatever else is (`PurgeCommitsInvariant`), and a rebuild that commits after it adds
nothing marked (`RebuildCommitsInvariant`). Edits are numbered in the order they are saved, and no
merge or deletion holds a number to come (`MergesAndEdits`), so that a new edit is always marked.

`BackupProofs` proves, for any number of backups, restores, restarts and administrators:

| Theorem | Statement |
|---|---|
| `LockRecordsAndFilesAgree` | `Spec => []RecordsAreSound` |
| `LastGoodBackupIsKept` | `Spec => []GoodBackupStays` |

`RecordsAreSound` says that every ZIP file has a record, not that every completed record has its
file: a deletion removes the file first and may fail on the record. Lock, record and file are
written at different awaits. `LockIsHeld` says whose the lock is;
`JobOwnsRecord`, that the record of the backup at work is the newest, not aged, and says what the
backup has done so far; `DeletionsApart`, that a deletion has hold of a finished record. An entry of the
pruning's list stays old while it waits. `PruningSpares` says that there is a good backup outside
the list, the one whose completion let the pruning begin or a later one, as long as no
administrator has deleted a good one.

`EditAuditProofs` proves, for any pushes, users, connections and documents, and any number of
faults:

| Theorem | Statement |
|---|---|
| `EveryEditCountsOnce` | `Spec => []CountsAreSound` |
| `StopAwaitsItsRecords` | `Spec => StopKeepsItsWord` |
| `EveryMakingIsRecorded` | `Spec => []MakingIsRecorded` |

A counted edit is in exactly one of a window, a flight, a record and the losses (`CountedOnce`,
`CountedSomewhere`); what the stop promised is recorded, under way, or in a window whose key it has yet
to come to (`PromisedIsPlaced`). For the making of a document, `AskersAreAlone` says that of the pushes
of a document over one connection at most one asks, because it enters the key before it
awaits; `MakingGoesFirst`, that everything that makes the document look old, a row stored, a
snapshot found or a key entered, comes after a record of its making, or after the one who
is still asking.

Every type invariant, safety invariant and action property of a passing run is a theorem.
Only TLC checks the rest: the liveness properties of IndexQueue, Backup, Discovery, DocPeer
and EditAudit (temporal properties under fairness, and `ENABLED`, are beyond the prover), and
the two violated properties, which do not hold.

## 5. What the runs found

Two have a run of their own; the counterexample is the schedule that shows it.

1. **Erased text comes back** (`docstore_erase`, `sync/sync.service.ts:260`). A rebuild
   reads the rows, the document is purged, the rebuild finds no snapshot and creates one.
   saveHistory and recoverDoc do the same with what they read before. Deleting the
   workspace is safe, because the foreign key stops every late writer (`WorkspaceTakesAll`).
2. **A posted page deletes changes of the root document** (`wsdocs_cleared`,
   `doc/internal-doc.controller.ts:152`). The root document is rewritten from its snapshot
   alone, and then its rows are deleted. Up to `SNAPSHOT_THRESHOLD` updates of clients are
   lost although nothing runs beside the request. (The folders are read whole.)

The other races met while modelling have no violated run. The passing runs contain them,
and the properties name them as exceptions or say what is left beside them:

* *Another user's title is overwritten* (`core/discovery/services/doc-meta-write.ts:627`). Two
  edits wait, another title is stored, the first edit comes back stale and brings the new
  revision, and `refresh` puts it under the second, which was typed before. The comment at
  `:619-621` of that file rules this out. An edit that is *resent* keeps the revision it was
  typed on and never overwrites (`ResendSeesConflicts`), and nobody overwrites a revision
  his client never heard of (`NoBlindOverwrite`).
* *A document that failed to load counts as empty*
  (`src/frontend/packages/common/nbstore/src/sync/doc/peer.ts:437`). Every error of loadDoc is
  answered `DOC_NOT_FOUND`; the peer connects the document without its content, and the
  clocks it stores afterwards keep it from fetching it later (`unanswered`).
* *A stop loses counted edits* (`audit/doc-edit-aggregator.ts:100`), though the comment at `:40`
  says that a restart loses nothing. The keys are taken once; an edit counted during the
  awaits opens a window nobody closes, and a record a timer has begun is awaited by nobody
  (`lost`). `StopKeepsItsWord` is what does hold.
* *The making of a page is recorded twice* (`sync/sync.gateway.ts:725`), by two connections
  that push it before either push is stored. `MakingIsRecorded` says it of one connection.
* *The owner has left* (`workspace/workspace.service.ts:314`). A member leaves, and the
  workspace is handed to him between the look at the owner and the deletion: nobody may
  invite, remove or grant any more, except server administrators (`stale`).
* *Two invitation links stand* (`workspace/workspace.service.ts:440`), though the comment above
  it says one: two requests both clear before either inserts. Only the newest is shown.
* *loadDoc and getDocTimestamps are torn* (`sync/sync.service.ts:30`, `:308`): a push dated
  before and committed after a time the client is told stays below its clock. `CatchesUp`
  assumes that pushes of the document are handled one at a time (`OneAtATime`). A crash of
  the browser between two clocks being stored (`cut`) has the same effect.
* *The internal upsert deletes a push of the page* that commits between its statements
  (`doc/internal-doc.controller.ts:124`), and two postings at once lose an entry (`mixed`).
* *The cleaner deletes a row* whose id was handed out before it read and which committed
  afterwards (`late`, `discovery/index-purge.service.ts:256`).
* *The index loses an edit for good* (`spoilt`): the debounced call reads, an edit comes, the
  sweep indexes it and advances the mark, the debounced call writes what it had read
  (`search/indexer.service.ts:60`); or that call breaks off between its deletion and its
  insertion (`:98`). The mark says done.
* *A deletion takes the mark of an edit it leaves* (`discovery/doc-gc.service.ts:35`). A push
  that commits between the first statement of the purge and the last (`:49`) keeps its row;
  its mark is gone, against the comment at `sync/sync.service.ts:139-142`, which rules out a body
  saved without one. After a restart, which forgets the debounce timer, nobody indexes the
  edit. So it is with the text a rebuild writes back (1. above). `unmarked` names these
  edits; `MarksAreSound` says there are no others.
* *A refused restore lets the clients in* (`backup/backup.controller.ts:159`): its `finally`
  ends the restore mode of the restore that is running, against `src/docs/backup.md:127`.
* *A title is answered `not-found`* when the creation it waited for was given up
  (`core/discovery/services/doc-meta-write.ts:336`), and thrown away.
* *An edit is wiped off the screen* (`core/doc/stores/docs.ts:221`): a list's revisions are
  stored before `keepNewerLocal` asks whether something local is newer.
* *A success throws away kept tag operations that were never sent*
  (`core/discovery/services/doc-meta-write.ts:378`), against `core/discovery/merge-pending.ts:20-23`.
  `KeptUntilAnswered` therefore asks for an answer to the edit or to a later one.
* *Loads overlap* (`core/discovery/services/discovery.ts:137`): one that began before a bump
  may store its list over that of one that began after it. `ListConverges` and
  `RejectedListIsGone` assume that this does not happen (`NoOverlap`). A notice sent while
  the socket is broken is not sent again (`behind`).
* *A grant acts on a role that is gone* (`workspace/workspace.service.ts:348`): the caller's
  role is read before the write. Two transfers at a time leave two members with the role
  `owner`. `OwnerIsOne` ends where this has happened (`stale`).
* *A link admits after it was revoked* (`workspace/workspace.service.ts:269`): the count in the
  transaction locks nothing, so that a revocation may commit before the upsert.

## 6. Assumptions

What the models take for granted, and where it could fail:

* *Every `new Date()` has a millisecond of its own.* A rebuild's merge and round trips
  take longer. Two writers of one snapshot in one millisecond would have one version and
  pass each other's check.
* *A transaction is one step* where its first statement locks a row that every transaction it
  could be interleaved with writes as well, or where what commits between its statements leaves the same
  tables as if it had come after it. `DocGcService.purge` is neither for the marks, and
  IndexQueue has its statements. DocStore has it in one step: a push committing between them leaves its
  row and no ledger row, as one after it does, and a rebuild that holds the snapshot's row
  while it waits for the rows is a deadlock, which PostgreSQL ends by failing one of the two.
* *A document has one rebuild and one deletion at a time* (IndexQueue). Of two rebuilds the
  slower is turned down (DocStore); a second deletion waits for the first.
* *A push ends within `QUIET_MS` of its commit* (IndexQueue). A slower one could be
  indexed while its own rebuild is under way.
* *`BatchAssumption`*: fewer documents that can never be indexed than `BATCH_SIZE`. The
  sweep takes the oldest marks, and those of such documents never go away.
* *The calls of indexDocument are finitely many* (`RunsAssumption`), as they are in any
  history of the server; that bounds the rows of the index a document may have.
* *`UpdatesAssumption`*: an update belongs to one document, no update is the entry of a posted
  page, and the updates of the root document are finitely many (so that their rows have a
  highest id).
* *A step that failed did not happen*: an update of a backup record that throws has not
  been committed. (In DocStore a push may fail after its commit.)
* *Backups do not start in the same second*, so that their file names differ, and
  *retention is longer than one night's pruning*.
* TitleWrite has *one tab per client* (what is kept is shared between tabs; the test
  whether the kept entry is the one sent matters more there), users who stay signed
  in, and a page that is not deleted. A page just created stays on its creator's screen
  until a list has it.
* TagWrite assumes the same, and a page that is in the list.
* Discovery has *one user*; messages between the tabs of a browser do not overtake each
  other; the revision asked for is the server's when the answer is used. `NoOverlap` is
  part of two properties, not of the model.
* DocPeer has *one worker* that stores and synchronises, a user who may read and write, and
  times that differ. A rebuild is one step, as DocStore shows. `OneAtATime` is part of two
  properties, not of the model.
* WorkspaceDocs has *versions that differ* and are compared for equality alone, and posted
  pages that belong to a folder (the prefix of the identifier), so that the folders change.
  The cleaner's transaction is one step: what commits between its statements is above
  its boundary or changes the version it asks for.
* EditAudit has connections that end with their process. A client pushes one document at a
  time over a connection, unless it has given up waiting for an answer, which is a fault.
* Membership has *one workspace*, which is not deleted, users who keep their accounts and
  addresses, and no server administrator. The page offers nobody a change of his own row.
  Transfers lock the workspace's row first, so that each transaction is one step.
* DocStore's theorems are about its writers. The internal upsert is one more
  (`WorkspaceDocs` has it, with what it breaks); a workspace import writes documents nobody else
  can see yet; maintenance scripts are not meant to run beside the server.

## 7. Not modelled

`PROJECT.json` lists every component with its status. Out of scope for good: the editor and
the user interface (a fork of AFFiNE, vendored), file formats, mail, OIDC, logging,
telemetry and health (I/O), the extraction of blocks from Yjs documents, Prisma and
PostgreSQL themselves beyond what section 2 says of transactions and keys. Single
statements over single rows (comments, notifications, settings) have no interleaving
worth a module. Awareness is memory that the next heartbeat repairs. Everything else that is
missing is in the plan.

## 8. Plan

Done, in this order: DocBody and DocStore with their proofs, IndexQueue, Backup, TitleWrite,
TagWrite, Discovery, DocPeer, WorkspaceDocs, EditAudit, Membership, the proofs of
Discovery and Membership, and those of Backup, IndexQueue, EditAudit, WorkspaceDocs,
TagWrite, DocPeer and TitleWrite. To come, most important first:

| Module | Composes | States | Run, theorem |
|---|---|---|---|
| DocAccess | Membership | the gateway's access caches, rooms, change of roles | access taken away stays away |
| Blobs | | upload, soft deletion, release of files | a file in use is not released |
| DocRole | | effective roles as operators, against the table of the documentation | equal on all inputs |
| Detection | | failure counters in memory | bounds, and the alert comes once |
