------------------------------- MODULE Backup --------------------------------
(***************************************************************************)
(* Full backups and restores of the server: ScheduledBackupService         *)
(* (scheduled-backup.service.ts), the restore endpoint that calls it       *)
(* (backup.controller.ts) and the gateway's restore mode.                  *)
(*                                                                         *)
(* One lock in memory, activeJob, keeps backups and restores apart; the    *)
(* records live in the database, the ZIP files on disk.  Each await is a   *)
(* step, so deletions, the nightly pruning, further requests and a restart *)
(* come in between.                                                        *)
(*                                                                         *)
(* Two backups do not start within one second (their file names would be   *)
(* the same), so a ZIP file is identified with its record.  Retention is   *)
(* longer than a night's pruning takes.                                    *)
(***************************************************************************)
EXTENDS Naturals, FiniteSets

CONSTANTS
    Restores,       \* requests to restore
    Admins,         \* administrators deleting backups
    MaxBackups,     \* bound: backups started
    MaxRestarts     \* bound: restarts of the process

ASSUME BackupBounds == MaxBackups \in Nat /\ MaxRestarts \in Nat

VARIABLES
    activeJob,      \* the lock: "none", "backup" or "restore"
    job,            \* the backup at work: [pc, record, scheduled]
    status,         \* backup_records: status[b], "none" when there is no row
    aged,           \* backups past their retention
    zip,            \* backups whose ZIP file is on disk
    prune,          \* the nightly pruning: [pc, todo]
    deletion,       \* deletion[x]: a call of deleteBackup
    restoreMode,    \* SyncGateway._restoreMode
    restore,        \* restore[r]: a request to restore
    started,        \* backups started so far
    restarts,
    unmarked,       \* ghost: backups whose last status could not be written
    manual,         \* ghost: an administrator deleted a completed backup
    succeeded       \* ghost: backups that ever completed

vars == <<activeJob, job, status, aged, zip, prune, deletion, restoreMode, restore,
          started, restarts, unmarked, manual, succeeded>>

backups == <<status, zip, unmarked, succeeded>>
deletions == <<prune, deletion, manual>>
restoring == <<restoreMode, restore>>

Ids == 1..MaxBackups
Deleters == Admins \union {"pruner"}

NoJob == [pc |-> "idle", record |-> 0, scheduled |-> FALSE]
NoDeletion == [pc |-> "idle", record |-> 0]
NoPrune == [pc |-> "idle", todo |-> {}]

TypeOK ==
    /\ activeJob \in {"none", "backup", "restore"}
    /\ job \in [pc : {"idle", "creating", "building", "zipped", "failing", "marking"},
                record : 0..MaxBackups, scheduled : BOOLEAN]
    /\ status \in [Ids -> {"none", "running", "completed", "failed"}]
    /\ zip \union aged \union unmarked \union succeeded \subseteq Ids
    /\ prune \in [pc : {"idle", "reading", "deleting"}, todo : SUBSET Ids]
    /\ deletion \in [Deleters -> [pc : {"idle", "read", "unlinked"}, record : 0..MaxBackups]]
    /\ restoreMode \in BOOLEAN
    /\ restore \in [Restores -> {"idle", "entered", "writing", "leaving", "done"}]
    /\ started \in 0..MaxBackups
    /\ restarts \in 0..MaxRestarts
    /\ manual \in BOOLEAN

Init ==
    /\ activeJob = "none"
    /\ job = NoJob
    /\ status = [b \in Ids |-> "none"]
    /\ aged = {}
    /\ zip = {}
    /\ prune = NoPrune
    /\ deletion = [x \in Deleters |-> NoDeletion]
    /\ restoreMode = FALSE
    /\ restore = [r \in Restores |-> "idle"]
    /\ started = 0
    /\ restarts = 0
    /\ unmarked = {}
    /\ manual = FALSE
    /\ succeeded = {}

-----------------------------------------------------------------------------
(* The lock *)

\* Mutant of AcquireJob: does not look before it takes.
AcquireJobBlindly(kind) == activeJob' = kind

\* Taken or refused with BACKUP_IN_PROGRESS, never waited for.
AcquireJob(kind) == activeJob = "none" /\ activeJob' = kind

ReleaseJob == activeJob' = "none"

-----------------------------------------------------------------------------
(* A backup: startBackup for an administrator, createFullBackup at three in the
   morning; both beginBackup, then runBackupJob. *)

BeginBackup(scheduled) ==
    /\ started < MaxBackups
    /\ scheduled => prune.pc = "idle"
    /\ AcquireJob("backup")
    /\ started' = started + 1
    /\ job' = [pc |-> "creating", record |-> started + 1, scheduled |-> scheduled]
    /\ UNCHANGED <<backups, aged, deletions, restoring, restarts>>

CreatesRecord ==
    /\ job.pc = "creating"
    /\ status' = [status EXCEPT ![job.record] = "running"]
    /\ job' = [job EXCEPT !.pc = "building"]
    /\ UNCHANGED <<activeJob, zip, unmarked, succeeded, aged, deletions, restoring,
                   started, restarts>>

CreateFails ==
    /\ job.pc = "creating"
    /\ ReleaseJob
    /\ job' = NoJob
    /\ UNCHANGED <<backups, aged, deletions, restoring, started, restarts>>

\* pg_dump, the blobs and the archive, or an error half way through the archive.
Builds ==
    /\ job.pc = "building"
    /\ \/ /\ zip' = zip \union {job.record}
          /\ job' = [job EXCEPT !.pc = "zipped"]
       \/ /\ zip' \in {zip, zip \union {job.record}}
          /\ job' = [job EXCEPT !.pc = "failing"]
    /\ UNCHANGED <<activeJob, status, unmarked, succeeded, aged, deletions, restoring,
                   started, restarts>>

\* Mutant of Prunes: the night's backup need not have succeeded.
PrunesAlways(completed) == job.scheduled

\* Old backups go only after a scheduled backup that completed.
Prunes(completed) == job.scheduled /\ completed

\* runBackupJob returns: the lock is released and the night goes on.
JobEnds(completed) ==
    /\ ReleaseJob
    /\ job' = NoJob
    /\ prune' = IF Prunes(completed) THEN [pc |-> "reading", todo |-> {}] ELSE prune
    /\ UNCHANGED <<aged, deletion, manual, restoring, started, restarts>>

Completes ==
    /\ job.pc = "zipped"
    /\ status' = [status EXCEPT ![job.record] = "completed"]
    /\ succeeded' = succeeded \union {job.record}
    /\ JobEnds(TRUE)
    /\ UNCHANGED <<zip, unmarked>>

CompletingFails ==
    /\ job.pc = "zipped"
    /\ job' = [job EXCEPT !.pc = "failing"]
    /\ UNCHANGED <<activeJob, backups, aged, deletions, restoring, started, restarts>>

\* The partial ZIP is removed, or that fails too and is only logged.
RemovesPartial ==
    /\ job.pc = "failing"
    /\ zip' \in {zip, zip \ {job.record}}
    /\ job' = [job EXCEPT !.pc = "marking"]
    /\ UNCHANGED <<activeJob, status, unmarked, succeeded, aged, deletions, restoring,
                   started, restarts>>

\* Mutant of MarksFailed: the handler gives up without writing the status.
MarksNothing ==
    /\ job.pc = "marking"
    /\ JobEnds(FALSE)
    /\ UNCHANGED backups

MarksFailed ==
    /\ job.pc = "marking"
    /\ status' = [status EXCEPT ![job.record] = "failed"]
    /\ JobEnds(FALSE)
    /\ UNCHANGED <<zip, unmarked, succeeded>>

MarkingFails ==
    /\ job.pc = "marking"
    /\ unmarked' = unmarked \union {job.record}
    /\ JobEnds(FALSE)
    /\ UNCHANGED <<status, zip, succeeded>>

-----------------------------------------------------------------------------
(* Deletion, by an administrator or by the pruning. *)

\* Retention passes; not for a backup the night has just made.
Ages(b) ==
    /\ status[b] \in {"completed", "failed"}
    /\ b \notin aged
    /\ prune.pc = "idle"
    /\ aged' = aged \union {b}
    /\ UNCHANGED <<activeJob, job, backups, deletions, restoring, started, restarts>>

PruneReads ==
    /\ prune.pc = "reading"
    /\ prune' = [pc |-> "deleting",
                 todo |-> {b \in aged : status[b] \in {"completed", "failed"}}]
    /\ UNCHANGED <<activeJob, job, backups, aged, deletion, manual, restoring,
                   started, restarts>>

PruneEnds ==
    /\ prune.pc = "deleting"
    /\ prune.todo = {}
    /\ deletion["pruner"].pc = "idle"
    /\ prune' = NoPrune
    /\ UNCHANGED <<activeJob, job, backups, aged, deletion, manual, restoring,
                   started, restarts>>

Asked(x, b) == IF x = "pruner" THEN prune.pc = "deleting" /\ b \in prune.todo
                               ELSE TRUE

\* Mutant of MayDelete: a running backup is not refused.
MayDeleteRunning(b) == status[b] # "none"

MayDelete(b) == status[b] \notin {"none", "running"}

DeleteReads(x, b) ==
    /\ deletion[x].pc = "idle"
    /\ Asked(x, b)
    /\ MayDelete(b)
    /\ deletion' = [deletion EXCEPT ![x] = [pc |-> "read", record |-> b]]
    /\ prune' = [prune EXCEPT !.todo = IF x = "pruner" THEN @ \ {b} ELSE @]
    /\ manual' = (manual \/ (x # "pruner" /\ status[b] = "completed"))
    /\ UNCHANGED <<activeJob, job, backups, aged, restoring, started, restarts>>

\* The record is gone already: deleteBackup returns false.
PruneFindsNothing(b) ==
    /\ deletion["pruner"].pc = "idle"
    /\ Asked("pruner", b)
    /\ status[b] = "none"
    /\ prune' = [prune EXCEPT !.todo = @ \ {b}]
    /\ UNCHANGED <<activeJob, job, backups, aged, deletion, manual, restoring,
                   started, restarts>>

DeleteUnlinks(x) ==
    LET b == deletion[x].record IN
    /\ deletion[x].pc = "read"
    /\ zip' = zip \ {b}
    /\ deletion' = [deletion EXCEPT ![x].pc = "unlinked"]
    /\ UNCHANGED <<activeJob, job, status, unmarked, succeeded, aged, prune, manual,
                   restoring, started, restarts>>

\* Removing the file throws: nothing is deleted, and a pruning ends there.
UnlinkFails(x) ==
    /\ deletion[x].pc = "read"
    /\ deletion' = [deletion EXCEPT ![x] = NoDeletion]
    /\ prune' = IF x = "pruner" THEN NoPrune ELSE prune
    /\ UNCHANGED <<activeJob, job, backups, aged, manual, restoring, started, restarts>>

\* Deleting the row throws when another deletion was faster, and that ends the
\* pruning; so does any other database error.
DeleteRow(x) ==
    LET b == deletion[x].record IN
    /\ deletion[x].pc = "unlinked"
    /\ deletion' = [deletion EXCEPT ![x] = NoDeletion]
    /\ \/ /\ status[b] # "none"
          /\ status' = [status EXCEPT ![b] = "none"]
          /\ prune' = prune
       \/ /\ status' = status
          /\ prune' = IF x = "pruner" THEN NoPrune ELSE prune
    /\ UNCHANGED <<activeJob, job, zip, unmarked, succeeded, aged, manual,
                   restoring, started, restarts>>

-----------------------------------------------------------------------------
(* A restore *)

RestoreEnters(r) ==
    /\ restore[r] = "idle"
    /\ restoreMode' = TRUE
    /\ restore' = [restore EXCEPT ![r] = "entered"]
    /\ UNCHANGED <<activeJob, job, backups, aged, deletions, started, restarts>>

\* restoreFromBackup takes the lock as soon as every client was disconnected.
RestoreBegins(r) ==
    /\ restore[r] = "entered"
    /\ AcquireJob("restore")
    /\ restore' = [restore EXCEPT ![r] = "writing"]
    /\ UNCHANGED <<job, backups, aged, deletions, restoreMode, started, restarts>>

\* Mutant of Leaving: a refused request forgets to end the restore mode.
LeavingOnlyWhenDone(r) == IF restore[r] = "writing" THEN "leaving" ELSE "done"

\* The request's finally: a timer of 3 s ends the restore mode.
Leaving(r) == "leaving"

RestoreRefused(r) ==
    /\ restore[r] = "entered"
    /\ activeJob # "none"
    /\ restore' = [restore EXCEPT ![r] = Leaving(r)]
    /\ UNCHANGED <<activeJob, job, backups, aged, deletions, restoreMode, started, restarts>>

\* pg_restore and the blobs are through, or one of them failed.
RestoreEnds(r) ==
    /\ restore[r] = "writing"
    /\ ReleaseJob
    /\ restore' = [restore EXCEPT ![r] = Leaving(r)]
    /\ UNCHANGED <<job, backups, aged, deletions, restoreMode, started, restarts>>

ExitRestoreMode(r) ==
    /\ restore[r] = "leaving"
    /\ restoreMode' = FALSE
    /\ restore' = [restore EXCEPT ![r] = "done"]
    /\ UNCHANGED <<activeJob, job, backups, aged, deletions, started, restarts>>

-----------------------------------------------------------------------------
\* Mutant of Interrupted: a status that BACKUP_STATUS does not know.
InterruptedAnew == [b \in Ids |-> IF status[b] = "running" THEN "interrupted" ELSE status[b]]

\* onModuleInit: no process works on a running record any more.
Interrupted == [b \in Ids |-> IF status[b] = "running" THEN "failed" ELSE status[b]]

Restart ==
    /\ restarts < MaxRestarts
    /\ restarts' = restarts + 1
    /\ activeJob' = "none"
    /\ job' = NoJob
    /\ status' = Interrupted
    /\ prune' = NoPrune
    /\ deletion' = [x \in Deleters |-> NoDeletion]
    /\ restoreMode' = FALSE
    /\ restore' = [r \in Restores |-> IF restore[r] = "idle" THEN "idle" ELSE "done"]
    /\ unmarked' = {}
    /\ UNCHANGED <<aged, zip, manual, succeeded, started>>

BackupSteps ==
    \/ CreatesRecord
    \/ CreateFails
    \/ Builds
    \/ Completes
    \/ CompletingFails
    \/ RemovesPartial
    \/ MarksFailed
    \/ MarkingFails

RestoreSteps(r) == RestoreBegins(r) \/ RestoreRefused(r) \/ RestoreEnds(r) \/ ExitRestoreMode(r)

Deletes ==
    \/ PruneReads
    \/ PruneEnds
    \/ \E b \in Ids : PruneFindsNothing(b) \/ \E x \in Deleters : DeleteReads(x, b)
    \/ \E x \in Deleters : DeleteUnlinks(x) \/ UnlinkFails(x) \/ DeleteRow(x)

Next ==
    \/ \E scheduled \in BOOLEAN : BeginBackup(scheduled)
    \/ BackupSteps
    \/ \E b \in Ids : Ages(b)
    \/ Deletes
    \/ \E r \in Restores : RestoreEnters(r) \/ RestoreSteps(r)
    \/ Restart

\* Child processes, file operations, queries and timers come to an end.
Fairness == WF_vars(BackupSteps) /\ \A r \in Restores : WF_vars(RestoreSteps(r))

Spec == Init /\ [][Next]_vars /\ Fairness

-----------------------------------------------------------------------------
(* A dump never reads a database that is being restored, and the lock belongs to
   whoever is at work: no path out of a job, not even a failing one, leaves it taken
   or gives away another's. *)
LockMatchesWork ==
    LET writing == {r \in Restores : restore[r] = "writing"} IN
    /\ (activeJob = "backup") <=> (job.pc # "idle")
    /\ (activeJob = "restore") <=> (writing # {})
    /\ Cardinality(writing) <= 1

(* A record that says "running" is being worked on (it cannot be deleted, and the
   page keeps polling), unless the database refused both last writes; a restart
   cures even that. *)
RunningIsWorkedOn ==
    \A b \in Ids : status[b] = "running" => job.record = b \/ b \in unmarked

(* No ZIP file is left without the record that lists it and lets it be deleted. *)
ZipHasRecord == \A b \in zip : status[b] # "none"

(* Lock, records and files agree on who is at work and on what has been written, through
   jobs, deletions, failures and restarts. *)
RecordsAreSound == TypeOK /\ LockMatchesWork /\ RunningIsWorkedOn /\ ZipHasRecord

(* Pruning never takes the last good backup: while the administrators delete none
   themselves, a server that has ever completed a backup still has one. *)
GoodBackupStays ==
    ~manual /\ succeeded # {} =>
        \E b \in succeeded : status[b] = "completed" /\ b \in zip

(* Synchronisation is never left blocked: the restore mode ends on every path. *)
SyncComesBack == restoreMode ~> ~restoreMode
==============================================================================
