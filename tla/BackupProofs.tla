---------------------------- MODULE BackupProofs -----------------------------
(***************************************************************************)
(* Proofs about Backup, for any number of backups, restores, restarts and  *)
(* administrators.                                                         *)
(*                                                                         *)
(* The lock, the records and the files are written by different awaits.    *)
(* What keeps them together is in nobody's hands but the backup's:         *)
(* JobOwnsRecord says that the record of a backup at work is its own, new  *)
(* and never yet deleted or aged, and DeletionsApart that no deletion      *)
(* has got hold of it.  PruningSpares follows the backup for whose sake    *)
(* the night's pruning began.                                              *)
(***************************************************************************)
EXTENDS Backup, FiniteSetTheorems, TLAPS

\* The lock is the job's or the one restore's that writes.
LockIsHeld ==
    /\ (activeJob = "backup") <=> (job.pc # "idle")
    /\ (activeJob = "restore") <=> (\E r \in Restores : restore[r] = "writing")
    /\ \A r, s \in Restores : restore[r] = "writing" /\ restore[s] = "writing" => r = s

\* The backup at work is the one started last, and its record says what it has done.
JobOwnsRecord ==
    /\ \A b \in Ids : b > started => status[b] = "none" /\ b \notin zip /\ b \notin aged
    /\ job.pc = "idle" => job.record = 0
    /\ job.pc # "idle" => job.record = started /\ job.record \in Ids /\ job.record \notin aged
    /\ job.pc = "creating" => status[job.record] = "none" /\ job.record \notin zip
    /\ job.pc \in {"building", "zipped", "failing", "marking"} => status[job.record] = "running"
    /\ job.pc = "zipped" => job.record \in zip

\* A deletion has hold of a record that no backup works on, and the pruning's of an old one.
DeletionsApart ==
    /\ prune.todo \subseteq aged
    /\ job.pc # "idle" /\ job.scheduled => prune.pc = "idle"
    /\ \A x \in Deleters : deletion[x].pc # "idle" =>
         /\ deletion[x].record \in 1..started
         /\ status[deletion[x].record] # "running"
         /\ job.pc # "idle" => deletion[x].record # job.record
    /\ \A x \in Deleters : deletion[x].pc = "unlinked" => deletion[x].record \notin zip
    /\ deletion["pruner"].pc # "idle" =>
         prune.pc = "deleting" /\ deletion["pruner"].record \in aged

\* A backup that can be restored.
Good(b) == b \in succeeded /\ status[b] = "completed" /\ b \in zip

\* While the night prunes, there is a good backup it has not in its list; what administrators
\* delete were bad ones, unless manual says otherwise.
PruningSpares ==
    ~manual =>
        /\ \A x \in Deleters \ {"pruner"} :
             deletion[x].pc # "idle" => status[deletion[x].record] # "completed"
        /\ succeeded # {} => \E b \in Ids : Good(b) /\ (prune.pc # "idle" => b \notin aged)
        /\ prune.pc # "idle" => succeeded # {}

IInv ==
    /\ TypeOK
    /\ LockIsHeld
    /\ JobOwnsRecord
    /\ DeletionsApart
    /\ RunningIsWorkedOn
    /\ ZipHasRecord
    /\ PruningSpares

-----------------------------------------------------------------------------
(* Lemmas about the parts. *)

\* At most one restore writes, so that the set of those that write has at most one member.
LEMMA LockIsTheWork ==
    ASSUME LockIsHeld
    PROVE  LockMatchesWork
<1>. DEFINE writing == {r \in Restores : restore[r] = "writing"}
<1>1. (activeJob = "restore") <=> (writing # {}) BY DEF LockIsHeld
<1>2. Cardinality(writing) <= 1
  <2>1. CASE writing = {} BY <2>1, FS_EmptySet
  <2>2. CASE writing # {}
    <3>1. PICK r \in writing : TRUE BY <2>2
    <3>2. writing = {r} BY <3>1 DEF LockIsHeld
    <3>3. Cardinality({r}) = 1 BY FS_Singleton
    <3>. QED BY <3>2, <3>3
  <2>. QED BY <2>1, <2>2
<1>. QED BY <1>1, <1>2 DEF LockIsHeld, LockMatchesWork

\* The good backup that the pruning spares is the one the property asks for.
LEMMA SparedIsGood ==
    ASSUME PruningSpares
    PROVE  GoodBackupStays
BY DEF PruningSpares, GoodBackupStays, Good

\* A step that touches neither backups nor deletions keeps what is known of them.
LEMMA BackupsKept ==
    ASSUME IInv, UNCHANGED <<job, started, backups, aged, deletions>>
    PROVE  /\ JobOwnsRecord'
           /\ DeletionsApart'
           /\ RunningIsWorkedOn'
           /\ ZipHasRecord'
           /\ PruningSpares'
<1>. USE DEF IInv, backups, deletions
<1>1. JobOwnsRecord' /\ DeletionsApart' BY DEF JobOwnsRecord, DeletionsApart
<1>2. RunningIsWorkedOn' /\ ZipHasRecord' BY DEF RunningIsWorkedOn, ZipHasRecord
<1>3. PruningSpares' BY DEF PruningSpares, Good
<1>. QED BY <1>1, <1>2, <1>3

-----------------------------------------------------------------------------
(* The steps of a backup. *)

\* A backup that begins takes a record nobody has heard of.
LEMMA BeginBackupInvariant ==
    ASSUME IInv, NEW scheduled \in BOOLEAN, BeginBackup(scheduled)
    PROVE  IInv'
<1>. USE DEF IInv, BeginBackup, AcquireJob, backups, deletions, restoring
<1>1. TypeOK' BY BackupBounds DEF TypeOK, JobOwnsRecord, Ids, Deleters, NoJob, NoDeletion,
        NoPrune
<1>2. LockIsHeld' BY BackupBounds DEF TypeOK, LockIsHeld, NoJob
<1>3. JobOwnsRecord' BY BackupBounds DEF TypeOK, JobOwnsRecord, DeletionsApart, Ids,
        Deleters, NoJob
<1>4. DeletionsApart' BY BackupBounds DEF TypeOK, JobOwnsRecord, DeletionsApart, Ids,
        Deleters, NoJob, NoDeletion, NoPrune
<1>5. RunningIsWorkedOn' BY BackupBounds DEF TypeOK, LockIsHeld, JobOwnsRecord,
        DeletionsApart, RunningIsWorkedOn, Ids, Deleters, NoJob
<1>6. ZipHasRecord' BY BackupBounds DEF TypeOK, JobOwnsRecord, DeletionsApart,
        ZipHasRecord, Ids, Deleters
<1>7. PruningSpares' BY BackupBounds DEF TypeOK, JobOwnsRecord, DeletionsApart,
        PruningSpares, Good, Ids, Deleters, NoDeletion, NoPrune
<1>. QED BY <1>1, <1>2, <1>3, <1>4, <1>5, <1>6, <1>7

\* The new record says "running".
LEMMA CreatesRecordInvariant ==
    ASSUME IInv, CreatesRecord
    PROVE  IInv'
<1>. USE DEF IInv, CreatesRecord, backups, deletions, restoring
<1>1. TypeOK' BY BackupBounds DEF TypeOK, JobOwnsRecord, Ids, Deleters, NoJob, NoDeletion,
        NoPrune
<1>2. LockIsHeld' BY BackupBounds DEF TypeOK, LockIsHeld, NoJob
<1>3. JobOwnsRecord' BY BackupBounds DEF TypeOK, JobOwnsRecord, DeletionsApart, Ids,
        Deleters, NoJob
<1>4. DeletionsApart' BY BackupBounds DEF TypeOK, JobOwnsRecord, DeletionsApart, Ids,
        Deleters, NoJob, NoDeletion, NoPrune
<1>5. RunningIsWorkedOn' BY BackupBounds DEF TypeOK, LockIsHeld, JobOwnsRecord,
        DeletionsApart, RunningIsWorkedOn, Ids, Deleters, NoJob
<1>6. ZipHasRecord' BY BackupBounds DEF TypeOK, JobOwnsRecord, DeletionsApart,
        ZipHasRecord, Ids, Deleters
<1>7. PruningSpares' BY BackupBounds DEF TypeOK, JobOwnsRecord, DeletionsApart,
        PruningSpares, Good, Ids, Deleters, NoDeletion, NoPrune
<1>. QED BY <1>1, <1>2, <1>3, <1>4, <1>5, <1>6, <1>7

\* Without a record there is nothing to be worked on.
LEMMA CreateFailsInvariant ==
    ASSUME IInv, CreateFails
    PROVE  IInv'
<1>. USE DEF IInv, CreateFails, ReleaseJob, backups, deletions, restoring
<1>1. TypeOK' BY BackupBounds DEF TypeOK, JobOwnsRecord, Ids, Deleters, NoJob, NoDeletion,
        NoPrune
<1>2. LockIsHeld' BY BackupBounds DEF TypeOK, LockIsHeld, NoJob
<1>3. JobOwnsRecord' BY BackupBounds DEF TypeOK, JobOwnsRecord, DeletionsApart, Ids,
        Deleters, NoJob
<1>4. DeletionsApart' BY BackupBounds DEF TypeOK, JobOwnsRecord, DeletionsApart, Ids,
        Deleters, NoJob, NoDeletion, NoPrune
<1>5. RunningIsWorkedOn' BY BackupBounds DEF TypeOK, LockIsHeld, JobOwnsRecord,
        DeletionsApart, RunningIsWorkedOn, Ids, Deleters, NoJob
<1>6. ZipHasRecord' BY BackupBounds DEF TypeOK, JobOwnsRecord, DeletionsApart,
        ZipHasRecord, Ids, Deleters
<1>7. PruningSpares' BY BackupBounds DEF TypeOK, JobOwnsRecord, DeletionsApart,
        PruningSpares, Good, Ids, Deleters, NoDeletion, NoPrune
<1>. QED BY <1>1, <1>2, <1>3, <1>4, <1>5, <1>6, <1>7

\* A ZIP file is written for a record that is there.
LEMMA BuildsInvariant ==
    ASSUME IInv, Builds
    PROVE  IInv'
<1>. USE DEF IInv, Builds, backups, deletions, restoring
<1>1. TypeOK' BY BackupBounds DEF TypeOK, JobOwnsRecord, Ids, Deleters, NoJob, NoDeletion,
        NoPrune
<1>2. LockIsHeld' BY BackupBounds DEF TypeOK, LockIsHeld, NoJob
<1>3. JobOwnsRecord' BY BackupBounds DEF TypeOK, JobOwnsRecord, DeletionsApart, Ids,
        Deleters, NoJob
<1>4. DeletionsApart' BY BackupBounds DEF TypeOK, JobOwnsRecord, DeletionsApart, Ids,
        Deleters, NoJob, NoDeletion, NoPrune
<1>5. RunningIsWorkedOn' BY BackupBounds DEF TypeOK, LockIsHeld, JobOwnsRecord,
        DeletionsApart, RunningIsWorkedOn, Ids, Deleters, NoJob
<1>6. ZipHasRecord' BY BackupBounds DEF TypeOK, JobOwnsRecord, DeletionsApart,
        ZipHasRecord, Ids, Deleters
<1>7. PruningSpares' BY BackupBounds DEF TypeOK, JobOwnsRecord, DeletionsApart,
        PruningSpares, Good, Ids, Deleters, NoDeletion, NoPrune
<1>. QED BY <1>1, <1>2, <1>3, <1>4, <1>5, <1>6, <1>7

\* A completed backup is a good one, not aged, when the night begins to prune.
LEMMA CompletesInvariant ==
    ASSUME IInv, Completes
    PROVE  IInv'
<1>. USE DEF IInv, Completes, JobEnds, Prunes, ReleaseJob, backups, deletions, restoring
<1>1. TypeOK' BY BackupBounds DEF TypeOK, JobOwnsRecord, Ids, Deleters, NoJob, NoDeletion,
        NoPrune
<1>2. LockIsHeld' BY BackupBounds DEF TypeOK, LockIsHeld, NoJob
<1>3. JobOwnsRecord' BY BackupBounds DEF TypeOK, JobOwnsRecord, DeletionsApart, Ids,
        Deleters, NoJob
<1>4. DeletionsApart' BY BackupBounds DEF TypeOK, JobOwnsRecord, DeletionsApart, Ids,
        Deleters, NoJob, NoDeletion, NoPrune
<1>5. RunningIsWorkedOn' BY BackupBounds DEF TypeOK, LockIsHeld, JobOwnsRecord,
        DeletionsApart, RunningIsWorkedOn, Ids, Deleters, NoJob
<1>6. ZipHasRecord' BY BackupBounds DEF TypeOK, JobOwnsRecord, DeletionsApart,
        ZipHasRecord, Ids, Deleters
<1>7. PruningSpares' BY BackupBounds DEF TypeOK, JobOwnsRecord, DeletionsApart,
        PruningSpares, Good, Ids, Deleters, NoDeletion, NoPrune
<1>. QED BY <1>1, <1>2, <1>3, <1>4, <1>5, <1>6, <1>7

\* The status could not be written: the record still says "running".
LEMMA CompletingFailsInvariant ==
    ASSUME IInv, CompletingFails
    PROVE  IInv'
<1>. USE DEF IInv, CompletingFails, backups, deletions, restoring
<1>1. TypeOK' BY BackupBounds DEF TypeOK, JobOwnsRecord, Ids, Deleters, NoJob, NoDeletion,
        NoPrune
<1>2. LockIsHeld' BY BackupBounds DEF TypeOK, LockIsHeld, NoJob
<1>3. JobOwnsRecord' BY BackupBounds DEF TypeOK, JobOwnsRecord, DeletionsApart, Ids,
        Deleters, NoJob
<1>4. DeletionsApart' BY BackupBounds DEF TypeOK, JobOwnsRecord, DeletionsApart, Ids,
        Deleters, NoJob, NoDeletion, NoPrune
<1>5. RunningIsWorkedOn' BY BackupBounds DEF TypeOK, LockIsHeld, JobOwnsRecord,
        DeletionsApart, RunningIsWorkedOn, Ids, Deleters, NoJob
<1>6. ZipHasRecord' BY BackupBounds DEF TypeOK, JobOwnsRecord, DeletionsApart,
        ZipHasRecord, Ids, Deleters
<1>7. PruningSpares' BY BackupBounds DEF TypeOK, JobOwnsRecord, DeletionsApart,
        PruningSpares, Good, Ids, Deleters, NoDeletion, NoPrune
<1>. QED BY <1>1, <1>2, <1>3, <1>4, <1>5, <1>6, <1>7

\* Only the file of the backup at work is removed.
LEMMA RemovesPartialInvariant ==
    ASSUME IInv, RemovesPartial
    PROVE  IInv'
<1>. USE DEF IInv, RemovesPartial, backups, deletions, restoring
<1>1. TypeOK' BY BackupBounds DEF TypeOK, JobOwnsRecord, Ids, Deleters, NoJob, NoDeletion,
        NoPrune
<1>2. LockIsHeld' BY BackupBounds DEF TypeOK, LockIsHeld, NoJob
<1>3. JobOwnsRecord' BY BackupBounds DEF TypeOK, JobOwnsRecord, DeletionsApart, Ids,
        Deleters, NoJob
<1>4. DeletionsApart' BY BackupBounds DEF TypeOK, JobOwnsRecord, DeletionsApart, Ids,
        Deleters, NoJob, NoDeletion, NoPrune
<1>5. RunningIsWorkedOn' BY BackupBounds DEF TypeOK, LockIsHeld, JobOwnsRecord,
        DeletionsApart, RunningIsWorkedOn, Ids, Deleters, NoJob
<1>6. ZipHasRecord' BY BackupBounds DEF TypeOK, JobOwnsRecord, DeletionsApart,
        ZipHasRecord, Ids, Deleters
<1>7. PruningSpares' BY BackupBounds DEF TypeOK, JobOwnsRecord, DeletionsApart,
        PruningSpares, Good, Ids, Deleters, NoDeletion, NoPrune
<1>. QED BY <1>1, <1>2, <1>3, <1>4, <1>5, <1>6, <1>7

\* A failed backup starts no pruning.
LEMMA MarksFailedInvariant ==
    ASSUME IInv, MarksFailed
    PROVE  IInv'
<1>. USE DEF IInv, MarksFailed, JobEnds, Prunes, ReleaseJob, backups, deletions, restoring
<1>1. TypeOK' BY BackupBounds DEF TypeOK, JobOwnsRecord, Ids, Deleters, NoJob, NoDeletion,
        NoPrune
<1>2. LockIsHeld' BY BackupBounds DEF TypeOK, LockIsHeld, NoJob
<1>3. JobOwnsRecord' BY BackupBounds DEF TypeOK, JobOwnsRecord, DeletionsApart, Ids,
        Deleters, NoJob
<1>4. DeletionsApart' BY BackupBounds DEF TypeOK, JobOwnsRecord, DeletionsApart, Ids,
        Deleters, NoJob, NoDeletion, NoPrune
<1>5. RunningIsWorkedOn' BY BackupBounds DEF TypeOK, LockIsHeld, JobOwnsRecord,
        DeletionsApart, RunningIsWorkedOn, Ids, Deleters, NoJob
<1>6. ZipHasRecord' BY BackupBounds DEF TypeOK, JobOwnsRecord, DeletionsApart,
        ZipHasRecord, Ids, Deleters
<1>7. PruningSpares' BY BackupBounds DEF TypeOK, JobOwnsRecord, DeletionsApart,
        PruningSpares, Good, Ids, Deleters, NoDeletion, NoPrune
<1>. QED BY <1>1, <1>2, <1>3, <1>4, <1>5, <1>6, <1>7

\* The record keeps saying "running", and is noted as unmarked.
LEMMA MarkingFailsInvariant ==
    ASSUME IInv, MarkingFails
    PROVE  IInv'
<1>. USE DEF IInv, MarkingFails, JobEnds, Prunes, ReleaseJob, backups, deletions, restoring
<1>1. TypeOK' BY BackupBounds DEF TypeOK, JobOwnsRecord, Ids, Deleters, NoJob, NoDeletion,
        NoPrune
<1>2. LockIsHeld' BY BackupBounds DEF TypeOK, LockIsHeld, NoJob
<1>3. JobOwnsRecord' BY BackupBounds DEF TypeOK, JobOwnsRecord, DeletionsApart, Ids,
        Deleters, NoJob
<1>4. DeletionsApart' BY BackupBounds DEF TypeOK, JobOwnsRecord, DeletionsApart, Ids,
        Deleters, NoJob, NoDeletion, NoPrune
<1>5. RunningIsWorkedOn' BY BackupBounds DEF TypeOK, LockIsHeld, JobOwnsRecord,
        DeletionsApart, RunningIsWorkedOn, Ids, Deleters, NoJob
<1>6. ZipHasRecord' BY BackupBounds DEF TypeOK, JobOwnsRecord, DeletionsApart,
        ZipHasRecord, Ids, Deleters
<1>7. PruningSpares' BY BackupBounds DEF TypeOK, JobOwnsRecord, DeletionsApart,
        PruningSpares, Good, Ids, Deleters, NoDeletion, NoPrune
<1>. QED BY <1>1, <1>2, <1>3, <1>4, <1>5, <1>6, <1>7

-----------------------------------------------------------------------------
(* Deletions and the pruning. *)

\* A backup ages only while the night does not prune.
LEMMA AgesInvariant ==
    ASSUME IInv, NEW b \in Ids, Ages(b)
    PROVE  IInv'
<1>. USE DEF IInv, Ages, backups, deletions, restoring
<1>1. TypeOK' BY BackupBounds DEF TypeOK, JobOwnsRecord, Ids, Deleters, NoJob, NoDeletion,
        NoPrune
<1>2. LockIsHeld' BY BackupBounds DEF TypeOK, LockIsHeld, NoJob
<1>3. JobOwnsRecord' BY BackupBounds DEF TypeOK, JobOwnsRecord, DeletionsApart, Ids,
        Deleters, NoJob
<1>4. DeletionsApart' BY BackupBounds DEF TypeOK, JobOwnsRecord, DeletionsApart, Ids,
        Deleters, NoJob, NoDeletion, NoPrune
<1>5. RunningIsWorkedOn' BY BackupBounds DEF TypeOK, LockIsHeld, JobOwnsRecord,
        DeletionsApart, RunningIsWorkedOn, Ids, Deleters, NoJob
<1>6. ZipHasRecord' BY BackupBounds DEF TypeOK, JobOwnsRecord, DeletionsApart,
        ZipHasRecord, Ids, Deleters
<1>7. PruningSpares' BY BackupBounds DEF TypeOK, JobOwnsRecord, DeletionsApart,
        PruningSpares, Good, Ids, Deleters, NoDeletion, NoPrune
<1>. QED BY <1>1, <1>2, <1>3, <1>4, <1>5, <1>6, <1>7

\* The pruning lists aged backups only.
LEMMA PruneReadsInvariant ==
    ASSUME IInv, PruneReads
    PROVE  IInv'
<1>. USE DEF IInv, PruneReads, backups, deletions, restoring
<1>1. TypeOK' BY BackupBounds DEF TypeOK, JobOwnsRecord, Ids, Deleters, NoJob, NoDeletion,
        NoPrune
<1>2. LockIsHeld' BY BackupBounds DEF TypeOK, LockIsHeld, NoJob
<1>3. JobOwnsRecord' BY BackupBounds DEF TypeOK, JobOwnsRecord, DeletionsApart, Ids,
        Deleters, NoJob
<1>4. DeletionsApart' BY BackupBounds DEF TypeOK, JobOwnsRecord, DeletionsApart, Ids,
        Deleters, NoJob, NoDeletion, NoPrune
<1>5. RunningIsWorkedOn' BY BackupBounds DEF TypeOK, LockIsHeld, JobOwnsRecord,
        DeletionsApart, RunningIsWorkedOn, Ids, Deleters, NoJob
<1>6. ZipHasRecord' BY BackupBounds DEF TypeOK, JobOwnsRecord, DeletionsApart,
        ZipHasRecord, Ids, Deleters
<1>7. PruningSpares' BY BackupBounds DEF TypeOK, JobOwnsRecord, DeletionsApart,
        PruningSpares, Good, Ids, Deleters, NoDeletion, NoPrune
<1>. QED BY <1>1, <1>2, <1>3, <1>4, <1>5, <1>6, <1>7

\* The pruning ends with no deletion of its own at work.
LEMMA PruneEndsInvariant ==
    ASSUME IInv, PruneEnds
    PROVE  IInv'
<1>. USE DEF IInv, PruneEnds, backups, deletions, restoring
<1>1. TypeOK' BY BackupBounds DEF TypeOK, JobOwnsRecord, Ids, Deleters, NoJob, NoDeletion,
        NoPrune
<1>2. LockIsHeld' BY BackupBounds DEF TypeOK, LockIsHeld, NoJob
<1>3. JobOwnsRecord' BY BackupBounds DEF TypeOK, JobOwnsRecord, DeletionsApart, Ids,
        Deleters, NoJob
<1>4. DeletionsApart' BY BackupBounds DEF TypeOK, JobOwnsRecord, DeletionsApart, Ids,
        Deleters, NoJob, NoDeletion, NoPrune
<1>5. RunningIsWorkedOn' BY BackupBounds DEF TypeOK, LockIsHeld, JobOwnsRecord,
        DeletionsApart, RunningIsWorkedOn, Ids, Deleters, NoJob
<1>6. ZipHasRecord' BY BackupBounds DEF TypeOK, JobOwnsRecord, DeletionsApart,
        ZipHasRecord, Ids, Deleters
<1>7. PruningSpares' BY BackupBounds DEF TypeOK, JobOwnsRecord, DeletionsApart,
        PruningSpares, Good, Ids, Deleters, NoDeletion, NoPrune
<1>. QED BY <1>1, <1>2, <1>3, <1>4, <1>5, <1>6, <1>7

\* A record that is gone leaves the list.
LEMMA PruneFindsNothingInvariant ==
    ASSUME IInv, NEW b \in Ids, PruneFindsNothing(b)
    PROVE  IInv'
<1>. USE DEF IInv, PruneFindsNothing, backups, deletions, restoring
<1>1. TypeOK' BY BackupBounds DEF TypeOK, JobOwnsRecord, Ids, Deleters, NoJob, NoDeletion,
        NoPrune
<1>2. LockIsHeld' BY BackupBounds DEF TypeOK, LockIsHeld, NoJob
<1>3. JobOwnsRecord' BY BackupBounds DEF TypeOK, JobOwnsRecord, DeletionsApart, Ids,
        Deleters, NoJob
<1>4. DeletionsApart' BY BackupBounds DEF TypeOK, JobOwnsRecord, DeletionsApart, Ids,
        Deleters, NoJob, NoDeletion, NoPrune
<1>5. RunningIsWorkedOn' BY BackupBounds DEF TypeOK, LockIsHeld, JobOwnsRecord,
        DeletionsApart, RunningIsWorkedOn, Ids, Deleters, NoJob
<1>6. ZipHasRecord' BY BackupBounds DEF TypeOK, JobOwnsRecord, DeletionsApart,
        ZipHasRecord, Ids, Deleters
<1>7. PruningSpares' BY BackupBounds DEF TypeOK, JobOwnsRecord, DeletionsApart,
        PruningSpares, Good, Ids, Deleters, NoDeletion, NoPrune
<1>. QED BY <1>1, <1>2, <1>3, <1>4, <1>5, <1>6, <1>7

\* A deletion takes hold of a record that is not running.
LEMMA DeleteReadsInvariant ==
    ASSUME IInv, NEW b \in Ids, NEW x \in Deleters, DeleteReads(x, b)
    PROVE  IInv'
<1>. USE DEF IInv, DeleteReads, Asked, MayDelete, backups, deletions, restoring
<1>1. TypeOK' BY BackupBounds DEF TypeOK, JobOwnsRecord, Ids, Deleters, NoJob, NoDeletion,
        NoPrune
<1>2. LockIsHeld' BY BackupBounds DEF TypeOK, LockIsHeld, NoJob
<1>3. JobOwnsRecord' BY BackupBounds DEF TypeOK, JobOwnsRecord, DeletionsApart, Ids,
        Deleters, NoJob
<1>4. DeletionsApart' BY BackupBounds DEF TypeOK, JobOwnsRecord, DeletionsApart, Ids,
        Deleters, NoJob, NoDeletion, NoPrune
<1>5. RunningIsWorkedOn' BY BackupBounds DEF TypeOK, LockIsHeld, JobOwnsRecord,
        DeletionsApart, RunningIsWorkedOn, Ids, Deleters, NoJob
<1>6. ZipHasRecord' BY BackupBounds DEF TypeOK, JobOwnsRecord, DeletionsApart,
        ZipHasRecord, Ids, Deleters
<1>7. PruningSpares' BY BackupBounds DEF TypeOK, JobOwnsRecord, DeletionsApart,
        PruningSpares, Good, Ids, Deleters, NoDeletion, NoPrune
<1>. QED BY <1>1, <1>2, <1>3, <1>4, <1>5, <1>6, <1>7

\* The file goes before the record.
LEMMA DeleteUnlinksInvariant ==
    ASSUME IInv, NEW x \in Deleters, DeleteUnlinks(x)
    PROVE  IInv'
<1>. USE DEF IInv, DeleteUnlinks, backups, deletions, restoring
<1>1. TypeOK' BY BackupBounds DEF TypeOK, JobOwnsRecord, Ids, Deleters, NoJob, NoDeletion,
        NoPrune
<1>2. LockIsHeld' BY BackupBounds DEF TypeOK, LockIsHeld, NoJob
<1>3. JobOwnsRecord' BY BackupBounds DEF TypeOK, JobOwnsRecord, DeletionsApart, Ids,
        Deleters, NoJob
<1>4. DeletionsApart' BY BackupBounds DEF TypeOK, JobOwnsRecord, DeletionsApart, Ids,
        Deleters, NoJob, NoDeletion, NoPrune
<1>5. RunningIsWorkedOn' BY BackupBounds DEF TypeOK, LockIsHeld, JobOwnsRecord,
        DeletionsApart, RunningIsWorkedOn, Ids, Deleters, NoJob
<1>6. ZipHasRecord' BY BackupBounds DEF TypeOK, JobOwnsRecord, DeletionsApart,
        ZipHasRecord, Ids, Deleters
<1>7. PruningSpares' BY BackupBounds DEF TypeOK, JobOwnsRecord, DeletionsApart,
        PruningSpares, Good, Ids, Deleters, NoDeletion, NoPrune
<1>. QED BY <1>1, <1>2, <1>3, <1>4, <1>5, <1>6, <1>7

\* A deletion that fails gives its record up.
LEMMA UnlinkFailsInvariant ==
    ASSUME IInv, NEW x \in Deleters, UnlinkFails(x)
    PROVE  IInv'
<1>. USE DEF IInv, UnlinkFails, backups, deletions, restoring
<1>1. TypeOK' BY BackupBounds DEF TypeOK, JobOwnsRecord, Ids, Deleters, NoJob, NoDeletion,
        NoPrune
<1>2. LockIsHeld' BY BackupBounds DEF TypeOK, LockIsHeld, NoJob
<1>3. JobOwnsRecord' BY BackupBounds DEF TypeOK, JobOwnsRecord, DeletionsApart, Ids,
        Deleters, NoJob
<1>4. DeletionsApart' BY BackupBounds DEF TypeOK, JobOwnsRecord, DeletionsApart, Ids,
        Deleters, NoJob, NoDeletion, NoPrune
<1>5. RunningIsWorkedOn' BY BackupBounds DEF TypeOK, LockIsHeld, JobOwnsRecord,
        DeletionsApart, RunningIsWorkedOn, Ids, Deleters, NoJob
<1>6. ZipHasRecord' BY BackupBounds DEF TypeOK, JobOwnsRecord, DeletionsApart,
        ZipHasRecord, Ids, Deleters
<1>7. PruningSpares' BY BackupBounds DEF TypeOK, JobOwnsRecord, DeletionsApart,
        PruningSpares, Good, Ids, Deleters, NoDeletion, NoPrune
<1>. QED BY <1>1, <1>2, <1>3, <1>4, <1>5, <1>6, <1>7

\* The record goes when its file has gone.
LEMMA DeleteRowInvariant ==
    ASSUME IInv, NEW x \in Deleters, DeleteRow(x)
    PROVE  IInv'
<1>. USE DEF IInv, DeleteRow, backups, deletions, restoring
<1>1. TypeOK' BY BackupBounds DEF TypeOK, JobOwnsRecord, Ids, Deleters, NoJob, NoDeletion,
        NoPrune
<1>2. LockIsHeld' BY BackupBounds DEF TypeOK, LockIsHeld, NoJob
<1>3. JobOwnsRecord' BY BackupBounds DEF TypeOK, JobOwnsRecord, DeletionsApart, Ids,
        Deleters, NoJob
<1>4. DeletionsApart' BY BackupBounds DEF TypeOK, JobOwnsRecord, DeletionsApart, Ids,
        Deleters, NoJob, NoDeletion, NoPrune
<1>5. RunningIsWorkedOn' BY BackupBounds DEF TypeOK, LockIsHeld, JobOwnsRecord,
        DeletionsApart, RunningIsWorkedOn, Ids, Deleters, NoJob
<1>6. ZipHasRecord' BY BackupBounds DEF TypeOK, JobOwnsRecord, DeletionsApart,
        ZipHasRecord, Ids, Deleters
<1>7. PruningSpares' BY BackupBounds DEF TypeOK, JobOwnsRecord, DeletionsApart,
        PruningSpares, Good, Ids, Deleters, NoDeletion, NoPrune
<1>. QED BY <1>1, <1>2, <1>3, <1>4, <1>5, <1>6, <1>7

-----------------------------------------------------------------------------
(* Restores and restarts. *)

\* A restore touches the lock and the restore mode alone.
LEMMA RestoreInvariant ==
    ASSUME IInv, NEW r \in Restores, RestoreEnters(r) \/ RestoreSteps(r)
    PROVE  IInv'
<1>. USE DEF IInv, RestoreEnters, RestoreSteps, RestoreBegins, RestoreRefused, RestoreEnds,
        ExitRestoreMode, AcquireJob, ReleaseJob, Leaving
<1>1. TypeOK' BY DEF TypeOK, backups, deletions
<1>2. LockIsHeld' BY DEF TypeOK, LockIsHeld
<1>3. UNCHANGED <<job, started, backups, aged, deletions>> OBVIOUS
<1>. QED BY <1>1, <1>2, <1>3, BackupsKept

\* After a restart nobody is at work, and no record says "running".
LEMMA RestartInvariant ==
    ASSUME IInv, Restart
    PROVE  IInv'
<1>. USE DEF IInv, Restart, Interrupted, backups, deletions, restoring
<1>1. TypeOK'
  <2>1. status' \in [Ids -> {"none", "running", "completed", "failed"}] BY DEF TypeOK
  <2>2. restore' \in [Restores -> {"idle", "entered", "writing", "leaving", "done"}]
    OBVIOUS
  <2>3. deletion' \in [Deleters -> [pc : {"idle", "read", "unlinked"}, record : 0..MaxBackups]]
    BY BackupBounds DEF NoDeletion
  <2>4. /\ job' \in [pc : {"idle", "creating", "building", "zipped", "failing", "marking"},
                     record : 0..MaxBackups, scheduled : BOOLEAN]
        /\ prune' \in [pc : {"idle", "reading", "deleting"}, todo : SUBSET Ids]
        /\ restarts' \in 0..MaxRestarts
    BY BackupBounds DEF TypeOK, NoJob, NoPrune
  <2>. QED BY <2>1, <2>2, <2>3, <2>4 DEF TypeOK
<1>2. LockIsHeld' BY BackupBounds DEF TypeOK, LockIsHeld, NoJob
<1>3. JobOwnsRecord' BY BackupBounds DEF TypeOK, JobOwnsRecord, DeletionsApart, Ids,
        Deleters, NoJob
<1>4. DeletionsApart' BY BackupBounds DEF TypeOK, JobOwnsRecord, DeletionsApart, Ids,
        Deleters, NoJob, NoDeletion, NoPrune
<1>5. RunningIsWorkedOn' BY BackupBounds DEF TypeOK, LockIsHeld, JobOwnsRecord,
        DeletionsApart, RunningIsWorkedOn, Ids, Deleters, NoJob
<1>6. ZipHasRecord' BY BackupBounds DEF TypeOK, JobOwnsRecord, DeletionsApart,
        ZipHasRecord, Ids, Deleters
<1>7. PruningSpares' BY BackupBounds DEF TypeOK, JobOwnsRecord, DeletionsApart,
        PruningSpares, Good, Ids, Deleters, NoDeletion, NoPrune
<1>. QED BY <1>1, <1>2, <1>3, <1>4, <1>5, <1>6, <1>7

-----------------------------------------------------------------------------
\* Init establishes the invariant.
LEMMA InitInvariant == Init => IInv
<1>. SUFFICES ASSUME Init PROVE IInv OBVIOUS
<1>. USE DEF Init, NoJob, NoPrune, NoDeletion
<1>1. TypeOK
  <2>1. job \in [pc : {"idle", "creating", "building", "zipped", "failing", "marking"},
                record : 0..MaxBackups, scheduled : BOOLEAN]
    BY BackupBounds
  <2>2. deletion \in [Deleters -> [pc : {"idle", "read", "unlinked"}, record : 0..MaxBackups]]
    BY BackupBounds
  <2>3. started \in 0..MaxBackups /\ restarts \in 0..MaxRestarts BY BackupBounds
  <2>. QED BY <2>1, <2>2, <2>3 DEF TypeOK
<1>2. LockIsHeld BY DEF LockIsHeld
<1>3. JobOwnsRecord /\ RunningIsWorkedOn /\ ZipHasRecord
  BY DEF JobOwnsRecord, RunningIsWorkedOn, ZipHasRecord
<1>4. DeletionsApart /\ PruningSpares
  BY DEF DeletionsApart, PruningSpares, Deleters
<1>. QED BY <1>1, <1>2, <1>3, <1>4 DEF IInv

\* Every step keeps it.
LEMMA StepInvariant == IInv /\ [Next]_vars => IInv'
<1>. SUFFICES ASSUME IInv, [Next]_vars PROVE IInv' OBVIOUS
<1>1. ASSUME NEW scheduled \in BOOLEAN, BeginBackup(scheduled) PROVE IInv'
  BY <1>1, BeginBackupInvariant
<1>2. CASE BackupSteps
  BY <1>2, CreatesRecordInvariant, CreateFailsInvariant, BuildsInvariant, CompletesInvariant,
     CompletingFailsInvariant, RemovesPartialInvariant, MarksFailedInvariant,
     MarkingFailsInvariant DEF BackupSteps
<1>3. ASSUME NEW b \in Ids, Ages(b) PROVE IInv' BY <1>3, AgesInvariant
<1>4. CASE Deletes
  BY <1>4, PruneReadsInvariant, PruneEndsInvariant, PruneFindsNothingInvariant,
     DeleteReadsInvariant, DeleteUnlinksInvariant, UnlinkFailsInvariant, DeleteRowInvariant
     DEF Deletes
<1>5. ASSUME NEW r \in Restores, RestoreEnters(r) \/ RestoreSteps(r) PROVE IInv'
  BY <1>5, RestoreInvariant
<1>6. CASE Restart BY <1>6, RestartInvariant
<1>7. CASE UNCHANGED vars
  <2>1. TypeOK' /\ LockIsHeld' BY <1>7 DEF IInv, vars, TypeOK, LockIsHeld
  <2>. QED BY <1>7, <2>1, BackupsKept DEF IInv, vars, backups, deletions
<1>. QED BY <1>1, <1>2, <1>3, <1>4, <1>5, <1>6, <1>7 DEF Next

\* The invariant holds in every state of every behaviour.
LEMMA Invariance == Spec => []IInv
BY InitInvariant, StepInvariant, PTL DEF Spec

\* Lock, records and files agree: the lock is taken by the one job at work and by nobody
\* else, a record that says "running" is worked on or was given up as unmarked, and no ZIP
\* file is left without its record (runBackupJob, deleteBackup, onModuleInit).
THEOREM LockRecordsAndFilesAgree == Spec => []RecordsAreSound
<1>1. IInv => RecordsAreSound BY LockIsTheWork DEF IInv, RecordsAreSound
<1>. QED BY <1>1, Invariance, PTL

\* The night never prunes the last backup that can be restored (createFullBackup, which
\* prunes only after its own backup has completed).
THEOREM LastGoodBackupIsKept == Spec => []GoodBackupStays
<1>1. IInv => GoodBackupStays BY SparedIsGood DEF IInv
<1>. QED BY <1>1, Invariance, PTL
==============================================================================
