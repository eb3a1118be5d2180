--------------------------- MODULE DocStoreProofs ----------------------------
(***************************************************************************)
(* Proofs about DocStore, for every set of requests, every threshold and   *)
(* any number of deletions.                                                *)
(*                                                                         *)
(* The argument is about the version check of a rebuild.  A rebuild writes *)
(* only if the snapshot still carries the version it read; versions are    *)
(* never handed out twice (StampsFresh), so a matching version means the   *)
(* same snapshot (VersionsAgree), hence the rows the rebuild read are      *)
(* still there, unless a deletion removed the snapshot's whole document.   *)
(***************************************************************************)
EXTENDS DocStore, TLAPS

Writing(u) == push[u].pc = "merged"
Putting(r) == recover[r].pc = "read"

\* Every stamp in use was handed out.
StampsKnown ==
    /\ snapshot.ts <= clock
    /\ \A u \in Updates : /\ push[u].base.ts <= clock
                          /\ push[u].now <= clock
                          /\ push[u].sent <= clock
                          /\ rowTime[u] <= clock
                          /\ push[u].pc = "arrived" => push[u].sent # 0
                          /\ Writing(u) => push[u].now # 0
    /\ \A r \in Recoverers : /\ recover[r].now <= clock
                             /\ Putting(r) => recover[r].now # 0
    /\ \A w \in Writers : write[w].now <= clock

\* The stamp of a pending write of the snapshot was never read by anyone.
StampsFresh ==
    /\ \A u \in Updates : Writing(u) =>
         /\ push[u].now # snapshot.ts
         /\ \A v \in Updates : push[v].base.ts # push[u].now
         /\ \A v \in Updates : Writing(v) /\ v # u => push[v].now # push[u].now
         /\ \A r \in Recoverers : Putting(r) => recover[r].now # push[u].now
    /\ \A r \in Recoverers : Putting(r) =>
         /\ recover[r].now # snapshot.ts
         /\ \A v \in Updates : push[v].base.ts # recover[r].now
         /\ \A s \in Recoverers : Putting(s) /\ s # r => recover[s].now # recover[r].now

\* An absent snapshot is empty, and so is the memory of one.
AbsentIsEmpty ==
    /\ snapshot.ts = 0 => snapshot.body = {}
    /\ \A u \in Updates : push[u].base.ts = 0 => push[u].base.body = {}

\* Everything anyone holds was stored once.
OnlyStored ==
    /\ Body \subseteq stored
    /\ owed \subseteq stored
    /\ erased \subseteq stored
    /\ \A version \in history : version \subseteq stored
    /\ saver.version \subseteq stored
    /\ \A u \in Updates : push[u].base.body \subseteq stored /\ push[u].got \subseteq stored
    /\ \A r \in Recoverers : recover[r].version \subseteq stored

\* A rebuild that still sees the version it read still sees what it read.
VersionsAgree ==
    \A u \in Updates :
        /\ push[u].pc \in {"read", "merged"} /\ push[u].base.ts = snapshot.ts
             => push[u].base.body = snapshot.body
        /\ Writing(u) /\ push[u].base.ts = snapshot.ts => push[u].got \subseteq Rows \union erased

\* An update is tracked only while the ledger has a row.
LedgerTracks == updatedAt = 0 => tracked = {}

IInv ==
    /\ TypeOK
    /\ StampsKnown
    /\ StampsFresh
    /\ AbsentIsEmpty
    /\ OnlyStored
    /\ VersionsAgree
    /\ LedgerTracks
    /\ NothingLost
    /\ NothingUndone
    /\ LedgerKeepsUp
    /\ WorkspaceTakesAll

-----------------------------------------------------------------------------
(* Type correctness. *)

LEMMA InitType == Init => TypeOK
BY DEF Init, TypeOK, NoSnapshot, NoRequest, Request, Snapshots, Bodies, Pushes,
       PushStates, Recoveries, Writes, Savers

\* Every handler keeps the shape of the tables and of its own memory.
LEMMA NextType == TypeOK /\ [Next]_vars => TypeOK'
<1> SUFFICES ASSUME TypeOK, [Next]_vars PROVE TypeOK'
  OBVIOUS
<1> USE DEF TypeOK, Snapshots, Bodies, NoSnapshot, NoRequest, Request, Pushes,
            PushStates, Recoveries, Writes, Savers, tables, ghosts, others
<1>1. ASSUME NEW u \in Updates, PushUpdate(u) PROVE TypeOK'
  <2>1. CASE PushArrives(u) BY <2>1 DEF PushArrives
  <2>2. CASE PushRejected(u) BY <2>2 DEF PushRejected, PushEnds
  <2>3. CASE PushStores(u) BY <2>3 DEF PushStores, TouchLedger
  <2>4. CASE PushFails(u) BY <2>4 DEF PushFails, PushEnds
  <2>5. CASE PushCounts(u)
    <3>1. PICK state \in PushStates : push' = [push EXCEPT ![u] = NoRequest(state)]
      BY <2>5, Zenon DEF PushCounts, PushEnds, PushStates
    <3> QED BY <2>5, <3>1 DEF PushCounts
  <2>6. CASE RebuildReadsSnapshot(u) BY <2>6 DEF RebuildReadsSnapshot
  <2>7. CASE RebuildReadsRows(u) BY <2>7 DEF RebuildReadsRows, Rows
  <2>8. CASE RebuildFindsNothing(u) BY <2>8 DEF RebuildFindsNothing, PushEnds
  <2>9. CASE RebuildCommits(u) BY <2>9 DEF RebuildCommits, PushEnds, RowsWithout
  <2>10. CASE RebuildSkips(u) BY <2>10 DEF RebuildSkips, PushEnds
  <2> HIDE DEF TypeOK
  <2> QED BY <1>1, <2>1, <2>2, <2>3, <2>4, <2>5, <2>6, <2>7, <2>8, <2>9, <2>10
          DEF PushUpdate, Rebuild
<1>2. CASE SaveHistory
  BY <1>2 DEF SaveHistory, SaverReads, SaverCommits, SaverPasses
<1>3. ASSUME NEW r \in Recoverers, RecoverDoc(r) PROVE TypeOK'
  <2>1. CASE RecoverReads(r) BY <2>1 DEF RecoverReads
  <2>2. CASE RecoverCommits(r) BY <2>2 DEF RecoverCommits, RowsWithout
  <2>3. CASE RecoverFails(r) BY <2>3 DEF RecoverFails
  <2> HIDE DEF TypeOK
  <2> QED BY <1>3, <2>1, <2>2, <2>3 DEF RecoverDoc
<1>4. ASSUME NEW w \in Writers, WriteLedger(w) PROVE TypeOK'
  <2>1. CASE CreateDocDates(w) BY <2>1 DEF CreateDocDates
  <2>2. CASE CreateDocInserts(w) BY <2>2 DEF CreateDocInserts, WriteEnds
  <2>3. CASE WriteMetaDates(w) BY <2>3 DEF WriteMetaDates
  <2>4. CASE WriteMetaCommits(w) BY <2>4 DEF WriteMetaCommits, WriteEnds
  <2>5. CASE WriteFails(w) BY <2>5 DEF WriteFails, WriteEnds
  <2> HIDE DEF TypeOK
  <2> QED BY <1>4, <2>1, <2>2, <2>3, <2>4, <2>5 DEF WriteLedger
<1>5. CASE Purge BY <1>5 DEF Purge, ClearTables, RowsWithout
<1>6. CASE DeleteWorkspace BY <1>6 DEF DeleteWorkspace, ClearTables, RowsWithout
<1>7. CASE UNCHANGED vars BY <1>7 DEF vars
<1> QED BY <1>1, <1>2, <1>3, <1>4, <1>5, <1>6, <1>7 DEF Next

-----------------------------------------------------------------------------
(* Every step keeps the invariant, one kind of step at a time. *)

\* A push request that holds nothing any more: the cases that end a request and
\* the one that goes on to rebuild.
Forgets(u) ==
    /\ \E state \in PushStates \ {"arrived", "merged", "read"} :
         push' = [push EXCEPT ![u] = NoRequest(state)]
    /\ UNCHANGED <<workspace, clock, tables, others, ghosts>>

LEMMA ForgetfulSteps ==
    ASSUME NEW u \in Updates,
           PushRejected(u) \/ PushFails(u) \/ PushCounts(u)
             \/ RebuildFindsNothing(u) \/ RebuildSkips(u)
    PROVE  Forgets(u)
<1> USE DEF Forgets, PushEnds, PushStates
<1>1. CASE PushRejected(u) BY <1>1, Zenon DEF PushRejected
<1>2. CASE PushFails(u) BY <1>2, Zenon DEF PushFails
<1>3. CASE PushCounts(u) BY <1>3, Zenon DEF PushCounts
<1>4. CASE RebuildFindsNothing(u) BY <1>4, Zenon DEF RebuildFindsNothing
<1>5. CASE RebuildSkips(u) BY <1>5, Zenon DEF RebuildSkips
<1> QED BY <1>1, <1>2, <1>3, <1>4, <1>5

\* A request that ends, or that goes on with nothing in its hands, disturbs nothing.
LEMMA ForgetsKeeps == ASSUME IInv, NEW u \in Updates, Forgets(u), TypeOK' PROVE IInv'
<1> USE DEF IInv, TypeOK, Snapshots, Pushes, Recoveries, Writes, Request, NoRequest,
            PushEnds, NoSnapshot, tables, ghosts, others, Writing, Putting, Forgets
<1>1. TypeOK' OBVIOUS
<1>2. StampsKnown' BY <1>1 DEF StampsKnown
<1>3. StampsFresh' BY <1>1 DEF StampsFresh, StampsKnown
<1>4. AbsentIsEmpty' BY <1>1 DEF AbsentIsEmpty
<1>5. OnlyStored' BY <1>1 DEF OnlyStored, Body, Rows
<1>6. VersionsAgree' BY <1>1 DEF VersionsAgree, Rows
<1>7. LedgerTracks' BY <1>1 DEF LedgerTracks
<1>8. NothingLost' BY <1>1 DEF NothingLost, Body, Rows
<1>9. NothingUndone' BY <1>1 DEF NothingUndone, Body, Rows
<1>10. LedgerKeepsUp' BY <1>1 DEF LedgerKeepsUp, Bodies
<1>11. WorkspaceTakesAll' BY <1>1 DEF WorkspaceTakesAll, Body, Rows
<1> HIDE DEF TypeOK
<1> QED BY <1>1, <1>2, <1>3, <1>4, <1>5, <1>6, <1>7, <1>8, <1>9, <1>10, <1>11

\* The time of a push is a new one.
LEMMA ArrivesKeeps == ASSUME IInv, NEW u \in Updates, PushArrives(u) PROVE IInv'
<1> USE DEF IInv, TypeOK, Snapshots, Pushes, Recoveries, Writes, Request, NoRequest,
            PushEnds, NoSnapshot, tables, ghosts, others, Writing, Putting, PushArrives
<1>1. TypeOK' BY NextType DEF Next, PushUpdate, Rebuild
<1>2. StampsKnown' BY <1>1 DEF StampsKnown
<1>3. StampsFresh' BY <1>1 DEF StampsFresh, StampsKnown
<1>4. AbsentIsEmpty' BY <1>1 DEF AbsentIsEmpty
<1>5. OnlyStored' BY <1>1 DEF OnlyStored, Body, Rows
<1>6. VersionsAgree' BY <1>1 DEF VersionsAgree, Rows
<1>7. LedgerTracks' BY <1>1 DEF LedgerTracks
<1>8. NothingLost' BY <1>1 DEF NothingLost, Body, Rows
<1>9. NothingUndone' BY <1>1 DEF NothingUndone, Body, Rows
<1>10. LedgerKeepsUp' BY <1>1 DEF LedgerKeepsUp, Bodies
<1>11. WorkspaceTakesAll' BY <1>1 DEF WorkspaceTakesAll, Body, Rows
<1> HIDE DEF TypeOK
<1> QED BY <1>1, <1>2, <1>3, <1>4, <1>5, <1>6, <1>7, <1>8, <1>9, <1>10, <1>11

\* Saving a row adds it to the log and to what is owed; the ledger follows.
LEMMA StoresKeeps == ASSUME IInv, NEW u \in Updates, PushStores(u) PROVE IInv'
<1> USE DEF IInv, TypeOK, Snapshots, Pushes, Recoveries, Writes, Request, NoRequest,
            PushEnds, NoSnapshot, tables, ghosts, others, Writing, Putting, PushStores
<1>1. TypeOK' BY NextType DEF Next, PushUpdate, Rebuild
<1>2. StampsKnown' BY <1>1 DEF StampsKnown
<1>3. StampsFresh' BY <1>1 DEF StampsFresh, StampsKnown
<1>4. AbsentIsEmpty' BY <1>1 DEF AbsentIsEmpty
<1>5. OnlyStored' BY <1>1 DEF OnlyStored, StampsKnown, Body, Rows
<1>6. VersionsAgree' BY <1>1 DEF VersionsAgree, StampsKnown, Rows
<1>7. LedgerTracks' BY <1>1 DEF LedgerTracks, StampsKnown, TouchLedger
<1>8. NothingLost' BY <1>1 DEF NothingLost, StampsKnown, Body, Rows
<1>9. NothingUndone' BY <1>1 DEF NothingUndone, StampsKnown, Body, Rows
<1>10. LedgerKeepsUp'
  <2> SUFFICES ASSUME UserDoc, updatedAt' # 0, NEW v \in tracked'
               PROVE  rowTime'[v] <= updatedAt'
    BY DEF LedgerKeepsUp
  <2> USE DEF LedgerKeepsUp, LedgerTracks, TouchLedger, Bodies
  <2>1. updatedAt # 0 /\ updatedAt <= updatedAt' /\ push[u].sent <= updatedAt' OBVIOUS
  <2>2. v \in Updates BY <1>1
  <2>3. CASE v = u BY <2>1, <2>3
  <2>4. CASE v # u
    <3>1. v \in tracked BY <2>1, <2>4
    <3>2. rowTime'[v] = rowTime[v] BY <2>2, <2>4
    <3>3. rowTime[v] <= updatedAt BY <2>1, <3>1
    <3> QED BY <2>1, <2>2, <3>2, <3>3, <1>1
  <2> QED BY <2>3, <2>4
<1>11. WorkspaceTakesAll' BY <1>1 DEF WorkspaceTakesAll
<1> HIDE DEF TypeOK
<1> QED BY <1>1, <1>2, <1>3, <1>4, <1>5, <1>6, <1>7, <1>8, <1>9, <1>10, <1>11

\* What a rebuild reads first is the snapshot of this instant, and no pending
\* write carries its version.
LEMMA ReadsSnapshotKeeps == ASSUME IInv, NEW u \in Updates, RebuildReadsSnapshot(u) PROVE IInv'
<1> USE DEF IInv, TypeOK, Snapshots, Pushes, Recoveries, Writes, Request, NoRequest,
            PushEnds, NoSnapshot, tables, ghosts, others, Writing, Putting, RebuildReadsSnapshot
<1>1. TypeOK' BY NextType DEF Next, PushUpdate, Rebuild
<1>2. StampsKnown' BY <1>1 DEF StampsKnown
<1>3. StampsFresh' BY <1>1 DEF StampsFresh
<1>4. AbsentIsEmpty' BY <1>1 DEF AbsentIsEmpty
<1>5. OnlyStored' BY <1>1 DEF OnlyStored, Body, Rows
<1>6. VersionsAgree' BY <1>1 DEF VersionsAgree, Rows
<1>7. LedgerTracks' BY <1>1 DEF LedgerTracks
<1>8. NothingLost' BY <1>1 DEF NothingLost, Body, Rows
<1>9. NothingUndone' BY <1>1 DEF NothingUndone, Body, Rows
<1>10. LedgerKeepsUp' BY <1>1 DEF LedgerKeepsUp, Bodies
<1>11. WorkspaceTakesAll' BY <1>1 DEF WorkspaceTakesAll, Body, Rows
<1> HIDE DEF TypeOK
<1> QED BY <1>1, <1>2, <1>3, <1>4, <1>5, <1>6, <1>7, <1>8, <1>9, <1>10, <1>11

\* What it reads next are the rows of this instant, under a new version.
LEMMA ReadsRowsKeeps == ASSUME IInv, NEW u \in Updates, RebuildReadsRows(u) PROVE IInv'
<1> USE DEF IInv, TypeOK, Snapshots, Pushes, Recoveries, Writes, Request, NoRequest,
            PushEnds, NoSnapshot, tables, ghosts, others, Writing, Putting, RebuildReadsRows
<1>1. TypeOK' BY NextType DEF Next, PushUpdate, Rebuild
<1>2. StampsKnown' BY <1>1 DEF StampsKnown
<1>3. StampsFresh' BY <1>1 DEF StampsFresh, StampsKnown
<1>4. AbsentIsEmpty' BY <1>1 DEF AbsentIsEmpty
<1>5. OnlyStored' BY <1>1 DEF OnlyStored, Body, Rows
<1>6. VersionsAgree' BY <1>1 DEF VersionsAgree, Rows
<1>7. LedgerTracks' BY <1>1 DEF LedgerTracks
<1>8. NothingLost' BY <1>1 DEF NothingLost, Body, Rows
<1>9. NothingUndone' BY <1>1 DEF NothingUndone, Body, Rows
<1>10. LedgerKeepsUp' BY <1>1 DEF LedgerKeepsUp, Bodies
<1>11. WorkspaceTakesAll' BY <1>1 DEF WorkspaceTakesAll, Body, Rows
<1> HIDE DEF TypeOK
<1> QED BY <1>1, <1>2, <1>3, <1>4, <1>5, <1>6, <1>7, <1>8, <1>9, <1>10, <1>11

\* The heart of the matter: the version it read is still there, so the snapshot is
\* the one it read, and it deletes only rows it merged.
LEMMA CommitsKeeps == ASSUME IInv, NEW u \in Updates, RebuildCommits(u) PROVE IInv'
<1> USE DEF IInv, TypeOK, Snapshots, Pushes, Recoveries, Writes, Request, NoRequest,
            PushEnds, NoSnapshot, tables, ghosts, others, Writing, Putting, RebuildCommits
<1>1. TypeOK' BY NextType DEF Next, PushUpdate, Rebuild
<1>2. StampsKnown' BY <1>1 DEF StampsKnown, RowsWithout
<1>3. StampsFresh' BY <1>1 DEF StampsFresh, StampsKnown
<1>4. AbsentIsEmpty' BY <1>1 DEF AbsentIsEmpty, StampsKnown
<1>5. OnlyStored' BY <1>1 DEF OnlyStored, Body, Rows, RowsWithout
<1>6. VersionsAgree' BY <1>1 DEF VersionsAgree, StampsFresh, Rows, RowsWithout, MayWriteSnapshot
<1>7. LedgerTracks' BY <1>1 DEF LedgerTracks
<1>8. NothingLost' BY <1>1 DEF NothingLost, VersionsAgree, MayWriteSnapshot, Body, Rows, RowsWithout
<1>9. NothingUndone' BY <1>1 DEF NothingUndone, VersionsAgree, MayWriteSnapshot, Body, Rows, RowsWithout
<1>10. LedgerKeepsUp' BY <1>1 DEF LedgerKeepsUp, Bodies, RowsWithout
<1>11. WorkspaceTakesAll' BY <1>1 DEF WorkspaceTakesAll, MayWriteSnapshot
<1> HIDE DEF TypeOK
<1> QED BY <1>1, <1>2, <1>3, <1>4, <1>5, <1>6, <1>7, <1>8, <1>9, <1>10, <1>11

\* The hourly job only copies what was stored.
LEMMA SaverKeeps == ASSUME IInv, SaveHistory PROVE IInv'
<1> USE DEF IInv, TypeOK, Snapshots, Pushes, Recoveries, Writes, Request, NoRequest,
            PushEnds, NoSnapshot, tables, ghosts, others, Writing, Putting, SaveHistory, SaverReads, SaverCommits, SaverPasses
<1>1. TypeOK' BY NextType DEF Next
<1>2. StampsKnown' BY <1>1 DEF StampsKnown
<1>3. StampsFresh' BY <1>1 DEF StampsFresh
<1>4. AbsentIsEmpty' BY <1>1 DEF AbsentIsEmpty
<1>5. OnlyStored' BY <1>1 DEF OnlyStored, Body, Rows, Savers
<1>6. VersionsAgree' BY <1>1 DEF VersionsAgree, Rows
<1>7. LedgerTracks' BY <1>1 DEF LedgerTracks
<1>8. NothingLost' BY <1>1 DEF NothingLost, Body, Rows
<1>9. NothingUndone' BY <1>1 DEF NothingUndone, Body, Rows
<1>10. LedgerKeepsUp' BY <1>1 DEF LedgerKeepsUp, Bodies
<1>11. WorkspaceTakesAll' BY <1>1 DEF WorkspaceTakesAll, Body, Rows
<1> HIDE DEF TypeOK
<1> QED BY <1>1, <1>2, <1>3, <1>4, <1>5, <1>6, <1>7, <1>8, <1>9, <1>10, <1>11

\* A recovery takes a new version and a body that was stored.
LEMMA RecoverReadsKeeps == ASSUME IInv, NEW r \in Recoverers, RecoverReads(r) PROVE IInv'
<1> USE DEF IInv, TypeOK, Snapshots, Pushes, Recoveries, Writes, Request, NoRequest,
            PushEnds, NoSnapshot, tables, ghosts, others, Writing, Putting, RecoverReads
<1>1. TypeOK' BY NextType DEF Next, RecoverDoc
<1>2. StampsKnown' BY <1>1 DEF StampsKnown
<1>3. StampsFresh' BY <1>1 DEF StampsFresh, StampsKnown
<1>4. AbsentIsEmpty' BY <1>1 DEF AbsentIsEmpty
<1>5. OnlyStored' BY <1>1 DEF OnlyStored, Body, Rows
<1>6. VersionsAgree' BY <1>1 DEF VersionsAgree, Rows
<1>7. LedgerTracks' BY <1>1 DEF LedgerTracks
<1>8. NothingLost' BY <1>1 DEF NothingLost, Body, Rows
<1>9. NothingUndone' BY <1>1 DEF NothingUndone, Body, Rows
<1>10. LedgerKeepsUp' BY <1>1 DEF LedgerKeepsUp, Bodies
<1>11. WorkspaceTakesAll' BY <1>1 DEF WorkspaceTakesAll, Body, Rows
<1> HIDE DEF TypeOK
<1> QED BY <1>1, <1>2, <1>3, <1>4, <1>5, <1>6, <1>7, <1>8, <1>9, <1>10, <1>11

\* A recovery needs no version check of its own: the version it writes is new, so
\* every rebuild in flight loses the right to write.
LEMMA RecoverCommitsKeeps == ASSUME IInv, NEW r \in Recoverers, RecoverCommits(r) PROVE IInv'
<1> USE DEF IInv, TypeOK, Snapshots, Pushes, Recoveries, Writes, Request, NoRequest,
            PushEnds, NoSnapshot, tables, ghosts, others, Writing, Putting, RecoverCommits
<1>1. TypeOK' BY NextType DEF Next, RecoverDoc
<1>2. StampsKnown' BY <1>1 DEF StampsKnown, RowsWithout
<1>3. StampsFresh' BY <1>1 DEF StampsFresh, StampsKnown
<1>4. AbsentIsEmpty' BY <1>1 DEF AbsentIsEmpty, StampsKnown
<1>5. OnlyStored' BY <1>1 DEF OnlyStored, Body, Rows, RowsWithout
<1>6. VersionsAgree' BY <1>1 DEF VersionsAgree, StampsFresh
<1>7. LedgerTracks' BY <1>1 DEF LedgerTracks
<1>8. NothingLost' BY <1>1 DEF NothingLost, Body
<1>9. NothingUndone' BY <1>1 DEF NothingUndone, Body, Rows, RowsWithout
<1>10. LedgerKeepsUp' BY <1>1 DEF LedgerKeepsUp, Bodies, RowsWithout
<1>11. WorkspaceTakesAll' BY <1>1 DEF WorkspaceTakesAll
<1> HIDE DEF TypeOK
<1> QED BY <1>1, <1>2, <1>3, <1>4, <1>5, <1>6, <1>7, <1>8, <1>9, <1>10, <1>11

\* A failed recovery gives up its version.
LEMMA RecoverFailsKeeps == ASSUME IInv, NEW r \in Recoverers, RecoverFails(r) PROVE IInv'
<1> USE DEF IInv, TypeOK, Snapshots, Pushes, Recoveries, Writes, Request, NoRequest,
            PushEnds, NoSnapshot, tables, ghosts, others, Writing, Putting, RecoverFails
<1>1. TypeOK' BY NextType DEF Next, RecoverDoc
<1>2. StampsKnown' BY <1>1 DEF StampsKnown
<1>3. StampsFresh' BY <1>1 DEF StampsFresh
<1>4. AbsentIsEmpty' BY <1>1 DEF AbsentIsEmpty
<1>5. OnlyStored' BY <1>1 DEF OnlyStored, Body, Rows
<1>6. VersionsAgree' BY <1>1 DEF VersionsAgree, Rows
<1>7. LedgerTracks' BY <1>1 DEF LedgerTracks
<1>8. NothingLost' BY <1>1 DEF NothingLost, Body, Rows
<1>9. NothingUndone' BY <1>1 DEF NothingUndone, Body, Rows
<1>10. LedgerKeepsUp' BY <1>1 DEF LedgerKeepsUp, Bodies
<1>11. WorkspaceTakesAll' BY <1>1 DEF WorkspaceTakesAll, Body, Rows
<1> HIDE DEF TypeOK
<1> QED BY <1>1, <1>2, <1>3, <1>4, <1>5, <1>6, <1>7, <1>8, <1>9, <1>10, <1>11

\* The date of a new page is a new one.
LEMMA CreateDocDatesKeeps == ASSUME IInv, NEW w \in Writers, CreateDocDates(w) PROVE IInv'
<1> USE DEF IInv, TypeOK, Snapshots, Pushes, Recoveries, Writes, Request, NoRequest,
            PushEnds, NoSnapshot, tables, ghosts, others, Writing, Putting, CreateDocDates
<1>1. TypeOK' BY NextType DEF Next, WriteLedger
<1>2. StampsKnown' BY <1>1 DEF StampsKnown
<1>3. StampsFresh' BY <1>1 DEF StampsFresh, StampsKnown
<1>4. AbsentIsEmpty' BY <1>1 DEF AbsentIsEmpty
<1>5. OnlyStored' BY <1>1 DEF OnlyStored, Body, Rows
<1>6. VersionsAgree' BY <1>1 DEF VersionsAgree, Rows
<1>7. LedgerTracks' BY <1>1 DEF LedgerTracks
<1>8. NothingLost' BY <1>1 DEF NothingLost, Body, Rows
<1>9. NothingUndone' BY <1>1 DEF NothingUndone, Body, Rows
<1>10. LedgerKeepsUp' BY <1>1 DEF LedgerKeepsUp, Bodies
<1>11. WorkspaceTakesAll' BY <1>1 DEF WorkspaceTakesAll, Body, Rows
<1> HIDE DEF TypeOK
<1> QED BY <1>1, <1>2, <1>3, <1>4, <1>5, <1>6, <1>7, <1>8, <1>9, <1>10, <1>11

\* A new ledger row tracks nothing yet, so its time cannot be too old.
LEMMA CreateDocInsertsKeeps == ASSUME IInv, NEW w \in Writers, CreateDocInserts(w) PROVE IInv'
<1> USE DEF IInv, TypeOK, Snapshots, Pushes, Recoveries, Writes, Request, NoRequest,
            PushEnds, NoSnapshot, tables, ghosts, others, Writing, Putting, CreateDocInserts,
            WriteEnds
<1>1. TypeOK' BY NextType DEF Next, WriteLedger
<1>2. StampsKnown' BY <1>1 DEF StampsKnown
<1>3. StampsFresh' BY <1>1 DEF StampsFresh, StampsKnown
<1>4. AbsentIsEmpty' BY <1>1 DEF AbsentIsEmpty
<1>5. OnlyStored' BY <1>1 DEF OnlyStored, Body, Rows
<1>6. VersionsAgree' BY <1>1 DEF VersionsAgree, Rows
<1>7. LedgerTracks' BY <1>1 DEF LedgerTracks
<1>8. NothingLost' BY <1>1 DEF NothingLost, Body, Rows
<1>9. NothingUndone' BY <1>1 DEF NothingUndone, Body, Rows
<1>10. LedgerKeepsUp' BY <1>1 DEF LedgerKeepsUp, LedgerTracks
<1>11. WorkspaceTakesAll' BY <1>1 DEF WorkspaceTakesAll, Body, Rows
<1> HIDE DEF TypeOK
<1> QED BY <1>1, <1>2, <1>3, <1>4, <1>5, <1>6, <1>7, <1>8, <1>9, <1>10, <1>11

\* So is the date of a change of title, trash or tags.
LEMMA WriteMetaDatesKeeps == ASSUME IInv, NEW w \in Writers, WriteMetaDates(w) PROVE IInv'
<1> USE DEF IInv, TypeOK, Snapshots, Pushes, Recoveries, Writes, Request, NoRequest,
            PushEnds, NoSnapshot, tables, ghosts, others, Writing, Putting, WriteMetaDates
<1>1. TypeOK' BY NextType DEF Next, WriteLedger
<1>2. StampsKnown' BY <1>1 DEF StampsKnown
<1>3. StampsFresh' BY <1>1 DEF StampsFresh, StampsKnown
<1>4. AbsentIsEmpty' BY <1>1 DEF AbsentIsEmpty
<1>5. OnlyStored' BY <1>1 DEF OnlyStored, Body, Rows
<1>6. VersionsAgree' BY <1>1 DEF VersionsAgree, Rows
<1>7. LedgerTracks' BY <1>1 DEF LedgerTracks
<1>8. NothingLost' BY <1>1 DEF NothingLost, Body, Rows
<1>9. NothingUndone' BY <1>1 DEF NothingUndone, Body, Rows
<1>10. LedgerKeepsUp' BY <1>1 DEF LedgerKeepsUp, Bodies
<1>11. WorkspaceTakesAll' BY <1>1 DEF WorkspaceTakesAll, Body, Rows
<1> HIDE DEF TypeOK
<1> QED BY <1>1, <1>2, <1>3, <1>4, <1>5, <1>6, <1>7, <1>8, <1>9, <1>10, <1>11

\* Such a change may set the time back: from then on nothing is tracked.
LEMMA WriteMetaCommitsKeeps == ASSUME IInv, NEW w \in Writers, WriteMetaCommits(w) PROVE IInv'
<1> USE DEF IInv, TypeOK, Snapshots, Pushes, Recoveries, Writes, Request, NoRequest,
            PushEnds, NoSnapshot, tables, ghosts, others, Writing, Putting, WriteMetaCommits,
            WriteEnds
<1>1. TypeOK' BY NextType DEF Next, WriteLedger
<1>2. StampsKnown' BY <1>1 DEF StampsKnown
<1>3. StampsFresh' BY <1>1 DEF StampsFresh, StampsKnown
<1>4. AbsentIsEmpty' BY <1>1 DEF AbsentIsEmpty
<1>5. OnlyStored' BY <1>1 DEF OnlyStored, Body, Rows
<1>6. VersionsAgree' BY <1>1 DEF VersionsAgree, Rows
<1>7. LedgerTracks' BY <1>1 DEF LedgerTracks
<1>8. NothingLost' BY <1>1 DEF NothingLost, Body, Rows
<1>9. NothingUndone' BY <1>1 DEF NothingUndone, Body, Rows
<1>10. LedgerKeepsUp' BY <1>1 DEF LedgerKeepsUp, Bodies
<1>11. WorkspaceTakesAll' BY <1>1 DEF WorkspaceTakesAll, Body, Rows
<1> HIDE DEF TypeOK
<1> QED BY <1>1, <1>2, <1>3, <1>4, <1>5, <1>6, <1>7, <1>8, <1>9, <1>10, <1>11

\* A write that fails leaves nothing.
LEMMA WriteFailsKeeps == ASSUME IInv, NEW w \in Writers, WriteFails(w) PROVE IInv'
<1> USE DEF IInv, TypeOK, Snapshots, Pushes, Recoveries, Writes, Request, NoRequest,
            PushEnds, NoSnapshot, tables, ghosts, others, Writing, Putting, WriteFails,
            WriteEnds
<1>1. TypeOK' BY NextType DEF Next, WriteLedger
<1>2. StampsKnown' BY <1>1 DEF StampsKnown
<1>3. StampsFresh' BY <1>1 DEF StampsFresh, StampsKnown
<1>4. AbsentIsEmpty' BY <1>1 DEF AbsentIsEmpty
<1>5. OnlyStored' BY <1>1 DEF OnlyStored, Body, Rows
<1>6. VersionsAgree' BY <1>1 DEF VersionsAgree, Rows
<1>7. LedgerTracks' BY <1>1 DEF LedgerTracks
<1>8. NothingLost' BY <1>1 DEF NothingLost, Body, Rows
<1>9. NothingUndone' BY <1>1 DEF NothingUndone, Body, Rows
<1>10. LedgerKeepsUp' BY <1>1 DEF LedgerKeepsUp, Bodies
<1>11. WorkspaceTakesAll' BY <1>1 DEF WorkspaceTakesAll, Body, Rows
<1> HIDE DEF TypeOK
<1> QED BY <1>1, <1>2, <1>3, <1>4, <1>5, <1>6, <1>7, <1>8, <1>9, <1>10, <1>11

\* A deletion leaves empty tables; what a rebuild in flight holds was stored, so it
\* counts as erased from now on.
LEMMA ClearKeeps == ASSUME IInv, ClearTables, owed' = {}, erased' = stored,
         workspace' \in {workspace, FALSE},
         UNCHANGED <<clock, push, recover, saver, write, stored>>,
         tracked' = {}, TypeOK' PROVE IInv'
<1> USE DEF IInv, TypeOK, Snapshots, Pushes, Recoveries, Writes, Request, NoRequest,
            PushEnds, NoSnapshot, tables, ghosts, others, Writing, Putting, ClearTables, RowsWithout
<1>1. TypeOK' OBVIOUS
<1>2. StampsKnown' BY <1>1 DEF StampsKnown
<1>3. StampsFresh' BY <1>1 DEF StampsFresh, StampsKnown
<1>4. AbsentIsEmpty' BY <1>1 DEF AbsentIsEmpty
<1>5. OnlyStored' BY <1>1 DEF OnlyStored, Body, Rows
<1>6. VersionsAgree' BY <1>1 DEF VersionsAgree, AbsentIsEmpty, OnlyStored, Rows
<1>7. LedgerTracks' BY <1>1 DEF LedgerTracks
<1>8. NothingLost' BY <1>1 DEF NothingLost, Body, Rows
<1>9. NothingUndone' BY <1>1 DEF NothingUndone, Body, Rows
<1>10. LedgerKeepsUp' BY <1>1 DEF LedgerKeepsUp, Bodies
<1>11. WorkspaceTakesAll' BY <1>1 DEF WorkspaceTakesAll, Body, Rows
<1> HIDE DEF TypeOK
<1> QED BY <1>1, <1>2, <1>3, <1>4, <1>5, <1>6, <1>7, <1>8, <1>9, <1>10, <1>11

-----------------------------------------------------------------------------
(* The invariant is inductive. *)

LEMMA InitInv == Init => IInv
<1> SUFFICES ASSUME Init PROVE IInv
  OBVIOUS
<1>1. TypeOK BY InitType
<1> USE DEF Init, Writing, Putting, Body, Rows, NoSnapshot, NoRequest, Request
<1>2. StampsKnown /\ StampsFresh /\ AbsentIsEmpty BY DEF StampsKnown, StampsFresh, AbsentIsEmpty
<1>3. OnlyStored /\ VersionsAgree /\ LedgerTracks
  BY DEF OnlyStored, VersionsAgree, LedgerTracks
<1>4. NothingLost /\ NothingUndone /\ LedgerKeepsUp /\ WorkspaceTakesAll
  BY DEF NothingLost, NothingUndone, LedgerKeepsUp, WorkspaceTakesAll
<1> QED BY <1>1, <1>2, <1>3, <1>4 DEF IInv

LEMMA StutterInv == IInv /\ UNCHANGED vars => IInv'
BY DEF IInv, TypeOK, StampsKnown, StampsFresh, AbsentIsEmpty, OnlyStored, VersionsAgree,
       LedgerTracks, NothingLost, NothingUndone, LedgerKeepsUp, WorkspaceTakesAll, Body, Rows, Writing,
       Putting, vars

LEMMA NextInv == IInv /\ [Next]_vars => IInv'
<1> SUFFICES ASSUME IInv, [Next]_vars PROVE IInv'
  OBVIOUS
<1>1. TypeOK' BY NextType DEF IInv
<1>2. ASSUME NEW u \in Updates, PushUpdate(u) PROVE IInv'
  BY <1>1, <1>2, ForgetfulSteps, ForgetsKeeps, ArrivesKeeps, StoresKeeps,
     ReadsSnapshotKeeps, ReadsRowsKeeps, CommitsKeeps DEF PushUpdate, Rebuild
<1>3. CASE SaveHistory BY <1>3, SaverKeeps
<1>4. ASSUME NEW r \in Recoverers, RecoverDoc(r) PROVE IInv'
  BY <1>4, RecoverReadsKeeps, RecoverCommitsKeeps, RecoverFailsKeeps DEF RecoverDoc
<1>5. ASSUME NEW w \in Writers, WriteLedger(w) PROVE IInv'
  BY <1>5, CreateDocDatesKeeps, CreateDocInsertsKeeps, WriteMetaDatesKeeps,
     WriteMetaCommitsKeeps, WriteFailsKeeps DEF WriteLedger
<1>6. CASE Purge BY <1>1, <1>6, ClearKeeps DEF Purge
<1>7. CASE DeleteWorkspace BY <1>1, <1>7, ClearKeeps DEF DeleteWorkspace, others
<1>8. CASE UNCHANGED vars BY <1>8, StutterInv
<1> QED BY <1>2, <1>3, <1>4, <1>5, <1>6, <1>7, <1>8 DEF Next

LEMMA Invariant == Spec => []IInv
<1>1. Init => IInv BY InitInv
<1>2. IInv /\ [Next]_vars => IInv' BY NextInv
<1> QED BY <1>1, <1>2, PTL DEF Spec

(* Every reachable state of the tables, the requests in flight and the ghosts has
   the declared shape. *)
THEOREM TypeCorrect == Spec => []TypeOK
<1>1. IInv => TypeOK BY DEF IInv
<1> QED BY <1>1, Invariant, PTL

(* However many pushes, rebuilds and recoveries overlap, an update that was
   acknowledged stays readable until a recovery or a deletion takes it out. *)
THEOREM NoUpdateIsLost == Spec => []NothingLost
<1>1. IInv => NothingLost BY DEF IInv
<1> QED BY <1>1, Invariant, PTL

(* No rebuild brings back what a recovery replaced. *)
THEOREM NoRecoveryIsUndone == Spec => []NothingUndone
<1>1. IInv => NothingUndone BY DEF IInv
<1> QED BY <1>1, Invariant, PTL

(* The ledger's update time is never behind the log. *)
THEOREM LedgerIsCurrent == Spec => []LedgerKeepsUp
<1>1. IInv => LedgerKeepsUp BY DEF IInv
<1> QED BY <1>1, Invariant, PTL

(* No late writer survives the deletion of its workspace. *)
THEOREM WorkspaceDeletionIsTotal == Spec => []WorkspaceTakesAll
<1>1. IInv => WorkspaceTakesAll BY DEF IInv
<1> QED BY <1>1, Invariant, PTL

-----------------------------------------------------------------------------
(* The tables implement the abstract body. *)

AbstractVars == <<Body, Versions, stored, erased>>

LEMMA InitRefines == Init => Abstract!Init
BY DEF Init, Abstract!Init, Body, Rows, NoSnapshot, Versions

\* A merge keeps the body, save that rows erased since they were read come back.
LEMMA CommitRefines ==
    ASSUME IInv, NEW u \in Updates, RebuildCommits(u)
    PROVE  [Abstract!Next]_AbstractVars
<1> DEFINE lost == push[u].got \intersect erased
<1> USE DEF IInv, TypeOK, Snapshots, Pushes, RebuildCommits, MayWriteSnapshot, ghosts
<1>1. push[u].base.body = snapshot.body BY DEF VersionsAgree
<1>2. push[u].got \subseteq Rows \union erased BY DEF VersionsAgree, Writing
<1>3. snapshot'.body = snapshot.body \union push[u].got BY <1>1
<1>4. Rows' = Rows \ push[u].got BY DEF Rows, RowsWithout
<1>5. Body' = Body \union lost BY <1>2, <1>3, <1>4 DEF Body
<1>6. lost \in SUBSET erased /\ UNCHANGED <<Versions, stored, erased>>
  BY DEF Versions, others
<1> HIDE DEF lost
<1> QED BY <1>5, <1>6 DEF Abstract!Next, Abstract!Revive

LEMMA StoreRefines ==
    ASSUME IInv, NEW u \in Updates, PushStores(u)
    PROVE  [Abstract!Next]_AbstractVars
<1> USE DEF IInv, TypeOK, PushStores
<1>1. Rows' = Rows \union {u} BY DEF Rows, StampsKnown
<1>2. Body' = Body \union {u} BY <1>1 DEF Body
<1>3. UNCHANGED <<Versions, erased>> BY DEF Versions, others
<1> QED BY <1>2, <1>3 DEF Abstract!Next, Abstract!Arrive

LEMMA SaveRefines ==
    ASSUME IInv, SaverCommits
    PROVE  [Abstract!Next]_AbstractVars
<1> USE DEF IInv, SaverCommits, ghosts
<1>1. saver.version \in SUBSET stored BY DEF OnlyStored
<1>2. Versions' = Versions \union {saver.version} BY DEF Versions
<1>3. UNCHANGED <<Body, stored, erased>> BY DEF Body, Rows
<1> QED BY <1>1, <1>2, <1>3 DEF Abstract!Next, Abstract!Save

\* The version read by a recovery was in the history: nothing new can be put back.
LEMMA BeginRefines ==
    ASSUME IInv, NEW r \in Recoverers, RecoverReads(r)
    PROVE  UNCHANGED AbstractVars
<1> USE DEF IInv, TypeOK, RecoverReads, tables, ghosts
<1>1. UNCHANGED <<Body, stored, erased>> BY DEF Body, Rows
<1>2. PICK version \in history :
        recover' = [recover EXCEPT ![r] = [pc |-> "read", now |-> clock + 1,
                                           version |-> version]]
  OBVIOUS
<1>3. \A s \in Recoverers : s # r => recover'[s] = recover[s] BY <1>2
<1>4. recover'[r].pc = "read" /\ recover'[r].version \in history BY <1>2
<1>5. recover[r].pc # "read" OBVIOUS
<1>6. Versions' = Versions BY <1>3, <1>4, <1>5 DEF Versions
<1> QED BY <1>1, <1>6 DEF AbstractVars

LEMMA RecoverRefines ==
    ASSUME IInv, NEW r \in Recoverers, RecoverCommits(r) \/ RecoverFails(r)
    PROVE  [Abstract!Next]_AbstractVars
<1> USE DEF IInv, TypeOK
<1>1. Versions' \subseteq Versions
  <2>1. /\ history' = history
        /\ recover' = [recover EXCEPT ![r] = [pc |-> "done", now |-> 0, version |-> {}]]
    BY DEF RecoverCommits, RecoverFails, tables
  <2>2. \A s \in Recoverers : recover'[s].pc = "read" => recover'[s] = recover[s] BY <2>1
  <2> QED BY <2>1, <2>2 DEF Versions
<1>2. CASE RecoverCommits(r)
  <2>1. Body' = recover[r].version BY <1>2 DEF RecoverCommits, Body, Rows, RowsWithout
  <2>2. recover[r].version \in Versions BY <1>2 DEF RecoverCommits, Versions
  <2>3. UNCHANGED <<stored, erased>> BY <1>2 DEF RecoverCommits
  <2> QED BY <1>1, <2>1, <2>2, <2>3 DEF Abstract!Next, Abstract!Recover
<1>3. CASE RecoverFails(r)
  <2>1. UNCHANGED <<Body, stored, erased>>
    BY <1>3 DEF RecoverFails, tables, ghosts, Body, Rows
  <2> QED BY <1>1, <2>1 DEF Abstract!Next, Abstract!Forget
<1> QED BY <1>2, <1>3

LEMMA EraseRefines ==
    ASSUME ClearTables, erased' = stored, stored' = stored, recover' = recover
    PROVE  [Abstract!Next]_AbstractVars
<1>1. Body' = {} BY DEF ClearTables, Body, Rows, RowsWithout, NoSnapshot
<1>2. Versions' \subseteq Versions BY DEF ClearTables, Versions
<1> QED BY <1>1, <1>2 DEF Abstract!Next, Abstract!Erase

LEMMA NextRefines == IInv /\ [Next]_vars => [Abstract!Next]_AbstractVars
<1> SUFFICES ASSUME IInv, [Next]_vars PROVE [Abstract!Next]_AbstractVars
  OBVIOUS
<1> DEFINE Still == UNCHANGED AbstractVars
<1>1. Still => [Abstract!Next]_AbstractVars OBVIOUS
<1> HIDE DEF Still
<1>2. ASSUME NEW u \in Updates, PushUpdate(u) PROVE [Abstract!Next]_AbstractVars
  <2>1. Forgets(u) => Still
    BY DEF Forgets, Still, AbstractVars, tables, ghosts, others, Body, Rows, Versions
  <2>2. PushArrives(u) \/ RebuildReadsSnapshot(u) \/ RebuildReadsRows(u) => Still
    BY DEF PushArrives, RebuildReadsSnapshot, RebuildReadsRows, Still, AbstractVars, tables,
           ghosts, others, Body, Rows, Versions
  <2> QED BY <1>1, <1>2, <2>1, <2>2, ForgetfulSteps, StoreRefines, CommitRefines
          DEF PushUpdate, Rebuild
<1>3. SaverReads \/ SaverPasses => Still
  BY DEF SaverReads, SaverPasses, Still, AbstractVars, tables, ghosts, Body, Rows, Versions
<1>4. ASSUME NEW r \in Recoverers, RecoverDoc(r) PROVE [Abstract!Next]_AbstractVars
  BY <1>4, BeginRefines, RecoverRefines DEF RecoverDoc
<1>5. ASSUME NEW w \in Writers, WriteLedger(w) PROVE Still
  BY <1>5 DEF WriteLedger, CreateDocDates, CreateDocInserts, WriteMetaDates,
              WriteMetaCommits, WriteFails, tables, ghosts, Still, AbstractVars, Body, Rows,
              Versions
<1>6. Purge \/ DeleteWorkspace => [Abstract!Next]_AbstractVars
  BY EraseRefines DEF Purge, DeleteWorkspace, others
<1>7. UNCHANGED vars => Still BY DEF vars, Still, AbstractVars, Body, Rows, Versions
<1> QED BY <1>1, <1>2, <1>3, <1>4, <1>5, <1>6, <1>7, SaveRefines DEF Next, SaveHistory

(* The two tables, with all their rebuilds, behave as one body that updates arrive
   at: rebuilding the snapshot is invisible to a reader. *)
THEOREM TablesImplementBody == Spec => ImplementsDocBody
<1>1. Init => Abstract!Init BY InitRefines
<1>2. IInv /\ [Next]_vars => [Abstract!Next]_AbstractVars BY NextRefines
<1> QED BY <1>1, <1>2, Invariant, PTL DEF Spec, ImplementsDocBody, Abstract!Spec, Abstract!vars, AbstractVars
==============================================================================
