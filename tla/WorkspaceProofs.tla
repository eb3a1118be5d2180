--------------------------- MODULE WorkspaceProofs ----------------------------
(***************************************************************************)
(* Proofs about a workspace: the documents it keeps for itself             *)
(* (WorkspaceDocs), for any updates, posted pages and entries, any         *)
(* threshold, and any number of requests and runs of the script; and who   *)
(* belongs to it (Membership), for any users, requests and invitations.    *)
(*                                                                         *)
(* Two facts carry the first.  A writer that asks for the version it read  *)
(* (VersionsTell) writes over the snapshot it read and nothing else.  And  *)
(* a request that writes without asking (upsertDoc) has all the others     *)
(* entered in what it read, or has run beside one of them (MixedIsNamed).  *)
(*                                                                         *)
(* In the second, what a step relies on is seldom in the tables alone: a   *)
(* request carries what it has read.  RowsOK says that an id has one       *)
(* addressee for good, AcceptsOK that an acceptance keeps to the row it    *)
(* has read, SlotsOK that nobody changes his own row.  RowsKept and        *)
(* RequestKept are what every step does to the rows and to each request;   *)
(* from these the three follow.                                            *)
(***************************************************************************)
EXTENDS WorkspaceDocs, Membership, FiniteSetTheorems, TLAPS

-----------------------------------------------------------------------------
(* The inductive invariant. *)

\* What has been committed to d, or entered in it.
Stored(d) ==
    {u \in Updates : DocOf(u) = d /\ push[u].pc \notin {"idle", "inserted"}} \union Upserters

\* Whatever is read or written of a document was committed to it.
HeldIsStored ==
    /\ \A d \in Docs : snapshot[d].items \subseteq Stored(d) /\ rows[d] \subseteq Stored(d)
    /\ \A u \in Updates : push[u].base.items \subseteq Stored(DocOf(u))
                       /\ push[u].got \subseteq Stored(DocOf(u))
    /\ \A x \in Upserters : upsert[x].got \subseteq Stored(upsert[x].doc)
    /\ cleaner.base.items \subseteq Stored("root")
    /\ cleaner.got \subseteq Stored("root")
    /\ cleaner.gone \subseteq Stored("root")
    /\ cleaned \subseteq Stored("root")

\* What was read of d, if d has still the version that was read.
ReadOf(d, base) ==
    /\ base.version <= snapshot[d].version
    /\ base.version = snapshot[d].version => base = snapshot[d]

VersionsTell ==
    /\ \A u \in Updates : push[u].pc \in {"read", "merged"} => ReadOf(DocOf(u), push[u].base)
    /\ cleaner.pc # "idle" => ReadOf("root", cleaner.base)

\* No row holds what a run took out, and nobody who may still write has read it in a row.
CleanedIsGone ==
    /\ rows["root"] \intersect cleaned = {}
    /\ cleaner.got \intersect cleaned = {}
    /\ \A u \in RootUpdates :
         push[u].pc = "merged" /\ SameVersion("root", push[u].base) =>
             push[u].got \intersect cleaned = {}

\* A row below the boundary was read, or came late.
LateIsNamed ==
    cleaner.pc = "commits" =>
        \A u \in rows["root"] :
            rowId[u] <= cleaner.boundary => u \in cleaner.got \/ u \in excused.late

MixedIsNamed ==
    \A x, y \in Upserters : Running(x) /\ Running(y) /\ x # y => x \in excused.mixed

\* x has entered its page in d.
IsEntered(x, d) ==
    \/ upsert[x].step = "done"
    \/ upsert[x].doc = d /\ upsert[x].step = "clears"
    \/ upsert[x].doc = "folders" /\ d = "root"

PostedStands ==
    \A x \in Upserters \ excused.mixed :
        /\ IsEntered(x, "root") => x \in snapshot["root"].items \/ x \in cleaned
        /\ IsEntered(x, "folders") => x \in snapshot["folders"].items

\* Who is about to write has read what others had entered.
ReadersHavePosted ==
    \A x \in Upserters \ excused.mixed : \A y \in Upserters \ {x} :
        /\ /\ IsEntered(x, "root")
           /\ upsert[y].doc = "root" /\ upsert[y].step = "writes"
           => x \in upsert[y].got \/ x \in cleaned
        /\ /\ IsEntered(x, "folders")
           /\ upsert[y].doc = "folders" /\ upsert[y].step \in {"rows", "writes"}
           => x \in upsert[y].got

\* What the folders held when x began, at each step of x.
FoldersAreKept ==
    \A x \in Upserters \ (excused.mixed \union excused.torn) :
        \A u \in before[x] \intersect FolderUpdates :
            /\ Running(x) /\ (upsert[x].doc # "folders" \/ upsert[x].step = "reads") =>
                 u \in snapshot["folders"].items \/ u \in rows["folders"]
            /\ upsert[x].doc = "folders" /\ upsert[x].step = "rows" =>
                 u \in upsert[x].got \/ u \in rows["folders"]
            /\ upsert[x].doc = "folders" /\ upsert[x].step = "writes" => u \in upsert[x].got
            /\ upsert[x].doc = "folders" /\ upsert[x].step = "clears" =>
                 u \in snapshot["folders"].items

OnlyFoldersHaveRowsRead == \A x \in Upserters : upsert[x].step = "rows" => upsert[x].doc = "folders"

Tables == TypeOK /\ HeldIsStored /\ VersionsTell

Cleaning == CleanedIsGone /\ CleanedStaysClean /\ LateIsNamed

Posting ==
    /\ OnlyFoldersHaveRowsRead
    /\ MixedIsNamed
    /\ PostedStands
    /\ ReadersHavePosted
    /\ FoldersAreKept

IInv == Tables /\ Cleaning /\ Posting

-----------------------------------------------------------------------------
(* Values *)

Handlers ==
    [pc : {"idle", "inserted", "stored", "read", "merged", "ended"},
     base : Snapshots, got : SUBSET Updates]

Upserts ==
    [doc : Docs, got : SUBSET Items,
     step : {"idle", "reads", "rows", "writes", "clears", "done", "failed"}]

Runs ==
    [pc : {"idle", "rows", "commits"}, base : Snapshots,
     got : SUBSET Updates, boundary : Nat, gone : SUBSET Items]

\* Every update belongs to one document, and none is an entry of a posted page.
LEMMA UpdatesHaveDocs ==
    /\ \A u \in Updates : /\ DocOf(u) \in Docs
                          /\ u \notin Upserters
                          /\ DocOf(u) = "root" <=> u \in RootUpdates
                          /\ DocOf(u) = "folders" <=> u \in FolderUpdates
    /\ RootUpdates \subseteq Updates /\ FolderUpdates \subseteq Updates
    /\ Updates \subseteq Items /\ Upserters \subseteq Items
BY UpdatesAssumption DEF Updates, Items, DocOf, Docs

LEMMA ValuesAreTyped ==
    ASSUME TypeOK
    PROVE  /\ \A d \in Docs : /\ snapshot[d] \in Snapshots
                              /\ snapshot[d].version \in Nat /\ snapshot[d].items \subseteq Items
                              /\ rows[d] \subseteq Updates
           /\ push \in [Updates -> Handlers]
           /\ \A u \in Updates : /\ push[u] \in Handlers
                                 /\ push[u].base \in Snapshots /\ push[u].base.version \in Nat
                                 /\ push[u].base.items \subseteq Items
                                 /\ push[u].got \subseteq Updates
           /\ upsert \in [Upserters -> Upserts]
           /\ \A x \in Upserters : /\ upsert[x] \in Upserts
                                   /\ upsert[x].doc \in Docs /\ upsert[x].got \subseteq Items
           /\ cleaner \in Runs
           /\ cleaner.base \in Snapshots /\ cleaner.base.version \in Nat
           /\ cleaner.base.items \subseteq Items /\ cleaner.got \subseteq Updates
           /\ cleaner.boundary \in Nat /\ cleaner.gone \subseteq Items
<1>1. snapshot \in [Docs -> Snapshots] /\ rows \in [Docs -> SUBSET Updates] BY DEF TypeOK
<1>2. push \in [Updates -> Handlers] /\ upsert \in [Upserters -> Upserts] /\ cleaner \in Runs
  BY DEF TypeOK, Handlers, Upserts, Runs
<1>3. \A s \in Snapshots : s.version \in Nat /\ s.items \subseteq Items BY DEF Snapshots
<1>4. \A u \in Updates : push[u] \in Handlers /\ push[u].base \in Snapshots /\ push[u].got \subseteq Updates
  BY <1>2 DEF Handlers
<1>5. \A x \in Upserters : /\ upsert[x] \in Upserts
                           /\ upsert[x].doc \in Docs /\ upsert[x].got \subseteq Items
  BY <1>2 DEF Upserts
<1>6. /\ cleaner.base \in Snapshots /\ cleaner.got \subseteq Updates
      /\ cleaner.boundary \in Nat /\ cleaner.gone \subseteq Items
  BY <1>2 DEF Runs
<1>. QED BY <1>1, <1>2, <1>3, <1>4, <1>5, <1>6

\* A request that carries an update moves.
LEMMA PushMoves ==
    ASSUME TypeOK, NEW u \in Updates, NEW base \in Snapshots, NEW got \in SUBSET Updates,
           NEW pc \in {"idle", "inserted", "stored", "read", "merged", "ended"},
           push' = [push EXCEPT ![u] = Push(pc, base, got)]
    PROVE  /\ push' \in [Updates -> Handlers]
           /\ push'[u].pc = pc /\ push'[u].base = base /\ push'[u].got = got
           /\ \A v \in Updates : v # u => push'[v] = push[v]
<1>1. /\ Push(pc, base, got) \in Handlers
      /\ Push(pc, base, got).pc = pc /\ Push(pc, base, got).base = base
      /\ Push(pc, base, got).got = got
  BY DEF Push, Handlers
<1>2. push \in [Updates -> Handlers] BY ValuesAreTyped
<1>. QED BY <1>1, <1>2

LEMMA PushMovesEmpty ==
    ASSUME TypeOK, NEW u \in Updates,
           NEW pc \in {"idle", "inserted", "stored", "read", "merged", "ended"},
           push' = [push EXCEPT ![u] = At(pc)]
    PROVE  /\ push' \in [Updates -> Handlers]
           /\ push'[u].pc = pc /\ push'[u].base.items = {} /\ push'[u].got = {}
           /\ \A v \in Updates : v # u => push'[v] = push[v]
<1>1. NoSnapshot \in Snapshots /\ NoSnapshot.items = {} BY DEF NoSnapshot, Snapshots
<1>2. At(pc) \in Handlers /\ At(pc).pc = pc /\ At(pc).base.items = {} /\ At(pc).got = {}
  BY <1>1 DEF At, Push, Handlers
<1>3. push \in [Updates -> Handlers] BY ValuesAreTyped
<1>. QED BY <1>2, <1>3

\* A request of the endpoint moves.
LEMMA UpsertMoves ==
    ASSUME TypeOK, NEW x \in Upserters, NEW d \in Docs, NEW got \in SUBSET Items,
           NEW step \in {"idle", "reads", "rows", "writes", "clears", "done", "failed"},
           upsert' = [upsert EXCEPT ![x] = Upsert(d, step, got)]
    PROVE  /\ upsert' \in [Upserters -> Upserts]
           /\ upsert'[x].doc = d /\ upsert'[x].step = step /\ upsert'[x].got = got
           /\ \A y \in Upserters : y # x => upsert'[y] = upsert[y]
<1>1. /\ Upsert(d, step, got) \in Upserts
      /\ Upsert(d, step, got).doc = d /\ Upsert(d, step, got).step = step
      /\ Upsert(d, step, got).got = got
  BY DEF Upsert, Upserts
<1>2. upsert \in [Upserters -> Upserts] BY ValuesAreTyped
<1>. QED BY <1>1, <1>2

\* A document is replaced, under a new version.
LEMMA ReplacedMoves ==
    ASSUME TypeOK, NEW d \in Docs, NEW items \in SUBSET Items, Replaced(d, items)
    PROVE  /\ snapshot' \in [Docs -> Snapshots]
           /\ snapshot'[d].items = items
           /\ snapshot'[d].version = snapshot[d].version + 1
           /\ \A e \in Docs : e # d => snapshot'[e] = snapshot[e]
<1>1. snapshot \in [Docs -> Snapshots] BY DEF TypeOK
<1>2. snapshot[d].version + 1 \in Nat BY ValuesAreTyped
<1>3. [version |-> snapshot[d].version + 1, items |-> items] \in Snapshots
  BY <1>2 DEF Snapshots
<1>. QED BY <1>1, <1>3 DEF Replaced

\* What has been committed stays so.
LEMMA StoredGrows ==
    ASSUME \A u \in Updates : push[u].pc \notin {"idle", "inserted"} =>
                                push'[u].pc \notin {"idle", "inserted"}
    PROVE  \A d : Stored(d) \subseteq Stored(d)'
BY DEF Stored

\* What was read of a document tells what it is, as long as nobody writes or everybody who
\* writes gives it a new version.
LEMMA VersionsKept ==
    ASSUME Tables, TypeOK',
           \A d \in Docs : \/ snapshot'[d] = snapshot[d]
                           \/ snapshot'[d].version = snapshot[d].version + 1,
           \A u \in Updates : push'[u].pc \in {"read", "merged"} =>
             \/ push[u].pc \in {"read", "merged"} /\ push'[u].base = push[u].base
             \/ push'[u].base = snapshot'[DocOf(u)],
           cleaner'.pc # "idle" =>
             \/ cleaner.pc # "idle" /\ cleaner'.base = cleaner.base
             \/ cleaner'.base = snapshot'["root"]
    PROVE  VersionsTell'
<1>1. \A d \in Docs, base \in Snapshots : ReadOf(d, base) => ReadOf(d, base)'
  <2>. SUFFICES ASSUME NEW d \in Docs, NEW base \in Snapshots, ReadOf(d, base)
                PROVE  ReadOf(d, base)'
    OBVIOUS
  <2>1. base.version \in Nat /\ snapshot[d].version \in Nat
    BY ValuesAreTyped DEF Snapshots, Tables
  <2>. QED BY <2>1 DEF ReadOf
<1>2. \A u \in Updates : DocOf(u) \in Docs BY UpdatesHaveDocs
<1>3. "root" \in Docs BY DEF Docs
<1>4. TypeOK BY DEF Tables
<1>5. \A u \in Updates : push[u].base \in Snapshots BY <1>4, ValuesAreTyped
<1>6. cleaner.base \in Snapshots BY <1>4, ValuesAreTyped
<1>7. \A d \in Docs : snapshot'[d].version \in Nat BY DEF TypeOK, Snapshots
<1>8. \A d \in Docs : \A base : base = snapshot'[d] => ReadOf(d, base)' BY <1>7 DEF ReadOf
<1>9. \A u \in Updates : push'[u].pc \in {"read", "merged"} => ReadOf(DocOf(u), push[u].base)'
  <2>. SUFFICES ASSUME NEW u \in Updates, push'[u].pc \in {"read", "merged"}
                PROVE  ReadOf(DocOf(u), push[u].base)'
    OBVIOUS
  <2>1. PICK d \in Docs : d = DocOf(u) BY <1>2
  <2>2. CASE push[u].pc \in {"read", "merged"} /\ push'[u].base = push[u].base
    <3>1. PICK base \in Snapshots : base = push[u].base BY <1>5
    <3>2. ReadOf(d, base) BY <2>1, <2>2, <3>1 DEF Tables, VersionsTell
    <3>3. ReadOf(d, base)' BY <1>1, <3>2
    <3>. QED BY <2>1, <2>2, <3>1, <3>3 DEF ReadOf
  <2>3. CASE push'[u].base = snapshot'[DocOf(u)] BY <1>7, <2>1, <2>3 DEF ReadOf
  <2>. QED BY <2>2, <2>3
<1>10. cleaner'.pc # "idle" => ReadOf("root", cleaner.base)'
  <2>. SUFFICES ASSUME cleaner'.pc # "idle" PROVE ReadOf("root", cleaner.base)' OBVIOUS
  <2>1. CASE cleaner.pc # "idle" /\ cleaner'.base = cleaner.base
    <3>1. PICK base \in Snapshots : base = cleaner.base BY <1>6
    <3>2. ReadOf("root", base) BY <2>1, <3>1 DEF Tables, VersionsTell
    <3>3. ReadOf("root", base)' BY <1>1, <1>3, <3>2
    <3>. QED BY <2>1, <3>1, <3>3 DEF ReadOf
  <2>2. CASE cleaner'.base = snapshot'["root"] BY <1>3, <1>7, <2>2 DEF ReadOf
  <2>. QED BY <2>1, <2>2
<1>. QED BY <1>9, <1>10 DEF VersionsTell

\* What is held stays stored: of the pushes one moves.
LEMMA HeldKeptByPush ==
    ASSUME Tables, NEW u \in Updates, \A v \in Updates : v # u => push'[v] = push[v],
           push[u].pc \notin {"idle", "inserted"} => push'[u].pc \notin {"idle", "inserted"},
           push'[u].base.items \subseteq Stored(DocOf(u))',
           push'[u].got \subseteq Stored(DocOf(u))',
           \A d \in Docs : /\ snapshot'[d].items \subseteq Stored(d)'
                           /\ rows'[d] \subseteq Stored(d)',
           UNCHANGED <<upsert, cleaner, cleaned>>
    PROVE  HeldIsStored'
<1>1. \A d : Stored(d) \subseteq Stored(d)' BY StoredGrows
<1>2. \A v \in Updates : /\ push'[v].base.items \subseteq Stored(DocOf(v))'
                         /\ push'[v].got \subseteq Stored(DocOf(v))'
  <2>. SUFFICES ASSUME NEW v \in Updates, v # u
                PROVE  /\ push'[v].base.items \subseteq Stored(DocOf(v))'
                       /\ push'[v].got \subseteq Stored(DocOf(v))'
    OBVIOUS
  <2>1. push'[v] = push[v] OBVIOUS
  <2>2. /\ push[v].base.items \subseteq Stored(DocOf(v))
        /\ push[v].got \subseteq Stored(DocOf(v))
    BY DEF Tables, HeldIsStored
  <2>3. Stored(DocOf(v)) \subseteq Stored(DocOf(v))' BY <1>1
  <2>. QED BY <2>1, <2>2, <2>3
<1>3. \A x \in Upserters : upsert'[x].got \subseteq Stored(upsert[x].doc)'
  BY <1>1 DEF Tables, HeldIsStored
<1>. QED BY <1>1, <1>2, <1>3 DEF Tables, HeldIsStored

\* What is held stays stored when no push moves.
LEMMA HeldKeptBeside ==
    ASSUME Tables, UNCHANGED push,
           \A d \in Docs : /\ snapshot'[d].items \subseteq Stored(d)
                           /\ rows'[d] \subseteq Stored(d),
           \A x \in Upserters : upsert'[x].got \subseteq Stored(upsert'[x].doc),
           cleaner'.base.items \subseteq Stored("root"),
           cleaner'.got \subseteq Stored("root"),
           cleaner'.gone \subseteq Stored("root"),
           cleaned' \subseteq Stored("root")
    PROVE  HeldIsStored'
<1>1. \A d : Stored(d)' = Stored(d) BY DEF Stored
<1>. QED BY <1>1 DEF Tables, HeldIsStored

\* The cleaning beside a push: rows of the root document go, or one comes that nobody has seen.
LEMMA CleaningKeptByPush ==
    ASSUME Tables, Cleaning, NEW u \in Updates,
           \A v \in Updates : v # u => push'[v] = push[v],
           UNCHANGED <<cleaner, cleaned>>,
           excused'.revived = excused.revived, excused.late \subseteq excused'.late,
           snapshot'["root"] = snapshot["root"] \/
             /\ snapshot'["root"].version = snapshot["root"].version + 1
             /\ cleaned \intersect snapshot'["root"].items \subseteq excused.revived,
           \A v \in rows'["root"] :
             \/ v \in rows["root"] /\ rowId'[v] = rowId[v]
             \/ v \notin cleaned /\ (rowId'[v] <= cleaner.boundary => v \in excused'.late),
           push'[u].pc = "merged" /\ DocOf(u) = "root" =>
             push'[u].got = rows["root"]
    PROVE  Cleaning'
<1>1. rows'["root"] \intersect cleaned = {} BY DEF Cleaning, CleanedIsGone
<1>2. CleanedIsGone'
  <2>. SUFFICES ASSUME NEW v \in RootUpdates, push'[v].pc = "merged",
                       SameVersion("root", push[v].base)'
                PROVE  push'[v].got \intersect cleaned = {}
    BY <1>1 DEF Cleaning, CleanedIsGone
  <2>1. v \in Updates /\ DocOf(v) = "root" /\ "root" \in Docs BY UpdatesHaveDocs DEF Docs
  <2>2. CASE v = u BY <2>1, <2>2 DEF Cleaning, CleanedIsGone
  <2>3. CASE v # u
    <3>1. push'[v] = push[v] BY <2>1, <2>3
    <3>2. ReadOf("root", push[v].base) BY <2>1, <3>1 DEF Tables, VersionsTell
    <3>3. push[v].base.version \in Nat /\ snapshot["root"].version \in Nat
      BY <2>1, ValuesAreTyped DEF Tables
    <3>4. SameVersion("root", push[v].base)
      BY <3>1, <3>2, <3>3 DEF ReadOf, SameVersion
    <3>. QED BY <3>1, <3>4 DEF Cleaning, CleanedIsGone
  <2>. QED BY <2>2, <2>3
<1>3. CleanedStaysClean' BY <1>1 DEF Cleaning, CleanedStaysClean, Body
<1>4. LateIsNamed' BY DEF Cleaning, LateIsNamed
<1>. QED BY <1>2, <1>3, <1>4 DEF Cleaning

\* The posting beside a step of somebody else: entries stay, folders stay, or the request
\* between its two reads is named.
LEMMA PostingKept ==
    ASSUME Tables, Posting, UNCHANGED <<upsert, before>>,
           excused'.mixed = excused.mixed, excused.torn \subseteq excused'.torn,
           cleaned \subseteq cleaned',
           \A x \in Upserters : x \in snapshot["root"].items =>
                                  x \in snapshot'["root"].items \/ x \in cleaned',
           snapshot["folders"].items \subseteq snapshot'["folders"].items,
           rows["folders"] \subseteq snapshot'["folders"].items \union rows'["folders"],
           \A x \in Upserters : upsert[x].doc = "folders" /\ upsert[x].step = "rows" =>
             x \in excused'.torn \/ rows["folders"] \subseteq rows'["folders"]
    PROVE  Posting'
<1>1. /\ \A x \in Upserters : Running(x)' = Running(x)
      /\ \A x \in Upserters, d \in Docs : IsEntered(x, d)' = IsEntered(x, d)
  BY DEF Running, IsEntered
<1>2. "root" \in Docs /\ "folders" \in Docs BY DEF Docs
<1>3. OnlyFoldersHaveRowsRead' BY DEF Posting, OnlyFoldersHaveRowsRead
<1>4. MixedIsNamed' BY <1>1 DEF Posting, MixedIsNamed
<1>5. PostedStands' BY <1>1, <1>2 DEF Posting, PostedStands
<1>6. ReadersHavePosted' BY <1>1, <1>2 DEF Posting, ReadersHavePosted
<1>7. FoldersAreKept'
  <2>. SUFFICES ASSUME NEW x \in Upserters \ (excused'.mixed \union excused'.torn),
                       NEW u \in before[x] \intersect FolderUpdates
                PROVE
            /\ Running(x)' /\ (upsert'[x].doc # "folders" \/ upsert'[x].step = "reads") =>
                 u \in snapshot'["folders"].items \/ u \in rows'["folders"]
            /\ upsert'[x].doc = "folders" /\ upsert'[x].step = "rows" =>
                 u \in upsert'[x].got \/ u \in rows'["folders"]
            /\ upsert'[x].doc = "folders" /\ upsert'[x].step = "writes" => u \in upsert'[x].got
            /\ upsert'[x].doc = "folders" /\ upsert'[x].step = "clears" =>
                 u \in snapshot'["folders"].items
    BY DEF FoldersAreKept
  <2>1. x \in Upserters \ (excused.mixed \union excused.torn) OBVIOUS
  <2>. QED BY <1>1, <2>1 DEF Posting, FoldersAreKept
<1>. QED BY <1>3, <1>4, <1>5, <1>6, <1>7 DEF Posting

-----------------------------------------------------------------------------
(* Pushes and their rebuilds. *)

LEMMA PushInsertsInvariant ==
    ASSUME IInv, NEW u \in Updates, PushInserts(u)
    PROVE  IInv'
<1>. USE DEF IInv
<1>0. TypeOK BY DEF Tables
<1>1. /\ push[u].pc = "idle" /\ rowId' = NextId(u)
      /\ push' = [push EXCEPT ![u] = At("inserted")]
      /\ UNCHANGED <<snapshot, rows, upsert, cleaner, cleanings, cleaned, before, excused>>
  BY DEF PushInserts, ghosts
<1>2. /\ push' \in [Updates -> Handlers]
      /\ push'[u].pc = "inserted" /\ push'[u].base.items = {} /\ push'[u].got = {}
      /\ \A v \in Updates : v # u => push'[v] = push[v]
  BY <1>0, <1>1, PushMovesEmpty
<1>3. rowId' \in [RootUpdates -> Nat]
  <2>1. Cardinality({w \in RootUpdates : rowId[w] # 0}) \in Nat
    BY UpdatesAssumption, FS_Subset, FS_CardinalityType
  <2>. QED BY <1>0, <1>1, <2>1 DEF NextId, TypeOK
<1>4. \A d \in Docs : \A v \in rows[d] : v \in Updates /\ v # u /\ DocOf(v) = d
  BY <1>0, <1>1, ValuesAreTyped DEF TypeOK
<1>5. TypeOK'
  <2>1. \A d \in Docs : \A v \in rows'[d] :
          DocOf(v) = d /\ push'[v].pc \notin {"idle", "inserted"}
    BY <1>0, <1>1, <1>2, <1>4 DEF TypeOK
  <2>. QED BY <1>0, <1>1, <1>2, <1>3, <2>1 DEF TypeOK, Handlers
<1>6. HeldIsStored'
  <2>1. \A d : Stored(d) \subseteq Stored(d)' BY <1>1, <1>2, StoredGrows
  <2>2. \A d \in Docs : snapshot'[d].items \subseteq Stored(d)' /\ rows'[d] \subseteq Stored(d)'
    BY <1>1, <2>1 DEF Tables, HeldIsStored
  <2>. QED BY <1>1, <1>2, <2>2, HeldKeptByPush
<1>7. VersionsTell' BY <1>1, <1>2, <1>5, VersionsKept
<1>8. Cleaning'
  <2>1. \A v \in rows'["root"] : v \in rows["root"] /\ rowId'[v] = rowId[v]
    <3>. SUFFICES ASSUME NEW v \in rows["root"] PROVE rowId'[v] = rowId[v] BY <1>1
    <3>1. v \in Updates /\ v # u /\ v \in RootUpdates BY <1>4, UpdatesHaveDocs DEF Docs
    <3>. QED BY <1>1, <3>1 DEF NextId
  <2>. QED BY <1>1, <1>2, <2>1, CleaningKeptByPush
<1>9. Posting' BY <1>1, PostingKept
<1>. QED BY <1>5, <1>6, <1>7, <1>8, <1>9 DEF Tables

LEMMA PushCommitsInvariant ==
    ASSUME IInv, NEW u \in Updates, PushCommits(u)
    PROVE  IInv'
<1>. USE DEF IInv
<1>0. TypeOK BY DEF Tables
<1>1. PICK d \in Docs : d = DocOf(u) BY UpdatesHaveDocs
<1>2. /\ push[u].pc = "inserted"
      /\ rows' = [rows EXCEPT ![d] = rows[d] \union {u}]
      /\ push' = [push EXCEPT ![u] = At("stored")]
      /\ excused' = [excused EXCEPT !.late = excused.late \union
                      {v \in {u} : d = "root" /\ rowId[u] <= cleaner.boundary}]
      /\ UNCHANGED <<snapshot, rowId, upsert, cleaner, cleanings, cleaned, before>>
  BY <1>1 DEF PushCommits
<1>3. /\ push' \in [Updates -> Handlers]
      /\ push'[u].pc = "stored" /\ push'[u].base.items = {} /\ push'[u].got = {}
      /\ \A v \in Updates : v # u => push'[v] = push[v]
  BY <1>0, <1>2, PushMovesEmpty
<1>4. /\ excused' \in Excuses
      /\ excused'.late = excused.late \union {v \in {u} : d = "root" /\ rowId[u] <= cleaner.boundary}
      /\ excused'.mixed = excused.mixed /\ excused'.torn = excused.torn
      /\ excused'.revived = excused.revived
  BY <1>0, <1>2 DEF TypeOK, Excuses
<1>5. /\ rows' \in [Docs -> SUBSET Updates]
      /\ rows'[d] = rows[d] \union {u} /\ \A e \in Docs : e # d => rows'[e] = rows[e]
  BY <1>0, <1>2 DEF TypeOK
<1>6. TypeOK'
  <2>1. \A e \in Docs : \A v \in rows'[e] : v \in Updates /\ (v \in rows[e] \/ (v = u /\ e = d))
    <3>1. \A v \in rows'[d] : v \in rows[d] \/ v = u BY <1>5
    <3>2. \A e \in Docs : rows'[e] \subseteq Updates BY <1>5
    <3>. QED BY <1>5, <3>1, <3>2
  <2>2. \A e \in Docs : \A v \in rows'[e] :
          DocOf(v) = e /\ push'[v].pc \notin {"idle", "inserted"}
    BY <1>0, <1>1, <1>3, <2>1 DEF TypeOK
  <2>. QED BY <1>0, <1>2, <1>3, <1>4, <1>5, <2>2 DEF TypeOK, Handlers
<1>7. HeldIsStored'
  <2>1. \A e : Stored(e) \subseteq Stored(e)' BY <1>2, <1>3, StoredGrows
  <2>2. u \in Stored(d)' BY <1>1, <1>3 DEF Stored
  <2>3. \A e \in Docs : snapshot'[e].items \subseteq Stored(e)' /\ rows'[e] \subseteq Stored(e)'
    BY <1>2, <1>5, <2>1, <2>2 DEF Tables, HeldIsStored
  <2>. QED BY <1>2, <1>3, <2>3, HeldKeptByPush
<1>8. VersionsTell' BY <1>2, <1>3, <1>6, VersionsKept
<1>9. Cleaning'
  <2>1. u \notin Stored("root") BY <1>2, UpdatesHaveDocs DEF Stored
  <2>2. u \notin cleaned BY <2>1 DEF Tables, HeldIsStored
  <2>3. \A v \in rows'["root"] :
          \/ v \in rows["root"] /\ rowId'[v] = rowId[v]
          \/ v \notin cleaned /\ (rowId'[v] <= cleaner.boundary => v \in excused'.late)
    BY <1>2, <1>4, <1>5, <2>2 DEF Docs
  <2>. QED BY <1>2, <1>3, <1>4, <2>3, CleaningKeptByPush
<1>10. Posting' BY <1>2, <1>4, <1>5, PostingKept DEF Docs
<1>. QED BY <1>6, <1>7, <1>8, <1>9, <1>10 DEF Tables

\* A push that ends, or reads for a rebuild, changes nothing else.
LEMMA PushReadsInvariant ==
    ASSUME IInv, NEW u \in Updates,
           PushEnds(u) \/ RebuildReadsSnapshot(u) \/ RebuildReadsRows(u)
    PROVE  IInv'
<1>. USE DEF IInv
<1>0. TypeOK BY DEF Tables
<1>1. PICK d \in Docs : d = DocOf(u) BY UpdatesHaveDocs
<1>2. UNCHANGED <<snapshot, rows, rowId, upsert, cleaner, cleanings, cleaned, before, excused>>
  BY DEF PushEnds, RebuildReadsSnapshot, RebuildReadsRows, ghosts
<1>3. /\ push' \in [Updates -> Handlers]
      /\ \A v \in Updates : v # u => push'[v] = push[v]
      /\ push[u].pc \notin {"idle"} /\ push'[u].pc \notin {"idle", "inserted"}
      /\ push'[u].base.items \subseteq Stored(d) /\ push'[u].got \subseteq Stored(d)
      /\ push'[u].pc \in {"read", "merged"} =>
           \/ push[u].pc \in {"read", "merged"} /\ push'[u].base = push[u].base
           \/ push'[u].base = snapshot'[d]
      /\ push'[u].pc = "merged" => push'[u].got = rows[d]
  <2>1. CASE PushEnds(u)
    <3>1. push' = [push EXCEPT ![u] = At("ended")] /\ push[u].pc # "idle" BY <2>1 DEF PushEnds
    <3>2. /\ push' \in [Updates -> Handlers]
          /\ push'[u].pc = "ended" /\ push'[u].base.items = {} /\ push'[u].got = {}
          /\ \A v \in Updates : v # u => push'[v] = push[v]
      BY <1>0, <3>1, PushMovesEmpty
    <3>. QED BY <3>1, <3>2
  <2>2. CASE RebuildReadsSnapshot(u)
    <3>1. push' = [push EXCEPT ![u] = Push("read", snapshot[d], {})] /\ push[u].pc = "stored"
      BY <1>1, <2>2 DEF RebuildReadsSnapshot
    <3>2. snapshot[d] \in Snapshots /\ {} \in SUBSET Updates BY <1>0, ValuesAreTyped
    <3>3. /\ push' \in [Updates -> Handlers]
          /\ push'[u].pc = "read" /\ push'[u].base = snapshot[d] /\ push'[u].got = {}
          /\ \A v \in Updates : v # u => push'[v] = push[v]
      BY <1>0, <3>1, <3>2, PushMoves
    <3>. QED BY <1>2, <3>1, <3>3 DEF Tables, HeldIsStored
  <2>3. CASE RebuildReadsRows(u)
    <3>1. /\ push' = [push EXCEPT ![u] = Push("merged", push[u].base, rows[d])]
          /\ push[u].pc = "read"
      BY <1>0, <1>1, <2>3 DEF RebuildReadsRows, TypeOK
    <3>2. push[u].base \in Snapshots /\ rows[d] \in SUBSET Updates BY <1>0, ValuesAreTyped
    <3>3. /\ push' \in [Updates -> Handlers]
          /\ push'[u].pc = "merged" /\ push'[u].base = push[u].base /\ push'[u].got = rows[d]
          /\ \A v \in Updates : v # u => push'[v] = push[v]
      BY <1>0, <3>1, <3>2, PushMoves
    <3>. QED BY <1>1, <3>1, <3>3 DEF Tables, HeldIsStored
  <2>. QED BY <2>1, <2>2, <2>3
<1>4. TypeOK'
  <2>1. \A e \in Docs : \A v \in rows'[e] :
          DocOf(v) = e /\ push'[v].pc \notin {"idle", "inserted"}
    BY <1>0, <1>2, <1>3, ValuesAreTyped DEF TypeOK
  <2>. QED BY <1>0, <1>2, <1>3, <2>1 DEF TypeOK, Handlers
<1>5. HeldIsStored'
  <2>1. \A e : Stored(e) \subseteq Stored(e)' BY <1>3, StoredGrows
  <2>2. \A e \in Docs : snapshot'[e].items \subseteq Stored(e)' /\ rows'[e] \subseteq Stored(e)'
    BY <1>2, <2>1 DEF Tables, HeldIsStored
  <2>3. push'[u].base.items \subseteq Stored(d)' /\ push'[u].got \subseteq Stored(d)'
    BY <1>3, <2>1
  <2>. QED BY <1>1, <1>2, <1>3, <2>2, <2>3, HeldKeptByPush
<1>6. VersionsTell'
  <2>1. \A v \in Updates : push'[v].pc \in {"read", "merged"} =>
          \/ push[v].pc \in {"read", "merged"} /\ push'[v].base = push[v].base
          \/ push'[v].base = snapshot'[DocOf(v)]
    BY <1>1, <1>3
  <2>. QED BY <1>2, <1>4, <2>1, VersionsKept
<1>7. Cleaning' BY <1>1, <1>2, <1>3, CleaningKeptByPush
<1>8. Posting' BY <1>2, PostingKept
<1>. QED BY <1>4, <1>5, <1>6, <1>7, <1>8 DEF Tables

\* A rebuild writes over the snapshot it has read, and moves the rows it has read into it.
LEMMA RebuildCommitsInvariant ==
    ASSUME IInv, NEW u \in Updates, RebuildCommits(u)
    PROVE  IInv'
<1>. USE DEF IInv
<1>0. TypeOK BY DEF Tables
<1>1. PICK d \in Docs : d = DocOf(u) BY UpdatesHaveDocs
<1>. DEFINE items == push[u].base.items \union push[u].got
            between == {x \in Upserters : upsert[x].doc = d /\ upsert[x].step = "rows"}
<1>2. /\ push[u].pc = "merged" /\ SameVersion(d, push[u].base) /\ Replaced(d, items)
      /\ rows' = [rows EXCEPT ![d] = rows[d] \ push[u].got]
      /\ push' = [push EXCEPT ![u] = At("ended")]
      /\ excused' = [excused EXCEPT !.torn = excused.torn \union between]
      /\ UNCHANGED <<rowId, upsert, cleaner, cleanings, cleaned, before>>
  BY <1>0, <1>1 DEF RebuildCommits, TypeOK
<1>3. push[u].base = snapshot[d]
  BY <1>1, <1>2 DEF Tables, VersionsTell, ReadOf, SameVersion
<1>4. items = snapshot[d].items \union push[u].got /\ items \subseteq Items
      /\ items \subseteq Stored(d)
  BY <1>0, <1>1, <1>3, ValuesAreTyped, UpdatesHaveDocs DEF Tables, HeldIsStored
<1>. HIDE DEF items
<1>5. /\ snapshot' \in [Docs -> Snapshots] /\ snapshot'[d].items = items
      /\ snapshot'[d].version = snapshot[d].version + 1
      /\ \A e \in Docs : e # d => snapshot'[e] = snapshot[e]
  BY <1>0, <1>2, <1>4, ReplacedMoves
<1>6. /\ push' \in [Updates -> Handlers]
      /\ push'[u].pc = "ended" /\ push'[u].base.items = {} /\ push'[u].got = {}
      /\ \A v \in Updates : v # u => push'[v] = push[v]
  BY <1>0, <1>2, PushMovesEmpty
<1>7. /\ rows' \in [Docs -> SUBSET Updates]
      /\ rows'[d] = rows[d] \ push[u].got /\ \A e \in Docs : e # d => rows'[e] = rows[e]
  BY <1>0, <1>2 DEF TypeOK
<1>8. /\ excused' \in Excuses
      /\ excused'.torn = excused.torn \union between
      /\ excused'.mixed = excused.mixed /\ excused'.late = excused.late
      /\ excused'.revived = excused.revived
  BY <1>0, <1>2 DEF TypeOK, Excuses
<1>9. TypeOK'
  <2>1. \A e \in Docs : \A v \in rows'[e] : v \in Updates /\ v \in rows[e] BY <1>7
  <2>2. \A e \in Docs : \A v \in rows'[e] :
          DocOf(v) = e /\ push'[v].pc \notin {"idle", "inserted"}
    BY <1>0, <1>6, <2>1 DEF TypeOK
  <2>. QED BY <1>0, <1>2, <1>5, <1>6, <1>7, <1>8, <2>2 DEF TypeOK, Handlers
<1>10. HeldIsStored'
  <2>1. \A e : Stored(e) \subseteq Stored(e)' BY <1>6, StoredGrows
  <2>2. \A e \in Docs : snapshot'[e].items \subseteq Stored(e)' /\ rows'[e] \subseteq Stored(e)'
    BY <1>4, <1>5, <1>7, <2>1 DEF Tables, HeldIsStored
  <2>. QED BY <1>2, <1>6, <2>2, HeldKeptByPush
<1>11. VersionsTell'
  <2>1. \A e \in Docs : \/ snapshot'[e] = snapshot[e]
                        \/ snapshot'[e].version = snapshot[e].version + 1
    BY <1>5
  <2>. QED BY <1>2, <1>6, <1>9, <2>1, VersionsKept
<1>12. Cleaning'
  <2>1. d = "root" => cleaned \intersect items \subseteq excused.revived
    <3>. SUFFICES ASSUME d = "root" PROVE cleaned \intersect items \subseteq excused.revived OBVIOUS
    <3>1. push[u].got \intersect cleaned = {}
      BY <1>1, <1>2, UpdatesHaveDocs DEF Cleaning, CleanedIsGone
    <3>2. cleaned \intersect snapshot["root"].items \subseteq excused.revived
      BY DEF Cleaning, CleanedStaysClean, Body
    <3>. QED BY <1>4, <3>1, <3>2
  <2>2. snapshot'["root"] = snapshot["root"] \/
          /\ snapshot'["root"].version = snapshot["root"].version + 1
          /\ cleaned \intersect snapshot'["root"].items \subseteq excused.revived
    BY <1>5, <2>1 DEF Docs
  <2>3. \A v \in rows'["root"] : v \in rows["root"] BY <1>7 DEF Docs
  <2>. QED BY <1>2, <1>6, <1>8, <2>2, <2>3, CleaningKeptByPush
<1>13. Posting'
  <2>1. \A e \in Docs : /\ snapshot[e].items \subseteq snapshot'[e].items
                        /\ rows[e] \subseteq snapshot'[e].items \union rows'[e]
    BY <1>4, <1>5, <1>7
  <2>2. \A x \in Upserters : upsert[x].doc = "folders" /\ upsert[x].step = "rows" =>
          x \in excused'.torn \/ rows["folders"] \subseteq rows'["folders"]
    BY <1>7, <1>8 DEF Docs
  <2>3. "root" \in Docs /\ "folders" \in Docs BY DEF Docs
  <2>. QED BY <1>2, <1>8, <2>1, <2>2, <2>3, PostingKept
<1>. QED BY <1>9, <1>10, <1>11, <1>12, <1>13 DEF Tables

-----------------------------------------------------------------------------
(* The endpoint. *)

\* The cleaning beside a request of the endpoint: rows go, and what it brings back is named.
LEMMA CleaningKeptByUpsert ==
    ASSUME Tables, Cleaning, UNCHANGED <<push, cleaner, cleaned, rowId>>,
           excused.revived \subseteq excused'.revived, excused'.late = excused.late,
           rows'["root"] \subseteq rows["root"],
           snapshot'["root"] = snapshot["root"] \/
             /\ snapshot'["root"].version = snapshot["root"].version + 1
             /\ cleaned \intersect snapshot'["root"].items \subseteq excused'.revived
    PROVE  Cleaning'
<1>1. CleanedIsGone'
  <2>. SUFFICES ASSUME NEW v \in RootUpdates, push[v].pc = "merged",
                       SameVersion("root", push[v].base)'
                PROVE  push[v].got \intersect cleaned = {}
    BY DEF Cleaning, CleanedIsGone
  <2>1. v \in Updates /\ DocOf(v) = "root" /\ "root" \in Docs BY UpdatesHaveDocs DEF Docs
  <2>2. ReadOf("root", push[v].base) BY <2>1 DEF Tables, VersionsTell
  <2>3. push[v].base.version \in Nat /\ snapshot["root"].version \in Nat
    BY <2>1, ValuesAreTyped DEF Tables
  <2>4. SameVersion("root", push[v].base) BY <2>2, <2>3 DEF ReadOf, SameVersion
  <2>. QED BY <2>4 DEF Cleaning, CleanedIsGone
<1>2. CleanedStaysClean' BY DEF Cleaning, CleanedIsGone, CleanedStaysClean, Body
<1>3. LateIsNamed' BY DEF Cleaning, LateIsNamed
<1>. QED BY <1>1, <1>2, <1>3 DEF Cleaning

\* Those who run beside x are named with it.
LEMMA BesideIsMixed ==
    ASSUME Posting, NEW x \in Upserters, NEW y \in Upserters, Running(x), Running(y), x # y
    PROVE  x \in excused.mixed /\ y \in excused.mixed
BY DEF Posting, MixedIsNamed

LEMMA UpsertBeginsInvariant ==
    ASSUME IInv, NEW x \in Upserters, UpsertBegins(x)
    PROVE  IInv'
<1>. USE DEF IInv
<1>0. TypeOK BY DEF Tables
<1>. DEFINE together == {y \in Upserters : Running(y)}
            held == UNION {Body(d) : d \in Docs}
<1>1. /\ upsert[x].step = "idle"
      /\ upsert' = [upsert EXCEPT ![x] = Upsert("page", "writes", {})]
      /\ before' = [before EXCEPT ![x] = held]
      /\ excused' = [excused EXCEPT !.mixed = (excused.mixed \union together)
                                         \union (IF together = {} THEN {} ELSE {x})]
      /\ UNCHANGED <<snapshot, rows, rowId, push, cleaner, cleanings, cleaned>>
  BY DEF UpsertBegins
<1>2. "page" \in Docs /\ "root" \in Docs /\ "folders" \in Docs BY DEF Docs
<1>3. /\ upsert' \in [Upserters -> Upserts]
      /\ upsert'[x].doc = "page" /\ upsert'[x].step = "writes" /\ upsert'[x].got = {}
      /\ \A y \in Upserters : y # x => upsert'[y] = upsert[y]
  BY <1>0, <1>1, <1>2, UpsertMoves
<1>4. /\ excused' \in Excuses
      /\ excused'.mixed = (excused.mixed \union together) \union (IF together = {} THEN {} ELSE {x})
      /\ UNCHANGED <<excused.late, excused.revived, excused.torn>>
  BY <1>0, <1>1 DEF TypeOK, Excuses
<1>5. \A u \in held : \E d \in Docs : u \in Stored(d) /\ (u \in snapshot[d].items \/ u \in rows[d])
  BY DEF Body, Tables, HeldIsStored
<1>6. held \subseteq Items BY <1>5, UpdatesHaveDocs DEF Stored
<1>7. before' \in [Upserters -> SUBSET Items] /\ before'[x] = held
      /\ \A y \in Upserters : y # x => before'[y] = before[y]
  BY <1>0, <1>1, <1>6 DEF TypeOK
<1>. HIDE DEF held
<1>8. TypeOK' BY <1>0, <1>1, <1>3, <1>4, <1>7 DEF TypeOK, Upserts
<1>9. HeldIsStored'
  <2>1. \A y \in Upserters : upsert'[y].got \subseteq Stored(upsert'[y].doc)
    BY <1>3 DEF Tables, HeldIsStored
  <2>. QED BY <1>1, <2>1, HeldKeptBeside DEF Tables, HeldIsStored
<1>10. VersionsTell' BY <1>1, <1>8, VersionsKept
<1>11. Cleaning' BY <1>1, <1>4, CleaningKeptByUpsert
<1>12. Posting'
  <2>0. Running(x)' /\ ~Running(x) BY <1>1, <1>3 DEF Running
  <2>1. \A y \in Upserters : y # x =>
          /\ Running(y)' = Running(y)
          /\ \A d \in Docs : IsEntered(y, d)' = IsEntered(y, d)
    BY <1>3 DEF Running, IsEntered
  <2>2. OnlyFoldersHaveRowsRead' BY <1>3 DEF Posting, OnlyFoldersHaveRowsRead
  <2>3. MixedIsNamed' BY <1>4, <2>0, <2>1 DEF Posting, MixedIsNamed
  <2>4. ~IsEntered(x, "root")' /\ ~IsEntered(x, "folders")' BY <1>3 DEF IsEntered
  <2>5. \A y : y \notin excused'.mixed => y \notin excused.mixed BY <1>4
  <2>6. PostedStands' BY <1>1, <1>2, <2>1, <2>4, <2>5 DEF Posting, PostedStands
  <2>7. ReadersHavePosted'
    BY <1>1, <1>2, <1>3, <2>1, <2>4, <2>5 DEF Posting, ReadersHavePosted
  <2>8. FoldersAreKept'
    <3>1. \A u \in before'[x] \intersect FolderUpdates :
            u \in snapshot'["folders"].items \/ u \in rows'["folders"]
      BY <1>1, <1>5, <1>7, UpdatesHaveDocs DEF Stored
    <3>2. \A y \in Upserters \ (excused'.mixed \union excused'.torn) : y # x =>
            y \in Upserters \ (excused.mixed \union excused.torn)
      BY <1>4
    <3>. QED BY <1>1, <1>3, <1>7, <2>1, <3>1, <3>2 DEF Posting, FoldersAreKept
  <2>. QED BY <2>2, <2>3, <2>6, <2>7, <2>8 DEF Posting
<1>. QED BY <1>8, <1>9, <1>10, <1>11, <1>12 DEF Tables

\* The request reads: a snapshot, or the rows of the folders.
LEMMA UpsertReadsInvariant ==
    ASSUME IInv, NEW x \in Upserters, UpsertReads(x) \/ UpsertReadsRows(x)
    PROVE  IInv'
<1>. USE DEF IInv
<1>0. TypeOK BY DEF Tables
<1>1. PICK d \in Docs : d = upsert[x].doc BY <1>0, ValuesAreTyped
<1>2. UNCHANGED <<snapshot, rows, rowId, push, cleaner, cleanings, cleaned, before, excused>>
  BY DEF UpsertReads, UpsertReadsRows, ghosts
<1>3. PICK step \in {"rows", "writes"}, got \in SUBSET Items :
        /\ upsert' = [upsert EXCEPT ![x] = Upsert(d, step, got)]
        /\ step = "rows" => d = "folders"
        /\ \/ /\ upsert[x].step = "reads" /\ got = snapshot[d].items
              /\ d = "folders" => step = "rows"
           \/ /\ upsert[x].step = "rows" /\ got = upsert[x].got \union rows[d]
              /\ d = "folders" /\ step = "writes"
  <2>1. CASE UpsertReads(x)
    <3>1. /\ upsert[x].step = "reads"
          /\ upsert' = [upsert EXCEPT ![x] =
               Upsert(d, IF d = "folders" THEN "rows" ELSE "writes", snapshot[d].items)]
      BY <1>0, <1>1, <2>1 DEF UpsertReads, TypeOK
    <3>2. snapshot[d].items \in SUBSET Items BY <1>0, ValuesAreTyped
    <3>. QED BY <3>1, <3>2
  <2>2. CASE UpsertReadsRows(x)
    <3>1. /\ upsert[x].step = "rows"
          /\ upsert' = [upsert EXCEPT ![x] = Upsert(d, "writes", upsert[x].got \union rows[d])]
      BY <1>0, <1>1, <2>2 DEF UpsertReadsRows, TypeOK
    <3>2. upsert[x].got \union rows[d] \in SUBSET Items
      BY <1>0, ValuesAreTyped, UpdatesHaveDocs
    <3>3. d = "folders" BY <1>1, <3>1 DEF Posting, OnlyFoldersHaveRowsRead
    <3>. QED BY <3>1, <3>2, <3>3
  <2>. QED BY <2>1, <2>2
<1>4. /\ upsert' \in [Upserters -> Upserts]
      /\ upsert'[x].doc = d /\ upsert'[x].step = step /\ upsert'[x].got = got
      /\ \A y \in Upserters : y # x => upsert'[y] = upsert[y]
  BY <1>0, <1>3, UpsertMoves
<1>5. TypeOK' BY <1>0, <1>2, <1>4 DEF TypeOK, Upserts
<1>6. HeldIsStored'
  <2>1. got \subseteq Stored(d) BY <1>1, <1>3 DEF Tables, HeldIsStored
  <2>2. \A y \in Upserters : upsert'[y].got \subseteq Stored(upsert'[y].doc)
    BY <1>4, <2>1 DEF Tables, HeldIsStored
  <2>. QED BY <1>2, <2>2, HeldKeptBeside DEF Tables, HeldIsStored
<1>7. VersionsTell' BY <1>2, <1>5, VersionsKept
<1>8. Cleaning' BY <1>2, CleaningKeptByUpsert
<1>9. Posting'
  <2>1. "root" \in Docs /\ "folders" \in Docs BY DEF Docs
  <2>2. \A y \in Upserters :
          /\ Running(y)' = Running(y)
          /\ \A e \in Docs : IsEntered(y, e)' = IsEntered(y, e)
    <3>1. Running(x)' /\ Running(x) BY <1>3, <1>4 DEF Running
    <3>2. \A e \in Docs : IsEntered(x, e)' = IsEntered(x, e) BY <1>1, <1>3, <1>4 DEF IsEntered
    <3>. QED BY <1>4, <3>1, <3>2 DEF Running, IsEntered
  <2>3. OnlyFoldersHaveRowsRead' BY <1>3, <1>4 DEF Posting, OnlyFoldersHaveRowsRead
  <2>4. MixedIsNamed' BY <1>2, <2>2 DEF Posting, MixedIsNamed
  <2>5. PostedStands' BY <1>2, <2>1, <2>2 DEF Posting, PostedStands
  <2>6. ReadersHavePosted'
    <3>1. \A z \in Upserters \ excused.mixed : z # x =>
            /\ IsEntered(z, "root") /\ d = "root" => z \in got \/ z \in cleaned
            /\ IsEntered(z, "folders") /\ d = "folders" => z \in got
      BY <1>1, <1>3 DEF Posting, PostedStands, ReadersHavePosted
    <3>2. \A z \in Upserters \ excused.mixed : \A y \in Upserters \ {z, x} :
            upsert'[y] = upsert[y]
      BY <1>4
    <3>. QED BY <1>2, <1>4, <2>1, <2>2, <3>1, <3>2 DEF Posting, ReadersHavePosted
  <2>7. FoldersAreKept'
    <3>1. Running(x) BY <1>3 DEF Running
    <3>2. \A u \in before[x] \intersect FolderUpdates :
            x \in Upserters \ (excused.mixed \union excused.torn) =>
              /\ d # "folders" => u \in snapshot["folders"].items \/ u \in rows["folders"]
              /\ d = "folders" /\ step = "rows" => u \in got \/ u \in rows["folders"]
              /\ d = "folders" /\ step = "writes" => u \in got
      BY <1>1, <1>3, <3>1 DEF Posting, FoldersAreKept
    <3>. QED BY <1>2, <1>3, <1>4, <2>2, <3>2 DEF Posting, FoldersAreKept
  <2>. QED BY <2>3, <2>4, <2>5, <2>6, <2>7 DEF Posting
<1>. QED BY <1>5, <1>6, <1>7, <1>8, <1>9 DEF Tables

\* The request writes over whatever is there: what others had entered it has read, and what
\* runs beside it is mixed up with it.
LEMMA UpsertWritesInvariant ==
    ASSUME IInv, NEW x \in Upserters, UpsertWrites(x)
    PROVE  IInv'
<1>. USE DEF IInv
<1>0. TypeOK BY DEF Tables
<1>1. PICK d \in Docs : d = upsert[x].doc BY <1>0, ValuesAreTyped
<1>2. PICK items \in SUBSET Items : items = Written(x)
  BY <1>0, ValuesAreTyped, UpdatesHaveDocs DEF Written
<1>3. /\ upsert[x].step = "writes" /\ Replaced(d, items)
      /\ upsert' = [upsert EXCEPT ![x] = Upsert(d, "clears", {})]
      /\ excused' = [excused EXCEPT !.revived = excused.revived \union
                                    (IF d = "root" THEN cleaned \intersect items ELSE {})]
      /\ UNCHANGED <<rows, rowId, push, cleaner, cleanings, cleaned, before>>
  BY <1>0, <1>1, <1>2 DEF UpsertWrites, TypeOK
<1>4. items \subseteq Stored(d) /\ (d # "page" => items = upsert[x].got \union {x})
  BY <1>1, <1>2 DEF Written, Stored, Tables, HeldIsStored
<1>5. /\ snapshot' \in [Docs -> Snapshots] /\ snapshot'[d].items = items
      /\ snapshot'[d].version = snapshot[d].version + 1
      /\ \A e \in Docs : e # d => snapshot'[e] = snapshot[e]
  BY <1>0, <1>3, ReplacedMoves
<1>6. /\ upsert' \in [Upserters -> Upserts]
      /\ upsert'[x].doc = d /\ upsert'[x].step = "clears" /\ upsert'[x].got = {}
      /\ \A y \in Upserters : y # x => upsert'[y] = upsert[y]
  BY <1>0, <1>3, UpsertMoves
<1>7. /\ excused' \in Excuses /\ excused.revived \subseteq excused'.revived
      /\ d = "root" => cleaned \intersect items \subseteq excused'.revived
      /\ excused'.late = excused.late /\ excused'.mixed = excused.mixed
      /\ excused'.torn = excused.torn
  BY <1>0, <1>3 DEF TypeOK, Excuses
<1>8. TypeOK' BY <1>0, <1>3, <1>5, <1>6, <1>7 DEF TypeOK, Upserts
<1>9. HeldIsStored'
  <2>1. \A y \in Upserters : upsert'[y].got \subseteq Stored(upsert'[y].doc)
    BY <1>6 DEF Tables, HeldIsStored
  <2>2. \A e \in Docs : snapshot'[e].items \subseteq Stored(e) /\ rows'[e] \subseteq Stored(e)
    BY <1>3, <1>4, <1>5 DEF Tables, HeldIsStored
  <2>. QED BY <1>3, <2>1, <2>2, HeldKeptBeside DEF Tables, HeldIsStored
<1>10. VersionsTell'
  <2>1. \A e \in Docs : \/ snapshot'[e] = snapshot[e]
                        \/ snapshot'[e].version = snapshot[e].version + 1
    BY <1>5
  <2>. QED BY <1>3, <1>8, <2>1, VersionsKept
<1>11. Cleaning'
  <2>1. snapshot'["root"] = snapshot["root"] \/
          /\ snapshot'["root"].version = snapshot["root"].version + 1
          /\ cleaned \intersect snapshot'["root"].items \subseteq excused'.revived
    BY <1>5, <1>7 DEF Docs
  <2>. QED BY <1>3, <1>7, <2>1, CleaningKeptByUpsert
<1>12. Posting'
  <2>1. "root" \in Docs /\ "folders" \in Docs BY DEF Docs
  <2>2. Running(x) BY <1>3 DEF Running
  <2>3. \A y \in Upserters : y # x =>
          /\ Running(y)' = Running(y)
          /\ \A e \in Docs : IsEntered(y, e)' = IsEntered(y, e)
    BY <1>6 DEF Running, IsEntered
  <2>4. \A e \in Docs : IsEntered(x, e)' => IsEntered(x, e) \/ e = d BY <1>1, <1>3, <1>6 DEF IsEntered
  <2>5. \A y \in Upserters \ excused.mixed : y # x => ~Running(y) BY <2>2, BesideIsMixed
  <2>6. OnlyFoldersHaveRowsRead' BY <1>6 DEF Posting, OnlyFoldersHaveRowsRead
  <2>7. MixedIsNamed'
    <3>1. \A y \in Upserters : Running(y)' => Running(y) BY <2>2, <2>3
    <3>. QED BY <1>7, <3>1 DEF Posting, MixedIsNamed
  <2>8. PostedStands'
    <3>. SUFFICES ASSUME NEW z \in Upserters \ excused.mixed
                  PROVE  /\ IsEntered(z, "root")' => z \in snapshot'["root"].items \/ z \in cleaned
                         /\ IsEntered(z, "folders")' => z \in snapshot'["folders"].items
      BY <1>3, <1>7 DEF PostedStands
    <3>1. CASE z = x
      <4>1. d \in {"root", "folders"} => z \in snapshot'[d].items BY <1>4, <1>5, <3>1
      <4>2. \A e \in Docs : e # d /\ IsEntered(z, e)' => IsEntered(z, e) /\ snapshot'[e] = snapshot[e]
        BY <1>5, <2>4, <3>1
      <4>. QED BY <2>1, <4>1, <4>2 DEF Posting, PostedStands
    <3>2. CASE z # x
      <4>1. /\ IsEntered(z, "root") /\ d = "root" => z \in upsert[x].got \/ z \in cleaned
            /\ IsEntered(z, "folders") /\ d = "folders" => z \in upsert[x].got
        BY <1>1, <1>3, <3>2 DEF Posting, ReadersHavePosted
      <4>. QED BY <1>4, <1>5, <2>1, <2>3, <3>2, <4>1 DEF Posting, PostedStands
    <3>. QED BY <3>1, <3>2
  <2>9. ReadersHavePosted'
    <3>1. \A y \in Upserters : upsert[y].step \in {"rows", "writes"} => Running(y)
      BY DEF Running
    <3>2. \A y \in Upserters \ {x} : x \notin excused.mixed => ~Running(y)
      BY <2>2, BesideIsMixed
    <3>. SUFFICES ASSUME NEW z \in Upserters \ excused.mixed, NEW y \in Upserters \ {z}
                  PROVE  /\ /\ IsEntered(z, "root")'
                            /\ upsert'[y].doc = "root" /\ upsert'[y].step = "writes"
                            => z \in upsert'[y].got \/ z \in cleaned
                         /\ /\ IsEntered(z, "folders")'
                            /\ upsert'[y].doc = "folders" /\ upsert'[y].step \in {"rows", "writes"}
                            => z \in upsert'[y].got
      BY <1>3, <1>7 DEF ReadersHavePosted
    <3>3. CASE y = x BY <1>6, <3>3
    <3>4. CASE y # x /\ z = x BY <1>6, <3>1, <3>2, <3>4
    <3>5. CASE y # x /\ z # x BY <1>6, <2>1, <2>3, <3>5 DEF Posting, ReadersHavePosted
    <3>. QED BY <3>3, <3>4, <3>5
  <2>10. FoldersAreKept'
    <3>. SUFFICES ASSUME NEW z \in Upserters \ (excused.mixed \union excused.torn),
                         NEW u \in before[z] \intersect FolderUpdates
                  PROVE
            /\ Running(z)' /\ (upsert'[z].doc # "folders" \/ upsert'[z].step = "reads") =>
                 u \in snapshot'["folders"].items \/ u \in rows'["folders"]
            /\ upsert'[z].doc = "folders" /\ upsert'[z].step = "rows" =>
                 u \in upsert'[z].got \/ u \in rows'["folders"]
            /\ upsert'[z].doc = "folders" /\ upsert'[z].step = "writes" => u \in upsert'[z].got
            /\ upsert'[z].doc = "folders" /\ upsert'[z].step = "clears" =>
                 u \in snapshot'["folders"].items
      BY <1>3, <1>7 DEF FoldersAreKept
    <3>1. CASE z = x
      <4>1. /\ d # "folders" => u \in snapshot["folders"].items \/ u \in rows["folders"]
            /\ d = "folders" => u \in upsert[x].got
        BY <1>1, <1>3, <2>2, <3>1 DEF Posting, FoldersAreKept
      <4>2. d # "folders" => snapshot'["folders"] = snapshot["folders"] BY <1>5, <2>1
      <4>3. d = "folders" => u \in snapshot'["folders"].items BY <1>4, <1>5, <4>1
      <4>. QED BY <1>3, <1>6, <3>1, <4>1, <4>2, <4>3
    <3>2. CASE z # x
      <4>1. ~Running(z) /\ ~Running(z)' BY <2>3, <2>5, <3>2
      <4>2. upsert'[z].step \notin {"reads", "rows", "writes", "clears"} BY <4>1 DEF Running
      <4>. QED BY <4>1, <4>2
    <3>. QED BY <3>1, <3>2
  <2>. QED BY <2>6, <2>7, <2>8, <2>9, <2>10 DEF Posting
<1>. QED BY <1>8, <1>9, <1>10, <1>11, <1>12 DEF Tables

\* The request deletes the rows of its document and goes on, or gives up.
LEMMA UpsertLeavesInvariant ==
    ASSUME IInv, NEW x \in Upserters, UpsertClears(x) \/ UpsertFails(x)
    PROVE  IInv'
<1>. USE DEF IInv
<1>0. TypeOK BY DEF Tables
<1>1. PICK d \in Docs : d = upsert[x].doc BY <1>0, ValuesAreTyped
<1>2. UNCHANGED <<snapshot, rowId, push, cleaner, cleanings, cleaned>>
  BY DEF UpsertClears, UpsertFails, Forgets, ghosts
<1>3. /\ Running(x)
      /\ rows' \in [Docs -> SUBSET Updates] /\ \A e \in Docs : rows'[e] \subseteq rows[e]
      /\ rows'["folders"] = rows["folders"] \/ d = "folders"
  <2>1. CASE UpsertClears(x)
    <3>1. rows' = [rows EXCEPT ![d] = {}] /\ upsert[x].step = "clears"
      BY <1>1, <2>1 DEF UpsertClears
    <3>. QED BY <1>0, <3>1 DEF TypeOK, Running, Docs
  <2>2. CASE UpsertFails(x) BY <1>0, <2>2 DEF UpsertFails, TypeOK
  <2>. QED BY <2>1, <2>2
<1>4. PICK e \in Docs, step \in {"reads", "done", "failed"} :
        /\ upsert' = [upsert EXCEPT ![x] = Upsert(e, step, {})]
        /\ \/ /\ upsert[x].step = "clears"
              /\ \/ d = "page" /\ e = "root" /\ step = "reads"
                 \/ d = "root" /\ e = "folders" /\ step = "reads"
                 \/ d = "folders" /\ e = "page" /\ step = "done"
           \/ e = "page" /\ step = "failed"
  <2>1. CASE UpsertClears(x)
    <3>1. /\ upsert[x].step = "clears"
          /\ \/ d = "page" /\ upsert' = [upsert EXCEPT ![x] = Upsert("root", "reads", {})]
             \/ d = "root" /\ upsert' = [upsert EXCEPT ![x] = Upsert("folders", "reads", {})]
             \/ d = "folders" /\ upsert' = [upsert EXCEPT ![x] = Upsert("page", "done", {})]
      BY <1>0, <1>1, <2>1 DEF UpsertClears, TypeOK, Docs
    <3>. QED BY <3>1 DEF Docs
  <2>2. CASE UpsertFails(x) BY <2>2 DEF UpsertFails, Docs
  <2>. QED BY <2>1, <2>2
<1>5. /\ upsert' \in [Upserters -> Upserts]
      /\ upsert'[x].doc = e /\ upsert'[x].step = step /\ upsert'[x].got = {}
      /\ \A y \in Upserters : y # x => upsert'[y] = upsert[y]
  <2>1. {} \in SUBSET Items OBVIOUS
  <2>. QED BY <1>0, <1>4, <2>1, UpsertMoves
<1>6. /\ excused' \in Excuses
      /\ excused'.late = excused.late /\ excused'.mixed = excused.mixed
      /\ excused'.revived = excused.revived
      /\ \A y \in Upserters : y # x /\ y \notin excused'.torn => y \notin excused.torn
      /\ before' \in [Upserters -> SUBSET Items]
      /\ \A y \in Upserters : y # x => before'[y] = before[y]
      /\ before'[x] \subseteq before[x]
      /\ x \notin excused'.torn => x \notin excused.torn \/ before'[x] = {}
  <2>1. CASE UNCHANGED ghosts BY <1>0, <2>1 DEF ghosts, TypeOK
  <2>2. CASE Forgets(x)
    <3>1. /\ before' = [before EXCEPT ![x] = {}]
          /\ excused' = [excused EXCEPT !.torn = excused.torn \ {x}]
      BY <2>2 DEF Forgets
    <3>2. before \in [Upserters -> SUBSET Items] /\ excused \in Excuses BY <1>0 DEF TypeOK
    <3>3. before' \in [Upserters -> SUBSET Items] /\ before'[x] = {} BY <3>1, <3>2
    <3>4. /\ excused' \in Excuses
          /\ excused'.late = excused.late /\ excused'.mixed = excused.mixed
          /\ excused'.revived = excused.revived /\ excused'.torn = excused.torn \ {x}
      BY <3>1, <3>2 DEF Excuses
    <3>. QED BY <3>1, <3>2, <3>3, <3>4
  <2>3. UNCHANGED ghosts \/ Forgets(x) BY DEF UpsertClears, UpsertFails
  <2>. QED BY <2>1, <2>2, <2>3
<1>7. TypeOK'
  <2>1. \A c \in Docs : \A v \in rows'[c] : DocOf(v) = c /\ push'[v].pc \notin {"idle", "inserted"}
    BY <1>0, <1>2, <1>3 DEF TypeOK
  <2>. QED BY <1>0, <1>2, <1>3, <1>5, <1>6, <2>1 DEF TypeOK, Upserts
<1>8. HeldIsStored'
  <2>1. \A y \in Upserters : upsert'[y].got \subseteq Stored(upsert'[y].doc)
    BY <1>5 DEF Tables, HeldIsStored
  <2>. QED BY <1>2, <1>3, <2>1, HeldKeptBeside DEF Tables, HeldIsStored
<1>9. VersionsTell' BY <1>2, <1>7, VersionsKept
<1>10. Cleaning' BY <1>2, <1>3, <1>6, CleaningKeptByUpsert DEF Docs
<1>11. Posting'
  <2>1. "root" \in Docs /\ "folders" \in Docs BY DEF Docs
  <2>2. \A y \in Upserters : y # x =>
          /\ Running(y)' = Running(y)
          /\ \A c \in Docs : IsEntered(y, c)' = IsEntered(y, c)
    BY <1>5 DEF Running, IsEntered
  <2>3. \A c \in {"root", "folders"} : IsEntered(x, c)' => IsEntered(x, c)
    BY <1>1, <1>4, <1>5 DEF IsEntered
  <2>4. \A y \in Upserters \ excused.mixed : y # x => ~Running(y) BY <1>3, BesideIsMixed
  <2>5. OnlyFoldersHaveRowsRead' BY <1>5 DEF Posting, OnlyFoldersHaveRowsRead
  <2>6. MixedIsNamed'
    <3>1. \A y \in Upserters : Running(y)' => Running(y) BY <1>3, <2>2
    <3>. QED BY <1>6, <3>1 DEF Posting, MixedIsNamed
  <2>7. PostedStands' BY <1>2, <1>6, <2>1, <2>2, <2>3 DEF Posting, PostedStands
  <2>8. ReadersHavePosted'
    <3>1. upsert'[x].step \notin {"rows", "writes"} BY <1>5
    <3>2. \A z \in Upserters : \A c \in {"root", "folders"} : IsEntered(z, c)' => IsEntered(z, c)
      BY <2>1, <2>2, <2>3
    <3>. QED BY <1>2, <1>5, <1>6, <3>1, <3>2 DEF Posting, ReadersHavePosted
  <2>9. FoldersAreKept'
    <3>. SUFFICES ASSUME NEW z \in Upserters \ (excused'.mixed \union excused'.torn),
                         NEW u \in before'[z] \intersect FolderUpdates
                  PROVE
            /\ Running(z)' /\ (upsert'[z].doc # "folders" \/ upsert'[z].step = "reads") =>
                 u \in snapshot'["folders"].items \/ u \in rows'["folders"]
            /\ upsert'[z].doc = "folders" /\ upsert'[z].step = "rows" =>
                 u \in upsert'[z].got \/ u \in rows'["folders"]
            /\ upsert'[z].doc = "folders" /\ upsert'[z].step = "writes" => u \in upsert'[z].got
            /\ upsert'[z].doc = "folders" /\ upsert'[z].step = "clears" =>
                 u \in snapshot'["folders"].items
      BY DEF FoldersAreKept
    <3>1. CASE z = x
      <4>1. z \in Upserters \ (excused.mixed \union excused.torn)
            /\ u \in before[z] \intersect FolderUpdates
        BY <1>6, <3>1
      <4>2. CASE step \in {"done", "failed"} BY <1>5, <3>1, <4>2 DEF Running
      <4>3. CASE step = "reads"
        <5>1. d # "folders" BY <1>4, <4>3
        <5>2. u \in snapshot["folders"].items \/ u \in rows["folders"]
          BY <1>1, <1>3, <3>1, <4>1, <5>1 DEF Posting, FoldersAreKept
        <5>. QED BY <1>2, <1>3, <1>5, <3>1, <4>3, <5>1, <5>2
      <4>. QED BY <4>2, <4>3
    <3>2. CASE z # x
      <4>1. ~Running(z) /\ ~Running(z)' BY <1>6, <2>2, <2>4, <3>2
      <4>2. upsert'[z].step \notin {"reads", "rows", "writes", "clears"} BY <4>1 DEF Running
      <4>. QED BY <4>1, <4>2
    <3>. QED BY <3>1, <3>2
  <2>. QED BY <2>5, <2>6, <2>7, <2>8, <2>9 DEF Posting
<1>. QED BY <1>7, <1>8, <1>9, <1>10, <1>11 DEF Tables

-----------------------------------------------------------------------------
(* The script. *)

\* A run of the script reads, or gives up.
LEMMA CleanerReadsInvariant ==
    ASSUME IInv, CleanerReads \/ CleanerReadsRows \/ CleanerStops
    PROVE  IInv'
<1>. USE DEF IInv
<1>0. TypeOK BY DEF Tables
<1>1. "root" \in Docs BY DEF Docs
<1>2. /\ UNCHANGED <<snapshot, rows, rowId, push, upsert, cleaned, before, excused>>
      /\ cleanings' \in 0 .. MaxCleanings
  <2>1. cleanings \in 0 .. MaxCleanings BY <1>0 DEF TypeOK
  <2>2. CASE CleanerReads BY <2>1, <2>2, BoundsAssumption DEF CleanerReads, ghosts
  <2>3. CASE CleanerReadsRows BY <2>1, <2>3 DEF CleanerReadsRows, ghosts
  <2>4. CASE CleanerStops BY <2>1, <2>4 DEF CleanerStops, ghosts
  <2>. QED BY <2>2, <2>3, <2>4
<1>3. /\ cleaner' \in Runs
      /\ cleaner'.base.items \subseteq Stored("root") /\ cleaner'.got \subseteq Stored("root")
      /\ cleaner'.gone \subseteq Stored("root")
      /\ cleaner'.pc # "idle" => \/ cleaner.pc # "idle" /\ cleaner'.base = cleaner.base
                                 \/ cleaner'.base = snapshot["root"]
      /\ cleaner'.got = {} \/ cleaner'.got = rows["root"]
      /\ cleaner'.pc = "commits" => cleaner'.got = rows["root"]
  <2>1. CASE CleanerReads
    <3>1. cleaner' = [NoCleaner EXCEPT !.pc = "rows", !.base = snapshot["root"]]
      BY <2>1 DEF CleanerReads
    <3>2. /\ cleaner'.pc = "rows" /\ cleaner'.base = snapshot["root"] /\ cleaner'.got = {}
          /\ cleaner'.gone = {} /\ cleaner' \in Runs
      BY <1>0, <1>1, <3>1, ValuesAreTyped DEF NoCleaner, Runs
    <3>. QED BY <1>1, <3>2 DEF Tables, HeldIsStored
  <2>2. CASE CleanerReadsRows
    <3>. DEFINE gone == ((cleaner.base.items \union rows["root"])
                            \intersect (Entries \union Upserters)) \ Kept
    <3>1. PICK highest \in {rowId[u] : u \in rows["root"]} \union {0} :
            /\ cleaner.pc = "rows"
            /\ cleaner' = [cleaner EXCEPT !.pc = "commits", !.got = rows["root"],
                                          !.boundary = highest, !.gone = gone]
      BY <2>2 DEF CleanerReadsRows
    <3>2. highest \in Nat
      <4>1. \A u \in rows["root"] : u \in RootUpdates
        BY <1>0, <1>1, ValuesAreTyped, UpdatesHaveDocs DEF TypeOK
      <4>. QED BY <1>0, <4>1 DEF TypeOK
    <3>3. /\ rows["root"] \subseteq Updates /\ rows["root"] \subseteq Stored("root")
          /\ gone \subseteq Stored("root") /\ gone \subseteq Items
      BY <1>0, <1>1, ValuesAreTyped, UpdatesHaveDocs DEF Tables, HeldIsStored
    <3>. HIDE DEF gone
    <3>4. /\ cleaner'.pc = "commits" /\ cleaner'.base = cleaner.base
          /\ cleaner'.got = rows["root"] /\ cleaner'.gone = gone /\ cleaner' \in Runs
      BY <1>0, <3>1, <3>2, <3>3, ValuesAreTyped DEF Runs
    <3>. QED BY <3>1, <3>3, <3>4 DEF Tables, HeldIsStored
  <2>3. CASE CleanerStops
    <3>1. cleaner' = NoCleaner BY <2>3 DEF CleanerStops
    <3>. QED BY <3>1 DEF NoCleaner, NoSnapshot, Runs, Snapshots
  <2>. QED BY <2>1, <2>2, <2>3
<1>4. TypeOK' BY <1>0, <1>2, <1>3 DEF TypeOK, Runs
<1>5. HeldIsStored'
  <2>1. \A x \in Upserters : upsert'[x].got \subseteq Stored(upsert'[x].doc)
    BY <1>2 DEF Tables, HeldIsStored
  <2>. QED BY <1>2, <1>3, <2>1, HeldKeptBeside DEF Tables, HeldIsStored
<1>6. VersionsTell' BY <1>2, <1>3, <1>4, VersionsKept
<1>7. Cleaning'
  <2>1. CleanedIsGone' BY <1>2, <1>3 DEF Cleaning, CleanedIsGone, SameVersion
  <2>2. CleanedStaysClean' BY <1>2 DEF Cleaning, CleanedStaysClean, Body
  <2>3. LateIsNamed' BY <1>2, <1>3 DEF LateIsNamed
  <2>. QED BY <2>1, <2>2, <2>3 DEF Cleaning
<1>8. Posting' BY <1>2, PostingKept
<1>. QED BY <1>4, <1>5, <1>6, <1>7, <1>8 DEF Tables

\* What a run finds when it commits: the document it read, and no row it has not, but the late.
LEMMA CommitFindsWhatItRead ==
    ASSUME IInv, CleanerCommits
    PROVE  /\ cleaner.base = snapshot["root"]
           /\ rows'["root"] = {}
           /\ rows["root"] \subseteq cleaner.got \union excused.late
           /\ snapshot'["root"].items = (cleaner.base.items \union cleaner.got) \ cleaner.gone
           /\ snapshot'["root"].version = snapshot["root"].version + 1
           /\ snapshot' \in [Docs -> Snapshots]
           /\ \A e \in Docs : e # "root" => snapshot'[e] = snapshot[e] /\ rows'[e] = rows[e]
<1>. USE DEF IInv
<1>0. TypeOK BY DEF Tables
<1>1. "root" \in Docs BY DEF Docs
<1>2. /\ cleaner.pc = "commits" /\ Unmoved /\ SameVersion("root", cleaner.base)
      /\ rows' = [rows EXCEPT !["root"] = rows["root"] \ Swept]
  BY <1>0 DEF CleanerCommits, TypeOK
<1>3. cleaner.base = snapshot["root"]
  BY <1>2 DEF Tables, VersionsTell, ReadOf, SameVersion
<1>4. /\ rows'["root"] = {}
      /\ \A e \in Docs : e # "root" => rows'[e] = rows[e]
  BY <1>0, <1>1, <1>2 DEF Swept, Unmoved, TypeOK
<1>5. rows["root"] \subseteq cleaner.got \union excused.late
  BY <1>2 DEF Cleaning, LateIsNamed, Unmoved
<1>6. PICK items \in SUBSET Items : items = (cleaner.base.items \union cleaner.got) \ cleaner.gone
  BY <1>0, ValuesAreTyped, UpdatesHaveDocs
<1>7. Replaced("root", items) BY <1>6 DEF CleanerCommits
<1>. QED BY <1>0, <1>1, <1>3, <1>4, <1>5, <1>6, <1>7, ReplacedMoves

LEMMA CleanerCommitsInvariant ==
    ASSUME IInv, CleanerCommits
    PROVE  IInv'
<1>. USE DEF IInv
<1>0. TypeOK BY DEF Tables
<1>1. "root" \in Docs /\ "folders" \in Docs /\ "root" # "folders" BY DEF Docs
<1>2. /\ cleaned' = cleaned \union cleaner.gone /\ cleaner' = NoCleaner
      /\ UNCHANGED <<rowId, push, upsert, cleanings, before, excused>>
  BY DEF CleanerCommits
<1>3. /\ cleaner.base = snapshot["root"]
      /\ rows'["root"] = {}
      /\ rows["root"] \subseteq cleaner.got \union excused.late
      /\ snapshot'["root"].items = (cleaner.base.items \union cleaner.got) \ cleaner.gone
      /\ snapshot'["root"].version = snapshot["root"].version + 1
      /\ snapshot' \in [Docs -> Snapshots]
      /\ \A e \in Docs : e # "root" => snapshot'[e] = snapshot[e] /\ rows'[e] = rows[e]
  BY CommitFindsWhatItRead
<1>4. /\ cleaner' \in Runs /\ cleaner'.pc = "idle" /\ cleaner'.base.items = {}
      /\ cleaner'.got = {} /\ cleaner'.gone = {}
  BY <1>2 DEF NoCleaner, NoSnapshot, Runs, Snapshots
<1>5. rows' \in [Docs -> SUBSET Updates]
  BY <1>0 DEF CleanerCommits, TypeOK
<1>6. cleaned' \subseteq Stored("root") /\ cleaned' \subseteq Items
  BY <1>0, <1>2, ValuesAreTyped DEF Tables, HeldIsStored, TypeOK
<1>7. TypeOK'
  <2>1. \A e \in Docs : \A v \in rows'[e] :
          DocOf(v) = e /\ push'[v].pc \notin {"idle", "inserted"}
    BY <1>0, <1>2, <1>3 DEF TypeOK
  <2>. QED BY <1>0, <1>2, <1>3, <1>4, <1>5, <1>6, <2>1 DEF TypeOK, Runs
<1>8. HeldIsStored'
  <2>1. \A x \in Upserters : upsert'[x].got \subseteq Stored(upsert'[x].doc)
    BY <1>2 DEF Tables, HeldIsStored
  <2>2. \A e \in Docs : snapshot'[e].items \subseteq Stored(e) /\ rows'[e] \subseteq Stored(e)
    BY <1>1, <1>3 DEF Tables, HeldIsStored
  <2>. QED BY <1>2, <1>4, <1>6, <2>1, <2>2, HeldKeptBeside
<1>9. VersionsTell'
  <2>1. \A e \in Docs : \/ snapshot'[e] = snapshot[e]
                        \/ snapshot'[e].version = snapshot[e].version + 1
    BY <1>3
  <2>. QED BY <1>2, <1>4, <1>7, <2>1, VersionsKept
<1>10. Cleaning'
  <2>1. CleanedIsGone'
    <3>. SUFFICES ASSUME NEW v \in RootUpdates, push[v].pc = "merged",
                         SameVersion("root", push[v].base)'
                  PROVE  FALSE
      BY <1>2, <1>3, <1>4 DEF CleanedIsGone
    <3>1. v \in Updates /\ DocOf(v) = "root" BY <1>1, UpdatesHaveDocs
    <3>2. ReadOf("root", push[v].base) BY <3>1 DEF Tables, VersionsTell
    <3>3. push[v].base.version \in Nat /\ snapshot["root"].version \in Nat
      BY <1>0, <1>1, <3>1, ValuesAreTyped
    <3>4. push[v].base.version = snapshot["root"].version + 1 BY <1>2, <1>3 DEF SameVersion
    <3>. QED BY <3>2, <3>3, <3>4 DEF ReadOf
  <2>2. CleanedStaysClean'
    <3>1. cleaned \intersect snapshot["root"].items \subseteq excused.revived
      BY DEF Cleaning, CleanedStaysClean, Body
    <3>2. cleaned \intersect cleaner.got = {} BY DEF Cleaning, CleanedIsGone
    <3>. QED BY <1>2, <1>3, <3>1, <3>2 DEF CleanedStaysClean, Body
  <2>3. LateIsNamed' BY <1>4 DEF LateIsNamed
  <2>. QED BY <2>1, <2>2, <2>3 DEF Cleaning
<1>11. Posting' BY <1>1, <1>2, <1>3, PostingKept
<1>. QED BY <1>7, <1>8, <1>9, <1>10, <1>11 DEF Tables

-----------------------------------------------------------------------------
(* The theorems. *)

LEMMA InitInvariant == Init => IInv
<1>. SUFFICES ASSUME Init PROVE IInv OBVIOUS
<1>. USE DEF Init
<1>1. /\ NoSnapshot \in Snapshots /\ NoSnapshot.items = {}
      /\ NoCleaner \in Runs /\ NoCleaner.base.items = {} /\ NoCleaner.got = {}
      /\ NoCleaner.gone = {} /\ NoCleaner.pc = "idle"
  BY DEF NoSnapshot, NoCleaner, Snapshots, Runs
<1>2. /\ At("idle") \in Handlers /\ At("idle").pc = "idle"
      /\ At("idle").base.items = {} /\ At("idle").got = {}
  BY <1>1 DEF At, Push, Handlers
<1>3. /\ Upsert("page", "idle", {}) \in Upserts
      /\ Upsert("page", "idle", {}).doc = "page" /\ Upsert("page", "idle", {}).step = "idle"
      /\ Upsert("page", "idle", {}).got = {}
  BY DEF Upsert, Upserts, Docs
<1>4. TypeOK
  <2>1. push \in [Updates -> Handlers] /\ upsert \in [Upserters -> Upserts] BY <1>2, <1>3
  <2>2. snapshot \in [Docs -> Snapshots] /\ cleaner \in Runs BY <1>1
  <2>3. excused \in Excuses BY DEF Excuses
  <2>. QED BY <2>1, <2>2, <2>3, BoundsAssumption DEF TypeOK, Handlers, Upserts, Runs
<1>5. HeldIsStored BY <1>1, <1>2, <1>3 DEF HeldIsStored
<1>6. VersionsTell BY <1>1, <1>2 DEF VersionsTell
<1>7. Cleaning
  BY <1>1, <1>2 DEF Cleaning, CleanedIsGone, CleanedStaysClean, LateIsNamed
<1>8. Posting
  BY <1>3 DEF Posting, OnlyFoldersHaveRowsRead, MixedIsNamed, PostedStands, ReadersHavePosted,
              FoldersAreKept, IsEntered, Running
<1>. QED BY <1>4, <1>5, <1>6, <1>7, <1>8 DEF IInv, Tables

LEMMA StutterInvariant == ASSUME IInv, UNCHANGED vars PROVE IInv'
<1>1. UNCHANGED <<snapshot, rows, rowId, push, upsert, cleaner, cleanings, cleaned, before, excused>>
  BY DEF vars
<1>2. Tables'
  BY <1>1 DEF IInv, Tables, TypeOK, HeldIsStored, Stored, VersionsTell, ReadOf
<1>3. Cleaning'
  BY <1>1 DEF IInv, Cleaning, CleanedIsGone, CleanedStaysClean, LateIsNamed, SameVersion, Body
<1>4. Posting'
  BY <1>1 DEF IInv, Posting, OnlyFoldersHaveRowsRead, MixedIsNamed, PostedStands,
              ReadersHavePosted, FoldersAreKept, IsEntered, Running
<1>. QED BY <1>2, <1>3, <1>4 DEF IInv

LEMMA NextInvariant == IInv /\ [Next]_vars => IInv'
<1>. SUFFICES ASSUME IInv, [Next]_vars PROVE IInv' OBVIOUS
<1>1. CASE \E u \in Updates : PushUpdate(u)
  <2>1. PICK u \in Updates : PushUpdate(u) BY <1>1
  <2>. QED BY <2>1, PushInsertsInvariant, PushCommitsInvariant, PushReadsInvariant,
              RebuildCommitsInvariant DEF PushUpdate
<1>2. CASE \E x \in Upserters : UpsertDoc(x)
  <2>1. PICK x \in Upserters : UpsertDoc(x) BY <1>2
  <2>. QED BY <2>1, UpsertBeginsInvariant, UpsertReadsInvariant, UpsertWritesInvariant,
              UpsertLeavesInvariant DEF UpsertDoc
<1>3. CASE PurgeWorkspace
  BY <1>3, CleanerReadsInvariant, CleanerCommitsInvariant DEF PurgeWorkspace
<1>4. CASE UNCHANGED vars BY <1>4, StutterInvariant
<1>. QED BY <1>1, <1>2, <1>3, <1>4 DEF Next

\* Tables and requests are well formed, and a title the script took out of the root document
\* comes back only through a request of the endpoint that had read it (purgeWorkspace,
\* rebuildSnapshot, upsertDoc).
THEOREM CleanedTitlesStayOut == Spec => []EntriesAreSound
<1>1. IInv => EntriesAreSound BY DEF IInv, Tables, Cleaning, EntriesAreSound
<1>. QED BY <1>1, InitInvariant, NextInvariant, PTL DEF Spec

\* A posted page stays entered, whoever pushes, rebuilds and cleans beside the request; only
\* requests that ran together overwrite each other (upsertDoc).
THEOREM PostedPagesStayEntered == Spec => []PostedIsEntered
<1>1. IInv => PostedIsEntered
  <2>. SUFFICES ASSUME IInv, NEW x \in Upserters \ excused.mixed
                PROVE  LET entered(d) == \/ upsert[x].step = "done"
                                         \/ upsert[x].doc = d /\ upsert[x].step = "clears"
                                         \/ upsert[x].doc = "folders" /\ d = "root" IN
                       /\ entered("root") => x \in Body("root") \union cleaned
                       /\ entered("folders") => x \in Body("folders")
    BY DEF PostedIsEntered
  <2>1. /\ IsEntered(x, "root") => x \in snapshot["root"].items \/ x \in cleaned
        /\ IsEntered(x, "folders") => x \in snapshot["folders"].items
    BY DEF IInv, Posting, PostedStands
  <2>. QED BY <2>1 DEF IsEntered, Body
<1>. QED BY <1>1, InitInvariant, NextInvariant, PTL DEF Spec

\* A run of the script that commits loses nothing it has not read, but what came late, and
\* leaves nothing it has not read (the conditions of purgeWorkspace's transaction).
THEOREM CleaningTakesWhatItRead == Spec => CleaningIsExact
<1>1. IInv /\ [Next]_vars =>
        [CleanerCommits =>
           /\ Body("root") \ Body("root")' \subseteq cleaner.gone \union excused.late
           /\ Body("root")' \subseteq cleaner.base.items \union cleaner.got]_vars
  <2>. SUFFICES ASSUME IInv, CleanerCommits
                PROVE  /\ Body("root") \ Body("root")' \subseteq cleaner.gone \union excused.late
                       /\ Body("root")' \subseteq cleaner.base.items \union cleaner.got
    OBVIOUS
  <2>. QED BY CommitFindsWhatItRead DEF Body
<1>. QED BY <1>1, InitInvariant, NextInvariant, PTL DEF Spec, CleaningIsExact

\* Posting a page keeps what the folders held when the request began (upsertDoc, which reads
\* them in two queries, writes them and deletes their rows).
THEOREM PostingKeepsTheFolders == Spec => PostingKeepsFolders
<1>1. IInv /\ [Next]_vars =>
        [\A x \in Upserters :
           /\ UpsertClears(x)
           /\ upsert[x].doc = "folders"
           /\ x \notin excused.mixed \union excused.torn
           => before[x] \intersect FolderUpdates \subseteq Body("folders")']_vars
  <2>. SUFFICES ASSUME IInv, NEW x \in Upserters, UpsertClears(x), upsert[x].doc = "folders",
                       x \notin excused.mixed \union excused.torn,
                       NEW u \in before[x] \intersect FolderUpdates
                PROVE  u \in Body("folders")'
    OBVIOUS
  <2>1. u \in snapshot["folders"].items
    BY DEF UpsertClears, IInv, Posting, FoldersAreKept
  <2>2. snapshot' = snapshot BY DEF UpsertClears
  <2>. QED BY <2>1, <2>2 DEF Body
<1>. QED BY <1>1, InitInvariant, NextInvariant, PTL DEF Spec, PostingKeepsFolders

-----------------------------------------------------------------------------
(* Who belongs to the workspace. *)


\* What the requests at work keep to: only those who may be asked about are.
SlotsOK ==
    \A s \in Slots : slot[s] # Idle /\ slot[s].op \in {"grant", "remove"} => slot[s].of # slot[s].by

\* The mails, with those that were never sent.
MailsOK ==
    /\ MailsWorkOnce
    /\ \A i \in Ids \ issued : uses[i] = 0

-----------------------------------------------------------------------------
(* Lemmas. *)

\* A request that is at some place in its operation is a request.
LEMMA AtWork ==
    ASSUME MembershipTypeOK, NEW s \in Slots, slot[s].pc # "idle"
    PROVE  slot[s] \in Requests
BY DEF MembershipTypeOK, Idle

\* Going on and ending keep the requests' type.
LEMMA SlotTypes ==
    ASSUME MembershipTypeOK, NEW s \in Slots
    PROVE  /\ End(s) => slot' \in [Slots -> Requests \union {Idle}]
           /\ \A pc \in {"admitted", "found", "unknown", "decided"} :
                slot[s].pc # "idle" /\ GoesOn(s, pc) => slot' \in [Slots -> Requests \union {Idle}]
<1>1. End(s) => slot' \in [Slots -> Requests \union {Idle}]
    BY DEF End, MembershipTypeOK
<1>2. ASSUME NEW pc \in {"admitted", "found", "unknown", "decided"},
             slot[s].pc # "idle", GoesOn(s, pc)
      PROVE  slot' \in [Slots -> Requests \union {Idle}]
    <2>1. slot[s] \in Requests BY <1>2, AtWork
    <2>2. [slot[s] EXCEPT !.pc = pc] \in Requests BY <2>1 DEF Requests
    <2>3. slot' = [slot EXCEPT ![s] = [slot[s] EXCEPT !.pc = pc]] BY <1>2 DEF GoesOn, MembershipTypeOK
    <2> QED BY <2>2, <2>3 DEF MembershipTypeOK
<1> QED BY <1>1, <1>2

-----------------------------------------------------------------------------
(* Type correctness. *)

\* Init gives every variable its type.
LEMMA InitTypes == MembershipInit => MembershipTypeOK
<1> SUFFICES ASSUME MembershipInit PROVE MembershipTypeOK OBVIOUS
<1>1. ownerId \in Users /\ role \in [Users -> Roles \union {"none"}] /\ accounts \subseteq Users
    BY MembershipBounds DEF MembershipInit, Roles
<1>2. invites \subseteq Invites /\ issued \subseteq Ids BY DEF MembershipInit
<1>3. {i.id : i \in invites} \subseteq issued
    <2>1. {i.id : i \in {}} = {} OBVIOUS
    <2> QED BY <2>1 DEF MembershipInit
<1>4. slot \in [Slots -> Requests \union {Idle}] BY DEF MembershipInit
<1>5. calls \in 0..MaxCalls
    <2>1. calls = 0 /\ MaxCalls \in Nat BY MembershipBounds DEF MembershipInit
    <2> QED BY <2>1
<1>6. uses \in [Ids -> Nat] /\ stale \in BOOLEAN
    BY DEF MembershipInit
<1> QED BY <1>1, <1>2, <1>3, <1>4, <1>5, <1>6 DEF MembershipTypeOK

\* Whatever a request or a user does, every variable keeps its type.
LEMMA StepTypes == MembershipTypeOK /\ [MembershipNext]_membershipVars => MembershipTypeOK'
<1> SUFFICES ASSUME MembershipTypeOK, [MembershipNext]_membershipVars PROVE MembershipTypeOK' OBVIOUS
<1>1. ASSUME NEW s \in Slots, Call(s) PROVE MembershipTypeOK'
    <2>1. PICK r \in Requests : Calls(s, r)
        <3>1. PICK u \in accounts, v \in Users :
                  \/ \E perm \in Roles : Calls(s, [pc |-> "called", op |-> "grant", by |-> u, of |-> v, perm |-> perm, id |-> NoId, to |-> v])
                  \/ \E op \in {"remove", "invite"} : Calls(s, [pc |-> "called", op |-> op, by |-> u, of |-> v, perm |-> "member", id |-> NoId, to |-> v])
                  \/ u = v /\ \E op \in {"leave", "link", "revoke"} : Calls(s, [pc |-> "called", op |-> op, by |-> u, of |-> v, perm |-> "member", id |-> NoId, to |-> v])
                  \/ u = v /\ \E i \in issued : Calls(s, [pc |-> "called", op |-> "accept", by |-> u, of |-> v, perm |-> "member", id |-> i, to |-> v])
            BY <1>1 DEF Call
        <3>2. \A op \in {"grant", "remove", "leave", "invite", "link", "revoke", "accept"}, perm \in Roles, i \in Ids \union {NoId} :
                  [pc |-> "called", op |-> op, by |-> u, of |-> v, perm |-> perm, id |-> i, to |-> v] \in Requests
            BY DEF MembershipTypeOK, Requests
        <3>3. "member" \in Roles /\ issued \subseteq Ids BY DEF Roles, MembershipTypeOK
        <3> QED BY <3>1, <3>2, <3>3
    <2>2. slot' \in [Slots -> Requests \union {Idle}] BY <2>1 DEF Calls, MembershipTypeOK
    <2>3. calls' \in 0..MaxCalls BY <2>1, MembershipBounds DEF Calls, MembershipTypeOK
    <2> QED BY <2>1, <2>2, <2>3 DEF Calls, tables, MembershipTypeOK
<1>2. ASSUME NEW s \in Slots, Works(s) PROVE MembershipTypeOK'
    <2>1. ASSUME Guard(s) \/ Fails(s) \/ GrantReads(s) \/ LeaveReads(s) \/ InviteFinds(s)
                 \/ LinkCounts(s)
          PROVE  MembershipTypeOK'
        <3>1. slot' \in [Slots -> Requests \union {Idle}]
            BY <2>1, SlotTypes DEF Guard, Fails, GrantReads, LeaveReads, InviteFinds, LinkCounts, Is
        <3> QED BY <2>1, <3>1
                DEF Guard, Fails, GrantReads, LeaveReads, InviteFinds, LinkCounts, tables, MembershipTypeOK
    <2>2. ASSUME GrantWrites(s) PROVE MembershipTypeOK'
        <3>1. slot[s] \in Requests BY <2>2, AtWork DEF GrantWrites, Is
        <3>2. slot[s].of \in Users /\ slot[s].by \in Users /\ slot[s].perm \in Roles
            BY <3>1 DEF Requests
        <3>3. role' \in [Users -> Roles \union {"none"}] /\ ownerId' \in Users
            BY <2>2, <3>2 DEF GrantWrites, Transferred, MembershipTypeOK, Roles
        <3>4. stale' \in BOOLEAN BY <2>2 DEF GrantWrites, MembershipTypeOK
        <3>5. End(s) BY <2>2 DEF GrantWrites
        <3> QED BY <2>2, <3>3, <3>4, <3>5, SlotTypes DEF GrantWrites, MembershipTypeOK
    <2>3. ASSUME Removes(s) \/ LeaveDeletes(s) \/ InviteAdds(s) \/ LinkAdmits(s) PROVE MembershipTypeOK'
        <3>1. slot' \in [Slots -> Requests \union {Idle}]
            BY <2>3, SlotTypes DEF Removes, LeaveDeletes, InviteAdds, LinkAdmits
        <3>2. role' \in [Users -> Roles \union {"none"}]
            BY <2>3 DEF Removes, LeaveDeletes, InviteAdds, LinkAdmits, Entered, MembershipTypeOK, Roles
        <3>3. stale' \in BOOLEAN
            BY <2>3 DEF Removes, LeaveDeletes, InviteAdds, LinkAdmits, MembershipTypeOK
        <3> QED BY <2>3, <3>1, <3>2, <3>3 DEF Removes, LeaveDeletes, InviteAdds, LinkAdmits, MembershipTypeOK
    <2>4. ASSUME LinkClears(s) \/ Revokes(s) PROVE MembershipTypeOK'
        <3>1. slot' \in [Slots -> Requests \union {Idle}]
            BY <2>4, SlotTypes DEF LinkClears, Revokes, Is
        <3> QED BY <2>4, <3>1 DEF LinkClears, Revokes, Links, MembershipTypeOK
    <2>5. ASSUME NEW i \in Ids, InviteCreates(s, i) \/ LinkCreates(s, i) PROVE MembershipTypeOK'
        <3>1. slot' \in [Slots -> Requests \union {Idle}]
            BY <2>5, SlotTypes DEF InviteCreates, LinkCreates, Is
        <3>2. PICK to \in Users \union {Link} : Inserts(i, to)
            <4>1. InviteCreates(s, i) => slot[s].pc # "idle" BY DEF InviteCreates, Is
            <4>2. InviteCreates(s, i) => slot[s].of \in Users BY <4>1, AtWork DEF Requests
            <4> QED BY <2>5, <4>2 DEF InviteCreates, LinkCreates
        <3>3. Row(i, to) \in Invites /\ Row(i, to).id = i BY DEF Row, Invites
        <3>4. invites' \subseteq Invites /\ issued' \subseteq Ids /\ {j.id : j \in invites'} \subseteq issued'
            BY <3>2, <3>3 DEF Inserts, MembershipTypeOK
        <3> QED BY <2>5, <3>1, <3>4 DEF InviteCreates, LinkCreates, MembershipTypeOK
    <2>6. ASSUME AcceptReads(s) PROVE MembershipTypeOK'
        <3>1. slot[s] \in Requests BY <2>6, AtWork DEF AcceptReads, Is
        <3>2. \A i \in invites : [slot[s] EXCEPT !.pc = "decided", !.to = i.to] \in Requests
            BY <3>1 DEF Requests, Invites, MembershipTypeOK
        <3>3. slot' \in [Slots -> Requests \union {Idle}]
            BY <2>6, <3>2, SlotTypes DEF AcceptReads, MembershipTypeOK
        <3> QED BY <2>6, <3>3 DEF AcceptReads, tables, MembershipTypeOK
    <2>7. ASSUME MailAdmits(s) PROVE MembershipTypeOK'
        <3>1. slot' \in [Slots -> Requests \union {Idle}]
            BY <2>7, SlotTypes DEF MailAdmits
        <3>2. role' \in [Users -> Roles \union {"none"}]
            BY <2>7 DEF MailAdmits, Entered, MembershipTypeOK, Roles
        <3>3. uses' \in [Ids -> Nat] BY <2>7 DEF MailAdmits, MembershipTypeOK
        <3>4. invites' \subseteq invites BY <2>7 DEF MailAdmits, Consumed
        <3> QED BY <2>7, <3>1, <3>2, <3>3, <3>4 DEF MailAdmits, MembershipTypeOK
    <2> QED BY <1>2, <2>1, <2>2, <2>3, <2>4, <2>5, <2>6, <2>7 DEF Works
<1>3. ASSUME NEW u \in Users, SignsUp(u) PROVE MembershipTypeOK'
    BY <1>3 DEF SignsUp, MembershipTypeOK
<1>4. ASSUME NEW i \in invites, Expires(i) PROVE MembershipTypeOK'
    <2>1. [i EXCEPT !.expired = TRUE] \in Invites /\ [i EXCEPT !.expired = TRUE].id = i.id
        BY DEF MembershipTypeOK, Invites
    <2> QED BY <1>4, <2>1 DEF Expires, MembershipTypeOK
<1>5. CASE UNCHANGED membershipVars
    BY <1>5 DEF membershipVars, tables, MembershipTypeOK
<1> QED BY <1>1, <1>2, <1>3, <1>4, <1>5 DEF MembershipNext

\* The tables and the requests keep their types.
THEOREM TypeCorrect == MembershipSpec => []MembershipTypeOK
BY InitTypes, StepTypes, PTL DEF MembershipSpec

-----------------------------------------------------------------------------
(* Invitations. *)

\* A mail that has been used, or was never sent, has no row; using it removes every row of it.
LEMMA StepMails == MembershipTypeOK /\ MailsOK /\ [MembershipNext]_membershipVars => MailsOK'
<1> SUFFICES ASSUME MembershipTypeOK, MailsOK, [MembershipNext]_membershipVars PROVE MailsOK' OBVIOUS
<1>1. ASSUME UNCHANGED <<invites, issued, uses>> PROVE MailsOK'
    BY <1>1 DEF MailsOK, MailsWorkOnce
<1>2. ASSUME UNCHANGED <<issued, uses>>, \A i \in invites' : \E j \in invites : j.id = i.id
      PROVE  MailsOK'
    BY <1>2 DEF MailsOK, MailsWorkOnce
<1>3. ASSUME NEW s \in Slots, Works(s) PROVE MailsOK'
    <2>1. ASSUME \/ Guard(s) \/ Fails(s) \/ GrantReads(s) \/ GrantWrites(s) \/ Removes(s)
                 \/ LeaveReads(s) \/ LeaveDeletes(s) \/ InviteFinds(s) \/ InviteAdds(s)
                 \/ AcceptReads(s) \/ LinkCounts(s) \/ LinkAdmits(s)
          PROVE  MailsOK'
        BY <1>1, <2>1 DEF Guard, Fails, GrantReads, GrantWrites, Removes, LeaveReads,
            LeaveDeletes, InviteFinds, InviteAdds, AcceptReads, LinkCounts, LinkAdmits, tables
    <2>2. ASSUME LinkClears(s) \/ Revokes(s) PROVE MailsOK'
        BY <1>2, <2>2 DEF LinkClears, Revokes
    <2>3. ASSUME NEW i \in Ids, InviteCreates(s, i) \/ LinkCreates(s, i) PROVE MailsOK'
        <3>1. UNCHANGED uses /\ issued' = issued \union {i} /\ i \notin issued
            BY <2>3 DEF InviteCreates, LinkCreates, Inserts
        <3>2. \A j \in invites' : j \in invites \/ j.id = i
            BY <2>3 DEF InviteCreates, LinkCreates, Inserts, Row
        <3>3. uses[i] = 0 BY <3>1 DEF MailsOK
        <3> QED BY <3>1, <3>2 DEF MailsOK, MailsWorkOnce
    <2>4. ASSUME MailAdmits(s) PROVE MailsOK'
        <3>1. CASE ~StandsStill(slot[s].id)
            BY <1>1, <2>4, <3>1 DEF MailAdmits
        <3>2. CASE StandsStill(slot[s].id)
            <4> DEFINE id == slot[s].id
            <4>1. PICK i \in invites : i.id = id BY <3>2 DEF StandsStill
            <4>2. id \in Ids /\ id \in issued /\ uses[id] = 0
                BY <4>1 DEF MembershipTypeOK, MailsOK, MailsWorkOnce
            <4>3. uses' = [uses EXCEPT ![id] = uses[id] + 1] /\ UNCHANGED issued
                BY <2>4, <3>2 DEF MailAdmits
            <4>4. invites' = {j \in invites : j.id # id}
                BY <2>4, <3>2 DEF MailAdmits, Consumed
            <4>5. uses'[id] = 1 /\ \A j \in Ids : j # id => uses'[j] = uses[j]
                BY <4>2, <4>3 DEF MembershipTypeOK
            <4>6. \A j \in invites : j.id \in Ids BY DEF MembershipTypeOK, Invites
            <4> HIDE DEF id
            <4> QED BY <4>2, <4>3, <4>4, <4>5, <4>6 DEF MailsOK, MailsWorkOnce
        <3> QED BY <3>1, <3>2
    <2> QED BY <1>3, <2>1, <2>2, <2>3, <2>4 DEF Works
<1>4. ASSUME NEW s \in Slots, Call(s) PROVE MailsOK'
    BY <1>1, <1>4 DEF Call, Calls, tables
<1>5. ASSUME NEW u \in Users, SignsUp(u) PROVE MailsOK'
    BY <1>1, <1>5 DEF SignsUp
<1>6. ASSUME NEW i \in invites, Expires(i) PROVE MailsOK'
    <2>1. [i EXCEPT !.expired = TRUE].id = i.id BY DEF MembershipTypeOK, Invites
    <2> QED BY <1>2, <1>6, <2>1 DEF Expires
<1>7. CASE UNCHANGED membershipVars
    BY <1>1, <1>7 DEF membershipVars, tables
<1> QED BY <1>3, <1>4, <1>5, <1>6, <1>7 DEF MembershipNext

\* However many requests accept an invitation by mail at a time, it brings somebody in once.
THEOREM MailBringsInOnce == MembershipSpec => []MailsWorkOnce
<1>1. MembershipInit => MailsOK
    BY DEF MembershipInit, MailsOK, MailsWorkOnce
<1>2. MailsOK => MailsWorkOnce
    BY DEF MailsOK
<1> QED BY <1>1, <1>2, TypeCorrect, StepMails, PTL DEF MembershipSpec

-----------------------------------------------------------------------------
(* The requests at work. *)

\* What the tables do to the rows of invitations: those with an old id keep their addressee.
RowsKept ==
    /\ issued \subseteq issued'
    /\ \A i \in invites' : i.id \in issued' /\ (i.id \in issued => \E j \in invites : j.id = i.id /\ j.to = i.to)

\* What a step does to a request that stays: it may go on, but an acceptance is decided
\* only by a row that stands and is for the caller.
RequestKept(t) ==
    \/ slot'[t] = Idle
    \/ slot'[t] = slot[t]
    \/ /\ slot[t] # Idle
       /\ slot'[t].op = slot[t].op /\ slot'[t].by = slot[t].by
       /\ slot'[t].of = slot[t].of /\ slot'[t].id = slot[t].id
       /\ slot'[t].op = "accept" /\ slot'[t].pc = "found" => slot'[t].to = Link
       /\ slot'[t].op = "accept" /\ slot'[t].pc = "decided" =>
            /\ slot'[t].to \in {Link, slot'[t].by}
            /\ \E i \in invites : i.id = slot'[t].id /\ i.to = slot'[t].to
    \/ /\ slot'[t].pc = "called"
       /\ slot'[t].op \in {"grant", "remove"} => slot'[t].of # slot'[t].by
       /\ slot'[t].op = "accept" => slot'[t].id \in issued

\* Rows of one id have one addressee.
RowsOK == \A i, j \in invites : i.id = j.id => i.to = j.to

\* An acceptance is of an invitation that was issued; what it has read of the row is so.
AcceptsOK ==
    \A s \in Slots : slot[s] # Idle /\ slot[s].op = "accept" =>
        /\ slot[s].id \in issued
        /\ slot[s].pc = "found" => slot[s].to = Link
        /\ slot[s].pc = "decided" =>
             /\ slot[s].to \in {Link, slot[s].by}
             /\ \A i \in invites : i.id = slot[s].id => i.to = slot[s].to

RequestsOK == SlotsOK /\ AcceptsOK

\* Steps that keep the rows and the requests in this way keep what requests know.
LEMMA RequestsKept ==
    ASSUME RequestsOK, RowsOK, RowsKept, \A t \in Slots : RequestKept(t)
    PROVE  RequestsOK'
<1>0. Idle' = Idle BY DEF Idle
<1>1. ASSUME NEW t \in Slots, slot'[t] # Idle, slot'[t].op \in {"grant", "remove"}
      PROVE  slot'[t].of # slot'[t].by
    BY <1>1 DEF RequestKept, RequestsOK, SlotsOK
<1>2. ASSUME NEW t \in Slots, slot'[t] # Idle, slot'[t].op = "accept"
      PROVE  /\ slot'[t].id \in issued'
             /\ slot'[t].pc = "found" => slot'[t].to = Link
             /\ slot'[t].pc = "decided" =>
                  /\ slot'[t].to \in {Link, slot'[t].by}
                  /\ \A i \in invites' : i.id = slot'[t].id => i.to = slot'[t].to
    <2>1. CASE slot'[t] = slot[t]
        BY <1>2, <2>1 DEF RequestsOK, AcceptsOK, RowsKept
    <2>2. CASE slot'[t].pc = "called" /\ (slot'[t].op = "accept" => slot'[t].id \in issued)
        BY <1>2, <2>2 DEF RowsKept
    <2>3. CASE /\ slot[t] # Idle
               /\ slot'[t].op = slot[t].op /\ slot'[t].id = slot[t].id
               /\ slot'[t].op = "accept" /\ slot'[t].pc = "found" => slot'[t].to = Link
               /\ slot'[t].op = "accept" /\ slot'[t].pc = "decided" =>
                    /\ slot'[t].to \in {Link, slot'[t].by}
                    /\ \E i \in invites : i.id = slot'[t].id /\ i.to = slot'[t].to
        BY <1>2, <2>3 DEF RequestsOK, AcceptsOK, RowsKept, RowsOK
    <2> QED BY <1>2, <2>1, <2>2, <2>3 DEF RequestKept
<1> QED BY <1>0, <1>1, <1>2 DEF RequestsOK, SlotsOK, AcceptsOK

\* Ending a request and going on with it keep every request.
LEMMA EndKeeps ==
    ASSUME MembershipTypeOK, NEW s \in Slots, End(s)
    PROVE  \A t \in Slots : RequestKept(t)
BY DEF End, RequestKept, MembershipTypeOK

\* The same when it goes on, unless an acceptance is decided by that.
LEMMA GoingOnKeeps ==
    ASSUME MembershipTypeOK, NEW s \in Slots, slot[s].pc # "idle",
           NEW pc \in {"admitted", "found", "unknown", "decided"}, GoesOn(s, pc),
           slot[s].op = "accept" => pc = "admitted" \/ (pc = "found" /\ slot[s].to = Link)
    PROVE  \A t \in Slots : RequestKept(t)
<1>1. slot[s] \in Requests BY AtWork
<1>2. /\ slot'[s] = [slot[s] EXCEPT !.pc = pc]
      /\ \A t \in Slots : t # s => slot'[t] = slot[t]
    BY DEF GoesOn, MembershipTypeOK
<1>3. /\ slot'[s].op = slot[s].op /\ slot'[s].of = slot[s].of /\ slot'[s].by = slot[s].by
      /\ slot'[s].id = slot[s].id /\ slot'[s].to = slot[s].to /\ slot'[s].pc = pc
    BY <1>1, <1>2 DEF Requests
<1>4. slot[s] # Idle BY DEF Idle
<1>5. RequestKept(s) BY <1>3, <1>4 DEF RequestKept
<1> QED BY <1>2, <1>5 DEF RequestKept

\* Every step keeps the rows.
LEMMA StepRows == MembershipTypeOK /\ [MembershipNext]_membershipVars => RowsKept /\ (RowsOK => RowsOK')
<1> SUFFICES ASSUME MembershipTypeOK, [MembershipNext]_membershipVars PROVE RowsKept /\ (RowsOK => RowsOK') OBVIOUS
<1>0. \A i \in invites : i.id \in issued BY DEF MembershipTypeOK
<1>1. ASSUME UNCHANGED issued, \A i \in invites' : \E j \in invites : j.id = i.id /\ j.to = i.to
      PROVE  RowsKept /\ (RowsOK => RowsOK')
    BY <1>0, <1>1 DEF RowsKept, RowsOK
<1>2. ASSUME NEW s \in Slots, Works(s) PROVE RowsKept /\ (RowsOK => RowsOK')
    <2>1. ASSUME \/ Guard(s) \/ Fails(s) \/ GrantReads(s) \/ GrantWrites(s) \/ Removes(s)
                 \/ LeaveReads(s) \/ LeaveDeletes(s) \/ InviteFinds(s) \/ InviteAdds(s)
                 \/ AcceptReads(s) \/ LinkCounts(s) \/ LinkAdmits(s)
          PROVE  RowsKept /\ (RowsOK => RowsOK')
        BY <1>1, <2>1 DEF Guard, Fails, GrantReads, GrantWrites, Removes, LeaveReads,
            LeaveDeletes, InviteFinds, InviteAdds, AcceptReads, LinkCounts, LinkAdmits, tables
    <2>2. ASSUME LinkClears(s) \/ Revokes(s) \/ MailAdmits(s)
          PROVE  RowsKept /\ (RowsOK => RowsOK')
        <3>1. invites' \subseteq invites /\ UNCHANGED issued
            BY <2>2 DEF LinkClears, Revokes, MailAdmits, Consumed
        <3> QED BY <1>1, <3>1
    <2>3. ASSUME NEW i \in Ids, InviteCreates(s, i) \/ LinkCreates(s, i)
          PROVE  RowsKept /\ (RowsOK => RowsOK')
        <3>1. PICK to : Inserts(i, to) BY <2>3 DEF InviteCreates, LinkCreates
        <3>2. /\ i \notin issued /\ issued' = issued \union {i}
              /\ invites' = invites \union {Row(i, to)} /\ Row(i, to).id = i
            BY <3>1 DEF Inserts, Row
        <3> QED BY <1>0, <3>2 DEF RowsKept, RowsOK
    <2> QED BY <1>2, <2>1, <2>2, <2>3 DEF Works
<1>3. ASSUME NEW s \in Slots, Call(s) PROVE RowsKept /\ (RowsOK => RowsOK')
    BY <1>1, <1>3 DEF Call, Calls, tables
<1>4. ASSUME NEW u \in Users, SignsUp(u) PROVE RowsKept /\ (RowsOK => RowsOK')
    BY <1>1, <1>4 DEF SignsUp
<1>5. ASSUME NEW i \in invites, Expires(i) PROVE RowsKept /\ (RowsOK => RowsOK')
    <2>1. [i EXCEPT !.expired = TRUE].id = i.id /\ [i EXCEPT !.expired = TRUE].to = i.to
        BY DEF MembershipTypeOK, Invites
    <2> QED BY <1>1, <1>5, <2>1 DEF Expires
<1>6. CASE UNCHANGED membershipVars
    BY <1>1, <1>6 DEF membershipVars, tables
<1> QED BY <1>2, <1>3, <1>4, <1>5, <1>6 DEF MembershipNext

\* Every step keeps every request.
LEMMA StepSlots ==
    ASSUME MembershipTypeOK, [MembershipNext]_membershipVars
    PROVE  \A t \in Slots : RequestKept(t)
<1>1. ASSUME UNCHANGED slot PROVE \A t \in Slots : RequestKept(t)
    BY <1>1 DEF RequestKept
<1>2. ASSUME NEW s \in Slots, Works(s) PROVE \A t \in Slots : RequestKept(t)
    <2>1. CASE End(s)
        BY <2>1, EndKeeps
    <2>2. ASSUME \/ Guard(s) \/ GrantReads(s) \/ LeaveReads(s) \/ InviteFinds(s)
                 \/ LinkClears(s) \/ LinkCounts(s),
                 ~End(s)
          PROVE  \A t \in Slots : RequestKept(t)
        <3>1. PICK pc \in {"admitted", "found", "unknown", "decided"} :
                  /\ slot[s].pc # "idle" /\ GoesOn(s, pc)
                  /\ slot[s].op = "accept" => pc = "admitted" \/ (pc = "found" /\ slot[s].to = Link)
            BY <2>2 DEF Guard, GrantReads, LeaveReads, InviteFinds, LinkClears, LinkCounts, Is
        <3> QED BY <3>1, GoingOnKeeps
    <2>3. ASSUME NEW i \in Ids, InviteCreates(s, i) \/ LinkCreates(s, i), ~End(s)
          PROVE  \A t \in Slots : RequestKept(t)
        <3>1. /\ slot[s].pc # "idle" /\ GoesOn(s, "decided")
              /\ slot[s].op # "accept"
            BY <2>3 DEF InviteCreates, LinkCreates, Is
        <3> QED BY <3>1, GoingOnKeeps
    <2>4. ASSUME AcceptReads(s), ~End(s) PROVE \A t \in Slots : RequestKept(t)
        <3>0. slot[s].pc # "idle" BY <2>4 DEF AcceptReads, Is
        <3>1. slot[s] \in Requests /\ slot[s] # Idle BY <3>0, AtWork DEF Idle
        <3>2. PICK i \in invites :
                  /\ i.id = slot[s].id /\ i.to \in {Link, slot[s].by}
                  /\ slot' = [slot EXCEPT ![s] = [slot[s] EXCEPT !.pc = "decided", !.to = i.to]]
            BY <2>4 DEF AcceptReads, Judges
        <3>3. /\ slot'[s] = [slot[s] EXCEPT !.pc = "decided", !.to = i.to]
              /\ \A t \in Slots : t # s => slot'[t] = slot[t]
            BY <3>2 DEF MembershipTypeOK
        <3>4. /\ slot'[s].op = slot[s].op /\ slot'[s].of = slot[s].of /\ slot'[s].by = slot[s].by
              /\ slot'[s].id = slot[s].id /\ slot'[s].to = i.to
            BY <3>1, <3>3 DEF Requests
        <3>5. RequestKept(s) BY <3>1, <3>2, <3>4 DEF RequestKept
        <3> QED BY <3>3, <3>5 DEF RequestKept
    <2> QED BY <1>2, <2>1, <2>2, <2>3, <2>4
            DEF Works, Fails, GrantWrites, Removes, LeaveDeletes, InviteAdds, Revokes, MailAdmits,
                LinkAdmits
<1>3. ASSUME NEW s \in Slots, Call(s) PROVE \A t \in Slots : RequestKept(t)
    <2>1. PICK r : /\ Calls(s, r) /\ r.pc = "called"
                   /\ r.op = "accept" => r.id \in issued
        <3>1. PICK u \in accounts, v \in Users :
                  \/ \E perm \in Roles : Calls(s, [pc |-> "called", op |-> "grant", by |-> u, of |-> v, perm |-> perm, id |-> NoId, to |-> v])
                  \/ \E op \in {"remove", "invite"} : Calls(s, [pc |-> "called", op |-> op, by |-> u, of |-> v, perm |-> "member", id |-> NoId, to |-> v])
                  \/ u = v /\ \E op \in {"leave", "link", "revoke"} : Calls(s, [pc |-> "called", op |-> op, by |-> u, of |-> v, perm |-> "member", id |-> NoId, to |-> v])
                  \/ u = v /\ \E i \in issued : Calls(s, [pc |-> "called", op |-> "accept", by |-> u, of |-> v, perm |-> "member", id |-> i, to |-> v])
            BY <1>3 DEF Call
        <3>2. \A op \in {"grant", "remove", "invite", "leave", "link", "revoke"}, perm \in Roles :
                  LET r == [pc |-> "called", op |-> op, by |-> u, of |-> v, perm |-> perm, id |-> NoId, to |-> v]
                  IN  r.pc = "called" /\ r.op # "accept"
            OBVIOUS
        <3>3. \A i \in issued :
                  LET r == [pc |-> "called", op |-> "accept", by |-> u, of |-> v, perm |-> "member", id |-> i, to |-> v]
                  IN  r.pc = "called" /\ r.id \in issued
            OBVIOUS
        <3>4. "member" \in Roles BY DEF Roles
        <3> QED BY <3>1, <3>2, <3>3, <3>4
    <2>2. /\ slot'[s] = r
          /\ r.op \in {"grant", "remove"} => r.of # r.by
          /\ \A t \in Slots : t # s => slot'[t] = slot[t]
        BY <2>1 DEF Calls, MembershipTypeOK
    <2> QED BY <2>1, <2>2 DEF RequestKept
<1>4. ASSUME NEW u \in Users, SignsUp(u) PROVE \A t \in Slots : RequestKept(t)
    BY <1>1, <1>4 DEF SignsUp
<1>5. ASSUME NEW i \in invites, Expires(i) PROVE \A t \in Slots : RequestKept(t)
    BY <1>1, <1>5 DEF Expires
<1>6. CASE UNCHANGED membershipVars
    BY <1>1, <1>6 DEF membershipVars
<1> QED BY <1>2, <1>3, <1>4, <1>5, <1>6 DEF MembershipNext

\* The rows and the requests, in every state.
LEMMA RequestsAreOK == MembershipSpec => [](MembershipTypeOK /\ RowsOK /\ RequestsOK)
<1>1. MembershipInit => RowsOK /\ RequestsOK
    BY DEF MembershipInit, RowsOK, RequestsOK, SlotsOK, AcceptsOK
<1>2. MembershipTypeOK /\ RowsOK /\ RequestsOK /\ [MembershipNext]_membershipVars => RowsOK' /\ RequestsOK'
    BY StepRows, StepSlots, RequestsKept
<1> QED BY <1>1, <1>2, TypeCorrect, PTL DEF MembershipSpec

-----------------------------------------------------------------------------
(* Who comes in. *)

\* Only a request that invites and one that accepts give a row to somebody who has none.
LEMMA StepAdmits ==
    ASSUME MembershipTypeOK, RequestsOK, [MembershipNext]_membershipVars,
           NEW u \in Users, role[u] = "none", role'[u] # "none"
    PROVE  \/ \E i \in invites : i.to = u
           \/ \E s \in Slots : /\ slot[s].pc \in {"decided", "found"}
                              /\ \/ slot[s].op = "invite" /\ slot[s].of = u
                                 \/ slot[s].op = "accept" /\ slot[s].by = u /\ slot[s].to = Link
<1>1. role' # role OBVIOUS
<1>2. PICK s \in Slots : Works(s)
    BY <1>1 DEF MembershipNext, Call, Calls, SignsUp, Expires, membershipVars, tables
<1>3. GrantWrites(s) \/ Removes(s) \/ LeaveDeletes(s) \/ InviteAdds(s) \/ MailAdmits(s) \/ LinkAdmits(s)
    BY <1>1, <1>2 DEF Works, Guard, Fails, GrantReads, LeaveReads, InviteFinds, LinkClears,
        Revokes, InviteCreates, LinkCreates, AcceptReads, LinkCounts, tables
<1>4. slot[s] \in Requests /\ slot[s] # Idle
    BY <1>3, AtWork DEF GrantWrites, Removes, LeaveDeletes, InviteAdds, MailAdmits, LinkAdmits, Is, Idle
<1>5. ASSUME GrantWrites(s) PROVE FALSE
    <2>1. role[slot[s].by] = "none" => role' = role \/ slot[s].perm # "owner"
        BY <1>5 DEF GrantWrites
    <2>2. u # slot[s].of
        BY <1>1, <1>5 DEF GrantWrites
    <2>3. slot[s].perm # "owner" => role'[u] = role[u]
        BY <1>5, <2>2 DEF GrantWrites, MembershipTypeOK
    <2>4. slot[s].perm = "owner" => u # slot[s].by
        BY <1>1, <1>5 DEF GrantWrites
    <2>5. slot[s].perm = "owner" => role'[u] = role[u]
        BY <1>5, <2>2, <2>4 DEF GrantWrites, Transferred, MembershipTypeOK
    <2> QED BY <2>3, <2>5
<1>6. ASSUME Removes(s) \/ LeaveDeletes(s) PROVE FALSE
    BY <1>6 DEF Removes, LeaveDeletes, MembershipTypeOK
<1>7. CASE InviteAdds(s)
    BY <1>1, <1>7 DEF InviteAdds, Entered, Is, MembershipTypeOK
<1>8. CASE LinkAdmits(s)
    <2>1. slot[s].pc = "found" /\ slot[s].op = "accept" /\ slot[s].to = Link
        BY <1>4, <1>8 DEF LinkAdmits, Is, RequestsOK, AcceptsOK
    <2>2. u = slot[s].by
        BY <1>1, <1>8 DEF LinkAdmits, Entered, MembershipTypeOK
    <2> QED BY <2>1, <2>2
<1>9. CASE MailAdmits(s)
    <2>1. u = slot[s].by /\ StandsStill(slot[s].id)
        BY <1>1, <1>9 DEF MailAdmits, Entered, MembershipTypeOK
    <2>2. PICK i \in invites : i.id = slot[s].id BY <2>1 DEF StandsStill
    <2>3. i.to = u
        BY <1>4, <1>9, <2>1, <2>2 DEF MailAdmits, Is, RequestsOK, AcceptsOK
    <2> QED BY <2>3
<1> QED BY <1>3, <1>5, <1>6, <1>7, <1>8, <1>9

\* Whoever comes in does so by an invitation that stands at that moment, or was invited
\* with an account.
THEOREM OnlyTheInvitedComeIn == MembershipSpec => DeadInvitationsAdmitNobody
<1>1. MembershipTypeOK /\ RequestsOK /\ [MembershipNext]_membershipVars =>
        [\A u \in Users : role[u] = "none" /\ role'[u] # "none" =>
           \/ \E i \in invites : i.to = u
           \/ \E s \in Slots : /\ slot[s].pc \in {"decided", "found"}
                              /\ \/ slot[s].op = "invite" /\ slot[s].of = u
                                 \/ slot[s].op = "accept" /\ slot[s].by = u /\ slot[s].to = Link]_membershipVars
    BY StepAdmits
<1> QED BY <1>1, RequestsAreOK, PTL DEF MembershipSpec, DeadInvitationsAdmitNobody

-----------------------------------------------------------------------------
(* The owner. *)

\* A step that writes on what is still so keeps the one owner.
LEMMA StepOwner == MembershipTypeOK /\ RequestsOK /\ OwnerIsOne /\ [MembershipNext]_membershipVars => OwnerIsOne'
<1> SUFFICES ASSUME MembershipTypeOK, RequestsOK, OwnerIsOne, [MembershipNext]_membershipVars, ~stale'
             PROVE  \A u \in Users : role'[u] = "owner" <=> u = ownerId'
    BY DEF OwnerIsOne
<1>1. CASE UNCHANGED <<ownerId, role, stale>>
    BY <1>1 DEF OwnerIsOne
<1>2. ASSUME ~UNCHANGED <<ownerId, role, stale>>
      PROVE  \A u \in Users : role'[u] = "owner" <=> u = ownerId'
    <2>1. PICK s \in Slots : Works(s)
        BY <1>2 DEF MembershipNext, Call, Calls, SignsUp, Expires, membershipVars, tables
    <2>2. GrantWrites(s) \/ Removes(s) \/ LeaveDeletes(s) \/ InviteAdds(s) \/ MailAdmits(s) \/ LinkAdmits(s)
        BY <1>2, <2>1 DEF Works, Guard, Fails, GrantReads, LeaveReads, InviteFinds, LinkClears,
            Revokes, InviteCreates, LinkCreates, AcceptReads, LinkCounts, tables
    <2>3. /\ slot[s] \in Requests /\ slot[s] # Idle
          /\ slot[s].by \in Users /\ slot[s].of \in Users /\ slot[s].perm \in Roles
        BY <2>2, AtWork
            DEF GrantWrites, Removes, LeaveDeletes, InviteAdds, MailAdmits, LinkAdmits, Is, Idle, Requests
    <2>4. ~stale
        BY <2>2 DEF GrantWrites, Removes, LeaveDeletes, InviteAdds, MailAdmits, LinkAdmits
    <2>5. \A u \in Users : role[u] = "owner" <=> u = ownerId
        BY <2>4 DEF OwnerIsOne
    <2>6. CASE GrantWrites(s)
        <3>1. slot[s].by = ownerId /\ slot[s].of # ownerId
            BY <2>3, <2>5, <2>6 DEF GrantWrites, Is, RequestsOK, SlotsOK
        <3>2. CASE slot[s].perm = "owner" /\ role[slot[s].of] # "none" /\ role[slot[s].by] # "none"
            BY <2>3, <2>5, <2>6, <3>1, <3>2 DEF GrantWrites, Transferred, MembershipTypeOK
        <3>3. CASE slot[s].perm = "owner" /\ ~(role[slot[s].of] # "none" /\ role[slot[s].by] # "none")
            BY <2>5, <2>6, <3>3 DEF GrantWrites
        <3>4. CASE slot[s].perm # "owner"
            BY <2>3, <2>5, <2>6, <3>1, <3>4 DEF GrantWrites, MembershipTypeOK
        <3> QED BY <3>2, <3>3, <3>4
    <2>7. CASE Removes(s)
        <3>1. slot[s].of # ownerId
            BY <2>3, <2>5, <2>7 DEF Removes, Is, RequestsOK, SlotsOK
        <3> QED BY <2>3, <2>5, <2>7, <3>1 DEF Removes, MembershipTypeOK
    <2>8. CASE LeaveDeletes(s)
        BY <2>3, <2>5, <2>8 DEF LeaveDeletes, MembershipTypeOK
    <2>9. CASE InviteAdds(s) \/ MailAdmits(s) \/ LinkAdmits(s)
        BY <2>3, <2>5, <2>9 DEF InviteAdds, MailAdmits, LinkAdmits, Entered, MembershipTypeOK
    <2> QED BY <2>2, <2>6, <2>7, <2>8, <2>9
<1> QED BY <1>1, <1>2

\* Through transfers, removals and leaving there is one owner, and ownerId names him, as
\* long as requests write on what is still so.
THEOREM OneOwner == MembershipSpec => []OwnerIsOne
<1>1. MembershipInit => OwnerIsOne
    BY MembershipBounds DEF MembershipInit, OwnerIsOne
<1> QED BY <1>1, StepOwner, RequestsAreOK, PTL DEF MembershipSpec
==============================================================================
