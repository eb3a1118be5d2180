------------------------------- MODULE DocPeer -------------------------------
(***************************************************************************)
(* The synchronisation of one document between a browser and the server:   *)
(* DocSyncPeer (nbstore, sync/doc/peer.ts) with the store in the browser,  *)
(* the clocks it keeps about the server, and on the server pushUpdate,     *)
(* loadDoc and getDocTimestamps (backend, sync.service.ts) as requests of  *)
(* this browser and of others arrive.                                      *)
(*                                                                         *)
(* An update is a model value, a body a set of them.  Times are numbers in *)
(* the order in which they are taken; 0 stands for none.  The server and   *)
(* the browser each have a clock of their own.  The other documents of the *)
(* workspace matter by the highest of their times only.                    *)
(*                                                                         *)
(* One worker stores and synchronises; the user may read and write; a      *)
(* rebuild of the snapshot is one step, as DocStore shows it may be.       *)
(***************************************************************************)
EXTENDS Naturals, FiniteSets

CONSTANTS
    Mine,           \* updates typed in this browser
    Theirs,         \* updates of others
    MaxEvents       \* bound: failures, broken sockets, crashes, and on the server
                    \* rebuilds and writes of other documents

ASSUME PeerBounds ==
    /\ Mine \intersect Theirs = {}
    /\ MaxEvents \in Nat

VARIABLES
    snapshot,       \* doc_snapshots: [has, at]
    rows,           \* doc_updates: the updates in it
    stamp,          \* stamp[u]: the time the latest row of update u carries
    now,            \* the latest time the server has taken
    elsewhere,      \* the highest time of the other documents
    requests,       \* pushes at the server: [has, at, from, pc]; "gone" is from this
                    \* browser, which has given it up
    answered,       \* updates of others that are pushed
    local,          \* the updates in the browser's store
    clock,          \* the document's time there
    typedAt,        \* typedAt[u]: the time the store gave to an edit; 0 before it
    peer,           \* what is stored about the server: [seen, highest, pulled, pushed]
    loop,           \* retryLoop: [pc, answer, highest], the times it was told
    known,          \* status.docs has the document
    connected,      \* status.connectedDocs has it
    remoteClock,    \* status.remoteClocks of it
    jobs,           \* status.jobMap: [connect, push, save], a batch of each kind
    work,           \* the job at work
    events,
    cut,            \* ghost: the loop ended while it stored the clocks
    unanswered      \* ghost: a load was answered DOC_NOT_FOUND

server == <<snapshot, rows, stamp, now, elsewhere>>
store == <<local, clock, typedAt>>
status == <<known, connected, remoteClock, jobs>>
ghosts == <<cut, unanswered>>
peerVars == <<server, requests, answered, store, peer, loop, status, work, events, ghosts>>

Updates == Mine \union Theirs
NoBatch == [at |-> 0, has |-> {}]
NoJobs == [connect |-> FALSE, push |-> NoBatch, save |-> NoBatch]
Idle == [pc |-> "idle", both |-> FALSE, base |-> {}, got |-> {}, at |-> 0, clock |-> 0]
Off == [pc |-> "off", answer |-> 0, highest |-> 0]

Batch == [at : Nat, has : SUBSET Updates]

PeerTypeOK ==
    /\ snapshot \in Batch
    /\ rows \subseteq Updates
    /\ stamp \in [Updates -> Nat]
    /\ {now, elsewhere, clock, remoteClock} \subseteq Nat
    /\ requests \subseteq [has : SUBSET Updates, at : Nat, from : {"me", "gone", "others"},
                           pc : {"sent", "dated", "stored"}]
    /\ answered \subseteq Theirs
    /\ local \subseteq Updates
    /\ typedAt \in [Mine -> Nat]
    /\ peer \in [seen : Nat, highest : Nat, pulled : Nat, pushed : Nat]
    /\ loop \in [pc : {"off", "subscribed", "asks", "rows", "stores", "runs"},
                 answer : Nat, highest : Nat]
    /\ {known, connected, cut, unanswered} \subseteq BOOLEAN
    /\ jobs \in [connect : BOOLEAN, push : Batch, save : Batch]
    /\ work \in [pc : {"idle", "loads", "rows", "dates", "merges", "notes",
                       "pushesDiff", "pushesAll", "pushes", "saved"},
                 both : BOOLEAN, base : SUBSET Updates, got : SUBSET Updates,
                 at : Nat, clock : Nat]
    /\ events \in 0..MaxEvents
    /\ connected \/ work # Idle => loop.pc = "runs"
    /\ jobs # NoJobs \/ connected => known

PeerInit ==
    /\ snapshot = NoBatch
    /\ rows = {}
    /\ stamp = [u \in Updates |-> 0]
    /\ now = 1
    /\ elsewhere = 0
    /\ requests = {}
    /\ answered = {}
    /\ local = {}
    /\ clock = 0
    /\ typedAt = [u \in Mine |-> 0]
    /\ peer = [seen |-> 0, highest |-> 0, pulled |-> 0, pushed |-> 0]
    /\ loop = Off
    /\ known = FALSE
    /\ connected = FALSE
    /\ remoteClock = 0
    /\ jobs = NoJobs
    /\ work = Idle
    /\ events = 0
    /\ cut = FALSE
    /\ unanswered = FALSE

Happens ==
    /\ events < MaxEvents
    /\ events' = events + 1

Higher(m, n) == IF m < n THEN n ELSE m

Stored == snapshot.has \union rows

-----------------------------------------------------------------------------
(* The server handles a push, whoever sent it. *)

Request(from, has) == [has |-> has, at |-> 0, from |-> from, pc |-> "sent"]

\* pushUpdate takes its time on arrival.
Dates(r) ==
    /\ r.pc = "sent"
    /\ now' = now + 1
    /\ requests' = (requests \ {r}) \union {[r EXCEPT !.pc = "dated", !.at = now']}
    /\ UNCHANGED <<snapshot, rows, stamp, elsewhere, answered, store, peer, loop, status,
                   work, events, ghosts>>

\* The transaction of pushUpdate.
Commits(r) ==
    /\ r.pc = "dated"
    /\ rows' = rows \union r.has
    /\ stamp' = [u \in Updates |-> IF u \in r.has THEN Higher(stamp[u], r.at) ELSE stamp[u]]
    /\ requests' = (requests \ {r}) \union {[r EXCEPT !.pc = "stored"]}
    /\ UNCHANGED <<snapshot, now, elsewhere, answered, store, peer, loop, status, work,
                   events, ghosts>>

\* rebuildSnapshot, before the push is answered.
Rebuilds(r) ==
    /\ r.pc = "stored"
    /\ rows # {} /\ Happens
    /\ now' = now + 1
    /\ snapshot' = [at |-> now', has |-> Stored]
    /\ rows' = {}
    /\ UNCHANGED <<stamp, elsewhere, requests, answered, store, peer, loop, status, work,
                   ghosts>>

\* Another document is written.
OtherDocumentMoves ==
    /\ Happens
    /\ now' = now + 1
    /\ elsewhere' = now'
    /\ UNCHANGED <<snapshot, rows, stamp, requests, answered, store, peer, loop, status,
                   work, ghosts>>

\* Another client pushes an update, or pushes it again when the first push failed.
OthersPush(u) ==
    /\ u \in Theirs \ answered
    /\ \A r \in requests : r.from = "others" => u \notin r.has
    /\ requests' = requests \union {Request("others", {u})}
    /\ UNCHANGED <<server, answered, store, peer, loop, status, work, events, ghosts>>

\* addDoc: a document seen for the first time is to be connected.
AddDoc(queue) == [queue EXCEPT !.connect = @ \/ ~known]

Plus(batch, at, has) == [at |-> Higher(batch.at, at), has |-> batch.has \union has]

\* Mutant of RemoteUpdated: the update waits for a document that is connected.
RemoteUpdatedLater(at, has) ==
    /\ jobs' = IF connected THEN [jobs EXCEPT !.save = Plus(@, at, has)] ELSE jobs
    /\ UNCHANGED <<remoteClock, known>>

\* remoteUpdated.
RemoteUpdated(at, has) ==
    /\ known' = TRUE
    /\ remoteClock' = Higher(remoteClock, at)
    /\ jobs' = [AddDoc(jobs) EXCEPT !.save = Plus(@, at, has)]

\* The push is answered and broadcast to all sockets but the one it came by.
Broadcasts(r) ==
    /\ r.from # "me" /\ r.pc = "stored"
    /\ requests' = requests \ {r}
    /\ answered' = IF r.from = "others" THEN answered \union r.has ELSE answered
    /\ IF loop.pc = "off" THEN UNCHANGED status
       ELSE RemoteUpdated(r.at, r.has) /\ UNCHANGED connected
    /\ UNCHANGED <<server, store, peer, loop, work, events, ghosts>>

\* The push of another client fails, before or after it was stored: no broadcast.
PushFails(r) ==
    /\ r.from # "me"
    /\ Happens
    /\ requests' = requests \ {r}
    /\ UNCHANGED <<server, answered, store, peer, loop, status, work, ghosts>>

-----------------------------------------------------------------------------
(* What the user does. *)

\* Mutant of LocalUpdated: a document typed for the first time is not added.
LocalUpdatedOnly(at, has) ==
    /\ jobs' = [jobs EXCEPT !.push = Plus(@, at, has)]
    /\ UNCHANGED known

LocalUpdated(at, has) ==
    /\ known' = TRUE
    /\ jobs' = [AddDoc(jobs) EXCEPT !.push = Plus(@, at, has)]

\* An edit is stored, and while the peer listens a push is scheduled in the same turn.
LocalEdit(u) ==
    /\ u \in Mine \ local
    /\ local' = local \union {u}
    /\ clock' = clock + 1
    /\ typedAt' = [typedAt EXCEPT ![u] = clock']
    /\ IF loop.pc = "off" THEN UNCHANGED <<known, jobs>> ELSE LocalUpdated(clock', {u})
    /\ UNCHANGED <<server, requests, answered, peer, loop, connected, remoteClock, work,
                   events, ghosts>>

-----------------------------------------------------------------------------
(* retryLoop, up to the jobs. *)

\* The storages are connected; subscribe to both, add the document if it is stored.
Subscribes ==
    /\ loop.pc = "off"
    /\ loop' = [Off EXCEPT !.pc = "subscribed"]
    /\ known' = (clock # 0)
    /\ jobs' = [NoJobs EXCEPT !.connect = (clock # 0)]
    /\ UNCHANGED <<server, requests, answered, store, peer, connected, remoteClock, work,
                   events, ghosts>>

\* remoteClocks.max, over all documents.
LastTold == Higher(peer.seen, peer.highest)

\* The stored times are taken over; the server is asked for later ones.
Asks ==
    /\ loop.pc = "subscribed"
    /\ loop' = [loop EXCEPT !.pc = "asks"]
    /\ remoteClock' = peer.seen
    /\ UNCHANGED <<server, requests, answered, store, peer, known, connected, jobs, work,
                   events, ghosts>>

\* getDocTimestamps reads the snapshots that are later.
TellsSnapshots ==
    /\ loop.pc = "asks"
    /\ loop' = [loop EXCEPT !.pc = "rows",
                            !.answer = IF snapshot.at > LastTold THEN snapshot.at ELSE 0]
    /\ UNCHANGED <<server, requests, answered, store, peer, status, work, events, ghosts>>

\* Then the rows; the later of the two counts.  The answer replaces what was known.
TellsRows ==
    LET later == {stamp[u] : u \in rows} \ (0..LastTold)
        times == later \union {loop.answer} IN
    /\ loop.pc = "rows"
    /\ \E told \in times :
         /\ \A s \in times : s <= told
         /\ loop' = [pc |-> "stores", answer |-> told,
                     highest |-> IF elsewhere > LastTold THEN elsewhere ELSE 0]
         /\ remoteClock' = IF told = 0 THEN remoteClock ELSE told
    /\ UNCHANGED <<server, requests, answered, store, peer, known, connected, jobs, work,
                   events, ghosts>>

\* setPeerRemoteClock, one document after the other, in the order of the answer.
StoresTime ==
    /\ loop.pc = "stores"
    /\ \/ /\ loop.answer # 0
          /\ peer' = [peer EXCEPT !.seen = Higher(@, loop.answer)]
          /\ loop' = [loop EXCEPT !.answer = 0]
       \/ /\ loop.highest # 0
          /\ peer' = [peer EXCEPT !.highest = Higher(@, loop.highest)]
          /\ loop' = [loop EXCEPT !.highest = 0]
    /\ UNCHANGED <<server, requests, answered, store, status, work, events, ghosts>>

\* Documents of the server are added; the jobs begin.
Runs ==
    /\ loop.pc = "stores" /\ loop.answer = 0 /\ loop.highest = 0
    /\ loop' = [Off EXCEPT !.pc = "runs"]
    /\ known' = (known \/ remoteClock # 0)
    /\ jobs' = IF remoteClock # 0 THEN AddDoc(jobs) ELSE jobs
    /\ UNCHANGED <<server, requests, answered, store, peer, connected, remoteClock, work,
                   events, ghosts>>

\* mainLoop resets the status; what is on its way to the server may still be served.
Forgets ==
    /\ Happens
    /\ loop' = Off
    /\ known' = FALSE
    /\ connected' = FALSE
    /\ remoteClock' = 0
    /\ jobs' = NoJobs
    /\ work' = Idle
    /\ LET mine == {r \in requests : r.from = "me"} IN
       \/ requests' = requests \ mine
       \/ /\ mine # {}
          /\ requests' = (requests \ mine) \union {[r EXCEPT !.from = "gone"] : r \in mine}
    /\ UNCHANGED <<server, answered, store, peer, unanswered>>

\* The socket breaks, or a request is answered with an error or not at all.  A break is
\* not noticed while times are stored.
PeerDisconnects ==
    /\ loop.pc \notin {"off", "stores"}
    /\ Forgets
    /\ UNCHANGED cut

\* The browser is closed, which may be between two times.
Crashes ==
    /\ loop.pc # "off"
    /\ Forgets
    /\ cut' = (cut \/ (loop.pc = "stores" /\ loop.answer > peer.seen
                                          /\ loop.answer <= LastTold))

-----------------------------------------------------------------------------
(* The jobs, one at a time. *)

Ready == loop.pc = "runs" /\ work = Idle

\* The job is over; what it schedules.
Schedules(queue) == work' = Idle /\ jobs' = queue

\* The store has moved since it was last pushed.
MustPush == peer.pushed < clock

PulledAt(at) == peer' = [peer EXCEPT !.pulled = Higher(@, at)]
PushedAt(at) == peer' = [peer EXCEPT !.pushed = Higher(@, at)]

Load(both) == [Idle EXCEPT !.pc = "loads", !.both = both, !.base = local, !.clock = clock]

\* connect: pullAndPush, or pull, or neither.
Connects ==
    /\ Ready /\ jobs.connect
    /\ jobs' = [jobs EXCEPT !.connect = FALSE]
    /\ IF MustPush \/ peer.pulled < remoteClock
         THEN work' = Load(MustPush) /\ UNCHANGED connected
         ELSE connected' = TRUE /\ UNCHANGED work
    /\ UNCHANGED <<server, requests, answered, store, peer, loop, known, remoteClock, events,
                   ghosts>>

\* loadDoc: the snapshot, then the rows, then the time.
LoadReads ==
    /\ \/ work.pc = "loads" /\ work' = [work EXCEPT !.pc = "rows", !.got = snapshot.has]
       \/ work.pc = "rows" /\ work' = [work EXCEPT !.pc = "dates", !.got = @ \union rows]
       \/ work.pc = "dates" /\ work' = [work EXCEPT !.pc = "merges", !.at = now]
    /\ UNCHANGED <<server, requests, answered, store, peer, loop, status, events, ghosts>>

\* Any error of loadDoc is answered DOC_NOT_FOUND: getDocDiff gives null.  A pull is over;
\* pullAndPush pushes what it has, if anything, as if the server had nothing.
LoadFails ==
    /\ work.pc \in {"loads", "rows", "dates"}
    /\ Happens
    /\ unanswered' = TRUE
    /\ IF work.both /\ work.base # {}
         THEN /\ requests' = requests \union {Request("me", work.base)}
              /\ work' = [work EXCEPT !.pc = "pushesAll"]
              /\ UNCHANGED <<peer, connected, jobs>>
         ELSE /\ connected' = TRUE
              /\ IF work.both
                   THEN /\ Schedules([jobs EXCEPT !.push = Plus(@, work.clock, {})])
                        /\ PushedAt(work.clock)
                   ELSE Schedules(jobs) /\ UNCHANGED peer
              /\ UNCHANGED requests
    /\ UNCHANGED <<server, answered, store, loop, known, remoteClock, cut>>

\* What is missing goes into the store, under a time of its own.
LoadMerges ==
    /\ work.pc = "merges"
    /\ local' = local \union work.got
    /\ clock' = clock + 1
    /\ work' = [work EXCEPT !.pc = "notes", !.clock = clock']
    /\ UNCHANGED <<server, requests, answered, typedAt, peer, loop, status, events, ghosts>>

\* Only then the time of the answer; what the server lacks is pushed.
LoadNotes ==
    LET diff == work.base \ work.got IN
    /\ work.pc = "notes"
    /\ PulledAt(work.at)
    /\ IF work.both /\ diff # {}
         THEN /\ requests' = requests \union {Request("me", diff)}
              /\ work' = [work EXCEPT !.pc = "pushesDiff"]
              /\ UNCHANGED <<connected, jobs>>
         ELSE /\ Schedules([jobs EXCEPT !.push = Plus(@, work.clock, {})])
              /\ connected' = TRUE
              /\ UNCHANGED requests
    /\ UNCHANGED <<server, answered, store, loop, known, remoteClock, events, ghosts>>

\* Mutant of Pushes: what is pushed is noted as pushed at once.
PushesAndNotes ==
    /\ Ready /\ connected /\ ~jobs.connect
    /\ jobs.push # NoBatch
    /\ jobs' = [jobs EXCEPT !.push = NoBatch]
    /\ PushedAt(jobs.push.at)
    /\ IF jobs.push.has = {} THEN UNCHANGED <<requests, work>>
       ELSE /\ requests' = requests \union {Request("me", jobs.push.has)}
            /\ work' = [Idle EXCEPT !.pc = "pushes", !.clock = jobs.push.at]
    /\ UNCHANGED <<server, answered, store, loop, known, connected, remoteClock, events,
                   ghosts>>

\* push: all waiting pushes as one.  Without content it only notes the time.
Pushes ==
    /\ Ready /\ connected /\ ~jobs.connect
    /\ jobs.push # NoBatch
    /\ jobs' = [jobs EXCEPT !.push = NoBatch]
    /\ IF jobs.push.has = {} THEN PushedAt(jobs.push.at) /\ UNCHANGED <<requests, work>>
       ELSE /\ requests' = requests \union {Request("me", jobs.push.has)}
            /\ work' = [Idle EXCEPT !.pc = "pushes", !.clock = jobs.push.at]
            /\ UNCHANGED peer
    /\ UNCHANGED <<server, answered, store, loop, known, connected, remoteClock, events,
                   ghosts>>

\* The answer to a push of this browser; a save is scheduled for its time.
Answers(r) ==
    LET saved == [jobs EXCEPT !.save = Plus(@, r.at, {})] IN
    /\ r.from = "me" /\ r.pc = "stored"
    /\ requests' = requests \ {r}
    /\ IF work.pc = "pushes" THEN Schedules(saved)
       ELSE Schedules([saved EXCEPT !.push = Plus(@, work.clock, {})])
    /\ IF work.pc = "pushesDiff" THEN UNCHANGED peer ELSE PushedAt(work.clock)
    /\ connected' = TRUE
    /\ UNCHANGED <<server, answered, store, loop, known, remoteClock, events, ghosts>>

\* save: all waiting broadcasts as one into the store, which moves its time.
Saves ==
    LET batch == jobs.save IN
    /\ Ready /\ connected /\ ~jobs.connect /\ jobs.push = NoBatch
    /\ batch # NoBatch
    /\ IF batch.has = {}
         THEN /\ PulledAt(batch.at)
              /\ jobs' = [jobs EXCEPT !.save = NoBatch]
              /\ UNCHANGED <<local, clock, work>>
         ELSE /\ local' = local \union batch.has
              /\ clock' = clock + 1
              /\ jobs' = [jobs EXCEPT !.save = NoBatch, !.push = Plus(@, clock', {})]
              /\ work' = [Idle EXCEPT !.pc = "saved", !.at = batch.at]
              /\ UNCHANGED peer
    /\ UNCHANGED <<server, requests, answered, typedAt, loop, known, connected, remoteClock,
                   events, ghosts>>

\* Then the time.
SaveNotes ==
    /\ work.pc = "saved"
    /\ PulledAt(work.at)
    /\ work' = Idle
    /\ UNCHANGED <<server, requests, answered, store, loop, status, events, ghosts>>

-----------------------------------------------------------------------------
ServerStep(r) == Dates(r) \/ Commits(r) \/ Broadcasts(r) \/ Answers(r)

PeerStep ==
    \/ Subscribes \/ Asks \/ TellsSnapshots \/ TellsRows \/ StoresTime \/ Runs
    \/ Connects \/ LoadReads \/ LoadMerges \/ LoadNotes \/ Pushes \/ Saves \/ SaveNotes

PeerNext ==
    \/ \E r \in requests : ServerStep(r) \/ Rebuilds(r) \/ PushFails(r)
    \/ \E u \in Theirs : OthersPush(u)
    \/ \E u \in Mine : LocalEdit(u)
    \/ PeerStep \/ LoadFails \/ PeerDisconnects \/ Crashes \/ OtherDocumentMoves

\* Handlers settle, the loop is tried again after five seconds and its jobs go on, and
\* others push again what failed after it was stored.  Nobody has to type.
PeerFairness ==
    /\ WF_peerVars(\E r \in requests : ServerStep(r))
    /\ WF_peerVars(PeerStep)
    /\ \A u \in Theirs : WF_peerVars(u \in Stored /\ OthersPush(u))

PeerSpec == PeerInit /\ [][PeerNext]_peerVars /\ PeerFairness

-----------------------------------------------------------------------------
(* Properties. *)

\* Nothing typed here is noted as pushed that the server has not stored, whatever breaks
\* between a job and its note: a start after a crash pushes the rest (peer.ts:274, 305).
PushedIsStored ==
    \A u \in Mine : typedAt[u] # 0 /\ typedAt[u] <= peer.pushed => u \in Stored

\* The clocks, jobs and requests are well formed, and the notes of what is pushed are true.
NotesAreSound == PeerTypeOK /\ PushedIsStored

\* Whatever is typed, connected or not, reaches the server, if breaks end.
EditsReachServer == \A u \in Mine : u \in local ~> u \in Stored

\* The server handles one push of this document at a time, and none while it reads for
\* this browser.
OneAtATime ==
    LET handled == {r \in requests : r.pc # "sent"}
        reading == loop.pc \in {"asks", "rows"} \/ work.pc \in {"loads", "rows", "dates"} IN
    Cardinality(handled) <= 1 /\ (reading => handled = {})

\* What others have stored reaches this browser: through a broadcast, or by the times
\* when a broadcast is missed.  Three things can break that: pushes dated before and
\* stored after a time this browser is told, a crash between the storing of two times,
\* and a load that fails.
CatchesUp == []OneAtATime => <>[](cut \/ unanswered \/ Stored \subseteq local)
==============================================================================
