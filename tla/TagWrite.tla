------------------------------- MODULE TagWrite ------------------------------
(***************************************************************************)
(* The tags of one page: changeTags of DocMetaWriteService on the server   *)
(* (backend, discovery/doc-meta-write.service.ts) and the clients that     *)
(* send what was added and what was removed (frontend, modules/discovery). *)
(* Tags are written by operations that no revision turns down, where a     *)
(* title is written by value (TitleWrite): the server tries again when     *)
(* another write comes first, and what a client keeps for resending is     *)
(* merged into one operation.                                              *)
(*                                                                         *)
(* One tab per client, signed in all the time; the page is in the list and *)
(* is not deleted.                                                         *)
(***************************************************************************)
EXTENDS Naturals, Sequences

CONSTANTS
    Clients,
    Tags,
    Attempts,       \* TAG_WRITE_ATTEMPTS
    MaxEdits,       \* bound: tags put on or taken off
    MaxFaults,      \* bound: requests given up, or refused
    MaxLists        \* bound: lists read from the server

ASSUME TagBounds ==
    /\ Attempts \in Nat \ {0}
    /\ MaxEdits \in Nat /\ MaxFaults \in Nat /\ MaxLists \in Nat

VARIABLES
    row,            \* doc_meta: [rev, tags]
    requests,       \* mutations on the way, at the server, or answered
    typed,          \* the edits so far: [by, tag, on]
    queue,          \* queue[c]: the field queue of the tags, its head at work
    pending,        \* pending[c]: the operation kept for resending
    screen,         \* screen[c]: the tags shown
    list,           \* list[c]: the tags of the list last read
    faults,
    lists,
    settled,        \* ghost: the edits that were answered
    log             \* ghost: the operations accepted: [by, op, late]; late if the client
                    \* had given the request up

vars == <<row, requests, typed, queue, pending, screen, list, faults, lists, settled, log>>
server == <<row, log>>
bounds == <<faults, lists>>

\* An operation, with the edits it is made of, a ghost.
NoOp == [add |-> {}, remove |-> {}, of |-> {}]
Resend == [kind |-> "resend", op |-> NoOp]

Row == [rev : Nat, tags : SUBSET Tags]
Unread == [rev |-> 0, tags |-> {}]
Op == [add : SUBSET Tags, remove : SUBSET Tags, of : SUBSET (1..MaxEdits)]
Task == [kind : {"fresh", "resend"}, op : Op]
Request ==
    [by : Clients, op : Op, again : BOOLEAN, live : BOOLEAN, try : 1..Attempts,
     seen : Row, pc : {"sent", "read", "ok", "busy", "forbidden", "reverting", "fetched"}]

TypeOK ==
    /\ row \in Row
    /\ requests \subseteq Request
    /\ \A r \in requests : r.op.add \intersect r.op.remove = {}
    /\ typed \in Seq([by : Clients, tag : Tags, on : BOOLEAN])
    /\ queue \in [Clients -> Seq(Task)]
    /\ pending \in [Clients -> Op]
    /\ \A c \in Clients : pending[c].add \intersect pending[c].remove = {}
    /\ screen \in [Clients -> SUBSET Tags]
    /\ list \in [Clients -> SUBSET Tags]
    /\ faults \in 0..MaxFaults /\ lists \in 0..MaxLists
    /\ settled \subseteq 1..MaxEdits
    /\ log \in Seq([by : Clients, op : Op, late : BOOLEAN])

\* A page may be older than the ledger: its tags have revision 0.
Init ==
    /\ row \in [rev : {0, 1}, tags : {{}}]
    /\ requests = {}
    /\ typed = <<>>
    /\ queue = [c \in Clients |-> <<>>]
    /\ pending = [c \in Clients |-> NoOp]
    /\ screen = [c \in Clients |-> {}]
    /\ list = [c \in Clients |-> {}]
    /\ faults = 0
    /\ lists = 0
    /\ settled = {}
    /\ log = <<>>

-----------------------------------------------------------------------------
(* What people do, and what is sent. *)

\* diffTags of one tag.
Diff(t, on, e) ==
    [add |-> IF on THEN {t} ELSE {}, remove |-> IF on THEN {} ELSE {t}, of |-> {e}]

\* setDocMeta: shown first; the difference to what was shown is queued.
UserToggles(c, t) ==
    LET on == t \notin screen[c] IN
    /\ Len(typed) < MaxEdits
    /\ typed' = Append(typed, [by |-> c, tag |-> t, on |-> on])
    /\ screen' = [screen EXCEPT ![c] = IF on THEN @ \union {t} ELSE @ \ {t}]
    /\ queue' = [queue EXCEPT ![c] =
                     Append(@, [kind |-> "fresh", op |-> Diff(t, on, Len(typed'))])]
    /\ UNCHANGED <<server, requests, pending, list, bounds, settled>>

Live(c) == {r \in requests : r.live /\ r.by = c}

Turn(c, kind) == queue[c] # <<>> /\ Head(queue[c]).kind = kind /\ Live(c) = {}

Call(c, op, again) ==
    [by |-> c, op |-> op, again |-> again, live |-> TRUE, try |-> 1, seen |-> Unread,
     pc |-> "sent"]

SendsEdit(c) ==
    /\ Turn(c, "fresh")
    /\ requests' = requests \union {Call(c, Head(queue[c]).op, FALSE)}
    /\ UNCHANGED <<server, typed, queue, pending, screen, list, bounds, settled>>

\* resendAll's task reads the entry again when its turn has come.
Resends(c) ==
    /\ Turn(c, "resend")
    /\ IF pending[c] = NoOp
         THEN queue' = [queue EXCEPT ![c] = Tail(@)] /\ UNCHANGED requests
         ELSE requests' = requests \union {Call(c, pending[c], TRUE)} /\ UNCHANGED queue
    /\ UNCHANGED <<server, typed, pending, screen, list, bounds, settled>>

-----------------------------------------------------------------------------
(* The server. *)

\* filter, then push.
Changed(tags, op) == (tags \ op.remove) \union (op.add \ op.remove)

\* A request that was given up ends where it would have been answered.
Advance(r, next) ==
    requests' = (requests \ {r}) \union
                    (IF next.live \/ next.pc \in {"sent", "read"} THEN {next} ELSE {})

Accept(r) == log' = Append(log, [by |-> r.by, op |-> r.op, late |-> ~r.live])

\* An attempt reads the row.  What would change nothing is done, unless the row is still
\* to be taken over.
ServerReads(r) ==
    /\ r.pc = "sent"
    /\ IF row.rev # 0 /\ Changed(row.tags, r.op) = row.tags
         THEN Advance(r, [r EXCEPT !.pc = "ok"]) /\ Accept(r)
         ELSE Advance(r, [r EXCEPT !.pc = "read", !.seen = row]) /\ UNCHANGED log
    /\ UNCHANGED <<row, typed, queue, pending, screen, list, bounds, settled>>

\* Mutant of MayWrite: the row is written as read, whoever wrote since.
MayWriteUnchecked(r) == TRUE

\* The condition of the updateMany: the tags written are those of this revision.
MayWrite(r) == row.rev = r.seen.rev

ServerWrites(r) ==
    /\ r.pc = "read"
    /\ MayWrite(r)
    /\ row' = [rev |-> row.rev + 1, tags |-> Changed(r.seen.tags, r.op)]
    /\ Accept(r)
    /\ Advance(r, [r EXCEPT !.pc = "ok"])
    /\ UNCHANGED <<typed, queue, pending, screen, list, bounds, settled>>

\* Another write came first: the next attempt, or an error that keeps the operation.
ServerIsBeaten(r) ==
    /\ r.pc = "read"
    /\ ~MayWrite(r)
    /\ Advance(r, IF r.try < Attempts THEN [r EXCEPT !.pc = "sent", !.try = @ + 1]
                  ELSE [r EXCEPT !.pc = "busy"])
    /\ UNCHANGED <<server, typed, queue, pending, screen, list, bounds, settled>>

\* requireUpdate throws.
ServerRefuses(r) ==
    /\ r.pc = "sent" /\ r.try = 1
    /\ faults < MaxFaults
    /\ faults' = faults + 1
    /\ Advance(r, [r EXCEPT !.pc = "forbidden"])
    /\ UNCHANGED <<server, typed, queue, pending, screen, list, lists, settled>>

-----------------------------------------------------------------------------
(* Answers. *)

Done(r) ==
    /\ requests' = requests \ {r}
    /\ queue' = [queue EXCEPT ![r.by] = Tail(@)]

\* samePending.
SameOp(p, q) == p.add = q.add /\ p.remove = q.remove

\* Mutant of Discarded: only a resend discards what was kept.
DiscardedByResend(r) == IF r.again THEN [pending EXCEPT ![r.by] = NoOp] ELSE pending

\* Of what was kept, the answer to a resend discards what was resent, the answer to a
\* fresh edit everything.
Discarded(r) ==
    IF ~r.again \/ SameOp(pending[r.by], r.op) THEN [pending EXCEPT ![r.by] = NoOp]
    ELSE pending

GetsAnswer(r) ==
    /\ r.live /\ r.pc = "ok"
    /\ pending' = Discarded(r)
    /\ settled' = settled \union r.op.of
    /\ Done(r)
    /\ UNCHANGED <<server, typed, screen, list, bounds>>

\* hasWaiting.
Waiting(c) == Len(queue[c]) > 1

\* On forbidden: revertToServer, unless more edits wait or something is kept.
GetsRefusal(r) ==
    /\ r.live /\ r.pc = "forbidden"
    /\ pending' = Discarded(r)
    /\ IF Waiting(r.by) THEN Done(r)
       ELSE requests' = (requests \ {r}) \union {[r EXCEPT !.pc = "reverting"]} /\ UNCHANGED queue
    /\ settled' = settled \union r.op.of
    /\ UNCHANGED <<server, typed, screen, list, bounds>>

\* fetchServerMeta: the list as the server has it, or the one read before.
RevertReads(r) ==
    /\ r.pc = "reverting"
    /\ \E tags \in {row.tags, list[r.by]} : list' = [list EXCEPT ![r.by] = tags]
    /\ requests' = (requests \ {r}) \union {[r EXCEPT !.pc = "fetched"]}
    /\ UNCHANGED <<server, typed, queue, pending, screen, bounds, settled>>

RevertApplies(r) ==
    /\ r.pc = "fetched"
    /\ screen' = IF Waiting(r.by) \/ pending[r.by] # NoOp THEN screen
                 ELSE [screen EXCEPT ![r.by] = list[r.by]]
    /\ Done(r)
    /\ UNCHANGED <<server, typed, pending, list, bounds, settled>>

\* Mutant of Merged: what cancels out is kept as well.
MergedBoth(p, q) ==
    [add |-> p.add \union q.add, remove |-> p.remove \union q.remove, of |-> p.of \union q.of]

\* mergeTagOps: the later word about a tag counts.
Merged(p, q) ==
    [add |-> (p.add \ q.remove) \union q.add,
     remove |-> (p.remove \ q.add) \union q.remove,
     of |-> p.of \union q.of]

\* Mutant of Kept: a failure is taken for an answer.
KeptNever(r) == pending

\* keepPending; a resend is still kept.
Kept(r) == IF r.again THEN pending ELSE [pending EXCEPT ![r.by] = Merged(@, r.op)]

\* All attempts were in vain, or the client gives the request up; in that case the server
\* may still come to it.
Fails(r) ==
    /\ r.live
    /\ \/ r.pc = "busy" /\ UNCHANGED faults
       \/ r.pc \in {"sent", "read", "ok"} /\ faults < MaxFaults /\ faults' = faults + 1
    /\ pending' = Kept(r)
    /\ queue' = [queue EXCEPT ![r.by] = Tail(@)]
    /\ Advance(r, [r EXCEPT !.live = FALSE])
    /\ UNCHANGED <<server, typed, screen, list, lists, settled>>

-----------------------------------------------------------------------------
(* Lists. *)

ListReads(c) ==
    /\ lists < MaxLists
    /\ lists' = lists + 1
    /\ list' = [list EXCEPT ![c] = row.tags]
    /\ UNCHANGED <<server, requests, typed, queue, pending, screen, faults, settled>>

\* hydrateMetaCache, then resendPending: what is kept is queued, unless it is already.
ListApplies(c) ==
    /\ lists > 0
    /\ screen' = [screen EXCEPT ![c] = list[c]]
    /\ queue' = IF pending[c] = NoOp \/ \E i \in DOMAIN queue[c] : queue[c][i].kind = "resend"
                  THEN queue ELSE [queue EXCEPT ![c] = Append(@, Resend)]
    /\ UNCHANGED <<server, requests, typed, pending, list, bounds, settled>>

-----------------------------------------------------------------------------
ServerStep(r) ==
    ServerReads(r) \/ ServerWrites(r) \/ ServerIsBeaten(r) \/ ServerRefuses(r)

ClientStep(c) ==
    \/ \E t \in Tags : UserToggles(c, t)
    \/ SendsEdit(c) \/ Resends(c) \/ ListReads(c) \/ ListApplies(c)

AnswerStep(r) ==
    GetsAnswer(r) \/ GetsRefusal(r) \/ RevertReads(r) \/ RevertApplies(r) \/ Fails(r)

Next ==
    \/ \E c \in Clients : ClientStep(c)
    \/ \E r \in requests : ServerStep(r) \/ AnswerStep(r)

Spec == Init /\ [][Next]_vars

-----------------------------------------------------------------------------
(* Properties. *)

Names(op) == op.add \union op.remove

\* The tags are what the accepted operations make of them one after the other: of two
\* people who change different tags at once none loses (#164), and each operation takes
\* effect as a whole, however often its attempt was beaten.
TagsAreTheOperations ==
    \A t \in Tags :
        LET about == {i \in DOMAIN log : t \in Names(log[i].op)} IN
        t \in row.tags <=> \E i \in about : t \in log[i].op.add /\ \A j \in about : j <= i

EditsOf(c) == {e \in DOMAIN typed : typed[e].by = c}

Held(c) ==
    settled \union pending[c].of \union UNION {queue[c][i].op.of : i \in DOMAIN queue[c]}

\* What a client typed waits in its queue or is kept for resending until the server has
\* answered it, or a later edit of that client.
KeptUntilAnswered ==
    \A c \in Clients : \A e \in EditsOf(c) \ Held(c) :
        \E n \in EditsOf(c) \intersect settled : e < n

\* Edit e is the latest about tag t among those an operation is made of.
Latest(op, t, e) ==
    e \in op.of /\ typed[e].tag = t /\ \A n \in op.of : typed[n].tag = t => n <= e

\* An accepted operation says about each tag what its client said last, and never takes
\* back a later word the server has already had from him, however often it was kept,
\* merged and sent again; unless its client had given it up when it was served.
WordsInOrder ==
    \A j \in DOMAIN log : \A t \in Names(log[j].op) : \E word \in log[j].op.of :
        /\ Latest(log[j].op, t, word)
        /\ t \in log[j].op.add <=> typed[word].on
        /\ log[j].late \/ \A i \in 1..(j - 1) : log[i].by = log[j].by =>
               \A e \in log[i].op.of : typed[e].tag = t => e <= word
==============================================================================
