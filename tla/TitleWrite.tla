----------------------------- MODULE TitleWrite ------------------------------
(***************************************************************************)
(* The title of one page: the compare-and-set of DocMetaWriteService on    *)
(* the server (backend, discovery/doc-meta-write.service.ts) and the       *)
(* clients that write through it (frontend, modules/discovery): per field  *)
(* a queue, one entry of writes that could not be sent, the revisions last *)
(* heard of, and the list that is read from the server and applied.        *)
(* Trash is the other value field and is written by the same functions.    *)
(*                                                                         *)
(* A client shows an edit at once and sends it later.  A request that the  *)
(* client has given up may still be served; an answer may be lost.         *)
(*                                                                         *)
(* One tab per client, signed in all the time; the page is not deleted; a  *)
(* page just created stays on its creator's screen until a list has it.    *)
(***************************************************************************)
EXTENDS Naturals, Sequences

CONSTANTS
    Clients,
    Creator,        \* the client that creates the page
    Titles,         \* what people type
    Untitled,       \* the title of a new page
    MaxEdits,       \* bound: titles typed
    MaxFaults,      \* bound: requests given up, or refused
    MaxLists        \* bound: lists read from the server

ASSUME TitleBounds ==
    /\ Creator \in Clients
    /\ Untitled \notin Titles
    /\ MaxEdits \in Nat /\ MaxFaults \in Nat /\ MaxLists \in Nat

VARIABLES
    row,            \* doc_meta: [rev, title]; no row while rev = 0
    requests,       \* mutations on the way, at the server, or answered
    typed,          \* the edits so far: [by, title, seen]
    queue,          \* queue[c]: the field queue of the title, its head at work
    creating,       \* creating[c]: the field queue of the creation
    pending,        \* pending[c]: the title kept for resending: [edit, base]
    unsent,         \* clients that keep the creation for resending
    known,          \* known[c]: the title's revision in DocMetaWriteService.revisions
    screen,         \* screen[c]: the title shown; NoPage before there is one
    list,           \* list[c]: the list last read: [rev, title] of the page
    faults,
    lists,
    log,            \* ghost: log[r] made revision r: [by, edit, again]
    told,           \* ghost: the highest revision a client ever heard of
    answered        \* ghost: the latest edit of a client that was answered

vars == <<row, requests, typed, queue, creating, pending, unsent, known, screen, list,
          faults, lists, log, told, answered>>

server == <<row, log>>
page == <<known, told, screen>>
creation == <<creating, unsent>>
bounds == <<faults, lists>>

NoPage == "no page"
NoWrite == [edit |-> 0, base |-> 0]
Resend == [kind |-> "resend", edit |-> 0, base |-> 0]
NoAnswer == [status |-> "none", rev |-> 0, title |-> Untitled]

Names == Titles \union {Untitled}
Revisions == 0..(MaxEdits + 1)
Edits == 0..MaxEdits
Row == [rev : Revisions, title : Names]
Task == [kind : {"fresh", "resend"}, edit : Edits, base : Revisions]
Request ==
    [by : Clients, field : {"create", "title"}, edit : Edits, base : Revisions,
     again : BOOLEAN, live : BOOLEAN,
     pc : {"sent", "checked", "beaten", "answered", "reverting", "fetched"},
     answer : [status : {"none", "ok", "stale", "not-found", "forbidden"},
               rev : Revisions, title : Names]]

TypeOK ==
    /\ row \in Row
    /\ requests \subseteq Request
    /\ typed \in Seq([by : Clients, title : Titles, seen : Revisions])
    /\ queue \in [Clients -> Seq(Task)]
    /\ creating \in [Clients -> Seq({"fresh", "resend"})]
    /\ pending \in [Clients -> [edit : Edits, base : Revisions]]
    /\ unsent \subseteq Clients
    /\ known \in [Clients -> Revisions]
    /\ screen \in [Clients -> Names \union {NoPage}]
    /\ list \in [Clients -> Row]
    /\ faults \in 0..MaxFaults /\ lists \in 0..MaxLists
    /\ log \in Seq([by : Clients, edit : Edits, again : BOOLEAN])
    /\ told \in [Clients -> Revisions]
    /\ answered \in [Clients -> Edits]

Init ==
    /\ row = [rev |-> 0, title |-> Untitled]
    /\ requests = {}
    /\ typed = <<>>
    /\ queue = [c \in Clients |-> <<>>]
    /\ creating = [c \in Clients |-> <<>>]
    /\ pending = [c \in Clients |-> NoWrite]
    /\ unsent = {}
    /\ known = [c \in Clients |-> 0]
    /\ screen = [c \in Clients |-> NoPage]
    /\ list = [c \in Clients |-> row]
    /\ faults = 0
    /\ lists = 0
    /\ log = <<>>
    /\ told = [c \in Clients |-> 0]
    /\ answered = [c \in Clients |-> 0]

-----------------------------------------------------------------------------
(* What people do. *)

\* created(): the page is on the screen, its creation in the queue.
UserCreates(c) ==
    /\ c = Creator
    /\ screen[c] = NoPage
    /\ screen' = [screen EXCEPT ![c] = Untitled]
    /\ creating' = [creating EXCEPT ![c] = Append(@, "fresh")]
    /\ UNCHANGED <<server, requests, typed, queue, pending, unsent, known, told, list,
                   bounds, answered>>

\* setDocMeta: shown first, then planned with the revision known now and queued.
UserTypes(c, t) ==
    /\ screen[c] \notin {NoPage, t}
    /\ Len(typed) < MaxEdits
    /\ typed' = Append(typed, [by |-> c, title |-> t, seen |-> told[c]])
    /\ screen' = [screen EXCEPT ![c] = t]
    /\ queue' = [queue EXCEPT ![c] =
                     Append(@, [kind |-> "fresh", edit |-> Len(typed'), base |-> known[c]])]
    /\ UNCHANGED <<server, requests, creation, pending, known, told, list, bounds, answered>>

-----------------------------------------------------------------------------
(* The queues send, one request at a time each. *)

Live(c, f) == {r \in requests : r.live /\ r.by = c /\ r.field = f}

Call(c, f, e, b, again) ==
    [by |-> c, field |-> f, edit |-> e, base |-> b, again |-> again, live |-> TRUE,
     pc |-> "sent", answer |-> NoAnswer]

\* The creation is kept before it is sent.
SendsCreation(c) ==
    /\ creating[c] # <<>>
    /\ Live(c, "create") = {}
    /\ Head(creating[c]) = "fresh" \/ c \in unsent
    /\ unsent' = unsent \union {c}
    /\ requests' = requests \union
           {Call(c, "create", 0, 0, Head(creating[c]) = "resend")}
    /\ UNCHANGED <<server, typed, queue, creating, pending, page, list, bounds, answered>>

\* createGates: no title leaves while the creation is at work.
GateOpen(c) == \A i \in DOMAIN creating[c] : creating[c][i] # "fresh"

\* refresh: an edit goes out on the revision known when it is sent.
SendsEdit(c) ==
    /\ queue[c] # <<>>
    /\ Live(c, "title") = {}
    /\ Head(queue[c]).kind = "fresh"
    /\ GateOpen(c)
    /\ requests' = requests \union
           {Call(c, "title", Head(queue[c]).edit, known[c], FALSE)}
    /\ UNCHANGED <<server, typed, queue, creation, pending, page, list, bounds, answered>>

\* Mutant of ResendBase: what was kept goes out on the revision known now.
RefreshedBase(c) == known[c]

\* toWritePlan: what was kept goes out on the revision it was kept with.
ResendBase(c) == pending[c].base

\* resendAll's task reads the entry again when its turn has come.
Resends(c) ==
    /\ queue[c] # <<>>
    /\ Live(c, "title") = {}
    /\ Head(queue[c]).kind = "resend"
    /\ pending[c] # NoWrite
    /\ GateOpen(c)
    /\ requests' = requests \union
           {Call(c, "title", pending[c].edit, ResendBase(c), TRUE)}
    /\ UNCHANGED <<server, typed, queue, creation, pending, page, list, bounds, answered>>

ResendFindsNothing(c) ==
    /\ \/ /\ queue[c] # <<>>
          /\ Live(c, "title") = {}
          /\ Head(queue[c]).kind = "resend"
          /\ pending[c] = NoWrite
          /\ queue' = [queue EXCEPT ![c] = Tail(@)]
          /\ UNCHANGED creating
       \/ /\ creating[c] # <<>>
          /\ Live(c, "create") = {}
          /\ Head(creating[c]) = "resend"
          /\ c \notin unsent
          /\ creating' = [creating EXCEPT ![c] = Tail(@)]
          /\ UNCHANGED queue
    /\ UNCHANGED <<server, requests, typed, pending, unsent, page, list, bounds, answered>>

-----------------------------------------------------------------------------
(* The server. *)

TitleOf(e) == IF e = 0 THEN Untitled ELSE typed[e].title

\* The request goes on; nobody cares how one ends that was given up.
Advance(r, next) ==
    requests' = (requests \ {r}) \union
                    (IF next.live \/ next.pc = "checked" THEN {next} ELSE {})

Answer(r, status) ==
    [r EXCEPT !.pc = "answered",
              !.answer = [status |-> status, rev |-> row.rev, title |-> row.title]]

\* Mutant of ServerCreates: the upsert overwrites a row that is there.
ServerCreatesAnew(r) ==
    /\ r.field = "create" /\ r.pc = "sent"
    /\ row' = [rev |-> row.rev + 1, title |-> Untitled]
    /\ log' = Append(log, [by |-> r.by, edit |-> 0, again |-> r.again])
    /\ Advance(r, [r EXCEPT !.pc = "answered",
                            !.answer = [status |-> "ok", rev |-> row'.rev,
                                        title |-> Untitled]])
    /\ UNCHANGED <<typed, queue, creation, pending, page, list, bounds, answered>>

\* createDoc: an upsert that leaves an existing row alone.
ServerCreates(r) ==
    LET made == IF row.rev = 0 THEN [rev |-> 1, title |-> Untitled] ELSE row IN
    /\ r.field = "create" /\ r.pc = "sent"
    /\ row' = made
    /\ log' = IF row.rev = 0 THEN <<[by |-> r.by, edit |-> 0, again |-> r.again]>> ELSE log
    /\ Advance(r, [r EXCEPT !.pc = "answered",
                            !.answer = [status |-> "ok", rev |-> made.rev,
                                        title |-> made.title]])
    /\ UNCHANGED <<typed, queue, creation, pending, page, list, bounds, answered>>

\* Mutant of ServerReads: the write is based on the revision just read.
ServerReadsOnly(r) ==
    /\ r.field = "title" /\ r.pc = "sent"
    /\ Advance(r, IF row.rev = 0 THEN Answer(r, "not-found")
                  ELSE [r EXCEPT !.pc = "checked", !.base = row.rev])
    /\ UNCHANGED <<server, typed, queue, creation, pending, page, list, bounds, answered>>

\* writeValueField, up to the write.
ServerReads(r) ==
    /\ r.field = "title" /\ r.pc = "sent"
    /\ Advance(r, IF row.rev = 0 THEN Answer(r, "not-found")
                  ELSE IF row.rev # r.base THEN Answer(r, "stale")
                  ELSE IF row.title = TitleOf(r.edit) THEN Answer(r, "ok")
                  ELSE [r EXCEPT !.pc = "checked"])
    /\ UNCHANGED <<server, typed, queue, creation, pending, page, list, bounds, answered>>

\* Mutant of MayWrite: the check of the earlier read is trusted.
MayWriteUnchecked(r) == TRUE

\* The condition of the updateMany.
MayWrite(r) == row.rev = r.base

ServerWrites(r) ==
    /\ r.pc = "checked"
    /\ MayWrite(r)
    /\ row' = [rev |-> row.rev + 1, title |-> TitleOf(r.edit)]
    /\ log' = Append(log, [by |-> r.by, edit |-> r.edit, again |-> r.again])
    /\ Advance(r, [r EXCEPT !.pc = "answered",
                            !.answer = [status |-> "ok", rev |-> r.base + 1,
                                        title |-> row'.title]])
    /\ UNCHANGED <<typed, queue, creation, pending, page, list, bounds, answered>>

ServerIsBeaten(r) ==
    /\ r.pc = "checked"
    /\ ~MayWrite(r)
    /\ Advance(r, [r EXCEPT !.pc = "beaten"])
    /\ UNCHANGED <<server, typed, queue, creation, pending, page, list, bounds, answered>>

\* staleFrom.
ServerRereads(r) ==
    /\ r.pc = "beaten"
    /\ Advance(r, Answer(r, "stale"))
    /\ UNCHANGED <<server, typed, queue, creation, pending, page, list, bounds, answered>>

\* requireUpdate throws.
ServerRefuses(r) ==
    /\ r.field = "title" /\ r.pc = "sent"
    /\ faults < MaxFaults
    /\ faults' = faults + 1
    /\ Advance(r, Answer(r, "forbidden"))
    /\ UNCHANGED <<server, typed, queue, creation, pending, page, list, lists, answered>>

-----------------------------------------------------------------------------
(* Answers. *)

Higher(m, n) == IF m < n THEN n ELSE m

Remember(c, rev) ==
    /\ known' = [known EXCEPT ![c] = rev]
    /\ told' = [told EXCEPT ![c] = Higher(@, rev)]

\* A creation that is resent teaches the client no revision.
GetsCreated(r) ==
    /\ r.live /\ r.field = "create" /\ r.pc = "answered"
    /\ IF r.again THEN UNCHANGED <<known, told>> ELSE Remember(r.by, r.answer.rev)
    /\ unsent' = unsent \ {r.by}
    /\ creating' = [creating EXCEPT ![r.by] = Tail(@)]
    /\ requests' = requests \ {r}
    /\ UNCHANGED <<server, typed, queue, pending, screen, list, bounds, answered>>

\* Of what was kept, an answer to a resend discards only what was resent.
Discarded(r) ==
    IF ~r.again \/ TitleOf(pending[r.by].edit) = TitleOf(r.edit)
      THEN [pending EXCEPT ![r.by] = NoWrite]
      ELSE pending

\* sendOne on done, stale and not-found; stale shows the server's title.
GetsAnswer(r) ==
    /\ r.live /\ r.field = "title" /\ r.pc = "answered"
    /\ r.answer.status # "forbidden"
    /\ pending' = Discarded(r)
    /\ IF r.answer.status = "not-found"
         THEN UNCHANGED <<known, told>>
         ELSE Remember(r.by, r.answer.rev)
    /\ screen' = IF r.answer.status = "stale"
                   THEN [screen EXCEPT ![r.by] = r.answer.title] ELSE screen
    /\ queue' = [queue EXCEPT ![r.by] = Tail(@)]
    /\ requests' = requests \ {r}
    /\ answered' = [answered EXCEPT ![r.by] = Higher(@, r.edit)]
    /\ UNCHANGED <<server, typed, creation, list, bounds>>

\* hasWaiting.
Waiting(c) == Len(queue[c]) > 1

\* On forbidden: revertToServer, unless more edits wait.
GetsRefusal(r) ==
    /\ r.live /\ r.pc = "answered"
    /\ r.answer.status = "forbidden"
    /\ pending' = Discarded(r)
    /\ answered' = [answered EXCEPT ![r.by] = Higher(@, r.edit)]
    /\ IF Waiting(r.by)
         THEN /\ requests' = requests \ {r}
              /\ queue' = [queue EXCEPT ![r.by] = Tail(@)]
         ELSE /\ requests' = (requests \ {r}) \union {[r EXCEPT !.pc = "reverting"]}
              /\ UNCHANGED queue
    /\ UNCHANGED <<server, typed, creation, page, list, bounds>>

\* fetchServerMeta: the list as the server has it, or the one read before.
RevertReads(r) ==
    /\ r.pc = "reverting"
    /\ \E l \in {row, list[r.by]} :
        /\ list' = [list EXCEPT ![r.by] = l]
        /\ requests' = (requests \ {r}) \union
               {[r EXCEPT !.pc = "fetched", !.answer.rev = l.rev, !.answer.title = l.title]}
    /\ UNCHANGED <<server, typed, queue, creation, pending, page, bounds, answered>>

RevertApplies(r) ==
    /\ r.pc = "fetched"
    /\ screen' = IF r.answer.rev = 0 \/ Waiting(r.by) THEN screen
                 ELSE [screen EXCEPT ![r.by] = r.answer.title]
    /\ requests' = requests \ {r}
    /\ queue' = [queue EXCEPT ![r.by] = Tail(@)]
    /\ UNCHANGED <<server, typed, creation, pending, known, told, list, bounds, answered>>

\* Mutant of Kept: a failure is taken for an answer, nothing is kept.
KeptNever(r) == pending

\* keepPending, merged with what was kept before (the first base stays).  The base
\* kept is the one the edit was planned with, not the one it was sent on.
Kept(r) ==
    IF r.again THEN pending
    ELSE [pending EXCEPT ![r.by] =
              [edit |-> r.edit,
               base |-> IF @ = NoWrite THEN Head(queue[r.by]).base ELSE @.base]]

\* The client gives up a request; the server may still come to it.
Fails(r) ==
    /\ r.live /\ r.pc \in {"sent", "checked", "beaten", "answered"}
    /\ faults < MaxFaults
    /\ faults' = faults + 1
    /\ requests' = (requests \ {r}) \union
           (IF r.pc \in {"sent", "checked"} THEN {[r EXCEPT !.live = FALSE]} ELSE {})
    /\ IF r.field = "create"
         THEN /\ creating' = [creating EXCEPT ![r.by] = Tail(@)]
              /\ UNCHANGED <<queue, pending>>
         ELSE /\ queue' = [queue EXCEPT ![r.by] = Tail(@)]
              /\ pending' = Kept(r)
              /\ UNCHANGED creating
    /\ UNCHANGED <<server, typed, unsent, page, list, lists, answered>>

-----------------------------------------------------------------------------
(* Lists. *)

ListReads(c) ==
    /\ lists < MaxLists
    /\ lists' = lists + 1
    /\ list' = [list EXCEPT ![c] = row]
    /\ UNCHANGED <<server, requests, typed, queue, creation, pending, page, faults, answered>>

\* hydrateRevisions, then hydrateMetaCache: keepNewerLocal compares the list with
\* revisions that were just taken from it, and so keeps nothing.
Hydrates(c) ==
    IF list[c].rev = 0 THEN UNCHANGED page
    ELSE Remember(c, list[c].rev) /\ screen' = [screen EXCEPT ![c] = list[c].title]

\* resendPending: each kept entry is queued, unless it is already.
QueueResends(c) ==
    /\ queue' = IF pending[c] = NoWrite
                     \/ \E i \in DOMAIN queue[c] : queue[c][i].kind = "resend"
                  THEN queue ELSE [queue EXCEPT ![c] = Append(@, Resend)]
    /\ creating' = IF c \notin unsent
                        \/ \E i \in DOMAIN creating[c] : creating[c][i] = "resend"
                     THEN creating ELSE [creating EXCEPT ![c] = Append(@, "resend")]

\* A list arrives, fresh or from the cache.
ListApplies(c) ==
    /\ Hydrates(c)
    /\ QueueResends(c)
    /\ UNCHANGED <<server, requests, typed, pending, unsent, list, bounds, answered>>

\* The watched cache has changed: no resending here.
CacheApplies(c) ==
    /\ Hydrates(c)
    /\ UNCHANGED <<server, requests, typed, queue, creation, pending, list, bounds, answered>>

-----------------------------------------------------------------------------
ServerStep(r) ==
    \/ ServerCreates(r) \/ ServerReads(r) \/ ServerWrites(r) \/ ServerIsBeaten(r)
    \/ ServerRereads(r) \/ ServerRefuses(r)

ClientStep(c) ==
    \/ UserCreates(c)
    \/ \E t \in Titles : UserTypes(c, t)
    \/ SendsCreation(c) \/ SendsEdit(c) \/ Resends(c) \/ ResendFindsNothing(c)
    \/ ListReads(c) \/ ListApplies(c) \/ CacheApplies(c)

AnswerStep(r) ==
    \/ GetsCreated(r) \/ GetsAnswer(r) \/ GetsRefusal(r)
    \/ RevertReads(r) \/ RevertApplies(r) \/ Fails(r)

Next ==
    \/ \E c \in Clients : ClientStep(c)
    \/ \E r \in requests : ServerStep(r) \/ AnswerStep(r)

Spec == Init /\ [][Next]_vars

-----------------------------------------------------------------------------
(* Properties. *)

EditsOf(c) == {e \in DOMAIN typed : typed[e].by = c}

Queued(c) == {queue[c][i].edit : i \in DOMAIN queue[c]}

\* The latest edit of a client, not yet answered.
Open(c, e) ==
    /\ e \in EditsOf(c) /\ answered[c] < e
    /\ \A n \in EditsOf(c) : n <= e

\* Whoever overwrites a title had been told of the revision he overwrites: the two
\* queries of writeValueField act as one compare-and-set, whatever runs between them.
NoBlindOverwrite ==
    [][row' # row /\ row.rev > 0 => told[log'[Len(log')].by] >= row.rev]_vars

\* A resend never overwrites what others wrote after the edit was typed: that is why the
\* base revision is kept with it (toWritePlan), however often it was merged since.
ResendSeesConflicts ==
    \A i \in DOMAIN log : \A j \in 1..(i - 1) :
        log[i].again /\ log[i].edit # 0 /\ typed[log[i].edit].seen < j
            => log[j].by = log[i].by

\* Edits of one client take effect in the order they were typed, also when one is sent
\* again or served after its client gave it up (FieldQueue and the compare-and-set).
TypedOrder ==
    \A i, j \in DOMAIN log :
        i < j /\ log[i].by = log[j].by => log[i].edit < log[j].edit

\* The latest thing a client typed waits in its queue or is kept for resending until the
\* server has answered it, and a creation until there is a row.
NewestIsKept ==
    /\ \A c \in Clients : \A e \in EditsOf(c) :
           Open(c, e) => e \in Queued(c) \union {pending[c].edit}
    /\ screen[Creator] # NoPage /\ row.rev = 0 => creating[Creator] # <<>> \/ Creator \in unsent

\* Queues, requests and kept entries are well formed, and the newest edit is in them.
EditsAreSound == TypeOK /\ NewestIsKept
==============================================================================
