--------------------------- MODULE TitleWriteProofs ---------------------------
(***************************************************************************)
(* Proofs about TitleWrite, for any clients, titles and edits, and any     *)
(* number of requests that fail and of lists.                              *)
(*                                                                         *)
(* A write that is accepted is based on the latest revision, so its client *)
(* had been told of that one when the request was sent, and nothing was    *)
(* accepted since.  What was sent later than the edit in it cannot be in   *)
(* the log then (CurrentIsLater).  For a resend this needs the base that   *)
(* was kept: it is older than anything the edit itself made (LogIsTyped),  *)
(* so an edit that was served after its client gave it up does not go      *)
(* through again.                                                          *)
(***************************************************************************)
EXTENDS TitleWrite, FiniteSetTheorems, FunctionTheorems, TLAPS

\* A task of client c is what was typed, planned on a revision told by then, or a resend.
IsTask(c, x) ==
    \/ x = Resend
    \/ x.kind = "fresh" /\ x.edit \in EditsOf(c) /\ x.base <= typed[x.edit].seen

\* Queues hold edits of their clients, in the order they were typed.
QueueIsTyped == \A c \in Clients : \A i \in DOMAIN queue[c] : IsTask(c, queue[c][i])
QueueInOrder ==
    \A c \in Clients : \A i, j \in DOMAIN queue[c] :
        i < j /\ queue[c][i].kind = "fresh" /\ queue[c][j].kind = "fresh"
            => queue[c][i].edit < queue[c][j].edit

\* What is kept is an edit of its client, with a base told when it was typed.
KeptIsTyped ==
    \A c \in Clients :
        \/ pending[c] = NoWrite
        \/ /\ pending[c].edit \in EditsOf(c)
           /\ pending[c].base <= typed[pending[c].edit].seen

\* A request for a title is about an edit of its client, and finds a row before it is checked;
\* one that is sent again is based on a revision told when the edit was typed.
RequestsAreTyped ==
    \A r \in requests :
        IF r.field = "create"
          THEN /\ r.edit = 0 /\ r.pc \in {"sent", "answered"} /\ r.answer.status \in {"none", "ok"}
               /\ r.pc = "answered" => row.rev > 0
               /\ r.live => r.by \in unsent
          ELSE /\ r.edit \in EditsOf(r.by)
               /\ r.again => r.base <= typed[r.edit].seen
               /\ r.pc \in {"checked", "beaten"} \/ r.answer.status = "stale" => row.rev > 0

\* A client waits for one request a field, that of the head of its queue; one it has given up
\* gets no further than the server's write.
OneAtWork ==
    \A r \in requests :
        /\ r.live \/ r.pc \in {"sent", "checked"}
        /\ r.live => /\ r.field = "title" => queue[r.by] # <<>>
                     /\ r.field = "create" => creating[r.by] # <<>>
                     /\ \A s \in Live(r.by, r.field) : s = r

\* The request for a title that a client waits for is its head, or what it keeps; once it
\* was refused, nothing is kept, and its edit is answered.
LiveIsHead ==
    \A r \in requests : r.live /\ r.field = "title" =>
        /\ IF r.again THEN Head(queue[r.by]) = Resend
           ELSE Head(queue[r.by]).kind = "fresh" /\ Head(queue[r.by]).edit = r.edit
        /\ IF r.pc \in {"reverting", "fetched"}
             THEN r.edit <= answered[r.by] /\ pending[r.by] = NoWrite
             ELSE r.again => r.edit = pending[r.by].edit

\* Whatever a client goes by was told to it, and nothing is told before it is so.
RevisionsAreTold ==
    /\ Len(log) = row.rev
    /\ \A c \in Clients :
          /\ known[c] <= told[c] /\ told[c] <= row.rev /\ list[c].rev <= row.rev
          /\ \A i \in DOMAIN queue[c] : queue[c][i].base <= told[c]
          /\ pending[c].base <= told[c]
    /\ \A r \in requests : r.answer.rev <= row.rev /\ r.base <= told[r.by]
    /\ \A e \in DOMAIN typed :
          /\ typed[e].seen <= told[typed[e].by]
          /\ \A f \in DOMAIN typed :
                e < f /\ typed[e].by = typed[f].by => typed[e].seen <= typed[f].seen

\* An accepted title is an edit of its client that was typed before; one sent again replaced
\* a revision that had been told by then.
LogIsTyped ==
    \A i \in DOMAIN log :
        \/ log[i].edit = 0 /\ i = 1
        \/ /\ log[i].edit \in EditsOf(log[i].by)
           /\ typed[log[i].edit].seen < i
           /\ log[i].again => i <= typed[log[i].edit].seen + 1

\* Edit e of c is in a request, or was accepted.
IsSent(c, e) ==
    \/ \E r \in requests : r.by = c /\ r.field = "title" /\ r.edit = e
    \/ \E i \in DOMAIN log : log[i].by = c /\ log[i].edit = e

\* Edit e of c is being sent, for the first time.
AtWork(c, e) == \E r \in Live(c, "title") : ~r.again /\ r.edit = e

\* What waits is later than what is kept, and than what was sent, but for the head at work.
QueueIsLater ==
    \A c \in Clients : \A i \in DOMAIN queue[c] : queue[c][i].kind = "fresh" =>
        /\ pending[c].edit < queue[c][i].edit
        /\ \A e \in EditsOf(c) : IsSent(c, e) =>
              e < queue[c][i].edit \/ (i = 1 /\ AtWork(c, e))

\* Nothing later was sent than what is kept, but for the edit at work.
KeptIsLatest ==
    \A c \in Clients : pending[c] # NoWrite =>
        \A e \in EditsOf(c) : IsSent(c, e) => e <= pending[c].edit \/ AtWork(c, e)

\* A request on the latest revision has an edit later than any its client has in the log.
CurrentIsLater ==
    \A r \in requests : r.field = "title" /\ r.base = row.rev =>
        \A i \in DOMAIN log : log[i].by = r.by => log[i].edit < r.edit

\* Before there is a row, the creation waits to be sent, or is kept.
CreationIsKept ==
    screen[Creator] # NoPage /\ row.rev = 0 =>
        Creator \in unsent \/ \E i \in DOMAIN creating[Creator] : creating[Creator][i] = "fresh"

IInv ==
    /\ TypeOK
    /\ QueueIsTyped /\ QueueInOrder /\ KeptIsTyped /\ RequestsAreTyped /\ OneAtWork /\ LiveIsHead
    /\ RevisionsAreTold /\ LogIsTyped /\ QueueIsLater /\ KeptIsLatest /\ CurrentIsLater
    /\ TypedOrder /\ CreationIsKept /\ NewestIsKept

-----------------------------------------------------------------------------
(* Lemmas about queues and what is typed. *)

\* A queue without its head.
LEMMA QueueTail ==
    ASSUME NEW q \in Seq(Task), q # <<>>
    PROVE  /\ DOMAIN q = 1..Len(q) /\ Len(q) \in Nat \ {0} /\ 1 \in DOMAIN q
           /\ Head(q) = q[1] /\ Head(q) \in Task
           /\ Tail(q) \in Seq(Task)
           /\ DOMAIN Tail(q) = 1..(Len(q) - 1)
           /\ \A i \in DOMAIN Tail(q) : i + 1 \in DOMAIN q /\ Tail(q)[i] = q[i + 1]
OBVIOUS

\* A queue with one more task.
LEMMA QueueAppend ==
    ASSUME NEW q \in Seq(Task), NEW x \in Task
    PROVE  /\ Append(q, x) \in Seq(Task)
           /\ Append(q, x) # <<>>
           /\ q # <<>> => Head(Append(q, x)) = Head(q)
           /\ DOMAIN Append(q, x) = 1..(Len(q) + 1) /\ DOMAIN q = 1..Len(q) /\ Len(q) \in Nat
           /\ \A i \in DOMAIN q : Append(q, x)[i] = q[i]
           /\ Append(q, x)[Len(q) + 1] = x
<1>1. /\ Append(q, x) \in Seq(Task) /\ Len(Append(q, x)) = Len(q) + 1
      /\ DOMAIN Append(q, x) = 1..(Len(q) + 1) /\ DOMAIN q = 1..Len(q) /\ Len(q) \in Nat
      /\ \A i \in DOMAIN q : Append(q, x)[i] = q[i]
      /\ Append(q, x)[Len(q) + 1] = x
  OBVIOUS
<1>2. Append(q, x) # <<>> BY <1>1
<1>3. q # <<>> => Head(Append(q, x)) = Append(q, x)[1] /\ Head(q) = q[1] /\ 1 \in DOMAIN q
  BY <1>1, <1>2
<1>. QED BY <1>1, <1>2, <1>3

\* The elements of a sequence.
LEMMA SeqElements ==
    ASSUME NEW S, NEW s \in Seq(S)
    PROVE  DOMAIN s = 1..Len(s) /\ Len(s) \in Nat /\ \A i \in DOMAIN s : s[i] \in S
OBVIOUS

Typings == [by : Clients, title : Titles, seen : Revisions]

\* What has been typed, taken apart.
LEMMA TypedIsTyped ==
    ASSUME TypeOK
    PROVE  /\ typed \in Seq(Typings)
           /\ DOMAIN typed = 1..Len(typed) /\ Len(typed) \in Nat
           /\ \A e \in DOMAIN typed : /\ typed[e].by \in Clients /\ typed[e].title \in Titles
                                      /\ typed[e].seen \in Nat
<1>1. typed \in Seq(Typings) BY DEF TypeOK, Typings
<1>2. \A e \in DOMAIN typed : typed[e] \in Typings BY <1>1, SeqElements
<1>3. Revisions \subseteq Nat BY TitleBounds DEF Revisions
<1>4. \A e \in DOMAIN typed : /\ typed[e].by \in Clients /\ typed[e].title \in Titles
                              /\ typed[e].seen \in Nat
  BY <1>2, <1>3 DEF Typings
<1>5. DOMAIN typed = 1..Len(typed) /\ Len(typed) \in Nat BY <1>1, SeqElements
<1>. QED BY <1>1, <1>4, <1>5

\* Edits are numbers, and those made stay as they were; a new one is told what is told now.
LEMMA TypedStays ==
    ASSUME TypeOK, [Next]_vars
    PROVE  /\ DOMAIN typed \subseteq DOMAIN typed'
           /\ \A e \in DOMAIN typed : typed'[e] = typed[e]
           /\ \A c : EditsOf(c) \subseteq EditsOf(c)'
           /\ \A e \in DOMAIN typed' \ DOMAIN typed :
                 /\ e = Len(typed) + 1 /\ typed'[e].by \in Clients
                 /\ typed'[e].seen = told[typed'[e].by]
                 /\ UNCHANGED <<row, log, told, known, requests, pending, list, answered>>
<1>. USE DEF server, bounds, page, creation
<1>1. /\ typed \in Seq(Typings) /\ DOMAIN typed = 1..Len(typed) /\ Len(typed) \in Nat
  BY TypedIsTyped
<1>2. ASSUME NEW c \in Clients, NEW t \in Titles, UserTypes(c, t)
      PROVE  \E x : /\ typed' = Append(typed, x) /\ x.by = c /\ x.seen = told[c]
                    /\ UNCHANGED <<row, log, told, known, requests, pending, list, answered>>
  <2>. DEFINE x == [by |-> c, title |-> t, seen |-> told[c]]
  <2>1. typed' = Append(typed, x) /\ x.by = c /\ x.seen = told[c] BY <1>2 DEF UserTypes
  <2>. QED BY <1>2, <2>1 DEF UserTypes
<1>3. ASSUME NEW c \in Clients, ClientStep(c), ~\E t \in Titles : UserTypes(c, t)
      PROVE  typed' = typed
  BY <1>3 DEF ClientStep, UserCreates, SendsCreation, SendsEdit, Resends, ResendFindsNothing,
              ListReads, ListApplies, CacheApplies
<1>4. ASSUME NEW r \in requests, ServerStep(r) \/ AnswerStep(r)
      PROVE  typed' = typed
  BY <1>4 DEF ServerStep, ServerCreates, ServerReads, ServerWrites, ServerIsBeaten, ServerRereads,
              ServerRefuses, AnswerStep, GetsCreated, GetsAnswer, GetsRefusal, RevertReads,
              RevertApplies, Fails
<1>5. CASE typed' = typed BY <1>5 DEF EditsOf
<1>6. ASSUME NEW c \in Clients, NEW x, typed' = Append(typed, x), x.by = c, x.seen = told[c]
      PROVE  /\ DOMAIN typed \subseteq DOMAIN typed'
             /\ \A e \in DOMAIN typed : typed'[e] = typed[e]
             /\ \A e \in DOMAIN typed' \ DOMAIN typed :
                   e = Len(typed) + 1 /\ typed'[e].by = c /\ typed'[e].seen = told[c]
  <2>1. /\ DOMAIN typed' = 1..(Len(typed) + 1) /\ typed'[Len(typed) + 1] = x
        /\ \A e \in 1..Len(typed) : typed'[e] = typed[e]
    BY <1>1, <1>6
  <2>. QED BY <1>1, <1>6, <2>1
<1>7. ASSUME NEW c \in Clients, NEW t \in Titles, UserTypes(c, t)
      PROVE  /\ DOMAIN typed \subseteq DOMAIN typed'
             /\ \A e \in DOMAIN typed : typed'[e] = typed[e]
             /\ \A e \in DOMAIN typed' \ DOMAIN typed :
                   e = Len(typed) + 1 /\ typed'[e].by = c /\ typed'[e].seen = told[c]
             /\ UNCHANGED <<row, log, told, known, requests, pending, list, answered>>
  BY <1>2, <1>6, <1>7
<1>8. CASE UNCHANGED vars BY <1>5, <1>8 DEF vars
<1>. QED BY <1>3, <1>4, <1>5, <1>7, <1>8 DEF Next, ClientStep, EditsOf

-----------------------------------------------------------------------------
(* Type correctness. *)

\* The title of an edit of a client.
LEMMA TitleIsName ==
    ASSUME TypeOK, NEW e, e = 0 \/ \E c : e \in EditsOf(c)
    PROVE  TitleOf(e) \in Names
BY TypedIsTyped DEF TitleOf, Names, EditsOf

\* Requests, taken apart.
LEMMA RequestParts ==
    ASSUME TypeOK, NEW r \in requests
    PROVE  /\ r \in Request /\ r.by \in Clients /\ r.edit \in Nat /\ r.base \in Nat
           /\ r.base \in Revisions /\ r.edit \in Edits
           /\ r.again \in BOOLEAN /\ r.live \in BOOLEAN /\ r.field \in {"create", "title"}
           /\ r.answer.rev \in Revisions /\ r.answer.title \in Names
<1>1. Revisions \subseteq Nat /\ Edits \subseteq Nat BY TitleBounds DEF Revisions, Edits
<1>2. r \in Request BY DEF TypeOK
<1>. QED BY <1>1, <1>2 DEF Request

\* The head of a queue, its task and what comes after it.
LEMMA HeadIsTyped ==
    ASSUME TypeOK, QueueIsTyped, NEW c \in Clients, queue[c] # <<>>
    PROVE  /\ queue[c] \in Seq(Task) /\ Tail(queue[c]) \in Seq(Task)
           /\ Head(queue[c]) = queue[c][1] /\ 1 \in DOMAIN queue[c]
           /\ Head(queue[c]).edit \in Edits /\ Head(queue[c]).base \in Revisions
           /\ Head(queue[c]).kind = "resend" <=> Head(queue[c]) = Resend
           /\ Head(queue[c]).kind = "fresh" <=> Head(queue[c]) # Resend
           /\ Head(queue[c]).kind = "fresh" =>
                 /\ Head(queue[c]).edit \in EditsOf(c)
                 /\ Head(queue[c]).base <= typed[Head(queue[c]).edit].seen
<1>1. queue[c] \in Seq(Task) BY DEF TypeOK
<1>2. /\ Head(queue[c]) = queue[c][1] /\ 1 \in DOMAIN queue[c] /\ Head(queue[c]) \in Task
      /\ Tail(queue[c]) \in Seq(Task)
  BY <1>1, QueueTail
<1>3. IsTask(c, queue[c][1]) BY <1>2 DEF QueueIsTyped
<1>4. Resend.kind = "resend" BY DEF Resend
<1>. QED BY <1>1, <1>2, <1>3, <1>4 DEF IsTask, Task

\* Before a write there is room for it: the log holds each edit once at most.
LEMMA RoomToWrite ==
    ASSUME TypeOK, RequestsAreTyped, RevisionsAreTold, LogIsTyped, TypedOrder, CurrentIsLater,
           NEW r \in requests, ServerWrites(r)
    PROVE  row.rev <= MaxEdits
<1>. DEFINE n == Len(log)
            f == [i \in 1..(n + 1) |-> IF i = n + 1 THEN r.edit ELSE log[i].edit]
<1>1. /\ n \in Nat /\ DOMAIN log = 1..n /\ n = row.rev
      /\ \A i \in 1..n : log[i].edit \in 0..MaxEdits
  <2>1. log \in Seq([by : Clients, edit : Edits, again : BOOLEAN]) BY DEF TypeOK
  <2>2. /\ DOMAIN log = 1..n /\ n \in Nat
        /\ \A i \in DOMAIN log : log[i] \in [by : Clients, edit : Edits, again : BOOLEAN]
    BY <2>1, SeqElements
  <2>. QED BY <2>2 DEF RevisionsAreTold, Edits
<1>2. /\ r.edit \in 0..MaxEdits /\ r.edit \in EditsOf(r.by)
      /\ r.field = "title" /\ r.base = row.rev
  BY RequestParts DEF ServerWrites, MayWrite, RequestsAreTyped, Edits
<1>3. \A i \in 1..n : log[i].edit # r.edit
  <2>. SUFFICES ASSUME NEW i \in 1..n, log[i].edit = r.edit PROVE FALSE OBVIOUS
  <2>1. r.edit # 0 BY <1>2, TypedIsTyped DEF EditsOf
  <2>2. log[i].by = r.by BY <1>1, <1>2, <2>1 DEF LogIsTyped, EditsOf
  <2>3. log[i].edit < r.edit BY <1>1, <1>2, <2>2 DEF CurrentIsLater
  <2>. QED BY <1>2, <2>3
<1>4. \A i, j \in 1..n : i < j => log[i].edit # log[j].edit
  <2>. SUFFICES ASSUME NEW i \in 1..n, NEW j \in 1..n, i < j, log[i].edit = log[j].edit
                PROVE  FALSE
    OBVIOUS
  <2>1. log[j].edit # 0 /\ log[j].edit \in EditsOf(log[j].by)
    BY <1>1, TypedIsTyped DEF LogIsTyped, EditsOf
  <2>2. log[i].by = log[j].by BY <1>1, <2>1 DEF LogIsTyped, EditsOf
  <2>3. log[i].edit < log[j].edit BY <1>1, <2>2 DEF TypedOrder
  <2>. QED BY <1>1, <2>3
<1>5. f \in Injection(1..(n + 1), 0..MaxEdits)
  <2>1. f \in [1..(n + 1) -> 0..MaxEdits] BY <1>1, <1>2
  <2>2. ASSUME NEW i \in 1..(n + 1), NEW j \in 1..(n + 1), f[i] = f[j] PROVE i = j
    <3>1. CASE i = n + 1 \/ j = n + 1 BY <1>1, <1>3, <2>2, <3>1
    <3>2. CASE i # n + 1 /\ j # n + 1
      <4>. HIDE DEF n
      <4>1. i \in 1..n /\ j \in 1..n BY <1>1, <3>2
      <4>2. f[i] = log[i].edit /\ f[j] = log[j].edit BY <3>2
      <4>3. log[i].edit = log[j].edit BY <2>2, <4>2
      <4>4. ~(i < j) /\ ~(j < i) BY <1>4, <4>1, <4>3
      <4>. QED BY <1>1, <4>1, <4>4
    <3>. QED BY <3>1, <3>2
  <2>. QED BY <2>1, <2>2, Fun_IsInj
<1>6. Cardinality(1..(n + 1)) = n + 1 /\ Cardinality(0..MaxEdits) = MaxEdits + 1
      /\ IsFiniteSet(0..MaxEdits)
  <2>1. 1 \in Int /\ n + 1 \in Int /\ 0 \in Int /\ MaxEdits \in Int BY <1>1, TitleBounds
  <2>2. Cardinality(1..(n + 1)) = (n + 1) - 1 + 1
    BY <1>1, <2>1, FS_Interval
  <2>3. IsFiniteSet(0..MaxEdits) /\ Cardinality(0..MaxEdits) = MaxEdits - 0 + 1
    BY <2>1, TitleBounds, FS_Interval
  <2>. QED BY <1>1, <2>1, <2>2, <2>3
<1>. HIDE DEF f
<1>7. Cardinality(1..(n + 1)) <= Cardinality(0..MaxEdits) BY <1>5, <1>6, FS_Injection
<1>. QED BY <1>1, <1>6, <1>7, TitleBounds

\* A call, a request the server or a client has taken further, and one nobody waits for.
LEMMA CallIsRequest ==
    ASSUME NEW c \in Clients, NEW f \in {"create", "title"}, NEW e \in Edits, NEW b \in Revisions,
           NEW again \in BOOLEAN
    PROVE  Call(c, f, e, b, again) \in Request
<1>1. NoAnswer \in [status : {"none", "ok", "stale", "not-found", "forbidden"},
                    rev : Revisions, title : Names]
  BY TitleBounds DEF NoAnswer, Revisions, Names
<1>. QED BY <1>1 DEF Call, Request

LEMMA AnswerIsRequest ==
    ASSUME TypeOK, NEW r \in requests, NEW status \in {"ok", "stale", "not-found", "forbidden"},
           NEW v \in Revisions, NEW t \in Names
    PROVE  /\ [r EXCEPT !.pc = "answered",
                        !.answer = [status |-> status, rev |-> v, title |-> t]] \in Request
           /\ [r EXCEPT !.pc = "fetched", !.answer.rev = v, !.answer.title = t] \in Request
BY RequestParts DEF Request

LEMMA MovedIsRequest ==
    ASSUME TypeOK, NEW r \in requests
    PROVE  /\ \A p \in {"sent", "checked", "beaten", "answered", "reverting", "fetched"} :
                 [r EXCEPT !.pc = p] \in Request
           /\ [r EXCEPT !.live = FALSE] \in Request
BY RequestParts DEF Request

\* Types are kept by the server's steps.
LEMMA ServerTypes ==
    ASSUME TypeOK, RequestsAreTyped, RevisionsAreTold, LogIsTyped, TypedOrder, CurrentIsLater,
           NEW r \in requests, ServerStep(r)
    PROVE  TypeOK'
<1>. USE DEF server, bounds, page, creation
<1>0. /\ row.rev \in Revisions /\ row.title \in Names /\ 1 \in Revisions
      /\ Untitled \in Names /\ 0 \in Edits
  BY TitleBounds DEF TypeOK, Row, Revisions, Names, Edits
<1>1. ASSUME NEW next \in Request, Advance(r, next) PROVE requests' \subseteq Request
  BY <1>1 DEF Advance, TypeOK
<1>2. \A s \in {"ok", "stale", "not-found", "forbidden"} : Answer(r, s) \in Request
  BY <1>0, AnswerIsRequest DEF Answer
<1>3. /\ r.by \in Clients /\ r.edit \in Edits /\ r.again \in BOOLEAN
  BY RequestParts
<1>4. \A p \in {"checked", "beaten"} : [r EXCEPT !.pc = p] \in Request BY MovedIsRequest
<1>5. CASE ServerCreates(r)
  <2>. DEFINE made == IF row.rev = 0 THEN [rev |-> 1, title |-> Untitled] ELSE row
              next == [r EXCEPT !.pc = "answered",
                                !.answer = [status |-> "ok", rev |-> made.rev,
                                            title |-> made.title]]
  <2>1. made \in Row /\ made.rev \in Revisions /\ made.title \in Names
    BY <1>0 DEF TypeOK, Row
  <2>2. row' = made /\ Advance(r, next) BY <1>5 DEF ServerCreates
  <2>3. next \in Request BY <2>1, AnswerIsRequest
  <2>4. requests' \subseteq Request BY <1>1, <2>2, <2>3
  <2>5. log' = log \/ log' = <<[by |-> r.by, edit |-> 0, again |-> r.again]>>
    BY <1>5 DEF ServerCreates
  <2>6. log' \in Seq([by : Clients, edit : Edits, again : BOOLEAN])
    <3>1. [by |-> r.by, edit |-> 0, again |-> r.again]
              \in [by : Clients, edit : Edits, again : BOOLEAN]
      BY <1>0, <1>3
    <3>2. CASE log' = log BY <3>2 DEF TypeOK
    <3>3. CASE log' = <<[by |-> r.by, edit |-> 0, again |-> r.again]>> BY <3>1, <3>3
    <3>. QED BY <2>5, <3>2, <3>3
  <2>. QED BY <1>5, <2>1, <2>2, <2>4, <2>6 DEF ServerCreates, TypeOK
<1>6. CASE ServerReads(r)
  <2>1. requests' \subseteq Request
    <3>. DEFINE next == IF row.rev = 0 THEN Answer(r, "not-found")
                        ELSE IF row.rev # r.base THEN Answer(r, "stale")
                        ELSE IF row.title = TitleOf(r.edit) THEN Answer(r, "ok")
                        ELSE [r EXCEPT !.pc = "checked"]
    <3>1. Advance(r, next) BY <1>6 DEF ServerReads
    <3>2. next \in Request BY <1>2, <1>4
    <3>. QED BY <1>1, <3>1, <3>2
  <2>. QED BY <1>6, <2>1 DEF ServerReads, TypeOK
<1>7. CASE ServerWrites(r)
  <2>1. row.rev <= MaxEdits /\ row.rev + 1 \in Revisions
    BY <1>0, <1>7, RoomToWrite, TitleBounds DEF Revisions
  <2>2. TitleOf(r.edit) \in Names
    BY <1>7, TitleIsName DEF ServerWrites, RequestsAreTyped
  <2>3. /\ row' = [rev |-> row.rev + 1, title |-> TitleOf(r.edit)]
        /\ r.base + 1 \in Revisions
    BY <1>7, <2>1 DEF ServerWrites, MayWrite
  <2>4. row' \in Row BY <2>1, <2>2, <2>3 DEF Row
  <2>5. requests' \subseteq Request
    <3>. DEFINE next == [r EXCEPT !.pc = "answered",
                                  !.answer = [status |-> "ok", rev |-> r.base + 1,
                                              title |-> row'.title]]
    <3>1. Advance(r, next) BY <1>7 DEF ServerWrites
    <3>2. row'.title \in Names BY <2>2, <2>3
    <3>3. next \in Request BY <2>3, <3>2, AnswerIsRequest
    <3>. QED BY <1>1, <3>1, <3>3
  <2>6. log' \in Seq([by : Clients, edit : Edits, again : BOOLEAN])
    BY <1>3, <1>7 DEF ServerWrites, TypeOK
  <2>. QED BY <1>7, <2>4, <2>5, <2>6 DEF ServerWrites, TypeOK
<1>8. CASE ServerIsBeaten(r)
  <2>1. requests' \subseteq Request BY <1>1, <1>4, <1>8 DEF ServerIsBeaten
  <2>. QED BY <1>8, <2>1 DEF ServerIsBeaten, TypeOK
<1>9. CASE ServerRereads(r)
  <2>1. requests' \subseteq Request BY <1>1, <1>2, <1>9 DEF ServerRereads
  <2>. QED BY <1>9, <2>1 DEF ServerRereads, TypeOK
<1>10. CASE ServerRefuses(r)
  <2>1. requests' \subseteq Request BY <1>1, <1>2, <1>10 DEF ServerRefuses
  <2>2. faults' \in 0..MaxFaults BY <1>10, TitleBounds DEF ServerRefuses, TypeOK
  <2>. QED BY <1>10, <2>1, <2>2 DEF ServerRefuses, TypeOK
<1>. QED BY <1>5, <1>6, <1>7, <1>8, <1>9, <1>10 DEF ServerStep

\* What is remembered is a revision.
LEMMA RememberTypes ==
    ASSUME TypeOK, NEW c \in Clients, NEW v \in Revisions, Remember(c, v)
    PROVE  known' \in [Clients -> Revisions] /\ told' \in [Clients -> Revisions]
<1>1. Higher(told[c], v) \in Revisions BY DEF Higher, TypeOK
<1>. QED BY <1>1 DEF Remember, TypeOK

LEMMA HydrateTypes ==
    ASSUME TypeOK, NEW c \in Clients, Hydrates(c)
    PROVE  /\ known' \in [Clients -> Revisions] /\ told' \in [Clients -> Revisions]
           /\ screen' \in [Clients -> Names \union {NoPage}]
<1>1. list[c].rev \in Revisions /\ list[c].title \in Names BY DEF TypeOK, Row
<1>2. CASE list[c].rev = 0 BY <1>2 DEF Hydrates, TypeOK, page
<1>3. CASE list[c].rev # 0
  <2>1. Remember(c, list[c].rev) /\ screen' = [screen EXCEPT ![c] = list[c].title]
    BY <1>3 DEF Hydrates
  <2>2. known' \in [Clients -> Revisions] /\ told' \in [Clients -> Revisions]
    BY <1>1, <2>1, RememberTypes
  <2>. QED BY <1>1, <2>1, <2>2 DEF TypeOK
<1>. QED BY <1>2, <1>3

\* The queue of the creation has what it may have, with one task more or less.
LEMMA CreatingTypes ==
    ASSUME TypeOK, NEW c \in Clients, NEW x \in {"fresh", "resend"}
    PROVE  /\ [creating EXCEPT ![c] = Append(@, x)] \in [Clients -> Seq({"fresh", "resend"})]
           /\ creating[c] # <<>> =>
                 [creating EXCEPT ![c] = Tail(@)] \in [Clients -> Seq({"fresh", "resend"})]
BY DEF TypeOK

\* So does that of the title.
LEMMA QueueTypes ==
    ASSUME TypeOK, NEW c \in Clients, NEW x \in Task
    PROVE  /\ [queue EXCEPT ![c] = Append(@, x)] \in [Clients -> Seq(Task)]
           /\ queue[c] # <<>> => [queue EXCEPT ![c] = Tail(@)] \in [Clients -> Seq(Task)]
<1>1. queue[c] \in Seq(Task) /\ queue \in [Clients -> Seq(Task)] BY DEF TypeOK
<1>2. Append(queue[c], x) \in Seq(Task) BY <1>1
<1>3. queue[c] # <<>> => Tail(queue[c]) \in Seq(Task) BY <1>1
<1>. QED BY <1>1, <1>2, <1>3

\* Types are kept by what people do, by sending, and by lists.
LEMMA ClientTypes ==
    ASSUME TypeOK, QueueIsTyped, NEW c \in Clients, ClientStep(c)
    PROVE  TypeOK'
<1>. USE DEF server, bounds, page, creation
<1>0. /\ 0 \in Edits /\ 0 \in Revisions /\ known[c] \in Revisions /\ told[c] \in Revisions
      /\ Resend \in Task /\ pending[c].edit \in Edits /\ pending[c].base \in Revisions
  BY TitleBounds DEF Edits, Revisions, Resend, Task, TypeOK
<1>1. CASE UserCreates(c)
  <2>1. screen' \in [Clients -> Names \union {NoPage}]
    BY <1>1 DEF UserCreates, TypeOK, Names
  <2>2. creating' \in [Clients -> Seq({"fresh", "resend"})]
    BY <1>1, CreatingTypes DEF UserCreates
  <2>. QED BY <1>1, <2>1, <2>2 DEF UserCreates, TypeOK
<1>2. ASSUME NEW t \in Titles, UserTypes(c, t) PROVE TypeOK'
  <2>1. /\ Len(typed) \in Nat /\ Len(typed') = Len(typed) + 1
        /\ typed' \in Seq([by : Clients, title : Titles, seen : Revisions])
    <3>1. typed \in Seq([by : Clients, title : Titles, seen : Revisions]) BY DEF TypeOK
    <3>2. [by |-> c, title |-> t, seen |-> told[c]]
              \in [by : Clients, title : Titles, seen : Revisions]
      BY <1>0
    <3>. QED BY <1>2, <3>1, <3>2 DEF UserTypes
  <2>2. [kind |-> "fresh", edit |-> Len(typed'), base |-> known[c]] \in Task
    BY <1>0, <1>2, <2>1, TitleBounds DEF UserTypes, Task, Edits
  <2>3. queue' \in [Clients -> Seq(Task)] BY <1>2, <2>2, QueueTypes DEF UserTypes
  <2>4. screen' \in [Clients -> Names \union {NoPage}] BY <1>2 DEF UserTypes, TypeOK, Names
  <2>. QED BY <1>2, <2>1, <2>3, <2>4 DEF UserTypes, TypeOK
<1>3. CASE SendsCreation(c)
  <2>1. Call(c, "create", 0, 0, Head(creating[c]) = "resend") \in Request
    BY <1>0, CallIsRequest
  <2>. QED BY <1>3, <2>1 DEF SendsCreation, TypeOK
<1>4. CASE SendsEdit(c)
  <2>1. Head(queue[c]).edit \in Edits BY <1>4, HeadIsTyped DEF SendsEdit
  <2>2. Call(c, "title", Head(queue[c]).edit, known[c], FALSE) \in Request
    BY <1>0, <2>1, CallIsRequest
  <2>. QED BY <1>4, <2>2 DEF SendsEdit, TypeOK
<1>5. CASE Resends(c)
  <2>1. Call(c, "title", pending[c].edit, ResendBase(c), TRUE) \in Request
    BY <1>0, CallIsRequest DEF ResendBase
  <2>. QED BY <1>5, <2>1 DEF Resends, TypeOK
<1>6. CASE ResendFindsNothing(c)
  <2>1. queue' \in [Clients -> Seq(Task)]
    <3>1. CASE queue' = queue BY <3>1 DEF TypeOK
    <3>2. CASE queue[c] # <<>> /\ queue' = [queue EXCEPT ![c] = Tail(@)]
      BY <1>0, <3>2, QueueTypes
    <3>. QED BY <1>6, <3>1, <3>2 DEF ResendFindsNothing
  <2>2. creating' \in [Clients -> Seq({"fresh", "resend"})]
    <3>1. CASE creating' = creating BY <3>1 DEF TypeOK
    <3>2. CASE creating[c] # <<>> /\ creating' = [creating EXCEPT ![c] = Tail(@)]
      BY <3>2, CreatingTypes
    <3>. QED BY <1>6, <3>1, <3>2 DEF ResendFindsNothing
  <2>. QED BY <1>6, <2>1, <2>2 DEF ResendFindsNothing, TypeOK
<1>7. CASE ListReads(c)
  <2>1. lists' \in 0..MaxLists BY <1>7, TitleBounds DEF ListReads, TypeOK
  <2>. QED BY <1>7, <2>1 DEF ListReads, TypeOK
<1>8. CASE ListApplies(c)
  <2>1. queue' \in [Clients -> Seq(Task)]
    BY <1>0, <1>8, QueueTypes DEF ListApplies, QueueResends, TypeOK
  <2>2. creating' \in [Clients -> Seq({"fresh", "resend"})]
    BY <1>8, CreatingTypes DEF ListApplies, QueueResends, TypeOK
  <2>. QED BY <1>8, <2>1, <2>2, HydrateTypes DEF ListApplies, TypeOK
<1>9. CASE CacheApplies(c) BY <1>9, HydrateTypes DEF CacheApplies, TypeOK
<1>. QED BY <1>1, <1>2, <1>3, <1>4, <1>5, <1>6, <1>7, <1>8, <1>9 DEF ClientStep

\* And by what clients do with answers.
LEMMA AnswerTypes ==
    ASSUME TypeOK, QueueIsTyped, RequestsAreTyped, OneAtWork,
           NEW r \in requests, AnswerStep(r)
    PROVE  TypeOK'
<1>. USE DEF server, bounds, page, creation
<1>0. /\ r.by \in Clients /\ r.edit \in Edits /\ r.field \in {"create", "title"}
      /\ r.answer.rev \in Revisions /\ r.answer.title \in Names
      /\ Resend \in Task /\ NoWrite \in [edit : Edits, base : Revisions]
  BY RequestParts, TitleBounds DEF Resend, Task, NoWrite, Edits, Revisions
<1>1. Discarded(r) \in [Clients -> [edit : Edits, base : Revisions]]
  BY <1>0 DEF Discarded, TypeOK
<1>2. /\ r.live /\ r.field = "title" => queue[r.by] # <<>>
      /\ r.live /\ r.field = "create" => creating[r.by] # <<>>
      /\ ~r.live => r.pc \in {"sent", "checked"}
  BY DEF OneAtWork
<1>3. [answered EXCEPT ![r.by] = Higher(@, r.edit)] \in [Clients -> Edits]
  BY <1>0 DEF TypeOK, Higher
<1>4. r.live /\ r.field = "title" =>
          [queue EXCEPT ![r.by] = Tail(@)] \in [Clients -> Seq(Task)]
  BY <1>0, <1>2, QueueTypes
<1>5. r.live /\ r.field = "create" =>
          [creating EXCEPT ![r.by] = Tail(@)] \in [Clients -> Seq({"fresh", "resend"})]
  BY <1>0, <1>2, CreatingTypes
<1>6. CASE GetsCreated(r)
  <2>1. known' \in [Clients -> Revisions] /\ told' \in [Clients -> Revisions]
    BY <1>0, <1>6, RememberTypes DEF GetsCreated, TypeOK
  <2>. QED BY <1>5, <1>6, <2>1 DEF GetsCreated, TypeOK
<1>7. CASE GetsAnswer(r)
  <2>1. known' \in [Clients -> Revisions] /\ told' \in [Clients -> Revisions]
    BY <1>0, <1>7, RememberTypes DEF GetsAnswer, TypeOK
  <2>2. screen' \in [Clients -> Names \union {NoPage}]
    BY <1>0, <1>7 DEF GetsAnswer, TypeOK
  <2>. QED BY <1>1, <1>3, <1>4, <1>7, <2>1, <2>2 DEF GetsAnswer, TypeOK
<1>8. ASSUME GetsRefusal(r), r.field = "title" PROVE TypeOK'
  <2>1. requests' \subseteq Request BY <1>8, MovedIsRequest DEF GetsRefusal, TypeOK
  <2>2. queue' \in [Clients -> Seq(Task)] BY <1>4, <1>8 DEF GetsRefusal, TypeOK
  <2>. QED BY <1>1, <1>3, <1>8, <2>1, <2>2 DEF GetsRefusal, TypeOK
<1>9. CASE RevertReads(r)
  <2>1. PICK l \in {row, list[r.by]} :
            /\ list' = [list EXCEPT ![r.by] = l]
            /\ requests' = (requests \ {r}) \union
                   {[r EXCEPT !.pc = "fetched", !.answer.rev = l.rev,
                              !.answer.title = l.title]}
    BY <1>9 DEF RevertReads
  <2>2. l \in Row /\ l.rev \in Revisions /\ l.title \in Names
    BY <1>0, <2>1 DEF TypeOK, Row
  <2>3. [r EXCEPT !.pc = "fetched", !.answer.rev = l.rev, !.answer.title = l.title] \in Request
    BY <2>2, AnswerIsRequest
  <2>4. requests' \subseteq Request BY <2>1, <2>3 DEF TypeOK
  <2>5. list' \in [Clients -> Row] BY <2>1, <2>2 DEF TypeOK
  <2>. QED BY <1>9, <2>4, <2>5 DEF RevertReads, TypeOK
<1>10. ASSUME RevertApplies(r), r.field = "title" PROVE TypeOK'
  <2>1. screen' \in [Clients -> Names \union {NoPage}]
    BY <1>0, <1>10 DEF RevertApplies, TypeOK
  <2>2. queue' \in [Clients -> Seq(Task)]
    BY <1>2, <1>4, <1>10 DEF RevertApplies
  <2>. QED BY <1>10, <2>1, <2>2 DEF RevertApplies, TypeOK
<1>11. CASE Fails(r)
  <2>1. requests' \subseteq Request BY <1>11, MovedIsRequest DEF Fails, TypeOK
  <2>2. queue' \in [Clients -> Seq(Task)] BY <1>0, <1>4, <1>11 DEF Fails, TypeOK
  <2>3. creating' \in [Clients -> Seq({"fresh", "resend"})] BY <1>5, <1>11 DEF Fails, TypeOK
  <2>4. r.again \/ r.field = "title" => Kept(r) \in [Clients -> [edit : Edits, base : Revisions]]
    <3>1. CASE r.again BY <3>1 DEF Kept, TypeOK
    <3>2. CASE ~r.again /\ r.field = "title"
      <4>1. Head(queue[r.by]).base \in Revisions
        BY <1>0, <1>2, <1>11, <3>2, HeadIsTyped DEF Fails
      <4>2. pending[r.by].base \in Revisions BY <1>0 DEF TypeOK
      <4>. QED BY <1>0, <3>2, <4>1, <4>2 DEF Kept, TypeOK
    <3>. QED BY <3>1, <3>2
  <2>5. faults' \in 0..MaxFaults BY <1>11, TitleBounds DEF Fails, TypeOK
  <2>6. pending' \in [Clients -> [edit : Edits, base : Revisions]]
    BY <1>0, <1>11, <2>4 DEF Fails, TypeOK
  <2>. QED BY <1>11, <2>1, <2>2, <2>3, <2>5, <2>6 DEF Fails, TypeOK
<1>12. GetsRefusal(r) \/ RevertApplies(r) => r.field = "title"
  BY <1>0 DEF GetsRefusal, RevertApplies, RequestsAreTyped
<1>. QED BY <1>6, <1>7, <1>8, <1>9, <1>10, <1>11, <1>12 DEF AnswerStep

-----------------------------------------------------------------------------
(* What a step does to a queue, a kept entry, the requests and the log. *)

\* A queue loses its head.
Popped(c) == queue[c] # <<>> /\ queue'[c] = Tail(queue[c])

\* It gets the edit just typed.
TypesMore(c) ==
    /\ queue'[c] =
         Append(queue[c], [kind |-> "fresh", edit |-> Len(typed) + 1, base |-> known[c]])
    /\ Len(typed) + 1 \in EditsOf(c)'
    /\ UNCHANGED <<requests, pending, log, row, told>>

QueueMove(c) ==
    queue'[c] = queue[c] \/ queue'[c] = Append(queue[c], Resend) \/ Popped(c) \/ TypesMore(c)

LEMMA QueueMoves ==
    ASSUME TypeOK, OneAtWork, RequestsAreTyped, [Next]_vars, NEW c \in Clients
    PROVE  QueueMove(c)
<1>. USE DEF QueueMove, Popped, server, bounds, page, creation
<1>1. ASSUME NEW d \in Clients, ClientStep(d), ~\E t \in Titles : UserTypes(d, t)
      PROVE  QueueMove(c)
  BY <1>1 DEF ClientStep, UserCreates, SendsCreation, SendsEdit, Resends, ResendFindsNothing,
              ListReads, ListApplies, CacheApplies, QueueResends, TypeOK
<1>2. ASSUME NEW d \in Clients, NEW t \in Titles, UserTypes(d, t) PROVE QueueMove(c)
  <2>1. CASE c # d BY <1>2, <2>1 DEF UserTypes
  <2>2. CASE c = d
    <3>. DEFINE x == [by |-> d, title |-> t, seen |-> told[d]]
    <3>1. typed' = Append(typed, x) /\ x.by = d BY <1>2 DEF UserTypes
    <3>2. /\ Len(typed') = Len(typed) + 1 /\ DOMAIN typed' = 1..(Len(typed) + 1)
          /\ typed'[Len(typed) + 1] = x /\ Len(typed) \in Nat
      BY <3>1, TypedIsTyped
    <3>3. Len(typed) + 1 \in EditsOf(c)' BY <2>2, <3>1, <3>2 DEF EditsOf
    <3>4. queue'[c] = Append(queue[c], [kind |-> "fresh", edit |-> Len(typed) + 1,
                                        base |-> known[c]])
      BY <1>2, <2>2, <3>2 DEF UserTypes, TypeOK
    <3>. QED BY <1>2, <3>3, <3>4 DEF UserTypes, TypesMore
  <2>. QED BY <2>1, <2>2
<1>3. ASSUME NEW r \in requests, ServerStep(r) PROVE QueueMove(c)
  BY <1>3 DEF ServerStep, ServerCreates, ServerReads, ServerWrites, ServerIsBeaten, ServerRereads,
              ServerRefuses
<1>4. ASSUME NEW r \in requests, AnswerStep(r) PROVE QueueMove(c)
  <2>1. /\ r.by \in Clients /\ r.field \in {"create", "title"}
        /\ r.live /\ r.field = "title" => queue[r.by] # <<>>
        /\ r.field = "create" => r.pc \in {"sent", "answered"} /\ r.answer.status \in {"none", "ok"}
        /\ ~r.live => r.pc \in {"sent", "checked"}
    BY RequestParts DEF OneAtWork, RequestsAreTyped
  <2>2. \/ queue' = queue
        \/ r.live /\ r.field = "title" /\ queue' = [queue EXCEPT ![r.by] = Tail(@)]
    BY <1>4, <2>1 DEF AnswerStep, GetsCreated, GetsAnswer, GetsRefusal, RevertReads,
                      RevertApplies, Fails
  <2>. QED BY <2>1, <2>2 DEF TypeOK
<1>5. CASE UNCHANGED vars BY <1>5 DEF vars
<1>. QED BY <1>1, <1>2, <1>3, <1>4, <1>5 DEF Next

\* The head of a queue is kept, with the base kept before if there was one.
KeepsHead(c) ==
    /\ Popped(c) /\ Head(queue[c]).kind = "fresh"
    /\ pending'[c] = [edit |-> Head(queue[c]).edit,
                      base |-> IF pending[c] = NoWrite THEN Head(queue[c]).base
                               ELSE pending[c].base]

LEMMA PendingMoves ==
    ASSUME TypeOK, OneAtWork, RequestsAreTyped, LiveIsHead, [Next]_vars, NEW c \in Clients
    PROVE  pending'[c] = pending[c] \/ pending'[c] = NoWrite \/ KeepsHead(c)
<1>. DEFINE Goal == pending'[c] = pending[c] \/ pending'[c] = NoWrite \/ KeepsHead(c)
<1>. USE DEF server, bounds, page, creation
<1>1. ASSUME NEW d \in Clients, ClientStep(d) PROVE Goal
  BY <1>1 DEF ClientStep, UserCreates, UserTypes, SendsCreation, SendsEdit, Resends,
              ResendFindsNothing, ListReads, ListApplies, CacheApplies
<1>2. ASSUME NEW r \in requests, ServerStep(r) PROVE Goal
  BY <1>2 DEF ServerStep, ServerCreates, ServerReads, ServerWrites, ServerIsBeaten, ServerRereads,
              ServerRefuses
<1>3. ASSUME NEW r \in requests, AnswerStep(r), ~Fails(r) PROVE Goal
  <2>1. pending' = pending \/ pending' = Discarded(r)
    BY <1>3 DEF AnswerStep, GetsCreated, GetsAnswer, GetsRefusal, RevertReads, RevertApplies
  <2>. QED BY <2>1, RequestParts DEF Discarded, TypeOK
<1>4. ASSUME NEW r \in requests, Fails(r) PROVE Goal
  <2>1. CASE r.field = "create" \/ r.again BY <1>4, <2>1 DEF Fails, Kept
  <2>2. CASE r.field = "title" /\ ~r.again
    <3>1. /\ r.by \in Clients /\ queue[r.by] # <<>> /\ Head(queue[r.by]).kind = "fresh"
          /\ Head(queue[r.by]).edit = r.edit
      BY <1>4, <2>2, RequestParts DEF Fails, OneAtWork, LiveIsHead
    <3>2. /\ queue' = [queue EXCEPT ![r.by] = Tail(@)]
          /\ pending' = Kept(r)
      BY <1>4, <2>2 DEF Fails
    <3>3. CASE c = r.by BY <2>2, <3>1, <3>2, <3>3 DEF Kept, KeepsHead, Popped, TypeOK
    <3>4. CASE c # r.by BY <2>2, <3>2, <3>4 DEF Kept, TypeOK
    <3>. QED BY <3>3, <3>4
  <2>. QED BY <2>1, <2>2, RequestParts
<1>5. CASE UNCHANGED vars BY <1>5 DEF vars
<1>. QED BY <1>1, <1>2, <1>3, <1>4, <1>5 DEF Next

\* Request q is r, further on.
Follows(q, r) ==
    /\ q.by = r.by /\ q.field = r.field /\ q.edit = r.edit /\ q.base = r.base
    /\ q.again = r.again
    /\ q.live => r.live

\* Request q is sent: a creation, the edit at the head, or what is kept.
Starts(q) ==
    /\ q.by \in Clients /\ q.live /\ q.pc = "sent" /\ q.answer = NoAnswer
    /\ Live(q.by, q.field) = {} /\ requests' = requests \union {q}
    /\ UNCHANGED <<row, log, typed, queue, creating, pending, known, told, screen, list, answered>>
    /\ \/ /\ q.field = "create" /\ q.edit = 0 /\ q.base = 0
          /\ creating[q.by] # <<>> /\ unsent' = unsent \union {q.by}
       \/ /\ q.field = "title" /\ ~q.again /\ queue[q.by] # <<>>
          /\ Head(queue[q.by]).kind = "fresh" /\ q.edit = Head(queue[q.by]).edit
          /\ q.base = known[q.by] /\ UNCHANGED unsent
       \/ /\ q.field = "title" /\ q.again /\ queue[q.by] # <<>>
          /\ Head(queue[q.by]).kind = "resend" /\ pending[q.by] # NoWrite
          /\ q.edit = pending[q.by].edit /\ q.base = pending[q.by].base /\ UNCHANGED unsent

LEMMA SendingStarts ==
    ASSUME NEW c \in Clients
    PROVE  /\ SendsCreation(c) =>
                 Starts(Call(c, "create", 0, 0, Head(creating[c]) = "resend"))
           /\ SendsEdit(c) =>
                 Starts(Call(c, "title", Head(queue[c]).edit, known[c], FALSE))
           /\ Resends(c) =>
                 Starts(Call(c, "title", pending[c].edit, ResendBase(c), TRUE))
BY DEF SendsCreation, SendsEdit, Resends, Starts, Call, ResendBase, server, creation, page, bounds

\* Where a request has come from.
LEMMA RequestMoves ==
    ASSUME TypeOK, [Next]_vars, NEW q \in requests'
    PROVE  (\E r \in requests : Follows(q, r)) \/ Starts(q)
<1>. DEFINE Goal == (\E r \in requests : Follows(q, r)) \/ Starts(q)
<1>1. ASSUME q \in requests PROVE Goal BY <1>1 DEF Follows
<1>2. ASSUME NEW c \in Clients, ClientStep(c) PROVE Goal
  <2>1. CASE SendsCreation(c) BY <1>1, <2>1, SendingStarts DEF SendsCreation
  <2>2. CASE SendsEdit(c) BY <1>1, <2>2, SendingStarts DEF SendsEdit
  <2>3. CASE Resends(c) BY <1>1, <2>3, SendingStarts DEF Resends
  <2>4. CASE requests' = requests BY <1>1, <2>4
  <2>. QED
    BY <1>2, <2>1, <2>2, <2>3, <2>4
       DEF ClientStep, UserCreates, UserTypes, ResendFindsNothing, ListReads, ListApplies,
           CacheApplies
<1>3. ASSUME NEW r \in requests, ServerStep(r) PROVE Goal
  <2>1. \A p, a : /\ Follows([r EXCEPT !.pc = p], r)
                  /\ Follows([r EXCEPT !.pc = p, !.answer = a], r)
    BY RequestParts DEF Follows, Request
  <2>2. \A s : Follows(Answer(r, s), r) BY <2>1 DEF Answer
  <2>3. ASSUME NEW next, Advance(r, next), Follows(next, r) PROVE Goal
    BY <1>1, <2>3 DEF Advance
  <2>. HIDE DEF Goal
  <2>4. CASE ServerCreates(r) BY <2>1, <2>3, <2>4 DEF ServerCreates
  <2>5. CASE ServerReads(r) BY <2>1, <2>2, <2>3, <2>5 DEF ServerReads
  <2>6. CASE ServerWrites(r) BY <2>1, <2>3, <2>6 DEF ServerWrites
  <2>7. CASE ServerIsBeaten(r) BY <2>1, <2>3, <2>7 DEF ServerIsBeaten
  <2>8. CASE ServerRereads(r) BY <2>2, <2>3, <2>8 DEF ServerRereads
  <2>9. CASE ServerRefuses(r) BY <2>2, <2>3, <2>9 DEF ServerRefuses
  <2>. QED BY <1>3, <2>4, <2>5, <2>6, <2>7, <2>8, <2>9 DEF ServerStep
<1>4. ASSUME NEW r \in requests, AnswerStep(r) PROVE Goal
  <2>1. \A p, v, t : /\ Follows([r EXCEPT !.pc = p], r)
                     /\ Follows([r EXCEPT !.pc = p, !.answer.rev = v, !.answer.title = t], r)
    BY RequestParts DEF Follows, Request
  <2>2. Follows([r EXCEPT !.live = FALSE], r) BY RequestParts DEF Follows, Request
  <2>3. ASSUME NEW next, requests' \subseteq (requests \ {r}) \union {next}, Follows(next, r)
        PROVE  Goal
    BY <1>1, <2>3
  <2>. HIDE DEF Goal
  <2>4. CASE GetsCreated(r) BY <2>1, <2>3, <2>4 DEF GetsCreated
  <2>5. CASE GetsAnswer(r) BY <2>1, <2>3, <2>5 DEF GetsAnswer
  <2>6. CASE GetsRefusal(r) BY <2>1, <2>3, <2>6 DEF GetsRefusal
  <2>7. CASE RevertReads(r)
    <3>1. PICK l : requests' = (requests \ {r}) \union
                       {[r EXCEPT !.pc = "fetched", !.answer.rev = l.rev,
                                  !.answer.title = l.title]}
      BY <2>7 DEF RevertReads
    <3>. QED BY <2>1, <2>3, <3>1
  <2>8. CASE RevertApplies(r) BY <2>1, <2>3, <2>8 DEF RevertApplies
  <2>9. CASE Fails(r) BY <2>2, <2>3, <2>9 DEF Fails
  <2>. QED BY <1>4, <2>4, <2>5, <2>6, <2>7, <2>8, <2>9 DEF AnswerStep
<1>5. CASE UNCHANGED vars BY <1>1, <1>5 DEF vars
<1>. QED BY <1>2, <1>3, <1>4, <1>5 DEF Next

\* A page is created, or a title accepted.
Created(r) ==
    /\ r.field = "create" /\ row.rev = 0 /\ row'.rev = 1
    /\ log' = <<[by |-> r.by, edit |-> 0, again |-> r.again]>>
Accepted(r) ==
    /\ r.pc = "checked" /\ r.base = row.rev /\ row'.rev = row.rev + 1
    /\ log' = Append(log, [by |-> r.by, edit |-> r.edit, again |-> r.again])

LEMMA LogMoves ==
    ASSUME [Next]_vars
    PROVE  \/ log' = log /\ row' = row
           \/ \E r \in requests :
                 /\ Created(r) \/ Accepted(r)
                 /\ UNCHANGED <<typed, queue, creating, pending, unsent, known, told, screen,
                                list, answered>>
<1>. USE DEF server, bounds, page, creation
<1>1. ASSUME NEW c \in Clients, ClientStep(c) PROVE log' = log /\ row' = row
  BY <1>1 DEF ClientStep, UserCreates, UserTypes, SendsCreation, SendsEdit, Resends,
              ResendFindsNothing, ListReads, ListApplies, CacheApplies
<1>2. ASSUME NEW r \in requests, AnswerStep(r) PROVE log' = log /\ row' = row
  BY <1>2 DEF AnswerStep, GetsCreated, GetsAnswer, GetsRefusal, RevertReads, RevertApplies, Fails
<1>3. ASSUME NEW r \in requests, ServerStep(r), ~ServerCreates(r), ~ServerWrites(r)
      PROVE  log' = log /\ row' = row
  BY <1>3 DEF ServerStep, ServerReads, ServerIsBeaten, ServerRereads, ServerRefuses
<1>4. ASSUME NEW r \in requests, ServerWrites(r)
      PROVE  /\ Accepted(r)
             /\ UNCHANGED <<typed, queue, creating, pending, unsent, known, told, screen,
                            list, answered>>
  BY <1>4 DEF ServerWrites, Accepted, MayWrite
<1>5. ASSUME NEW r \in requests, ServerCreates(r)
      PROVE  /\ (log' = log /\ row' = row) \/ Created(r)
             /\ UNCHANGED <<typed, queue, creating, pending, unsent, known, told, screen,
                            list, answered>>
  BY <1>5 DEF ServerCreates, Created
<1>6. CASE UNCHANGED vars BY <1>6 DEF vars
<1>. QED BY <1>1, <1>2, <1>3, <1>4, <1>5, <1>6 DEF Next

\* What is sent of a client was sent before, or is being sent now.
LEMMA SentMoves ==
    ASSUME TypeOK, RequestsAreTyped, LogIsTyped, [Next]_vars,
           NEW c \in Clients, NEW e \in EditsOf(c)', IsSent(c, e)'
    PROVE  /\ e \in EditsOf(c)
           /\ \/ IsSent(c, e)
              \/ \E q \in requests' : /\ Starts(q) /\ q.by = c /\ q.edit = e /\ q.field = "title"
<1>1. /\ DOMAIN typed = 1..Len(typed) /\ Len(typed) \in Nat /\ 0 \notin DOMAIN typed
      /\ e \in DOMAIN typed' /\ typed'[e].by = c
  BY TypedIsTyped DEF EditsOf
<1>2. e # 0
  BY <1>1, TypedStays
<1>3. CASE \E q \in requests' : Starts(q) /\ q.by = c /\ q.edit = e /\ q.field = "title"
  BY <1>1, <1>3 DEF Starts, EditsOf
<1>4. CASE \E r \in requests : r.by = c /\ r.field = "title" /\ r.edit = e
  BY <1>4 DEF IsSent, RequestsAreTyped
<1>5. CASE \E i \in DOMAIN log : log[i].by = c /\ log[i].edit = e
  BY <1>2, <1>5 DEF IsSent, LogIsTyped
<1>6. CASE \E q \in requests' : q.by = c /\ q.field = "title" /\ q.edit = e
  BY <1>3, <1>4, <1>6, RequestMoves DEF Follows
<1>7. CASE \E i \in DOMAIN log' : log'[i].by = c /\ log'[i].edit = e
  <2>1. PICK i \in DOMAIN log' : log'[i].by = c /\ log'[i].edit = e BY <1>7
  <2>2. CASE log' = log BY <1>5, <2>1, <2>2
  <2>3. ASSUME NEW r \in requests, Created(r) PROVE FALSE
    BY <1>2, <2>1, <2>3 DEF Created
  <2>4. ASSUME NEW r \in requests, Accepted(r)
        PROVE  i \in DOMAIN log \/ (r.by = c /\ r.edit = e /\ r.field = "title")
    <3>1. r.field = "title" BY <2>4, RequestParts DEF Accepted, RequestsAreTyped
    <3>2. log \in Seq([by : Clients, edit : Edits, again : BOOLEAN]) BY DEF TypeOK
    <3>3. CASE i = Len(log) + 1 BY <2>1, <2>4, <3>1, <3>2, <3>3 DEF Accepted
    <3>. QED BY <2>1, <2>4, <3>2, <3>3 DEF Accepted
  <2>5. ASSUME NEW r \in requests, Accepted(r), i \in DOMAIN log PROVE log'[i] = log[i]
    <3>1. log \in Seq([by : Clients, edit : Edits, again : BOOLEAN]) BY DEF TypeOK
    <3>. QED BY <2>5, <3>1 DEF Accepted
  <2>. QED BY <1>4, <1>5, <2>1, <2>2, <2>3, <2>4, <2>5, LogMoves
<1>. QED BY <1>6, <1>7 DEF IsSent

\* An edit at work stays at work, until its client takes it from the queue: then nothing is
\* kept, or the edit is.
LEMMA AtWorkMoves ==
    ASSUME TypeOK, OneAtWork, RequestsAreTyped, LiveIsHead, [Next]_vars,
           NEW c \in Clients, NEW e, AtWork(c, e)
    PROVE  \/ AtWork(c, e)'
           \/ Popped(c) /\ (pending'[c] = NoWrite \/ pending'[c].edit = e)
<1>. DEFINE Goal == \/ AtWork(c, e)'
                    \/ Popped(c) /\ (pending'[c] = NoWrite \/ pending'[c].edit = e)
<1>0. PICK w \in requests : /\ w.live /\ w.by = c /\ w.field = "title" /\ ~w.again /\ w.edit = e
  BY DEF AtWork, Live
<1>1. queue[c] # <<>> BY <1>0 DEF OneAtWork
<1>. USE DEF server, bounds, page, creation
<1>2. ASSUME w \in requests' PROVE Goal BY <1>0, <1>2 DEF AtWork, Live
<1>3. ASSUME NEW q \in requests', q.live, Follows(q, w) PROVE Goal
  BY <1>0, <1>3 DEF AtWork, Live, Follows
<1>. HIDE DEF Goal
<1>4. ASSUME NEW d \in Clients, ClientStep(d) PROVE Goal
  BY <1>2, <1>4 DEF ClientStep, UserCreates, UserTypes, SendsCreation, SendsEdit, Resends,
              ResendFindsNothing, ListReads, ListApplies, CacheApplies
<1>5. ASSUME NEW r \in requests, ServerStep(r) PROVE Goal
  <2>1. \A p, a : /\ Follows([r EXCEPT !.pc = p], r) /\ [r EXCEPT !.pc = p].live = r.live
                  /\ Follows([r EXCEPT !.pc = p, !.answer = a], r)
                  /\ [r EXCEPT !.pc = p, !.answer = a].live = r.live
    BY RequestParts DEF Follows, Request
  <2>2. \A s : Follows(Answer(r, s), r) /\ Answer(r, s).live = r.live BY <2>1 DEF Answer
  <2>3. ASSUME NEW next, Advance(r, next), Follows(next, r), next.live = r.live PROVE Goal
    BY <1>0, <1>2, <1>3, <2>3 DEF Advance
  <2>4. CASE ServerCreates(r)
    <3>1. PICK a : Advance(r, [r EXCEPT !.pc = "answered", !.answer = a])
      BY <2>4 DEF ServerCreates
    <3>. QED BY <2>1, <2>3, <3>1
  <2>5. CASE ServerReads(r) BY <2>1, <2>2, <2>3, <2>5 DEF ServerReads
  <2>6. CASE ServerWrites(r) BY <2>1, <2>3, <2>6 DEF ServerWrites
  <2>7. CASE ServerIsBeaten(r) BY <2>1, <2>3, <2>7 DEF ServerIsBeaten
  <2>8. CASE ServerRereads(r) BY <2>2, <2>3, <2>8 DEF ServerRereads
  <2>9. CASE ServerRefuses(r) BY <2>2, <2>3, <2>9 DEF ServerRefuses
  <2>. QED BY <1>5, <2>4, <2>5, <2>6, <2>7, <2>8, <2>9 DEF ServerStep
<1>6. ASSUME NEW r \in requests, AnswerStep(r), r # w PROVE w \in requests'
  BY <1>6 DEF AnswerStep, GetsCreated, GetsAnswer, GetsRefusal, RevertReads, RevertApplies, Fails
<1>7. ASSUME AnswerStep(w) PROVE Goal
  <2>0. w.by = c /\ w.live /\ w.field = "title" /\ ~w.again /\ w.edit = e /\ w \in Request
    BY <1>0, RequestParts
  <2>1. /\ Discarded(w)[c] = NoWrite
        /\ Kept(w)[c].edit = e
    BY <2>0 DEF Discarded, Kept, TypeOK
  <2>2. [queue EXCEPT ![c] = Tail(@)][c] = Tail(queue[c]) BY DEF TypeOK
  <2>3. \A p : /\ Follows([w EXCEPT !.pc = p], w) /\ [w EXCEPT !.pc = p].live
    BY <2>0 DEF Follows, Request
  <2>4. ASSUME queue' = [queue EXCEPT ![c] = Tail(@)],
               pending'[c] = NoWrite \/ pending'[c].edit = e
        PROVE  Goal
    BY <1>1, <2>2, <2>4 DEF Goal, Popped
  <2>5. CASE GetsCreated(w) BY <2>0, <2>5 DEF GetsCreated
  <2>6. CASE GetsAnswer(w) BY <2>0, <2>1, <2>4, <2>6 DEF GetsAnswer
  <2>7. CASE GetsRefusal(w)
    <3>1. CASE Waiting(c) BY <2>0, <2>1, <2>4, <2>7, <3>1 DEF GetsRefusal
    <3>2. CASE ~Waiting(c)
      <4>1. [w EXCEPT !.pc = "reverting"] \in requests' BY <2>0, <2>7, <3>2 DEF GetsRefusal
      <4>. QED BY <1>3, <2>3, <4>1
    <3>. QED BY <3>1, <3>2
  <2>8. CASE RevertReads(w)
    <3>1. PICK l : requests' = (requests \ {w}) \union
                       {[w EXCEPT !.pc = "fetched", !.answer.rev = l.rev,
                                  !.answer.title = l.title]}
      BY <2>8 DEF RevertReads
    <3>. DEFINE q == [w EXCEPT !.pc = "fetched", !.answer.rev = l.rev, !.answer.title = l.title]
    <3>2. q.live /\ Follows(q, w) BY <2>0 DEF Follows, Request
    <3>. HIDE DEF q
    <3>3. q \in requests' BY <3>1 DEF q
    <3>. QED BY <1>3, <3>2, <3>3
  <2>9. CASE RevertApplies(w)
    <3>1. pending[c] = NoWrite BY <2>0, <2>9 DEF RevertApplies, LiveIsHead
    <3>. QED BY <2>0, <2>4, <2>9, <3>1 DEF RevertApplies
  <2>10. CASE Fails(w) BY <2>0, <2>1, <2>4, <2>10 DEF Fails
  <2>. QED BY <1>7, <2>5, <2>6, <2>7, <2>8, <2>9, <2>10 DEF AnswerStep
<1>8. CASE UNCHANGED vars BY <1>0, <1>2, <1>8 DEF vars, Goal
<1>. QED BY <1>2, <1>4, <1>5, <1>6, <1>7, <1>8 DEF Next, Goal

\* What a client is told only grows, and so do the revisions.
LEMMA RevisionsGrow ==
    ASSUME TypeOK, [Next]_vars
    PROVE  /\ row.rev \in Nat /\ row'.rev \in Nat /\ row.rev <= row'.rev
           /\ \A c \in Clients : told[c] \in Nat /\ told'[c] \in Nat /\ told[c] <= told'[c]
<1>. USE DEF server, bounds, page, creation
<1>0. Revisions \subseteq Nat BY TitleBounds DEF Revisions
<1>1. row.rev \in Nat BY <1>0 DEF TypeOK, Row
<1>2. row'.rev \in Nat /\ row.rev <= row'.rev
  <2>1. ASSUME NEW r, Created(r) \/ Accepted(r)
        PROVE  (row'.rev = 1 /\ row.rev = 0) \/ row'.rev = row.rev + 1
    BY <2>1 DEF Created, Accepted
  <2>2. row' = row \/ (row'.rev = 1 /\ row.rev = 0) \/ row'.rev = row.rev + 1
    BY <2>1, LogMoves
  <2>. QED BY <1>1, <2>2
<1>3. \A c \in Clients : told[c] \in Nat BY <1>0 DEF TypeOK
<1>4. ASSUME NEW d \in Clients, NEW v \in Nat, told' = [told EXCEPT ![d] = Higher(@, v)]
      PROVE  \A c \in Clients : told'[c] \in Nat /\ told[c] <= told'[c]
  <2>1. \A c \in Clients : told'[c] = IF c = d THEN Higher(told[c], v) ELSE told[c]
    BY <1>4 DEF TypeOK
  <2>. QED BY <1>3, <1>4, <2>1 DEF Higher
<1>5. ASSUME NEW c \in Clients, ClientStep(c), told' # told
      PROVE  \E v \in Nat : told' = [told EXCEPT ![c] = Higher(@, v)]
  <2>1. list[c].rev \in Nat BY <1>0 DEF TypeOK, Row
  <2>2. CASE ListApplies(c) BY <1>5, <2>1, <2>2 DEF ListApplies, Hydrates, Remember
  <2>3. CASE CacheApplies(c) BY <1>5, <2>1, <2>3 DEF CacheApplies, Hydrates, Remember
  <2>. QED
    BY <1>5, <2>2, <2>3 DEF ClientStep, UserCreates, UserTypes, SendsCreation, SendsEdit,
       Resends, ResendFindsNothing, ListReads
<1>6. ASSUME NEW r \in requests, ServerStep(r) PROVE told' = told
  BY <1>6 DEF ServerStep, ServerCreates, ServerReads, ServerWrites, ServerIsBeaten, ServerRereads,
              ServerRefuses
<1>7. ASSUME NEW r \in requests, AnswerStep(r), told' # told
      PROVE  \E v \in Nat : told' = [told EXCEPT ![r.by] = Higher(@, v)]
  <2>1. r.answer.rev \in Nat BY <1>0, RequestParts
  <2>. QED
    BY <1>7, <2>1 DEF AnswerStep, GetsCreated, GetsAnswer, GetsRefusal, RevertReads, RevertApplies,
                      Fails, Remember
<1>8. UNCHANGED vars => told' = told BY DEF vars
<1>9. told' = told => \A c \in Clients : told'[c] \in Nat /\ told[c] <= told'[c] BY <1>3
<1>10. \A c \in Clients : told'[c] \in Nat /\ told[c] <= told'[c]
  BY <1>4, <1>5, <1>6, <1>7, <1>8, <1>9, RequestParts DEF Next
<1>. QED BY <1>1, <1>2, <1>3, <1>10

-----------------------------------------------------------------------------
(* Steps: what waits, and what is kept. *)

\* Where the elements of a queue have come from: they keep their order, or are new.
LEMMA QueueParts ==
    ASSUME TypeOK, OneAtWork, RequestsAreTyped, [Next]_vars, NEW c \in Clients,
           NEW i \in DOMAIN queue'[c]
    PROVE  /\ DOMAIN queue[c] = 1..Len(queue[c]) /\ Len(queue[c]) \in Nat /\ i \in Nat \ {0}
           /\ \/ ~Popped(c) /\ i \in DOMAIN queue[c] /\ queue'[c][i] = queue[c][i]
              \/ Popped(c) /\ i + 1 \in DOMAIN queue[c] /\ queue'[c][i] = queue[c][i + 1]
              \/ ~Popped(c) /\ i = Len(queue[c]) + 1 /\ queue'[c][i] = Resend
              \/ /\ TypesMore(c) /\ i = Len(queue[c]) + 1 /\ ~Popped(c)
                 /\ queue'[c][i] = [kind |-> "fresh", edit |-> Len(typed) + 1,
                                    base |-> known[c]]
<1>1. queue[c] \in Seq(Task) /\ DOMAIN queue[c] = 1..Len(queue[c]) /\ Len(queue[c]) \in Nat
  BY DEF TypeOK
<1>2. QueueMove(c) BY QueueMoves
<1>3. CASE Popped(c)
  <2>1. /\ queue'[c] = Tail(queue[c]) /\ DOMAIN Tail(queue[c]) = 1..(Len(queue[c]) - 1)
        /\ \A j \in DOMAIN Tail(queue[c]) :
              j + 1 \in DOMAIN queue[c] /\ Tail(queue[c])[j] = queue[c][j + 1]
    BY <1>1, <1>3, QueueTail DEF Popped
  <2>. QED BY <1>1, <1>3, <2>1
<1>4. CASE ~Popped(c)
  <2>1. CASE queue'[c] = queue[c] BY <1>1, <1>4, <2>1
  <2>2. ASSUME NEW x, queue'[c] = Append(queue[c], x)
        PROVE  /\ i \in 1..(Len(queue[c]) + 1)
               /\ IF i = Len(queue[c]) + 1 THEN queue'[c][i] = x
                  ELSE i \in DOMAIN queue[c] /\ queue'[c][i] = queue[c][i]
    BY <1>1, <2>2
  <2>3. CASE queue'[c] = Append(queue[c], Resend) BY <1>1, <1>4, <2>2, <2>3
  <2>4. CASE TypesMore(c) BY <1>1, <1>4, <2>2, <2>4 DEF TypesMore
  <2>. QED BY <1>2, <1>4, <2>1, <2>3, <2>4 DEF QueueMove
<1>. QED BY <1>3, <1>4

LEMMA QueueTypedStep ==
    ASSUME TypeOK, QueueIsTyped, OneAtWork, RequestsAreTyped, RevisionsAreTold, [Next]_vars
    PROVE  QueueIsTyped'
<1>. SUFFICES ASSUME NEW c \in Clients, NEW i \in DOMAIN queue'[c], NEW y, y = queue'[c][i]
              PROVE  IsTask(c, y)'
  BY DEF QueueIsTyped, IsTask
<1>1. ASSUME NEW x, IsTask(c, x) PROVE IsTask(c, x)'
  BY <1>1, TypedStays DEF IsTask, EditsOf
<1>2. CASE \E j \in DOMAIN queue[c] : queue'[c][i] = queue[c][j]
  BY <1>1, <1>2 DEF QueueIsTyped
<1>3. CASE queue'[c][i] = Resend BY <1>3 DEF IsTask
<1>4. CASE TypesMore(c) /\ queue'[c][i] = [kind |-> "fresh", edit |-> Len(typed) + 1,
                                           base |-> known[c]]
  <2>1. Len(typed) + 1 \in DOMAIN typed' \ DOMAIN typed /\ Len(typed) + 1 \in EditsOf(c)'
    BY <1>4, TypedIsTyped DEF TypesMore, EditsOf
  <2>2. typed'[Len(typed) + 1].seen = told[c] BY <2>1, TypedStays DEF EditsOf
  <2>3. known[c] <= told[c] BY DEF RevisionsAreTold
  <2>. QED BY <1>4, <2>1, <2>2, <2>3 DEF IsTask
<1>. QED BY <1>2, <1>3, <1>4, QueueParts

\* Fresh edits in a queue are edits of its client.
LEMMA FreshIsEdit ==
    ASSUME TypeOK, QueueIsTyped, NEW c \in Clients, NEW i \in DOMAIN queue[c],
           queue[c][i].kind = "fresh"
    PROVE  /\ queue[c][i].edit \in EditsOf(c) /\ queue[c][i].edit \in 1..Len(typed)
           /\ Len(typed) \in Nat
BY TypedIsTyped DEF QueueIsTyped, IsTask, EditsOf, Resend

LEMMA QueueOrderStep ==
    ASSUME TypeOK, QueueIsTyped, QueueInOrder, OneAtWork, RequestsAreTyped, [Next]_vars
    PROVE  QueueInOrder'
<1>. SUFFICES ASSUME NEW c \in Clients, NEW i \in DOMAIN queue'[c], NEW j \in DOMAIN queue'[c],
                     i < j, queue'[c][i].kind = "fresh", queue'[c][j].kind = "fresh"
              PROVE  queue'[c][i].edit < queue'[c][j].edit
  BY DEF QueueInOrder
<1>1. /\ DOMAIN queue[c] = 1..Len(queue[c]) /\ Len(queue[c]) \in Nat
      /\ i \in Nat \ {0} /\ j \in Nat \ {0}
  BY QueueParts
<1>2. CASE Popped(c)
  <2>1. /\ i + 1 \in DOMAIN queue[c] /\ queue'[c][i] = queue[c][i + 1]
        /\ j + 1 \in DOMAIN queue[c] /\ queue'[c][j] = queue[c][j + 1]
    BY <1>2, QueueParts
  <2>2. i + 1 < j + 1 BY <1>1
  <2>. QED BY <2>1, <2>2 DEF QueueInOrder
<1>3. CASE ~Popped(c)
  <2>1. Resend.kind # "fresh" BY DEF Resend
  <2>2. \A k \in DOMAIN queue'[c] : queue'[c][k].kind = "fresh" =>
            \/ k \in DOMAIN queue[c] /\ queue'[c][k] = queue[c][k]
            \/ k = Len(queue[c]) + 1 /\ queue'[c][k].edit = Len(typed) + 1
    <3>. SUFFICES ASSUME NEW k \in DOMAIN queue'[c], queue'[c][k].kind = "fresh"
                  PROVE  \/ k \in DOMAIN queue[c] /\ queue'[c][k] = queue[c][k]
                         \/ k = Len(queue[c]) + 1 /\ queue'[c][k].edit = Len(typed) + 1
      OBVIOUS
    <3>1. \/ k \in DOMAIN queue[c] /\ queue'[c][k] = queue[c][k]
          \/ k = Len(queue[c]) + 1 /\ queue'[c][k] = Resend
          \/ /\ k = Len(queue[c]) + 1
             /\ queue'[c][k] = [kind |-> "fresh", edit |-> Len(typed) + 1, base |-> known[c]]
      BY <1>3, QueueParts
    <3>. QED BY <2>1, <3>1
  <2>3. /\ i \in DOMAIN queue[c] /\ queue'[c][i] = queue[c][i]
    BY <1>1, <2>2
  <2>4. CASE j \in DOMAIN queue[c]
    <3>1. queue'[c][j] = queue[c][j] BY <1>1, <2>2, <2>4
    <3>. QED BY <2>3, <2>4, <3>1 DEF QueueInOrder
  <2>5. CASE j \notin DOMAIN queue[c]
    <3>1. queue'[c][j].edit = Len(typed) + 1 BY <2>2, <2>5
    <3>2. queue[c][i].edit \in 1..Len(typed) /\ Len(typed) \in Nat BY <2>3, FreshIsEdit
    <3>. QED BY <2>3, <3>1, <3>2
  <2>. QED BY <2>4, <2>5
<1>. QED BY <1>2, <1>3

\* What is kept, taken apart.
LEMMA PendingParts ==
    ASSUME TypeOK, NEW c \in Clients
    PROVE  pending[c].edit \in Nat /\ pending[c].base \in Nat
BY TitleBounds DEF TypeOK, Edits, Revisions

LEMMA KeptTypedStep ==
    ASSUME TypeOK, QueueIsTyped, KeptIsTyped, OneAtWork, RequestsAreTyped, LiveIsHead,
           RevisionsAreTold, QueueIsLater, [Next]_vars
    PROVE  KeptIsTyped'
<1>. SUFFICES ASSUME NEW c \in Clients, pending'[c] # NoWrite
              PROVE  /\ pending'[c].edit \in EditsOf(c)'
                     /\ pending'[c].base <= typed'[pending'[c].edit].seen
  BY DEF KeptIsTyped
<1>1. ASSUME pending'[c].edit \in EditsOf(c), pending'[c].base <= typed[pending'[c].edit].seen
      PROVE  /\ pending'[c].edit \in EditsOf(c)'
             /\ pending'[c].base <= typed'[pending'[c].edit].seen
  BY <1>1, TypedStays DEF EditsOf
<1>2. CASE pending'[c] = pending[c] BY <1>1, <1>2 DEF KeptIsTyped
<1>3. CASE KeepsHead(c)
  <2>. DEFINE h == Head(queue[c])
  <2>1. /\ queue[c] # <<>> /\ h.kind = "fresh" /\ h = queue[c][1] /\ 1 \in DOMAIN queue[c]
        /\ h.edit \in EditsOf(c) /\ h.base <= typed[h.edit].seen
    BY <1>3, HeadIsTyped DEF KeepsHead, Popped
  <2>2. /\ pending'[c].edit = h.edit
        /\ pending'[c].base = IF pending[c] = NoWrite THEN h.base ELSE pending[c].base
    BY <1>3 DEF KeepsHead
  <2>3. CASE pending[c] = NoWrite BY <1>1, <2>1, <2>2, <2>3
  <2>4. CASE pending[c] # NoWrite
    <3>1. /\ pending[c].edit \in EditsOf(c)
          /\ pending[c].base <= typed[pending[c].edit].seen
      BY <2>4 DEF KeptIsTyped
    <3>2. pending[c].edit < h.edit BY <2>1 DEF QueueIsLater
    <3>3. typed[pending[c].edit].seen <= typed[h.edit].seen
      BY <2>1, <3>1, <3>2 DEF RevisionsAreTold, EditsOf
    <3>4. /\ typed[pending[c].edit].seen \in Nat /\ typed[h.edit].seen \in Nat
          /\ pending[c].base \in Nat
      BY <2>1, <3>1, TypedIsTyped, PendingParts DEF EditsOf
    <3>5. pending[c].base <= typed[h.edit].seen BY <3>1, <3>3, <3>4
    <3>. QED BY <1>1, <2>1, <2>2, <2>4, <3>5
  <2>. QED BY <2>3, <2>4
<1>. QED BY <1>2, <1>3, PendingMoves

-----------------------------------------------------------------------------
(* What a step does to the requests and what they go by, step by step. *)

\* No request starts, moves or ends, and a queue at work keeps its head.
Quiet ==
    /\ UNCHANGED <<requests, row, log, pending, unsent, answered>>
    /\ \A c \in Clients :
          /\ Live(c, "title") # {} /\ queue[c] # <<>> =>
                queue'[c] # <<>> /\ Head(queue'[c]) = Head(queue[c])
          /\ Live(c, "create") # {} /\ creating[c] # <<>> => creating'[c] # <<>>

LEMMA ClientMoves ==
    ASSUME TypeOK, NEW c \in Clients, ClientStep(c)
    PROVE  Quiet \/ \E q \in requests' : Starts(q)
<1>. USE DEF server, bounds, page, creation
<1>1. ASSUME NEW x \in Task, queue' = [queue EXCEPT ![c] = Append(@, x)]
      PROVE  \A d \in Clients : queue[d] # <<>> =>
                queue'[d] # <<>> /\ Head(queue'[d]) = Head(queue[d])
  <2>1. queue[c] \in Seq(Task) BY DEF TypeOK
  <2>2. queue[c] # <<>> => /\ Append(queue[c], x) # <<>>
                           /\ Head(Append(queue[c], x)) = Head(queue[c])
    BY <2>1, QueueAppend
  <2>. QED BY <1>1, <2>2 DEF TypeOK
<1>2. ASSUME NEW x \in {"fresh", "resend"}, creating' = [creating EXCEPT ![c] = Append(@, x)]
      PROVE  \A d \in Clients : creating[d] # <<>> => creating'[d] # <<>>
  <2>1. creating[c] \in Seq({"fresh", "resend"}) BY DEF TypeOK
  <2>2. Append(creating[c], x) # <<>> BY <2>1
  <2>. QED BY <1>2, <2>2 DEF TypeOK
<1>3. CASE UserCreates(c) BY <1>2, <1>3 DEF UserCreates, Quiet
<1>4. ASSUME NEW t \in Titles, UserTypes(c, t) PROVE Quiet
  <2>. DEFINE x == [kind |-> "fresh", edit |-> Len(typed'), base |-> known[c]]
  <2>1. queue' = [queue EXCEPT ![c] = Append(@, x)] BY <1>4 DEF UserTypes
  <2>2. Len(typed') \in Edits
    <3>1. typed' = Append(typed, [by |-> c, title |-> t, seen |-> told[c]])
      BY <1>4 DEF UserTypes
    <3>2. Len(typed') = Len(typed) + 1 /\ Len(typed) \in Nat BY <3>1, TypedIsTyped
    <3>. QED BY <1>4, <3>2, TitleBounds DEF UserTypes, Edits
  <2>3. x \in Task BY <2>2 DEF Task, TypeOK
  <2>. HIDE DEF x
  <2>4. \A d \in Clients : queue[d] # <<>> =>
            queue'[d] # <<>> /\ Head(queue'[d]) = Head(queue[d])
    BY <1>1, <2>1, <2>3
  <2>. QED BY <1>4, <2>4 DEF UserTypes, Quiet
<1>5. CASE SendsCreation(c) BY <1>5, SendingStarts DEF SendsCreation
<1>6. CASE SendsEdit(c) BY <1>6, SendingStarts DEF SendsEdit
<1>7. CASE Resends(c) BY <1>7, SendingStarts DEF Resends
<1>8. CASE ResendFindsNothing(c) BY <1>8 DEF ResendFindsNothing, Quiet, TypeOK
<1>9. CASE ListReads(c) BY <1>9 DEF ListReads, Quiet
<1>10. CASE ListApplies(c)
  <2>1. Resend \in Task BY TitleBounds DEF Resend, Task, Edits, Revisions
  <2>2. \A d \in Clients : queue[d] # <<>> =>
            queue'[d] # <<>> /\ Head(queue'[d]) = Head(queue[d])
    BY <1>1, <1>10, <2>1 DEF ListApplies, QueueResends
  <2>3. \A d \in Clients : creating[d] # <<>> => creating'[d] # <<>>
    BY <1>2, <1>10 DEF ListApplies, QueueResends
  <2>. QED BY <1>10, <2>2, <2>3 DEF ListApplies, Quiet
<1>11. CASE CacheApplies(c) BY <1>11 DEF CacheApplies, Quiet
<1>. QED
  BY <1>3, <1>4, <1>5, <1>6, <1>7, <1>8, <1>9, <1>10, <1>11 DEF ClientStep

\* The server takes request r to q.
Served(r, q) ==
    /\ Follows(q, r) /\ q.live = r.live /\ q # r
    /\ r.pc \notin {"reverting", "fetched"} /\ q.pc \in {"answered", "checked", "beaten"}
    /\ requests' = (requests \ {r}) \union
           (IF q.live \/ q.pc = "checked" THEN {q} ELSE {})
    /\ r.field = "create" => q.pc = "answered" /\ q.answer.status = "ok" /\ row'.rev > 0
    /\ q.pc \in {"checked", "beaten"} \/ q.answer.status = "stale" => row'.rev > 0
    /\ q.answer.rev <= row'.rev
    /\ UNCHANGED <<typed, queue, creating, pending, unsent, known, told, list, answered>>

LEMMA ServerMoves ==
    ASSUME TypeOK, RequestsAreTyped, RevisionsAreTold, NEW r \in requests, ServerStep(r)
    PROVE  \E q : Served(r, q)
<1>. USE DEF server, bounds, page, creation
<1>0. /\ row.rev \in Nat /\ r.base \in Nat /\ r.answer.rev \in Nat /\ r.answer.rev <= row.rev
      /\ r \in Request
      /\ r.field = "create" => r.pc \in {"sent", "answered"} /\ r.answer.status # "stale"
      /\ r.pc \in {"checked", "beaten"} \/ r.answer.status = "stale" => row.rev > 0
  <2>1. Revisions \subseteq Nat BY TitleBounds DEF Revisions
  <2>. QED BY <2>1, RequestParts DEF RequestsAreTyped, RevisionsAreTold, TypeOK, Row
<1>1. \A p : /\ Follows([r EXCEPT !.pc = p], r)
             /\ [r EXCEPT !.pc = p].live = r.live
             /\ [r EXCEPT !.pc = p].pc = p
             /\ [r EXCEPT !.pc = p].answer = r.answer
  BY <1>0 DEF Follows, Request
<1>2. \A s : /\ Follows(Answer(r, s), r) /\ Answer(r, s).live = r.live
             /\ Answer(r, s).pc = "answered" /\ Answer(r, s).answer.rev = row.rev
             /\ Answer(r, s).answer.status = s
  BY <1>0 DEF Answer, Follows, Request
<1>3. CASE ServerCreates(r)
  <2>. DEFINE made == IF row.rev = 0 THEN [rev |-> 1, title |-> Untitled] ELSE row
              q == [r EXCEPT !.pc = "answered",
                             !.answer = [status |-> "ok", rev |-> made.rev,
                                         title |-> made.title]]
  <2>1. row' = made /\ Advance(r, q) /\ r.pc = "sent" BY <1>3 DEF ServerCreates
  <2>2. /\ Follows(q, r) /\ q.live = r.live /\ q.pc = "answered"
        /\ q.answer = [status |-> "ok", rev |-> made.rev, title |-> made.title]
    BY <1>0 DEF Follows, Request
  <2>3. made.rev > 0 /\ made.rev \in Nat BY <1>0
  <2>. HIDE DEF made, q
  <2>4. q.answer.status = "ok" /\ q.answer.rev <= row'.rev BY <2>1, <2>2, <2>3
  <2>5. Served(r, q)
    BY <1>3, <2>1, <2>2, <2>3, <2>4 DEF ServerCreates, Served, Advance
  <2>. QED BY <2>5
<1>4. CASE ServerReads(r)
  <2>. DEFINE q == IF row.rev = 0 THEN Answer(r, "not-found")
                   ELSE IF row.rev # r.base THEN Answer(r, "stale")
                   ELSE IF row.title = TitleOf(r.edit) THEN Answer(r, "ok")
                   ELSE [r EXCEPT !.pc = "checked"]
  <2>1. Advance(r, q) /\ r.pc = "sent" /\ r.field = "title" BY <1>4 DEF ServerReads
  <2>2. /\ Follows(q, r) /\ q.live = r.live /\ q.pc \in {"answered", "checked"}
        /\ q.answer.rev <= row.rev
        /\ q.pc = "checked" \/ q.answer.status = "stale" => row.rev > 0
    BY <1>0, <1>1, <1>2
  <2>. HIDE DEF q
  <2>3. Served(r, q) BY <1>4, <2>1, <2>2 DEF ServerReads, Served, Advance
  <2>. QED BY <2>3
<1>5. CASE ServerWrites(r)
  <2>. DEFINE q == [r EXCEPT !.pc = "answered",
                             !.answer = [status |-> "ok", rev |-> r.base + 1,
                                         title |-> row'.title]]
  <2>1. Advance(r, q) /\ r.pc = "checked" /\ row'.rev = r.base + 1
    BY <1>5 DEF ServerWrites, MayWrite
  <2>2. /\ Follows(q, r) /\ q.live = r.live /\ q.pc = "answered"
        /\ q.answer = [status |-> "ok", rev |-> r.base + 1, title |-> row'.title]
    BY <1>0 DEF Follows, Request
  <2>. HIDE DEF q
  <2>3. q.answer.rev <= row'.rev /\ q.answer.status = "ok" BY <1>0, <2>1, <2>2
  <2>4. r.field # "create" BY <1>0, <2>1
  <2>5. Served(r, q) BY <1>5, <2>1, <2>2, <2>3, <2>4 DEF ServerWrites, Served, Advance
  <2>. QED BY <2>5
<1>6. CASE ServerIsBeaten(r)
  <2>. DEFINE q == [r EXCEPT !.pc = "beaten"]
  <2>1. Advance(r, q) /\ r.pc = "checked" /\ row' = row BY <1>6 DEF ServerIsBeaten
  <2>2. /\ Follows(q, r) /\ q.live = r.live /\ q.pc = "beaten" /\ q.answer = r.answer
    BY <1>1
  <2>. HIDE DEF q
  <2>3. r.field # "create" BY <1>0, <2>1
  <2>4. Served(r, q)
    BY <1>0, <1>6, <2>1, <2>2, <2>3 DEF ServerIsBeaten, Served, Advance
  <2>. QED BY <2>4
<1>7. CASE ServerRereads(r)
  <2>1. Advance(r, Answer(r, "stale")) /\ r.pc = "beaten" /\ row' = row
    BY <1>7 DEF ServerRereads
  <2>2. r.field # "create" BY <1>0, <2>1
  <2>3. Answer(r, "stale").answer.rev <= row.rev /\ row.rev > 0 BY <1>0, <1>2, <2>1
  <2>4. Served(r, Answer(r, "stale"))
    BY <1>2, <1>7, <2>1, <2>2, <2>3 DEF ServerRereads, Served, Advance
  <2>. QED BY <2>4
<1>8. CASE ServerRefuses(r)
  <2>1. Advance(r, Answer(r, "forbidden")) /\ r.pc = "sent" /\ row' = row /\ r.field = "title"
    BY <1>8 DEF ServerRefuses
  <2>2. Answer(r, "forbidden").answer.rev <= row.rev BY <1>0, <1>2
  <2>3. Served(r, Answer(r, "forbidden"))
    BY <1>2, <1>8, <2>1, <2>2 DEF ServerRefuses, Served, Advance
  <2>. QED BY <2>3
<1>. QED BY <1>3, <1>4, <1>5, <1>6, <1>7, <1>8 DEF ServerStep

\* The client of r is done with it, gives it up, or goes on to revert what it refused.
Heard(r) ==
    /\ r.live
    /\ UNCHANGED <<row, log, typed>>
    /\ \A c \in Clients \ {r.by} :
          /\ queue'[c] = queue[c] /\ pending'[c] = pending[c] /\ creating'[c] = creating[c]
          /\ answered'[c] = answered[c]
          /\ c \in unsent => c \in unsent'
    /\ r.field = "create" => UNCHANGED <<queue, pending, answered>>
    /\ r.field = "title" => UNCHANGED <<creating, unsent>>
    /\ \/ requests' = requests \ {r}
       \/ /\ r.pc \in {"sent", "checked"}
          /\ requests' = (requests \ {r}) \union {[r EXCEPT !.live = FALSE]}
       \/ \E q : /\ Follows(q, r) /\ q.live /\ q # r /\ q.pc \in {"reverting", "fetched"}
                 /\ requests' = (requests \ {r}) \union {q}
                 /\ r.field = "title" /\ q.answer.rev <= row.rev
                 /\ q.answer.status = r.answer.status
                 /\ queue' = queue /\ pending'[r.by] = NoWrite /\ r.edit <= answered'[r.by]

LEMMA AnswerMoves ==
    ASSUME TypeOK, RequestsAreTyped, OneAtWork, LiveIsHead, RevisionsAreTold,
           NEW r \in requests, AnswerStep(r)
    PROVE  Heard(r)
<1>. USE DEF server, bounds, page, creation
<1>0. /\ r \in Request /\ r.by \in Clients /\ r.edit \in Nat /\ answered[r.by] \in Nat
      /\ r.field \in {"create", "title"} /\ r.live \in BOOLEAN
      /\ r.answer.rev <= row.rev
      /\ row.rev \in Nat /\ list[r.by].rev <= row.rev
  <2>1. Revisions \subseteq Nat /\ Edits \subseteq Nat BY TitleBounds DEF Revisions, Edits
  <2>. QED BY <2>1, RequestParts DEF TypeOK, Row, RevisionsAreTold
<1>1. /\ r.field = "create" => r.pc \in {"sent", "answered"}
      /\ r.field = "create" => r.answer.status \in {"none", "ok"}
      /\ ~r.live => r.pc \in {"sent", "checked"}
  BY DEF RequestsAreTyped, OneAtWork
<1>2. /\ \A c \in Clients \ {r.by} : Discarded(r)[c] = pending[c]
      /\ r.field = "title" /\ r.pc \notin {"reverting", "fetched"} /\ r.live =>
            Discarded(r)[r.by] = NoWrite
  BY <1>0 DEF Discarded, TypeOK, LiveIsHead
<1>3. \A c \in Clients \ {r.by} :
          /\ [queue EXCEPT ![r.by] = Tail(@)][c] = queue[c]
          /\ [creating EXCEPT ![r.by] = Tail(@)][c] = creating[c]
          /\ [answered EXCEPT ![r.by] = Higher(@, r.edit)][c] = answered[c]
          /\ Kept(r)[c] = pending[c]
  BY <1>0 DEF TypeOK, Kept
<1>4. CASE GetsCreated(r) BY <1>3, <1>4 DEF GetsCreated, Heard
<1>5. CASE GetsAnswer(r) BY <1>2, <1>3, <1>5 DEF GetsAnswer, Heard
<1>6. CASE GetsRefusal(r)
  <2>0. r.field = "title" /\ r.live /\ r.pc = "answered" BY <1>0, <1>1, <1>6 DEF GetsRefusal
  <2>1. CASE Waiting(r.by) BY <1>2, <1>3, <1>6, <2>0, <2>1 DEF GetsRefusal, Heard
  <2>2. CASE ~Waiting(r.by)
    <3>. DEFINE q == [r EXCEPT !.pc = "reverting"]
    <3>1. /\ Follows(q, r) /\ q.live /\ q # r /\ q.pc = "reverting" /\ q.answer = r.answer
      BY <1>0, <2>0 DEF Follows, Request
    <3>2. /\ requests' = (requests \ {r}) \union {q} /\ queue' = queue
          /\ pending' = Discarded(r)
          /\ answered' = [answered EXCEPT ![r.by] = Higher(@, r.edit)]
      BY <1>6, <2>2 DEF GetsRefusal
    <3>3. r.edit <= answered'[r.by] BY <1>0, <3>2 DEF Higher, TypeOK
    <3>. HIDE DEF q
    <3>4. UNCHANGED <<row, log, typed, creating, unsent>> BY <1>6 DEF GetsRefusal
    <3>5. \A c \in Clients \ {r.by} : pending'[c] = pending[c] /\ answered'[c] = answered[c]
      BY <1>2, <1>3, <3>2
    <3>6. pending'[r.by] = NoWrite BY <1>2, <2>0, <3>2
    <3>7. q.answer.rev <= row.rev BY <1>0, <3>1
    <3>. QED BY <2>0, <3>1, <3>2, <3>3, <3>4, <3>5, <3>6, <3>7 DEF Heard
  <2>. QED BY <2>1, <2>2
<1>7. CASE RevertReads(r)
  <2>0. r.field = "title" /\ r.live /\ r.pc = "reverting" BY <1>0, <1>1, <1>7 DEF RevertReads
  <2>1. PICK l \in {row, list[r.by]} :
            requests' = (requests \ {r}) \union
                {[r EXCEPT !.pc = "fetched", !.answer.rev = l.rev, !.answer.title = l.title]}
    BY <1>7 DEF RevertReads
  <2>. DEFINE q == [r EXCEPT !.pc = "fetched", !.answer.rev = l.rev, !.answer.title = l.title]
  <2>2. /\ Follows(q, r) /\ q.live /\ q # r /\ q.pc = "fetched" /\ q.answer.rev = l.rev
        /\ q.answer.status = r.answer.status
    BY <1>0, <2>0 DEF Follows, Request
  <2>. HIDE DEF q
  <2>3. q.answer.rev <= row.rev BY <1>0, <2>1, <2>2
  <2>4. r.edit <= answered[r.by] /\ pending[r.by] = NoWrite BY <2>0 DEF LiveIsHead
  <2>5. UNCHANGED <<row, log, typed, queue, creating, unsent, pending, answered>>
    BY <1>7 DEF RevertReads
  <2>6. requests' = (requests \ {r}) \union {q} BY <2>1 DEF q
  <2>. QED BY <2>0, <2>2, <2>3, <2>4, <2>5, <2>6 DEF Heard
<1>8. CASE RevertApplies(r)
  <2>1. r.field = "title" /\ r.live BY <1>0, <1>1, <1>8 DEF RevertApplies
  <2>. QED BY <1>3, <1>8, <2>1 DEF RevertApplies, Heard
<1>9. CASE Fails(r)
  <2>1. \/ requests' = requests \ {r}
        \/ /\ r.pc \in {"sent", "checked"}
           /\ requests' = (requests \ {r}) \union {[r EXCEPT !.live = FALSE]}
    BY <1>9 DEF Fails
  <2>2. CASE r.field = "create" BY <1>3, <1>9, <2>1, <2>2 DEF Fails, Heard
  <2>3. CASE r.field = "title" BY <1>3, <1>9, <2>1, <2>3 DEF Fails, Heard
  <2>. QED BY <1>0, <2>2, <2>3
<1>. QED BY <1>4, <1>5, <1>6, <1>7, <1>8, <1>9 DEF AnswerStep

-----------------------------------------------------------------------------
(* Steps: the requests. *)

Requests == TypeOK /\ RequestsAreTyped /\ OneAtWork /\ LiveIsHead /\ RevisionsAreTold

\* A step is one of these, or leaves everything as it is.
LEMMA Moves ==
    ASSUME Requests, [Next]_vars
    PROVE  \/ Quiet
           \/ \E q \in requests' : Starts(q)
           \/ \E r \in requests : \E q : Served(r, q)
           \/ \E r \in requests : Heard(r)
<1>1. CASE UNCHANGED vars BY <1>1 DEF vars, Quiet
<1>2. CASE Next BY <1>2, ClientMoves, ServerMoves, AnswerMoves DEF Requests, Next
<1>. QED BY <1>1, <1>2

LEMMA OneAtWorkStep ==
    ASSUME Requests, [Next]_vars
    PROVE  OneAtWork'
<1>. USE DEF Requests
<1>0. \A r \in requests : /\ r.by \in Clients /\ r.live \in BOOLEAN
                          /\ r.field \in {"create", "title"}
  BY RequestParts
<1>1. \A r \in requests :
          /\ r.live \/ r.pc \in {"sent", "checked"}
          /\ r.live => /\ r.field = "title" => queue[r.by] # <<>>
                       /\ r.field = "create" => creating[r.by] # <<>>
                       /\ \A s \in requests :
                             s.live /\ s.by = r.by /\ s.field = r.field => s = r
  BY DEF OneAtWork, Live
<1>. DEFINE
  IsAtWork(r) ==
    /\ r.live \/ r.pc \in {"sent", "checked"}
    /\ r.live => /\ r.field = "title" => queue'[r.by] # <<>>
                 /\ r.field = "create" => creating'[r.by] # <<>>
                 /\ \A s \in requests' : s.live /\ s.by = r.by /\ s.field = r.field => s = r
<1>. SUFFICES ASSUME NEW r \in requests'
     PROVE  IsAtWork(r)
  BY DEF OneAtWork, Live
<1>2. CASE Quiet
  <2>1. requests' = requests BY <1>2 DEF Quiet
  <2>2. r.live => r \in Live(r.by, r.field) BY <2>1 DEF Live
  <2>. QED BY <1>0, <1>1, <1>2, <2>1, <2>2 DEF Quiet
<1>3. ASSUME NEW q \in requests', Starts(q)
      PROVE  IsAtWork(r)
  <2>1. /\ q.live /\ q.pc = "sent" /\ requests' = requests \union {q}
        /\ queue' = queue /\ creating' = creating
        /\ q.field = "title" => queue[q.by] # <<>>
        /\ q.field = "create" => creating[q.by] # <<>>
        /\ \A s \in requests : ~(s.live /\ s.by = q.by /\ s.field = q.field)
    BY <1>3 DEF Starts, Live
  <2>. QED BY <1>1, <2>1
<1>4. ASSUME NEW p \in requests, NEW q, Served(p, q)
      PROVE  IsAtWork(r)
  <2>1. /\ q.by = p.by /\ q.field = p.field /\ q.live = p.live
        /\ requests' = (requests \ {p}) \union
               (IF q.live \/ q.pc = "checked" THEN {q} ELSE {})
        /\ queue' = queue /\ creating' = creating
    BY <1>4 DEF Served, Follows
  <2>. QED BY <1>1, <2>1
<1>5. ASSUME NEW p \in requests, Heard(p)
      PROVE  IsAtWork(r)
  <2>1. \A s \in requests \ {p} : s.live =>
            /\ s.field = "title" => queue'[s.by] # <<>>
            /\ s.field = "create" => creating'[s.by] # <<>>
    <3>. SUFFICES ASSUME NEW s \in requests \ {p}, s.live
                  PROVE  /\ s.field = "title" => queue'[s.by] # <<>>
                         /\ s.field = "create" => creating'[s.by] # <<>>
      OBVIOUS
    <3>1. s.by # p.by \/ s.field # p.field BY <1>1, <1>5 DEF Heard
    <3>. QED BY <1>0, <1>1, <1>5, <3>1 DEF Heard
  <2>2. CASE requests' = requests \ {p} BY <1>1, <2>1, <2>2
  <2>3. CASE /\ p.pc \in {"sent", "checked"}
             /\ requests' = (requests \ {p}) \union {[p EXCEPT !.live = FALSE]}
    <3>. DEFINE q == [p EXCEPT !.live = FALSE]
    <3>1. ~q.live /\ q.pc = p.pc BY RequestParts DEF Request
    <3>2. requests' = (requests \ {p}) \union {q} BY <2>3
    <3>. HIDE DEF q
    <3>. QED BY <1>1, <2>1, <2>3, <3>1, <3>2
  <2>4. ASSUME NEW q, Follows(q, p), q.live, requests' = (requests \ {p}) \union {q},
               p.field = "title", queue' = queue
        PROVE  IsAtWork(r)
    BY <1>1, <1>5, <2>1, <2>4 DEF Follows, Heard
  <2>. QED BY <1>5, <2>2, <2>3, <2>4 DEF Heard
<1>. QED BY <1>2, <1>3, <1>4, <1>5, Moves

LEMMA LiveIsHeadStep ==
    ASSUME Requests, QueueIsTyped, [Next]_vars
    PROVE  LiveIsHead'
<1>. USE DEF Requests
<1>0. \A r \in requests : /\ r.by \in Clients /\ r.live \in BOOLEAN
                          /\ r.field \in {"create", "title"}
  BY RequestParts
<1>1. \A r \in requests : r.live /\ r.field = "title" =>
          /\ queue[r.by] # <<>>
          /\ \A s \in requests : s.live /\ s.by = r.by /\ s.field = "title" => s = r
  BY DEF OneAtWork, Live
<1>. DEFINE
  IsHead(r, Q) == IF r.again THEN Head(Q) = Resend
                  ELSE Head(Q).kind = "fresh" /\ Head(Q).edit = r.edit
  IsKept(r, P, A) == IF r.pc \in {"reverting", "fetched"} THEN r.edit <= A /\ P = NoWrite
                     ELSE r.again => r.edit = P.edit
<1>2. \A r \in requests : r.live /\ r.field = "title" =>
          /\ IsHead(r, queue[r.by]) /\ IsKept(r, pending[r.by], answered[r.by])
  BY DEF LiveIsHead
<1>. SUFFICES ASSUME NEW r \in requests', r.live, r.field = "title"
              PROVE  IsHead(r, queue'[r.by]) /\ IsKept(r, pending'[r.by], answered'[r.by])
  BY DEF LiveIsHead
<1>3. CASE Quiet
  <2>1. requests' = requests /\ pending' = pending /\ answered' = answered BY <1>3 DEF Quiet
  <2>2. r \in Live(r.by, "title") BY <2>1 DEF Live
  <2>3. Head(queue'[r.by]) = Head(queue[r.by]) BY <1>0, <1>1, <1>3, <2>1, <2>2 DEF Quiet
  <2>. QED BY <1>2, <2>1, <2>3
<1>4. ASSUME NEW q \in requests', Starts(q)
      PROVE  IsHead(r, queue'[r.by]) /\ IsKept(r, pending'[r.by], answered'[r.by])
  <2>1. /\ requests' = requests \union {q} /\ q.pc = "sent" /\ q.by \in Clients
        /\ queue' = queue /\ pending' = pending /\ answered' = answered
    BY <1>4 DEF Starts
  <2>2. CASE r \in requests BY <1>2, <2>1, <2>2
  <2>3. CASE r = q /\ ~q.again BY <1>4, <2>1, <2>3 DEF Starts
  <2>4. CASE r = q /\ q.again
    <3>1. /\ Head(queue[q.by]).kind = "resend" /\ queue[q.by] # <<>>
          /\ q.edit = pending[q.by].edit
      BY <1>4, <2>4 DEF Starts
    <3>2. Head(queue[q.by]) = Resend BY <2>1, <3>1, HeadIsTyped
    <3>. QED BY <2>1, <2>4, <3>1, <3>2
  <2>. QED BY <2>1, <2>2, <2>3, <2>4
<1>5. ASSUME NEW p \in requests, NEW q, Served(p, q)
      PROVE  IsHead(r, queue'[r.by]) /\ IsKept(r, pending'[r.by], answered'[r.by])
  <2>1. /\ requests' \subseteq (requests \ {p}) \union {q}
        /\ p.pc \notin {"reverting", "fetched"} /\ q.pc \notin {"reverting", "fetched"}
        /\ q.by = p.by /\ q.field = p.field /\ q.edit = p.edit /\ q.again = p.again
        /\ q.live = p.live
        /\ queue' = queue /\ pending' = pending /\ answered' = answered
    BY <1>5 DEF Served, Follows
  <2>. QED BY <1>2, <2>1
<1>6. ASSUME NEW p \in requests, Heard(p)
      PROVE  IsHead(r, queue'[r.by]) /\ IsKept(r, pending'[r.by], answered'[r.by])
  <2>1. ASSUME r \in requests \ {p}
        PROVE  IsHead(r, queue'[r.by]) /\ IsKept(r, pending'[r.by], answered'[r.by])
    <3>1. r.by # p.by \/ p.field = "create" BY <1>0, <1>1, <1>6, <2>1 DEF Heard
    <3>2. /\ queue'[r.by] = queue[r.by] /\ pending'[r.by] = pending[r.by]
          /\ answered'[r.by] = answered[r.by]
      BY <1>0, <1>6, <2>1, <3>1 DEF Heard
    <3>. QED BY <1>2, <2>1, <3>2
  <2>2. CASE requests' \subseteq (requests \ {p}) \union {[p EXCEPT !.live = FALSE]}
    <3>1. ~[p EXCEPT !.live = FALSE].live BY RequestParts DEF Request
    <3>. QED BY <2>1, <2>2, <3>1
  <2>3. ASSUME NEW q, Follows(q, p), q.live, requests' = (requests \ {p}) \union {q},
               q.pc \in {"reverting", "fetched"}, p.field = "title", queue' = queue,
               pending'[p.by] = NoWrite, p.edit <= answered'[p.by]
        PROVE  IsHead(r, queue'[r.by]) /\ IsKept(r, pending'[r.by], answered'[r.by])
    <3>1. CASE r = q
      <4>1. /\ p.live /\ q.by = p.by /\ q.edit = p.edit /\ q.again = p.again
        BY <2>3 DEF Follows
      <4>. QED BY <1>2, <2>3, <3>1, <4>1
    <3>. QED BY <2>1, <2>3, <3>1
  <2>. QED BY <1>6, <2>2, <2>3 DEF Heard
<1>. QED BY <1>3, <1>4, <1>5, <1>6, Moves

\* What RequestsAreTyped says of a creation, and of a title.
LEMMA RequestsTypedStep ==
    ASSUME Requests, QueueIsTyped, KeptIsTyped, [Next]_vars
    PROVE  RequestsAreTyped'
<1>. USE DEF Requests
<1>0. \A r \in requests : /\ r.by \in Clients /\ r.live \in BOOLEAN /\ r \in Request
                          /\ r.field \in {"create", "title"}
  BY RequestParts
<1>1. ASSUME NEW q \in requests', q.field # "create"
      PROVE  q.edit \in EditsOf(q.by)' /\ (q.again => q.base <= typed'[q.edit].seen)
  <2>1. ASSUME q.edit \in EditsOf(q.by), q.again => q.base <= typed[q.edit].seen
        PROVE  q.edit \in EditsOf(q.by)' /\ (q.again => q.base <= typed'[q.edit].seen)
    BY <2>1, TypedStays DEF EditsOf
  <2>2. ASSUME NEW r \in requests, Follows(q, r)
        PROVE  q.edit \in EditsOf(q.by) /\ (q.again => q.base <= typed[q.edit].seen)
    <3>1. /\ r.edit \in EditsOf(r.by)
          /\ r.again => r.base <= typed[r.edit].seen
      BY <1>1, <2>2 DEF RequestsAreTyped, Follows
    <3>. QED BY <2>2, <3>1 DEF Follows
  <2>3. ASSUME Starts(q)
        PROVE  q.edit \in EditsOf(q.by) /\ (q.again => q.base <= typed[q.edit].seen)
    <3>1. CASE ~q.again /\ queue[q.by] # <<>> /\ Head(queue[q.by]).kind = "fresh"
               /\ q.edit = Head(queue[q.by]).edit
      BY <2>3, <3>1, HeadIsTyped DEF Starts
    <3>2. CASE /\ pending[q.by] # NoWrite /\ q.edit = pending[q.by].edit
               /\ q.base = pending[q.by].base
      BY <2>3, <3>2 DEF KeptIsTyped, Starts
    <3>. QED BY <1>1, <2>3, <3>1, <3>2 DEF Starts
  <2>. QED BY <2>1, <2>2, <2>3, RequestMoves
<1>2. ASSUME NEW q \in requests', q.field # "create",
              q.pc \in {"checked", "beaten"} \/ q.answer.status = "stale"
      PROVE  row'.rev > 0
  <2>0. row.rev \in Nat /\ row'.rev \in Nat /\ row.rev <= row'.rev BY RevisionsGrow
  <2>1. ASSUME NEW r \in requests, r.field # "create", 
               q.pc = r.pc \/ q.pc \notin {"checked", "beaten"}, q.answer.status = r.answer.status
        PROVE  row'.rev > 0
    BY <1>2, <2>0, <2>1 DEF RequestsAreTyped
  <2>2. CASE Quiet BY <1>2, <2>1, <2>2 DEF Quiet
  <2>3. ASSUME NEW s \in requests', Starts(s) PROVE row'.rev > 0
    <3>1. requests' = requests \union {s} /\ s.pc = "sent" /\ s.answer.status = "none"
      BY <2>3 DEF Starts, NoAnswer
    <3>. QED BY <1>2, <2>1, <3>1
  <2>4. ASSUME NEW p \in requests, NEW s, Served(p, s) PROVE row'.rev > 0
    BY <1>2, <2>1, <2>4 DEF Served
  <2>5. ASSUME NEW p \in requests, Heard(p) PROVE row'.rev > 0
    <3>1. CASE requests' = (requests \ {p}) \union {[p EXCEPT !.live = FALSE]}
      <4>. DEFINE s == [p EXCEPT !.live = FALSE]
      <4>1. s.field = p.field /\ s.pc = p.pc /\ s.answer = p.answer BY <1>0 DEF Request
      <4>2. requests' = (requests \ {p}) \union {s} BY <3>1
      <4>. HIDE DEF s
      <4>. QED BY <1>2, <2>1, <4>1, <4>2
    <3>2. ASSUME NEW s, Follows(s, p), requests' = (requests \ {p}) \union {s},
                 s.pc \in {"reverting", "fetched"}, s.answer.status = p.answer.status
          PROVE  row'.rev > 0
      BY <1>2, <2>1, <3>2 DEF Follows
    <3>. QED BY <1>2, <2>1, <2>5, <3>1, <3>2 DEF Heard
  <2>. QED BY <2>2, <2>3, <2>4, <2>5, Moves
<1>3. ASSUME NEW q \in requests', q.field = "create"
      PROVE  /\ q.edit = 0 /\ q.pc \in {"sent", "answered"} /\ q.answer.status \in {"none", "ok"}
             /\ q.pc = "answered" => row'.rev > 0
             /\ q.live => q.by \in unsent'
  <2>. DEFINE Goal(s) ==
         /\ s.edit = 0 /\ s.pc \in {"sent", "answered"} /\ s.answer.status \in {"none", "ok"}
         /\ s.pc = "answered" => row'.rev > 0
         /\ s.live => s.by \in unsent'
  <2>0. \A r \in requests : r.field = "create" =>
          /\ r.edit = 0 /\ r.pc \in {"sent", "answered"} /\ r.answer.status \in {"none", "ok"}
          /\ r.pc = "answered" => row.rev > 0
          /\ r.live => r.by \in unsent
    BY DEF RequestsAreTyped
  <2>1. CASE Quiet BY <1>3, <2>0, <2>1 DEF Quiet
  <2>2. ASSUME NEW s \in requests', Starts(s) PROVE Goal(q)
    <3>1. /\ requests' = requests \union {s} /\ row' = row
          /\ s.pc = "sent" /\ s.answer = NoAnswer
          /\ s.field = "create" => s.edit = 0 /\ unsent' = unsent \union {s.by}
          /\ unsent \subseteq unsent'
      BY <2>2 DEF Starts
    <3>. QED BY <1>3, <2>0, <3>1 DEF NoAnswer
  <2>3. ASSUME NEW p \in requests, NEW s, Served(p, s) PROVE Goal(q)
    <3>1. /\ requests' \subseteq (requests \ {p}) \union {s} /\ unsent' = unsent
          /\ s.field = p.field /\ s.by = p.by /\ s.edit = p.edit /\ s.live = p.live
          /\ p.field = "create" =>
                s.pc = "answered" /\ s.answer.status = "ok" /\ row'.rev > 0
      BY <2>3 DEF Served, Follows
    <3>2. row.rev > 0 => row'.rev > 0
      BY RevisionsGrow
    <3>. QED BY <1>3, <2>0, <3>1, <3>2
  <2>4. ASSUME NEW p \in requests, Heard(p) PROVE Goal(q)
    <3>1. ASSUME q \in requests \ {p} PROVE Goal(q)
      <4>1. q.live => q.by # p.by \/ p.field = "title"
        BY <1>0, <1>3, <2>4, <3>1 DEF OneAtWork, Live, Heard
      <4>2. q.live => q.by \in unsent'
        BY <1>0, <1>3, <2>0, <2>4, <3>1, <4>1 DEF Heard
      <4>. QED BY <1>3, <2>0, <2>4, <3>1, <4>2 DEF Heard
    <3>2. CASE requests' = (requests \ {p}) \union {[p EXCEPT !.live = FALSE]}
      <4>. DEFINE s == [p EXCEPT !.live = FALSE]
      <4>1. /\ ~s.live /\ s.field = p.field /\ s.edit = p.edit /\ s.pc = p.pc
            /\ s.answer = p.answer
        BY <1>0 DEF Request
      <4>2. requests' = (requests \ {p}) \union {s} /\ row' = row BY <2>4, <3>2 DEF Heard
      <4>. HIDE DEF s
      <4>. QED BY <1>3, <2>0, <3>1, <4>1, <4>2
    <3>3. ASSUME NEW s, Follows(s, p), requests' = (requests \ {p}) \union {s},
                 p.field = "title"
          PROVE  Goal(q)
      BY <1>3, <3>1, <3>3 DEF Follows
    <3>. QED BY <2>4, <3>1, <3>2, <3>3 DEF Heard
  <2>. QED BY <2>1, <2>2, <2>3, <2>4, Moves
<1>. QED BY <1>1, <1>2, <1>3 DEF RequestsAreTyped

\* No answer tells of a revision that is not there yet.
LEMMA AnswersStep ==
    ASSUME Requests, [Next]_vars
    PROVE  \A q \in requests' : q.answer.rev <= row'.rev
<1>. USE DEF Requests
<1>. SUFFICES ASSUME NEW q \in requests' PROVE q.answer.rev <= row'.rev OBVIOUS
<1>0. row.rev \in Nat /\ row'.rev \in Nat /\ row.rev <= row'.rev BY RevisionsGrow
<1>1. \A r \in requests : r.answer.rev <= row.rev /\ r.answer.rev \in Nat
  BY RequestParts, TitleBounds DEF RevisionsAreTold, Revisions
<1>2. ASSUME NEW r \in requests, q.answer.rev = r.answer.rev PROVE q.answer.rev <= row'.rev
  BY <1>0, <1>1, <1>2
<1>3. CASE Quiet BY <1>2, <1>3 DEF Quiet
<1>4. ASSUME NEW s \in requests', Starts(s) PROVE q.answer.rev <= row'.rev
  BY <1>0, <1>2, <1>4 DEF Starts, NoAnswer
<1>5. ASSUME NEW p \in requests, NEW s, Served(p, s) PROVE q.answer.rev <= row'.rev
  BY <1>2, <1>5 DEF Served
<1>6. ASSUME NEW p \in requests, Heard(p) PROVE q.answer.rev <= row'.rev
  <2>1. CASE requests' = (requests \ {p}) \union {[p EXCEPT !.live = FALSE]}
    <3>1. [p EXCEPT !.live = FALSE].answer = p.answer BY RequestParts DEF Request
    <3>. QED BY <1>2, <2>1, <3>1
  <2>2. ASSUME NEW s, requests' = (requests \ {p}) \union {s}, s.answer.rev <= row.rev
        PROVE  q.answer.rev <= row'.rev
    BY <1>2, <1>6, <2>2 DEF Heard
  <2>. QED BY <1>2, <1>6, <2>1, <2>2 DEF Heard
<1>. QED BY <1>3, <1>4, <1>5, <1>6, Moves

\* What a client knows, and the list it has, was told to it, or read.
LEMMA KnownStep ==
    ASSUME Requests, [Next]_vars, NEW c \in Clients
    PROVE  known'[c] <= told'[c] /\ told'[c] <= row'.rev /\ list'[c].rev <= row'.rev
<1>. USE DEF Requests, server, bounds, page, creation
<1>. DEFINE Goal == known'[c] <= told'[c] /\ told'[c] <= row'.rev /\ list'[c].rev <= row'.rev
<1>0. /\ row.rev \in Nat /\ row'.rev \in Nat /\ row.rev <= row'.rev
      /\ told[c] \in Nat /\ known[c] \in Nat /\ list[c].rev \in Nat
      /\ known[c] <= told[c] /\ told[c] <= row.rev /\ list[c].rev <= row.rev
  <2>1. Revisions \subseteq Nat BY TitleBounds DEF Revisions
  <2>. QED BY <2>1, RevisionsGrow DEF RevisionsAreTold, TypeOK, Row
<1>1. ASSUME UNCHANGED <<known, told, list>> PROVE Goal BY <1>0, <1>1
<1>2. ASSUME NEW d \in Clients, NEW v \in Nat, v <= row.rev, Remember(d, v), list' = list
      PROVE  Goal
  <2>1. /\ known'[c] = IF c = d THEN v ELSE known[c]
        /\ told'[c] = IF c = d THEN Higher(told[c], v) ELSE told[c]
    BY <1>2 DEF Remember, TypeOK
  <2>. QED BY <1>0, <1>2, <2>1 DEF Higher
<1>3. ASSUME NEW d \in Clients, NEW l \in {row, list[d]}, list' = [list EXCEPT ![d] = l],
             UNCHANGED <<known, told>>
      PROVE  Goal
  <2>1. list'[c] = IF c = d THEN l ELSE list[c] BY <1>3 DEF TypeOK
  <2>. QED BY <1>0, <1>3, <2>1
<1>. HIDE DEF Goal
<1>4. ASSUME NEW d \in Clients, ClientStep(d) PROVE Goal
  <2>1. list[d].rev \in Nat /\ list[d].rev <= row.rev
    BY TitleBounds DEF RevisionsAreTold, TypeOK, Row, Revisions
  <2>2. ASSUME Hydrates(d), list' = list PROVE Goal
    BY <1>1, <1>2, <2>1, <2>2 DEF Hydrates
  <2>3. CASE ListReads(d) BY <1>3, <2>3 DEF ListReads
  <2>4. CASE ListApplies(d) BY <2>2, <2>4 DEF ListApplies
  <2>5. CASE CacheApplies(d) BY <2>2, <2>5 DEF CacheApplies
  <2>. QED
    BY <1>1, <1>4, <2>3, <2>4, <2>5 DEF ClientStep, UserCreates, UserTypes, SendsCreation,
       SendsEdit, Resends, ResendFindsNothing
<1>5. ASSUME NEW r \in requests, ServerStep(r) PROVE Goal
  BY <1>1, <1>5, ServerMoves DEF Served
<1>6. ASSUME NEW r \in requests, AnswerStep(r) PROVE Goal
  <2>1. r.answer.rev \in Nat /\ r.answer.rev <= row.rev /\ r.by \in Clients
    BY RequestParts, TitleBounds DEF RevisionsAreTold, Revisions
  <2>2. CASE GetsCreated(r) BY <1>1, <1>2, <2>1, <2>2 DEF GetsCreated
  <2>3. CASE GetsAnswer(r) BY <1>1, <1>2, <2>1, <2>3 DEF GetsAnswer
  <2>4. CASE RevertReads(r) BY <1>3, <2>1, <2>4 DEF RevertReads
  <2>. QED
    BY <1>1, <1>6, <2>2, <2>3, <2>4 DEF AnswerStep, GetsRefusal, RevertApplies, Fails
<1>7. CASE UNCHANGED vars BY <1>1, <1>7 DEF vars, Goal
<1>8. CASE Next BY <1>4, <1>5, <1>6, <1>8 DEF Next, Goal
<1>. QED BY <1>7, <1>8

LEMMA RevisionsStep ==
    ASSUME Requests, QueueIsTyped, [Next]_vars
    PROVE  RevisionsAreTold'
<1>. USE DEF Requests
<1>0. /\ row.rev \in Nat
      /\ \A c \in Clients : told[c] \in Nat /\ told'[c] \in Nat /\ told[c] <= told'[c]
  BY RevisionsGrow
<1>1. Len(log') = row'.rev
  <2>1. log \in Seq([by : Clients, edit : Edits, again : BOOLEAN]) /\ Len(log) = row.rev
    BY DEF TypeOK, RevisionsAreTold
  <2>2. CASE log' = log /\ row' = row BY <2>1, <2>2
  <2>3. ASSUME NEW r, Created(r) PROVE Len(log') = row'.rev BY <2>3 DEF Created
  <2>4. ASSUME NEW r, Accepted(r) PROVE Len(log') = row'.rev BY <2>1, <2>4 DEF Accepted
  <2>. QED BY <2>2, <2>3, <2>4, LogMoves
<1>2. ASSUME NEW c \in Clients, NEW i \in DOMAIN queue'[c] PROVE queue'[c][i].base <= told'[c]
  <2>1. ASSUME NEW j \in DOMAIN queue[c]
        PROVE  queue[c][j].base \in Nat /\ queue[c][j].base <= told'[c]
    <3>1. queue[c] \in Seq(Task) BY DEF TypeOK
    <3>2. queue[c][j] \in Task BY <3>1, SeqElements
    <3>3. queue[c][j].base \in Nat BY <3>2, TitleBounds DEF Task, Revisions
    <3>4. queue[c][j].base <= told[c] BY DEF RevisionsAreTold
    <3>. QED BY <1>0, <3>3, <3>4
  <2>2. Resend.base <= told'[c] BY <1>0 DEF Resend
  <2>3. known[c] <= told'[c]
    BY <1>0, TitleBounds DEF RevisionsAreTold, TypeOK, Revisions
  <2>4. \/ \E j \in DOMAIN queue[c] : queue'[c][i] = queue[c][j]
        \/ queue'[c][i] = Resend
        \/ queue'[c][i] = [kind |-> "fresh", edit |-> Len(typed) + 1, base |-> known[c]]
    BY QueueParts
  <2>. QED BY <2>1, <2>2, <2>3, <2>4
<1>3. ASSUME NEW c \in Clients PROVE pending'[c].base <= told'[c]
  <2>1. pending[c].base <= told'[c]
    BY <1>0, PendingParts DEF RevisionsAreTold
  <2>2. NoWrite.base <= told'[c] BY <1>0 DEF NoWrite
  <2>3. ASSUME KeepsHead(c) PROVE pending'[c].base <= told'[c]
    <3>1. /\ Head(queue[c]).base \in Revisions /\ Head(queue[c]) = queue[c][1]
          /\ 1 \in DOMAIN queue[c]
      BY <2>3, HeadIsTyped DEF KeepsHead, Popped
    <3>2. Head(queue[c]).base <= told[c] BY <3>1 DEF RevisionsAreTold
    <3>3. Head(queue[c]).base <= told'[c] BY <1>0, <3>1, <3>2, TitleBounds DEF Revisions
    <3>. QED BY <2>1, <2>3, <3>3 DEF KeepsHead
  <2>. QED BY <2>1, <2>2, <2>3, PendingMoves
<1>4. ASSUME NEW q \in requests' PROVE q.base <= told'[q.by]
  <2>1. ASSUME NEW r \in requests, Follows(q, r) PROVE q.base <= told'[q.by]
    <3>1. r.by \in Clients /\ r.base \in Nat /\ r.base <= told[r.by]
      BY RequestParts DEF RevisionsAreTold
    <3>2. r.base <= told'[r.by] BY <1>0, <3>1
    <3>. QED BY <2>1, <3>2 DEF Follows
  <2>2. ASSUME Starts(q) PROVE q.base <= told'[q.by]
    <3>1. /\ known[q.by] <= told[q.by] /\ pending[q.by].base <= told[q.by]
          /\ told[q.by] \in Nat /\ told' = told
      BY <1>0, <2>2 DEF RevisionsAreTold, Starts
    <3>2. q.base = 0 \/ q.base = known[q.by] \/ q.base = pending[q.by].base
      BY <2>2 DEF Starts
    <3>. QED BY <3>1, <3>2
  <2>. QED BY <2>1, <2>2, RequestMoves
<1>5. ASSUME NEW e \in DOMAIN typed'
      PROVE  typed'[e].seen <= told'[typed'[e].by] /\ typed'[e].seen \in Nat
  <2>1. CASE e \in DOMAIN typed
    <3>1. typed'[e] = typed[e] /\ typed[e].by \in Clients /\ typed[e].seen \in Nat
      BY <2>1, TypedStays, TypedIsTyped
    <3>2. typed[e].seen <= told[typed[e].by] BY <2>1 DEF RevisionsAreTold
    <3>. QED BY <1>0, <3>1, <3>2
  <2>2. CASE e \notin DOMAIN typed
    <3>1. typed'[e].by \in Clients /\ typed'[e].seen = told[typed'[e].by]
      BY <2>2, TypedStays
    <3>. QED BY <1>0, <3>1
  <2>. QED BY <2>1, <2>2
<1>6. ASSUME NEW e \in DOMAIN typed', NEW f \in DOMAIN typed', e < f,
             typed'[e].by = typed'[f].by
      PROVE  typed'[e].seen <= typed'[f].seen
  <2>0. /\ DOMAIN typed = 1..Len(typed) /\ Len(typed) \in Nat
        /\ \A x \in DOMAIN typed' : x \in DOMAIN typed \/ x = Len(typed) + 1
    BY TypedIsTyped, TypedStays
  <2>1. e \in DOMAIN typed /\ typed'[e] = typed[e] /\ typed[e].by \in Clients
    BY <1>6, <2>0, TypedStays, TypedIsTyped
  <2>2. CASE f \in DOMAIN typed
    <3>1. typed'[f] = typed[f] BY <2>2, TypedStays
    <3>. QED BY <1>6, <2>1, <2>2, <3>1 DEF RevisionsAreTold
  <2>3. CASE f \notin DOMAIN typed
    <3>1. typed'[f].seen = told[typed'[f].by] BY <2>3, TypedStays
    <3>2. typed[e].seen <= told[typed[e].by] BY <2>1 DEF RevisionsAreTold
    <3>. QED BY <1>6, <2>1, <3>1, <3>2
  <2>. QED BY <2>2, <2>3
<1>. QED BY <1>1, <1>2, <1>3, <1>4, <1>5, <1>6, AnswersStep, KnownStep DEF RevisionsAreTold

-----------------------------------------------------------------------------
(* Steps: the log, and what waits. *)

\* The log, taken apart.
LEMMA LogParts ==
    ASSUME TypeOK, RevisionsAreTold
    PROVE  /\ row.rev \in Nat /\ DOMAIN log = 1..row.rev
           /\ \A i \in DOMAIN log : log[i].by \in Clients /\ log[i].edit \in Nat
<1>1. log \in Seq([by : Clients, edit : Edits, again : BOOLEAN]) BY DEF TypeOK
<1>2. /\ DOMAIN log = 1..Len(log) /\ Len(log) \in Nat
      /\ \A i \in DOMAIN log : log[i] \in [by : Clients, edit : Edits, again : BOOLEAN]
  BY <1>1, SeqElements
<1>. QED BY <1>2, TitleBounds DEF RevisionsAreTold, Edits

\* A title that is accepted comes after what was accepted before.
LEMMA AcceptedParts ==
    ASSUME TypeOK, RequestsAreTyped, RevisionsAreTold, NEW r \in requests, Accepted(r)
    PROVE  /\ r.field = "title" /\ r.edit \in EditsOf(r.by) /\ row.rev \in Nat
           /\ DOMAIN log = 1..row.rev /\ DOMAIN log' = 1..(row.rev + 1)
           /\ \A i \in 1..row.rev : log'[i] = log[i]
           /\ log'[row.rev + 1] = [by |-> r.by, edit |-> r.edit, again |-> r.again]
<1>1. r.field = "title" /\ r.edit \in EditsOf(r.by)
  BY RequestParts DEF Accepted, RequestsAreTyped
<1>2. log \in Seq([by : Clients, edit : Edits, again : BOOLEAN]) /\ Len(log) = row.rev
  BY DEF TypeOK, RevisionsAreTold
<1>. QED BY <1>1, <1>2 DEF Accepted

LEMMA LogTypedStep ==
    ASSUME TypeOK, RequestsAreTyped, RevisionsAreTold, LogIsTyped, [Next]_vars
    PROVE  LogIsTyped'
<1>. SUFFICES ASSUME NEW i \in DOMAIN log', NEW c, c = log'[i].by
              PROVE  \/ log'[i].edit = 0 /\ i = 1
                     \/ /\ log'[i].edit \in EditsOf(c)'
                        /\ typed'[log'[i].edit].seen < i
                        /\ log'[i].again => i <= typed'[log'[i].edit].seen + 1
  BY DEF LogIsTyped, EditsOf
<1>1. ASSUME NEW d, NEW e \in EditsOf(d) PROVE e \in EditsOf(d)' /\ typed'[e] = typed[e]
  BY TypedStays DEF EditsOf
<1>2. ASSUME i \in DOMAIN log, log'[i] = log[i]
      PROVE  \/ log'[i].edit = 0 /\ i = 1
             \/ /\ log'[i].edit \in EditsOf(c)'
                /\ typed'[log'[i].edit].seen < i
                /\ log'[i].again => i <= typed'[log'[i].edit].seen + 1
  BY <1>1, <1>2 DEF LogIsTyped
<1>3. CASE log' = log BY <1>2, <1>3
<1>4. ASSUME NEW r, Created(r) PROVE log'[i].edit = 0 /\ i = 1 BY <1>4 DEF Created
<1>5. ASSUME NEW r \in requests, Accepted(r), i \notin DOMAIN log
      PROVE  /\ log'[i].edit \in EditsOf(c)'
             /\ typed'[log'[i].edit].seen < i
             /\ log'[i].again => i <= typed'[log'[i].edit].seen + 1
  <2>1. /\ i = row.rev + 1 /\ row.rev \in Nat /\ r.edit \in EditsOf(r.by)
        /\ log'[i] = [by |-> r.by, edit |-> r.edit, again |-> r.again]
        /\ r.field = "title" /\ r.base = row.rev
    BY <1>5, AcceptedParts DEF Accepted
  <2>2. /\ typed[r.edit].seen \in Nat /\ typed[r.edit].seen <= told[r.by]
        /\ told[r.by] <= row.rev /\ told[r.by] \in Nat
    BY <2>1, TypedIsTyped, RevisionsGrow, RequestParts DEF RevisionsAreTold, EditsOf
  <2>3. r.again => row.rev <= typed[r.edit].seen BY <2>1 DEF RequestsAreTyped
  <2>4. r.edit \in EditsOf(r.by)' /\ typed'[r.edit] = typed[r.edit] BY <1>1, <2>1
  <2>. QED BY <2>1, <2>2, <2>3, <2>4
<1>6. ASSUME NEW r \in requests, Accepted(r), i \in DOMAIN log PROVE log'[i] = log[i]
  BY <1>6, AcceptedParts
<1>. QED BY <1>2, <1>3, <1>4, <1>5, <1>6, LogMoves

\* A request that starts is the head of its queue, at work, or what its client keeps.
LEMMA StartParts ==
    ASSUME TypeOK, QueueIsTyped, NEW q \in requests', Starts(q), q.field = "title"
    PROVE  /\ queue' = queue /\ pending' = pending /\ typed' = typed
           /\ requests' = requests \union {q}
           /\ \/ /\ queue[q.by] # <<>> /\ Head(queue[q.by]) = queue[q.by][1]
                 /\ queue[q.by][1].kind = "fresh" /\ 1 \in DOMAIN queue[q.by]
                 /\ q.edit = queue[q.by][1].edit /\ AtWork(q.by, q.edit)' /\ q.base = known[q.by]
              \/ /\ q.again /\ pending[q.by] # NoWrite
                 /\ q.edit = pending[q.by].edit /\ q.base = pending[q.by].base
<1>1. q.by \in Clients BY DEF Starts
<1>2. ~q.again => AtWork(q.by, q.edit)' BY DEF Starts, AtWork, Live
<1>. QED BY <1>1, <1>2, HeadIsTyped DEF Starts

LEMMA QueueLaterStep ==
    ASSUME Requests, QueueIsTyped, QueueInOrder, KeptIsTyped, LogIsTyped, QueueIsLater, [Next]_vars
    PROVE  QueueIsLater'
<1>. USE DEF Requests
<1>. SUFFICES ASSUME NEW c \in Clients, NEW i \in DOMAIN queue'[c], queue'[c][i].kind = "fresh"
              PROVE  /\ pending'[c].edit < queue'[c][i].edit
                     /\ \A e \in EditsOf(c)' : IsSent(c, e)' =>
                           e < queue'[c][i].edit \/ (i = 1 /\ AtWork(c, e)')
  BY DEF QueueIsLater
<1>0. Resend.kind # "fresh" BY DEF Resend
<1>1. \/ ~Popped(c) /\ i \in DOMAIN queue[c] /\ queue'[c][i] = queue[c][i]
      \/ Popped(c) /\ i + 1 \in DOMAIN queue[c] /\ queue'[c][i] = queue[c][i + 1]
      \/ ~Popped(c) /\ TypesMore(c) /\ queue'[c][i].edit = Len(typed) + 1
  <2>1. \/ ~Popped(c) /\ i \in DOMAIN queue[c] /\ queue'[c][i] = queue[c][i]
        \/ Popped(c) /\ i + 1 \in DOMAIN queue[c] /\ queue'[c][i] = queue[c][i + 1]
        \/ queue'[c][i] = Resend
        \/ /\ ~Popped(c) /\ TypesMore(c)
           /\ queue'[c][i] = [kind |-> "fresh", edit |-> Len(typed) + 1, base |-> known[c]]
    BY QueueParts
  <2>. QED BY <1>0, <2>1
<1>2. i \in Nat \ {0} BY QueueParts
<1>3. CASE ~Popped(c) /\ TypesMore(c) /\ queue'[c][i].edit = Len(typed) + 1
  <2>1. DOMAIN typed = 1..Len(typed) /\ Len(typed) \in Nat BY TypedIsTyped
  <2>2. pending'[c].edit = 0 \/ pending'[c].edit \in EditsOf(c)
    BY <1>3 DEF TypesMore, KeptIsTyped, NoWrite
  <2>3. \A e \in EditsOf(c)' : IsSent(c, e)' => e \in EditsOf(c) BY SentMoves
  <2>. QED BY <1>3, <2>1, <2>2, <2>3 DEF EditsOf
<1>4. CASE ~Popped(c) /\ i \in DOMAIN queue[c] /\ queue'[c][i] = queue[c][i]
  <2>1. /\ pending[c].edit < queue[c][i].edit /\ queue[c][i].edit \in Nat
        /\ \A e \in EditsOf(c) : IsSent(c, e) =>
              e < queue[c][i].edit \/ (i = 1 /\ AtWork(c, e))
    BY <1>4, FreshIsEdit DEF QueueIsLater
  <2>2. 0 < queue[c][i].edit BY <1>4, FreshIsEdit
  <2>3. pending'[c].edit < queue[c][i].edit
    <3>1. ~KeepsHead(c) BY <1>4 DEF KeepsHead
    <3>2. NoWrite.edit = 0 BY DEF NoWrite
    <3>. QED BY <2>1, <2>2, <3>1, <3>2, PendingMoves
  <2>4. ASSUME NEW e \in EditsOf(c)', IsSent(c, e)'
        PROVE  e < queue[c][i].edit \/ (i = 1 /\ AtWork(c, e)')
    <3>1. CASE IsSent(c, e)
      <4>1. e \in EditsOf(c) BY <2>4, SentMoves
      <4>. QED BY <1>4, <2>1, <3>1, <4>1, AtWorkMoves
    <3>2. ASSUME NEW q \in requests', Starts(q), q.by = c, q.edit = e, q.field = "title"
          PROVE  e < queue[c][i].edit \/ (i = 1 /\ AtWork(c, e)')
      <4>1. CASE i = 1 BY <2>1, <3>2, <4>1, StartParts
      <4>2. CASE i # 1 /\ queue[c][1].kind = "fresh" /\ 1 \in DOMAIN queue[c]
                 /\ e = queue[c][1].edit
        BY <1>2, <1>4, <4>2 DEF QueueInOrder
      <4>. QED BY <2>1, <3>2, <4>1, <4>2, StartParts
    <3>. QED BY <2>4, <3>1, <3>2, SentMoves
  <2>. QED BY <1>4, <2>3, <2>4
<1>5. CASE Popped(c) /\ i + 1 \in DOMAIN queue[c] /\ queue'[c][i] = queue[c][i + 1]
  <2>1. /\ pending[c].edit < queue[c][i + 1].edit /\ queue[c][i + 1].edit \in Nat
        /\ \A e \in EditsOf(c) : IsSent(c, e) => e < queue[c][i + 1].edit
        /\ 0 < queue[c][i + 1].edit
    BY <1>2, <1>5, FreshIsEdit DEF QueueIsLater
  <2>2. ASSUME KeepsHead(c) PROVE pending'[c].edit < queue[c][i + 1].edit
    <3>1. /\ queue[c][1].kind = "fresh" /\ 1 \in DOMAIN queue[c] /\ 1 < i + 1
          /\ pending'[c].edit = queue[c][1].edit
      BY <1>2, <2>2, HeadIsTyped DEF KeepsHead, Popped
    <3>. QED BY <1>5, <3>1 DEF QueueInOrder
  <2>3. pending'[c].edit < queue[c][i + 1].edit
    BY <2>1, <2>2, PendingMoves DEF NoWrite
  <2>4. ASSUME NEW e \in EditsOf(c)', IsSent(c, e)' PROVE e < queue[c][i + 1].edit
    <3>1. CASE IsSent(c, e) BY <2>1, <2>4, <3>1, SentMoves
    <3>2. ASSUME NEW q \in requests', Starts(q), q.by = c PROVE FALSE
      <4>1. queue'[c] = queue[c] /\ queue[c] \in Seq(Task) BY <3>2 DEF Starts, TypeOK
      <4>2. Len(Tail(queue[c])) # Len(queue[c]) BY <1>5, <4>1 DEF Popped
      <4>. QED BY <1>5, <4>1, <4>2 DEF Popped
    <3>. QED BY <2>4, <3>1, <3>2, SentMoves
  <2>. QED BY <1>5, <2>3, <2>4
<1>. QED BY <1>1, <1>3, <1>4, <1>5

LEMMA KeptLatestStep ==
    ASSUME Requests, QueueIsTyped, KeptIsTyped, LogIsTyped, QueueIsLater, KeptIsLatest, [Next]_vars
    PROVE  KeptIsLatest'
<1>. USE DEF Requests
<1>. SUFFICES ASSUME NEW c \in Clients, pending'[c] # NoWrite,
                     NEW e \in EditsOf(c)', IsSent(c, e)'
              PROVE  e <= pending'[c].edit \/ AtWork(c, e)'
  BY DEF KeptIsLatest
<1>0. /\ e \in EditsOf(c) /\ e \in Nat
      /\ \/ IsSent(c, e)
         \/ \E q \in requests' : Starts(q) /\ q.by = c /\ q.edit = e /\ q.field = "title"
  BY SentMoves, TypedIsTyped DEF EditsOf
<1>1. CASE pending'[c] = pending[c] /\ IsSent(c, e)
  BY <1>0, <1>1, AtWorkMoves DEF KeptIsLatest
<1>2. ASSUME NEW q \in requests', Starts(q), q.by = c, q.edit = e, q.field = "title"
      PROVE  e <= pending'[c].edit \/ AtWork(c, e)'
  BY <1>0, <1>2, StartParts
<1>3. CASE KeepsHead(c) /\ IsSent(c, e)
  <2>1. /\ queue[c][1].kind = "fresh" /\ 1 \in DOMAIN queue[c]
        /\ pending'[c].edit = queue[c][1].edit
    BY <1>3, HeadIsTyped DEF KeepsHead, Popped
  <2>2. e < queue[c][1].edit \/ AtWork(c, e) BY <1>0, <1>3, <2>1 DEF QueueIsLater
  <2>3. queue[c][1].edit \in Nat BY <2>1, FreshIsEdit
  <2>. QED BY <1>0, <2>1, <2>2, <2>3, AtWorkMoves
<1>. QED BY <1>0, <1>1, <1>2, <1>3, PendingMoves

\* What a client starts on the latest revision is later than what it has in the log.
LEMMA StartsLater ==
    ASSUME Requests, QueueIsTyped, KeptIsTyped, LogIsTyped, QueueIsLater, KeptIsLatest,
           NEW q \in requests', Starts(q), q.field = "title", q.base = row.rev,
           NEW i \in DOMAIN log, log[i].by = q.by
    PROVE  log[i].edit < q.edit
<1>. USE DEF Requests
<1>. DEFINE c == q.by
            e == log[i].edit
<1>1. /\ c \in Clients /\ ~AtWork(c, e)
  BY DEF Starts, AtWork
<1>2. /\ i \in 1..row.rev /\ row.rev \in Nat /\ e \in Nat
      /\ e = 0 \/ (e \in EditsOf(c) /\ IsSent(c, e))
  BY LogParts DEF LogIsTyped, IsSent
<1>3. CASE queue[c] # <<>> /\ queue[c][1].kind = "fresh" /\ 1 \in DOMAIN queue[c]
           /\ q.edit = queue[c][1].edit
  <2>1. queue[c][1].edit \in 1..Len(typed) /\ Len(typed) \in Nat BY <1>1, <1>3, FreshIsEdit
  <2>2. e \in EditsOf(c) /\ IsSent(c, e) => e < queue[c][1].edit
    BY <1>1, <1>3 DEF QueueIsLater
  <2>. QED BY <1>2, <1>3, <2>1, <2>2
<1>4. CASE /\ pending[c] # NoWrite /\ q.edit = pending[c].edit /\ q.base = pending[c].base
  <2>1. /\ pending[c].edit \in EditsOf(c) /\ pending[c].base <= typed[pending[c].edit].seen
    BY <1>1, <1>4 DEF KeptIsTyped
  <2>2. /\ pending[c].edit \in Nat \ {0} /\ typed[pending[c].edit].seen \in Nat
    BY <2>1, TypedIsTyped DEF EditsOf
  <2>3. e \in EditsOf(c) /\ IsSent(c, e) => e <= pending[c].edit
    BY <1>1, <1>4 DEF KeptIsLatest
  <2>4. e # pending[c].edit
    <3>. SUFFICES ASSUME e = pending[c].edit PROVE FALSE OBVIOUS
    <3>1. typed[pending[c].edit].seen < i BY <2>2 DEF LogIsTyped
    <3>. QED BY <1>2, <1>4, <2>1, <2>2, <3>1
  <2>. QED BY <1>2, <1>4, <2>2, <2>3, <2>4
<1>. QED BY <1>3, <1>4, StartParts

LEMMA CurrentLaterStep ==
    ASSUME Requests, QueueIsTyped, KeptIsTyped, LogIsTyped, QueueIsLater, KeptIsLatest,
           CurrentIsLater, [Next]_vars
    PROVE  CurrentIsLater'
<1>. USE DEF Requests
<1>. SUFFICES ASSUME NEW q \in requests', q.field = "title", q.base = row'.rev,
                     NEW i \in DOMAIN log', log'[i].by = q.by
              PROVE  log'[i].edit < q.edit
  BY DEF CurrentIsLater
<1>1. CASE log' = log /\ row' = row
  <2>1. ASSUME NEW r \in requests, Follows(q, r) PROVE log[i].edit < q.edit
    BY <1>1, <2>1 DEF CurrentIsLater, Follows
  <2>2. Starts(q) => log[i].edit < q.edit BY <1>1, StartsLater
  <2>. QED BY <1>1, <2>1, <2>2, RequestMoves
<1>2. CASE row'.rev > row.rev
  <2>1. ~Starts(q)
    <3>1. row.rev \in Nat BY LogParts
    <3>. QED BY <1>2, <3>1 DEF Starts
  <2>2. PICK r \in requests : Follows(q, r) BY <2>1, RequestMoves
  <2>3. /\ r.by \in Clients /\ r.base \in Nat /\ r.base <= told[r.by]
        /\ told[r.by] <= row.rev /\ told[r.by] \in Nat /\ row.rev \in Nat /\ row'.rev \in Nat
    BY <2>2, RequestParts, RevisionsGrow DEF RevisionsAreTold
  <2>4. r.base = row'.rev BY <2>2 DEF Follows
  <2>. QED BY <1>2, <2>3, <2>4
<1>3. ASSUME NEW r, Created(r) \/ Accepted(r) PROVE row'.rev > row.rev
  <2>1. row.rev \in Nat BY LogParts
  <2>. QED BY <1>3, <2>1 DEF Created, Accepted
<1>. QED BY <1>1, <1>2, <1>3, LogMoves

LEMMA TypedOrderStep ==
    ASSUME Requests, CurrentIsLater, TypedOrder, [Next]_vars
    PROVE  TypedOrder'
<1>. USE DEF Requests
<1>. SUFFICES ASSUME NEW i \in DOMAIN log', NEW j \in DOMAIN log', i < j,
                     log'[i].by = log'[j].by
              PROVE  log'[i].edit < log'[j].edit
  BY DEF TypedOrder
<1>1. CASE log' = log BY <1>1 DEF TypedOrder
<1>2. ASSUME NEW r, Created(r) PROVE FALSE BY <1>2 DEF Created
<1>3. ASSUME NEW r \in requests, Accepted(r) PROVE log'[i].edit < log'[j].edit
  <2>1. /\ r.field = "title" /\ row.rev \in Nat /\ r.base = row.rev
        /\ DOMAIN log = 1..row.rev /\ DOMAIN log' = 1..(row.rev + 1)
        /\ \A k \in 1..row.rev : log'[k] = log[k]
        /\ log'[row.rev + 1] = [by |-> r.by, edit |-> r.edit, again |-> r.again]
    BY <1>3, AcceptedParts DEF Accepted
  <2>2. i \in DOMAIN log /\ log'[i] = log[i] BY <2>1
  <2>3. CASE j \in DOMAIN log BY <2>1, <2>2, <2>3 DEF TypedOrder
  <2>4. CASE j = row.rev + 1 BY <2>1, <2>2, <2>4 DEF CurrentIsLater
  <2>. QED BY <2>1, <2>3, <2>4
<1>. QED BY <1>1, <1>2, <1>3, LogMoves

-----------------------------------------------------------------------------
(* Steps: nothing is lost. *)

\* The creation is to be sent.
ToSend(c) == \E i \in DOMAIN creating[c] : creating[c][i] = "fresh"

\* Before there is a row, a creation to be sent stays so, or is kept.
LEMMA CreationMoves ==
    ASSUME Requests, [Next]_vars, NEW c \in Clients, row'.rev = 0, c \in unsent \/ ToSend(c)
    PROVE  c \in unsent' \/ ToSend(c)'
<1>. USE DEF Requests, server, bounds, page, creation
<1>. DEFINE Goal == c \in unsent' \/ ToSend(c)'
<1>0. row.rev = 0 BY RevisionsGrow
<1>1. ASSUME NEW d \in Clients, NEW x, creating' = [creating EXCEPT ![d] = Append(@, x)], ToSend(c)
      PROVE  ToSend(c)'
  <2>1. creating[d] \in Seq({"fresh", "resend"}) BY DEF TypeOK
  <2>2. PICK i \in DOMAIN creating[c] : creating[c][i] = "fresh" BY <1>1 DEF ToSend
  <2>3. CASE c = d
    <3>1. creating'[c] = Append(creating[c], x) BY <1>1, <2>3 DEF TypeOK
    <3>2. i \in DOMAIN creating'[c] /\ creating'[c][i] = "fresh" BY <2>1, <2>2, <2>3, <3>1
    <3>. QED BY <3>2 DEF ToSend
  <2>4. CASE c # d
    <3>1. creating'[c] = creating[c] BY <1>1, <2>4 DEF TypeOK
    <3>. QED BY <2>2, <3>1 DEF ToSend
  <2>. QED BY <2>3, <2>4
<1>2. ASSUME creating' = creating, ToSend(c) PROVE ToSend(c)' BY <1>2 DEF ToSend
<1>. HIDE DEF Goal
<1>3. ASSUME creating' = creating, unsent \subseteq unsent' PROVE Goal BY <1>2, <1>3 DEF Goal
<1>4. ASSUME NEW d \in Clients, ClientStep(d) PROVE Goal
  <2>1. ASSUME NEW x, creating' = [creating EXCEPT ![d] = Append(@, x)], unsent' = unsent
        PROVE  Goal
    BY <1>1, <2>1 DEF Goal
  <2>2. CASE UserCreates(d) BY <2>1, <2>2 DEF UserCreates
  <2>3. CASE ListApplies(d) BY <1>3, <2>1, <2>3 DEF ListApplies, QueueResends
  <2>4. CASE ResendFindsNothing(d)
    <3>1. CASE creating' = creating BY <1>3, <2>4, <3>1 DEF ResendFindsNothing
    <3>2. ASSUME creating[d] # <<>>, Head(creating[d]) = "resend",
                 creating' = [creating EXCEPT ![d] = Tail(@)], ToSend(c)
          PROVE  ToSend(c)'
      <4>1. creating[d] \in Seq({"fresh", "resend"}) BY DEF TypeOK
      <4>2. PICK i \in DOMAIN creating[c] : creating[c][i] = "fresh" BY <3>2 DEF ToSend
      <4>3. CASE c = d
        <5>1. creating'[c] = Tail(creating[c]) BY <3>2, <4>3 DEF TypeOK
        <5>2. i # 1 /\ i \in 1..Len(creating[c]) /\ Len(creating[c]) \in Nat
          BY <3>2, <4>1, <4>2, <4>3
        <5>3. i - 1 \in DOMAIN creating'[c] /\ creating'[c][i - 1] = "fresh"
          <6>1. /\ DOMAIN Tail(creating[c]) = 1..(Len(creating[c]) - 1)
                /\ \A k \in 1..(Len(creating[c]) - 1) :
                      Tail(creating[c])[k] = creating[c][k + 1]
            BY <3>2, <4>1, <4>3
          <6>2. i - 1 \in 1..(Len(creating[c]) - 1) /\ (i - 1) + 1 = i BY <5>2
          <6>. QED BY <4>2, <5>1, <6>1, <6>2
        <5>. QED BY <5>3 DEF ToSend
      <4>4. CASE c # d
        <5>1. creating'[c] = creating[c] BY <3>2, <4>4 DEF TypeOK
        <5>. QED BY <4>2, <5>1 DEF ToSend
      <4>. QED BY <4>3, <4>4
    <3>. QED BY <2>4, <3>1, <3>2 DEF ResendFindsNothing, Goal
  <2>5. ASSUME NEW t \in Titles, UserTypes(d, t) PROVE Goal BY <1>3, <2>5 DEF UserTypes
  <2>. QED
    BY <1>3, <1>4, <2>2, <2>3, <2>4, <2>5 DEF ClientStep, SendsCreation, SendsEdit, Resends,
       ListReads, CacheApplies
<1>5. ASSUME NEW r \in requests, ServerStep(r) PROVE Goal
  BY <1>3, <1>5, ServerMoves DEF Served
<1>6. ASSUME NEW r \in requests, AnswerStep(r) PROVE Goal
  <2>1. Heard(r) BY <1>6, AnswerMoves
  <2>2. CASE r.field = "title" BY <1>3, <2>1, <2>2 DEF Heard
  <2>3. CASE r.field = "create" /\ r.by # c
    <3>1. creating'[c] = creating[c] /\ (c \in unsent => c \in unsent')
      BY <2>1, <2>3 DEF Heard
    <3>. QED BY <3>1 DEF ToSend, Goal
  <2>4. CASE r.field = "create" /\ r.by = c
    <3>1. r.live /\ c \in unsent BY <2>1, <2>4 DEF Heard, RequestsAreTyped
    <3>2. r.pc = "sent" BY <1>0, <2>4 DEF RequestsAreTyped
    <3>3. Fails(r)
      BY <1>6, <2>4, <3>2 DEF AnswerStep, GetsCreated, GetsAnswer, GetsRefusal, RevertReads,
         RevertApplies
    <3>4. unsent' = unsent BY <3>3 DEF Fails
    <3>. QED BY <3>1, <3>4 DEF Goal
  <2>. QED BY <2>2, <2>3, <2>4, RequestParts
<1>7. CASE UNCHANGED vars BY <1>3, <1>7 DEF vars, Goal
<1>8. CASE Next BY <1>4, <1>5, <1>6, <1>8 DEF Next, Goal
<1>. QED BY <1>7, <1>8

\* Before there is a row, a page comes to a screen by being created.
LEMMA ScreenMoves ==
    ASSUME Requests, [Next]_vars, row'.rev = 0
    PROVE  \/ \A c \in Clients : screen[c] = NoPage => screen'[c] = NoPage
           \/ UserCreates(Creator)
<1>. USE DEF Requests, server, bounds, page, creation
<1>. DEFINE Goal == \/ \A c \in Clients : screen[c] = NoPage => screen'[c] = NoPage
                    \/ UserCreates(Creator)
<1>0. row.rev = 0 BY RevisionsGrow
<1>1. screen' = screen => Goal OBVIOUS
<1>2. ASSUME NEW d \in Clients, ClientStep(d) PROVE Goal
  <2>1. list[d].rev = 0
    BY <1>0, TitleBounds DEF RevisionsAreTold, TypeOK, Row, Revisions
  <2>2. CASE UserCreates(d) BY <2>2 DEF UserCreates
  <2>3. ASSUME NEW t \in Titles, UserTypes(d, t) PROVE Goal
    BY <2>3 DEF UserTypes, TypeOK
  <2>4. Hydrates(d) => screen' = screen BY <2>1 DEF Hydrates
  <2>. HIDE DEF Goal
  <2>. QED
    BY <1>1, <1>2, <2>2, <2>3, <2>4 DEF ClientStep, SendsCreation, SendsEdit, Resends,
       ResendFindsNothing, ListReads, ListApplies, CacheApplies
<1>. HIDE DEF Goal
<1>3. ASSUME NEW r \in requests, ServerStep(r) PROVE Goal
  BY <1>1, <1>3 DEF ServerStep, ServerCreates, ServerReads, ServerWrites, ServerIsBeaten,
     ServerRereads, ServerRefuses
<1>4. ASSUME NEW r \in requests, AnswerStep(r) PROVE Goal
  <2>1. r.answer.rev = 0
    BY <1>0, RequestParts, TitleBounds DEF RevisionsAreTold, Revisions
  <2>2. r.field = "title" => r.answer.status # "stale" BY <1>0 DEF RequestsAreTyped
  <2>3. screen' = screen
    BY <1>4, <2>1, <2>2 DEF AnswerStep, GetsCreated, GetsAnswer, GetsRefusal, RevertReads,
       RevertApplies, Fails
  <2>. QED BY <1>1, <2>3
<1>5. CASE UNCHANGED vars BY <1>1, <1>5 DEF vars, Goal
<1>6. CASE Next BY <1>2, <1>3, <1>4, <1>6 DEF Next, Goal
<1>. QED BY <1>5, <1>6

LEMMA CreationStep ==
    ASSUME Requests, CreationIsKept, [Next]_vars
    PROVE  CreationIsKept'
<1>. USE DEF Requests
<1>. SUFFICES ASSUME screen'[Creator] # NoPage, row'.rev = 0
              PROVE  Creator \in unsent' \/ ToSend(Creator)'
  BY DEF CreationIsKept, ToSend
<1>0. Creator \in Clients /\ row.rev = 0 BY TitleBounds, RevisionsGrow
<1>1. CASE screen[Creator] # NoPage
  BY <1>0, <1>1, CreationMoves DEF CreationIsKept, ToSend
<1>2. CASE UserCreates(Creator)
  <2>1. creating[Creator] \in Seq({"fresh", "resend"}) BY <1>0 DEF TypeOK
  <2>2. creating'[Creator] = Append(creating[Creator], "fresh")
    BY <1>0, <1>2 DEF UserCreates, TypeOK
  <2>3. /\ Len(creating[Creator]) + 1 \in DOMAIN creating'[Creator]
        /\ creating'[Creator][Len(creating[Creator]) + 1] = "fresh"
    BY <2>1, <2>2
  <2>. QED BY <2>3 DEF ToSend
<1>. QED BY <1>0, <1>1, <1>2, ScreenMoves

\* The latest answered edit only grows.
LEMMA AnsweredGrows ==
    ASSUME TypeOK, [Next]_vars, NEW c \in Clients
    PROVE  answered[c] \in Nat /\ answered'[c] \in Nat /\ answered[c] <= answered'[c]
<1>. USE DEF server, bounds, page, creation
<1>0. answered[c] \in Nat BY TitleBounds DEF TypeOK, Edits
<1>1. CASE answered' = answered BY <1>0, <1>1
<1>2. ASSUME NEW r \in requests, answered' = [answered EXCEPT ![r.by] = Higher(@, r.edit)]
      PROVE  answered'[c] \in Nat /\ answered[c] <= answered'[c]
  <2>1. answered'[c] = IF c = r.by THEN Higher(answered[c], r.edit) ELSE answered[c]
    BY <1>2 DEF TypeOK
  <2>. QED BY <1>0, <2>1, RequestParts DEF Higher
<1>3. ASSUME NEW r \in requests, AnswerStep(r)
      PROVE  \/ answered' = answered
             \/ answered' = [answered EXCEPT ![r.by] = Higher(@, r.edit)]
  BY <1>3 DEF AnswerStep, GetsCreated, GetsAnswer, GetsRefusal, RevertReads, RevertApplies, Fails
<1>4. ASSUME NEW r \in requests, ServerStep(r) PROVE answered' = answered
  BY <1>4 DEF ServerStep, ServerCreates, ServerReads, ServerWrites, ServerIsBeaten, ServerRereads,
              ServerRefuses
<1>5. ASSUME NEW d \in Clients, ClientStep(d) PROVE answered' = answered
  BY <1>5 DEF ClientStep, UserCreates, UserTypes, SendsCreation, SendsEdit, Resends,
              ResendFindsNothing, ListReads, ListApplies, CacheApplies
<1>6. UNCHANGED vars => answered' = answered BY DEF vars
<1>. QED BY <1>0, <1>1, <1>2, <1>3, <1>4, <1>5, <1>6 DEF Next

\* An edit leaves the head of its queue when it is answered, or kept.
LEMMA HeadLeaves ==
    ASSUME Requests, QueueIsTyped, [Next]_vars, NEW c \in Clients, queue[c] # <<>>,
           Head(queue[c]).kind = "fresh"
    PROVE  \/ queue'[c] = queue[c]
           \/ \E x : queue'[c] = Append(queue[c], x)
           \/ /\ queue'[c] = Tail(queue[c])
              /\ Head(queue[c]).edit <= answered'[c] \/ pending'[c].edit = Head(queue[c]).edit
<1>. USE DEF Requests, server, bounds, page, creation
<1>. DEFINE Goal == \/ queue'[c] = queue[c]
                    \/ \E x : queue'[c] = Append(queue[c], x)
                    \/ /\ queue'[c] = Tail(queue[c])
                       /\ \/ Head(queue[c]).edit <= answered'[c]
                          \/ pending'[c].edit = Head(queue[c]).edit
<1>1. queue' = queue => Goal OBVIOUS
<1>2. ASSUME NEW d \in Clients, NEW x, queue' = [queue EXCEPT ![d] = Append(@, x)] PROVE Goal
  BY <1>2 DEF TypeOK
<1>3. ASSUME NEW d \in Clients, ClientStep(d) PROVE Goal
  <2>1. CASE ResendFindsNothing(d) BY <2>1 DEF ResendFindsNothing, TypeOK
  <2>2. CASE ListApplies(d) BY <1>1, <1>2, <2>2 DEF ListApplies, QueueResends
  <2>3. ASSUME NEW t \in Titles, UserTypes(d, t) PROVE Goal BY <1>2, <2>3 DEF UserTypes
  <2>. HIDE DEF Goal
  <2>. QED
    BY <1>1, <1>3, <2>1, <2>2, <2>3 DEF ClientStep, UserCreates, SendsCreation, SendsEdit,
       Resends, ListReads, CacheApplies
<1>4. ASSUME NEW r \in requests, ServerStep(r) PROVE Goal
  BY <1>1, <1>4, ServerMoves DEF Served
<1>5. ASSUME NEW r \in requests, AnswerStep(r) PROVE Goal
  <2>0. /\ Heard(r) /\ r.by \in Clients /\ r.edit \in Nat /\ r.field \in {"create", "title"}
        /\ answered[r.by] \in Nat
    <3>1. Heard(r) BY <1>5, AnswerMoves
    <3>2. Edits \subseteq Nat BY TitleBounds DEF Edits
    <3>. QED BY <3>1, <3>2, RequestParts DEF TypeOK
  <2>1. CASE r.by # c \/ r.field = "create"
    <3>1. queue'[c] = queue[c] BY <2>0, <2>1 DEF Heard
    <3>. QED BY <3>1
  <2>2. CASE r.by = c /\ r.field = "title"
    <3>1. /\ r.live /\ ~r.again /\ Head(queue[c]).edit = r.edit
          /\ r.pc \in {"reverting", "fetched"} => r.edit <= answered[c]
      BY <2>0, <2>2 DEF Heard, LiveIsHead, Resend
    <3>2. [queue EXCEPT ![c] = Tail(@)][c] = Tail(queue[c]) BY DEF TypeOK
    <3>3. r.edit <= [answered EXCEPT ![c] = Higher(@, r.edit)][c]
      BY <2>0, <2>2 DEF Higher, TypeOK
    <3>4. Kept(r)[c].edit = r.edit BY <2>0, <2>2, <3>1 DEF Kept, TypeOK
    <3>5. CASE GetsAnswer(r) BY <2>2, <3>1, <3>2, <3>3, <3>5 DEF GetsAnswer
    <3>6. CASE GetsRefusal(r) BY <1>1, <2>2, <3>1, <3>2, <3>3, <3>6 DEF GetsRefusal
    <3>7. CASE RevertApplies(r) BY <2>2, <3>1, <3>2, <3>7 DEF RevertApplies
    <3>8. CASE Fails(r) BY <2>2, <3>1, <3>2, <3>4, <3>8 DEF Fails
    <3>9. CASE GetsCreated(r) \/ RevertReads(r) BY <1>1, <3>9 DEF GetsCreated, RevertReads
    <3>. QED BY <1>5, <3>5, <3>6, <3>7, <3>8, <3>9 DEF AnswerStep
  <2>. QED BY <2>0, <2>1, <2>2
<1>6. CASE UNCHANGED vars BY <1>1, <1>6 DEF vars
<1>7. CASE Next BY <1>3, <1>4, <1>5, <1>7 DEF Next
<1>. QED BY <1>6, <1>7

\* What is kept is discarded when it is answered, or something later was.
LEMMA KeptLeaves ==
    ASSUME Requests, QueueIsTyped, QueueIsLater, [Next]_vars, NEW c \in Clients,
           pending'[c] # pending[c]
    PROVE  \/ pending[c].edit <= answered'[c]
           \/ \E n \in EditsOf(c) : pending[c].edit < n
<1>. USE DEF Requests, server, bounds, page, creation
<1>. DEFINE Goal == \/ pending[c].edit <= answered'[c]
                    \/ \E n \in EditsOf(c) : pending[c].edit < n
<1>0. ASSUME queue[c] # <<>>, Head(queue[c]).kind = "fresh" PROVE Goal
  <2>1. /\ 1 \in DOMAIN queue[c] /\ queue[c][1].kind = "fresh"
        /\ queue[c][1].edit \in EditsOf(c)
    BY <1>0, HeadIsTyped
  <2>. QED BY <2>1 DEF QueueIsLater
<1>1. ASSUME NEW r \in requests, GetsAnswer(r) \/ GetsRefusal(r) PROVE Goal
  <2>0. /\ r.by \in Clients /\ r.edit \in Nat /\ r.field \in {"create", "title"}
        /\ answered[r.by] \in Nat /\ r.live /\ r.pc = "answered"
    <3>1. Edits \subseteq Nat BY TitleBounds DEF Edits
    <3>2. r.live /\ r.pc = "answered" BY <1>1 DEF GetsAnswer, GetsRefusal
    <3>. QED BY <3>1, <3>2, RequestParts DEF TypeOK
  <2>1. /\ pending' = Discarded(r)
        /\ answered' = [answered EXCEPT ![r.by] = Higher(@, r.edit)]
    BY <1>1 DEF GetsAnswer, GetsRefusal
  <2>2. r.by = c BY <2>0, <2>1 DEF Discarded, TypeOK
  <2>3. r.field = "title"
    BY <1>1, <2>0 DEF GetsAnswer, GetsRefusal, RequestsAreTyped
  <2>4. r.edit <= answered'[c] BY <2>0, <2>1, <2>2 DEF Higher, TypeOK
  <2>5. CASE r.again
    <3>1. r.edit = pending[c].edit BY <2>0, <2>2, <2>3, <2>5 DEF LiveIsHead
    <3>. QED BY <2>4, <3>1
  <2>6. CASE ~r.again
    <3>1. queue[c] # <<>> /\ Head(queue[c]).kind = "fresh"
      BY <2>0, <2>2, <2>3, <2>6 DEF LiveIsHead, OneAtWork
    <3>. QED BY <1>0, <3>1
  <2>. QED BY <2>5, <2>6
<1>2. CASE KeepsHead(c) BY <1>0, <1>2 DEF KeepsHead, Popped
<1>. HIDE DEF Goal
<1>3. ASSUME NEW r \in requests, Fails(r) PROVE Goal
  <2>1. pending'[c] = NoWrite => pending' = pending \/ KeepsHead(c)
    <3>. SUFFICES ASSUME pending'[c] = NoWrite, pending' # pending PROVE KeepsHead(c)
      OBVIOUS
    <3>1. r.field = "title" /\ ~r.again /\ pending' = Kept(r) /\ r.live
      BY <1>3, RequestParts DEF Fails, Kept
    <3>2. r.by = c BY <3>1, RequestParts DEF Kept, TypeOK
    <3>3. pending'[c].edit = r.edit BY <3>1, <3>2 DEF Kept, TypeOK
    <3>4. r.edit \in EditsOf(c) BY <3>1, <3>2 DEF RequestsAreTyped
    <3>5. r.edit # 0 BY <3>4, TypedIsTyped DEF EditsOf
    <3>. QED BY <3>3, <3>5 DEF NoWrite
  <2>2. pending' # pending OBVIOUS
  <2>3. pending'[c] = NoWrite \/ KeepsHead(c) BY PendingMoves
  <2>. QED BY <1>2, <2>1, <2>2, <2>3 DEF Goal
<1>4. ASSUME NEW d \in Clients, ClientStep(d) PROVE FALSE
  BY <1>4 DEF ClientStep, UserCreates, UserTypes, SendsCreation, SendsEdit, Resends,
              ResendFindsNothing, ListReads, ListApplies, CacheApplies
<1>5. ASSUME NEW r \in requests, ServerStep(r) PROVE FALSE
  BY <1>5, ServerMoves DEF Served
<1>6. ASSUME NEW r \in requests, GetsCreated(r) \/ RevertReads(r) \/ RevertApplies(r) PROVE FALSE
  BY <1>6 DEF GetsCreated, RevertReads, RevertApplies
<1>7. CASE UNCHANGED vars BY <1>7 DEF vars
<1>8. CASE Next BY <1>1, <1>3, <1>4, <1>5, <1>6, <1>8 DEF Next, AnswerStep, Goal
<1>. QED BY <1>7, <1>8

\* A new edit is in the queue.
LEMMA NewEditWaits ==
    ASSUME TypeOK, [Next]_vars, NEW c \in Clients, NEW e \in EditsOf(c)', e \notin EditsOf(c)
    PROVE  \E i \in DOMAIN queue'[c] : queue'[c][i].edit = e
<1>. USE DEF server, bounds, page, creation
<1>0. e \in DOMAIN typed' \ DOMAIN typed /\ typed'[e].by = c /\ e = Len(typed) + 1
  BY TypedStays DEF EditsOf
<1>1. ASSUME NEW d \in Clients, NEW t \in Titles, UserTypes(d, t)
      PROVE  \E i \in DOMAIN queue'[c] : queue'[c][i].edit = e
  <2>1. typed' = Append(typed, [by |-> d, title |-> t, seen |-> told[d]])
    BY <1>1 DEF UserTypes
  <2>2. /\ Len(typed') = Len(typed) + 1
        /\ typed'[Len(typed) + 1] = [by |-> d, title |-> t, seen |-> told[d]]
    BY <2>1, TypedIsTyped
  <2>3. c = d BY <1>0, <2>2
  <2>4. /\ queue'[c] = Append(queue[c], [kind |-> "fresh", edit |-> e, base |-> known[c]])
        /\ queue[c] \in Seq(Task)
    BY <1>0, <1>1, <2>2, <2>3 DEF UserTypes, TypeOK
  <2>5. /\ Len(queue[c]) + 1 \in DOMAIN queue'[c]
        /\ queue'[c][Len(queue[c]) + 1] = [kind |-> "fresh", edit |-> e, base |-> known[c]]
    BY <2>4
  <2>. QED BY <2>5
<1>2. ASSUME NEW d \in Clients, ClientStep(d), ~\E t \in Titles : UserTypes(d, t) PROVE FALSE
  BY <1>0, <1>2 DEF ClientStep, UserCreates, SendsCreation, SendsEdit, Resends,
     ResendFindsNothing, ListReads, ListApplies, CacheApplies
<1>3. ASSUME NEW r \in requests, ServerStep(r) \/ AnswerStep(r) PROVE FALSE
  BY <1>0, <1>3 DEF ServerStep, ServerCreates, ServerReads, ServerWrites, ServerIsBeaten,
     ServerRereads, ServerRefuses, AnswerStep, GetsCreated, GetsAnswer, GetsRefusal, RevertReads,
     RevertApplies, Fails
<1>4. CASE UNCHANGED vars BY <1>0, <1>4 DEF vars
<1>. QED BY <1>1, <1>2, <1>3, <1>4 DEF Next

LEMMA NewestStep ==
    ASSUME Requests, QueueIsTyped, KeptIsTyped, QueueIsLater, CreationIsKept, NewestIsKept,
           [Next]_vars
    PROVE  NewestIsKept'
<1>. USE DEF Requests
<1>1. ASSUME NEW c \in Clients, NEW e \in EditsOf(c)', Open(c, e)'
      PROVE  \/ pending'[c].edit = e
             \/ \E i \in DOMAIN queue'[c] : queue'[c][i].edit = e
  <2>1. CASE e \notin EditsOf(c) BY <1>1, <2>1, NewEditWaits
  <2>2. CASE e \in EditsOf(c)
    <3>1. /\ e \in 1..Len(typed) /\ Len(typed) \in Nat
          /\ answered'[c] < e /\ answered[c] < e /\ answered'[c] \in Nat
      BY <1>1, <2>2, TypedIsTyped, AnsweredGrows DEF Open, EditsOf
    <3>2. \A n \in EditsOf(c) : n <= e BY <1>1, TypedStays DEF Open
    <3>3. Open(c, e) BY <2>2, <3>1, <3>2 DEF Open
    <3>4. CASE pending[c].edit = e
      <4>1. \A n \in EditsOf(c) : ~(e < n) BY <3>1, <3>2, TypedIsTyped DEF EditsOf
      <4>2. ~(e <= answered'[c]) BY <3>1
      <4>. QED BY <3>4, <4>1, <4>2, KeptLeaves
    <3>5. ASSUME NEW i \in DOMAIN queue[c], queue[c][i].edit = e
          PROVE  \/ pending'[c].edit = e
                 \/ \E j \in DOMAIN queue'[c] : queue'[c][j].edit = e
      <4>0. /\ queue[c] \in Seq(Task) /\ DOMAIN queue[c] = 1..Len(queue[c])
            /\ Len(queue[c]) \in Nat
        BY DEF TypeOK
      <4>1. queue[c][i].kind = "fresh"
        BY <3>1, <3>5 DEF QueueIsTyped, IsTask, Resend
      <4>2. CASE queue'[c] = queue[c] BY <3>5, <4>2
      <4>3. ASSUME NEW x, queue'[c] = Append(queue[c], x)
            PROVE  i \in DOMAIN queue'[c] /\ queue'[c][i] = queue[c][i]
        BY <4>0, <4>3
      <4>4. CASE Popped(c) /\ i # 1
        <5>1. /\ DOMAIN Tail(queue[c]) = 1..(Len(queue[c]) - 1)
              /\ \A j \in DOMAIN Tail(queue[c]) : Tail(queue[c])[j] = queue[c][j + 1]
          BY <4>0, <4>4, QueueTail DEF Popped
        <5>2. i - 1 \in 1..(Len(queue[c]) - 1) /\ (i - 1) + 1 = i BY <4>0, <4>4
        <5>3. queue'[c] = Tail(queue[c]) BY <4>4 DEF Popped
        <5>4. i - 1 \in DOMAIN queue'[c] /\ queue'[c][i - 1] = queue[c][i]
          BY <5>1, <5>2, <5>3
        <5>. QED BY <3>5, <5>4
      <4>5. CASE i = 1
        <5>1. /\ queue[c] # <<>> /\ Head(queue[c]) = queue[c][1]
          BY <4>0, <4>5
        <5>2. ~(Head(queue[c]).edit <= answered'[c]) BY <3>1, <3>5, <4>5, <5>1
        <5>3. \/ queue'[c] = queue[c]
              \/ \E x : queue'[c] = Append(queue[c], x)
              \/ pending'[c].edit = Head(queue[c]).edit
          BY <4>1, <4>5, <5>1, <5>2, HeadLeaves
        <5>. QED BY <3>5, <4>2, <4>3, <4>5, <5>1, <5>3
      <4>. QED BY <3>5, <4>2, <4>3, <4>4, <4>5, QueueMoves DEF QueueMove, TypesMore
    <3>. QED BY <2>2, <3>3, <3>4, <3>5 DEF NewestIsKept, Queued
  <2>. QED BY <2>1, <2>2
<1>2. ASSUME screen'[Creator] # NoPage, row'.rev = 0
      PROVE  creating'[Creator] # <<>> \/ Creator \in unsent'
  <2>1. CreationIsKept' BY CreationStep
  <2>. QED BY <1>2, <2>1 DEF CreationIsKept
<1>. QED BY <1>1, <1>2 DEF NewestIsKept, Queued

-----------------------------------------------------------------------------
(* The theorems. *)

LEMMA TypeStep ==
    ASSUME IInv, [Next]_vars
    PROVE  TypeOK'
<1>. USE DEF IInv
<1>1. ASSUME NEW c \in Clients, ClientStep(c) PROVE TypeOK' BY <1>1, ClientTypes
<1>2. ASSUME NEW r \in requests, ServerStep(r) PROVE TypeOK' BY <1>2, ServerTypes
<1>3. ASSUME NEW r \in requests, AnswerStep(r) PROVE TypeOK' BY <1>3, AnswerTypes
<1>4. CASE UNCHANGED vars BY <1>4 DEF vars, TypeOK
<1>. QED BY <1>1, <1>2, <1>3, <1>4 DEF Next

LEMMA InitInv == Init => IInv
<1>. SUFFICES ASSUME Init PROVE IInv OBVIOUS
<1>. USE DEF Init
<1>1. 0 \in Revisions /\ 0 \in Edits /\ 0 \in 0..MaxFaults /\ 0 \in 0..MaxLists
  BY TitleBounds DEF Revisions, Edits
<1>2. TypeOK BY <1>1 DEF TypeOK, Row, Names, NoWrite
<1>3. QueueIsTyped /\ QueueInOrder /\ QueueIsLater
  BY DEF QueueIsTyped, QueueInOrder, QueueIsLater
<1>4. KeptIsTyped /\ KeptIsLatest BY DEF KeptIsTyped, KeptIsLatest
<1>5. RequestsAreTyped /\ OneAtWork /\ LiveIsHead /\ CurrentIsLater
  BY DEF RequestsAreTyped, OneAtWork, LiveIsHead, CurrentIsLater
<1>6. RevisionsAreTold BY DEF RevisionsAreTold, NoWrite
<1>7. LogIsTyped /\ TypedOrder BY DEF LogIsTyped, TypedOrder
<1>8. CreationIsKept BY TitleBounds DEF CreationIsKept
<1>9. NewestIsKept BY TitleBounds DEF NewestIsKept, EditsOf
<1>. QED BY <1>2, <1>3, <1>4, <1>5, <1>6, <1>7, <1>8, <1>9 DEF IInv

LEMMA StepInv == IInv /\ [Next]_vars => IInv'
<1>. SUFFICES ASSUME IInv, [Next]_vars PROVE IInv' OBVIOUS
<1>1. Requests BY DEF IInv, Requests
<1>2. TypeOK' BY TypeStep
<1>3. QueueIsTyped' BY QueueTypedStep DEF IInv
<1>4. QueueInOrder' BY QueueOrderStep DEF IInv
<1>5. KeptIsTyped' BY KeptTypedStep DEF IInv
<1>6. RequestsAreTyped' BY <1>1, RequestsTypedStep DEF IInv
<1>7. OneAtWork' BY <1>1, OneAtWorkStep
<1>8. LiveIsHead' BY <1>1, LiveIsHeadStep DEF IInv
<1>9. RevisionsAreTold' BY <1>1, RevisionsStep DEF IInv
<1>10. LogIsTyped' BY LogTypedStep DEF IInv
<1>11. QueueIsLater' BY <1>1, QueueLaterStep DEF IInv
<1>12. KeptIsLatest' BY <1>1, KeptLatestStep DEF IInv
<1>13. CurrentIsLater' BY <1>1, CurrentLaterStep DEF IInv
<1>14. TypedOrder' BY <1>1, TypedOrderStep DEF IInv
<1>15. CreationIsKept' BY <1>1, CreationStep DEF IInv
<1>16. NewestIsKept' BY <1>1, NewestStep DEF IInv
<1>. QED
  BY <1>2, <1>3, <1>4, <1>5, <1>6, <1>7, <1>8, <1>9, <1>10, <1>11, <1>12, <1>13, <1>14, <1>15,
     <1>16 DEF IInv

LEMMA AlwaysInv == Spec => []IInv
BY InitInv, StepInv, PTL DEF Spec

\* Types, and the latest thing a client typed: it waits in the queue or is kept until the
\* server has answered it (FieldQueue and keepPending), and the creation until there is a row.
THEOREM EditsAreKept == Spec => []EditsAreSound
<1>1. IInv => EditsAreSound BY DEF IInv, EditsAreSound
<1>. QED BY <1>1, AlwaysInv, PTL

\* Edits of one client are accepted in the order they were typed, also when one is sent again
\* or served after its client gave it up.
THEOREM TypedOrderHolds == Spec => []TypedOrder
<1>1. IInv => TypedOrder BY DEF IInv
<1>. QED BY <1>1, AlwaysInv, PTL

\* A resend that is accepted replaces a revision its client had been told of when the edit was
\* typed, and so nothing that others wrote since (toWritePlan and the compare-and-set).
THEOREM ResendsReplaceWhatWasSeen == Spec => []ResendSeesConflicts
<1>1. IInv => ResendSeesConflicts
  <2>. SUFFICES ASSUME IInv, NEW i \in DOMAIN log, NEW j \in 1..(i - 1), log[i].again,
                       log[i].edit # 0, typed[log[i].edit].seen < j
                PROVE  FALSE
    BY DEF ResendSeesConflicts
  <2>1. i \in Nat BY LogParts DEF IInv
  <2>2. /\ log[i].edit \in EditsOf(log[i].by)
        /\ i <= typed[log[i].edit].seen + 1
    BY DEF IInv, LogIsTyped
  <2>3. typed[log[i].edit].seen \in Nat BY <2>2, TypedIsTyped DEF IInv, EditsOf
  <2>. QED BY <2>1, <2>2, <2>3
<1>. QED BY <1>1, AlwaysInv, PTL

\* Whoever overwrites a title had been told of the revision he overwrites: the read and the
\* conditional write of writeValueField act as one.
THEOREM NobodyOverwritesBlindly == Spec => NoBlindOverwrite
<1>1. IInv /\ [Next]_vars =>
          [row' # row /\ row.rev > 0 => told[log'[Len(log')].by] >= row.rev]_vars
  <2>. SUFFICES ASSUME IInv, [Next]_vars, row' # row, row.rev > 0
                PROVE  told[log'[Len(log')].by] >= row.rev
    OBVIOUS
  <2>1. PICK r \in requests : Accepted(r) BY LogMoves DEF Created
  <2>2. /\ log \in Seq([by : Clients, edit : Edits, again : BOOLEAN]) /\ Len(log) = row.rev
        /\ r.base = row.rev /\ r.base <= told[r.by] /\ r.by \in Clients
        /\ row.rev \in Nat /\ told[r.by] \in Nat
    BY <2>1, RevisionsGrow, RequestParts DEF IInv, Accepted, TypeOK, RevisionsAreTold
  <2>3. log'[Len(log')].by = r.by BY <2>1, <2>2 DEF Accepted
  <2>. QED BY <2>2, <2>3
<1>. QED BY <1>1, AlwaysInv, PTL DEF Spec, NoBlindOverwrite
==============================================================================
