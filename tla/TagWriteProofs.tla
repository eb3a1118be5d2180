---------------------------- MODULE TagWriteProofs ---------------------------
(***************************************************************************)
(* Proofs about TagWrite, for any clients, any tags and any number of      *)
(* attempts.                                                               *)
(*                                                                         *)
(* changeTags writes the set it computed from the row it read.  That this  *)
(* is what the operation makes of the row it replaces rests on the         *)
(* revision: it only grows, so a request that finds the revision it read   *)
(* finds the tags it read (ReadingAgrees).  That a client's queue has a    *)
(* head to remove when an answer comes rests on there being one request    *)
(* at a time (OneAtWork).                                                  *)
(***************************************************************************)
EXTENDS TagWrite, SequenceTheorems, TLAPS

\* A client waits for one request at a time, which is that of the head of its queue; one
\* it has given up gets no further than the server.
OneAtWork ==
    \A r \in requests :
        /\ r.live \/ r.pc \in {"sent", "read"}
        /\ r.live => /\ queue[r.by] # <<>>
                     /\ \A s \in requests : s.live /\ s.by = r.by => s = r

\* What a request has read is the row, or an older one.
ReadingAgrees ==
    \A r \in requests : r.pc = "read" =>
        /\ r.seen.rev <= row.rev
        /\ r.seen.rev = row.rev => r.seen.tags = row.tags

Disjoint(op) == op.add \intersect op.remove = {}

SoundTask == {x \in Task : Disjoint(x.op)}

\* No operation in a queue puts on and takes off the same tag.
QueuesAreSound == queue \in [Clients -> Seq(SoundTask)]

\* The task of edit e, as it was typed.
Fresh(e) == [kind |-> "fresh", op |-> Diff(typed[e].tag, typed[e].on, e)]

IsTask(c, x) == x = Resend \/ \E e \in EditsOf(c) : x = Fresh(e)

\* Fresh tasks are edits of the client, each as it was made; a resend is made of none.
QueueIsTyped == \A c \in Clients : \A i \in DOMAIN queue[c] : IsTask(c, queue[c][i])

\* A queue is in the order the edits were made in.
QueueInOrder ==
    \A c \in Clients : \A i, j \in DOMAIN queue[c] : i < j =>
        \A e \in queue[c][i].op.of : \A f \in queue[c][j].op.of : e < f

\* An operation puts on and takes off what its latest edits put on and take off.
Spelled(op) ==
    /\ \A e \in op.of : typed[e].tag \in Names(op)
    /\ \A t \in op.add : \E e \in op.of : Latest(op, t, e) /\ typed[e].on
    /\ \A t \in op.remove : \E e \in op.of : Latest(op, t, e) /\ ~typed[e].on

\* Client c may say op: it is made of edits of c.
Speaks(c, op) == op.of \subseteq EditsOf(c) /\ Spelled(op)

\* Whatever is kept, on its way or accepted is spelled by edits of its client.
OpsAreSpelled ==
    /\ \A c \in Clients : Speaks(c, pending[c])
    /\ \A r \in requests : Speaks(r.by, r.op)
    /\ \A i \in DOMAIN log : Speaks(log[i].by, log[i].op)

\* Edit e of c is in a request, or was accepted.
IsSent(c, e) ==
    \/ \E r \in requests : r.by = c /\ e \in r.op.of
    \/ \E i \in DOMAIN log : log[i].by = c /\ e \in log[i].op.of

\* What waits is later than what is kept, and than what was sent, which may be the head.
QueueIsLater ==
    \A c \in Clients : \A i \in DOMAIN queue[c] : \A f \in queue[c][i].op.of :
        /\ \A e \in pending[c].of : e < f
        /\ \A e \in EditsOf(c) : IsSent(c, e) => e <= f

\* The request a client waits for is its head, or what it keeps; once it was refused,
\* nothing is kept, and its edits are answered.
LiveIsHead ==
    \A r \in requests : r.live =>
        /\ IF r.again THEN Head(queue[r.by]) = Resend
           ELSE Head(queue[r.by]).kind = "fresh" /\ Head(queue[r.by]).op = r.op
        /\ IF r.pc \in {"reverting", "fetched"}
             THEN r.op.of \subseteq settled /\ pending[r.by] = NoOp
             ELSE r.again => r.op = pending[r.by]

\* Edit e of c is at the head of the queue.
AtHead(c, e) == queue[c] # <<>> /\ e \in Head(queue[c]).op.of

\* About a tag that something kept is about, no later word was sent than the latest kept,
\* but for the edit at work.
KeptIsLatest ==
    \A c \in Clients : \A e \in EditsOf(c) : IsSent(c, e) =>
        \/ AtHead(c, e)
        \/ \A p \in pending[c].of : typed[p].tag = typed[e].tag =>
               \E q \in pending[c].of : typed[q].tag = typed[e].tag /\ e <= q

Edits ==
    /\ QueueIsTyped /\ QueueInOrder /\ OpsAreSpelled /\ QueueIsLater
    /\ LiveIsHead /\ KeptIsLatest /\ KeptUntilAnswered /\ WordsInOrder

Operations == TypeOK /\ QueuesAreSound /\ OneAtWork /\ ReadingAgrees /\ TagsAreTheOperations

IInv == Operations /\ Edits

-----------------------------------------------------------------------------
(* Lemmas about the operators. *)

\* diffTags of one tag is an operation that does not contradict itself.
LEMMA DiffIsOp ==
    ASSUME NEW t \in Tags, NEW on \in BOOLEAN, NEW e \in 1..MaxEdits
    PROVE  Diff(t, on, e) \in Op /\ Disjoint(Diff(t, on, e))
BY DEF Diff, Op, Disjoint

\* mergeTagOps of two such operations is one again.
LEMMA MergedIsOp ==
    ASSUME NEW p \in Op, NEW q \in Op, Disjoint(p), Disjoint(q)
    PROVE  Merged(p, q) \in Op /\ Disjoint(Merged(p, q))
BY DEF Merged, Op, Disjoint

\* The empty operation is an operation.
LEMMA NothingIsOp == NoOp \in Op /\ Disjoint(NoOp)
BY DEF NoOp, Op, Disjoint

\* What an operation makes of a set of tags.
LEMMA ChangedTags ==
    ASSUME NEW tags \in SUBSET Tags, NEW op \in Op, Disjoint(op)
    PROVE  /\ Changed(tags, op) \in SUBSET Tags
           /\ \A t \in Tags : t \in Changed(tags, op) <=>
                 IF t \in Names(op) THEN t \in op.add ELSE t \in tags
BY DEF Changed, Op, Disjoint, Names

\* One more accepted operation, and the tags it makes of those before.
LEMMA AcceptedOperation ==
    ASSUME TypeOK, TagsAreTheOperations,
           NEW r \in requests, Accept(r), row'.tags = Changed(row.tags, r.op)
    PROVE  TagsAreTheOperations'
<1>. DEFINE x == [by |-> r.by, op |-> r.op, late |-> ~r.live]
            n == Len(log)
            About(t) == {i \in DOMAIN log : t \in Names(log[i].op)}
<1>1. /\ log \in Seq([by : Clients, op : Op, late : BOOLEAN])
      /\ r.op \in Op /\ Disjoint(r.op) /\ row.tags \in SUBSET Tags
  BY DEF TypeOK, Request, Row, Disjoint
<1>2. /\ log' = Append(log, x) /\ n \in Nat
      /\ DOMAIN log = 1..n /\ DOMAIN log' = 1..(n + 1)
      /\ \A i \in 1..n : log'[i] = log[i]
      /\ log'[n + 1] = x /\ x.op = r.op
  BY <1>1 DEF Accept
<1>. SUFFICES ASSUME NEW t \in Tags
              PROVE  LET about == {i \in DOMAIN log' : t \in Names(log'[i].op)} IN
                     t \in row'.tags <=>
                       \E i \in about : t \in log'[i].op.add /\ \A j \in about : j <= i
  BY DEF TagsAreTheOperations, Names
<1>. DEFINE about == {i \in DOMAIN log' : t \in Names(log'[i].op)}
<1>3. t \in row'.tags <=> IF t \in Names(r.op) THEN t \in r.op.add ELSE t \in row.tags
  BY <1>1, ChangedTags
<1>4. t \in row.tags <=>
        \E i \in About(t) : t \in log[i].op.add /\ \A j \in About(t) : j <= i
  BY DEF TagsAreTheOperations
<1>5. CASE t \in Names(r.op)
  <2>1. n + 1 \in about /\ \A j \in about : j <= n + 1
    BY <1>2, <1>5
  <2>2. \A i \in about : (\A j \in about : j <= i) => i = n + 1
    BY <1>2, <2>1
  <2>. QED BY <1>2, <1>3, <1>5, <2>1, <2>2
<1>6. CASE t \notin Names(r.op)
  <2>1. about = About(t)
    BY <1>2, <1>6
  <2>2. \A i \in about : log'[i].op = log[i].op
    BY <1>2, <2>1
  <2>. QED BY <1>3, <1>4, <1>6, <2>1, <2>2
<1>. QED BY <1>5, <1>6

-----------------------------------------------------------------------------
(* Type correctness. *)

\* Removing the head of a queue that has one.
LEMMA TailIsSound ==
    ASSUME QueuesAreSound, NEW c \in Clients, queue[c] # <<>>
    PROVE  [queue EXCEPT ![c] = Tail(@)] \in [Clients -> Seq(SoundTask)]
<1>1. queue[c] \in Seq(SoundTask) BY DEF QueuesAreSound
<1>2. Tail(queue[c]) \in Seq(SoundTask) BY <1>1
<1>. QED BY <1>2 DEF QueuesAreSound

\* A task at the end of a queue.
LEMMA AppendIsSound ==
    ASSUME QueuesAreSound, NEW c \in Clients, NEW x \in SoundTask
    PROVE  [queue EXCEPT ![c] = Append(@, x)] \in [Clients -> Seq(SoundTask)]
<1>1. Append(queue[c], x) \in Seq(SoundTask) BY DEF QueuesAreSound
<1>. QED BY <1>1 DEF QueuesAreSound

\* Sound queues are queues of tasks.
LEMMA SoundIsTyped ==
    ASSUME NEW q \in [Clients -> Seq(SoundTask)]
    PROVE  q \in [Clients -> Seq(Task)]
<1>1. \A s \in Seq(SoundTask) : s \in Seq(Task)
  BY DEF SoundTask
<1>. QED BY <1>1

\* The step of a request that becomes a well-formed one.
LEMMA AdvanceIsTyped ==
    ASSUME TypeOK, NEW r, NEW next \in Request, Disjoint(next.op), Advance(r, next)
    PROVE  /\ requests' \subseteq Request
           /\ \A q \in requests' : q.op.add \intersect q.op.remove = {}
BY DEF TypeOK, Advance, Disjoint

\* A request that a client sends.
LEMMA CallIsTyped ==
    ASSUME TypeOK, NEW c \in Clients, NEW op \in Op, Disjoint(op), NEW again \in BOOLEAN,
           requests' = requests \union {Call(c, op, again)}
    PROVE  /\ requests' \subseteq Request
           /\ \A q \in requests' : q.op.add \intersect q.op.remove = {}
<1>1. 1 \in 1..Attempts BY TagBounds
<1>2. Unread \in Row BY DEF Unread, Row
<1>3. Call(c, op, again) \in Request BY <1>1, <1>2 DEF Call, Request
<1>4. Call(c, op, again).op = op BY DEF Call
<1>. HIDE DEF Call
<1>. QED BY <1>3, <1>4 DEF TypeOK, Disjoint

\* The log of accepted operations stays a sequence of operations.
LEMMA LogIsTyped ==
    ASSUME TypeOK, NEW r \in requests, Accept(r)
    PROVE  log' \in Seq([by : Clients, op : Op, late : BOOLEAN])
<1>1. [by |-> r.by, op |-> r.op, late |-> ~r.live] \in [by : Clients, op : Op, late : BOOLEAN]
  BY DEF TypeOK, Request
<1>. QED BY <1>1 DEF TypeOK, Accept

\* Every step keeps types, and queues without contradictions.
LEMMA TypeInvariant ==
    ASSUME TypeOK, QueuesAreSound, OneAtWork, [Next]_vars
    PROVE  TypeOK' /\ QueuesAreSound'
<1>. USE DEF server, bounds
<1>1. \A r \in requests : /\ r \in Request /\ Disjoint(r.op) /\ r.by \in Clients /\ r.op \in Op
                          /\ r.op.of \subseteq 1..MaxEdits
                          /\ r.live \/ r.pc \in {"sent", "read"}
                          /\ r.live => queue[r.by] # <<>>
  BY DEF TypeOK, OneAtWork, Disjoint, Request, Op
<1>2. \A c \in Clients : pending[c] \in Op /\ Disjoint(pending[c])
  BY DEF TypeOK, Disjoint
<1>3. \A c \in Clients : queue[c] # <<>> =>
        Head(queue[c]) \in Task /\ Head(queue[c]).op \in Op /\ Disjoint(Head(queue[c]).op)
  <2>1. \A c \in Clients : queue[c] # <<>> => Head(queue[c]) \in SoundTask
    BY DEF QueuesAreSound
  <2>. QED BY <2>1 DEF SoundTask, Task
<1>4. ASSUME NEW c \in Clients, NEW t \in Tags, UserToggles(c, t)
      PROVE  TypeOK' /\ QueuesAreSound'
  <2>1. /\ typed \in Seq([by : Clients, tag : Tags, on : BOOLEAN])
        /\ Len(typed) \in Nat /\ Len(typed) < MaxEdits
    BY <1>4 DEF UserToggles, TypeOK
  <2>. DEFINE on == t \notin screen[c]
              edit == [by |-> c, tag |-> t, on |-> on]
              x == [kind |-> "fresh", op |-> Diff(t, on, Len(typed'))]
  <2>2. /\ typed' = Append(typed, edit)
        /\ queue' = [queue EXCEPT ![c] = Append(@, x)]
        /\ screen' = [screen EXCEPT ![c] = IF on THEN @ \union {t} ELSE @ \ {t}]
    BY <1>4 DEF UserToggles
  <2>3. on \in BOOLEAN OBVIOUS
  <2>4. edit \in [by : Clients, tag : Tags, on : BOOLEAN] BY <2>3
  <2>. HIDE DEF edit, on
  <2>5. typed' \in Seq([by : Clients, tag : Tags, on : BOOLEAN]) /\ Len(typed') = Len(typed) + 1
    BY <2>1, <2>2, <2>4
  <2>6. Len(typed') \in 1..MaxEdits BY <2>1, <2>5, TagBounds
  <2>7. x \in SoundTask BY <2>3, <2>6, DiffIsOp DEF SoundTask, Task
  <2>. HIDE DEF x
  <2>8. queue' \in [Clients -> Seq(SoundTask)] BY <2>2, <2>7, AppendIsSound
  <2>9. screen' \in [Clients -> SUBSET Tags] BY <2>2 DEF TypeOK
  <2>. QED BY <1>4, <2>5, <2>8, <2>9, SoundIsTyped DEF UserToggles, TypeOK, QueuesAreSound
<1>5. ASSUME NEW c \in Clients, SendsEdit(c)
      PROVE  TypeOK' /\ QueuesAreSound'
  <2>1. requests' = requests \union {Call(c, Head(queue[c]).op, FALSE)} /\ queue[c] # <<>>
    BY <1>5 DEF SendsEdit, Turn
  <2>. QED BY <1>3, <1>5, <2>1, CallIsTyped DEF SendsEdit, TypeOK, QueuesAreSound
<1>6. ASSUME NEW c \in Clients, Resends(c)
      PROVE  TypeOK' /\ QueuesAreSound'
  <2>1. CASE pending[c] = NoOp
    BY <1>6, <2>1, TailIsSound, SoundIsTyped DEF Resends, Turn, TypeOK, QueuesAreSound
  <2>2. CASE pending[c] # NoOp
    BY <1>2, <1>6, <2>2, CallIsTyped DEF Resends, TypeOK, QueuesAreSound
  <2>. QED BY <2>1, <2>2
<1>7. ASSUME NEW c \in Clients, ListReads(c)
      PROVE  TypeOK' /\ QueuesAreSound'
  <2>1. lists' \in 0..MaxLists BY <1>7, TagBounds DEF ListReads, TypeOK
  <2>2. list' \in [Clients -> SUBSET Tags] BY <1>7 DEF ListReads, TypeOK, Row
  <2>. QED BY <1>7, <2>1, <2>2 DEF ListReads, TypeOK, QueuesAreSound
<1>8. ASSUME NEW c \in Clients, ListApplies(c)
      PROVE  TypeOK' /\ QueuesAreSound'
  <2>1. Resend \in SoundTask BY NothingIsOp DEF Resend, SoundTask, Task
  <2>2. queue' \in [Clients -> Seq(SoundTask)]
    BY <1>8, <2>1, AppendIsSound DEF ListApplies, QueuesAreSound
  <2>3. screen' \in [Clients -> SUBSET Tags] BY <1>8 DEF ListApplies, TypeOK
  <2>. QED BY <1>8, <2>2, <2>3, SoundIsTyped DEF ListApplies, TypeOK, QueuesAreSound
<1>9. ASSUME NEW r \in requests, ServerReads(r)
      PROVE  TypeOK' /\ QueuesAreSound'
  <2>1. CASE row.rev # 0 /\ Changed(row.tags, r.op) = row.tags
    <3>1. [r EXCEPT !.pc = "ok"] \in Request /\ Disjoint([r EXCEPT !.pc = "ok"].op)
      BY <1>1 DEF Request
    <3>. QED BY <1>9, <2>1, <3>1, AdvanceIsTyped, LogIsTyped DEF ServerReads, TypeOK, QueuesAreSound
  <2>2. CASE ~(row.rev # 0 /\ Changed(row.tags, r.op) = row.tags)
    <3>. DEFINE next == [r EXCEPT !.pc = "read", !.seen = row]
    <3>1. next \in Request /\ Disjoint(next.op)
      BY <1>1 DEF Request, TypeOK
    <3>. QED BY <1>9, <2>2, <3>1, AdvanceIsTyped DEF ServerReads, TypeOK, QueuesAreSound
  <2>. QED BY <2>1, <2>2
<1>10. ASSUME NEW r \in requests, ServerWrites(r)
       PROVE  TypeOK' /\ QueuesAreSound'
  <2>1. [r EXCEPT !.pc = "ok"] \in Request /\ Disjoint([r EXCEPT !.pc = "ok"].op)
    BY <1>1 DEF Request
  <2>2. Changed(r.seen.tags, r.op) \in SUBSET Tags
    BY <1>1, ChangedTags DEF Request, Row
  <2>3. row' \in Row BY <1>10, <2>2 DEF ServerWrites, TypeOK, Row
  <2>. QED BY <1>10, <2>1, <2>3, AdvanceIsTyped, LogIsTyped
           DEF ServerWrites, TypeOK, QueuesAreSound
<1>11. ASSUME NEW r \in requests, ServerIsBeaten(r)
       PROVE  TypeOK' /\ QueuesAreSound'
  <2>. DEFINE next == IF r.try < Attempts THEN [r EXCEPT !.pc = "sent", !.try = @ + 1]
                      ELSE [r EXCEPT !.pc = "busy"]
  <2>1. next \in Request /\ Disjoint(next.op)
    <3>1. r.try \in 1..Attempts BY <1>1 DEF Request
    <3>2. CASE r.try < Attempts
      <4>1. r.try + 1 \in 1..Attempts BY <3>1, <3>2, TagBounds
      <4>. QED BY <1>1, <3>2, <4>1 DEF Request
    <3>3. CASE ~(r.try < Attempts)
      BY <1>1, <3>3 DEF Request
    <3>. QED BY <3>2, <3>3
  <2>. QED BY <1>11, <2>1, AdvanceIsTyped DEF ServerIsBeaten, TypeOK, QueuesAreSound
<1>12. ASSUME NEW r \in requests, ServerRefuses(r)
       PROVE  TypeOK' /\ QueuesAreSound'
  <2>1. /\ [r EXCEPT !.pc = "forbidden"] \in Request
        /\ Disjoint([r EXCEPT !.pc = "forbidden"].op)
    BY <1>1 DEF Request
  <2>2. faults' \in 0..MaxFaults BY <1>12, TagBounds DEF ServerRefuses, TypeOK
  <2>. QED BY <1>12, <2>1, <2>2, AdvanceIsTyped DEF ServerRefuses, TypeOK, QueuesAreSound
<1>13. ASSUME NEW r \in requests
       PROVE  /\ Discarded(r) \in [Clients -> Op]
              /\ \A c \in Clients : Discarded(r)[c].add \intersect Discarded(r)[c].remove = {}
  BY <1>1, NothingIsOp DEF Discarded, TypeOK, Disjoint
<1>14. ASSUME NEW r \in requests, r.live, Done(r)
       PROVE  queue' \in [Clients -> Seq(SoundTask)] /\ requests' \subseteq requests
  BY <1>1, <1>14, TailIsSound DEF Done
<1>15. ASSUME NEW r \in requests, GetsAnswer(r)
       PROVE  TypeOK' /\ QueuesAreSound'
  BY <1>1, <1>13, <1>14, <1>15, SoundIsTyped DEF GetsAnswer, TypeOK, QueuesAreSound
<1>16. ASSUME NEW r \in requests, GetsRefusal(r)
       PROVE  TypeOK' /\ QueuesAreSound'
  <2>1. CASE Waiting(r.by)
    BY <1>1, <1>13, <1>14, <1>16, <2>1, SoundIsTyped DEF GetsRefusal, TypeOK, QueuesAreSound
  <2>2. CASE ~Waiting(r.by)
    <3>1. [r EXCEPT !.pc = "reverting"] \in Request /\ [r EXCEPT !.pc = "reverting"].op = r.op
      BY <1>1 DEF Request
    <3>2. /\ requests' \subseteq Request
          /\ \A q \in requests' : q.op.add \intersect q.op.remove = {}
      BY <1>1, <1>16, <2>2, <3>1 DEF GetsRefusal, TypeOK, Disjoint
    <3>. QED BY <1>1, <1>13, <1>16, <2>2, <3>2 DEF GetsRefusal, TypeOK, QueuesAreSound
  <2>. QED BY <2>1, <2>2
<1>17. ASSUME NEW r \in requests, RevertReads(r)
       PROVE  TypeOK' /\ QueuesAreSound'
  <2>1. [r EXCEPT !.pc = "fetched"] \in Request /\ [r EXCEPT !.pc = "fetched"].op = r.op
    BY <1>1 DEF Request
  <2>2. /\ requests' \subseteq Request
        /\ \A q \in requests' : q.op.add \intersect q.op.remove = {}
    BY <1>1, <1>17, <2>1 DEF RevertReads, TypeOK, Disjoint
  <2>3. list' \in [Clients -> SUBSET Tags]
    BY <1>1, <1>17 DEF RevertReads, TypeOK, Row
  <2>. QED BY <1>17, <2>2, <2>3 DEF RevertReads, TypeOK, QueuesAreSound
<1>18. ASSUME NEW r \in requests, RevertApplies(r)
       PROVE  TypeOK' /\ QueuesAreSound'
  <2>1. r.live BY <1>1, <1>18 DEF RevertApplies
  <2>2. screen' \in [Clients -> SUBSET Tags] BY <1>1, <1>18 DEF RevertApplies, TypeOK
  <2>. QED BY <1>14, <1>18, <2>1, <2>2, SoundIsTyped DEF RevertApplies, TypeOK, QueuesAreSound
<1>19. ASSUME NEW r \in requests, Fails(r)
       PROVE  TypeOK' /\ QueuesAreSound'
  <2>1. /\ [r EXCEPT !.live = FALSE] \in Request
        /\ Disjoint([r EXCEPT !.live = FALSE].op)
    BY <1>1 DEF Request
  <2>2. /\ requests' \subseteq Request
        /\ \A q \in requests' : q.op.add \intersect q.op.remove = {}
    BY <1>19, <2>1, AdvanceIsTyped DEF Fails
  <2>3. queue' \in [Clients -> Seq(SoundTask)]
    BY <1>1, <1>19, TailIsSound DEF Fails
  <2>4. Merged(pending[r.by], r.op) \in Op /\ Disjoint(Merged(pending[r.by], r.op))
    BY <1>1, <1>2, MergedIsOp
  <2>5. /\ pending' \in [Clients -> Op]
        /\ \A c \in Clients : pending'[c].add \intersect pending'[c].remove = {}
    BY <1>1, <1>19, <2>4 DEF Fails, Kept, TypeOK, Disjoint
  <2>6. faults' \in 0..MaxFaults BY <1>19, TagBounds DEF Fails, TypeOK
  <2>. QED BY <1>19, <2>2, <2>3, <2>5, <2>6, SoundIsTyped DEF Fails, TypeOK, QueuesAreSound
<1>20. CASE UNCHANGED vars
  BY <1>20 DEF vars, TypeOK, QueuesAreSound
<1>. QED
  BY <1>4, <1>5, <1>6, <1>7, <1>8, <1>9, <1>10, <1>11, <1>12, <1>15, <1>16, <1>17, <1>18,
     <1>19, <1>20 DEF Next, ClientStep, ServerStep, AnswerStep

-----------------------------------------------------------------------------
(* The safety invariants. *)

\* A request that goes on is still the only one its client waits for.
LEMMA AdvanceKeepsOne ==
    ASSUME OneAtWork, NEW r \in requests, NEW next,
           next.by = r.by, next.live => r.live, Advance(r, next), UNCHANGED queue
    PROVE  OneAtWork'
BY DEF OneAtWork, Advance

\* No client gets a second request to wait for: whatever answers takes its task along.
LEMMA OneInvariant ==
    ASSUME TypeOK, OneAtWork, [Next]_vars
    PROVE  OneAtWork'
<1>. USE DEF server, bounds
<1>1. \A r \in requests : r \in Request /\ r.by \in Clients
  BY DEF TypeOK, Request
<1>2. queue \in [Clients -> Seq(Task)]
  BY DEF TypeOK
<1>3. ASSUME NEW c \in Clients, NEW x \in Task, queue' = [queue EXCEPT ![c] = Append(@, x)],
             UNCHANGED requests
      PROVE  OneAtWork'
  <2>1. \A q \in Seq(Task) : Append(q, x) # <<>> BY AppendProperties
  <2>. QED BY <1>1, <1>2, <1>3, <2>1 DEF OneAtWork
<1>4. ASSUME NEW c \in Clients, NEW op, NEW again, Live(c) = {}, queue[c] # <<>>,
             requests' = requests \union {Call(c, op, again)}, UNCHANGED queue
      PROVE  OneAtWork'
  <2>1. /\ Call(c, op, again).by = c
        /\ Call(c, op, again).pc = "sent"
    BY DEF Call
  <2>2. \A r \in requests : r.live => r.by # c BY <1>4 DEF Live
  <2>. QED BY <1>4, <2>1, <2>2 DEF OneAtWork
<1>5. ASSUME NEW r \in requests, r.live, NEW rest, requests' = rest,
             \A q \in rest : q \in requests \ {r} \/ (~q.live /\ q.pc \in {"sent", "read"}),
             queue' = [queue EXCEPT ![r.by] = Tail(@)]
      PROVE  OneAtWork'
  BY <1>1, <1>2, <1>5 DEF OneAtWork
<1>6. ASSUME NEW c \in Clients, ClientStep(c)
      PROVE  OneAtWork'
  <2>1. CASE \E t \in Tags : UserToggles(c, t)
    <3>. PICK t \in Tags : UserToggles(c, t) BY <2>1
    <3>. DEFINE x == [kind |-> "fresh", op |-> Diff(t, t \notin screen[c], Len(typed'))]
    <3>1. Len(typed') \in 1..MaxEdits
      <4>1. /\ typed \in Seq([by : Clients, tag : Tags, on : BOOLEAN])
            /\ Len(typed) < MaxEdits
        BY DEF TypeOK, UserToggles
      <4>2. Len(typed') = Len(typed) + 1
        BY <4>1 DEF UserToggles
      <4>. QED BY <4>1, <4>2, TagBounds
    <3>2. x \in Task BY <3>1, DiffIsOp DEF Task
    <3>. QED BY <1>3, <3>2 DEF UserToggles
  <2>2. CASE SendsEdit(c)
    BY <1>4, <2>2 DEF SendsEdit, Turn
  <2>3. CASE Resends(c)
    <3>1. CASE pending[c] = NoOp
      BY <1>1, <1>2, <2>3, <3>1 DEF Resends, Turn, Live, OneAtWork
    <3>2. CASE pending[c] # NoOp
      BY <1>4, <2>3, <3>2 DEF Resends, Turn
    <3>. QED BY <3>1, <3>2
  <2>4. CASE ListReads(c)
    BY <2>4 DEF ListReads, OneAtWork
  <2>5. CASE ListApplies(c)
    <3>1. CASE UNCHANGED queue
      BY <2>5, <3>1 DEF ListApplies, OneAtWork
    <3>2. CASE queue' = [queue EXCEPT ![c] = Append(@, Resend)]
      <4>1. Resend \in Task BY NothingIsOp DEF Resend, Task
      <4>. QED BY <1>3, <2>5, <3>2, <4>1 DEF ListApplies
    <3>. QED BY <2>5, <3>1, <3>2 DEF ListApplies
  <2>. QED BY <1>6, <2>1, <2>2, <2>3, <2>4, <2>5 DEF ClientStep
<1>7. ASSUME NEW r \in requests, ServerStep(r)
      PROVE  OneAtWork'
  <2>. USE <1>1 DEF Request
  <2>1. CASE ServerReads(r)
    BY <2>1, AdvanceKeepsOne DEF ServerReads
  <2>2. CASE ServerWrites(r)
    BY <2>2, AdvanceKeepsOne DEF ServerWrites
  <2>3. CASE ServerIsBeaten(r)
    BY <2>3, AdvanceKeepsOne DEF ServerIsBeaten
  <2>4. CASE ServerRefuses(r)
    BY <2>4, AdvanceKeepsOne DEF ServerRefuses
  <2>. QED BY <1>7, <2>1, <2>2, <2>3, <2>4 DEF ServerStep
<1>8. ASSUME NEW r \in requests, AnswerStep(r)
      PROVE  OneAtWork'
  <2>1. CASE GetsAnswer(r)
    BY <1>5, <2>1 DEF GetsAnswer, Done
  <2>2. CASE GetsRefusal(r)
    <3>1. CASE Waiting(r.by)
      BY <1>5, <2>2, <3>1 DEF GetsRefusal, Done
    <3>2. CASE ~Waiting(r.by)
      BY <1>1, <2>2, <3>2 DEF GetsRefusal, OneAtWork, Request
    <3>. QED BY <3>1, <3>2
  <2>3. CASE RevertReads(r)
    BY <1>1, <2>3 DEF RevertReads, OneAtWork, Request
  <2>4. CASE RevertApplies(r)
    <3>1. r.live BY <2>4 DEF RevertApplies, OneAtWork
    <3>. QED BY <1>5, <2>4, <3>1 DEF RevertApplies, Done
  <2>5. CASE Fails(r)
    <3>. DEFINE next == [r EXCEPT !.live = FALSE]
    <3>1. ~next.live BY <1>1 DEF Request
    <3>2. \A q \in requests' :
            q \in requests \ {r} \/ (~q.live /\ q.pc \in {"sent", "read"})
      BY <2>5, <3>1 DEF Fails, Advance
    <3>. QED BY <1>5, <2>5, <3>2 DEF Fails
  <2>. QED BY <1>8, <2>1, <2>2, <2>3, <2>4, <2>5 DEF AnswerStep
<1>9. CASE UNCHANGED vars
  BY <1>9 DEF vars, OneAtWork
<1>. QED BY <1>6, <1>7, <1>8, <1>9 DEF Next

\* Requests that have read nothing new, beside a row that has not been written.
LEMMA StillAgrees ==
    ASSUME ReadingAgrees, UNCHANGED row,
           \A q \in requests' : q.pc = "read" =>
               \E r \in requests : r.pc = "read" /\ r.seen = q.seen
    PROVE  ReadingAgrees'
BY DEF ReadingAgrees

\* No write changes the tags under a revision already read.
LEMMA ReadingInvariant ==
    ASSUME TypeOK, ReadingAgrees, [Next]_vars
    PROVE  ReadingAgrees'
<1>. USE DEF server, bounds
<1>1. \A r \in requests : r \in Request
  BY DEF TypeOK
<1>2. ASSUME NEW c \in Clients, ClientStep(c)
      PROVE  ReadingAgrees'
  <2>1. CASE UNCHANGED <<row, requests>>
    BY <2>1, StillAgrees
  <2>2. CASE SendsEdit(c) \/ Resends(c)
    <3>1. \A op, again : Call(c, op, again).pc # "read" BY DEF Call
    <3>2. \A q \in requests' : q \in requests \/ q.pc # "read"
      BY <2>2, <3>1 DEF SendsEdit, Resends
    <3>. QED BY <2>2, <3>2, StillAgrees DEF SendsEdit, Resends
  <2>. QED BY <1>2, <2>1, <2>2 DEF ClientStep, UserToggles, ListReads, ListApplies
<1>3. ASSUME NEW r \in requests, ServerReads(r)
      PROVE  ReadingAgrees'
  <2>1. row' = row /\ row.rev \in Nat
    BY <1>3 DEF ServerReads, TypeOK, Row
  <2>2. \A q \in requests' : q \in requests \/ q.pc # "read" \/ q.seen = row
    <3>1. r \in Request BY <1>1
    <3>2. [r EXCEPT !.pc = "ok"].pc = "ok" BY <3>1 DEF Request
    <3>3. [r EXCEPT !.pc = "read", !.seen = row].seen = row BY <3>1 DEF Request
    <3>. QED BY <1>3, <3>2, <3>3 DEF ServerReads, Advance
  <2>. QED BY <2>1, <2>2 DEF ReadingAgrees
<1>4. ASSUME NEW r \in requests, ServerWrites(r)
      PROVE  ReadingAgrees'
  <2>1. row'.rev = row.rev + 1 /\ row.rev \in Nat
    BY <1>4 DEF ServerWrites, TypeOK, Row
  <2>2. \A q \in requests' : q \in requests \/ q.pc # "read"
    BY <1>1, <1>4 DEF ServerWrites, Advance, Request
  <2>3. \A q \in requests : q.seen.rev \in Nat
    BY <1>1 DEF Request, Row
  <2>. QED BY <2>1, <2>2, <2>3 DEF ReadingAgrees
<1>5. ASSUME NEW r \in requests, ServerIsBeaten(r) \/ ServerRefuses(r) \/ AnswerStep(r)
      PROVE  ReadingAgrees'
  <2>1. CASE ServerIsBeaten(r) \/ ServerRefuses(r)
    BY <1>1, <2>1, StillAgrees DEF ServerIsBeaten, ServerRefuses, Advance, Request
  <2>2. CASE GetsAnswer(r) \/ GetsRefusal(r) \/ RevertReads(r) \/ RevertApplies(r)
    BY <1>1, <2>2, StillAgrees
       DEF GetsAnswer, GetsRefusal, RevertReads, RevertApplies, Done, Request
  <2>3. CASE Fails(r)
    BY <1>1, <2>3, StillAgrees DEF Fails, Advance, Request
  <2>. QED BY <1>5, <2>1, <2>2, <2>3 DEF AnswerStep
<1>6. CASE UNCHANGED vars
  BY <1>6 DEF vars, ReadingAgrees
<1>. QED BY <1>2, <1>3, <1>4, <1>5, <1>6 DEF Next, ServerStep

\* A write that finds its revision writes what the operation makes of the row.
LEMMA TagsInvariant ==
    ASSUME TypeOK, ReadingAgrees, TagsAreTheOperations, [Next]_vars
    PROVE  TagsAreTheOperations'
<1>. USE DEF server, bounds
<1>1. CASE UNCHANGED <<row, log>>
  BY <1>1 DEF TagsAreTheOperations, Names
<1>2. ASSUME NEW r \in requests, ServerReads(r)
      PROVE  TagsAreTheOperations'
  BY <1>1, <1>2, AcceptedOperation DEF ServerReads
<1>3. ASSUME NEW r \in requests, ServerWrites(r)
      PROVE  TagsAreTheOperations'
  <2>1. r.seen.tags = row.tags
    BY <1>3 DEF ServerWrites, MayWrite, ReadingAgrees
  <2>. QED BY <1>3, <2>1, AcceptedOperation DEF ServerWrites
<1>4. ASSUME NEW r \in requests, ServerIsBeaten(r) \/ ServerRefuses(r) \/ AnswerStep(r)
      PROVE  UNCHANGED <<row, log>>
  BY <1>4 DEF ServerIsBeaten, ServerRefuses, AnswerStep, GetsAnswer, GetsRefusal, RevertReads,
              RevertApplies, Fails
<1>5. ASSUME NEW c \in Clients, ClientStep(c)
      PROVE  UNCHANGED <<row, log>>
  BY <1>5 DEF ClientStep, UserToggles, SendsEdit, Resends, ListReads, ListApplies
<1>6. CASE UNCHANGED vars
  BY <1>1, <1>6 DEF vars
<1>. QED BY <1>1, <1>2, <1>3, <1>4, <1>5, <1>6 DEF Next, ServerStep

-----------------------------------------------------------------------------
(* Edits, from the screen to the log: what a step does. *)

\* Nothing is typed, queued or kept.
Stays == UNCHANGED <<typed, queue, pending>>

\* A resend is queued.
Asks(c) ==
    /\ queue' = [queue EXCEPT ![c] = Append(@, Resend)]
    /\ UNCHANGED <<typed, pending>>

\* The request at work is answered: nothing is kept, and its task goes at once or later.
Drops(c) ==
    /\ queue[c] # <<>>
    /\ queue' = queue \/ queue' = [queue EXCEPT ![c] = Tail(@)]
    /\ pending' = [pending EXCEPT ![c] = NoOp]
    /\ typed' = typed
    /\ Head(queue[c]).op.of \subseteq settled'
    /\ Head(queue[c]) = Resend => pending[c].of \subseteq settled'

\* The request at work has failed: an edit is added to what is kept.
Keeps(c) ==
    /\ queue[c] # <<>>
    /\ queue' = [queue EXCEPT ![c] = Tail(@)]
    /\ pending' = IF Head(queue[c]) = Resend THEN pending
                  ELSE [pending EXCEPT ![c] = Merged(@, Head(queue[c]).op)]
    /\ typed' = typed

\* The head of the queue is sent, or what is kept.
Sends(c, op) == Stays /\ queue[c] # <<>> /\ (op = Head(queue[c]).op \/ op = pending[c])

\* A queue without its head.
LEMMA QueueTail ==
    ASSUME NEW q \in Seq(Task), q # <<>>
    PROVE  /\ DOMAIN q = 1..Len(q) /\ Len(q) \in Nat \ {0} /\ 1 \in DOMAIN q
           /\ Head(q) = q[1] /\ Head(q) \in Task
           /\ DOMAIN Tail(q) = 1..(Len(q) - 1)
           /\ \A i \in DOMAIN Tail(q) : i + 1 \in DOMAIN q /\ Tail(q)[i] = q[i + 1]
OBVIOUS

\* A queue with one more task.
LEMMA QueueAppend ==
    ASSUME NEW q \in Seq(Task), NEW x \in Task
    PROVE  /\ Append(q, x) # <<>> /\ q # <<>> => Head(Append(q, x)) = Head(q)
           /\ DOMAIN Append(q, x) = 1..(Len(q) + 1) /\ DOMAIN q = 1..Len(q) /\ Len(q) \in Nat
           /\ \A i \in DOMAIN q : Append(q, x)[i] = q[i]
           /\ Append(q, x)[Len(q) + 1] = x
OBVIOUS

\* The two kinds of tasks.
LEMMA HeadIsTyped ==
    ASSUME TypeOK, QueueIsTyped, NEW c \in Clients, queue[c] # <<>>
    PROVE  /\ queue[c] \in Seq(Task)
           /\ Head(queue[c]) = queue[c][1] /\ 1 \in DOMAIN queue[c]
           /\ Resend.kind = "resend" /\ Resend.op = NoOp /\ NoOp.of = {}
           /\ Head(queue[c]).kind = "resend" <=> Head(queue[c]) = Resend
           /\ Head(queue[c]) # Resend => \E e \in EditsOf(c) : Head(queue[c]) = Fresh(e)
<1>1. queue[c] \in Seq(Task) BY DEF TypeOK
<1>2. Head(queue[c]) = queue[c][1] /\ 1 \in DOMAIN queue[c] BY <1>1, QueueTail
<1>3. Resend.kind = "resend" /\ Resend.op = NoOp /\ NoOp.of = {} BY DEF Resend, NoOp
<1>4. queue[c][1] = Resend \/ \E e \in EditsOf(c) : queue[c][1] = Fresh(e)
  BY <1>2 DEF QueueIsTyped, IsTask
<1>5. \A e : Fresh(e).kind # Resend.kind
  BY <1>3 DEF Fresh
<1>6. Head(queue[c]).kind = "resend" <=> Head(queue[c]) = Resend
  BY <1>2, <1>3, <1>4, <1>5
<1>. QED BY <1>1, <1>2, <1>3, <1>4, <1>6

\* Edits are numbers, and those made stay as they were.
LEMMA TypedStays ==
    ASSUME TypeOK, [Next]_vars
    PROVE  /\ DOMAIN typed = 1..Len(typed) /\ Len(typed) \in Nat
           /\ DOMAIN typed \subseteq DOMAIN typed'
           /\ DOMAIN typed' \subseteq 1..(Len(typed) + 1)
           /\ \A e \in DOMAIN typed : typed'[e] = typed[e]
           /\ \A e \in DOMAIN typed : typed[e].tag \in Tags /\ typed[e].on \in BOOLEAN
           /\ \A c : EditsOf(c) \subseteq EditsOf(c)'
<1>. USE DEF server, bounds
<1>1. typed \in Seq([by : Clients, tag : Tags, on : BOOLEAN])
  BY DEF TypeOK
<1>2. \/ typed' = typed
      \/ \E x \in [by : Clients, tag : Tags, on : BOOLEAN] : typed' = Append(typed, x)
  <2>1. ASSUME NEW c \in Clients, NEW t \in Tags, UserToggles(c, t)
        PROVE  \E x \in [by : Clients, tag : Tags, on : BOOLEAN] : typed' = Append(typed, x)
    <3>1. [by |-> c, tag |-> t, on |-> t \notin screen[c]] \in
            [by : Clients, tag : Tags, on : BOOLEAN]
      OBVIOUS
    <3>. QED BY <2>1, <3>1 DEF UserToggles
  <2>5. ASSUME NEW c \in Clients, SendsEdit(c) \/ Resends(c) \/ ListReads(c) \/ ListApplies(c)
        PROVE  typed' = typed
    BY <2>5 DEF SendsEdit, Resends, ListReads, ListApplies
  <2>2. ASSUME NEW r \in requests, ServerStep(r) PROVE typed' = typed
    BY <2>2 DEF ServerStep, ServerReads, ServerWrites, ServerIsBeaten, ServerRefuses
  <2>3. ASSUME NEW r \in requests, AnswerStep(r) PROVE typed' = typed
    BY <2>3 DEF AnswerStep, GetsAnswer, GetsRefusal, RevertReads, RevertApplies, Fails
  <2>4. CASE UNCHANGED vars BY <2>4 DEF vars
  <2>. QED BY <2>1, <2>2, <2>3, <2>4, <2>5 DEF Next, ClientStep
<1>3. /\ DOMAIN typed \subseteq DOMAIN typed' /\ DOMAIN typed' \subseteq 1..(Len(typed) + 1)
      /\ \A e \in DOMAIN typed : typed'[e] = typed[e]
  BY <1>1, <1>2
<1>4. \A e \in DOMAIN typed : typed[e] \in [by : Clients, tag : Tags, on : BOOLEAN]
  <2>. DEFINE E == [by : Clients, tag : Tags, on : BOOLEAN]
  <2>. HIDE DEF E
  <2>1. typed \in Seq(E) BY <1>1 DEF E
  <2>2. \A e \in DOMAIN typed : typed[e] \in E BY <2>1
  <2>. QED BY <2>2 DEF E
<1>5. \A e \in DOMAIN typed : typed[e].tag \in Tags /\ typed[e].on \in BOOLEAN
  BY <1>4
<1>. QED BY <1>1, <1>3, <1>5 DEF EditsOf

\* What a client spells is not changed by what is typed later.
LEMMA SpellingStays ==
    ASSUME TypeOK, [Next]_vars
    PROVE  \A c, op : Speaks(c, op) => Speaks(c, op)'
<1>. SUFFICES ASSUME NEW c, NEW op, Speaks(c, op) PROVE Speaks(c, op)' OBVIOUS
<1>1. op.of \subseteq EditsOf(c)' /\ op.of \subseteq DOMAIN typed
  BY TypedStays DEF Speaks, EditsOf
<1>2. \A e \in op.of : typed'[e] = typed[e]
  BY <1>1, TypedStays
<1>3. \A t, e : Latest(op, t, e) <=> Latest(op, t, e)'
  BY <1>2 DEF Latest
<1>4. Spelled(op)'
  BY <1>2, <1>3 DEF Speaks, Spelled, Latest
<1>. QED BY <1>1, <1>4 DEF Speaks

\* Where the operations in requests and in the log come from.
LEMMA SentStep ==
    ASSUME TypeOK, [Next]_vars
    PROVE  /\ \A q \in requests' :
                 (\E r \in requests : r.by = q.by /\ r.op = q.op) \/ Sends(q.by, q.op)
           /\ \A i \in DOMAIN log' :
                 \/ i \in DOMAIN log /\ log'[i] = log[i]
                 \/ \E r \in requests : r.by = log'[i].by /\ r.op = log'[i].op
<1>. DEFINE Asked == \A q \in requests' :
                         (\E r \in requests : r.by = q.by /\ r.op = q.op) \/ Sends(q.by, q.op)
            Logged == \A i \in DOMAIN log' :
                         \/ i \in DOMAIN log /\ log'[i] = log[i]
                         \/ \E r \in requests : r.by = log'[i].by /\ r.op = log'[i].op
<1>. USE DEF server, bounds
<1>1. \A r \in requests : r \in Request
  BY DEF TypeOK
<1>2. log \in Seq([by : Clients, op : Op, late : BOOLEAN])
  BY DEF TypeOK
<1>3. ASSUME NEW c \in Clients, ClientStep(c)
      PROVE  Asked /\ Logged
  <2>1. Logged
    BY <1>3 DEF ClientStep, UserToggles, SendsEdit, Resends, ListReads, ListApplies
  <2>2. CASE UNCHANGED requests BY <2>1, <2>2
  <2>3. CASE SendsEdit(c)
    <3>1. \A q \in requests' : q \in requests \/ (q.by = c /\ q.op = Head(queue[c]).op)
      BY <2>3 DEF SendsEdit, Call
    <3>. QED BY <2>1, <2>3, <3>1 DEF SendsEdit, Turn, Sends, Stays
  <2>4. CASE Resends(c) /\ pending[c] # NoOp
    <3>1. \A q \in requests' : q \in requests \/ (q.by = c /\ q.op = pending[c])
      BY <2>4 DEF Resends, Call
    <3>. QED BY <2>1, <2>4, <3>1 DEF Resends, Turn, Sends, Stays
  <2>. QED BY <1>3, <2>2, <2>3, <2>4 DEF ClientStep, UserToggles, Resends, ListReads, ListApplies
<1>4. ASSUME NEW r \in requests, NEW next, Advance(r, next), next.by = r.by, next.op = r.op
      PROVE  Asked
  BY <1>4 DEF Advance
<1>5. ASSUME NEW r \in requests, Accept(r)
      PROVE  Logged
  <2>. DEFINE x == [by |-> r.by, op |-> r.op, late |-> ~r.live]
  <2>1. log' = Append(log, x) /\ x.by = r.by /\ x.op = r.op BY <1>5 DEF Accept
  <2>. HIDE DEF x
  <2>2. \A i \in DOMAIN log' : (i \in DOMAIN log /\ log'[i] = log[i]) \/ log'[i] = x
    BY <1>2, <2>1
  <2>. QED BY <2>1, <2>2
<1>6. ASSUME NEW r \in requests, ServerStep(r)
      PROVE  Asked /\ Logged
  <2>. USE <1>1 DEF Request
  <2>1. CASE ServerReads(r) BY <1>4, <1>5, <2>1 DEF ServerReads
  <2>2. CASE ServerWrites(r) BY <1>4, <1>5, <2>2 DEF ServerWrites
  <2>3. CASE ServerIsBeaten(r) BY <1>4, <2>3 DEF ServerIsBeaten
  <2>4. CASE ServerRefuses(r) BY <1>4, <2>4 DEF ServerRefuses
  <2>. QED BY <1>6, <2>1, <2>2, <2>3, <2>4 DEF ServerStep
<1>7. ASSUME NEW r \in requests, AnswerStep(r)
      PROVE  Asked /\ Logged
  <2>. USE <1>1 DEF Request
  <2>1. CASE GetsAnswer(r) BY <2>1 DEF GetsAnswer, Done
  <2>2. CASE GetsRefusal(r) BY <2>2 DEF GetsRefusal, Done
  <2>3. CASE RevertReads(r) BY <2>3 DEF RevertReads
  <2>4. CASE RevertApplies(r) BY <2>4 DEF RevertApplies, Done
  <2>5. CASE Fails(r) BY <1>4, <2>5 DEF Fails
  <2>. QED BY <1>7, <2>1, <2>2, <2>3, <2>4, <2>5 DEF AnswerStep
<1>8. CASE UNCHANGED vars
  BY <1>8 DEF vars
<1>. QED BY <1>3, <1>6, <1>7, <1>8 DEF Next

\* What a step does to what is typed, queued and kept.
LEMMA Shapes ==
    ASSUME TypeOK, OneAtWork, QueueIsTyped, LiveIsHead, [Next]_vars
    PROVE  \/ Stays
           \/ \E c \in Clients : (\E t \in Tags : UserToggles(c, t)) \/ Asks(c) \/ Drops(c) \/ Keeps(c)
<1>. USE DEF server, bounds
<1>1. \A r \in requests : r \in Request /\ r.by \in Clients
  BY DEF TypeOK, Request
<1>2. queue \in [Clients -> Seq(Task)] /\ pending \in [Clients -> Op]
  BY DEF TypeOK
<1>3. \A c \in Clients : queue[c] # <<>> =>
        (Head(queue[c]).kind = "resend" <=> Head(queue[c]) = Resend) /\ Resend.op = NoOp /\ NoOp.of = {}
  BY HeadIsTyped
<1>4. ASSUME NEW c \in Clients, ClientStep(c)
      PROVE  Stays \/ (\E t \in Tags : UserToggles(c, t)) \/ Asks(c) \/ Keeps(c)
  <2>1. CASE Resends(c) /\ pending[c] = NoOp
    BY <1>3, <2>1 DEF Resends, Turn, Keeps
  <2>2. CASE ListApplies(c)
    BY <2>2 DEF ListApplies, Asks, Stays
  <2>. QED BY <1>4, <2>1, <2>2 DEF ClientStep, SendsEdit, Resends, ListReads, Stays
<1>5. ASSUME NEW r \in requests, ServerStep(r)
      PROVE  Stays
  BY <1>5 DEF ServerStep, ServerReads, ServerWrites, ServerIsBeaten, ServerRefuses, Stays
<1>6. ASSUME NEW r \in requests, r.live
      PROVE  /\ queue[r.by] # <<>>
             /\ r.again <=> Head(queue[r.by]) = Resend
             /\ ~r.again => Head(queue[r.by]).op = r.op
             /\ r.pc \notin {"reverting", "fetched"} => (r.again => r.op = pending[r.by])
             /\ r.pc \in {"reverting", "fetched"} =>
                  r.op.of \subseteq settled /\ pending[r.by] = NoOp
  <2>1. queue[r.by] # <<>> BY <1>6 DEF OneAtWork
  <2>2. Resend.kind # "fresh" BY DEF Resend
  <2>. QED BY <1>1, <1>6, <2>1, <2>2 DEF LiveIsHead
<1>7. ASSUME NEW r \in requests, r.live, r.pc \notin {"reverting", "fetched"}
      PROVE  Discarded(r) = [pending EXCEPT ![r.by] = NoOp]
  BY <1>6, <1>7 DEF Discarded, SameOp
<1>8. ASSUME NEW r \in requests, AnswerStep(r)
      PROVE  Stays \/ Drops(r.by) \/ Keeps(r.by)
  <2>1. CASE GetsAnswer(r)
    <3>1. r.live /\ r.pc \notin {"reverting", "fetched"} BY <2>1 DEF GetsAnswer
    <3>. QED BY <1>3, <1>1, <1>6, <1>7, <2>1, <3>1 DEF GetsAnswer, Done, Drops
  <2>2. CASE GetsRefusal(r)
    <3>1. r.live /\ r.pc \notin {"reverting", "fetched"} BY <2>2 DEF GetsRefusal
    <3>2. queue' = queue \/ queue' = [queue EXCEPT ![r.by] = Tail(@)]
      BY <2>2 DEF GetsRefusal, Done
    <3>3. /\ typed' = typed /\ settled' = settled \union r.op.of
          /\ pending' = [pending EXCEPT ![r.by] = NoOp]
      BY <1>7, <2>2, <3>1 DEF GetsRefusal
    <3>. QED BY <1>3, <1>1, <1>6, <3>1, <3>2, <3>3 DEF Drops
  <2>3. CASE RevertReads(r)
    BY <2>3 DEF RevertReads, Stays
  <2>4. CASE RevertApplies(r)
    <3>1. r.live /\ r.pc = "fetched" BY <2>4 DEF RevertApplies, OneAtWork
    <3>2. /\ queue' = [queue EXCEPT ![r.by] = Tail(@)]
          /\ UNCHANGED <<typed, pending, settled>>
      BY <2>4 DEF RevertApplies, Done
    <3>3. pending' = [pending EXCEPT ![r.by] = NoOp]
      BY <1>2, <1>6, <3>1, <3>2
    <3>4. r.op.of \subseteq settled /\ pending[r.by] = NoOp
      BY <1>6, <3>1
    <3>. QED BY <1>3, <1>1, <1>6, <3>1, <3>2, <3>3, <3>4 DEF Drops
  <2>5. CASE Fails(r)
    <3>1. r.live /\ r.pc \notin {"reverting", "fetched"} BY <2>5 DEF Fails
    <3>. QED BY <1>6, <2>5, <3>1 DEF Fails, Kept, Keeps
  <2>. QED BY <1>8, <2>1, <2>2, <2>3, <2>4, <2>5 DEF AnswerStep
<1>9. CASE UNCHANGED vars
  BY <1>9 DEF vars, Stays
<1>. QED BY <1>1, <1>4, <1>5, <1>8, <1>9 DEF Next

\* Whatever an edit is in now, it was in before, but for what is just sent.
LEMMA SentEdits ==
    ASSUME TypeOK, [Next]_vars, NEW c \in Clients, NEW e, IsSent(c, e)'
    PROVE  \/ IsSent(c, e)
           \/ Stays /\ queue[c] # <<>> /\ (e \in Head(queue[c]).op.of \/ e \in pending[c].of)
<1>1. CASE \E q \in requests' : q.by = c /\ e \in q.op.of
  <2>. PICK q \in requests' : q.by = c /\ e \in q.op.of BY <1>1
  <2>. QED BY SentStep DEF IsSent, Sends
<1>2. CASE \E i \in DOMAIN log' : log'[i].by = c /\ e \in log'[i].op.of
  <2>. PICK i \in DOMAIN log' : log'[i].by = c /\ e \in log'[i].op.of BY <1>2
  <2>. QED BY SentStep DEF IsSent
<1>. QED BY <1>1, <1>2 DEF IsSent

\* The edits in a queue are edits of its client, one to a task.
LEMMA QueueEdits ==
    ASSUME TypeOK, QueueIsTyped, NEW c \in Clients
    PROVE  /\ queue[c] \in Seq(Task)
           /\ DOMAIN typed = 1..Len(typed) /\ Len(typed) \in Nat
           /\ EditsOf(c) \subseteq 1..Len(typed)
           /\ \A i \in DOMAIN queue[c] :
                 /\ queue[c][i].op.of \subseteq EditsOf(c)
                 /\ \A e, f \in queue[c][i].op.of : e = f
<1>1. queue[c] \in Seq(Task) BY DEF TypeOK
<1>2. DOMAIN typed = 1..Len(typed) /\ Len(typed) \in Nat BY DEF TypeOK
<1>3. EditsOf(c) \subseteq 1..Len(typed) BY <1>2 DEF EditsOf
<1>4. ASSUME NEW i \in DOMAIN queue[c]
      PROVE  /\ queue[c][i].op.of \subseteq EditsOf(c)
             /\ \A e, f \in queue[c][i].op.of : e = f
  <2>1. Resend.op.of = {} BY DEF Resend, NoOp
  <2>2. \A e : Fresh(e).op.of = {e} BY DEF Fresh, Diff
  <2>. QED BY <2>1, <2>2 DEF QueueIsTyped, IsTask
<1>. QED BY <1>1, <1>2, <1>3, <1>4

\* One more edit of client c: the latest, and the last in its queue.
LEMMA NewEdit ==
    ASSUME TypeOK, NEW c \in Clients, NEW t \in Tags, UserToggles(c, t),
           NEW n, n = Len(typed) + 1
    PROVE  /\ Len(typed) \in Nat /\ DOMAIN typed = 1..Len(typed) /\ DOMAIN typed' = 1..n
           /\ \A e \in DOMAIN typed : typed'[e] = typed[e]
           /\ typed'[n].by = c
           /\ Fresh(n)' \in Task /\ Fresh(n)'.op.of = {n}
           /\ queue' = [queue EXCEPT ![c] = Append(@, Fresh(n)')]
           /\ UNCHANGED <<requests, log, pending, settled>>
<1>. USE DEF server, bounds
<1>. DEFINE edit == [by |-> c, tag |-> t, on |-> t \notin screen[c]]
<1>1. /\ typed \in Seq([by : Clients, tag : Tags, on : BOOLEAN])
      /\ edit \in [by : Clients, tag : Tags, on : BOOLEAN]
      /\ typed' = Append(typed, edit) /\ Len(typed) < MaxEdits
  BY DEF TypeOK, UserToggles
<1>2. edit.by = c /\ edit.tag = t /\ edit.on = (t \notin screen[c])
  OBVIOUS
<1>. HIDE DEF edit
<1>3. /\ Len(typed) \in Nat /\ DOMAIN typed = 1..Len(typed) /\ DOMAIN typed' = 1..n
      /\ \A e \in DOMAIN typed : typed'[e] = typed[e]
      /\ typed'[n] = edit /\ Len(typed') = n
  BY <1>1
<1>4. n \in 1..MaxEdits BY <1>1, <1>3, TagBounds
<1>5. Fresh(n)' = [kind |-> "fresh", op |-> Diff(t, t \notin screen[c], n)]
  BY <1>2, <1>3 DEF Fresh
<1>6. Fresh(n)' \in Task /\ Fresh(n)'.op.of = {n}
  <2>1. Diff(t, t \notin screen[c], n) \in Op BY <1>4, DiffIsOp
  <2>2. Diff(t, t \notin screen[c], n).of = {n} BY DEF Diff
  <2>. QED BY <1>5, <2>1, <2>2 DEF Task
<1>7. queue' = [queue EXCEPT ![c] = Append(@, Fresh(n)')]
  BY <1>3, <1>5 DEF UserToggles
<1>. QED BY <1>2, <1>3, <1>6, <1>7 DEF UserToggles

\* What is in a queue after a step: what was in it, in the same order, a resend, or at its
\* end the latest edit.
LEMMA QueueMoves ==
    ASSUME TypeOK, OneAtWork, QueueIsTyped, LiveIsHead, [Next]_vars,
           NEW c \in Clients, NEW n, n = Len(typed) + 1
    PROVE  /\ DOMAIN queue[c] \subseteq Nat /\ DOMAIN queue'[c] \subseteq Nat
           /\ \E k \in {0, 1} : \A i \in DOMAIN queue'[c] :
                 \/ i + k \in DOMAIN queue[c] /\ queue'[c][i] = queue[c][i + k]
                 \/ queue'[c][i] = Resend
                 \/ /\ queue'[c][i] = Fresh(n)' /\ n \in EditsOf(c)' /\ Fresh(n)'.op.of = {n}
                    /\ \A j \in DOMAIN queue'[c] : j <= i
<1>. DEFINE Moved == \E k \in {0, 1} : \A i \in DOMAIN queue'[c] :
                 \/ i + k \in DOMAIN queue[c] /\ queue'[c][i] = queue[c][i + k]
                 \/ queue'[c][i] = Resend
                 \/ /\ queue'[c][i] = Fresh(n)' /\ n \in EditsOf(c)' /\ Fresh(n)'.op.of = {n}
                    /\ \A j \in DOMAIN queue'[c] : j <= i
            Sound == DOMAIN queue'[c] \subseteq Nat /\ Moved
<1>1. queue \in [Clients -> Seq(Task)] /\ queue[c] \in Seq(Task)
  BY DEF TypeOK
<1>2. DOMAIN queue[c] = 1..Len(queue[c]) /\ Len(queue[c]) \in Nat
  BY <1>1
<1>3. CASE queue'[c] = queue[c]
  <2>1. \A i \in DOMAIN queue'[c] : i + 0 \in DOMAIN queue[c] /\ queue'[c][i] = queue[c][i + 0]
    BY <1>2, <1>3
  <2>2. Moved BY <2>1
  <2>. QED BY <1>2, <1>3, <2>2
<1>4. ASSUME queue[c] # <<>>, queue'[c] = Tail(queue[c])
      PROVE  Sound
  <2>1. \A i \in DOMAIN queue'[c] : i + 1 \in DOMAIN queue[c] /\ queue'[c][i] = queue[c][i + 1]
    BY <1>1, <1>4, QueueTail
  <2>2. DOMAIN queue'[c] \subseteq Nat BY <1>1, <1>4, QueueTail
  <2>. QED BY <2>1, <2>2
<1>5. ASSUME NEW x \in Task, queue'[c] = Append(queue[c], x)
      PROVE  /\ DOMAIN queue'[c] = 1..(Len(queue[c]) + 1)
             /\ DOMAIN queue'[c] \subseteq Nat
             /\ \A i \in DOMAIN queue'[c] :
                  \/ i + 0 \in DOMAIN queue[c] /\ queue'[c][i] = queue[c][i + 0]
                  \/ queue'[c][i] = x /\ i = Len(queue[c]) + 1
  BY <1>1, <1>2, <1>5, QueueAppend
<1>6. ASSUME NEW t \in Tags, UserToggles(c, t)
      PROVE  Sound
  <2>1. /\ queue'[c] = Append(queue[c], Fresh(n)') /\ Fresh(n)' \in Task
        /\ Fresh(n)'.op.of = {n} /\ n \in EditsOf(c)'
    BY <1>1, <1>6, NewEdit DEF EditsOf
  <2>2. \A i \in DOMAIN queue'[c] : i = Len(queue[c]) + 1 => \A j \in DOMAIN queue'[c] : j <= i
    BY <1>2, <1>5, <2>1
  <2>. QED BY <1>5, <2>1, <2>2
<1>7. CASE Asks(c)
  <2>1. queue'[c] = Append(queue[c], Resend) BY <1>1, <1>7 DEF Asks
  <2>2. Resend \in Task BY NothingIsOp DEF Resend, Task
  <2>. QED BY <1>5, <2>1, <2>2
<1>8. CASE Drops(c) \/ Keeps(c)
  BY <1>1, <1>3, <1>4, <1>8 DEF Drops, Keeps
<1>9. CASE Stays
  BY <1>3, <1>9 DEF Stays
<1>10. ASSUME NEW d \in Clients, d # c,
              (\E t \in Tags : UserToggles(d, t)) \/ Asks(d) \/ Drops(d) \/ Keeps(d)
       PROVE  queue'[c] = queue[c]
  BY <1>1, <1>10 DEF UserToggles, Asks, Drops, Keeps
<1>11. Sound
  BY <1>3, <1>6, <1>7, <1>8, <1>9, <1>10, Shapes
<1>. QED BY <1>2, <1>11

\* A queue holds edits, each as it was typed, and resends.
LEMMA QueueTypedStep ==
    ASSUME TypeOK, OneAtWork, QueueIsTyped, LiveIsHead, [Next]_vars
    PROVE  QueueIsTyped'
<1>. SUFFICES ASSUME NEW c \in Clients, NEW i \in DOMAIN queue'[c] PROVE IsTask(c, queue[c][i])'
  BY DEF QueueIsTyped
<1>. PICK n : n = Len(typed) + 1 OBVIOUS
<1>1. \A j \in DOMAIN queue[c] : queue[c][j] = Resend \/ \E e \in EditsOf(c) : queue[c][j] = Fresh(e)
  BY DEF QueueIsTyped, IsTask
<1>2. \A e \in EditsOf(c) : e \in EditsOf(c)' /\ Fresh(e)' = Fresh(e)
  <2>1. \A e \in EditsOf(c) : e \in EditsOf(c)' /\ typed'[e] = typed[e]
    BY TypedStays DEF EditsOf
  <2>. QED BY <2>1 DEF Fresh
<1>3. queue'[c][i] = Resend \/ \E e \in EditsOf(c)' : queue'[c][i] = Fresh(e)'
  BY <1>1, <1>2, QueueMoves
<1>. QED BY <1>3 DEF IsTask

\* Edits are queued at the end, and leave at the front.
LEMMA QueueOrderStep ==
    ASSUME TypeOK, OneAtWork, QueueIsTyped, LiveIsHead, QueueInOrder, [Next]_vars
    PROVE  QueueInOrder'
<1>. SUFFICES ASSUME NEW c \in Clients, NEW i \in DOMAIN queue'[c], NEW j \in DOMAIN queue'[c], i < j,
                     NEW e \in queue'[c][i].op.of, NEW f \in queue'[c][j].op.of
              PROVE  e < f
  BY DEF QueueInOrder
<1>. PICK n : n = Len(typed) + 1 OBVIOUS
<1>1. Resend.op.of = {} BY DEF Resend, NoOp
<1>2. PICK k \in {0, 1} : \A x \in DOMAIN queue'[c] :
         \/ x + k \in DOMAIN queue[c] /\ queue'[c][x] = queue[c][x + k]
         \/ queue'[c][x] = Resend
         \/ /\ queue'[c][x] = Fresh(n)' /\ n \in EditsOf(c)' /\ Fresh(n)'.op.of = {n}
            /\ \A y \in DOMAIN queue'[c] : y <= x
  BY QueueMoves
<1>3. i \in Nat /\ j \in Nat BY QueueMoves
<1>4. i + k \in DOMAIN queue[c] /\ queue'[c][i] = queue[c][i + k]
  BY <1>1, <1>2, <1>3
<1>5. e \in 1..Len(typed) /\ Len(typed) \in Nat
  BY <1>4, QueueEdits
<1>6. CASE j + k \in DOMAIN queue[c] /\ queue'[c][j] = queue[c][j + k]
  <2>1. i + k < j + k BY <1>3
  <2>. QED BY <1>4, <1>6, <2>1 DEF QueueInOrder
<1>7. CASE f = n
  BY <1>5, <1>7
<1>. QED BY <1>1, <1>2, <1>6, <1>7

\* What becomes of what a client keeps.
LEMMA PendingMoves ==
    ASSUME TypeOK, OneAtWork, QueueIsTyped, LiveIsHead, [Next]_vars, NEW c \in Clients
    PROVE  \/ pending'[c] = pending[c]
           \/ pending'[c] = NoOp
           \/ /\ queue[c] # <<>> /\ Head(queue[c]) # Resend
              /\ queue'[c] = Tail(queue[c])
              /\ pending'[c] = Merged(pending[c], Head(queue[c]).op)
<1>1. queue \in [Clients -> Seq(Task)] /\ pending \in [Clients -> Op]
  BY DEF TypeOK
<1>2. CASE Stays BY <1>2 DEF Stays
<1>3. ASSUME NEW d \in Clients, (\E t \in Tags : UserToggles(d, t)) \/ Asks(d)
      PROVE  pending'[c] = pending[c]
  BY <1>3 DEF UserToggles, Asks
<1>4. ASSUME NEW d \in Clients, Drops(d)
      PROVE  pending'[c] = pending[c] \/ pending'[c] = NoOp
  BY <1>1, <1>4 DEF Drops
<1>5. ASSUME NEW d \in Clients, Keeps(d)
      PROVE  \/ pending'[c] = pending[c]
             \/ /\ queue[c] # <<>> /\ Head(queue[c]) # Resend
                /\ queue'[c] = Tail(queue[c])
                /\ pending'[c] = Merged(pending[c], Head(queue[c]).op)
  BY <1>1, <1>5 DEF Keeps
<1>. QED BY <1>2, <1>3, <1>4, <1>5, Shapes

\* An edit says what was typed.
LEMMA FreshSpeaks ==
    ASSUME TypeOK, NEW c \in Clients, NEW e \in EditsOf(c)
    PROVE  Speaks(c, Fresh(e).op)
<1>1. typed[e].on \in BOOLEAN /\ e \in Nat
  <2>1. DOMAIN typed \subseteq Nat BY DEF TypeOK
  <2>3. typed[e].on \in BOOLEAN
    <3>. DEFINE E == [by : Clients, tag : Tags, on : BOOLEAN]
    <3>. HIDE DEF E
    <3>1. typed \in Seq(E) BY DEF TypeOK, E
    <3>2. typed[e] \in E BY <3>1 DEF EditsOf
    <3>. QED BY <3>2 DEF E
  <2>. QED BY <2>1, <2>3 DEF EditsOf
<1>. DEFINE op == Fresh(e).op
<1>2. /\ op.of = {e}
      /\ op.add = IF typed[e].on THEN {typed[e].tag} ELSE {}
      /\ op.remove = IF typed[e].on THEN {} ELSE {typed[e].tag}
  BY DEF Fresh, Diff
<1>. HIDE DEF op
<1>3. Latest(op, typed[e].tag, e) BY <1>1, <1>2 DEF Latest
<1>4. Spelled(op) BY <1>1, <1>2, <1>3 DEF Spelled, Names
<1>5. op.of \subseteq EditsOf(c) BY <1>2
<1>. QED BY <1>4, <1>5 DEF Speaks, op

\* mergeTagOps: what is kept, and an edit made later, speak as one.
LEMMA MergedSpeaks ==
    ASSUME TypeOK, NEW c, NEW p, NEW q, Speaks(c, p), Speaks(c, q),
           \A e \in p.of : \A f \in q.of : e < f
    PROVE  Speaks(c, Merged(p, q))
<1>. DEFINE m == Merged(p, q)
<1>1. /\ m.of = p.of \union q.of
      /\ m.add = (p.add \ q.remove) \union q.add
      /\ m.remove = (p.remove \ q.add) \union q.remove
  BY DEF Merged
<1>. HIDE DEF m
<1>2. m.of \subseteq EditsOf(c) /\ m.of \subseteq Nat
  <2>1. DOMAIN typed \subseteq Nat BY DEF TypeOK
  <2>. QED BY <1>1, <2>1 DEF Speaks, EditsOf
<1>3. \A e \in m.of : typed[e].tag \in Names(m)
  BY <1>1 DEF Speaks, Spelled, Names
<1>4. ASSUME NEW t, NEW e, Latest(q, t, e)
      PROVE  Latest(m, t, e)
  BY <1>1, <1>2, <1>4 DEF Latest
<1>5. ASSUME NEW t, t \notin Names(q), NEW e, Latest(p, t, e)
      PROVE  Latest(m, t, e)
  BY <1>1, <1>5 DEF Latest, Speaks, Spelled
<1>6. \A t \in m.add : \E e \in m.of : Latest(m, t, e) /\ typed[e].on
  BY <1>1, <1>4, <1>5 DEF Speaks, Spelled, Names
<1>7. \A t \in m.remove : \E e \in m.of : Latest(m, t, e) /\ ~typed[e].on
  BY <1>1, <1>4, <1>5 DEF Speaks, Spelled, Names
<1>. QED BY <1>2, <1>3, <1>6, <1>7 DEF Speaks, Spelled, m

\* The head of a queue speaks for its client, and later than what is kept.
LEMMA HeadSpeaks ==
    ASSUME TypeOK, QueueIsTyped, QueueIsLater, NEW c \in Clients, queue[c] # <<>>
    PROVE  /\ Speaks(c, Head(queue[c]).op)
           /\ \A e \in pending[c].of : \A f \in Head(queue[c]).op.of : e < f
<1>1. Speaks(c, NoOp) BY DEF Speaks, Spelled, NoOp
<1>2. Speaks(c, Head(queue[c]).op)
  BY <1>1, HeadIsTyped, FreshSpeaks
<1>3. \A e \in pending[c].of : \A f \in Head(queue[c]).op.of : e < f
  BY HeadIsTyped DEF QueueIsLater
<1>. QED BY <1>2, <1>3

\* Nothing is kept, sent or accepted that its client has not said.
LEMMA SpelledStep ==
    ASSUME TypeOK, OneAtWork, QueueIsTyped, LiveIsHead, QueueIsLater, OpsAreSpelled, [Next]_vars,
           TypeOK'
    PROVE  OpsAreSpelled'
<1>2. ASSUME NEW c \in Clients
      PROVE  Speaks(c, pending[c])'
  <2>. PICK p : p = pending'[c] OBVIOUS
  <2>1. Speaks(c, NoOp) BY DEF Speaks, Spelled, NoOp
  <2>2. Speaks(c, pending[c]) BY DEF OpsAreSpelled
  <2>3. Speaks(c, p) BY <2>1, <2>2, PendingMoves, MergedSpeaks, HeadSpeaks
  <2>4. Speaks(c, p)' BY <2>3, SpellingStays
  <2>. QED BY <2>4 DEF Speaks, Spelled, Latest
<1>3. ASSUME NEW q \in requests'
      PROVE  Speaks(q.by, q.op)'
  <2>1. q.by \in Clients BY DEF TypeOK, Request
  <2>. QED BY <2>1, SentStep, SpellingStays, HeadSpeaks DEF OpsAreSpelled, Sends
<1>4. ASSUME NEW i \in DOMAIN log'
      PROVE  Speaks(log[i].by, log[i].op)'
  <2>. PICK c, op : c = log'[i].by /\ op = log'[i].op OBVIOUS
  <2>1. Speaks(c, op) BY SentStep DEF OpsAreSpelled
  <2>2. Speaks(c, op)' BY <2>1, SpellingStays
  <2>. QED BY <2>2 DEF Speaks, Spelled, Latest
<1>. QED BY <1>2, <1>3, <1>4 DEF OpsAreSpelled

\* What waits stays later than what is kept and what is sent.
LEMMA LaterStep ==
    ASSUME TypeOK, OneAtWork, QueueIsTyped, QueueInOrder, LiveIsHead, QueueIsLater, OpsAreSpelled,
           [Next]_vars
    PROVE  QueueIsLater'
<1>. SUFFICES ASSUME NEW c \in Clients, NEW i \in DOMAIN queue'[c], NEW f \in queue'[c][i].op.of
              PROVE  /\ \A e \in pending'[c].of : e < f
                     /\ \A e \in EditsOf(c)' : IsSent(c, e)' => e <= f
  BY DEF QueueIsLater
<1>. PICK n : n = Len(typed) + 1 OBVIOUS
<1>1. /\ Resend.op.of = {} /\ NoOp.of = {}
      /\ \A p, q : Merged(p, q).of = p.of \union q.of
  BY DEF Resend, NoOp, Merged
<1>2. PICK k \in {0, 1} : \A x \in DOMAIN queue'[c] :
         \/ x + k \in DOMAIN queue[c] /\ queue'[c][x] = queue[c][x + k]
         \/ queue'[c][x] = Resend
         \/ /\ queue'[c][x] = Fresh(n)' /\ n \in EditsOf(c)' /\ Fresh(n)'.op.of = {n}
            /\ \A y \in DOMAIN queue'[c] : y <= x
  BY QueueMoves
<1>3. /\ EditsOf(c) \subseteq 1..Len(typed) /\ Len(typed) \in Nat
      /\ queue[c] \in Seq(Task)
      /\ \A j \in DOMAIN queue[c] : \A e, g \in queue[c][j].op.of : e = g /\ e \in 1..Len(typed)
  BY QueueEdits
<1>4. pending[c].of \subseteq EditsOf(c) BY DEF OpsAreSpelled, Speaks
<1>5. queue[c] # <<>> => \A e \in Head(queue[c]).op.of : e \in 1..Len(typed)
  BY <1>3, QueueTail
<1>6. CASE f = n
  <2>1. \A e \in EditsOf(c)' : e <= n BY <1>3, TypedStays DEF EditsOf
  <2>2. \A e \in pending'[c].of : e \in 1..Len(typed)
    BY <1>1, <1>3, <1>4, <1>5, PendingMoves
  <2>. QED BY <1>3, <1>6, <2>1, <2>2
<1>7. ASSUME NEW j \in DOMAIN queue[c], f \in queue[c][j].op.of,
             NEW e \in EditsOf(c)', IsSent(c, e)'
      PROVE  e <= f
  <2>1. CASE IsSent(c, e)
    <3>1. e \in EditsOf(c) BY <2>1 DEF IsSent, OpsAreSpelled, Speaks
    <3>. QED BY <1>7, <2>1, <3>1 DEF QueueIsLater
  <2>2. CASE e \in pending[c].of
    <3>1. e < f BY <1>7, <2>2 DEF QueueIsLater
    <3>. QED BY <1>3, <1>4, <1>7, <2>2, <3>1
  <2>3. CASE queue[c] # <<>> /\ e \in Head(queue[c]).op.of
    <3>1. Head(queue[c]) = queue[c][1] /\ 1 \in DOMAIN queue[c] /\ DOMAIN queue[c] \subseteq Nat \ {0}
      BY <1>3, <2>3, QueueTail
    <3>2. CASE j = 1 BY <1>3, <1>7, <2>3, <3>1, <3>2
    <3>3. CASE 1 < j
      <4>1. e < f BY <1>7, <2>3, <3>1, <3>3 DEF QueueInOrder
      <4>. QED BY <1>3, <1>5, <1>7, <2>3, <4>1
    <3>. QED BY <3>1, <3>2, <3>3
  <2>. QED BY <1>7, <2>1, <2>2, <2>3, SentEdits
<1>8. ASSUME i + k \in DOMAIN queue[c], queue'[c][i] = queue[c][i + k], NEW e \in pending'[c].of
      PROVE  e < f
  <2>1. CASE e \in pending[c].of BY <1>8, <2>1 DEF QueueIsLater
  <2>2. CASE /\ queue[c] # <<>> /\ queue'[c] = Tail(queue[c])
             /\ e \in Head(queue[c]).op.of
    <3>1. /\ i + 1 \in DOMAIN queue[c] /\ f \in queue[c][i + 1].op.of /\ i \in Nat \ {0}
          /\ Head(queue[c]) = queue[c][1] /\ 1 \in DOMAIN queue[c]
      BY <1>3, <2>2, QueueTail
    <3>. QED BY <2>2, <3>1 DEF QueueInOrder
  <2>. QED BY <1>1, <1>8, <2>1, <2>2, PendingMoves
<1>9. CASE i + k \in DOMAIN queue[c] /\ queue'[c][i] = queue[c][i + k]
  BY <1>7, <1>8, <1>9
<1>. QED BY <1>1, <1>2, <1>6, <1>9

\* The head of a queue that is not removed.
LEMMA HeadStays ==
    ASSUME TypeOK, NEW c \in Clients, queue[c] # <<>>,
           \/ queue'[c] = queue[c]
           \/ \E x \in Task : queue'[c] = Append(queue[c], x)
    PROVE  queue'[c] # <<>> /\ Head(queue'[c]) = Head(queue[c])
<1>1. queue[c] \in Seq(Task) BY DEF TypeOK
<1>. QED BY <1>1, QueueAppend

\* Requests a client waits for, whose queue and what it keeps stay, are at its head still.
LEMMA StillHead ==
    ASSUME LiveIsHead, settled \subseteq settled',
           \A q \in requests' : q.live =>
               /\ \E r \in requests :
                     /\ r.live /\ r.by = q.by /\ r.op = q.op /\ r.again = q.again
                     /\ r.pc \in {"reverting", "fetched"} <=> q.pc \in {"reverting", "fetched"}
               /\ Head(queue'[q.by]) = Head(queue[q.by])
               /\ pending'[q.by] = pending[q.by]
    PROVE  LiveIsHead'
BY DEF LiveIsHead

\* A client waits for its head only, step by step.
LEMMA HeadStep ==
    ASSUME TypeOK, OneAtWork, QueueIsTyped, LiveIsHead, [Next]_vars, TypeOK'
    PROVE  LiveIsHead'
<1>. USE DEF server, bounds
<1>1. \A r \in requests : r \in Request /\ r.by \in Clients
  BY DEF TypeOK, Request
<1>2. queue \in [Clients -> Seq(Task)] /\ pending \in [Clients -> Op]
  BY DEF TypeOK
<1>3. \A r \in requests : r.live => queue[r.by] # <<>>
  BY DEF OneAtWork
<1>4. ASSUME NEW c \in Clients, NEW x \in Task, queue' = [queue EXCEPT ![c] = Append(@, x)],
             UNCHANGED <<requests, pending, settled>>
      PROVE  LiveIsHead'
  <2>1. \A r \in requests : r.live => Head(queue'[r.by]) = Head(queue[r.by])
    BY <1>1, <1>2, <1>3, <1>4, HeadStays
  <2>. QED BY <1>4, <2>1, StillHead
<1>5. ASSUME NEW c \in Clients, Live(c) = {}, NEW op, NEW again \in BOOLEAN,
             requests' = requests \union {Call(c, op, again)}, UNCHANGED <<queue, pending, settled>>,
             IF again THEN Head(queue[c]) = Resend /\ op = pending[c]
             ELSE Head(queue[c]).kind = "fresh" /\ op = Head(queue[c]).op
      PROVE  LiveIsHead'
  <2>. DEFINE q == Call(c, op, again)
  <2>1. q.by = c /\ q.op = op /\ q.again = again /\ q.pc = "sent" BY DEF Call
  <2>2. requests' = requests \union {q} /\ \A r \in requests : r.live => r.by # c
    BY <1>5 DEF Live
  <2>. HIDE DEF q
  <2>. QED BY <1>5, <2>1, <2>2 DEF LiveIsHead
<1>6. ASSUME NEW r \in requests, NEW next, Advance(r, next), r.pc \in {"sent", "read"},
             next.by = r.by, next.op = r.op, next.again = r.again, next.live = r.live,
             next.pc \notin {"reverting", "fetched"}, UNCHANGED <<queue, pending, settled>>
      PROVE  LiveIsHead'
  BY <1>6 DEF Advance, LiveIsHead
<1>7. ASSUME NEW r \in requests, r.live, settled \subseteq settled',
             queue' = [queue EXCEPT ![r.by] = Tail(@)],
             \A c \in Clients : c # r.by => pending'[c] = pending[c],
             \A q \in requests' : q \in requests \ {r} \/ ~q.live
      PROVE  LiveIsHead'
  <2>1. \A q \in requests' : q.live => q \in requests /\ q.by # r.by
    BY <1>7 DEF OneAtWork
  <2>2. \A q \in requests' : q.live =>
          Head(queue'[q.by]) = Head(queue[q.by]) /\ pending'[q.by] = pending[q.by]
    BY <1>1, <1>2, <1>7, <2>1
  <2>. QED BY <1>7, <2>1, <2>2, StillHead
<1>8. ASSUME NEW c \in Clients, ClientStep(c)
      PROVE  LiveIsHead'
  <2>1. ASSUME NEW t \in Tags, UserToggles(c, t)
        PROVE  LiveIsHead'
    <3>. PICK n : n = Len(typed) + 1 OBVIOUS
    <3>. QED BY <1>4, <2>1, NewEdit
  <2>2. CASE SendsEdit(c)
    BY <1>5, <2>2 DEF SendsEdit, Turn
  <2>3. CASE Resends(c) /\ pending[c] # NoOp
    <3>1. Head(queue[c]) = Resend BY <2>3, HeadIsTyped DEF Resends, Turn
    <3>. QED BY <1>5, <2>3, <3>1 DEF Resends, Turn
  <2>4. CASE Resends(c) /\ pending[c] = NoOp
    <3>1. /\ queue' = [queue EXCEPT ![c] = Tail(@)] /\ UNCHANGED <<requests, pending, settled>>
          /\ \A q \in requests : q.live => q.by # c
      BY <2>4 DEF Resends, Turn, Live
    <3>. QED BY <1>1, <1>2, <3>1, StillHead
  <2>5. CASE ListReads(c)
    BY <2>5 DEF ListReads, LiveIsHead
  <2>6. CASE ListApplies(c)
    <3>1. Resend \in Task BY NothingIsOp DEF Resend, Task
    <3>2. CASE queue' = queue BY <2>6, <3>2 DEF ListApplies, LiveIsHead
    <3>3. CASE queue' = [queue EXCEPT ![c] = Append(@, Resend)]
      BY <1>4, <2>6, <3>1, <3>3 DEF ListApplies
    <3>. QED BY <2>6, <3>2, <3>3 DEF ListApplies
  <2>. QED BY <1>8, <2>1, <2>2, <2>3, <2>4, <2>5, <2>6 DEF ClientStep
<1>9. ASSUME NEW r \in requests, ServerStep(r)
      PROVE  LiveIsHead'
  <2>. USE <1>1 DEF Request
  <2>1. CASE ServerReads(r) BY <1>6, <2>1 DEF ServerReads
  <2>2. CASE ServerWrites(r) BY <1>6, <2>2 DEF ServerWrites
  <2>3. CASE ServerIsBeaten(r) BY <1>6, <2>3 DEF ServerIsBeaten
  <2>4. CASE ServerRefuses(r) BY <1>6, <2>4 DEF ServerRefuses
  <2>. QED BY <1>9, <2>1, <2>2, <2>3, <2>4 DEF ServerStep
<1>10. ASSUME NEW r \in requests, AnswerStep(r)
       PROVE  LiveIsHead'
  <2>1. CASE GetsAnswer(r)
    <3>1. r.live /\ settled \subseteq settled' /\ pending' = Discarded(r) BY <2>1 DEF GetsAnswer
    <3>2. \A c \in Clients : c # r.by => pending'[c] = pending[c] BY <1>2, <3>1 DEF Discarded
    <3>. QED BY <1>7, <2>1, <3>1, <3>2 DEF GetsAnswer, Done
  <2>2. CASE GetsRefusal(r)
    <3>1. r.live /\ r.pc = "forbidden" /\ settled' = settled \union r.op.of /\ pending' = Discarded(r)
      BY <2>2 DEF GetsRefusal
    <3>2. \A c \in Clients : c # r.by => pending'[c] = pending[c] BY <1>2, <3>1 DEF Discarded
    <3>3. CASE Waiting(r.by)
      BY <1>7, <2>2, <3>1, <3>2, <3>3 DEF GetsRefusal, Done
    <3>4. CASE ~Waiting(r.by)
      <4>. DEFINE next == [r EXCEPT !.pc = "reverting"]
      <4>1. /\ next.by = r.by /\ next.op = r.op /\ next.again = r.again /\ next.live
            /\ next.pc = "reverting"
        BY <1>1, <3>1 DEF Request
      <4>2. requests' = (requests \ {r}) \union {next} /\ queue' = queue
        BY <2>2, <3>4 DEF GetsRefusal
      <4>. HIDE DEF next
      <4>3. pending'[r.by] = NoOp
        BY <1>1, <1>2, <3>1 DEF Discarded, SameOp, LiveIsHead
      <4>4. ASSUME NEW q \in requests \ {r}, q.live
            PROVE  pending'[q.by] = pending[q.by]
        BY <1>1, <3>1, <3>2, <4>4 DEF OneAtWork
      <4>. QED BY <3>1, <4>1, <4>2, <4>3, <4>4 DEF LiveIsHead
    <3>. QED BY <3>3, <3>4
  <2>3. CASE RevertReads(r)
    <3>. DEFINE next == [r EXCEPT !.pc = "fetched"]
    <3>1. /\ next.by = r.by /\ next.op = r.op /\ next.again = r.again /\ next.live = r.live
          /\ next.pc = "fetched" /\ r.pc = "reverting"
      BY <1>1, <2>3 DEF Request, RevertReads
    <3>2. requests' = (requests \ {r}) \union {next} /\ UNCHANGED <<queue, pending, settled>>
      BY <2>3 DEF RevertReads
    <3>. HIDE DEF next
    <3>. QED BY <3>1, <3>2 DEF LiveIsHead
  <2>4. CASE RevertApplies(r)
    <3>1. r.live BY <2>4 DEF RevertApplies, OneAtWork
    <3>. QED BY <1>7, <2>4, <3>1 DEF RevertApplies, Done
  <2>5. CASE Fails(r)
    <3>1. \A q \in requests' : q \in requests \ {r} \/ ~q.live
      BY <1>1, <2>5 DEF Fails, Advance, Request
    <3>2. \A c \in Clients : c # r.by => pending'[c] = pending[c]
      BY <1>2, <2>5 DEF Fails, Kept
    <3>. QED BY <1>7, <2>5, <3>1, <3>2 DEF Fails
  <2>. QED BY <1>10, <2>1, <2>2, <2>3, <2>4, <2>5 DEF AnswerStep
<1>11. CASE UNCHANGED vars
  BY <1>11 DEF vars, LiveIsHead
<1>. QED BY <1>8, <1>9, <1>10, <1>11 DEF Next

\* Answers are not taken back.
LEMMA SettledGrows ==
    ASSUME [Next]_vars
    PROVE  settled \subseteq settled'
<1>1. ASSUME NEW c \in Clients, ClientStep(c) PROVE settled' = settled
  BY <1>1 DEF ClientStep, UserToggles, SendsEdit, Resends, ListReads, ListApplies
<1>2. ASSUME NEW r \in requests, ServerStep(r) PROVE settled' = settled
  BY <1>2 DEF ServerStep, ServerReads, ServerWrites, ServerIsBeaten, ServerRefuses
<1>3. ASSUME NEW r \in requests, AnswerStep(r) PROVE settled \subseteq settled'
  BY <1>3 DEF AnswerStep, GetsAnswer, GetsRefusal, RevertReads, RevertApplies, Fails
<1>. QED BY <1>1, <1>2, <1>3 DEF Next, vars

\* What is kept stays the last word sent about its tags.
LEMMA KeptStep ==
    ASSUME TypeOK, OneAtWork, QueueIsTyped, LiveIsHead, QueueIsLater, OpsAreSpelled, KeptIsLatest,
           [Next]_vars
    PROVE  KeptIsLatest'
<1>. SUFFICES ASSUME NEW c \in Clients, NEW e \in EditsOf(c)', IsSent(c, e)',
                     NEW p \in pending'[c].of, typed'[p].tag = typed'[e].tag,
                     ~(queue'[c] # <<>> /\ e \in Head(queue'[c]).op.of)
              PROVE  \E q \in pending'[c].of : typed'[q].tag = typed'[e].tag /\ e <= q
  BY DEF KeptIsLatest, AtHead
<1>1. queue \in [Clients -> Seq(Task)] /\ pending \in [Clients -> Op]
  BY DEF TypeOK
<1>2. /\ NoOp.of = {} /\ Resend.op.of = {} /\ Resend \in Task
      /\ \A a, b : Merged(a, b).of = a.of \union b.of
  BY NothingIsOp DEF NoOp, Resend, Merged, Task
<1>3. /\ pending[c].of \subseteq DOMAIN typed
      /\ \A d \in DOMAIN typed : typed'[d] = typed[d] /\ d \in Nat
  BY TypedStays DEF OpsAreSpelled, Speaks, EditsOf
<1>4. CASE Stays /\ queue[c] # <<>> /\ (e \in Head(queue[c]).op.of \/ e \in pending[c].of)
  <2>1. queue' = queue /\ pending' = pending BY <1>4 DEF Stays
  <2>2. e \in pending'[c].of BY <1>4, <2>1
  <2>. QED BY <1>3, <2>1, <2>2
<1>5. CASE IsSent(c, e)
  <2>1. e \in EditsOf(c) /\ e \in DOMAIN typed
    BY <1>5 DEF IsSent, OpsAreSpelled, Speaks, EditsOf
  <2>2. CASE pending'[c] = pending[c] /\ ~AtHead(c, e)
    BY <1>3, <1>5, <2>1, <2>2 DEF KeptIsLatest
  <2>3. CASE /\ queue[c] # <<>> /\ Head(queue[c]) # Resend
             /\ pending'[c] = Merged(pending[c], Head(queue[c]).op)
    <3>1. pending'[c].of = pending[c].of \union Head(queue[c]).op.of BY <1>2, <2>3
    <3>2. CASE e \in Head(queue[c]).op.of BY <1>3, <2>1, <3>1, <3>2
    <3>3. CASE ~AtHead(c, e) /\ p \in pending[c].of
      BY <1>3, <1>5, <2>1, <3>1, <3>3 DEF KeptIsLatest
    <3>4. CASE p \in Head(queue[c]).op.of
      <4>1. e <= p BY <1>5, <2>1, <2>3, <3>4, HeadIsTyped DEF QueueIsLater
      <4>. QED BY <3>1, <3>4, <4>1
    <3>. QED BY <2>3, <3>1, <3>2, <3>3, <3>4 DEF AtHead
  <2>4. CASE AtHead(c, e) /\ ~(\E x \in Task : queue'[c] = Append(queue[c], x)) /\ queue'[c] # queue[c]
    <3>1. ASSUME NEW d \in Clients, NEW t \in Tags, UserToggles(d, t)
          PROVE  queue'[c] = queue[c] \/ \E x \in Task : queue'[c] = Append(queue[c], x)
      <4>. PICK n : n = Len(typed) + 1 OBVIOUS
      <4>. QED BY <1>1, <3>1, NewEdit
    <3>2. ASSUME NEW d \in Clients, Asks(d)
          PROVE  queue'[c] = queue[c] \/ \E x \in Task : queue'[c] = Append(queue[c], x)
      BY <1>1, <1>2, <3>2 DEF Asks
    <3>3. ASSUME NEW d \in Clients, Drops(d)
          PROVE  queue'[c] = queue[c] \/ pending'[c] = NoOp
      BY <1>1, <3>3 DEF Drops
    <3>4. ASSUME NEW d \in Clients, Keeps(d)
          PROVE  \/ queue'[c] = queue[c]
                 \/ /\ queue[c] # <<>> /\ Head(queue[c]) # Resend
                    /\ pending'[c] = Merged(pending[c], Head(queue[c]).op)
      BY <1>1, <1>2, <2>4, <3>4 DEF Keeps, AtHead
    <3>5. ~Stays BY <2>4 DEF Stays
    <3>. QED BY <1>2, <2>3, <2>4, <3>1, <3>2, <3>3, <3>4, <3>5, Shapes
  <2>5. AtHead(c, e) /\ (queue'[c] = queue[c] \/ \E x \in Task : queue'[c] = Append(queue[c], x)) => FALSE
    BY HeadStays DEF AtHead
  <2>. QED BY <1>2, <2>2, <2>3, <2>4, <2>5, PendingMoves
<1>. QED BY <1>4, <1>5, SentEdits

\* No edit leaves its queue, or what is kept, unanswered and unfollowed.
LEMMA AnsweredStep ==
    ASSUME TypeOK, OneAtWork, QueueIsTyped, LiveIsHead, QueueIsLater, OpsAreSpelled,
           KeptUntilAnswered, [Next]_vars
    PROVE  KeptUntilAnswered'
<1>. SUFFICES ASSUME NEW c \in Clients, NEW e \in EditsOf(c)', e \notin Held(c)'
              PROVE  \E n \in EditsOf(c)' : n \in settled' /\ e < n
  BY DEF KeptUntilAnswered
<1>. DEFINE Followed == \E n \in EditsOf(c)' : n \in settled' /\ e < n
<1>1. queue \in [Clients -> Seq(Task)] /\ pending \in [Clients -> Op] /\ queue[c] \in Seq(Task)
  BY DEF TypeOK
<1>2. /\ e \notin settled' /\ e \notin pending'[c].of
      /\ \A i \in DOMAIN queue'[c] : e \notin queue'[c][i].op.of
  BY DEF Held
<1>3. /\ NoOp.of = {} /\ Resend.op.of = {} /\ Resend \in Task
      /\ \A a, b : Merged(a, b).of = a.of \union b.of
  BY NothingIsOp DEF NoOp, Resend, Merged, Task
<1>4. settled \subseteq settled' /\ EditsOf(c) \subseteq EditsOf(c)'
  BY SettledGrows, TypedStays
<1>5. ASSUME NEW t \in Tags, UserToggles(c, t), e \notin EditsOf(c)
      PROVE  FALSE
  <2>. PICK n : n = Len(typed) + 1 OBVIOUS
  <2>1. /\ DOMAIN typed' = 1..n /\ \A d \in DOMAIN typed : typed'[d] = typed[d]
        /\ DOMAIN typed = 1..Len(typed) /\ Len(typed) \in Nat
        /\ Fresh(n)'.op.of = {n} /\ Fresh(n)' \in Task
        /\ queue'[c] = Append(queue[c], Fresh(n)')
    BY <1>1, <1>5, NewEdit
  <2>2. e = n BY <1>5, <2>1 DEF EditsOf
  <2>3. /\ Len(queue[c]) + 1 \in DOMAIN queue'[c]
        /\ queue'[c][Len(queue[c]) + 1] = Fresh(n)'
    BY <1>1, <2>1, QueueAppend
  <2>. QED BY <1>2, <2>1, <2>2, <2>3
<1>6. ASSUME e \notin EditsOf(c)
      PROVE  FALSE
  <2>1. ASSUME typed' = typed PROVE FALSE BY <1>6, <2>1 DEF EditsOf
  <2>2. ASSUME NEW d \in Clients, NEW t \in Tags, UserToggles(d, t), d # c
        PROVE  FALSE
    <3>. PICK n : n = Len(typed) + 1 OBVIOUS
    <3>1. /\ \A x \in DOMAIN typed : typed'[x] = typed[x]
          /\ DOMAIN typed = 1..Len(typed) /\ DOMAIN typed' = 1..n /\ Len(typed) \in Nat
          /\ typed'[n].by = d
      BY <2>2, NewEdit
    <3>. QED BY <1>6, <2>2, <3>1 DEF EditsOf
  <2>. QED BY <1>5, <1>6, <2>1, <2>2, Shapes DEF Stays, Asks, Drops, Keeps
<1>7. CASE e \in EditsOf(c) /\ e \notin Held(c)
  BY <1>4, <1>7 DEF KeptUntilAnswered
<1>8. ASSUME queue[c] # <<>>, Head(queue[c]) # Resend, Head(queue[c]).op.of \subseteq settled',
             e \in pending[c].of
      PROVE  Followed
  <2>. PICK h \in EditsOf(c) : Head(queue[c]) = Fresh(h) BY <1>8, HeadIsTyped
  <2>1. h \in Head(queue[c]).op.of BY DEF Fresh, Diff
  <2>2. e < h BY <1>8, <2>1, HeadSpeaks
  <2>. QED BY <1>4, <1>8, <2>1, <2>2
<1>9. ASSUME e \in pending[c].of
      PROVE  Followed
  <2>1. pending'[c] # pending[c] BY <1>2, <1>9
  <2>2. ASSUME NEW d \in Clients, Drops(d)
        PROVE  Followed
    <3>1. d = c BY <1>1, <2>1, <2>2 DEF Drops
    <3>. QED BY <1>2, <1>8, <1>9, <2>2, <3>1 DEF Drops
  <2>3. ASSUME NEW d \in Clients, Keeps(d)
        PROVE  FALSE
    <3>1. d = c BY <1>1, <2>1, <2>3 DEF Keeps
    <3>2. pending'[c] = Merged(pending[c], Head(queue[c]).op) BY <1>1, <2>1, <2>3, <3>1 DEF Keeps
    <3>. QED BY <1>2, <1>3, <1>9, <3>2
  <2>4. ASSUME NEW d \in Clients, (\E t \in Tags : UserToggles(d, t)) \/ Asks(d)
        PROVE  FALSE
    BY <2>1, <2>4 DEF UserToggles, Asks
  <2>5. ~Stays BY <2>1 DEF Stays
  <2>. QED BY <2>2, <2>3, <2>4, <2>5, Shapes
<1>10. ASSUME NEW i \in DOMAIN queue[c], e \in queue[c][i].op.of
       PROVE  FALSE
  <2>1. queue'[c] # queue[c] BY <1>2, <1>10
  <2>2. ASSUME NEW x \in Task, queue'[c] = Append(queue[c], x) PROVE FALSE
    BY <1>1, <1>2, <1>10, <2>2, QueueAppend
  <2>3. ASSUME queue[c] # <<>>, queue'[c] = Tail(queue[c])
        PROVE  e \in Head(queue[c]).op.of
    <3>1. /\ DOMAIN queue[c] = 1..Len(queue[c]) /\ Len(queue[c]) \in Nat
          /\ Head(queue[c]) = queue[c][1]
          /\ DOMAIN queue'[c] = 1..(Len(queue[c]) - 1)
          /\ \A j \in DOMAIN queue'[c] : queue'[c][j] = queue[c][j + 1]
      BY <1>1, <2>3, QueueTail
    <3>2. CASE i = 1 BY <1>10, <3>1, <3>2
    <3>3. CASE i # 1
      <4>1. i - 1 \in DOMAIN queue'[c] /\ (i - 1) + 1 = i BY <3>1, <3>3
      <4>2. queue'[c][i - 1] = queue[c][i] BY <3>1, <4>1
      <4>. QED BY <1>2, <1>10, <4>1, <4>2
    <3>. QED BY <3>2, <3>3
  <2>4. ASSUME NEW d \in Clients, Drops(d)
        PROVE  FALSE
    <3>1. d = c /\ queue'[c] = Tail(queue[c]) BY <1>1, <2>1, <2>4 DEF Drops
    <3>. QED BY <1>2, <2>3, <2>4, <3>1 DEF Drops
  <2>5. ASSUME NEW d \in Clients, Keeps(d)
        PROVE  FALSE
    <3>1. d = c /\ queue'[c] = Tail(queue[c]) BY <1>1, <2>1, <2>5 DEF Keeps
    <3>2. e \in Head(queue[c]).op.of BY <2>3, <2>5, <3>1 DEF Keeps
    <3>3. pending'[c] = Merged(pending[c], Head(queue[c]).op) BY <1>1, <1>3, <2>5, <3>1, <3>2 DEF Keeps
    <3>. QED BY <1>2, <1>3, <3>2, <3>3
  <2>6. ASSUME NEW d \in Clients, NEW t \in Tags, UserToggles(d, t)
        PROVE  FALSE
    <3>. PICK n : n = Len(typed) + 1 OBVIOUS
    <3>. QED BY <1>1, <2>1, <2>2, <2>6, NewEdit
  <2>7. ASSUME NEW d \in Clients, Asks(d)
        PROVE  FALSE
    BY <1>1, <1>3, <2>1, <2>2, <2>7 DEF Asks
  <2>8. ~Stays BY <2>1 DEF Stays
  <2>. QED BY <2>4, <2>5, <2>6, <2>7, <2>8, Shapes
<1>11. CASE e \in EditsOf(c) /\ e \in Held(c)
  BY <1>2, <1>4, <1>9, <1>10, <1>11 DEF Held
<1>. QED BY <1>6, <1>7, <1>11

\* A request that is served while its client waits says the last word about its tags.
LEMMA ServedIsLatest ==
    ASSUME TypeOK, OneAtWork, QueueIsTyped, LiveIsHead, QueueIsLater, OpsAreSpelled, KeptIsLatest,
           NEW r \in requests, r.live, r.pc \in {"sent", "read"},
           NEW t, NEW w, Latest(r.op, t, w), NEW e, IsSent(r.by, e), typed[e].tag = t
    PROVE  e <= w
<1>. DEFINE c == r.by
<1>1. c \in Clients BY DEF TypeOK, Request
<1>2. Speaks(c, r.op) BY DEF OpsAreSpelled
<1>3. e \in EditsOf(c) BY DEF IsSent, OpsAreSpelled, Speaks
<1>4. w \in r.op.of /\ typed[w].tag = t BY DEF Latest
<1>5. queue[c] # <<>> BY DEF OneAtWork
<1>6. CASE ~r.again
  <2>1. w \in Head(queue[c]).op.of BY <1>4, <1>6 DEF LiveIsHead
  <2>2. w \in queue[c][1].op.of /\ 1 \in DOMAIN queue[c] BY <1>1, <1>5, <2>1, HeadIsTyped
  <2>. QED BY <1>1, <1>3, <2>2 DEF QueueIsLater
<1>7. CASE r.again
  <2>1. Head(queue[c]) = Resend /\ r.op = pending[c] BY <1>7 DEF LiveIsHead
  <2>2. ~AtHead(c, e) BY <2>1 DEF AtHead, Resend, NoOp
  <2>3. PICK q \in pending[c].of : typed[q].tag = typed[e].tag /\ e <= q
    BY <1>1, <1>3, <1>4, <2>1, <2>2 DEF KeptIsLatest
  <2>4. q <= w BY <2>1, <2>3 DEF Latest
  <2>5. q \in Nat /\ e \in Nat /\ w \in Nat
    <3>1. DOMAIN typed \subseteq Nat BY DEF TypeOK
    <3>. QED BY <1>2, <1>3, <1>4, <2>1, <2>3, <3>1 DEF Speaks, EditsOf
  <2>. QED BY <2>3, <2>4, <2>5
<1>. QED BY <1>6, <1>7

\* What is accepted is what the client said last, in the order it said it.
LEMMA WordsStep ==
    ASSUME TypeOK, OneAtWork, QueueIsTyped, LiveIsHead, QueueIsLater, OpsAreSpelled, KeptIsLatest,
           WordsInOrder, [Next]_vars
    PROVE  WordsInOrder'
<1>. USE DEF server, bounds
<1>1. /\ log \in Seq([by : Clients, op : Op, late : BOOLEAN])
      /\ DOMAIN log = 1..Len(log) /\ Len(log) \in Nat
  BY DEF TypeOK
<1>2. \A i \in DOMAIN log : \A e \in log[i].op.of : e \in DOMAIN typed /\ typed'[e] = typed[e]
  BY TypedStays DEF OpsAreSpelled, Speaks, EditsOf
<1>3. CASE UNCHANGED log
  BY <1>1, <1>2, <1>3 DEF WordsInOrder, Latest, Names
<1>4. ASSUME NEW r \in requests, r.pc \in {"sent", "read"}, Accept(r), typed' = typed
      PROVE  WordsInOrder'
  <2>. DEFINE x == [by |-> r.by, op |-> r.op, late |-> ~r.live]
              n == Len(log) + 1
  <2>1. log' = Append(log, x) /\ x.by = r.by /\ x.op = r.op /\ x.late = ~r.live
    BY <1>4 DEF Accept
  <2>2. x \in [by : Clients, op : Op, late : BOOLEAN] BY DEF TypeOK, Request
  <2>. HIDE DEF x
  <2>3. /\ DOMAIN log' = 1..n /\ log'[n] = x
        /\ \A i \in DOMAIN log : log'[i] = log[i]
    BY <1>1, <2>1, <2>2
  <2>4. ASSUME NEW t \in Names(x.op)
        PROVE  \E word \in x.op.of :
                 /\ Latest(x.op, t, word)
                 /\ t \in x.op.add <=> typed[word].on
                 /\ x.late \/ \A i \in DOMAIN log : log[i].by = x.by =>
                        \A e \in log[i].op.of : typed[e].tag = t => e <= word
    <3>1. Speaks(r.by, r.op) /\ r.op.of \subseteq Nat
      <4>1. DOMAIN typed \subseteq Nat BY <1>1 DEF TypeOK
      <4>. QED BY <4>1 DEF OpsAreSpelled, Speaks, EditsOf
    <3>2. PICK word \in r.op.of : Latest(r.op, t, word) /\ (t \in r.op.add => typed[word].on)
      BY <2>1, <2>4, <3>1 DEF Speaks, Spelled, Names
    <3>3. t \notin r.op.add => ~typed[word].on
      <4>1. ASSUME t \notin r.op.add PROVE ~typed[word].on
        <5>1. PICK e \in r.op.of : Latest(r.op, t, e) /\ ~typed[e].on
          BY <2>1, <2>4, <3>1, <4>1 DEF Speaks, Spelled, Names
        <5>2. e = word BY <3>1, <3>2, <5>1 DEF Latest
        <5>. QED BY <5>1, <5>2
      <4>. QED BY <4>1
    <3>4. ASSUME r.live, NEW i \in DOMAIN log, log[i].by = r.by, NEW e \in log[i].op.of,
                 typed[e].tag = t
          PROVE  e <= word
      <4>1. IsSent(r.by, e) BY <3>4 DEF IsSent
      <4>. QED BY <1>4, <3>2, <3>4, <4>1, ServedIsLatest
    <3>5. t \in r.op.add <=> typed[word].on
      <4>1. typed[word].on \in BOOLEAN BY <3>1, TypedStays DEF Speaks, EditsOf
      <4>. QED BY <3>2, <3>3, <4>1
    <3>. QED BY <2>1, <3>2, <3>4, <3>5
  <2>5. ASSUME NEW j \in DOMAIN log', NEW t \in Names(log'[j].op)
        PROVE  \E word \in log'[j].op.of :
                 /\ Latest(log'[j].op, t, word)
                 /\ t \in log'[j].op.add <=> typed[word].on
                 /\ log'[j].late \/ \A i \in 1..(j - 1) : log'[i].by = log'[j].by =>
                        \A e \in log'[i].op.of : typed[e].tag = t => e <= word
    <3>1. CASE j \in DOMAIN log
      <4>1. /\ log'[j] = log[j] /\ \A i \in 1..(j - 1) : log'[i] = log[i]
        BY <1>1, <2>3, <3>1
      <4>. QED BY <2>5, <3>1, <4>1 DEF WordsInOrder
    <3>2. CASE j = n
      <4>1. /\ log'[j] = x /\ 1..(j - 1) = DOMAIN log
        BY <1>1, <2>3, <3>2
      <4>. QED BY <2>3, <2>4, <2>5, <4>1
    <3>. QED BY <1>1, <2>3, <3>1, <3>2
  <2>. QED BY <1>4, <2>5 DEF WordsInOrder, Latest, Names
<1>5. ASSUME NEW c \in Clients, ClientStep(c) PROVE log' = log
  BY <1>5 DEF ClientStep, UserToggles, SendsEdit, Resends, ListReads, ListApplies
<1>6. ASSUME NEW r \in requests, ServerStep(r)
      PROVE  log' = log \/ (r.pc \in {"sent", "read"} /\ Accept(r) /\ typed' = typed)
  BY <1>6 DEF ServerStep, ServerReads, ServerWrites, ServerIsBeaten, ServerRefuses
<1>7. ASSUME NEW r \in requests, AnswerStep(r) PROVE log' = log
  BY <1>7 DEF AnswerStep, GetsAnswer, GetsRefusal, RevertReads, RevertApplies, Fails
<1>. QED BY <1>3, <1>4, <1>5, <1>6, <1>7 DEF Next, vars

-----------------------------------------------------------------------------
(* The theorems. *)

\* The first state.
LEMMA InitInvariant == Init => IInv
<1>. SUFFICES ASSUME Init PROVE IInv OBVIOUS
<1>1. TypeOK
  <2>1. row \in Row BY DEF Init, Row
  <2>2. 0 \in 0..MaxFaults /\ 0 \in 0..MaxLists BY TagBounds
  <2>. QED BY <2>1, <2>2, NothingIsOp DEF Init, TypeOK, Disjoint
<1>2. QueuesAreSound /\ OneAtWork /\ ReadingAgrees
  BY DEF Init, QueuesAreSound, OneAtWork, ReadingAgrees
<1>3. TagsAreTheOperations
  BY DEF Init, TagsAreTheOperations
<1>4. QueueIsTyped /\ QueueInOrder /\ QueueIsLater /\ LiveIsHead /\ KeptUntilAnswered /\ WordsInOrder
  BY DEF Init, QueueIsTyped, QueueInOrder, QueueIsLater, LiveIsHead, KeptUntilAnswered, EditsOf,
         WordsInOrder
<1>5. OpsAreSpelled
  BY DEF Init, OpsAreSpelled, Speaks, Spelled, NoOp
<1>6. KeptIsLatest
  BY DEF Init, KeptIsLatest, EditsOf
<1>. QED BY <1>1, <1>2, <1>3, <1>4, <1>5, <1>6 DEF IInv, Operations, Edits

\* Every step keeps the whole invariant.
LEMMA StepInvariant == IInv /\ [Next]_vars => IInv'
<1>. SUFFICES ASSUME IInv, [Next]_vars PROVE IInv' OBVIOUS
<1>1. Operations'
  BY TypeInvariant, OneInvariant, ReadingInvariant, TagsInvariant DEF IInv, Operations
<1>2. TypeOK'
  BY <1>1 DEF Operations
<1>3. /\ TypeOK /\ OneAtWork /\ QueueIsTyped /\ QueueInOrder /\ OpsAreSpelled /\ QueueIsLater
      /\ LiveIsHead /\ KeptIsLatest /\ KeptUntilAnswered /\ WordsInOrder
  BY DEF IInv, Operations, Edits
<1>4. QueueIsTyped' BY <1>3, QueueTypedStep
<1>5. QueueInOrder' BY <1>3, QueueOrderStep
<1>6. OpsAreSpelled' BY <1>2, <1>3, SpelledStep
<1>7. QueueIsLater' BY <1>3, LaterStep
<1>8. LiveIsHead' BY <1>2, <1>3, HeadStep
<1>9. KeptIsLatest' BY <1>3, KeptStep
<1>10. KeptUntilAnswered' BY <1>3, AnsweredStep
<1>11. WordsInOrder' BY <1>3, WordsStep
<1>. QED BY <1>1, <1>4, <1>5, <1>6, <1>7, <1>8, <1>9, <1>10, <1>11 DEF IInv, Edits

\* So every state has it.
LEMMA Invariant == Spec => []IInv
BY InitInvariant, StepInvariant, PTL DEF Spec

\* The row, the requests, the queues and what is kept are well formed in every state,
\* whatever is lost, refused, served late or sent again.
THEOREM TypeCorrect == Spec => []TypeOK
<1>1. IInv => TypeOK BY DEF IInv, Operations
<1>. QED BY <1>1, Invariant, PTL

\* However often attempts of changeTags are beaten, and however late requests are served
\* that were given up: the tags are what the accepted operations make of them.
THEOREM NoOperationIsLost == Spec => []TagsAreTheOperations
<1>1. IInv => TagsAreTheOperations BY DEF IInv, Operations
<1>. QED BY <1>1, Invariant, PTL

\* What a client typed waits in its queue or is kept for resending until the server has
\* answered it, or a later edit of that client: no failure, refusal or list loses it.
THEOREM NoEditIsForgotten == Spec => []KeptUntilAnswered
<1>1. IInv => KeptUntilAnswered BY DEF IInv, Edits
<1>. QED BY <1>1, Invariant, PTL

\* However often an operation was kept, merged and sent again, the server accepts of it
\* what its client said last, and nothing that takes back a later word.
THEOREM LastWordCounts == Spec => []WordsInOrder
<1>1. IInv => WordsInOrder BY DEF IInv, Edits
<1>. QED BY <1>1, Invariant, PTL
==============================================================================
