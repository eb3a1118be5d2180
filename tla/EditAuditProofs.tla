--------------------------- MODULE EditAuditProofs ----------------------------
(***************************************************************************)
(* Proofs about EditAudit, for any pushes, connections, users and          *)
(* documents, and any number of faults.                                    *)
(*                                                                         *)
(* The counts rest on two facts: nothing is counted before its handler has *)
(* come past the audit, and what is counted is in one window, flight or    *)
(* record or among the losses.  The record of a document's making rests on *)
(* another two: of all pushes of a document over a connection at most one  *)
(* asks or records, and whoever passes the audit without asking comes      *)
(* after one that has asked.                                               *)
(***************************************************************************)
EXTENDS EditAudit, TLAPS

-----------------------------------------------------------------------------
(* The inductive invariant. *)

\* The handler of p is past the audit.
Late(p) == push[p].pc \in {"storing", "stored", "refused", "cut"}

InWindow(p) == \E k \in Keys : p \in windows[k]
InFlight(p) == \E f \in flights : p \in f.edits
InLog(p) == \E r \in log : p \in r.edits

\* What is counted has passed its audit, and is in one place.
CountedOnce ==
    /\ \A k \in Keys : \A p \in windows[k] :
         Late(p) /\ KeyOf(p) = k /\ ~InFlight(p) /\ ~InLog(p) /\ p \notin lost
    /\ \A f \in flights : \A p \in f.edits : Late(p) /\ ~InLog(p) /\ p \notin lost
    /\ \A f, g \in flights : f # g => f.edits \intersect g.edits = {}
    /\ \A r \in log : \A p \in r.edits : Late(p) /\ p \notin lost
    /\ \A q, r \in log : q # r => q.edits \intersect r.edits = {}
    /\ \A p \in lost : Late(p)

CountedSomewhere ==
    \A p \in Counted : InWindow(p) \/ InFlight(p) \/ InLog(p) \/ p \in lost \/ p \in missed

\* What was promised is recorded, on its way, or in a window the stop has yet to come to.
PromisedIsPlaced ==
    life = "stopping" =>
        \A p \in promised : \/ InLog(p) \/ p \in lost \/ InFlight(p)
                            \/ \E k \in stopKeys : p \in windows[k]

CInv == TypeOK /\ CountedOnce /\ CountedSomewhere /\ PromisedIsPlaced

\* p asks whether its document is new, or has recorded that it is.
Asker(p) == push[p].pc \in {"asking", "creating"} \/ p \in creates

Made(d) == \E p \in creates : push[p].doc = d

\* One push asks for a document over a connection, and has entered it before it asked.
AskersAreAlone ==
    /\ \A p \in Pushes : Asker(p) =>
         /\ push[p] # Nothing
         /\ push[p].conn \in gone \/ push[p].doc \in checkedDocs[push[p].conn]
    /\ \A p \in creates : push[p].pc \notin {"asking", "creating"}
    /\ \A p, q \in Pushes :
         /\ Asker(p) /\ Asker(q)
         /\ push[p].conn = push[q].conn /\ push[p].doc = push[q].doc
         => p = q

\* Where a document is stored, about to be, or found, its making is recorded; where it is
\* entered, that or somebody is asking.
MakingGoesFirst ==
    \A d \in Docs \ (Internal \union doubted) :
        /\ tables[d] # {} => Made(d)
        /\ \A p \in Pushes :
             /\ push[p] # Nothing
             /\ push[p].doc = d
             /\ \/ push[p].pc \in {"counting", "storing"}
                \/ push[p].pc = "asking" /\ push[p].found
             => Made(d)
        /\ \A c \in Conns : d \in checkedDocs[c] =>
             \/ Made(d)
             \/ \E p \in Pushes : /\ push[p].pc \in {"asking", "creating"}
                                  /\ push[p].conn = c /\ push[p].doc = d

MInv == TypeOK /\ AskersAreAlone /\ MakingGoesFirst

IInv == CInv /\ MInv

-----------------------------------------------------------------------------
(* Types. *)

\* A push that has come in has a connection and a document.
LEMMA HandlersAreTyped ==
    ASSUME TypeOK, NEW p \in Pushes
    PROVE  /\ push[p] # Nothing <=> push[p].pc # "idle"
           /\ push[p].pc # "idle" =>
                /\ push[p] \in Handlers
                /\ push[p].conn \in Conns /\ push[p].doc \in Docs
                /\ UserOf[push[p].conn] \in Users /\ KeyOf(p) \in Keys
<1>1. push[p] \in Handlers \union {Nothing} BY DEF TypeOK
<1>2. CASE push[p] = Nothing BY <1>2 DEF Nothing
<1>3. CASE push[p] \in Handlers
  <2>1. /\ push[p].pc \in {"asking", "creating", "counting", "storing", "stored", "refused", "cut"}
        /\ push[p].conn \in Conns /\ push[p].doc \in Docs
    BY <1>3 DEF Handlers
  <2>2. UserOf[push[p].conn] \in Users BY <2>1, EditAuditBounds
  <2>3. KeyOf(p) \in Keys BY <2>1, <2>2 DEF KeyOf, Keys
  <2>. QED BY <1>3, <2>1, <2>2, <2>3 DEF Nothing
<1>. QED BY <1>1, <1>2, <1>3

\* A fresh handler is one.
LEMMA FreshHandler ==
    ASSUME NEW c \in Conns, NEW d \in Docs,
           NEW pc \in {"asking", "creating", "counting", "storing", "stored", "refused", "cut"}
    PROVE  /\ At(pc, c, d) \in Handlers
           /\ At(pc, c, d).pc = pc /\ At(pc, c, d).conn = c /\ At(pc, c, d).doc = d
           /\ ~At(pc, c, d).found
BY DEF At, Handlers

\* One handler moves, and stays one of its connection and document.
LEMMA HandlerMoves ==
    ASSUME TypeOK, NEW p \in Pushes, NEW h \in Handlers, push' = [push EXCEPT ![p] = h]
    PROVE  /\ push' \in [Pushes -> Handlers \union {Nothing}]
           /\ push'[p] = h
           /\ \A q \in Pushes : q # p => push'[q] = push[q]
BY DEF TypeOK

\* What each step of a handler writes of the pushes.
LEMMA AsksMoves ==
    ASSUME TypeOK, NEW p \in Pushes, NEW t \in {"snapshot", "rows"}, Asks(p, t)
    PROVE  /\ push' \in [Pushes -> Handlers \union {Nothing}]
           /\ \A q \in Pushes : q # p => push'[q] = push[q]
           /\ push[p].pc = "asking" /\ push'[p] # Nothing
           /\ push'[p].conn = push[p].conn /\ push'[p].doc = push[p].doc
           /\ \/ push'[p].pc = "asking" /\ (push'[p].found => push[p].found \/ tables[push[p].doc] # {})
              \/ push'[p].pc = "creating"
              \/ push'[p].pc = "counting" /\ (push[p].found \/ tables[push[p].doc] # {})
<1>1. push[p].pc = "asking" /\ push[p] \in Handlers /\ push[p].conn \in Conns /\ push[p].doc \in Docs
  BY HandlersAreTyped DEF Asks
<1>. DEFINE unread == push[p].unread \ {t}
            found == push[p].found \/ t \in tables[push[p].doc]
            asking == [push[p] EXCEPT !.unread = unread, !.found = found]
            asked == At(IF found THEN "counting" ELSE "creating", push[p].conn, push[p].doc)
<1>2. push' = [push EXCEPT ![p] = IF unread # {} THEN asking ELSE asked] BY DEF Asks
<1>3. CASE unread # {}
  <2>1. asking \in Handlers BY <1>1 DEF Handlers
  <2>2. asking.pc = "asking" /\ asking.conn = push[p].conn /\ asking.doc = push[p].doc
        /\ asking.found = found
    BY <1>1 DEF Handlers
  <2>3. push' = [push EXCEPT ![p] = asking] BY <1>2, <1>3
  <2>4. /\ push' \in [Pushes -> Handlers \union {Nothing}] /\ push'[p] = asking
        /\ \A q \in Pushes : q # p => push'[q] = push[q]
    BY <2>1, <2>3, HandlerMoves
  <2>5. asking # Nothing BY <2>2 DEF Nothing
  <2>6. found => push[p].found \/ tables[push[p].doc] # {} OBVIOUS
  <2>. QED BY <1>1, <2>2, <2>4, <2>5, <2>6
<1>4. CASE unread = {}
  <2>1. asked \in Handlers /\ asked.conn = push[p].conn /\ asked.doc = push[p].doc
        /\ asked.pc = IF found THEN "counting" ELSE "creating"
    BY <1>1, FreshHandler
  <2>2. push' = [push EXCEPT ![p] = asked] BY <1>2, <1>4
  <2>3. /\ push' \in [Pushes -> Handlers \union {Nothing}] /\ push'[p] = asked
        /\ \A q \in Pushes : q # p => push'[q] = push[q]
    BY <2>1, <2>2, HandlerMoves
  <2>4. asked # Nothing BY <2>1 DEF Nothing
  <2>5. found => push[p].found \/ tables[push[p].doc] # {} OBVIOUS
  <2>. QED BY <1>1, <2>1, <2>3, <2>4, <2>5
<1>. QED BY <1>3, <1>4

\* A handler goes on to another place in its code.
LEMMA HandlerGoesTo ==
    ASSUME TypeOK, NEW p \in Pushes, push[p].pc # "idle",
           NEW pc \in {"asking", "creating", "counting", "storing", "stored", "refused", "cut"},
           \/ push' = [push EXCEPT ![p].pc = pc]
           \/ push' = [push EXCEPT ![p] = At(pc, @.conn, @.doc)]
    PROVE  /\ push' \in [Pushes -> Handlers \union {Nothing}]
           /\ \A q \in Pushes : q # p => push'[q] = push[q]
           /\ push'[p] # Nothing /\ push'[p].pc = pc
           /\ push'[p].conn = push[p].conn /\ push'[p].doc = push[p].doc
<1>1. push[p] \in Handlers /\ push[p].conn \in Conns /\ push[p].doc \in Docs BY HandlersAreTyped
<1>2. CASE push' = [push EXCEPT ![p].pc = pc]
  <2>. DEFINE h == [push[p] EXCEPT !.pc = pc]
  <2>1. h \in Handlers /\ h.pc = pc /\ h.conn = push[p].conn /\ h.doc = push[p].doc
    BY <1>1 DEF Handlers
  <2>2. push' = [push EXCEPT ![p] = h] BY <1>2 DEF TypeOK
  <2>3. h # Nothing BY <2>1, <1>1 DEF Nothing
  <2>. HIDE DEF h
  <2>. QED BY <2>1, <2>2, <2>3, HandlerMoves
<1>3. CASE push' = [push EXCEPT ![p] = At(pc, @.conn, @.doc)]
  <2>1. push' = [push EXCEPT ![p] = At(pc, push[p].conn, push[p].doc)] BY <1>3 DEF TypeOK
  <2>2. At(pc, push[p].conn, push[p].doc) \in Handlers BY <1>1, FreshHandler
  <2>3. At(pc, push[p].conn, push[p].doc) # Nothing BY DEF At, Nothing
  <2>4. /\ At(pc, push[p].conn, push[p].doc).pc = pc
        /\ At(pc, push[p].conn, push[p].doc).conn = push[p].conn
        /\ At(pc, push[p].conn, push[p].doc).doc = push[p].doc
    BY DEF At
  <2>. QED BY <2>1, <2>2, <2>3, <2>4, HandlerMoves
<1>. QED BY <1>2, <1>3

-----------------------------------------------------------------------------
(* The counts, step by step. *)

\* A step that leaves windows, flights and records alone counts nothing.
LEMMA CountsKept ==
    ASSUME CInv, TypeOK', UNCHANGED audits, life' = "stopping" => life = "stopping",
           missed \subseteq missed',
           \A p \in Pushes : Late(p) => Late(p)' /\ KeyOf(p)' = KeyOf(p),
           \A p \in Counted' : p \in Counted \/ p \in missed'
    PROVE  CInv'
<1>1. /\ UNCHANGED <<windows, flights, log, lost, stopKeys, promised>> BY DEF audits
<1>2. \A p : /\ InWindow(p)' = InWindow(p)
             /\ InFlight(p)' = InFlight(p)
             /\ InLog(p)' = InLog(p)
  BY <1>1 DEF InWindow, InFlight, InLog
<1>3. /\ \A k \in Keys : windows[k] \subseteq Pushes
      /\ \A f \in flights : f.edits \subseteq Pushes
      /\ \A r \in log : r.edits \subseteq Pushes
      /\ lost \subseteq Pushes
  BY DEF CInv, TypeOK
<1>4. CountedOnce' BY <1>1, <1>2, <1>3 DEF CInv, CountedOnce
<1>5. CountedSomewhere' BY <1>1, <1>2 DEF CInv, CountedSomewhere
<1>6. PromisedIsPlaced' BY <1>1, <1>2 DEF CInv, PromisedIsPlaced
<1>. QED BY <1>4, <1>5, <1>6 DEF CInv

\* One handler goes on, and counts nothing.
LEMMA CountsKeptByHandler ==
    ASSUME CInv, TypeOK', UNCHANGED audits, life' = life, missed \subseteq missed',
           NEW p \in Pushes, \A q \in Pushes : q # p => push'[q] = push[q],
           Late(p) => Late(p)' /\ push'[p].conn = push[p].conn /\ push'[p].doc = push[p].doc,
           p \in Counted' => p \in Counted \/ p \in missed'
    PROVE  CInv'
<1>1. \A q \in Pushes : Late(q) => Late(q)' /\ KeyOf(q)' = KeyOf(q) BY DEF Late, KeyOf
<1>2. \A q \in Counted' : q \in Counted \/ q \in missed' BY DEF Counted
<1>. QED BY <1>1, <1>2, CountsKept

LEMMA ReceiveCounts ==
    ASSUME CInv, NEW p \in Pushes, NEW c \in Conns, NEW d \in Docs, Receive(p, c, d)
    PROVE  /\ CInv'
           /\ push[p] = Nothing /\ push'[p] # Nothing /\ push'[p] \in Handlers
           /\ \A q \in Pushes : q # p => push'[q] = push[q]
           /\ push'[p].conn = c /\ push'[p].doc = d
           /\ \/ d \in Internal /\ push'[p].pc = "storing" /\ checkedDocs' = checkedDocs
              \/ /\ d \notin checkedDocs[c]
                 /\ push'[p].pc = "asking" /\ ~push'[p].found
                 /\ checkedDocs' = [checkedDocs EXCEPT ![c] = @ \union {d}]
              \/ d \in checkedDocs[c] /\ push'[p].pc = "counting" /\ checkedDocs' = checkedDocs
<1>. DEFINE asks == [At("asking", c, d) EXCEPT !.unread = {"snapshot", "rows"}]
<1>1. asks \in Handlers /\ asks.pc = "asking" /\ asks.conn = c /\ asks.doc = d /\ ~asks.found
  BY DEF At, Handlers
<1>2. PICK h \in Handlers :
        /\ push' = [push EXCEPT ![p] = h]
        /\ h.conn = c /\ h.doc = d
        /\ \/ d \in Internal /\ h.pc = "storing" /\ checkedDocs' = checkedDocs
           \/ /\ d \notin checkedDocs[c]
              /\ h.pc = "asking" /\ ~h.found
              /\ checkedDocs' = [checkedDocs EXCEPT ![c] = @ \union {d}]
           \/ d \in checkedDocs[c] /\ h.pc = "counting" /\ checkedDocs' = checkedDocs
  <2>. HIDE DEF asks
  <2>1. CASE d \in Internal
    <3>1. push' = [push EXCEPT ![p] = At("storing", c, d)] /\ checkedDocs' = checkedDocs
      BY <2>1 DEF Receive
    <3>2. /\ At("storing", c, d) \in Handlers
          /\ At("storing", c, d).pc = "storing"
          /\ At("storing", c, d).conn = c /\ At("storing", c, d).doc = d
      BY FreshHandler
    <3>. QED BY <2>1, <3>1, <3>2
  <2>2. CASE d \notin Internal /\ FirstTouch(c, d)
    <3>1. /\ push' = [push EXCEPT ![p] = asks]
          /\ checkedDocs' = [checkedDocs EXCEPT ![c] = @ \union {d}]
      BY <2>2 DEF Receive, asks
    <3>. QED BY <1>1, <2>2, <3>1 DEF FirstTouch
  <2>3. CASE d \notin Internal /\ ~FirstTouch(c, d)
    <3>1. push' = [push EXCEPT ![p] = At("counting", c, d)] /\ checkedDocs' = checkedDocs
      BY <2>3 DEF Receive
    <3>2. /\ At("counting", c, d) \in Handlers
          /\ At("counting", c, d).pc = "counting"
          /\ At("counting", c, d).conn = c /\ At("counting", c, d).doc = d
      BY FreshHandler
    <3>. QED BY <2>3, <3>1, <3>2 DEF FirstTouch
  <2>. QED BY <2>1, <2>2, <2>3
<1>3. /\ push' \in [Pushes -> Handlers \union {Nothing}] /\ push'[p] = h
      /\ \A q \in Pushes : q # p => push'[q] = push[q]
  BY <1>2, HandlerMoves DEF CInv
<1>4. /\ push[p] = Nothing /\ faults' \in 0..MaxFaults /\ doubted' \subseteq Docs
      /\ UNCHANGED <<life, gone, missed, tables, creates, audits>>
  BY EditAuditBounds DEF Receive, CInv, TypeOK
<1>5. checkedDocs' \in [Conns -> SUBSET Docs] BY <1>2 DEF CInv, TypeOK
<1>6. TypeOK' BY <1>3, <1>4, <1>5 DEF CInv, TypeOK, audits
<1>7. ~Late(p) BY <1>4 DEF Nothing, Late
<1>8. p \notin Counted' BY <1>2, <1>3 DEF Counted
<1>9. CInv' BY <1>3, <1>4, <1>6, <1>7, <1>8, CountsKeptByHandler
<1>10. h # Nothing BY <1>2 DEF Nothing
<1>. QED BY <1>2, <1>3, <1>4, <1>9, <1>10

\* The steps of a handler on the way to the count, and after it.
LEMMA AuditCounts ==
    ASSUME CInv, NEW p \in Pushes,
           \/ \E t \in {"snapshot", "rows"} : Asks(p, t)
           \/ Creates(p)
           \/ CreateFails(p)
           \/ AuditThrows(p)
           \/ Stores(p)
           \/ StoreFails(p)
    PROVE  CInv'
<1>. USE DEF CInv
<1>1. CASE \E t \in {"snapshot", "rows"} : Asks(p, t)
  <2>1. PICK t \in {"snapshot", "rows"} : Asks(p, t) BY <1>1
  <2>2. /\ push' \in [Pushes -> Handlers \union {Nothing}]
        /\ \A q \in Pushes : q # p => push'[q] = push[q]
        /\ push[p].pc = "asking" /\ push'[p].pc \in {"asking", "creating", "counting"}
    BY <2>1, AsksMoves
  <2>3. UNCHANGED <<life, gone, checkedDocs, missed, doubted, tables, creates, audits, faults>>
    BY <2>1 DEF Asks
  <2>4. TypeOK' BY <2>2, <2>3 DEF TypeOK, audits
  <2>5. ~Late(p) /\ p \notin Counted' BY <2>2 DEF Late, Counted
  <2>. QED BY <2>2, <2>3, <2>4, <2>5, CountsKeptByHandler
<1>2. CASE Creates(p) \/ CreateFails(p)
  <2>1. /\ push[p].pc = "creating" /\ push' = [push EXCEPT ![p].pc = "counting"]
        /\ UNCHANGED <<life, gone, checkedDocs, missed, tables, audits>>
        /\ creates' \subseteq Pushes /\ faults' \in 0..MaxFaults
    BY <1>2, EditAuditBounds DEF Creates, CreateFails, TypeOK
  <2>2. doubted' \subseteq Docs BY <1>2, <2>1, HandlersAreTyped DEF Creates, CreateFails, TypeOK
  <2>3. /\ push' \in [Pushes -> Handlers \union {Nothing}]
        /\ \A q \in Pushes : q # p => push'[q] = push[q]
        /\ push'[p].pc = "counting"
    BY <2>1, HandlerGoesTo
  <2>4. TypeOK' BY <2>1, <2>2, <2>3 DEF TypeOK, audits
  <2>5. ~Late(p) /\ p \notin Counted' BY <2>1, <2>3 DEF Late, Counted
  <2>. QED BY <2>1, <2>3, <2>4, <2>5, CountsKeptByHandler
<1>3. CASE AuditThrows(p)
  <2>1. /\ push[p].pc \in {"asking", "creating", "counting"}
        /\ push' = [push EXCEPT ![p] = At("storing", @.conn, @.doc)]
        /\ UNCHANGED <<life, gone, checkedDocs, tables, creates, audits>>
        /\ missed' = missed \union {p} /\ faults' \in 0..MaxFaults
    BY <1>3, EditAuditBounds DEF AuditThrows, AfterAudit, TypeOK
  <2>2. doubted' \subseteq Docs BY <1>3, <2>1, HandlersAreTyped DEF AuditThrows, TypeOK
  <2>3. /\ push' \in [Pushes -> Handlers \union {Nothing}]
        /\ \A q \in Pushes : q # p => push'[q] = push[q]
    BY <2>1, HandlerGoesTo
  <2>4. TypeOK' BY <2>1, <2>2, <2>3 DEF TypeOK, audits
  <2>5. ~Late(p) BY <2>1 DEF Late
  <2>. QED BY <2>1, <2>3, <2>4, <2>5, CountsKeptByHandler
<1>4. CASE Stores(p) \/ StoreFails(p)
  <2>1. PICK pc \in {"stored", "refused"} : push' = [push EXCEPT ![p].pc = pc]
    BY <1>4 DEF Stores, StoreFails
  <2>2. /\ push[p].pc = "storing"
        /\ UNCHANGED <<life, gone, checkedDocs, missed, doubted, creates, audits>>
        /\ faults' \in 0..MaxFaults /\ tables' \in [Docs -> SUBSET {"snapshot", "rows"}]
    BY <1>4, EditAuditBounds DEF Stores, StoreFails, TypeOK
  <2>3. /\ push' \in [Pushes -> Handlers \union {Nothing}]
        /\ \A q \in Pushes : q # p => push'[q] = push[q]
        /\ push'[p].pc = pc /\ push'[p].conn = push[p].conn /\ push'[p].doc = push[p].doc
    BY <2>1, <2>2, HandlerGoesTo
  <2>4. TypeOK' BY <2>2, <2>3 DEF TypeOK, audits
  <2>5. Late(p)' /\ (p \in Counted' => p \in Counted) BY <2>2, <2>3 DEF Late, Counted
  <2>. QED BY <2>2, <2>3, <2>4, <2>5, CountsKeptByHandler
<1>. QED BY <1>1, <1>2, <1>3, <1>4

\* The push is counted in the window of its key, and nowhere else.
LEMMA CountsCounts ==
    ASSUME CInv, NEW p \in Pushes, Counts(p)
    PROVE  CInv'
<1>. USE DEF CInv
<1>1. PICK k \in Keys : k = KeyOf(p) BY HandlersAreTyped DEF Counts
<1>2. /\ push[p].pc = "counting"
      /\ push' = [push EXCEPT ![p].pc = "storing"]
      /\ windows' = [windows EXCEPT ![k] = windows[k] \union {p}]
      /\ UNCHANGED <<life, gone, checkedDocs, missed, doubted, tables, creates, flights, log,
                     stopKeys, lost, promised, faults>>
  BY <1>1 DEF Counts, Tracked
<1>3. /\ push' \in [Pushes -> Handlers \union {Nothing}]
      /\ \A q \in Pushes : q # p => push'[q] = push[q]
      /\ push'[p].pc = "storing" /\ push'[p].conn = push[p].conn /\ push'[p].doc = push[p].doc
  BY <1>2, HandlerGoesTo
<1>4. TypeOK'
  <2>1. windows' \in [Keys -> SUBSET Pushes] BY <1>2 DEF TypeOK
  <2>. QED BY <1>2, <1>3, <2>1 DEF TypeOK
<1>5. ~Late(p) /\ Late(p)' /\ KeyOf(p)' = k BY <1>1, <1>2, <1>3 DEF Late, KeyOf
<1>6. \A q \in Pushes : q # p => Late(q)' = Late(q) /\ KeyOf(q)' = KeyOf(q)
  BY <1>3 DEF Late, KeyOf
<1>7. /\ \A i \in Keys : windows[i] \subseteq Pushes
      /\ \A f \in flights : f.edits \subseteq Pushes
      /\ \A r \in log : r.edits \subseteq Pushes
      /\ lost \subseteq Pushes
  BY DEF TypeOK
<1>8. /\ windows'[k] = windows[k] \union {p}
      /\ \A i \in Keys : i # k => windows'[i] = windows[i]
  BY <1>2 DEF TypeOK
<1>9. \A q : InFlight(q)' = InFlight(q) /\ InLog(q)' = InLog(q) BY <1>2 DEF InFlight, InLog
<1>10. ~InFlight(p) /\ ~InLog(p) /\ p \notin lost BY <1>5 DEF CountedOnce, InFlight, InLog
<1>11. CountedOnce'
  <2>1. \A i \in Keys : \A q \in windows'[i] :
          Late(q)' /\ KeyOf(q)' = i /\ ~InFlight(q)' /\ ~InLog(q)' /\ q \notin lost'
    <3>. SUFFICES ASSUME NEW i \in Keys, NEW q \in windows'[i]
                  PROVE  Late(q)' /\ KeyOf(q)' = i /\ ~InFlight(q)' /\ ~InLog(q)' /\ q \notin lost'
      OBVIOUS
    <3>1. CASE q \in windows[i]
      <4>1. q \in Pushes /\ Late(q) /\ KeyOf(q) = i /\ ~InFlight(q) /\ ~InLog(q) /\ q \notin lost
        BY <1>7, <3>1 DEF CountedOnce
      <4>2. q # p BY <1>5, <4>1
      <4>. QED BY <1>2, <1>6, <1>9, <4>1, <4>2
    <3>2. CASE q \notin windows[i]
      <4>1. q = p /\ i = k BY <1>8, <3>2
      <4>. QED BY <1>2, <1>5, <1>9, <1>10, <4>1
    <3>. QED BY <3>1, <3>2
  <2>2. \A q \in Pushes : Late(q) => Late(q)' BY <1>5, <1>6
  <2>. QED BY <1>2, <1>7, <1>9, <2>1, <2>2 DEF CountedOnce
<1>12. CountedSomewhere'
  <2>1. \A q : InWindow(q) => InWindow(q)' BY <1>8 DEF InWindow
  <2>2. InWindow(p)' BY <1>8 DEF InWindow
  <2>3. \A q \in Counted' : q = p \/ q \in Counted BY <1>3 DEF Counted
  <2>. QED BY <1>2, <1>9, <2>1, <2>2, <2>3 DEF CountedSomewhere
<1>13. PromisedIsPlaced'
  <2>1. \A i \in stopKeys : \A q : q \in windows[i] => q \in windows'[i] BY <1>8 DEF TypeOK
  <2>. QED BY <1>2, <1>9, <2>1 DEF PromisedIsPlaced
<1>. QED BY <1>4, <1>11, <1>12, <1>13

\* A window is closed, and becomes a flight.
LEMMA FlushCounts ==
    ASSUME CInv, NEW k \in Keys, NEW by \in {"timer", "stop"},
           windows[k] # {}, Flush(k, by), stopKeys' \subseteq stopKeys,
           \A i \in stopKeys : i = k \/ i \in stopKeys',
           UNCHANGED <<life, handlers, tables, creates, log, lost, promised, faults>>
    PROVE  CInv'
<1>. USE DEF CInv
<1>. DEFINE new == [key |-> k, edits |-> windows[k], by |-> by]
<1>1. /\ windows' = [windows EXCEPT ![k] = {}] /\ flights' = flights \union {new}
      /\ UNCHANGED <<life, gone, checkedDocs, push, missed, doubted, tables, creates, log, lost,
                     promised, faults>>
  BY DEF Flush, Closed, handlers
<1>2. windows[k] \subseteq Pushes /\ new.edits = windows[k] BY DEF TypeOK
<1>3. new \in [key : Keys, edits : (SUBSET Pushes) \ {{}}, by : {"timer", "stop"}] BY <1>2
<1>. HIDE DEF new
<1>4. windows'[k] = {} /\ \A i \in Keys : i # k => windows'[i] = windows[i] BY <1>1 DEF TypeOK
<1>5. TypeOK'
  <2>1. windows' \in [Keys -> SUBSET Pushes] BY <1>1 DEF TypeOK
  <2>. QED BY <1>1, <1>3, <2>1 DEF TypeOK
<1>6. \A q : /\ Late(q)' = Late(q) /\ KeyOf(q)' = KeyOf(q) /\ InLog(q)' = InLog(q)
             /\ (InFlight(q)' <=> InFlight(q) \/ q \in windows[k])
  BY <1>1, <1>2 DEF Late, KeyOf, InLog, InFlight
<1>7. CountedOnce'
  <2>1. \A i \in Keys : \A q \in windows'[i] :
          Late(q)' /\ KeyOf(q)' = i /\ ~InFlight(q)' /\ ~InLog(q)' /\ q \notin lost'
    <3>. SUFFICES ASSUME NEW i \in Keys, NEW q \in windows'[i]
                  PROVE  Late(q)' /\ KeyOf(q)' = i /\ ~InFlight(q)' /\ ~InLog(q)' /\ q \notin lost'
      OBVIOUS
    <3>1. i # k /\ q \in windows[i] BY <1>4
    <3>2. Late(q) /\ KeyOf(q) = i /\ ~InFlight(q) /\ ~InLog(q) /\ q \notin lost
      BY <3>1 DEF CountedOnce
    <3>3. q \notin windows[k] BY <3>1, <3>2 DEF CountedOnce
    <3>. QED BY <1>1, <1>6, <3>2, <3>3
  <2>2. \A q \in windows[k] : Late(q) /\ ~InFlight(q) /\ ~InLog(q) /\ q \notin lost
    BY DEF CountedOnce
  <2>3. \A f \in flights' : \A q \in f.edits : Late(q)' /\ ~InLog(q)' /\ q \notin lost'
    BY <1>1, <1>2, <1>6, <2>2 DEF CountedOnce
  <2>4. \A f \in flights : f.edits \intersect new.edits = {} BY <1>2, <2>2 DEF InFlight
  <2>5. \A f, g \in flights' : f # g => f.edits \intersect g.edits = {}
    BY <1>1, <2>4 DEF CountedOnce
  <2>. QED BY <1>1, <1>6, <2>1, <2>3, <2>5 DEF CountedOnce
<1>8. CountedSomewhere'
  <2>1. Counted' = Counted BY <1>1 DEF Counted
  <2>2. \A q : InWindow(q) => InWindow(q)' \/ InFlight(q)' BY <1>4, <1>6 DEF InWindow
  <2>. QED BY <1>1, <1>6, <2>1, <2>2 DEF CountedSomewhere
<1>9. PromisedIsPlaced'
  <2>1. \A i \in stopKeys : \A q : q \in windows[i] =>
          InFlight(q)' \/ \E j \in stopKeys' : q \in windows'[j]
    BY <1>4, <1>6 DEF TypeOK
  <2>. QED BY <1>1, <1>6, <2>1 DEF PromisedIsPlaced
<1>. QED BY <1>5, <1>7, <1>8, <1>9

\* A flight lands: in the log, or among the losses.
LEMMA FlightCounts ==
    ASSUME CInv, NEW f \in flights, Records(f) \/ RecordFails(f)
    PROVE  CInv'
<1>. USE DEF CInv
<1>1. /\ flights' = flights \ {f}
      /\ UNCHANGED <<life, gone, checkedDocs, push, missed, doubted, tables, creates, windows,
                     stopKeys, promised>>
      /\ faults' \in 0..MaxFaults
  BY EditAuditBounds DEF Records, RecordFails, handlers, TypeOK
<1>2. /\ f.key \in Keys /\ f.edits \subseteq Pushes /\ f.edits # {} BY DEF TypeOK
<1>3. /\ \A q \in f.edits : Late(q) /\ ~InLog(q) /\ q \notin lost /\ ~InWindow(q)
      /\ \A g \in flights' : g.edits \intersect f.edits = {}
  <2>1. \A q \in f.edits : InFlight(q) BY DEF InFlight
  <2>. QED BY <1>1, <2>1 DEF CountedOnce, InWindow
<1>4. \A q : /\ Late(q)' = Late(q) /\ KeyOf(q)' = KeyOf(q) /\ InWindow(q)' = InWindow(q)
             /\ InFlight(q)' <=> InFlight(q) /\ q \notin f.edits
  <2>1. \A q : Late(q)' = Late(q) /\ KeyOf(q)' = KeyOf(q) /\ InWindow(q)' = InWindow(q)
    BY <1>1 DEF Late, KeyOf, InWindow
  <2>2. \A q : InFlight(q)' <=> InFlight(q) /\ q \notin f.edits BY <1>1, <1>3 DEF InFlight
  <2>. QED BY <2>1, <2>2
<1>5. CASE Records(f)
  <2>. DEFINE new == [key |-> f.key, edits |-> f.edits]
  <2>1. log' = log \union {new} /\ lost' = lost BY <1>5 DEF Records
  <2>2. new \in [key : Keys, edits : (SUBSET Pushes) \ {{}}] /\ new.edits = f.edits BY <1>2
  <2>. HIDE DEF new
  <2>3. \A q : InLog(q)' <=> InLog(q) \/ q \in f.edits BY <2>1, <2>2 DEF InLog
  <2>4. \A r \in log : r.edits \intersect new.edits = {} BY <1>3, <2>2 DEF InLog
  <2>5. TypeOK' BY <1>1, <2>1, <2>2 DEF TypeOK
  <2>6. CountedOnce'
    <3>1. \A k \in Keys : \A q \in windows[k] :
            Late(q)' /\ KeyOf(q)' = k /\ ~InFlight(q)' /\ ~InLog(q)' /\ q \notin lost'
      BY <1>3, <1>4, <2>1, <2>3 DEF CountedOnce, InWindow
    <3>2. \A g \in flights' : \A q \in g.edits : Late(q)' /\ ~InLog(q)' /\ q \notin lost'
      BY <1>1, <1>3, <1>4, <2>1, <2>3 DEF CountedOnce
    <3>3. \A r \in log' : \A q \in r.edits : Late(q)' /\ q \notin lost'
      BY <1>3, <1>4, <2>1, <2>2 DEF CountedOnce
    <3>4. \A q, r \in log' : q # r => q.edits \intersect r.edits = {}
      BY <2>1, <2>4 DEF CountedOnce
    <3>. QED BY <1>1, <1>4, <2>1, <3>1, <3>2, <3>3, <3>4 DEF CountedOnce
  <2>7. Counted' = Counted BY <1>1 DEF Counted
  <2>8. CountedSomewhere' BY <1>1, <1>4, <2>1, <2>3, <2>7 DEF CountedSomewhere
  <2>9. PromisedIsPlaced' BY <1>1, <1>4, <2>1, <2>3 DEF PromisedIsPlaced
  <2>. QED BY <2>5, <2>6, <2>8, <2>9
<1>6. CASE RecordFails(f)
  <2>1. lost' = lost \union f.edits /\ log' = log BY <1>6 DEF RecordFails
  <2>2. \A q : InLog(q)' = InLog(q) BY <2>1 DEF InLog
  <2>3. TypeOK' BY <1>1, <1>2, <2>1 DEF TypeOK
  <2>4. CountedOnce'
    <3>1. \A k \in Keys : \A q \in windows[k] :
            Late(q)' /\ KeyOf(q)' = k /\ ~InFlight(q)' /\ ~InLog(q)' /\ q \notin lost'
      BY <1>3, <1>4, <2>1, <2>2 DEF CountedOnce, InWindow
    <3>2. \A g \in flights' : \A q \in g.edits : Late(q)' /\ ~InLog(q)' /\ q \notin lost'
      BY <1>1, <1>3, <1>4, <2>1, <2>2 DEF CountedOnce
    <3>3. \A r \in log' : \A q \in r.edits : Late(q)' /\ q \notin lost'
      BY <1>3, <1>4, <2>1 DEF CountedOnce, InLog
    <3>4. \A q \in lost' : Late(q)' BY <1>3, <1>4, <2>1 DEF CountedOnce
    <3>. QED BY <1>1, <1>4, <2>1, <3>1, <3>2, <3>3, <3>4 DEF CountedOnce
  <2>5. Counted' = Counted BY <1>1 DEF Counted
  <2>6. CountedSomewhere' BY <1>1, <1>4, <2>1, <2>2, <2>5 DEF CountedSomewhere
  <2>7. PromisedIsPlaced' BY <1>1, <1>4, <2>1, <2>2 DEF PromisedIsPlaced
  <2>. QED BY <2>3, <2>4, <2>6, <2>7
<1>. QED BY <1>5, <1>6

\* The signal to stop promises the windows that are open, and takes their keys.
LEMMA StopCounts ==
    ASSUME CInv, Stop
    PROVE  CInv'
<1>. USE DEF CInv
<1>1. /\ life' = "stopping" /\ stopKeys' = {k \in Keys : windows[k] # {}}
      /\ promised' = UNION {windows[k] : k \in Keys}
      /\ UNCHANGED <<gone, checkedDocs, push, missed, doubted, tables, creates, windows, flights,
                     log, lost, faults>>
  BY DEF Stop, handlers
<1>2. TypeOK'
  <2>1. \A k \in Keys : windows[k] \subseteq Pushes BY DEF TypeOK
  <2>2. promised' \subseteq Pushes /\ stopKeys' \subseteq Keys BY <1>1, <2>1
  <2>. QED BY <1>1, <2>2 DEF TypeOK
<1>3. CountedOnce' BY <1>1 DEF CountedOnce, Late, KeyOf, InFlight, InLog
<1>4. CountedSomewhere'
  BY <1>1 DEF CountedSomewhere, Counted, InWindow, InFlight, InLog
<1>5. PromisedIsPlaced' BY <1>1 DEF PromisedIsPlaced
<1>. QED BY <1>2, <1>3, <1>4, <1>5

\* The stop comes to a key: it closes the window, if there is one.
LEMMA StopTakesCounts ==
    ASSUME CInv, NEW k \in Keys, StopTakes(k)
    PROVE  CInv'
<1>. USE DEF CInv
<1>1. /\ stopKeys' = stopKeys \ {k}
      /\ UNCHANGED <<life, handlers, tables, creates, log, lost, promised, faults>>
  BY DEF StopTakes
<1>2. CASE windows[k] # {}
  <2>1. Flush(k, "stop") BY <1>2 DEF StopTakes, Open
  <2>. QED BY <1>1, <1>2, <2>1, FlushCounts
<1>3. CASE windows[k] = {}
  <2>1. UNCHANGED <<gone, checkedDocs, push, missed, doubted, windows, flights>>
    BY <1>1, <1>3 DEF StopTakes, Open, handlers
  <2>2. TypeOK' BY <1>1, <2>1 DEF TypeOK
  <2>3. CountedOnce' BY <1>1, <2>1 DEF CountedOnce, Late, KeyOf, InFlight, InLog
  <2>4. CountedSomewhere'
    BY <1>1, <2>1 DEF CountedSomewhere, Counted, InWindow, InFlight, InLog
  <2>5. PromisedIsPlaced' BY <1>1, <1>3, <2>1 DEF PromisedIsPlaced, InFlight, InLog
  <2>. QED BY <2>2, <2>3, <2>4, <2>5
<1>. QED BY <1>2, <1>3

\* The process ends: what is in its memory is lost, and its handlers are cut off.
LEMMA EndsMoves ==
    ASSUME TypeOK, Ends
    PROVE  /\ push' \in [Pushes -> Handlers \union {Nothing}]
           /\ \A p \in Pushes :
                IF AtWork(p)
                  THEN /\ push'[p].pc = "cut" /\ push'[p] # Nothing
                       /\ push'[p].conn = push[p].conn /\ push'[p].doc = push[p].doc
                  ELSE push'[p] = push[p]
<1>1. push' = [p \in Pushes |-> IF AtWork(p) THEN [push[p] EXCEPT !.pc = "cut"] ELSE push[p]]
  BY DEF Ends
<1>2. \A p \in Pushes : AtWork(p) =>
        LET h == [push[p] EXCEPT !.pc = "cut"] IN
        h \in Handlers /\ h # Nothing /\ h.pc = "cut" /\ h.conn = push[p].conn /\ h.doc = push[p].doc
  <2>. SUFFICES ASSUME NEW p \in Pushes, AtWork(p)
                PROVE  LET h == [push[p] EXCEPT !.pc = "cut"] IN
                       /\ h \in Handlers /\ h # Nothing
                       /\ h.pc = "cut" /\ h.conn = push[p].conn /\ h.doc = push[p].doc
    OBVIOUS
  <2>1. push[p] \in Handlers BY HandlersAreTyped DEF AtWork
  <2>2. [push[p] EXCEPT !.pc = "cut"].pc = "cut" BY <2>1 DEF Handlers
  <2>. QED BY <2>1, <2>2 DEF Handlers, Nothing
<1>3. push' \in [Pushes -> Handlers \union {Nothing}] BY <1>1, <1>2 DEF TypeOK
<1>. QED BY <1>1, <1>2, <1>3

LEMMA EndsCounts ==
    ASSUME CInv, Ends, faults' \in 0..MaxFaults
    PROVE  CInv'
<1>. USE DEF CInv
<1>1. /\ life' = "down" /\ windows' = [k \in Keys |-> {}] /\ flights' = {} /\ stopKeys' = {}
      /\ promised' = {} /\ checkedDocs' = [c \in Conns |-> {}]
      /\ lost' = lost \union (UNION {windows[k] : k \in Keys})
                 \union (UNION {f.edits : f \in flights})
      /\ UNCHANGED <<missed, doubted, tables, creates, log>>
  BY DEF Ends
<1>2. \A q : /\ q \in lost' <=> q \in lost \/ InWindow(q) \/ InFlight(q)
             /\ InLog(q)' = InLog(q)
             /\ ~InWindow(q)'
             /\ ~InFlight(q)'
  <2>. DEFINE open == UNION {windows[k] : k \in Keys}
              flown == UNION {f.edits : f \in flights}
  <2>1. \A q : (InWindow(q) <=> q \in open) /\ (InFlight(q) <=> q \in flown)
    BY DEF InWindow, InFlight
  <2>2. lost' = lost \union open \union flown BY <1>1
  <2>. HIDE DEF open, flown
  <2>3. \A q : ~InWindow(q)' /\ ~InFlight(q)' /\ InLog(q)' = InLog(q)
    BY <1>1 DEF InWindow, InFlight, InLog
  <2>. QED BY <2>1, <2>2, <2>3
<1>3. /\ \A k \in Keys : windows[k] \subseteq Pushes
      /\ \A f \in flights : f.edits \subseteq Pushes
      /\ \A r \in log : r.edits \subseteq Pushes
      /\ lost \subseteq Pushes
  BY DEF TypeOK
<1>4. \A p \in Pushes : Late(p) => Late(p)' BY EndsMoves DEF Late
<1>5. gone' \subseteq Conns
  <2>1. gone' = gone \union {push[p].conn : p \in {q \in Pushes : push[q] # Nothing}} BY DEF Ends
  <2>2. \A p \in Pushes : push[p] # Nothing => push[p].conn \in Conns BY HandlersAreTyped
  <2>. QED BY <2>1, <2>2 DEF TypeOK
<1>6. TypeOK'
  <2>1. lost' \subseteq Pushes BY <1>2, <1>3 DEF InWindow, InFlight
  <2>. QED BY <1>1, <1>5, <2>1, EndsMoves DEF TypeOK
<1>7. CountedOnce'
  <2>1. \A r \in log : \A q \in r.edits : Late(q)' /\ q \notin lost'
    <3>. SUFFICES ASSUME NEW r \in log, NEW q \in r.edits PROVE Late(q)' /\ q \notin lost' OBVIOUS
    <3>1. InLog(q) /\ Late(q) /\ q \notin lost /\ q \in Pushes BY <1>3 DEF CountedOnce, InLog
    <3>2. ~InWindow(q) /\ ~InFlight(q) BY <3>1 DEF CountedOnce, InWindow, InFlight
    <3>. QED BY <1>2, <1>4, <3>1, <3>2
  <2>2. \A q \in lost' : Late(q)'
    <3>1. \A q \in lost' : q \in Pushes /\ Late(q)
      BY <1>2, <1>3 DEF CountedOnce, InWindow, InFlight
    <3>. QED BY <1>4, <3>1
  <2>. QED BY <1>1, <2>1, <2>2 DEF CountedOnce
<1>8. CountedSomewhere'
  <2>1. \A p \in Counted' : p \in Counted BY EndsMoves DEF Counted, AtWork
  <2>. QED BY <1>1, <1>2, <2>1 DEF CountedSomewhere
<1>9. PromisedIsPlaced' BY <1>1 DEF PromisedIsPlaced
<1>. QED BY <1>6, <1>7, <1>8, <1>9

\* The steps of the process and of the store that no handler takes.
LEMMA ProcessCounts ==
    ASSUME CInv, \/ \E d \in Docs : Rebuilds(d)
                 \/ \E k \in Keys : TimerFires(k)
                 \/ Stop
                 \/ Stopping
                 \/ Crash
                 \/ Start
    PROVE  CInv'
<1>1. CASE \E d \in Docs : Rebuilds(d)
  <2>1. /\ UNCHANGED <<life, gone, checkedDocs, push, missed, doubted, creates, audits, faults>>
        /\ tables' \in [Docs -> SUBSET {"snapshot", "rows"}]
    BY <1>1 DEF Rebuilds, handlers, CInv, TypeOK
  <2>2. TypeOK' BY <2>1 DEF CInv, TypeOK, audits
  <2>3. Counted' = Counted /\ \A p \in Pushes : Late(p)' = Late(p) /\ KeyOf(p)' = KeyOf(p)
    BY <2>1 DEF Counted, Late, KeyOf
  <2>. QED BY <2>1, <2>2, <2>3, CountsKept
<1>2. CASE \E k \in Keys : TimerFires(k)
  <2>1. PICK k \in Keys : TimerFires(k) BY <1>2
  <2>. QED BY <2>1, FlushCounts DEF TimerFires, Expired
<1>3. CASE Stop BY <1>3, StopCounts
<1>4. CASE Stopping
  <2>1. CASE \E k \in Keys : StopTakes(k) BY <2>1, StopTakesCounts
  <2>2. CASE Exit BY <2>2, EndsCounts DEF Exit, CInv, TypeOK
  <2>. QED BY <1>4, <2>1, <2>2 DEF Stopping
<1>5. CASE Crash
  <2>1. Ends /\ faults' \in 0..MaxFaults BY <1>5, EditAuditBounds DEF Crash, CInv, TypeOK
  <2>. QED BY <2>1, EndsCounts
<1>6. CASE Start
  <2>1. /\ life' = "up"
        /\ UNCHANGED <<gone, checkedDocs, push, missed, doubted, tables, creates, audits, faults>>
    BY <1>6 DEF Start, handlers
  <2>2. TypeOK' BY <2>1 DEF CInv, TypeOK, audits
  <2>3. Counted' = Counted /\ \A p \in Pushes : Late(p)' = Late(p) /\ KeyOf(p)' = KeyOf(p)
    BY <2>1 DEF Counted, Late, KeyOf
  <2>. QED BY <2>1, <2>2, <2>3, CountsKept
<1>. QED BY <1>1, <1>2, <1>3, <1>4, <1>5, <1>6

LEMMA InitCounts == Init => CInv
<1>. SUFFICES ASSUME Init PROVE CInv OBVIOUS
<1>. USE DEF Init
<1>1. TypeOK BY EditAuditBounds DEF TypeOK
<1>2. CountedOnce BY DEF CountedOnce
<1>3. CountedSomewhere BY DEF CountedSomewhere, Counted, Nothing
<1>4. PromisedIsPlaced BY DEF PromisedIsPlaced
<1>. QED BY <1>1, <1>2, <1>3, <1>4 DEF CInv

LEMMA NextCounts == CInv /\ [Next]_vars => CInv'
<1>. SUFFICES ASSUME CInv, [Next]_vars PROVE CInv' OBVIOUS
<1>1. CASE \E p \in Pushes, c \in Conns, d \in Docs : Receive(p, c, d) BY <1>1, ReceiveCounts
<1>2. CASE \E p \in Pushes : Handles(p) \/ CreateFails(p) \/ AuditThrows(p) \/ StoreFails(p)
  <2>1. PICK p \in Pushes : Handles(p) \/ CreateFails(p) \/ AuditThrows(p) \/ StoreFails(p)
    BY <1>2
  <2>2. CASE Counts(p) BY <2>2, CountsCounts
  <2>. QED BY <2>1, <2>2, AuditCounts DEF Handles
<1>3. CASE \E f \in flights : Records(f) \/ RecordFails(f) BY <1>3, FlightCounts
<1>4. CASE UNCHANGED vars
  <2>1. /\ UNCHANGED <<life, gone, checkedDocs, push, missed, doubted, tables, creates, audits, faults>>
    BY <1>4 DEF vars, handlers
  <2>2. TypeOK' BY <2>1 DEF CInv, TypeOK, audits
  <2>3. Counted' = Counted /\ \A p \in Pushes : Late(p)' = Late(p) /\ KeyOf(p)' = KeyOf(p)
    BY <2>1 DEF Counted, Late, KeyOf
  <2>. QED BY <2>1, <2>2, <2>3, CountsKept
<1>. QED BY <1>1, <1>2, <1>3, <1>4, ProcessCounts DEF Next

\* What the counting invariant says of the places together.
LEMMA CountsFollow == CInv => CountsAreSound
<1>. SUFFICES ASSUME CInv PROVE CountsAreSound OBVIOUS
<1>. USE DEF CInv
<1>1. NoEditDropsOut
  <2>1. \A p : InWindow(p) \/ InFlight(p) \/ InLog(p) => p \in UNION Places
    BY DEF InWindow, InFlight, InLog, Places
  <2>. HIDE DEF CInv
  <2>2. CountedSomewhere BY DEF CInv
  <2>. QED BY <2>1, <2>2 DEF CountedSomewhere, NoEditDropsOut
<1>2. NoEditCountsTwice
  <2>1. \A k \in Keys : windows[k] \intersect UNION (Places \ {windows[k]}) = {}
    <3>. SUFFICES ASSUME NEW k \in Keys, NEW p \in windows[k], NEW S \in Places,
                         S # windows[k], p \in S
                  PROVE  FALSE
      OBVIOUS
    <3>1. KeyOf(p) = k /\ ~InFlight(p) /\ ~InLog(p) BY DEF CountedOnce
    <3>2. CASE \E i \in Keys : S = windows[i] BY <3>1, <3>2 DEF CountedOnce
    <3>3. CASE \E f \in flights : S = f.edits BY <3>1, <3>3 DEF InFlight
    <3>4. CASE \E r \in log : S = r.edits BY <3>1, <3>4 DEF InLog
    <3>. QED BY <3>2, <3>3, <3>4 DEF Places
  <2>2. \A q : InLog(q) <=> q \in Logged BY DEF InLog, Logged
  <2>. QED BY <2>1, <2>2 DEF NoEditCountsTwice, CountedOnce, InLog
<1>. QED BY <1>1, <1>2 DEF CountsAreSound

\* Each edit that passed its audit is counted, in one place, through windows that close
\* beside the push that counts, records that fail, and a stop (doc-edit-aggregator).
THEOREM EveryEditCountsOnce == Spec => []CountsAreSound
<1>1. Spec => []CInv BY InitCounts, NextCounts, PTL DEF Spec
<1>. QED BY <1>1, CountsFollow, PTL

\* The process goes down in a stop by signal only when what it promised is recorded, lost
\* with its record, or in a flight of the timer (onModuleDestroy).
THEOREM StopAwaitsItsRecords == Spec => StopKeepsItsWord
<1>1. Spec => []CInv BY InitCounts, NextCounts, PTL DEF Spec
<1>2. CInv /\ [Next]_vars =>
        [life = "stopping" /\ life' = "down" =>
           \/ faults' # faults
           \/ \A p \in promised : p \in Logged \union lost
                               \/ \E f \in flights : p \in f.edits /\ f.by = "timer"]_vars
  <2>. SUFFICES ASSUME CInv, Next, life = "stopping", life' = "down", faults' = faults,
                       NEW p \in promised
                PROVE  p \in Logged \union lost \/ \E f \in flights : p \in f.edits /\ f.by = "timer"
    BY DEF CInv
  <2>1. faults \in Nat BY EditAuditBounds DEF CInv, TypeOK
  <2>2. CASE Exit
    <3>1. stopKeys = {} /\ \A f \in flights : f.by = "timer"
      BY <2>2 DEF Exit, StopWaits, CInv, TypeOK
    <3>2. InLog(p) \/ p \in lost \/ InFlight(p) BY <3>1 DEF CInv, PromisedIsPlaced
    <3>. QED BY <3>1, <3>2 DEF InLog, InFlight, Logged
  <2>3. ~Crash BY <2>1 DEF Crash
  <2>4. ~Start /\ ~Stop BY DEF Start, Stop
  <2>5. life' = life \/ Exit
    <3>1. CASE \E q \in Pushes, c \in Conns, d \in Docs : Receive(q, c, d) BY <3>1 DEF Receive
    <3>2. CASE \E q \in Pushes : Handles(q) \/ CreateFails(q) \/ AuditThrows(q) \/ StoreFails(q)
      BY <3>2 DEF Handles, Asks, Creates, Counts, Stores, CreateFails, AuditThrows, StoreFails
    <3>3. CASE \E d \in Docs : Rebuilds(d) BY <3>3 DEF Rebuilds
    <3>4. CASE \E k \in Keys : TimerFires(k) BY <3>4 DEF TimerFires
    <3>5. CASE \E f \in flights : Records(f) \/ RecordFails(f) BY <3>5 DEF Records, RecordFails
    <3>6. CASE \E k \in Keys : StopTakes(k) BY <3>6 DEF StopTakes
    <3>. QED BY <2>3, <2>4, <3>1, <3>2, <3>3, <3>4, <3>5, <3>6 DEF Next, Stopping
  <2>. QED BY <2>2, <2>5
<1>. QED BY <1>1, <1>2, PTL DEF Spec, StopKeepsItsWord

-----------------------------------------------------------------------------
(* The making of a document, step by step. *)

\* Nobody begins to ask, and nobody who asked forgets for whom.
LEMMA AskersKept ==
    ASSUME MInv, gone \subseteq gone', creates' \subseteq Pushes,
           \A p \in Pushes : push[p] # Nothing =>
             /\ push'[p] # Nothing
             /\ push'[p].conn = push[p].conn
             /\ push'[p].doc = push[p].doc,
           \A p \in Pushes : Asker(p)' => Asker(p),
           \A p \in creates' : push'[p].pc \notin {"asking", "creating"},
           \A p \in Pushes : Asker(p) /\ push[p].conn \notin gone' =>
             checkedDocs[push[p].conn] \subseteq checkedDocs'[push[p].conn]
    PROVE  AskersAreAlone'
<1>1. \A p \in Pushes : Asker(p)' =>
        /\ push'[p] # Nothing /\ push'[p].conn = push[p].conn /\ push'[p].doc = push[p].doc
        /\ push[p].conn \in gone' \/ push[p].doc \in checkedDocs'[push[p].conn]
  BY DEF MInv, AskersAreAlone
<1>2. \A p, q \in Pushes :
        /\ Asker(p)' /\ Asker(q)'
        /\ push'[p].conn = push'[q].conn /\ push'[p].doc = push'[q].doc
        => p = q
  BY <1>1 DEF MInv, AskersAreAlone
<1>. QED BY <1>1, <1>2 DEF AskersAreAlone

\* A record of a making stays, and stays the record of its document.
LEMMA MadeStays ==
    ASSUME MInv, creates \subseteq creates',
           \A p \in Pushes : push[p] # Nothing => push'[p].doc = push[p].doc,
           NEW d, Made(d)
    PROVE  Made(d)'
BY DEF MInv, AskersAreAlone, Asker, Made, TypeOK

\* Handler p moves; what it passes, it passes after the record; what it asked for, it goes on
\* asking for, records, or leaves in doubt.
LEMMA MakingKept ==
    ASSUME MInv, doubted \subseteq doubted', creates \subseteq creates', NEW p \in Pushes,
           \A q \in Pushes : q # p => push'[q] = push[q],
           push[p] # Nothing => push'[p].conn = push[p].conn /\ push'[p].doc = push[p].doc,
           \A d \in Docs \ (Internal \union doubted') :
             /\ tables'[d] # {} => tables[d] # {} \/ Made(d)'
             /\ /\ push'[p] # Nothing
                /\ push'[p].doc = d
                /\ \/ push'[p].pc \in {"counting", "storing"}
                   \/ push'[p].pc = "asking" /\ push'[p].found
                => Made(d)'
             /\ \A c \in Conns : /\ d \in checkedDocs'[c]
                                 /\ ~(push'[p].pc \in {"asking", "creating"} /\ push'[p].conn = c
                                      /\ push'[p].doc = d)
                => \/ Made(d)'
                   \/ /\ d \in checkedDocs[c]
                      /\ ~(push[p].pc \in {"asking", "creating"} /\ push[p].conn = c
                           /\ push[p].doc = d)
    PROVE  MakingGoesFirst'
<1>. SUFFICES ASSUME NEW d \in Docs \ (Internal \union doubted'), ~Made(d)'
              PROVE  /\ tables'[d] = {}
                     /\ \A q \in Pushes :
                          /\ push'[q] # Nothing
                          /\ push'[q].doc = d
                          => /\ push'[q].pc \notin {"counting", "storing"}
                             /\ push'[q].pc = "asking" => ~push'[q].found
                     /\ \A c \in Conns : d \in checkedDocs'[c] =>
                          \E q \in Pushes : /\ push'[q].pc \in {"asking", "creating"}
                                            /\ push'[q].conn = c /\ push'[q].doc = d
  BY DEF MakingGoesFirst
<1>1. ~Made(d)
  <2>1. \A q \in Pushes : push[q] # Nothing => push'[q].doc = push[q].doc OBVIOUS
  <2>. QED BY <2>1, MadeStays
<1>2. d \in Docs \ (Internal \union doubted) OBVIOUS
<1>3. tables'[d] = {} BY <1>1, <1>2 DEF MInv, MakingGoesFirst
<1>4. \A q \in Pushes :
        /\ push'[q] # Nothing
        /\ push'[q].doc = d
        => /\ push'[q].pc \notin {"counting", "storing"}
           /\ push'[q].pc = "asking" => ~push'[q].found
  BY <1>1, <1>2 DEF MInv, MakingGoesFirst
<1>5. \A c \in Conns : d \in checkedDocs'[c] =>
        \E q \in Pushes : /\ push'[q].pc \in {"asking", "creating"}
                          /\ push'[q].conn = c /\ push'[q].doc = d
  <2>. SUFFICES ASSUME NEW c \in Conns, d \in checkedDocs'[c],
                       ~(push'[p].pc \in {"asking", "creating"} /\ push'[p].conn = c
                         /\ push'[p].doc = d)
                PROVE  \E q \in Pushes : /\ push'[q].pc \in {"asking", "creating"}
                                         /\ push'[q].conn = c /\ push'[q].doc = d
    OBVIOUS
  <2>1. /\ d \in checkedDocs[c]
        /\ ~(push[p].pc \in {"asking", "creating"} /\ push[p].conn = c /\ push[p].doc = d)
    OBVIOUS
  <2>2. PICK q \in Pushes : /\ push[q].pc \in {"asking", "creating"}
                            /\ push[q].conn = c /\ push[q].doc = d
    BY <1>1, <1>2, <2>1 DEF MInv, MakingGoesFirst
  <2>. QED BY <2>1, <2>2
<1>. QED BY <1>3, <1>4, <1>5

\* A push comes in: it asks when nobody has entered the document, and else it comes after
\* somebody who has asked, or beside one, and then the document is in doubt.
LEMMA ReceiveMakes ==
    ASSUME CInv, MInv, NEW p \in Pushes, NEW c \in Conns, NEW d \in Docs, Receive(p, c, d)
    PROVE  MInv'
<1>1. /\ TypeOK'
      /\ push[p] = Nothing /\ push'[p] # Nothing /\ push'[p] \in Handlers
      /\ \A q \in Pushes : q # p => push'[q] = push[q]
      /\ push'[p].conn = c /\ push'[p].doc = d
  BY ReceiveCounts DEF CInv
<1>2. \/ d \in Internal /\ push'[p].pc = "storing" /\ checkedDocs' = checkedDocs
      \/ /\ d \notin checkedDocs[c]
         /\ push'[p].pc = "asking" /\ ~push'[p].found
         /\ checkedDocs' = [checkedDocs EXCEPT ![c] = @ \union {d}]
      \/ d \in checkedDocs[c] /\ push'[p].pc = "counting" /\ checkedDocs' = checkedDocs
  BY ReceiveCounts
<1>3. /\ c \notin gone /\ UNCHANGED <<gone, tables, creates>>
      /\ doubted \subseteq doubted'
      /\ Overlaps(c, d) => d \in doubted'
  BY DEF Receive
<1>4. /\ push[p].pc = "idle" /\ p \notin creates
  BY <1>1 DEF MInv, AskersAreAlone, Asker, Nothing
<1>5. \A b \in Conns : checkedDocs[b] \subseteq checkedDocs'[b] BY <1>2 DEF MInv, TypeOK
<1>6. AskersAreAlone'
  <2>1. \A q \in Pushes : q # p =>
          /\ Asker(q)' = Asker(q)
          /\ push'[q] = push[q]
    BY <1>1, <1>3 DEF Asker
  <2>2. \A q \in Pushes : Asker(q) => push[q].conn \in Conns
    BY HandlersAreTyped DEF MInv, AskersAreAlone
  <2>3. \A q \in Pushes : q # p /\ Asker(q)' =>
          /\ push'[q] # Nothing
          /\ push'[q].conn \in gone' \/ push'[q].doc \in checkedDocs'[push'[q].conn]
    BY <1>3, <1>5, <2>1, <2>2 DEF MInv, AskersAreAlone
  <2>4. Asker(p)' => d \notin checkedDocs[c] /\ d \in checkedDocs'[c]
    BY <1>2, <1>3, <1>4 DEF Asker, MInv, TypeOK
  <2>5. \A q \in Pushes : q # p /\ Asker(q)' /\ Asker(p)' =>
          ~(push'[q].conn = c /\ push'[q].doc = d)
    BY <1>3, <2>1, <2>4 DEF MInv, AskersAreAlone
  <2>6. \A q \in creates' : push'[q].pc \notin {"asking", "creating"}
    BY <1>3, <1>4, <2>1 DEF MInv, AskersAreAlone, TypeOK
  <2>. QED BY <1>1, <2>1, <2>3, <2>4, <2>5, <2>6 DEF MInv, AskersAreAlone
<1>7. MakingGoesFirst'
  <2>1. \A e \in Docs \ (Internal \union doubted') : Made(e) => Made(e)'
    BY <1>1, <1>3, <1>4 DEF Made, MInv, TypeOK
  <2>2. d \notin Internal \union doubted' /\ push'[p].pc # "asking" => Made(d)'
    <3>. SUFFICES ASSUME d \notin Internal \union doubted', push'[p].pc # "asking"
                  PROVE  Made(d)'
      OBVIOUS
    <3>1. d \in checkedDocs[c] /\ ~Overlaps(c, d) /\ d \notin doubted BY <1>2, <1>3
    <3>2. ~\E q \in Pushes : /\ push[q].pc \in {"asking", "creating"}
                             /\ push[q].conn = c /\ push[q].doc = d
      BY <3>1 DEF Overlaps, AtWork
    <3>. QED BY <2>1, <3>1, <3>2 DEF MInv, MakingGoesFirst
  <2>3. \A e \in Docs, b \in Conns : e \in checkedDocs'[b] =>
          e \in checkedDocs[b] \/ (e = d /\ b = c /\ push'[p].pc = "asking")
    BY <1>2 DEF MInv, TypeOK
  <2>. QED BY <1>1, <1>2, <1>3, <1>4, <2>2, <2>3, MakingKept
<1>. QED BY <1>1, <1>6, <1>7 DEF MInv

\* The steps of a handler, up to the store.
LEMMA HandlerMakes ==
    ASSUME CInv, MInv, TypeOK', NEW p \in Pushes,
           \/ \E t \in {"snapshot", "rows"} : Asks(p, t)
           \/ Creates(p)
           \/ CreateFails(p)
           \/ AuditThrows(p)
           \/ Counts(p)
           \/ Stores(p)
           \/ StoreFails(p)
    PROVE  MInv'
<1>. USE DEF MInv
<1>1. CASE \E t \in {"snapshot", "rows"} : Asks(p, t)
  <2>1. PICK t \in {"snapshot", "rows"} : Asks(p, t) BY <1>1
  <2>2. /\ \A q \in Pushes : q # p => push'[q] = push[q]
        /\ push[p].pc = "asking" /\ push'[p] # Nothing
        /\ push'[p].conn = push[p].conn /\ push'[p].doc = push[p].doc
        /\ \/ push'[p].pc = "asking" /\ (push'[p].found => push[p].found \/ tables[push[p].doc] # {})
           \/ push'[p].pc = "creating"
           \/ push'[p].pc = "counting" /\ (push[p].found \/ tables[push[p].doc] # {})
    BY <2>1, AsksMoves
  <2>3. UNCHANGED <<gone, checkedDocs, doubted, tables, creates>> BY <2>1 DEF Asks
  <2>4. push[p] # Nothing /\ p \notin creates BY <2>2 DEF AskersAreAlone, Nothing
  <2>5. AskersAreAlone' BY <2>2, <2>3, <2>4, AskersKept DEF Asker, AskersAreAlone, TypeOK
  <2>6. \A d : Made(d) => Made(d)' BY <2>2, <2>3 DEF Made, TypeOK
  <2>7. \A d \in Docs \ (Internal \union doubted) :
          push[p].doc = d /\ (push[p].found \/ tables[d] # {}) => Made(d)'
    BY <2>2, <2>4, <2>6 DEF MakingGoesFirst
  <2>8. MakingGoesFirst' BY <2>2, <2>3, <2>4, <2>7, MakingKept
  <2>. QED BY <2>5, <2>8
<1>2. CASE Creates(p) \/ CreateFails(p)
  <2>1. /\ push[p].pc = "creating" /\ push' = [push EXCEPT ![p].pc = "counting"]
        /\ UNCHANGED <<gone, checkedDocs, tables>>
        /\ creates \subseteq creates' /\ creates' \subseteq creates \union {p}
        /\ doubted \subseteq doubted'
        /\ p \in creates' \/ push[p].doc \in doubted'
    BY <1>2 DEF Creates, CreateFails
  <2>2. /\ \A q \in Pushes : q # p => push'[q] = push[q]
        /\ push'[p] # Nothing /\ push'[p].pc = "counting"
        /\ push'[p].conn = push[p].conn /\ push'[p].doc = push[p].doc
    BY <2>1, HandlerGoesTo
  <2>3. push[p] # Nothing BY <2>1 DEF Nothing
  <2>4. AskersAreAlone' BY <2>1, <2>2, <2>3, AskersKept DEF Asker, AskersAreAlone, TypeOK
  <2>5. push[p].doc \notin doubted' => Made(push[p].doc)' BY <2>1, <2>2 DEF Made
  <2>6. MakingGoesFirst' BY <2>1, <2>2, <2>3, <2>5, MakingKept
  <2>. QED BY <2>4, <2>6
<1>3. CASE AuditThrows(p)
  <2>1. /\ push[p].pc \in {"asking", "creating", "counting"}
        /\ push' = [push EXCEPT ![p] = At("storing", @.conn, @.doc)]
        /\ UNCHANGED <<gone, checkedDocs, tables, creates>>
        /\ doubted \subseteq doubted'
        /\ push[p].pc = "counting" \/ push[p].doc \in doubted'
    BY <1>3 DEF AuditThrows, AfterAudit
  <2>2. /\ \A q \in Pushes : q # p => push'[q] = push[q]
        /\ push'[p] # Nothing /\ push'[p].pc = "storing"
        /\ push'[p].conn = push[p].conn /\ push'[p].doc = push[p].doc
    BY <2>1, HandlerGoesTo
  <2>3. push[p] # Nothing BY <2>1 DEF Nothing
  <2>4. AskersAreAlone' BY <2>1, <2>2, <2>3, AskersKept DEF Asker, AskersAreAlone, TypeOK
  <2>5. \A d \in Docs \ (Internal \union doubted') : push[p].doc = d => Made(d)'
    <3>1. \A d \in Docs \ (Internal \union doubted') : push[p].doc = d => Made(d)
      BY <2>1, <2>3 DEF MakingGoesFirst
    <3>. QED BY <2>1, <2>2, <3>1 DEF Made, TypeOK
  <2>6. MakingGoesFirst' BY <2>1, <2>2, <2>3, <2>5, MakingKept
  <2>. QED BY <2>4, <2>6
<1>4. CASE Counts(p) \/ Stores(p) \/ StoreFails(p)
  <2>1. PICK pc \in {"storing", "stored", "refused"} :
          push' = [push EXCEPT ![p].pc = pc]
    BY <1>4 DEF Counts, Stores, StoreFails
  <2>2. /\ push[p].pc \in {"counting", "storing"}
        /\ UNCHANGED <<gone, checkedDocs, doubted, creates>>
        /\ \A d \in Docs : tables'[d] # {} => tables[d] # {} \/ push[p].doc = d
    BY <1>4 DEF Counts, Stores, StoreFails, TypeOK
  <2>3. /\ \A q \in Pushes : q # p => push'[q] = push[q]
        /\ push'[p] # Nothing /\ push'[p].pc = pc
        /\ push'[p].conn = push[p].conn /\ push'[p].doc = push[p].doc
    BY <2>1, <2>2, HandlerGoesTo
  <2>4. push[p] # Nothing BY <2>2 DEF Nothing
  <2>5. AskersAreAlone' BY <2>2, <2>3, <2>4, AskersKept DEF Asker, AskersAreAlone, TypeOK
  <2>6. \A d \in Docs \ (Internal \union doubted) : push[p].doc = d => Made(d)'
    <3>1. \A d \in Docs \ (Internal \union doubted) : push[p].doc = d => Made(d)
      BY <2>2, <2>4 DEF MakingGoesFirst
    <3>. QED BY <2>2, <2>3, <3>1 DEF Made, TypeOK
  <2>7. MakingGoesFirst' BY <2>2, <2>3, <2>4, <2>6, MakingKept
  <2>. QED BY <2>5, <2>7
<1>. QED BY <1>1, <1>2, <1>3, <1>4

\* A step that neither moves a handler nor fills a table makes nothing.
LEMMA MakingStands ==
    ASSUME MInv, TypeOK', UNCHANGED <<push, gone, checkedDocs, creates, doubted>>,
           \A d \in Docs : tables'[d] # {} => tables[d] # {}
    PROVE  MInv'
BY DEF MInv, AskersAreAlone, MakingGoesFirst, Asker, Made

\* The process ends: no connection that has pushed is used again.
LEMMA EndsMakes ==
    ASSUME MInv, TypeOK', Ends
    PROVE  MInv'
<1>. USE DEF MInv
<1>1. /\ gone' = gone \union {push[p].conn : p \in {q \in Pushes : push[q] # Nothing}}
      /\ checkedDocs' = [c \in Conns |-> {}]
      /\ UNCHANGED <<doubted, tables, creates>>
  BY DEF Ends
<1>2. \A p \in Pushes :
        IF AtWork(p)
          THEN /\ push'[p].pc = "cut" /\ push'[p] # Nothing
               /\ push'[p].conn = push[p].conn /\ push'[p].doc = push[p].doc
          ELSE push'[p] = push[p]
  BY EndsMoves
<1>3. \A p \in Pushes : Asker(p) => push[p].conn \in gone' BY <1>1 DEF AskersAreAlone
<1>4. \A p \in Pushes : Asker(p)' => Asker(p) BY <1>1, <1>2 DEF Asker
<1>5. \A p \in creates' : push'[p].pc \notin {"asking", "creating"}
  BY <1>1, <1>2 DEF AskersAreAlone, TypeOK
<1>6. \A p \in Pushes : push[p] # Nothing =>
        push'[p] # Nothing /\ push'[p].conn = push[p].conn /\ push'[p].doc = push[p].doc
  BY <1>2
<1>7. gone \subseteq gone' /\ creates' \subseteq Pushes BY <1>1 DEF TypeOK
<1>8. AskersAreAlone' BY <1>3, <1>4, <1>5, <1>6, <1>7, AskersKept
<1>9. \A d : Made(d) => Made(d)' BY <1>1, <1>6, MadeStays
<1>10. \A p \in Pushes : push'[p].pc \notin {"asking", "creating", "counting", "storing"}
  BY <1>2 DEF AtWork
<1>11. MakingGoesFirst' BY <1>1, <1>9, <1>10 DEF MakingGoesFirst
<1>. QED BY <1>8, <1>11

LEMMA InitMakes == Init => MInv
<1>. SUFFICES ASSUME Init PROVE MInv OBVIOUS
<1>1. TypeOK BY InitCounts DEF CInv
<1>2. AskersAreAlone BY DEF Init, AskersAreAlone, Asker, Nothing
<1>3. MakingGoesFirst BY DEF Init, MakingGoesFirst
<1>. QED BY <1>1, <1>2, <1>3 DEF MInv

LEMMA NextMakes == CInv /\ MInv /\ [Next]_vars => MInv'
<1>. SUFFICES ASSUME CInv, MInv, [Next]_vars PROVE MInv' OBVIOUS
<1>1. TypeOK' BY NextCounts DEF CInv
<1>2. CASE \E p \in Pushes, c \in Conns, d \in Docs : Receive(p, c, d) BY <1>2, ReceiveMakes
<1>3. CASE \E p \in Pushes : Handles(p) \/ CreateFails(p) \/ AuditThrows(p) \/ StoreFails(p)
  BY <1>1, <1>3, HandlerMakes DEF Handles
<1>4. CASE \E d \in Docs : Rebuilds(d)
  <2>1. /\ UNCHANGED <<push, gone, checkedDocs, creates, doubted>>
        /\ \A d \in Docs : tables'[d] # {} => tables[d] # {}
    BY <1>4 DEF Rebuilds, handlers, MInv, TypeOK
  <2>. QED BY <1>1, <2>1, MakingStands
<1>5. CASE Exit \/ Crash BY <1>1, <1>5, EndsMakes DEF Exit, Crash
<1>6. CASE UNCHANGED <<handlers, tables, creates>>
  BY <1>1, <1>6, MakingStands DEF handlers
<1>7. (\/ \E k \in Keys : TimerFires(k) \/ StopTakes(k)
       \/ \E f \in flights : Records(f) \/ RecordFails(f)
       \/ Stop \/ Start \/ UNCHANGED vars) => UNCHANGED <<handlers, tables, creates>>
  BY DEF TimerFires, StopTakes, Records, RecordFails, Stop, Start, vars
<1>. QED BY <1>2, <1>3, <1>4, <1>5, <1>6, <1>7 DEF Next, Stopping

\* A document that is stored has a record of its making, and one connection makes at most
\* one, whoever else pushes it meanwhile (recordEditAudit, isNewDoc).
THEOREM EveryMakingIsRecorded == Spec => []MakingIsRecorded
<1>1. Init => IInv BY InitCounts, InitMakes DEF IInv
<1>2. IInv /\ [Next]_vars => IInv' BY NextCounts, NextMakes DEF IInv
<1>3. IInv => MakingIsRecorded
  <2>1. IInv => OneCreatePerConnection
    BY DEF IInv, MInv, AskersAreAlone, Asker, OneCreatePerConnection, TypeOK
  <2>. QED BY <2>1 DEF IInv, MInv, MakingGoesFirst, Made, MakingIsRecorded
<1>. QED BY <1>1, <1>2, <1>3, PTL DEF Spec
==============================================================================
