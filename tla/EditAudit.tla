------------------------------ MODULE EditAudit ------------------------------
(***************************************************************************)
(* The audit log of edits (backend, recordEditAudit of modules/sync/       *)
(* sync.gateway; modules/audit/doc-edit-aggregator and audit.service).     *)
(* The first push of a document over a connection asks whether the         *)
(* document is new and records doc.create; every push is counted in a      *)
(* window in memory, one per user and document, which becomes one record   *)
(* doc.update when its timer fires or the process is told to stop.         *)
(*                                                                         *)
(* A push stands for the edit it carries; a window is the set of the       *)
(* pushes it counts.  Connections are never used again after a stop.       *)
(***************************************************************************)
EXTENDS Naturals, FiniteSets

CONSTANTS
    Pushes,         \* requests space:push-doc-update that get past the checks of access
    Conns, Users,   \* connections, and the users who open them
    UserOf,         \* the user of a connection
    Docs,
    Internal,       \* documents isInternalDoc excludes
    MaxFaults       \* bound: failed queries, answers timed out, crashes

ASSUME EditAuditBounds ==
    /\ UserOf \in [Conns -> Users]
    /\ Internal \subseteq Docs
    /\ MaxFaults \in Nat

VARIABLES
    life,           \* the server process
    gone,           \* connections of processes that have ended
    checkedDocs,    \* checkedDocs[c]
    push,           \* push[p]: the handler of p
    tables,         \* tables[d]: where something of d is stored
    creates,        \* the records doc.create, by the push that made them
    windows,        \* the windows of DocEditAggregator
    flights,        \* flushed windows whose record is being written, and who flushed them
    log,            \* the records doc.update
    stopKeys,       \* the keys onModuleDestroy has not come to
    faults,
    missed,         \* ghost: pushes not counted because the audit threw
    lost,           \* ghost: counted edits that left memory without a record
    promised,       \* ghost: the edits in open windows when the process was told to stop
    doubted         \* ghost: documents whose check failed or was overtaken

handlers == <<gone, checkedDocs, push, missed, doubted>>
audits == <<windows, flights, log, stopKeys, lost, promised>>
vars == <<life, handlers, tables, creates, audits, faults>>

Keys == Users \X Docs
Nothing == [pc |-> "idle"]
\* A handler at work or over, for connection c and document d.
At(pc, c, d) == [pc |-> pc, conn |-> c, doc |-> d, unread |-> {}, found |-> FALSE]
Handlers ==
    [pc : {"asking", "creating", "counting", "storing", "stored", "refused", "cut"},
     conn : Conns, doc : Docs, unread : SUBSET {"snapshot", "rows"}, found : BOOLEAN]
AtWork(p) == push[p].pc \in {"asking", "creating", "counting", "storing"}
KeyOf(p) == <<UserOf[push[p].conn], push[p].doc>>
Logged == UNION {r.edits : r \in log}

TypeOK ==
    /\ life \in {"up", "stopping", "down"}
    /\ gone \subseteq Conns
    /\ checkedDocs \in [Conns -> SUBSET Docs]
    /\ push \in [Pushes -> Handlers \union {Nothing}]
    /\ tables \in [Docs -> SUBSET {"snapshot", "rows"}]
    /\ creates \subseteq Pushes
    /\ windows \in [Keys -> SUBSET Pushes]
    /\ flights \subseteq [key : Keys, edits : (SUBSET Pushes) \ {{}}, by : {"timer", "stop"}]
    /\ log \subseteq [key : Keys, edits : (SUBSET Pushes) \ {{}}]
    /\ stopKeys \subseteq Keys
    /\ faults \in 0..MaxFaults
    /\ missed \subseteq Pushes
    /\ lost \subseteq Pushes
    /\ promised \subseteq Pushes
    /\ doubted \subseteq Docs

Init ==
    /\ life = "up"
    /\ gone = {}
    /\ checkedDocs = [c \in Conns |-> {}]
    /\ push = [p \in Pushes |-> Nothing]
    /\ tables = [d \in Docs |-> {}]
    /\ creates = {}
    /\ windows = [k \in Keys |-> {}]
    /\ flights = {}
    /\ log = {}
    /\ stopKeys = {}
    /\ faults = 0
    /\ missed = {}
    /\ lost = {}
    /\ promised = {}
    /\ doubted = {}

-----------------------------------------------------------------------------
(* The handler of a push. *)

Overlaps(c, d) == \E q \in Pushes : AtWork(q) /\ push[q].conn = c /\ push[q].doc = d
\* Mutants of FirstTouch: the key entered only after isNewDoc; one set for all connections.
FirstTouchLate(c, d) ==
    \/ d \notin checkedDocs[c]
    \/ \E q \in Pushes : push[q].pc = "asking" /\ push[q].conn = c /\ push[q].doc = d
FirstTouchShared(c, d) == \A b \in Conns : d \notin checkedDocs[b]
FirstTouch(c, d) == d \notin checkedDocs[c]

\* recordEditAudit, up to its first await.  A client pushes one document at a time, unless
\* it has given up waiting for the answer after 30 s.
Receive(p, c, d) ==
    /\ life # "down"
    /\ push[p] = Nothing
    /\ c \notin gone
    /\ Overlaps(c, d) => faults < MaxFaults
    /\ faults' = IF Overlaps(c, d) THEN faults + 1 ELSE faults
    /\ doubted' = IF Overlaps(c, d) THEN doubted \union {d} ELSE doubted
    /\ IF d \in Internal
       THEN /\ push' = [push EXCEPT ![p] = At("storing", c, d)]
            /\ UNCHANGED checkedDocs
       ELSE IF FirstTouch(c, d)
       THEN /\ push' = [push EXCEPT ![p] =
                [At("asking", c, d) EXCEPT !.unread = {"snapshot", "rows"}]]
            /\ checkedDocs' = [checkedDocs EXCEPT ![c] = @ \union {d}]
       ELSE /\ push' = [push EXCEPT ![p] = At("counting", c, d)]
            /\ UNCHANGED checkedDocs
    /\ UNCHANGED <<life, gone, missed, tables, creates, audits>>

\* isNewDoc sends its two queries together; neither waits for the other.
Asks(p, table) ==
    LET h == push[p]
        unread == h.unread \ {table}
        found == h.found \/ table \in tables[h.doc]
    IN
    /\ h.pc = "asking" /\ table \in h.unread
    /\ push' = [push EXCEPT ![p] =
           IF unread # {} THEN [h EXCEPT !.unread = unread, !.found = found]
           ELSE At(IF found THEN "counting" ELSE "creating", h.conn, h.doc)]
    /\ UNCHANGED <<life, gone, checkedDocs, missed, doubted, tables, creates, audits, faults>>

Creates(p) ==
    /\ push[p].pc = "creating"
    /\ creates' = creates \union {p}
    /\ push' = [push EXCEPT ![p].pc = "counting"]
    /\ UNCHANGED <<life, gone, checkedDocs, missed, doubted, tables, audits, faults>>

\* AuditService.record fails and keeps it to itself.
CreateFails(p) ==
    /\ push[p].pc = "creating"
    /\ faults < MaxFaults
    /\ faults' = faults + 1
    /\ push' = [push EXCEPT ![p].pc = "counting"]
    /\ doubted' = doubted \union {push[p].doc}
    /\ UNCHANGED <<life, gone, checkedDocs, missed, tables, creates, audits>>

\* Mutant of AfterAudit: without the catch.
AfterAuditThrown == "refused"
\* Where a push whose audit throws goes on.
AfterAudit == "storing"

\* A query of isNewDoc, or of the name of the user, fails: the rest of the audit is skipped.
AuditThrows(p) ==
    /\ push[p].pc \in {"asking", "creating", "counting"}
    /\ faults < MaxFaults
    /\ faults' = faults + 1
    /\ push' = [push EXCEPT ![p] = At(AfterAudit, @.conn, @.doc)]
    /\ missed' = missed \union {p}
    /\ doubted' = IF push[p].pc = "counting" THEN doubted ELSE doubted \union {push[p].doc}
    /\ UNCHANGED <<life, gone, checkedDocs, tables, creates, audits>>

\* Mutant of Tracked: every edit opens a window.
TrackedAnew(p) == {p}
\* track: the window of the key with p counted in it.
Tracked(p) == windows[KeyOf(p)] \union {p}

Counts(p) ==
    /\ push[p].pc = "counting"
    /\ push' = [push EXCEPT ![p].pc = "storing"]
    /\ windows' = [windows EXCEPT ![KeyOf(p)] = Tracked(p)]
    /\ UNCHANGED <<life, gone, checkedDocs, missed, doubted, tables, creates, flights, log,
                   stopKeys, lost, promised, faults>>

Stores(p) ==
    /\ push[p].pc = "storing"
    /\ push' = [push EXCEPT ![p].pc = "stored"]
    /\ tables' = [tables EXCEPT ![push[p].doc] = @ \union {"rows"}]
    /\ UNCHANGED <<life, gone, checkedDocs, missed, doubted, creates, audits, faults>>

StoreFails(p) ==
    /\ push[p].pc = "storing"
    /\ faults < MaxFaults
    /\ faults' = faults + 1
    /\ push' = [push EXCEPT ![p].pc = "refused"]
    /\ UNCHANGED <<life, gone, checkedDocs, missed, doubted, tables, creates, audits>>

\* rebuildSnapshot moves the rows into the snapshot, in one transaction.
Rebuilds(d) ==
    /\ "rows" \in tables[d]
    /\ tables' = [tables EXCEPT ![d] = {"snapshot"}]
    /\ UNCHANGED <<life, handlers, creates, audits, faults>>

-----------------------------------------------------------------------------
(* The windows. *)

\* Mutant of Closed: the window left in the map.
ClosedNever(k) == windows
\* The window leaves the map before the record is awaited.
Closed(k) == [windows EXCEPT ![k] = {}]
Flush(k, by) ==
    /\ windows' = Closed(k)
    /\ flights' = flights \union {[key |-> k, edits |-> windows[k], by |-> by]}

\* Mutant of Expired: no timer for a key that has had one.
ExpiredOnce(k) == windows[k] # {} /\ \A r \in log : r.key # k
Expired(k) == windows[k] # {}

TimerFires(k) ==
    /\ Expired(k)
    /\ Flush(k, "timer")
    /\ UNCHANGED <<life, handlers, tables, creates, log, stopKeys, lost, promised, faults>>

Records(f) ==
    /\ f \in flights
    /\ flights' = flights \ {f}
    /\ log' = log \union {[key |-> f.key, edits |-> f.edits]}
    /\ UNCHANGED <<life, handlers, tables, creates, windows, stopKeys, lost, promised, faults>>

RecordFails(f) ==
    /\ f \in flights
    /\ faults < MaxFaults
    /\ faults' = faults + 1
    /\ flights' = flights \ {f}
    /\ lost' = lost \union f.edits
    /\ UNCHANGED <<life, handlers, tables, creates, windows, log, stopKeys, promised>>

-----------------------------------------------------------------------------
(* The process.  Requests are served until it has stopped. *)

\* onModuleDestroy takes the keys it will go through.
Stop ==
    /\ life = "up"
    /\ life' = "stopping"
    /\ stopKeys' = {k \in Keys : windows[k] # {}}
    /\ promised' = UNION {windows[k] : k \in Keys}
    /\ UNCHANGED <<handlers, tables, creates, windows, flights, log, lost, faults>>

\* Mutant of StopWaits: the flush not awaited.
StopWaitsNot == FALSE
StopWaits == \E f \in flights : f.by = "stop"

\* Mutant of Open: flush without its early return.
OpenAlways(k) == TRUE
Open(k) == windows[k] # {}

\* The next key; its window may have been closed, or opened again, in the meantime.
StopTakes(k) ==
    /\ life = "stopping"
    /\ ~StopWaits
    /\ k \in stopKeys
    /\ stopKeys' = stopKeys \ {k}
    /\ IF Open(k) THEN Flush(k, "stop") ELSE UNCHANGED <<windows, flights>>
    /\ UNCHANGED <<life, handlers, tables, creates, log, lost, promised, faults>>

\* What is in memory goes; requests are cut off.
Ends ==
    /\ life' = "down"
    /\ gone' = gone \union {push[p].conn : p \in {q \in Pushes : push[q] # Nothing}}
    /\ checkedDocs' = [c \in Conns |-> {}]
    /\ push' = [p \in Pushes |-> IF AtWork(p) THEN [push[p] EXCEPT !.pc = "cut"] ELSE push[p]]
    /\ windows' = [k \in Keys |-> {}]
    /\ flights' = {}
    /\ stopKeys' = {}
    /\ promised' = {}
    /\ lost' = lost \union (UNION {windows[k] : k \in Keys})
             \union (UNION {f.edits : f \in flights})
    /\ UNCHANGED <<missed, doubted, tables, creates, log>>

Exit ==
    /\ life = "stopping"
    /\ stopKeys = {}
    /\ ~StopWaits
    /\ Ends
    /\ UNCHANGED faults

Crash ==
    /\ life # "down"
    /\ faults < MaxFaults
    /\ faults' = faults + 1
    /\ Ends

Start ==
    /\ life = "down"
    /\ life' = "up"
    /\ UNCHANGED <<handlers, tables, creates, audits, faults>>

-----------------------------------------------------------------------------
Handles(p) ==
    \/ \E t \in {"snapshot", "rows"} : Asks(p, t)
    \/ Creates(p)
    \/ Counts(p)
    \/ Stores(p)

Stopping == (\E k \in Keys : StopTakes(k)) \/ Exit

Next ==
    \/ \E p \in Pushes, c \in Conns, d \in Docs : Receive(p, c, d)
    \/ \E p \in Pushes : Handles(p) \/ CreateFails(p) \/ AuditThrows(p) \/ StoreFails(p)
    \/ \E d \in Docs : Rebuilds(d)
    \/ \E k \in Keys : TimerFires(k)
    \/ \E f \in flights : Records(f) \/ RecordFails(f)
    \/ Stop
    \/ Stopping
    \/ Crash
    \/ Start

\* Queries are answered and timers fire while the process lives.
Fairness ==
    /\ \A p \in Pushes : WF_vars(Handles(p))
    /\ \A k \in Keys : WF_vars(TimerFires(k))
    /\ WF_vars(\E f \in flights : Records(f))
    /\ WF_vars(Stopping)

Spec == Init /\ [][Next]_vars /\ Fairness

-----------------------------------------------------------------------------
(* Properties. *)

\* The pushes counted somewhere.
Counted == {p \in Pushes : /\ push[p].pc \in {"storing", "stored", "refused"}
                           /\ push[p].doc \notin Internal}

\* The places an edit can be counted in.
Places ==
    {windows[k] : k \in Keys} \union {f.edits : f \in flights} \union {r.edits : r \in log}

\* No edit drops out of the count: a push that has passed the audit is in an open window,
\* in a record or on its way to one, unless its own audit threw or one of the named losses
\* took it (doc-edit-aggregator, track beside flush, which awaits the record).
NoEditDropsOut == Counted \subseteq (UNION Places) \union lost \union missed

\* No edit is counted twice, whether the timer or the stop closes its window, and whatever
\* is pushed while the record is being written (flush).
NoEditCountsTwice ==
    /\ \A k \in Keys : windows[k] \intersect UNION (Places \ {windows[k]}) = {}
    /\ \A f, g \in flights : f # g => f.edits \intersect g.edits = {}
    /\ \A q, r \in log : q # r => q.edits \intersect r.edits = {}
    /\ \A f \in flights : f.edits \intersect (Logged \union lost) = {}
    /\ Logged \intersect lost = {}

\* Windows, records and handlers are well formed, and each edit is counted in one of them.
CountsAreSound == TypeOK /\ NoEditDropsOut /\ NoEditCountsTwice

\* A stop by signal gives up no record it has begun and no edit that was in an open window
\* when the signal came (onModuleDestroy awaits every flush).
StopKeepsItsWord ==
    [][life = "stopping" /\ life' = "down" =>
         \/ faults' # faults
         \/ \A p \in promised : p \in Logged \union lost
                             \/ \E f \in flights : p \in f.edits /\ f.by = "timer"]_vars

\* A connection records the making of a document once, also when two pushes of it are
\* handled at a time (recordEditAudit enters the key before it awaits).
OneCreatePerConnection ==
    \A p, q \in creates : push[p].conn = push[q].conn /\ push[p].doc = push[q].doc => p = q

\* What is stored has a record of its making, one from a connection, unless the check failed
\* or was overtaken (recordEditAudit, per connection and document, before pushUpdate stores).
MakingIsRecorded ==
    /\ OneCreatePerConnection
    /\ \A d \in Docs \ (Internal \union doubted) :
           tables[d] # {} => \E p \in creates : push[p].doc = d

\* A failing audit takes no edit with it: every push is stored in the end, unless storing
\* itself fails or the process ends (the fail-open rule of recordEditAudit).
AuditFailsOpen ==
    \A p \in Pushes : push[p].pc = "asking" ~> push[p].pc \in {"storing", "cut"}

\* Every edit that was counted gets its record in the end, or is among the losses.
CountsAreRecorded ==
    \A p \in Pushes : push[p].pc = "counting" ~> \/ p \in Logged \union lost \union missed
                                                 \/ push[p].pc = "cut"
==============================================================================
