------------------------------ MODULE Membership ------------------------------
(***************************************************************************)
(* Who belongs to a workspace: roles, the owner, invitations by mail and   *)
(* the invitation link (backend, modules/workspace: workspace.service,     *)
(* workspace.resolver, invitation-rule; common/guards/                     *)
(* workspace-member.guard).  Each statement or transaction is a step, so   *)
(* that requests come between the guard, the reads and the write.          *)
(*                                                                         *)
(* Every row of workspace_members is accepted: nothing writes any other    *)
(* status.  What a request tells the lists of pages is in Discovery.       *)
(***************************************************************************)
EXTENDS Naturals, FiniteSets

CONSTANTS
    Users,
    Creator,        \* who made the workspace
    Joined,         \* members since before
    Registered,     \* users with an account from the start; others may sign up
    Ids,            \* ids of rows of invitations
    Slots,          \* requests at work at a time
    Link,           \* the value of Invitation.email that marks a link
    NoId,
    MaxCalls        \* bound: requests

ASSUME MembershipBounds ==
    /\ Creator \in Registered
    /\ Joined \subseteq Registered \ {Creator}
    /\ Registered \subseteq Users
    /\ Link \notin Users
    /\ NoId \notin Ids
    /\ MaxCalls \in Nat

VARIABLES
    ownerId,        \* workspace.ownerId
    role,           \* role[u]: the row of workspace_members, or "none"
    accounts,       \* users with an account
    invites,        \* rows of invitations
    issued,         \* ids given out
    slot,           \* the requests at work
    calls,
    uses,           \* ghost: uses[i], how often the mail i has brought somebody in
    stale           \* ghost: a request has written on a role or owner that was not so any more

tables == <<ownerId, role, accounts, invites, issued>>
membershipVars == <<tables, slot, calls, uses, stale>>

Roles == {"owner", "admin", "member", "reader"}
Rank == [none |-> 0, reader |-> 1, member |-> 2, admin |-> 3, owner |-> 4]
Invites == [id : Ids, to : Users \union {Link}, expired : BOOLEAN]
Idle == [pc |-> "idle"]
\* A request: who calls what about whom; the role to grant, the invitation to accept.
Requests ==
    [pc : {"called", "admitted", "found", "unknown", "decided"},
     op : {"grant", "remove", "leave", "invite", "link", "revoke", "accept"},
     by : Users, of : Users, perm : Roles, id : Ids \union {NoId}, to : Users \union {Link}]

MembershipTypeOK ==
    /\ ownerId \in Users
    /\ role \in [Users -> Roles \union {"none"}]
    /\ accounts \subseteq Users
    /\ invites \subseteq Invites
    /\ issued \subseteq Ids
    /\ {i.id : i \in invites} \subseteq issued
    /\ slot \in [Slots -> Requests \union {Idle}]
    /\ calls \in 0..MaxCalls
    /\ uses \in [Ids -> Nat]
    /\ stale \in BOOLEAN

MembershipInit ==
    /\ ownerId = Creator
    /\ role = [u \in Users |-> IF u = Creator THEN "owner"
                               ELSE IF u \in Joined THEN "member" ELSE "none"]
    /\ accounts = Registered
    /\ invites = {}
    /\ issued = {}
    /\ slot = [s \in Slots |-> Idle]
    /\ calls = 0
    /\ uses = [i \in Ids |-> 0]
    /\ stale = FALSE

-----------------------------------------------------------------------------
(* Requests.  Their answers are not looked at: a refused, failed and        *)
(* finished request all end in Idle.                                        *)

End(s) == slot' = [slot EXCEPT ![s] = Idle]
GoesOn(s, pc) == slot' = [slot EXCEPT ![s].pc = pc]
Is(s, op, pc) == slot[s].pc = pc /\ slot[s].op = op

\* A user calls an operation.  The page offers nobody a change of his own row.
Calls(s, r) ==
    /\ slot[s] = Idle
    /\ calls < MaxCalls
    /\ calls' = calls + 1
    /\ r.by \in accounts
    /\ r.op \in {"grant", "remove"} => r.of # r.by
    /\ slot' = [slot EXCEPT ![s] = r]
    /\ UNCHANGED <<tables, uses, stale>>

\* @WorkspaceRole of the resolver's method; acceptInviteById has none.
Needs(op) == CASE op = "leave" -> 1 [] op = "accept" -> 0 [] OTHER -> 4

Guard(s) ==
    /\ slot[s].pc = "called"
    /\ IF Rank[role[slot[s].by]] >= Needs(slot[s].op) THEN GoesOn(s, "admitted") ELSE End(s)
    /\ UNCHANGED <<tables, calls, uses, stale>>

\* A query fails, or the process ends: the request goes no further.
Fails(s) ==
    /\ slot[s] # Idle
    /\ End(s)
    /\ UNCHANGED <<tables, calls, uses, stale>>

-----------------------------------------------------------------------------
(* Roles. *)

\* grantMember reads the caller's role once more.
GrantReads(s) ==
    LET r == slot[s] IN
    /\ Is(s, "grant", "admitted")
    /\ IF \/ role[r.by] = "owner"
          \/ role[r.by] = "admin" /\ r.perm # "owner"
       THEN GoesOn(s, "decided") ELSE End(s)
    /\ UNCHANGED <<tables, calls, uses, stale>>

\* Mutant of Transferred: the old owner keeps the role.
TransferredTwice(by, of) == [role EXCEPT ![of] = "owner"]
Transferred(by, of) == [role EXCEPT ![of] = "owner", ![by] = "admin"]

\* The transaction that hands the workspace over, or one update.  An update of a row that
\* is gone throws, and the transaction with it.
GrantWrites(s) ==
    LET r == slot[s] IN
    /\ Is(s, "grant", "decided")
    /\ End(s)
    /\ stale' = (stale \/ role[r.by] # "owner")
    /\ IF r.perm = "owner"
       THEN IF role[r.of] # "none" /\ role[r.by] # "none"
            THEN ownerId' = r.of /\ role' = Transferred(r.by, r.of)
            ELSE UNCHANGED <<ownerId, role>>
       ELSE /\ role' = IF role[r.of] = "none" THEN role ELSE [role EXCEPT ![r.of] = r.perm]
            /\ UNCHANGED ownerId
    /\ UNCHANGED <<accounts, invites, issued, calls, uses>>

\* removeMember: one delete, right after the guard.
Removes(s) ==
    LET r == slot[s] IN
    /\ Is(s, "remove", "admitted")
    /\ End(s)
    /\ stale' = (stale \/ role[r.by] # "owner")
    /\ role' = [role EXCEPT ![r.of] = "none"]
    /\ UNCHANGED <<ownerId, accounts, invites, issued, calls, uses>>

LeaveReads(s) ==
    /\ Is(s, "leave", "admitted")
    /\ IF ownerId # slot[s].by THEN GoesOn(s, "decided") ELSE End(s)
    /\ UNCHANGED <<tables, calls, uses, stale>>

LeaveDeletes(s) ==
    LET u == slot[s].by IN
    /\ Is(s, "leave", "decided")
    /\ End(s)
    /\ stale' = (stale \/ ownerId = u)
    /\ role' = [role EXCEPT ![u] = "none"]
    /\ UNCHANGED <<ownerId, accounts, invites, issued, calls, uses>>

-----------------------------------------------------------------------------
(* Invitations. *)

SignsUp(u) ==
    /\ u \notin accounts
    /\ accounts' = accounts \union {u}
    /\ UNCHANGED <<ownerId, role, invites, issued, slot, calls, uses, stale>>

Row(i, to) == [id |-> i, to |-> to, expired |-> FALSE]
Inserts(i, to) ==
    /\ i \notin issued
    /\ issued' = issued \union {i}
    /\ invites' = invites \union {Row(i, to)}

\* inviteByEmail looks for the account first.
InviteFinds(s) ==
    /\ Is(s, "invite", "admitted")
    /\ GoesOn(s, IF slot[s].of \in accounts THEN "found" ELSE "unknown")
    /\ UNCHANGED <<tables, calls, uses, stale>>

\* invitation.create; without an account that is all.
InviteCreates(s, i) ==
    /\ Is(s, "invite", "found") \/ Is(s, "invite", "unknown")
    /\ Inserts(i, slot[s].of)
    /\ IF slot[s].pc = "found" THEN GoesOn(s, "decided") ELSE End(s)
    /\ UNCHANGED <<ownerId, role, accounts, calls, uses, stale>>

\* Mutant of Entered: the word of the GraphQL schema goes into the column.
EnteredUnmapped(u) == [role EXCEPT ![u] = IF @ = "none" THEN "Write" ELSE @]
\* The upsert: a new member, or nothing.
Entered(u) == [role EXCEPT ![u] = IF @ = "none" THEN "member" ELSE @]

InviteAdds(s) ==
    /\ Is(s, "invite", "decided")
    /\ End(s)
    /\ role' = Entered(slot[s].of)
    /\ UNCHANGED <<ownerId, accounts, invites, issued, calls, uses, stale>>

Links == {i \in invites : i.to = Link}

\* createInviteLink: the old links go, then the new one comes; revokeInviteLink.
LinkClears(s) ==
    /\ Is(s, "link", "admitted")
    /\ invites' = invites \ Links
    /\ GoesOn(s, "decided")
    /\ UNCHANGED <<ownerId, role, accounts, issued, calls, uses, stale>>

LinkCreates(s, i) ==
    /\ Is(s, "link", "decided")
    /\ Inserts(i, Link)
    /\ End(s)
    /\ UNCHANGED <<ownerId, role, accounts, calls, uses, stale>>

Revokes(s) ==
    /\ Is(s, "revoke", "admitted")
    /\ invites' = invites \ Links
    /\ End(s)
    /\ UNCHANGED <<ownerId, role, accounts, issued, calls, uses, stale>>

Expires(i) ==
    /\ i \in invites /\ ~i.expired
    /\ invites' = (invites \ {i}) \union {[i EXCEPT !.expired = TRUE]}
    /\ UNCHANGED <<ownerId, role, accounts, issued, slot, calls, uses, stale>>

\* Mutant of Judges: whoever has the id of a mail may use it.
JudgesAnybody(i, u) == ~i.expired
\* judgeInvitation: a link is for everybody, a mail for its addressee.
Judges(i, u) == ~i.expired /\ i.to \in {Link, u}

\* acceptInvite reads the row and takes the time that both checks use.
AcceptReads(s) ==
    LET r == slot[s] IN
    /\ Is(s, "accept", "admitted")
    /\ LET found == {i \in invites : i.id = r.id /\ Judges(i, r.by)} IN
       \/ \E i \in found :
            slot' = [slot EXCEPT ![s] = [r EXCEPT !.pc = "decided", !.to = i.to]]
       \/ found = {} /\ End(s)
    /\ UNCHANGED <<tables, calls, uses, stale>>

StandsStill(id) == \E i \in invites : i.id = id

\* Mutant of Consumed: the invitation stays.
ConsumedNever(id) == invites
Consumed(id) == {i \in invites : i.id # id}

\* The transaction for a mail: the row is deleted, and only then the member comes in.
\* The deletion locks the row, so that the transaction is one step.
MailAdmits(s) ==
    LET r == slot[s] IN
    /\ Is(s, "accept", "decided") /\ r.to # Link
    /\ End(s)
    /\ IF StandsStill(r.id)
       THEN /\ invites' = Consumed(r.id)
            /\ role' = Entered(r.by)
            /\ uses' = [uses EXCEPT ![r.id] = @ + 1]
       ELSE UNCHANGED <<invites, role, uses>>
    /\ UNCHANGED <<ownerId, accounts, issued, calls, stale>>

\* For a link the row is counted, which locks nothing: it may be revoked before the member
\* comes in.
LinkCounts(s) ==
    /\ Is(s, "accept", "decided") /\ slot[s].to = Link
    /\ IF StandsStill(slot[s].id) THEN GoesOn(s, "found") ELSE End(s)
    /\ UNCHANGED <<tables, calls, uses, stale>>

LinkAdmits(s) ==
    /\ Is(s, "accept", "found")
    /\ End(s)
    /\ role' = Entered(slot[s].by)
    /\ UNCHANGED <<ownerId, accounts, invites, issued, calls, uses, stale>>

-----------------------------------------------------------------------------
\* What a user may ask for.
Call(s) ==
    \E u \in accounts, v \in Users :
        LET Ask(op, perm, id) ==
            Calls(s, [pc |-> "called", op |-> op, by |-> u, of |-> v, perm |-> perm,
                      id |-> id, to |-> v])
        IN
        \/ \E perm \in Roles : Ask("grant", perm, NoId)
        \/ \E op \in {"remove", "invite"} : Ask(op, "member", NoId)
        \/ u = v /\ \E op \in {"leave", "link", "revoke"} : Ask(op, "member", NoId)
        \/ u = v /\ \E i \in issued : Ask("accept", "member", i)

Works(s) ==
    \/ Guard(s) \/ Fails(s)
    \/ GrantReads(s) \/ GrantWrites(s)
    \/ Removes(s)
    \/ LeaveReads(s) \/ LeaveDeletes(s)
    \/ InviteFinds(s) \/ InviteAdds(s)
    \/ LinkClears(s) \/ Revokes(s)
    \/ \E i \in Ids : InviteCreates(s, i) \/ LinkCreates(s, i)
    \/ AcceptReads(s) \/ MailAdmits(s) \/ LinkCounts(s) \/ LinkAdmits(s)

MembershipNext ==
    \/ \E s \in Slots : Call(s) \/ Works(s)
    \/ \E u \in Users : SignsUp(u)
    \/ \E i \in invites : Expires(i)

MembershipSpec == MembershipInit /\ [][MembershipNext]_membershipVars

-----------------------------------------------------------------------------
(* Properties. *)

\* An invitation by mail brings somebody in once, however many tabs and repeated requests
\* accept it at a time, and is gone then (acceptInvite: the deletion is the check).
MailsWorkOnce ==
    /\ \A i \in Ids : uses[i] <= 1
    /\ \A i \in invites : uses[i.id] = 0

\* Nobody comes in by a mail that has been used up by then, though it stood when it was
\* judged (acceptInvite looks again inside its transaction); without a mail only who is
\* being invited with an account, or has followed a link, comes in.
DeadInvitationsAdmitNobody ==
    [][\A u \in Users : role[u] = "none" /\ role'[u] # "none" =>
         \/ \E i \in invites : i.to = u
         \/ \E s \in Slots : /\ slot[s].pc \in {"decided", "found"}
                            /\ \/ slot[s].op = "invite" /\ slot[s].of = u
                               \/ slot[s].op = "accept" /\ slot[s].by = u /\ slot[s].to = Link
    ]_membershipVars

\* The workspace has one owner, who is ownerId, through transfers, removals and leaving,
\* as long as every request writes on a role that is still so (grantMember, leaveWorkspace).
OwnerIsOne == ~stale => \A u \in Users : role[u] = "owner" <=> u = ownerId
==============================================================================
