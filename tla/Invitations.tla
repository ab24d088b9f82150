------------------------------ MODULE Invitations ------------------------------
(***************************************************************************)
(* Invitations and share links of one tenant, composed with its membership *)
(* rows.  A request of the invitation service sweeps overdue rows, reads   *)
(* the row, moves it on by one guarded UPDATE and, to accept or to join,   *)
(* makes a call of the member service; no transaction spans the two.       *)
(***************************************************************************)
EXTENDS TenantMembers, Sequences, FiniteSets

CONSTANTS
  Requests,       \* the calls that may come from the invitation service
  Invitees,       \* the users the invitation service is about
  InvitedRoles,   \* the roles people are invited to
  MaxRows,        \* bound on the invitation rows of a behaviour
  InviteFaults    \* subset of {"crash", "database"}

ASSUME InvitationsAssumption ==
  /\ Requests \subseteq Calls
  /\ Invitees \subseteq Users
  /\ InvitedRoles \subseteq Roles
  /\ MaxRows \in Nat \ {0}
  /\ InviteFaults \subseteq {"crash", "database"}

VARIABLES
  invitations,    \* the rows; an id is a position
  request         \* request[c]

inviteVars == <<invitations, request>>
vars == <<memberVars, inviteVars>>

Verdict == [accept |-> "accepted", decline |-> "declined", revoke |-> "revoked"]
Status == {"pending", "accepted", "declined", "revoked", "expired"}
Kinds == {"invite", "link", "join"} \cup DOMAIN Verdict

\* user = "none": a share link, which has no invitee.
Invitation == [status : Status, user : Users \cup {"none"}, role : Roles,
               overdue : BOOLEAN, uses : Nat]

RequestPc == {"idle", "read", "probe", "create", "mark", "adding", "look",
              "count", "answered"}
InviteAnswers == {"nothing", "ok", "already_member", "pending_exists", "not_pending",
                  "expired", "token_invalid", "error", "crashed"}
Request == [kind : Kinds \cup {"direct", "none"}, inv : Nat, pc : RequestPc,
            answer : InviteAnswers]

InvitationTypeOK ==
  /\ MembersTypeOK
  /\ invitations \in Seq(Invitation)
  /\ request \in [Calls -> Request]
  /\ \A c \in Calls : /\ request[c].pc = "answered" <=> request[c].answer # "nothing"
                      /\ request[c].kind \in {"direct", "none"} <=> request[c].pc = "idle"

NewRow(user, role) ==
  [status |-> "pending", user |-> user, role |-> role, overdue |-> FALSE, uses |-> 0]

IsLink(i) == invitations[i].user = "none"

\* The request of c is about the row i: it names i's role and, unless i is a
\* share link, i's invitee.
About(c, i) ==
  /\ call[c].role = invitations[i].role
  /\ IsLink(i) \/ call[c].user = invitations[i].user

\* Either a tenant without invitations, or one where the calls of Requests are
\* the invitation service's and all calls are about Invitees and their roles: one
\* invitation may be out already.
InviteInit ==
  /\ MembersInit
  /\ invitations \in {<< >>} \cup {<<NewRow(u, r)>> : u \in Invitees \cup {"none"}, r \in InvitedRoles}
  /\ \E kind \in {"direct", "none"} :
       /\ request = [c \in Calls |-> [kind |-> IF c \in Requests THEN kind ELSE "direct",
                                      inv |-> 0, pc |-> "idle", answer |-> "nothing"]]
       /\ kind = "direct" => invitations = << >>
       /\ kind = "none" =>
            /\ \A c \in Calls : /\ call[c].user \in Invitees
                               /\ call[c].role \in InvitedRoles \cup {"none"}
            /\ \A c \in Requests : /\ call[c].op = "add"
                                  /\ \A i \in DOMAIN invitations : About(c, i)

-----------------------------------------------------------------------------
Goto(c, pc) == request' = [request EXCEPT ![c].pc = pc]
Reply(c, answer) == request' = [request EXCEPT ![c].pc = "answered", ![c].answer = answer]

Ask(c, kind, i, pc) ==
  /\ request[c].kind = "none"
  /\ request' = [request EXCEPT ![c].kind = kind, ![c].inv = i, ![c].pc = pc]
  /\ UNCHANGED memberVars

\* One UPDATE of all overdue pending rows.
SweepExpired ==
  invitations' = [i \in DOMAIN invitations |->
    IF invitations[i].status = "pending" /\ invitations[i].overdue
      THEN [invitations[i] EXCEPT !.status = "expired"] ELSE invitations[i]]

\* A sweep that fails is logged.
Sweep == SweepExpired \/ ("database" \in InviteFaults /\ UNCHANGED invitations)

\* Creations that may still add a row.
Creating == {c \in Requests : request[c].pc \in {"probe", "create"}}
Room == Len(invitations) + Cardinality(Creating) < MaxRows

\* Create reads the membership first; CreateShareLink has no invitee to ask about.
Invite(c) ==
  /\ Room
  /\ request[c].kind = "none"
  /\ request' = [request EXCEPT
       ![c].kind = "invite",
       ![c].pc = IF member[call[c].user] = "none" THEN "probe" ELSE "answered",
       ![c].answer = IF member[call[c].user] = "none" THEN @ ELSE "already_member"]
  /\ UNCHANGED <<memberVars, invitations>>

CreateLink(c) == Room /\ Ask(c, "link", 0, "create") /\ UNCHANGED invitations

\* Accept and Decline are the invitee's; Revoke is the Owner's, for share links
\* too.  All of them sweep first.
Decide(c) ==
  \E kind \in DOMAIN Verdict, i \in DOMAIN invitations :
    /\ About(c, i)
    /\ kind # "revoke" => ~IsLink(i)
    /\ Ask(c, kind, i, "read")
    /\ Sweep

\* RegisterByInvite joins an account it has just created.
Join(c) ==
  \E i \in DOMAIN invitations :
    /\ About(c, i)
    /\ IsLink(i)
    /\ member[call[c].user] = "none"
    /\ Ask(c, "join", i, "read")
    /\ Sweep

-----------------------------------------------------------------------------
(* Create                                                                  *)

PendingFor(u) ==
  \E i \in DOMAIN invitations : invitations[i].user = u /\ invitations[i].status = "pending"

\* The pre-check of the repository's transaction.
Probe(c) ==
  /\ request[c].pc = "probe"
  /\ IF PendingFor(call[c].user) THEN Reply(c, "pending_exists") ELSE Goto(c, "create")
  /\ UNCHANGED <<memberVars, invitations>>

\* The insert: the partial unique index rejects a second pending row of an
\* invitee, and that error reaches the caller as it is.
CreateRow(c) ==
  LET user == IF request[c].kind = "link" THEN "none" ELSE call[c].user
  IN /\ request[c].pc = "create"
     /\ IF user # "none" /\ PendingFor(user)
          THEN Reply(c, "error") /\ UNCHANGED invitations
          ELSE /\ invitations' = Append(invitations, NewRow(user, call[c].role))
               /\ Reply(c, "ok")
     /\ UNCHANGED memberVars

-----------------------------------------------------------------------------
(* Accept, Decline, Revoke, AcceptByToken                                  *)

\* The checks on the row as it was read; Revoke takes an overdue one.
Read(c) ==
  LET row == invitations[request[c].inv]
      kind == request[c].kind
  IN /\ request[c].pc = "read"
     /\ CASE kind = "join" ->
               IF row.status = "pending" /\ ~row.overdue
                 THEN Goto(c, "adding") ELSE Reply(c, "token_invalid")
          [] kind # "join" /\ row.status # "pending" -> Reply(c, "not_pending")
          [] kind \in {"accept", "decline"} /\ row.status = "pending" /\ row.overdue ->
               Reply(c, "expired")
          [] OTHER -> Goto(c, "mark")
     /\ UNCHANGED <<memberVars, invitations>>

\* Mutant: the UPDATE without its filter on pending.
MarkStatusUnguarded(c) ==
  /\ request[c].pc = "mark"
  /\ invitations' = [invitations EXCEPT ![request[c].inv].status = Verdict[request[c].kind]]
  /\ IF request[c].kind = "accept" THEN Goto(c, "adding") ELSE Reply(c, "ok")
  /\ UNCHANGED memberVars

\* Mutant: the acceptance stops at the invitation's own row.
MarkOnly(c) ==
  LET i == request[c].inv
  IN /\ request[c].pc = "mark"
     /\ \/ /\ invitations[i].status = "pending"
           /\ invitations' = [invitations EXCEPT ![i].status = Verdict[request[c].kind]]
           /\ Reply(c, "ok")
        \/ /\ invitations[i].status # "pending"
           /\ UNCHANGED invitations
           /\ Reply(c, "not_pending")
     /\ UNCHANGED memberVars

\* MarkStatusIfPending: the first to get here decides; any error of the UPDATE
\* is answered like a row that has been decided.
MarkStatusIfPending(c) ==
  LET i == request[c].inv
  IN /\ request[c].pc = "mark"
     /\ \/ /\ invitations[i].status = "pending"
           /\ invitations' = [invitations EXCEPT ![i].status = Verdict[request[c].kind]]
           /\ IF request[c].kind = "accept" THEN Goto(c, "adding") ELSE Reply(c, "ok")
        \/ /\ invitations[i].status # "pending" \/ "database" \in InviteFaults
           /\ UNCHANGED invitations
           /\ Reply(c, "not_pending")
     /\ UNCHANGED memberVars

\* AddMember, the call of the member service.
AddMember(c) ==
  /\ request[c].pc = "adding"
  /\ CallNext(c)
  /\ UNCHANGED inviteVars

Added(c) ==
  /\ request[c].pc = "adding"
  /\ call[c].pc = "answered"
  /\ CASE call[c].answer = "ok" ->
            IF request[c].kind = "join" THEN Goto(c, "count") ELSE Reply(c, "ok")
       [] call[c].answer = "exists" -> Goto(c, "look")
       [] OTHER -> Reply(c, "error")
  /\ UNCHANGED <<memberVars, invitations>>

\* Already a member: the membership is read again and returned, if it still is.
Look(c) ==
  /\ request[c].pc = "look"
  /\ \/ member[call[c].user] # "none" /\ Reply(c, "ok")
     \/ /\ member[call[c].user] = "none" \/ "database" \in InviteFaults
        /\ Reply(c, "error")
  /\ UNCHANGED <<memberVars, invitations>>

\* IncrementAcceptedCount, best effort.
IncrementAcceptedCount(c) ==
  /\ request[c].pc = "count"
  /\ \/ invitations' = [invitations EXCEPT ![request[c].inv].uses = @ + 1]
     \/ "database" \in InviteFaults /\ UNCHANGED invitations
  /\ Reply(c, "ok")
  /\ UNCHANGED memberVars

-----------------------------------------------------------------------------
(* Time, reads, failures                                                   *)

\* A pending row passes its expires_at.
Age ==
  \E i \in DOMAIN invitations :
    /\ invitations[i].status = "pending"
    /\ ~invitations[i].overdue
    /\ invitations' = [invitations EXCEPT ![i].overdue = TRUE]
    /\ UNCHANGED <<memberVars, request>>

\* Lists and counters sweep first.
List == SweepExpired /\ UNCHANGED <<memberVars, request>>

\* From here on the request has left a mark, or is about to make a member.
Committed == {"adding", "look", "count"}

\* A statement of AddMember fails.
Fail(c) ==
  /\ "database" \in InviteFaults
  /\ request[c].pc = "adding"
  /\ call[c].pc # "answered"
  /\ Answer(c, "error")
  /\ UNCHANGED <<member, lock, inviteVars>>

\* The process that serves the request dies.  (Before it is committed, or before
\* its insert, a request that dies or fails is one that goes no further: it has
\* changed nothing.)
Crash(c) ==
  /\ "crash" \in InviteFaults
  /\ request[c].pc \in Committed
  /\ Reply(c, "crashed")
  /\ IF call[c].pc = "answered" THEN UNCHANGED call ELSE Answer(c, "error")
  /\ UNCHANGED <<member, lock, invitations>>

-----------------------------------------------------------------------------
Direct(c) == request[c].kind = "direct" /\ CallNext(c) /\ UNCHANGED inviteVars

Step(c) ==
  \/ Probe(c) \/ CreateRow(c) \/ Read(c) \/ MarkStatusIfPending(c)
  \/ AddMember(c) \/ Added(c) \/ Look(c) \/ IncrementAcceptedCount(c)

InviteNext ==
  \/ \E c \in Calls : Direct(c) \/ Step(c) \/ Fail(c) \/ Crash(c)
  \/ \E c \in Requests : Invite(c) \/ CreateLink(c) \/ Decide(c) \/ Join(c)
  \/ Age \/ List

InviteSafety == InviteInit /\ [][InviteNext]_vars

\* A request or a call that has begun goes on.
InviteSpec ==
  /\ InviteSafety
  /\ \A c \in Calls : WF_vars(Step(c) \/ (call[c].pc # "idle" /\ Direct(c)))

-----------------------------------------------------------------------------
(* Properties                                                              *)

\* The accepting request that has moved the row on and has not answered.
Accepting(c) == request[c].kind = "accept" /\ request[c].pc \in {"adding", "look"}

Decided(c) ==
  /\ request[c].kind \in DOMAIN Verdict
  /\ request[c].answer = "ok" \/ Accepting(c)

\* Of all acceptances, refusals and revocations of an invitation, with sweeps
\* and crashes between their steps, one at most succeeds, and its verdict
\* stands: nobody becomes a member through an invitation whose revocation was
\* confirmed.
VerdictStands ==
  \A c \in Requests : Decided(c) =>
    /\ invitations[request[c].inv].status = Verdict[request[c].kind]
    /\ \A d \in Requests \ {c} : Decided(d) => request[d].inv # request[c].inv

\* The request met a crash or an error after it had moved the row on.
Interrupted(c) == call[c].answer = "error" \/ request[c].answer = "crashed"

\* An accepted invitation is a membership, although two services write the two
\* rows: the invitee is a member, or about to be, or the request that accepted
\* was interrupted, or somebody has asked for the removal.
AcceptedIsMember ==
  \A i \in DOMAIN invitations :
    LET u == invitations[i].user
    IN invitations[i].status = "accepted" =>
         \/ member[u] # "none"
         \/ \E c \in Requests : /\ request[c].inv = i
                                /\ Accepting(c) \/ (request[c].kind = "accept" /\ Interrupted(c))
         \/ \E c \in Calls : /\ request[c].kind = "direct"
                             /\ call[c].user = u /\ call[c].role = "none"
                             /\ call[c].pc # "idle"

Underway(c) == request[c].pc \notin {"idle", "answered"}
Begun(c) == Underway(c) \/ call[c].pc # "idle"
Over(c) == ~Underway(c) /\ "answered" \in {call[c].pc, request[c].pc}

\* Every request is answered, whatever decides the row first, fails under it or
\* locks the membership rows.
EveryoneAnswered == \A c \in Calls : Begun(c) ~> Over(c)
=============================================================================
