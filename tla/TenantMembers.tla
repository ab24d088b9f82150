----------------------------- MODULE TenantMembers -----------------------------
(***************************************************************************)
(* The membership rows of one tenant under concurrent calls of the member  *)
(* service: AddMember, UpdateRole and RemoveMember (also "leave").  A call *)
(* reads the row first and then either runs a single statement or, for the *)
(* demotion or removal of an Owner, a transaction that locks the other     *)
(* Owners.  PostgreSQL's row locks, READ COMMITTED re-checks and deadlock  *)
(* detector are modelled as far as those statements use them.              *)
(***************************************************************************)
EXTENDS Naturals

CONSTANTS
  Users,        \* users the calls are about
  OtherRoles,   \* the roles below Owner
  Calls         \* service calls, each made at most once

ASSUME MembersAssumption ==
  /\ {"owner", "none"} \cap OtherRoles = {}
  /\ "none" \notin Users
  /\ "free" \notin Calls

VARIABLES
  member,     \* member[u]: u's role, "none" without an active row
  lock,       \* lock[u]: the transaction that holds u's row locked
  call        \* call[c]

memberVars == <<member, lock, call>>

Roles == {"owner"} \cup OtherRoles
Row == Roles \cup {"none"}

CallPc == {"idle", "insert", "update", "select", "locking", "writing", "answered"}
Answers == {"nothing", "ok", "exists", "not_found", "last_owner", "no_row", "error"}
Call == [pc : CallPc,
         op : {"add", "change"},
         user : Users,
         role : Row,                      \* the new role; "none" removes
         todo : SUBSET Users,             \* rows the SELECT has not locked yet
         want : Users \cup {"none"},      \* the one it is about to lock
         found : SUBSET Users,            \* Owners it has locked
         answer : Answers]

MembersTypeOK ==
  /\ member \in [Users -> Row]
  /\ lock \in [Users -> Calls \cup {"free"}]
  /\ call \in [Calls -> Call]
  /\ \A c \in Calls : call[c].pc = "answered" <=> call[c].answer # "nothing"

Owners == {u \in Users : member[u] = "owner"}
HasOwner == Owners # {}

\* What a request may ask for: route guards let an Owner ask for any role.
Requested == {r \in [op : {"add", "change"}, user : Users, role : Row] :
                r.op = "add" => r.role # "none"}

MembersInit ==
  /\ member \in [Users -> Row]
  /\ HasOwner
  /\ lock = [u \in Users |-> "free"]
  /\ call \in [Calls -> {[pc |-> "idle", op |-> r.op, user |-> r.user, role |-> r.role,
                          todo |-> {}, want |-> "none", found |-> {},
                          answer |-> "nothing"] : r \in Requested}]

-----------------------------------------------------------------------------
\* Mutant: an answer while the call goes on.
AnswerEarly(c, answer) == call' = [call EXCEPT ![c].pc = "update", ![c].answer = answer]
Answer(c, answer) == call' = [call EXCEPT ![c].pc = "answered", ![c].answer = answer]
CallGoto(c, pc) == call' = [call EXCEPT ![c].pc = pc]

\* Get, and what the service decides on the row it read: from here on the role
\* may be stale.
ReadToAdd(c) ==
  /\ call[c].pc = "idle" /\ call[c].op = "add"
  /\ IF member[call[c].user] # "none" THEN Answer(c, "exists") ELSE CallGoto(c, "insert")
  /\ UNCHANGED <<member, lock>>

\* Mutant: Owners take the single statement too.
ReadToChangeFast(c) ==
  /\ call[c].pc = "idle" /\ call[c].op = "change"
  /\ IF member[call[c].user] = "none" THEN Answer(c, "not_found") ELSE CallGoto(c, "update")
  /\ UNCHANGED <<member, lock>>

ReadToChange(c) ==
  LET current == member[call[c].user]
  IN /\ call[c].pc = "idle" /\ call[c].op = "change"
     /\ CASE current = "none"                -> Answer(c, "not_found")
          [] current # "none" /\ current = call[c].role -> Answer(c, "ok")
          [] current = "owner" /\ call[c].role # "owner" -> CallGoto(c, "select")
          [] OTHER                           -> CallGoto(c, "update")
     /\ UNCHANGED <<member, lock>>

\* The partial unique index rejects a second active row.
Insert(c) ==
  LET u == call[c].user
  IN /\ call[c].pc = "insert"
     /\ IF member[u] = "none"
          THEN member' = [member EXCEPT ![u] = call[c].role] /\ Answer(c, "ok")
          ELSE UNCHANGED member /\ Answer(c, "exists")
     /\ UNCHANGED lock

\* The single statement of UpdateRole, or of SoftDelete (which does not mind a
\* row that is gone).  It names the row, not the role that was read.
Update(c) ==
  LET u == call[c].user
  IN /\ call[c].pc = "update"
     /\ lock[u] = "free"
     /\ IF member[u] = "none"
          THEN /\ UNCHANGED member
               /\ Answer(c, IF call[c].role = "none" THEN "ok" ELSE "no_row")
          ELSE member' = [member EXCEPT ![u] = call[c].role] /\ Answer(c, "ok")
     /\ UNCHANGED lock

-----------------------------------------------------------------------------
(* DemoteOwnerAtomically and RemoveOwnerAtomically                         *)

Ahead(rest) == IF rest = {} THEN {"none"} ELSE rest

\* SELECT ... FOR UPDATE takes its snapshot and turns to a first row.
Select(c) ==
  LET others == Owners \ {call[c].user}
  IN /\ call[c].pc = "select"
     /\ \E first \in Ahead(others) :
          call' = [call EXCEPT ![c].pc = "locking", ![c].todo = others, ![c].want = first]
     /\ UNCHANGED <<member, lock>>

\* Mutant: a row of the snapshot counts although it is no Owner any more.
LockRowStale(c) ==
  LET u == call[c].want
      rest == call[c].todo \ {u}
  IN /\ call[c].pc = "locking"
     /\ u # "none"
     /\ lock[u] = "free"
     /\ lock' = [lock EXCEPT ![u] = c]
     /\ \E next \in Ahead(rest) :
          call' = [call EXCEPT ![c].todo = rest, ![c].want = next, ![c].found = @ \cup {u}]
     /\ UNCHANGED member

\* It waits for the row, and looks again whether it still is an Owner's: rows
\* that are not any more are skipped.
LockRow(c) ==
  LET u == call[c].want
      rest == call[c].todo \ {u}
  IN /\ call[c].pc = "locking"
     /\ u # "none"
     /\ lock[u] = "free"
     /\ lock' = IF u \in Owners THEN [lock EXCEPT ![u] = c] ELSE lock
     /\ \E next \in Ahead(rest) :
          call' = [call EXCEPT ![c].todo = rest, ![c].want = next,
                               ![c].found = IF u \in Owners THEN @ \cup {u} ELSE @]
     /\ UNCHANGED member

\* Mutant: the transaction is left open.
KeepLocks(c) == UNCHANGED lock
Release(c) == lock' = [u \in Users |-> IF lock[u] = c THEN "free" ELSE lock[u]]

\* Without another Owner the transaction is rolled back.
CheckOthers(c) ==
  /\ call[c].pc = "locking"
  /\ call[c].want = "none"
  /\ IF call[c].found = {}
       THEN Answer(c, "last_owner") /\ Release(c)
       ELSE CallGoto(c, "writing") /\ UNCHANGED lock
  /\ UNCHANGED member

\* The UPDATE of the target's row, and the commit.
Write(c) ==
  LET u == call[c].user
  IN /\ call[c].pc = "writing"
     /\ lock[u] \in {"free", c}
     /\ IF member[u] = "none"
          THEN UNCHANGED member /\ Answer(c, "no_row")
          ELSE member' = [member EXCEPT ![u] = call[c].role] /\ Answer(c, "ok")
     /\ Release(c)

\* The transaction a statement of c waits for.
Blocker(c) ==
  LET row == IF call[c].pc = "locking" THEN call[c].want ELSE call[c].user
  IN IF call[c].pc \in {"locking", "writing"} /\ row # "none" THEN lock[row] ELSE "free"

Deadlocked(c) ==
  \E S \in SUBSET Calls :
    /\ c \in S
    /\ \A d \in S : Blocker(d) \in S \ {d} /\ \E e \in S : Blocker(e) = d

\* The victim of a deadlock is rolled back and its caller gets the error.
Abort(c) ==
  /\ Deadlocked(c)
  /\ Answer(c, "error")
  /\ Release(c)
  /\ UNCHANGED member

-----------------------------------------------------------------------------
CallNext(c) ==
  \/ ReadToAdd(c) \/ ReadToChange(c) \/ Insert(c) \/ Update(c)
  \/ Select(c) \/ LockRow(c) \/ CheckOthers(c) \/ Write(c) \/ Abort(c)

MembersNext == \E c \in Calls : CallNext(c)

MembersSafety == MembersInit /\ [][MembersNext]_memberVars

-----------------------------------------------------------------------------
(* Properties                                                              *)

\* Nobody has been made an Owner so far: calls that would have not begun.
NoPromotion == \A c \in Calls : call[c].role = "owner" => call[c].pc = "idle"

\* No demotions, removals and departures, however they interleave, leave the
\* tenant without an active Owner, until somebody is promoted.
OwnerKept == NoPromotion => HasOwner

\* The claim at ErrLastOwner: no operation leaves the tenant without an active
\* Owner.  HasOwner, defined above, is that claim with no condition.

\* A transaction past its SELECT holds the row of another Owner, who stays one
\* until it commits: also while people are being promoted.
WriterHoldsOwner ==
  \A c \in Calls : call[c].pc = "writing" =>
    \E u \in Owners \ {call[c].user} : lock[u] = c
=============================================================================
