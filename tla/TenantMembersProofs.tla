--------------------------- MODULE TenantMembersProofs ---------------------------
(***************************************************************************)
(* For any users, roles and concurrent calls: a transaction about to       *)
(* demote or remove an Owner holds the row of another one, and so, as long *)
(* as nobody is promoted, the tenant keeps an active Owner.  The same with *)
(* the invitation service among the callers; and of an invitation, for any *)
(* number of requests and rows: one verdict stands, and an accepted one is *)
(* a membership.                                                           *)
(***************************************************************************)
EXTENDS Invitations, TLAPS

\* What a step makes of its own call: t; the others are untouched.
Becomes(c, t) ==
  /\ t \in Call
  /\ call' \in [Calls -> Call]
  /\ call'[c] = t
  /\ \A d \in Calls \ {c} : call'[d] = call[d]

\* An answered call.
LEMMA Answered ==
  ASSUME MembersTypeOK, NEW c \in Calls, NEW a \in Answers, Answer(c, a)
  PROVE  Becomes(c, [call[c] EXCEPT !.pc = "answered", !.answer = a])
<1> DEFINE t == [call[c] EXCEPT !.pc = "answered", !.answer = a]
<1>1. call[c] \in Call
  BY DEF MembersTypeOK
<1>2. t \in Call
  BY <1>1 DEF Call, CallPc
<1>3. call' = [call EXCEPT ![c] = t]
  BY DEF Answer
<1> HIDE DEF t
<1>4. Becomes(c, t)
  BY <1>2, <1>3 DEF MembersTypeOK, Becomes
<1> QED BY <1>4 DEF t

\* A call that goes on.
LEMMA Went ==
  ASSUME MembersTypeOK, NEW c \in Calls, NEW pc \in CallPc, CallGoto(c, pc)
  PROVE  Becomes(c, [call[c] EXCEPT !.pc = pc])
<1> DEFINE t == [call[c] EXCEPT !.pc = pc]
<1>1. call[c] \in Call
  BY DEF MembersTypeOK
<1>2. t \in Call
  BY <1>1 DEF Call
<1>3. call' = [call EXCEPT ![c] = t]
  BY DEF CallGoto
<1> HIDE DEF t
<1>4. Becomes(c, t)
  BY <1>2, <1>3 DEF MembersTypeOK, Becomes
<1> QED BY <1>4 DEF t

\* A call whose SELECT begins.
LEMMA Selected ==
  ASSUME MembersTypeOK, NEW c \in Calls, Select(c)
  PROVE  \E first \in Users \cup {"none"} :
           /\ Becomes(c, [call[c] EXCEPT !.pc = "locking", !.want = first,
                                         !.todo = Owners \ {call[c].user}])
           /\ first \in Ahead(Owners \ {call[c].user})
<1>1. PICK first \in Ahead(Owners \ {call[c].user}) :
        call' = [call EXCEPT ![c].pc = "locking", ![c].todo = Owners \ {call[c].user},
                             ![c].want = first]
  BY DEF Select
<1> DEFINE t == [call[c] EXCEPT !.pc = "locking", !.want = first,
                                !.todo = Owners \ {call[c].user}]
<1>2. call[c] \in Call
  BY DEF MembersTypeOK
<1>3. first \in Users \cup {"none"}
  BY DEF Ahead, Owners
<1>4. t \in Call
  BY <1>2, <1>3 DEF Call, CallPc, Owners
<1>5. call' = [call EXCEPT ![c] = t]
  BY <1>1
<1> HIDE DEF t
<1>6. Becomes(c, t)
  BY <1>4, <1>5 DEF MembersTypeOK, Becomes
<1> QED BY <1>3, <1>6 DEF t

\* A call whose SELECT has dealt with one more row.
LEMMA Locked ==
  ASSUME MembersTypeOK, NEW c \in Calls, LockRow(c)
  PROVE  \E next \in Users \cup {"none"} :
           /\ Becomes(c, [call[c] EXCEPT !.todo = @ \ {call[c].want}, !.want = next,
                            !.found = IF call[c].want \in Owners THEN @ \cup {call[c].want}
                                                                 ELSE @])
           /\ next \in Ahead(call[c].todo \ {call[c].want})
<1>1. PICK next \in Ahead(call[c].todo \ {call[c].want}) :
        call' = [call EXCEPT ![c].todo = call[c].todo \ {call[c].want}, ![c].want = next,
                   ![c].found = IF call[c].want \in Owners THEN @ \cup {call[c].want} ELSE @]
  BY DEF LockRow
<1> DEFINE t == [call[c] EXCEPT !.todo = @ \ {call[c].want}, !.want = next,
                   !.found = IF call[c].want \in Owners THEN @ \cup {call[c].want} ELSE @]
<1>2. call[c] \in Call
  BY DEF MembersTypeOK
<1>3. next \in Users \cup {"none"}
  BY <1>2 DEF Ahead, Call
<1>4. t \in Call
  BY <1>2, <1>3 DEF Call, Owners
<1>5. call' = [call EXCEPT ![c] = t]
  BY <1>1, <1>2 DEF Call
<1> HIDE DEF t
<1>6. Becomes(c, t)
  BY <1>4, <1>5 DEF MembersTypeOK, Becomes
<1> QED BY <1>1, <1>3, <1>6 DEF t

-----------------------------------------------------------------------------
(* The invariant: who holds which row.                                     *)

Transaction == {"locking", "writing"}

\* What call c, in state t, holds of the rows mb under the locks lk.
Holds(c, t, lk, mb) ==
  /\ \A u \in Users : lk[u] = c => t.pc \in Transaction /\ u \in t.found
  /\ t.pc \in Transaction =>
       \A u \in t.found : lk[u] = c /\ mb[u] = "owner" /\ u # t.user
  /\ t.pc = "writing" => t.found # {}
  /\ t.pc = "locking" => t.user \notin t.todo /\ t.want \in t.todo \cup {"none"}
  /\ t.pc \in {"idle", "insert", "update", "select"} => t.found = {}

LocksInv ==
  /\ MembersTypeOK
  /\ \A c \in Calls : Holds(c, call[c], lock, member)

\* A step of c leaves the others what they hold: it takes and gives back only
\* locks of its own, and changes no locked Owner's row.
LEMMA Assemble ==
  ASSUME LocksInv, NEW c \in Calls,
         member' \in [Users -> Row],
         lock' \in [Users -> Calls \cup {"free"}],
         call' \in [Calls -> Call],
         \A d \in Calls \ {c} : call'[d] = call[d],
         call'[c].pc = "answered" <=> call'[c].answer # "nothing",
         \A u \in Users : lock'[u] # lock[u] => lock[u] \in {"free", c} /\ lock'[u] \in {"free", c},
         \A u \in Users : member'[u] # member[u] => member[u] # "owner" \/ lock[u] \in {"free", c},
         Holds(c, call'[c], lock', member')
  PROVE  LocksInv'
<1>1. MembersTypeOK'
  BY DEF LocksInv, MembersTypeOK
<1>2. ASSUME NEW d \in Calls
      PROVE  Holds(d, call'[d], lock', member')
  <2>1. CASE d = c
    BY <2>1
  <2>2. CASE d # c
    <3> USE <2>2
    <3>1. Holds(d, call[d], lock, member) /\ call'[d] = call[d]
      BY DEF LocksInv
    <3>2. d # "free"
      BY MembersAssumption
    <3>3. call[d] \in Call /\ call[d].found \subseteq Users
      BY DEF LocksInv, MembersTypeOK, Call
    <3>4. \A u \in Users : lock'[u] = d <=> lock[u] = d
      BY <3>2
    <3>5. \A u \in Users : lock[u] = d /\ member[u] = "owner" => member'[u] = "owner"
      BY <3>2
    <3> QED BY <3>1, <3>3, <3>4, <3>5 DEF Holds
  <2> QED BY <2>1, <2>2
<1> QED BY <1>1, <1>2 DEF LocksInv

\* Giving back the locks of c.
LEMMA Released ==
  ASSUME LocksInv, NEW c \in Calls, Release(c)
  PROVE  /\ lock' \in [Users -> Calls \cup {"free"}]
         /\ \A u \in Users : lock'[u] # c
         /\ \A u \in Users : lock'[u] # lock[u] => lock[u] = c /\ lock'[u] = "free"
BY MembersAssumption DEF Release, LocksInv, MembersTypeOK

\* An answer with no lock left.
LEMMA AnsweredInv ==
  ASSUME LocksInv, NEW c \in Calls, NEW a \in Answers \ {"nothing"}, Answer(c, a),
         member' \in [Users -> Row],
         lock' \in [Users -> Calls \cup {"free"}],
         \A u \in Users : lock'[u] # c,
         \A u \in Users : lock'[u] # lock[u] => lock[u] = c /\ lock'[u] = "free",
         \A u \in Users : member'[u] # member[u] => member[u] # "owner" \/ lock[u] \in {"free", c}
  PROVE  LocksInv'
<1>1. call[c] \in Call
  BY DEF LocksInv, MembersTypeOK
<1>2. Becomes(c, [call[c] EXCEPT !.pc = "answered", !.answer = a])
  BY Answered DEF LocksInv
<1>3. call'[c].pc = "answered" /\ call'[c].answer = a
  BY <1>1, <1>2 DEF Becomes, Call
<1>4. Holds(c, call'[c], lock', member')
  BY <1>3 DEF Holds, Transaction
<1>5. call' \in [Calls -> Call] /\ \A d \in Calls \ {c} : call'[d] = call[d]
  BY <1>2 DEF Becomes
<1>6. \A u \in Users : lock'[u] # lock[u] => lock[u] \in {"free", c} /\ lock'[u] \in {"free", c}
  OBVIOUS
<1> HIDE DEF Holds
<1> QED BY <1>3, <1>4, <1>5, <1>6, Assemble

\* A step of c that moves its pc only, outside a transaction or from the end
\* of the SELECT to the UPDATE.
LEMMA WentInv ==
  ASSUME LocksInv, NEW c \in Calls, NEW pc \in CallPc \ {"answered"}, CallGoto(c, pc),
         UNCHANGED <<member, lock>>,
         \/ call[c].pc = "idle" /\ pc \in {"insert", "update", "select"}
         \/ call[c].pc = "locking" /\ pc = "writing" /\ call[c].found # {}
  PROVE  LocksInv'
<1>1. call[c] \in Call /\ Holds(c, call[c], lock, member)
  BY DEF LocksInv, MembersTypeOK
<1>2. Becomes(c, [call[c] EXCEPT !.pc = pc])
  BY Went DEF LocksInv
<1>3. /\ call'[c].pc = pc /\ call'[c].answer = call[c].answer
      /\ call'[c].found = call[c].found /\ call'[c].user = call[c].user
  BY <1>1, <1>2 DEF Becomes, Call
<1>4. Holds(c, call'[c], lock', member')
  BY <1>1, <1>3 DEF Holds, Transaction
<1>5. call' \in [Calls -> Call] /\ \A d \in Calls \ {c} : call'[d] = call[d]
  BY <1>2 DEF Becomes
<1>6. call'[c].pc = "answered" <=> call'[c].answer # "nothing"
  BY <1>3 DEF LocksInv, MembersTypeOK
<1>7. member' \in [Users -> Row] /\ lock' \in [Users -> Calls \cup {"free"}]
  BY DEF LocksInv, MembersTypeOK
<1> QED BY <1>4, <1>5, <1>6, <1>7, Assemble

\* A call outside a transaction holds no lock.
LEMMA NoLock ==
  ASSUME LocksInv, NEW c \in Calls, call[c].pc \notin Transaction
  PROVE  \A u \in Users : lock[u] # c
BY DEF LocksInv, Holds

\* Outside a transaction nobody's lock changes; a row changes if it is no
\* Owner's or if nobody holds it.
LEMMA SingleInv ==
  ASSUME LocksInv, NEW c \in Calls,
         ReadToAdd(c) \/ ReadToChange(c) \/ Insert(c) \/ Update(c)
  PROVE  LocksInv'
<1> DEFINE u == call[c].user
<1>1. call[c] \in Call /\ MembersTypeOK
  BY DEF LocksInv, MembersTypeOK
<1>2. u \in Users /\ call[c].role \in Row
  BY <1>1 DEF Call
<1>3. call[c].pc \notin Transaction /\ UNCHANGED lock
  BY DEF ReadToAdd, ReadToChange, Insert, Update, Transaction
<1>4. /\ lock' \in [Users -> Calls \cup {"free"}]
      /\ \A v \in Users : lock'[v] # c /\ lock'[v] = lock[v]
  BY <1>1, <1>3, NoLock DEF MembersTypeOK
<1>5. ASSUME NEW a \in Answers \ {"nothing"}, Answer(c, a), UNCHANGED member
      PROVE  LocksInv'
  <2>1. member' \in [Users -> Row] /\ \A v \in Users : member'[v] = member[v]
    BY <1>1, <1>5 DEF MembersTypeOK
  <2> QED BY <1>4, <1>5, <2>1, AnsweredInv
<1>6. ASSUME NEW a \in Answers \ {"nothing"}, Answer(c, a),
             member' = [member EXCEPT ![u] = call[c].role],
             member[u] # "owner" \/ lock[u] = "free"
      PROVE  LocksInv'
  <2>1. member' \in [Users -> Row]
    BY <1>1, <1>2, <1>6 DEF MembersTypeOK
  <2>2. \A v \in Users : member'[v] # member[v] => member[v] # "owner" \/ lock[v] \in {"free", c}
    BY <1>1, <1>2, <1>6 DEF MembersTypeOK
  <2> HIDE DEF u
  <2> QED BY <1>4, <1>6, <2>1, <2>2, AnsweredInv
<1>7. CASE ReadToAdd(c)
  <2>1. CASE member[u] # "none"
    <3>1. Answer(c, "exists") /\ UNCHANGED member
      BY <1>7, <2>1 DEF ReadToAdd
    <3> QED BY <1>5, <3>1 DEF Answers
  <2>2. CASE member[u] = "none"
    <3>1. CallGoto(c, "insert") /\ UNCHANGED <<member, lock>> /\ call[c].pc = "idle"
      BY <1>7, <2>2 DEF ReadToAdd
    <3> QED BY <3>1, WentInv DEF CallPc
  <2> QED BY <2>1, <2>2
<1>8. CASE ReadToChange(c)
  <2>1. call[c].pc = "idle" /\ UNCHANGED <<member, lock>>
    BY <1>8 DEF ReadToChange
  <2>2. \/ Answer(c, "not_found") \/ Answer(c, "ok")
        \/ CallGoto(c, "select") \/ CallGoto(c, "update")
    BY <1>8 DEF ReadToChange
  <2>3. CASE Answer(c, "not_found") \/ Answer(c, "ok")
    BY <1>5, <2>1, <2>3 DEF Answers
  <2>4. CASE CallGoto(c, "select")
    BY <2>1, <2>4, WentInv DEF CallPc
  <2>5. CASE CallGoto(c, "update")
    BY <2>1, <2>5, WentInv DEF CallPc
  <2> QED BY <2>2, <2>3, <2>4, <2>5
<1>9. CASE Insert(c)
  <2>1. CASE member[u] = "none"
    <3>1. member' = [member EXCEPT ![u] = call[c].role] /\ Answer(c, "ok")
      BY <1>9, <2>1 DEF Insert
    <3>2. member[u] # "owner"
      BY <2>1
    <3> QED BY <1>6, <3>1, <3>2 DEF Answers
  <2>2. CASE member[u] # "none"
    <3>1. Answer(c, "exists") /\ UNCHANGED member
      BY <1>9, <2>2 DEF Insert
    <3> QED BY <1>5, <3>1 DEF Answers
  <2> QED BY <2>1, <2>2
<1>10. CASE Update(c)
  <2>1. CASE member[u] = "none"
    <3>1. UNCHANGED member /\ (Answer(c, "ok") \/ Answer(c, "no_row"))
      BY <1>10, <2>1 DEF Update
    <3> QED BY <1>5, <3>1 DEF Answers
  <2>2. CASE member[u] # "none"
    <3>1. /\ member' = [member EXCEPT ![u] = call[c].role] /\ Answer(c, "ok")
          /\ lock[u] = "free"
      BY <1>10, <2>2 DEF Update
    <3> QED BY <1>6, <3>1 DEF Answers
  <2> QED BY <2>1, <2>2
<1> QED BY <1>7, <1>8, <1>9, <1>10

\* The SELECT ... FOR UPDATE begins, and takes row after row.
LEMMA SelectInv ==
  ASSUME LocksInv, NEW c \in Calls, Select(c) \/ LockRow(c)
  PROVE  LocksInv'
<1>1. /\ call[c] \in Call /\ MembersTypeOK /\ Holds(c, call[c], lock, member)
      /\ call[c].pc = "answered" <=> call[c].answer # "nothing"
  BY DEF LocksInv, MembersTypeOK
<1>2. UNCHANGED member /\ member' \in [Users -> Row]
  BY <1>1 DEF MembersTypeOK, Select, LockRow
<1>3. CASE Select(c)
  <2>1. PICK first \in Users \cup {"none"} :
          /\ Becomes(c, [call[c] EXCEPT !.pc = "locking", !.want = first,
                                        !.todo = Owners \ {call[c].user}])
          /\ first \in Ahead(Owners \ {call[c].user})
    BY <1>1, <1>3, Selected
  <2>2. /\ call'[c].pc = "locking" /\ call'[c].want = first
        /\ call'[c].todo = Owners \ {call[c].user}
        /\ call'[c].user = call[c].user /\ call'[c].found = call[c].found
        /\ call'[c].answer = call[c].answer
    BY <1>1, <2>1 DEF Becomes, Call
  <2>3. call[c].pc = "select" /\ UNCHANGED lock
    BY <1>3 DEF Select
  <2>4. first \in (Owners \ {call[c].user}) \cup {"none"}
    BY <2>1 DEF Ahead
  <2>5. Holds(c, call'[c], lock', member')
    BY <1>1, <1>2, <2>2, <2>3, <2>4 DEF Holds, Transaction
  <2>6. call' \in [Calls -> Call] /\ \A d \in Calls \ {c} : call'[d] = call[d]
    BY <2>1 DEF Becomes
  <2>7. call'[c].pc = "answered" <=> call'[c].answer # "nothing"
    BY <1>1, <2>2, <2>3
  <2>8. lock' \in [Users -> Calls \cup {"free"}]
    BY <1>1, <2>3 DEF MembersTypeOK
  <2> QED BY <1>2, <2>3, <2>5, <2>6, <2>7, <2>8, Assemble
<1>4. CASE LockRow(c)
  <2> DEFINE u == call[c].want
  <2>1. PICK next \in Users \cup {"none"} :
          /\ Becomes(c, [call[c] EXCEPT !.todo = @ \ {u}, !.want = next,
                            !.found = IF u \in Owners THEN @ \cup {u} ELSE @])
          /\ next \in Ahead(call[c].todo \ {u})
    BY <1>1, <1>4, Locked
  <2>2. /\ call'[c].pc = call[c].pc /\ call'[c].want = next
        /\ call'[c].todo = call[c].todo \ {u}
        /\ call'[c].user = call[c].user
        /\ call'[c].found = IF u \in Owners THEN call[c].found \cup {u} ELSE call[c].found
        /\ call'[c].answer = call[c].answer
    BY <1>1, <2>1 DEF Becomes, Call
  <2>3. /\ call[c].pc = "locking" /\ u # "none" /\ lock[u] = "free"
        /\ lock' = IF u \in Owners THEN [lock EXCEPT ![u] = c] ELSE lock
    BY <1>4 DEF LockRow
  <2>4. u \in Users /\ u \in call[c].todo /\ u # call[c].user
    BY <1>1, <2>3 DEF Holds, Call
  <2>5. /\ lock' \in [Users -> Calls \cup {"free"}]
        /\ \A v \in Users : lock'[v] = IF v = u /\ u \in Owners THEN c ELSE lock[v]
    BY <1>1, <2>3, <2>4 DEF MembersTypeOK
  <2>6. next \in (call[c].todo \ {u}) \cup {"none"}
    BY <2>1 DEF Ahead
  <2>7. call[c].found \subseteq Users
    BY <1>1 DEF Call
  <2> HIDE DEF u
  <2>8. Holds(c, call'[c], lock', member')
    BY <1>1, <1>2, <2>2, <2>3, <2>4, <2>5, <2>6, <2>7 DEF Holds, Transaction, Owners
  <2>9. call' \in [Calls -> Call] /\ \A d \in Calls \ {c} : call'[d] = call[d]
    BY <2>1 DEF Becomes
  <2>10. call'[c].pc = "answered" <=> call'[c].answer # "nothing"
    BY <1>1, <2>2
  <2>11. \A v \in Users : lock'[v] # lock[v] => lock[v] \in {"free", c} /\ lock'[v] \in {"free", c}
    BY <2>3, <2>5
  <2> QED BY <1>2, <2>5, <2>8, <2>9, <2>10, <2>11, Assemble
<1> QED BY <1>3, <1>4

\* The transaction ends: refused, written, or rolled back as a deadlock's victim.
LEMMA EndInv ==
  ASSUME LocksInv, NEW c \in Calls, CheckOthers(c) \/ Write(c) \/ Abort(c)
  PROVE  LocksInv'
<1> DEFINE u == call[c].user
<1>1. call[c] \in Call /\ MembersTypeOK /\ Holds(c, call[c], lock, member)
  BY DEF LocksInv, MembersTypeOK
<1>2. u \in Users /\ call[c].role \in Row
  BY <1>1 DEF Call
<1>3. ASSUME NEW a \in Answers \ {"nothing"}, Answer(c, a), Release(c), UNCHANGED member
      PROVE  LocksInv'
  <2>1. member' \in [Users -> Row] /\ \A v \in Users : member'[v] = member[v]
    BY <1>1, <1>3 DEF MembersTypeOK
  <2> QED BY <1>3, <2>1, Released, AnsweredInv
<1>4. CASE CheckOthers(c)
  <2>1. CASE call[c].found = {}
    <3>1. Answer(c, "last_owner") /\ Release(c) /\ UNCHANGED member
      BY <1>4, <2>1 DEF CheckOthers
    <3> QED BY <1>3, <3>1 DEF Answers
  <2>2. CASE call[c].found # {}
    <3>1. /\ CallGoto(c, "writing") /\ UNCHANGED <<member, lock>>
          /\ call[c].pc = "locking"
      BY <1>4, <2>2 DEF CheckOthers
    <3> QED BY <2>2, <3>1, WentInv DEF CallPc
  <2> QED BY <2>1, <2>2
<1>5. CASE Write(c)
  <2>1. Release(c) /\ lock[u] \in {"free", c}
    BY <1>5 DEF Write
  <2>2. CASE member[u] = "none"
    <3>1. Answer(c, "no_row") /\ UNCHANGED member
      BY <1>5, <2>2 DEF Write
    <3> QED BY <1>3, <2>1, <3>1 DEF Answers
  <2>3. CASE member[u] # "none"
    <3>1. member' = [member EXCEPT ![u] = call[c].role] /\ Answer(c, "ok")
      BY <1>5, <2>3 DEF Write
    <3>2. member' \in [Users -> Row]
      BY <1>1, <1>2, <3>1 DEF MembersTypeOK
    <3>3. \A v \in Users : member'[v] # member[v] => member[v] # "owner" \/ lock[v] \in {"free", c}
      BY <1>1, <1>2, <2>1, <3>1 DEF MembersTypeOK
    <3> HIDE DEF u
    <3> QED BY <2>1, <3>1, <3>2, <3>3, Released, AnsweredInv DEF Answers
  <2> QED BY <2>2, <2>3
<1>6. CASE Abort(c)
  <2>1. Answer(c, "error") /\ Release(c) /\ UNCHANGED member
    BY <1>6 DEF Abort
  <2> QED BY <1>3, <2>1 DEF Answers
<1> QED BY <1>4, <1>5, <1>6

-----------------------------------------------------------------------------
LEMMA InitLocks == ASSUME MembersInit PROVE LocksInv
<1>1. lock \in [Users -> Calls \cup {"free"}] /\ \A u \in Users : lock[u] = "free"
  BY DEF MembersInit
<1>2. \A c \in Calls : /\ call[c] \in Call
                       /\ call[c].pc = "idle" /\ call[c].answer = "nothing"
                       /\ call[c].found = {}
  BY DEF MembersInit, Requested, Call, CallPc, Answers
<1>3. call \in [Calls -> Call]
  BY DEF MembersInit, Requested, Call, CallPc, Answers
<1>4. MembersTypeOK
  BY <1>1, <1>2, <1>3 DEF MembersInit, MembersTypeOK
<1>5. \A c \in Calls : Holds(c, call[c], lock, member)
  BY <1>1, <1>2, MembersAssumption DEF Holds, Transaction
<1> QED BY <1>4, <1>5 DEF LocksInv

LEMMA NextLocks == ASSUME LocksInv, [MembersNext]_memberVars PROVE LocksInv'
<1>1. CASE UNCHANGED memberVars
  BY <1>1 DEF LocksInv, MembersTypeOK, Holds, memberVars
<1>2. CASE MembersNext
  <2>1. PICK c \in Calls : CallNext(c)
    BY <1>2 DEF MembersNext
  <2> QED BY <2>1, SingleInv, SelectInv, EndInv DEF CallNext
<1> QED BY <1>1, <1>2

\* Calls, locks and rows stay well typed, and a call is answered once it says so.
THEOREM MembersTypeCorrect == MembersSafety => []MembersTypeOK
<1>1. LocksInv => MembersTypeOK
  BY DEF LocksInv
<1> QED BY <1>1, InitLocks, NextLocks, PTL DEF MembersSafety

\* The lock on another Owner's row.
LEMMA LocksHoldOwner == ASSUME LocksInv PROVE WriterHoldsOwner
<1> SUFFICES ASSUME NEW c \in Calls, call[c].pc = "writing"
             PROVE  \E u \in Owners \ {call[c].user} : lock[u] = c
  BY DEF WriterHoldsOwner
<1>1. Holds(c, call[c], lock, member) /\ call[c].found \subseteq Users
  BY DEF LocksInv, MembersTypeOK, Call
<1>2. PICK u \in call[c].found : TRUE
  BY <1>1 DEF Holds
<1> QED BY <1>1, <1>2 DEF Holds, Transaction, Owners

\* A transaction about to demote or remove an Owner holds another Owner's row,
\* for any number of users, calls and promotions at a time.
THEOREM WriterCorrect == MembersSafety => []WriterHoldsOwner
BY LocksHoldOwner, InitLocks, NextLocks, PTL DEF MembersSafety

-----------------------------------------------------------------------------
(* Without promotions a role that was read can only be too high.           *)

OwnersInv ==
  /\ HasOwner
  /\ \A c \in Calls : call[c].pc = "update" => member[call[c].user] # "owner"

KeptInv == NoPromotion => OwnersInv

\* A call keeps what it was asked for, and turns to the single statement only
\* for a row that was no Owner's, or to make somebody an Owner.
LEMMA Asked ==
  ASSUME LocksInv, NEW c \in Calls, CallNext(c)
  PROVE  /\ \A d \in Calls \ {c} : call'[d] = call[d]
         /\ call'[c].user = call[c].user /\ call'[c].role = call[c].role
         /\ call'[c].pc # "idle"
         /\ call'[c].pc = "update" =>
              member[call[c].user] # "owner" \/ call[c].role = "owner"
<1>1. call[c] \in Call /\ MembersTypeOK
  BY DEF LocksInv, MembersTypeOK
<1>2. ASSUME NEW a \in Answers, Answer(c, a)
      PROVE  /\ \A d \in Calls \ {c} : call'[d] = call[d]
             /\ call'[c].user = call[c].user /\ call'[c].role = call[c].role
             /\ call'[c].pc \notin {"update", "idle"}
  <2>1. Becomes(c, [call[c] EXCEPT !.pc = "answered", !.answer = a])
    BY <1>1, <1>2, Answered
  <2> QED BY <1>1, <2>1 DEF Becomes, Call
<1>3. ASSUME NEW pc \in CallPc, CallGoto(c, pc)
      PROVE  /\ \A d \in Calls \ {c} : call'[d] = call[d]
             /\ call'[c].user = call[c].user /\ call'[c].role = call[c].role
             /\ call'[c].pc = pc
  <2>1. Becomes(c, [call[c] EXCEPT !.pc = pc])
    BY <1>1, <1>3, Went
  <2> QED BY <1>1, <2>1 DEF Becomes, Call
<1>4. CASE ReadToAdd(c) \/ Insert(c) \/ Update(c) \/ CheckOthers(c) \/ Write(c) \/ Abort(c)
  <2>1. (\E a \in Answers : Answer(c, a)) \/ CallGoto(c, "insert") \/ CallGoto(c, "writing")
    BY <1>4 DEF ReadToAdd, Insert, Update, CheckOthers, Write, Abort, Answers
  <2> QED BY <1>2, <1>3, <2>1 DEF CallPc
<1>5. CASE ReadToChange(c)
  <2>1. \/ Answer(c, "not_found") \/ Answer(c, "ok")
        \/ CallGoto(c, "select")
        \/ CallGoto(c, "update") /\ (member[call[c].user] # "owner" \/ call[c].role = "owner")
    BY <1>5 DEF ReadToChange
  <2> QED BY <1>2, <1>3, <2>1 DEF CallPc, Answers
<1>6. CASE Select(c)
  <2>1. PICK first \in Users \cup {"none"} :
          Becomes(c, [call[c] EXCEPT !.pc = "locking", !.want = first,
                                     !.todo = Owners \ {call[c].user}])
    BY <1>1, <1>6, Selected
  <2> QED BY <1>1, <2>1 DEF Becomes, Call
<1>7. CASE LockRow(c)
  <2>1. call[c].pc = "locking"
    BY <1>7 DEF LockRow
  <2>2. PICK next \in Users \cup {"none"} :
          Becomes(c, [call[c] EXCEPT !.todo = @ \ {call[c].want}, !.want = next,
                        !.found = IF call[c].want \in Owners THEN @ \cup {call[c].want}
                                                             ELSE @])
    BY <1>1, <1>7, Locked
  <2> QED BY <1>1, <2>1, <2>2 DEF Becomes, Call
<1> QED BY <1>4, <1>5, <1>6, <1>7 DEF CallNext

\* Who takes the single statement was no Owner when read, and nobody becomes one;
\* who takes the transaction leaves the Owner whose row it holds.
LEMMA OwnersStep ==
  ASSUME LocksInv, KeptInv, NEW c \in Calls, CallNext(c), NoPromotion'
  PROVE  OwnersInv'
<1> DEFINE u == call[c].user
<1>1. call[c] \in Call /\ MembersTypeOK /\ Holds(c, call[c], lock, member)
  BY DEF LocksInv, MembersTypeOK
<1>0. /\ \A d \in Calls \ {c} : call'[d] = call[d]
      /\ call'[c].user = call[c].user /\ call'[c].role = call[c].role
      /\ call'[c].pc # "idle"
      /\ call'[c].pc = "update" => member[u] # "owner" \/ call[c].role = "owner"
  BY Asked
<1>2. u \in Users /\ call[c].role # "owner"
  <2>1. call[c].user \in Users
    BY <1>1 DEF Call
  <2> QED BY <1>0, <2>1 DEF NoPromotion
<1>3. call'[c].pc = "update" => member[u] # "owner"
  BY <1>0, <1>2
<1>5. OwnersInv
  <2>1. NoPromotion
    BY <1>0, <1>2 DEF NoPromotion
  <2> QED BY <2>1 DEF KeptInv
<1>4. \A v \in Users : member'[v] = "owner" => member[v] = "owner"
  <2>1. UNCHANGED member \/ member' = [member EXCEPT ![u] = call[c].role]
    BY DEF CallNext, ReadToAdd, ReadToChange, Insert, Update, Select, LockRow, CheckOthers,
       Write, Abort
  <2> HIDE DEF u
  <2> QED BY <1>1, <1>2, <2>1 DEF MembersTypeOK
<1>6. \A d \in Calls : call[d].user \in Users
  BY <1>1 DEF MembersTypeOK, Call
<1>7. \A d \in Calls : call'[d].pc = "update" => member'[call'[d].user] # "owner"
  <2>1. \A d \in Calls : call'[d].user = call[d].user
    BY <1>0
  <2>2. \A d \in Calls : call'[d].pc = "update" => member[call[d].user] # "owner"
    BY <1>0, <1>3, <1>5 DEF OwnersInv
  <2> QED BY <2>1, <2>2, <1>4, <1>6
<1>8. HasOwner'
  <2>1. CASE UNCHANGED member
    BY <1>5, <2>1 DEF OwnersInv, HasOwner, Owners
  <2>2. CASE Insert(c) \/ Update(c)
    <3>1. PICK v \in Owners : TRUE
      BY <1>5 DEF OwnersInv, HasOwner
    <3>2. \/ UNCHANGED member
          \/ member[u] # "owner" /\ member' = [member EXCEPT ![u] = call[c].role]
      <4>1. call[c].pc = "update" => member[u] # "owner"
        BY <1>5 DEF OwnersInv
      <4> QED BY <2>2, <4>1 DEF Insert, Update
    <3> HIDE DEF u
    <3>3. member'[v] = "owner"
      BY <1>1, <3>1, <3>2 DEF Owners, MembersTypeOK
    <3> QED BY <3>1, <3>3 DEF HasOwner, Owners
  <2>3. CASE Write(c)
    <3>1. PICK v \in call[c].found : TRUE
      BY <1>1, <2>3 DEF Holds, Write
    <3>2. v \in Users /\ v # u /\ member[v] = "owner"
      BY <1>1, <2>3, <3>1 DEF Holds, Write, Transaction, Call
    <3>3. member'[v] = "owner"
      BY <1>1, <2>3, <3>2 DEF MembersTypeOK, Write
    <3> QED BY <3>2, <3>3 DEF HasOwner, Owners
  <2>4. UNCHANGED member \/ Insert(c) \/ Update(c) \/ Write(c)
    BY DEF CallNext, ReadToAdd, ReadToChange, Select, LockRow, CheckOthers, Abort
  <2> QED BY <2>1, <2>2, <2>3, <2>4
<1> QED BY <1>7, <1>8 DEF OwnersInv

\* While nobody is being promoted, demotions, removals and departures of any
\* number of Owners, however they interleave, leave an active Owner.
THEOREM OwnerCorrect == MembersSafety => []OwnerKept
<1>1. MembersInit => KeptInv
  <2>1. MembersInit => HasOwner /\ \A c \in Calls : call[c].pc = "idle"
    BY DEF MembersInit
  <2> QED BY <2>1 DEF KeptInv, OwnersInv
<1>2. ASSUME LocksInv, KeptInv, [MembersNext]_memberVars PROVE KeptInv'
  <2>1. CASE UNCHANGED memberVars
    BY <1>2, <2>1 DEF KeptInv, NoPromotion, OwnersInv, HasOwner, Owners, memberVars
  <2>2. CASE MembersNext
    BY <1>2, <2>2, OwnersStep DEF MembersNext, KeptInv
  <2> QED BY <1>2, <2>1, <2>2
<1>3. KeptInv => OwnerKept
  BY DEF KeptInv, OwnersInv, OwnerKept
<1>4. MembersInit => LocksInv /\ KeptInv
  BY <1>1, InitLocks
<1>5. LocksInv /\ KeptInv /\ [MembersNext]_memberVars => (LocksInv /\ KeptInv)'
  BY <1>2, NextLocks
<1> QED BY <1>3, <1>4, <1>5, PTL DEF MembersSafety

-----------------------------------------------------------------------------
(* The invitation service among the callers.                               *)

Decisive == {"accept", "decline", "revoke"}

LEMMA Verdicts ==
  /\ DOMAIN Verdict = Decisive
  /\ Verdict["accept"] = "accepted"
  /\ Verdict["decline"] = "declined"
  /\ Verdict["revoke"] = "revoked"
BY DEF Verdict, Decisive

\* The users who are members, or whose removal somebody has asked for.
Present ==
  {u \in Users :
     \/ member[u] # "none"
     \/ \E c \in Calls : /\ request[c].kind = "direct"
                         /\ call[c].user = u /\ call[c].role = "none"
                         /\ call[c].pc # "idle"}

\* Which steps a request of each kind takes.
Fits(kind, pc) ==
  /\ pc = "read" => kind \in Decisive \cup {"join"}
  /\ pc \in {"probe", "create"} => kind \in {"invite", "link"}
  /\ pc = "mark" => kind \in Decisive
  /\ pc \in {"adding", "look"} => kind \in {"accept", "join"}
  /\ pc = "count" => kind = "join"

\* What a request is about at each of its steps, and what its call may be.
RequestOK(c) ==
  /\ request[c].kind # "direct" =>
       /\ c \in Requests
       /\ call[c].op = "add" /\ call[c].role \in Roles
       /\ call[c].pc \in {"idle", "insert", "answered"}
       /\ call[c].answer \in {"nothing", "ok", "exists", "error"}
       /\ call[c].answer \in {"ok", "exists"} => call[c].user \in Present
  /\ request[c].kind \in Decisive \cup {"join"} => request[c].inv \in 1..Len(invitations)
  /\ request[c].kind = "accept" => invitations[request[c].inv].user = call[c].user
  /\ Fits(request[c].kind, request[c].pc)
  /\ request[c].pc = "look" => call[c].answer = "exists"

\* The request that accepted row i, on its way or cut short.
Accepted(c, i) ==
  /\ request[c].inv = i /\ request[c].kind = "accept"
  /\ Accepting(c) \/ Interrupted(c)

AcceptedInv ==
  \A i \in 1..Len(invitations) : invitations[i].status = "accepted" =>
    invitations[i].user \in Present \/ \E c \in Requests : Accepted(c, i)

InviteTypes ==
  /\ invitations \in Seq(Invitation)
  /\ request \in [Calls -> Request]
  /\ \A c \in Calls : /\ request[c].pc = "answered" <=> request[c].answer # "nothing"
                      /\ request[c].kind \in {"direct", "none"} <=> request[c].pc = "idle"

InviteInv ==
  /\ LocksInv /\ InviteTypes
  /\ \A c \in Calls : RequestOK(c)
  /\ VerdictStands
  /\ AcceptedInv

-----------------------------------------------------------------------------
(* Steps of a request that leave the membership rows alone.                *)

\* The request of c becomes one with these fields; the others are untouched.
Turns(c, kind, inv, pc, answer) ==
  /\ request' \in [Calls -> Request]
  /\ \A d \in Calls \ {c} : request'[d] = request[d]
  /\ request'[c].kind = kind /\ request'[c].inv = inv
  /\ request'[c].pc = pc /\ request'[c].answer = answer

LEMMA Turned ==
  ASSUME InviteTypes, NEW c \in Calls, NEW t \in Request,
         request' = [request EXCEPT ![c] = t]
  PROVE  Turns(c, t.kind, t.inv, t.pc, t.answer)
BY DEF InviteTypes, Turns

LEMMA WentOn ==
  ASSUME InviteTypes, NEW c \in Calls, NEW pc \in RequestPc, Goto(c, pc)
  PROVE  Turns(c, request[c].kind, request[c].inv, pc, request[c].answer)
<1> DEFINE t == [request[c] EXCEPT !.pc = pc]
<1>1. request[c] \in Request
  BY DEF InviteTypes
<1>2. t \in Request
  BY <1>1 DEF Request
<1>3. /\ t.kind = request[c].kind /\ t.inv = request[c].inv
      /\ t.pc = pc /\ t.answer = request[c].answer
  BY <1>1 DEF Request
<1>4. request' = [request EXCEPT ![c] = t]
  BY DEF Goto
<1> HIDE DEF t
<1>5. Turns(c, t.kind, t.inv, t.pc, t.answer)
  BY <1>2, <1>4, Turned
<1> QED BY <1>3, <1>5

LEMMA Replied ==
  ASSUME InviteTypes, NEW c \in Calls, NEW a \in InviteAnswers, Reply(c, a)
  PROVE  Turns(c, request[c].kind, request[c].inv, "answered", a)
<1> DEFINE t == [request[c] EXCEPT !.pc = "answered", !.answer = a]
<1>1. request[c] \in Request
  BY DEF InviteTypes
<1>2. t \in Request
  BY <1>1 DEF Request, RequestPc
<1>3. /\ t.kind = request[c].kind /\ t.inv = request[c].inv
      /\ t.pc = "answered" /\ t.answer = a
  BY <1>1 DEF Request
<1>4. request' = [request EXCEPT ![c] = t]
  BY DEF Reply
<1> HIDE DEF t
<1>5. Turns(c, t.kind, t.inv, t.pc, t.answer)
  BY <1>2, <1>4, Turned
<1> QED BY <1>3, <1>5

LEMMA Opened ==
  ASSUME InviteTypes, NEW c \in Calls, NEW kind \in Kinds, NEW i \in Nat, NEW pc \in RequestPc,
         Ask(c, kind, i, pc)
  PROVE  Turns(c, kind, i, pc, request[c].answer)
<1> DEFINE t == [request[c] EXCEPT !.kind = kind, !.inv = i, !.pc = pc]
<1>1. request[c] \in Request
  BY DEF InviteTypes
<1>2. t \in Request
  BY <1>1 DEF Request
<1>3. t.kind = kind /\ t.inv = i /\ t.pc = pc /\ t.answer = request[c].answer
  BY <1>1 DEF Request
<1>4. request' = [request EXCEPT ![c] = t]
  BY DEF Ask
<1> HIDE DEF t
<1>5. Turns(c, t.kind, t.inv, t.pc, t.answer)
  BY <1>2, <1>4, Turned
<1> QED BY <1>3, <1>5

\* No row is lost, changes its invitee or leaves a verdict; none is accepted.
RowsKept ==
  /\ invitations' \in Seq(Invitation)
  /\ Len(invitations) <= Len(invitations')
  /\ \A i \in 1..Len(invitations) :
       /\ invitations'[i].user = invitations[i].user
       /\ \/ invitations'[i].status = invitations[i].status
          \/ invitations[i].status = "pending" /\ invitations'[i].status # "accepted"
  /\ \A i \in 1..Len(invitations') : i > Len(invitations) => invitations'[i].status = "pending"

LEMMA SameRows == ASSUME InviteTypes, UNCHANGED invitations PROVE RowsKept
BY DEF InviteTypes, RowsKept

LEMMA SweptRows == ASSUME InviteTypes, SweepExpired PROVE RowsKept
<1> DEFINE f(i) == IF invitations[i].status = "pending" /\ invitations[i].overdue
                     THEN [invitations[i] EXCEPT !.status = "expired"] ELSE invitations[i]
<1>1. DOMAIN invitations = 1..Len(invitations)
  BY DEF InviteTypes
<1>2. ASSUME NEW i \in 1..Len(invitations)
      PROVE  /\ f(i) \in Invitation /\ f(i).user = invitations[i].user
             /\ \/ f(i).status = invitations[i].status
                \/ invitations[i].status = "pending" /\ f(i).status # "accepted"
  <2>1. invitations[i] \in Invitation
    BY <1>2 DEF InviteTypes
  <2> QED BY <2>1 DEF Invitation, Status
<1>3. invitations' = [i \in 1..Len(invitations) |-> f(i)]
  BY <1>1 DEF SweepExpired
<1> HIDE DEF f
<1>4. Len(invitations) \in Nat
  BY DEF InviteTypes
<1>5. invitations' \in Seq(Invitation) /\ Len(invitations') = Len(invitations)
  BY <1>2, <1>3, <1>4
<1> QED BY <1>2, <1>3, <1>4, <1>5 DEF RowsKept

LEMMA AppendedRow ==
  ASSUME InviteTypes, NEW u \in Users \cup {"none"}, NEW r \in Roles,
         invitations' = Append(invitations, NewRow(u, r))
  PROVE  RowsKept
<1> DEFINE w == NewRow(u, r)
<1>1. w \in Invitation /\ w.status = "pending"
  BY DEF NewRow, Invitation, Status
<1>2. invitations' = Append(invitations, w)
  OBVIOUS
<1> HIDE DEF w
<1>3. invitations \in Seq(Invitation)
  BY DEF InviteTypes
<1>4. /\ invitations' \in Seq(Invitation)
      /\ Len(invitations') = Len(invitations) + 1
      /\ \A i \in 1..Len(invitations) : invitations'[i] = invitations[i]
      /\ invitations'[Len(invitations) + 1] = w
  BY <1>1, <1>2, <1>3
<1> QED BY <1>1, <1>3, <1>4 DEF RowsKept

\* One row in the place of another with its invitee and its status.
LEMMA OtherRow ==
  ASSUME InviteTypes, NEW i \in 1..Len(invitations), NEW w \in Invitation,
         w.user = invitations[i].user, w.status = invitations[i].status,
         invitations' = [invitations EXCEPT ![i] = w]
  PROVE  RowsKept
<1>1. invitations \in Seq(Invitation)
  BY DEF InviteTypes
<1>2. /\ invitations' \in Seq(Invitation)
      /\ Len(invitations') = Len(invitations)
      /\ \A j \in 1..Len(invitations) : invitations'[j] = IF j = i THEN w ELSE invitations[j]
  BY <1>1
<1> QED BY <1>1, <1>2 DEF RowsKept

LEMMA AgedRow == ASSUME InviteTypes, Age PROVE RowsKept
<1>1. invitations \in Seq(Invitation) /\ DOMAIN invitations = 1..Len(invitations)
  BY DEF InviteTypes
<1>2. PICK i \in 1..Len(invitations) :
        invitations' = [invitations EXCEPT ![i] = [invitations[i] EXCEPT !.overdue = TRUE]]
  BY <1>1 DEF Age
<1> DEFINE w == [invitations[i] EXCEPT !.overdue = TRUE]
<1>3. invitations[i] \in Invitation
  BY <1>1
<1>4. w \in Invitation /\ w.user = invitations[i].user /\ w.status = invitations[i].status
  BY <1>3 DEF Invitation
<1>5. invitations' = [invitations EXCEPT ![i] = w]
  BY <1>2
<1> HIDE DEF w
<1> QED BY <1>4, <1>5, OtherRow

LEMMA CountedRow ==
  ASSUME InviteTypes, NEW c \in Calls, IncrementAcceptedCount(c),
         request[c].inv \in 1..Len(invitations)
  PROVE  RowsKept
<1> DEFINE i == request[c].inv
           w == [invitations[i] EXCEPT !.uses = @ + 1]
<1>1. invitations[i] \in Invitation
  BY DEF InviteTypes
<1>2. w \in Invitation /\ w.user = invitations[i].user /\ w.status = invitations[i].status
  BY <1>1 DEF Invitation
<1>3. UNCHANGED invitations \/ invitations' = [invitations EXCEPT ![i] = w]
  BY DEF IncrementAcceptedCount
<1> HIDE DEF w
<1> QED BY <1>2, <1>3, OtherRow, SameRows

-----------------------------------------------------------------------------
(* Steps of one request that decide nothing.                               *)

\* What may become of request d without a verdict.
Follows(d) ==
  /\ request'[d].pc = "answered" <=> request'[d].answer # "nothing"
  /\ request'[d].kind \in {"direct", "none"} <=> request'[d].pc = "idle"
  /\ request'[d].kind = "direct" <=> request[d].kind = "direct"
  /\ RequestOK(d)'
  /\ Decided(d)' => /\ Decided(d)
                    /\ request'[d].inv = request[d].inv /\ request'[d].kind = request[d].kind
  /\ request[d].kind = "accept" =>
       /\ request'[d].kind = "accept" /\ request'[d].inv = request[d].inv
       /\ Accepting(d) => Accepting(d)' \/ call[d].user \in Present \/ call[d].answer = "error"
       /\ request[d].answer = "crashed" => request'[d].answer = "crashed"

LEMMA StillPresent ==
  ASSUME UNCHANGED memberVars,
         \A d \in Calls : request'[d].kind = "direct" <=> request[d].kind = "direct"
  PROVE  Present' = Present
BY DEF memberVars, Present

LEMMA Quiet ==
  ASSUME InviteInv, UNCHANGED memberVars, RowsKept, request' \in [Calls -> Request],
         \A d \in Calls : Follows(d)
  PROVE  InviteInv'
<1>1. LocksInv'
  BY DEF InviteInv, LocksInv, MembersTypeOK, Holds, memberVars
<1>2. InviteTypes'
  BY DEF Follows, InviteTypes, RowsKept
<1>3. \A c \in Calls : RequestOK(c)'
  BY DEF Follows
<1>4. ASSUME NEW c \in Requests, Decided(c)'
      PROVE  /\ invitations'[request'[c].inv].status = Verdict[request'[c].kind]
             /\ \A d \in Requests \ {c} : Decided(d)' => request'[d].inv # request'[c].inv
  <2>1. c \in Calls /\ Requests \subseteq Calls
    BY InvitationsAssumption
  <2>2. \A d \in Requests : Decided(d)' =>
          /\ Decided(d) /\ request'[d].inv = request[d].inv /\ request'[d].kind = request[d].kind
    BY <2>1 DEF Follows
  <2>3. /\ invitations[request[c].inv].status = Verdict[request[c].kind]
        /\ \A d \in Requests \ {c} : Decided(d) => request[d].inv # request[c].inv
    BY <1>4, <2>2 DEF InviteInv, VerdictStands
  <2>4. request[c].kind \in Decisive /\ Verdict[request[c].kind] # "pending"
    BY <1>4, <2>2, Verdicts DEF Decided, Decisive
  <2>5. request[c].inv \in 1..Len(invitations)
    BY <2>1, <2>4 DEF InviteInv, RequestOK
  <2> QED BY <1>4, <2>2, <2>3, <2>4, <2>5 DEF RowsKept
<1>5. ASSUME NEW i \in 1..Len(invitations'), invitations'[i].status = "accepted"
      PROVE  invitations'[i].user \in Present' \/ \E c \in Requests : Accepted(c, i)'
  <2>1. /\ i \in 1..Len(invitations)
        /\ invitations[i].status = "accepted" /\ invitations'[i].user = invitations[i].user
    BY <1>5 DEF RowsKept, InviteInv, InviteTypes
  <2>2. Present' = Present
    BY StillPresent DEF Follows
  <2>3. CASE invitations[i].user \in Present
    BY <2>1, <2>2, <2>3
  <2>4. CASE \E c \in Requests : Accepted(c, i)
    <3>1. PICK c \in Requests : Accepted(c, i)
      BY <2>4
    <3>2. c \in Calls /\ Follows(c) /\ RequestOK(c)
      BY InvitationsAssumption DEF InviteInv
    <3>3. /\ request'[c].inv = i /\ request'[c].kind = "accept"
          /\ call[c].user = invitations'[i].user
      BY <2>1, <3>1, <3>2 DEF Accepted, Follows, RequestOK
    <3>4. UNCHANGED call
      BY DEF memberVars
    <3>5. \/ Accepting(c)' \/ Interrupted(c)'
          \/ call[c].user \in Present
      BY <3>1, <3>2, <3>4 DEF Accepted, Follows, Interrupted
    <3> QED BY <2>2, <3>3, <3>5 DEF Accepted
  <2> QED BY <2>1, <2>3, <2>4 DEF InviteInv, AcceptedInv
<1>6. VerdictStands'
  BY <1>4 DEF VerdictStands
<1>7. AcceptedInv'
  BY <1>5 DEF AcceptedInv
<1> QED BY <1>1, <1>2, <1>3, <1>6, <1>7 DEF InviteInv

LEMMA Still ==
  ASSUME InviteInv, UNCHANGED memberVars, RowsKept, NEW d \in Calls, request'[d] = request[d],
         \A e \in Calls : request'[e].kind = "direct" <=> request[e].kind = "direct"
  PROVE  Follows(d)
<1>1. RequestOK(d) /\ UNCHANGED call
  BY DEF InviteInv, memberVars
<1>2. Present' = Present
  BY StillPresent
<1>3. Len(invitations) <= Len(invitations') /\ Len(invitations) \in Nat /\ Len(invitations') \in Nat
  BY DEF RowsKept, InviteInv, InviteTypes
<1>4. RequestOK(d)'
  BY <1>1, <1>2, <1>3 DEF RequestOK, RowsKept, Decisive
<1>5. (Decided(d)' <=> Decided(d)) /\ (Accepting(d)' <=> Accepting(d))
  BY DEF Decided, Accepting
<1> QED BY <1>4, <1>5 DEF Follows, InviteInv, InviteTypes

LEMMA OneFollows ==
  ASSUME InviteInv, UNCHANGED memberVars, RowsKept, NEW c \in Calls,
         request' \in [Calls -> Request],
         \A d \in Calls \ {c} : request'[d] = request[d],
         Follows(c)
  PROVE  InviteInv'
<1>1. \A e \in Calls : request'[e].kind = "direct" <=> request[e].kind = "direct"
  BY DEF Follows
<1>2. \A d \in Calls \ {c} : Follows(d)
  BY <1>1, Still
<1> QED BY <1>2, Quiet

\* A request goes on, to a step or an answer that fits its kind.
LEMMA Progress ==
  ASSUME InviteInv, UNCHANGED memberVars, RowsKept, NEW c \in Calls,
         NEW pc \in RequestPc \ {"idle"}, NEW a \in InviteAnswers,
         request[c].pc \notin {"idle", "answered"},
         Turns(c, request[c].kind, request[c].inv, pc, a),
         pc = "answered" <=> a # "nothing",
         Fits(request[c].kind, pc),
         pc = "look" => call[c].answer = "exists",
         a = "ok" /\ request[c].kind \in Decisive => request[c].pc \in {"adding", "look"},
         pc \in {"adding", "look"} =>
           request[c].pc \in {"adding", "look"} \/ request[c].kind = "join",
         request[c].pc \in {"adding", "look"} /\ request[c].kind = "accept" =>
           \/ pc \in {"adding", "look"}
           \/ call[c].user \in Present \/ call[c].answer = "error"
  PROVE  InviteInv'
<1>1. /\ RequestOK(c) /\ UNCHANGED call
      /\ request[c].kind \notin {"direct", "none"} /\ request[c].answer = "nothing"
  BY DEF InviteInv, InviteTypes, memberVars
<1>2. /\ request' \in [Calls -> Request]
      /\ \A d \in Calls \ {c} : request'[d] = request[d]
      /\ request'[c].kind = request[c].kind /\ request'[c].inv = request[c].inv
      /\ request'[c].pc = pc /\ request'[c].answer = a
  BY DEF Turns
<1>3. \A d \in Calls : request'[d].kind = "direct" <=> request[d].kind = "direct"
  BY <1>2
<1>4. Present' = Present
  BY <1>3, StillPresent
<1>5. Len(invitations) <= Len(invitations') /\ Len(invitations) \in Nat /\ Len(invitations') \in Nat
  BY DEF RowsKept, InviteInv, InviteTypes
<1>6. RequestOK(c)'
  BY <1>1, <1>2, <1>4, <1>5 DEF RequestOK, RowsKept, Decisive
<1>7. Decided(c)' => Decided(c)
  <2>1. SUFFICES ASSUME Decided(c)' PROVE Decided(c)
    OBVIOUS
  <2>2. request[c].kind \in Decisive /\ (a = "ok" \/ Accepting(c)')
    BY <1>2, <2>1, Verdicts DEF Decided
  <2>3. request[c].pc \in {"adding", "look"}
    BY <1>2, <2>2 DEF Accepting
  <2>4. Accepting(c)
    BY <1>1, <2>2, <2>3 DEF Accepting, RequestOK, Fits, Decisive
  <2> QED BY <2>2, <2>4, Verdicts DEF Decided
<1>8. Follows(c)
  BY <1>1, <1>2, <1>3, <1>6, <1>7 DEF Follows, Accepting
<1> QED BY <1>2, <1>8, OneFollows

\* A request begins.
LEMMA Begins ==
  ASSUME InviteInv, UNCHANGED memberVars, RowsKept, NEW c \in Calls,
         NEW kind \in Kinds, NEW i \in Nat, NEW pc \in {"read", "probe", "create", "answered"},
         NEW a \in InviteAnswers \ {"ok"},
         request[c].kind = "none",
         Turns(c, kind, i, pc, a),
         pc = "answered" <=> a # "nothing",
         Fits(kind, pc),
         kind \in Decisive \cup {"join"} => i \in 1..Len(invitations),
         kind = "accept" => invitations[i].user = call[c].user
  PROVE  InviteInv'
<1>1. /\ RequestOK(c) /\ UNCHANGED call
  BY DEF InviteInv, memberVars
<1>2. /\ request' \in [Calls -> Request]
      /\ \A d \in Calls \ {c} : request'[d] = request[d]
      /\ request'[c].kind = kind /\ request'[c].inv = i
      /\ request'[c].pc = pc /\ request'[c].answer = a
  BY DEF Turns
<1>3. kind \notin {"direct", "none"}
  BY Verdicts DEF Kinds, Decisive
<1>4. \A d \in Calls : request'[d].kind = "direct" <=> request[d].kind = "direct"
  BY <1>2, <1>3
<1>5. Present' = Present
  BY <1>4, StillPresent
<1>6. Len(invitations) <= Len(invitations') /\ Len(invitations) \in Nat /\ Len(invitations') \in Nat
  BY DEF RowsKept, InviteInv, InviteTypes
<1>7. RequestOK(c)'
  BY <1>1, <1>2, <1>5, <1>6 DEF RequestOK, RowsKept, Decisive
<1>8. ~ Decided(c)'
  BY <1>2 DEF Decided, Accepting
<1>9. Follows(c)
  BY <1>1, <1>2, <1>3, <1>4, <1>7, <1>8 DEF Follows, Accepting
<1> QED BY <1>2, <1>9, OneFollows

-----------------------------------------------------------------------------
(* The actions of a request.                                               *)

LEMMA InviteStep == ASSUME InviteInv, NEW c \in Requests, Invite(c) PROVE InviteInv'
<1>1. c \in Calls /\ UNCHANGED <<memberVars, invitations>> /\ request[c].kind = "none"
  BY InvitationsAssumption DEF Invite
<1>2. RowsKept /\ request[c] \in Request /\ request[c].answer = "nothing" /\ InviteTypes
  BY <1>1, SameRows DEF InviteInv, InviteTypes, Request
<1> DEFINE free == member[call[c].user] = "none"
           pc == IF free THEN "probe" ELSE "answered"
           a == IF free THEN "nothing" ELSE "already_member"
           t == [request[c] EXCEPT !.kind = "invite", !.pc = pc, !.answer = a]
<1>3. t \in Request
  BY <1>2 DEF Request, Kinds, RequestPc, InviteAnswers
<1>4. t.kind = "invite" /\ t.inv = request[c].inv /\ t.pc = pc /\ t.answer = a
  BY <1>2 DEF Request
<1>5. request' = [request EXCEPT ![c] = t]
  BY <1>2 DEF Invite
<1>6. request[c].inv \in Nat
  BY <1>2 DEF Request
<1>7. /\ pc \in {"read", "probe", "create", "answered"} /\ a \in InviteAnswers \ {"ok"}
      /\ pc = "answered" <=> a # "nothing"
      /\ Fits("invite", pc) /\ "invite" \in Kinds
  BY DEF InviteAnswers, Fits, Kinds
<1> HIDE DEF t, pc, a
<1>8. Turns(c, "invite", request[c].inv, pc, a)
  BY <1>1, <1>2, <1>3, <1>4, <1>5, Turned
<1> QED BY <1>1, <1>2, <1>6, <1>7, <1>8, Begins DEF Decisive

LEMMA OpenStep ==
  ASSUME InviteInv, NEW c \in Requests, CreateLink(c) \/ Decide(c) \/ Join(c)
  PROVE  InviteInv'
<1>1. c \in Calls /\ InviteTypes /\ DOMAIN invitations = 1..Len(invitations)
  BY InvitationsAssumption DEF InviteInv, InviteTypes
<1>2. request[c].kind = "none" => request[c].answer = "nothing"
  BY <1>1 DEF InviteTypes
<1>3. Sweep => RowsKept
  BY <1>1, SweptRows, SameRows DEF Sweep
<1>4. CASE CreateLink(c)
  <2>1. /\ Ask(c, "link", 0, "create") /\ UNCHANGED invitations
    BY <1>4 DEF CreateLink
  <2>2. Turns(c, "link", 0, "create", request[c].answer)
    BY <1>1, <2>1, Opened DEF Kinds, RequestPc
  <2>3. UNCHANGED memberVars /\ request[c].kind = "none" /\ RowsKept
    BY <1>1, <2>1, SameRows DEF Ask
  <2> QED BY <1>1, <1>2, <2>2, <2>3, Begins DEF Kinds, Fits, Decisive, InviteAnswers
<1>5. CASE Decide(c)
  <2>1. PICK kind \in DOMAIN Verdict, i \in 1..Len(invitations) :
          /\ About(c, i) /\ (kind # "revoke" => ~IsLink(i))
          /\ Ask(c, kind, i, "read") /\ Sweep
    BY <1>1, <1>5 DEF Decide
  <2>2. kind \in Decisive /\ kind \in Kinds /\ i \in Nat
    BY Verdicts DEF Kinds
  <2>3. Turns(c, kind, i, "read", request[c].answer)
    BY <1>1, <2>1, <2>2, Opened DEF RequestPc
  <2>4. UNCHANGED memberVars /\ request[c].kind = "none" /\ RowsKept
    BY <1>3, <2>1 DEF Ask
  <2>5. kind = "accept" => invitations[i].user = call[c].user
    BY <2>1 DEF About, IsLink
  <2> QED BY <1>1, <1>2, <2>2, <2>3, <2>4, <2>5, Begins DEF Fits, InviteAnswers, Decisive
<1>6. CASE Join(c)
  <2>1. PICK i \in 1..Len(invitations) : Ask(c, "join", i, "read") /\ Sweep
    BY <1>1, <1>6 DEF Join
  <2>2. Turns(c, "join", i, "read", request[c].answer)
    BY <1>1, <2>1, Opened DEF RequestPc, Kinds
  <2>3. UNCHANGED memberVars /\ request[c].kind = "none" /\ RowsKept
    BY <1>3, <2>1 DEF Ask
  <2>4. /\ i \in Nat /\ "join" \in Kinds /\ Fits("join", "read")
        /\ "nothing" \in InviteAnswers \ {"ok"}
    BY DEF Fits, Kinds, InviteAnswers
  <2>5. Turns(c, "join", i, "read", "nothing")
    BY <1>2, <2>2, <2>3
  <2> QED BY <1>1, <2>3, <2>4, <2>5, Begins
<1> QED BY <1>4, <1>5, <1>6

\* A request underway has not answered, and fits its step.
LEMMA UnderwayFacts ==
  ASSUME InviteInv, NEW c \in Calls, request[c].pc \notin {"idle", "answered"}
  PROVE  /\ InviteTypes /\ RequestOK(c) /\ Fits(request[c].kind, request[c].pc)
         /\ request[c].answer = "nothing" /\ request[c].kind \notin {"direct", "none"}
BY DEF InviteInv, InviteTypes, RequestOK

\* An answer that is no success ends a request that has not gone as far as a
\* membership.
LEMMA Refused ==
  ASSUME InviteInv, UNCHANGED memberVars, RowsKept, NEW c \in Calls,
         NEW a \in InviteAnswers \ {"nothing", "ok"}, Reply(c, a),
         request[c].pc \notin {"idle", "answered"},
         request[c].pc \in {"adding", "look"} /\ request[c].kind = "accept" =>
           call[c].user \in Present \/ call[c].answer = "error"
  PROVE  InviteInv'
<1>1. InviteTypes
  BY UnderwayFacts
<1>2. Turns(c, request[c].kind, request[c].inv, "answered", a)
  BY <1>1, Replied
<1>3. "answered" \in RequestPc \ {"idle"} /\ Fits(request[c].kind, "answered")
  BY DEF RequestPc, Fits
<1> QED BY <1>2, <1>3, Progress

LEMMA CreateStep ==
  ASSUME InviteInv, NEW c \in Calls, Probe(c) \/ CreateRow(c)
  PROVE  InviteInv'
<1>1. UNCHANGED memberVars /\ request[c].pc \in {"probe", "create"}
  BY DEF Probe, CreateRow
<1>2. /\ InviteTypes /\ RequestOK(c) /\ request[c].answer = "nothing"
      /\ request[c].kind \in {"invite", "link"}
  BY <1>1, UnderwayFacts DEF Fits
<1>3. CASE Probe(c)
  <2>1. RowsKept
    BY <1>2, <1>3, SameRows DEF Probe
  <2>2. CASE Reply(c, "pending_exists")
    BY <1>1, <1>2, <2>1, <2>2, Refused DEF InviteAnswers
  <2>3. CASE Goto(c, "create")
    <3>1. Turns(c, request[c].kind, request[c].inv, "create", "nothing")
      BY <1>2, <2>3, WentOn DEF RequestPc
    <3>2. "create" \in RequestPc \ {"idle"} /\ Fits(request[c].kind, "create")
      BY <1>2 DEF RequestPc, Fits
    <3>3. "nothing" \in InviteAnswers
      BY DEF InviteAnswers
    <3> QED BY <1>1, <1>2, <2>1, <3>1, <3>2, <3>3, Progress
  <2> QED BY <1>3, <2>2, <2>3 DEF Probe
<1>4. CASE CreateRow(c)
  <2>1. CASE Reply(c, "error") /\ UNCHANGED invitations
    <3>1. RowsKept
      BY <1>2, <2>1, SameRows
    <3> QED BY <1>1, <1>2, <2>1, <3>1, Refused DEF InviteAnswers
  <2>2. CASE \E user \in {"none", call[c].user} :
               /\ invitations' = Append(invitations, NewRow(user, call[c].role))
               /\ Reply(c, "ok")
    <3>1. PICK user \in {"none", call[c].user} :
            /\ invitations' = Append(invitations, NewRow(user, call[c].role))
            /\ Reply(c, "ok")
      BY <2>2
    <3>2. user \in Users \cup {"none"} /\ call[c].role \in Roles
      BY <1>2 DEF InviteInv, LocksInv, MembersTypeOK, Call, RequestOK
    <3>3. RowsKept
      BY <1>2, <3>1, <3>2, AppendedRow
    <3>4. Turns(c, request[c].kind, request[c].inv, "answered", "ok")
      BY <1>2, <3>1, Replied DEF InviteAnswers
    <3>5. /\ "answered" \in RequestPc \ {"idle"} /\ Fits(request[c].kind, "answered")
          /\ "ok" \in InviteAnswers /\ request[c].kind \notin Decisive
      BY <1>2 DEF RequestPc, Fits, InviteAnswers, Decisive
    <3> QED BY <1>1, <1>2, <3>3, <3>4, <3>5, Progress
  <2> QED BY <1>4, <2>1, <2>2 DEF CreateRow
<1> QED BY <1>3, <1>4

LEMMA ReadStep == ASSUME InviteInv, NEW c \in Calls, Read(c) PROVE InviteInv'
<1>1. UNCHANGED <<memberVars, invitations>> /\ request[c].pc = "read"
  BY DEF Read
<1>2. /\ InviteTypes /\ RequestOK(c) /\ request[c].answer = "nothing"
      /\ request[c].kind \in Decisive \cup {"join"}
  BY <1>1, UnderwayFacts DEF Fits
<1>3. RowsKept
  BY <1>1, <1>2, SameRows
<1>4. \/ \E a \in {"token_invalid", "not_pending", "expired"} : Reply(c, a)
      \/ request[c].kind = "join" /\ Goto(c, "adding")
      \/ request[c].kind # "join" /\ Goto(c, "mark")
  BY DEF Read
<1>5. CASE \E a \in {"token_invalid", "not_pending", "expired"} : Reply(c, a)
  BY <1>1, <1>3, <1>5, Refused DEF InviteAnswers
<1>6. ASSUME NEW pc \in {"adding", "mark"}, Goto(c, pc), Fits(request[c].kind, pc),
             pc = "adding" => request[c].kind = "join"
      PROVE  InviteInv'
  <2>1. pc \in RequestPc \ {"idle"} /\ "nothing" \in InviteAnswers
    BY DEF RequestPc, InviteAnswers
  <2>2. Turns(c, request[c].kind, request[c].inv, pc, "nothing")
    BY <1>2, <1>6, <2>1, WentOn
  <2> QED BY <1>1, <1>2, <1>3, <1>6, <2>1, <2>2, Progress
<1>7. CASE request[c].kind = "join" /\ Goto(c, "adding")
  BY <1>6, <1>7 DEF Fits
<1>8. CASE request[c].kind # "join" /\ Goto(c, "mark")
  BY <1>2, <1>6, <1>8 DEF Fits
<1> QED BY <1>4, <1>5, <1>7, <1>8

LEMMA EndStep ==
  ASSUME InviteInv, NEW c \in Calls, Added(c) \/ Look(c) \/ IncrementAcceptedCount(c)
  PROVE  InviteInv'
<1>1. UNCHANGED memberVars /\ request[c].pc \in {"adding", "look", "count"}
  BY DEF Added, Look, IncrementAcceptedCount
<1>2. /\ InviteTypes /\ RequestOK(c) /\ request[c].answer = "nothing"
      /\ request[c].kind \in {"accept", "join"}
      /\ request[c].pc = "count" => request[c].kind = "join"
  BY <1>1, UnderwayFacts DEF Fits
<1>3. /\ call[c].answer \in {"ok", "exists"} => call[c].user \in Present
      /\ call[c].answer \in {"ok", "exists", "error"} => call[c].pc = "answered"
      /\ call[c].user \in Users
  BY <1>2 DEF RequestOK, InviteInv, LocksInv, MembersTypeOK, Call
<1>4. ASSUME RowsKept, Reply(c, "ok"), request[c].kind = "accept" => call[c].user \in Present
      PROVE  InviteInv'
  <2>1. Turns(c, request[c].kind, request[c].inv, "answered", "ok")
    BY <1>2, <1>4, Replied DEF InviteAnswers
  <2>2. /\ "answered" \in RequestPc \ {"idle"} /\ Fits(request[c].kind, "answered")
        /\ "ok" \in InviteAnswers
    BY DEF RequestPc, Fits, InviteAnswers
  <2>3. request[c].kind \in Decisive => request[c].pc \in {"adding", "look"}
    BY <1>1, <1>2 DEF Decisive
  <2> QED BY <1>1, <1>4, <2>1, <2>2, <2>3, Progress
<1>5. CASE IncrementAcceptedCount(c)
  <2>1. request[c].kind = "join" /\ request[c].inv \in 1..Len(invitations)
    BY <1>2, <1>5 DEF IncrementAcceptedCount, RequestOK
  <2>2. RowsKept /\ Reply(c, "ok")
    BY <1>2, <1>5, <2>1, CountedRow DEF IncrementAcceptedCount
  <2> QED BY <1>4, <2>1, <2>2
<1>6. CASE Look(c)
  <2>1. RowsKept
    BY <1>2, <1>6, SameRows DEF Look
  <2>2. call[c].user \in Present
    BY <1>2, <1>3, <1>6 DEF Look, RequestOK
  <2>3. CASE Reply(c, "ok")
    BY <1>4, <2>1, <2>2, <2>3
  <2>4. CASE Reply(c, "error")
    BY <1>1, <2>1, <2>2, <2>4, Refused DEF InviteAnswers
  <2> QED BY <1>6, <2>3, <2>4 DEF Look
<1>7. CASE Added(c)
  <2>1. RowsKept /\ request[c].pc = "adding" /\ call[c].pc = "answered"
    BY <1>2, <1>7, SameRows DEF Added
  <2>2. \/ call[c].answer = "ok" /\ request[c].kind = "join" /\ Goto(c, "count")
        \/ call[c].answer = "ok" /\ Reply(c, "ok")
        \/ call[c].answer = "exists" /\ Goto(c, "look")
        \/ call[c].answer \notin {"ok", "exists"} /\ Reply(c, "error")
    BY <1>7 DEF Added
  <2>3. CASE call[c].answer = "ok" /\ request[c].kind = "join" /\ Goto(c, "count")
    <3>1. "count" \in RequestPc \ {"idle"} /\ "nothing" \in InviteAnswers /\ Fits("join", "count")
      BY DEF RequestPc, InviteAnswers, Fits
    <3>2. Turns(c, request[c].kind, request[c].inv, "count", "nothing")
      BY <1>2, <2>3, <3>1, WentOn
    <3> QED BY <1>1, <1>2, <2>1, <2>3, <3>1, <3>2, Progress
  <2>4. CASE call[c].answer = "ok" /\ Reply(c, "ok")
    BY <1>3, <1>4, <2>1, <2>4
  <2>5. CASE call[c].answer = "exists" /\ Goto(c, "look")
    <3>1. /\ "look" \in RequestPc \ {"idle"} /\ "nothing" \in InviteAnswers
          /\ Fits(request[c].kind, "look")
      BY <1>2 DEF RequestPc, InviteAnswers, Fits
    <3>2. Turns(c, request[c].kind, request[c].inv, "look", "nothing")
      BY <1>2, <2>5, <3>1, WentOn
    <3> QED BY <1>1, <1>2, <2>1, <2>5, <3>1, <3>2, Progress
  <2>6. CASE call[c].answer \notin {"ok", "exists"} /\ Reply(c, "error")
    <3>1. call[c].answer = "error"
      BY <1>2, <2>1, <2>6 DEF RequestOK, InviteInv, LocksInv, MembersTypeOK
    <3> QED BY <1>1, <2>1, <2>6, <3>1, Refused DEF InviteAnswers
  <2> QED BY <2>2, <2>3, <2>4, <2>5, <2>6
<1> QED BY <1>5, <1>6, <1>7

\* The guarded UPDATE finds the row pending: no request has decided it before.
LEMMA MarkStep == ASSUME InviteInv, NEW c \in Calls, MarkStatusIfPending(c) PROVE InviteInv'
<1> DEFINE i == request[c].inv
           k == request[c].kind
<1>1. UNCHANGED memberVars /\ request[c].pc = "mark"
  BY DEF MarkStatusIfPending
<1>2. /\ InviteTypes /\ RequestOK(c) /\ request[c].answer = "nothing"
      /\ k \in Decisive /\ i \in 1..Len(invitations)
  BY <1>1, UnderwayFacts DEF Fits, RequestOK
<1>3. CASE UNCHANGED invitations /\ Reply(c, "not_pending")
  <2>1. RowsKept
    BY <1>2, <1>3, SameRows
  <2> QED BY <1>1, <1>3, <2>1, Refused DEF InviteAnswers
<1>4. CASE /\ invitations[i].status = "pending"
           /\ invitations' = [invitations EXCEPT ![i].status = Verdict[k]]
           /\ IF k = "accept" THEN Goto(c, "adding") ELSE Reply(c, "ok")
  <2> DEFINE w == [invitations[i] EXCEPT !.status = Verdict[k]]
  <2>1. invitations \in Seq(Invitation) /\ invitations[i] \in Invitation
    BY <1>2 DEF InviteTypes
  <2>2. Verdict[k] \in Status \ {"pending"} /\ (Verdict[k] = "accepted" => k = "accept")
    BY <1>2, Verdicts DEF Status, Decisive
  <2>3. w \in Invitation /\ w.user = invitations[i].user /\ w.status = Verdict[k]
    BY <2>1, <2>2 DEF Invitation
  <2>4. invitations' = [invitations EXCEPT ![i] = w]
    BY <1>4
  <2> HIDE DEF w
  <2>5. /\ invitations' \in Seq(Invitation)
        /\ Len(invitations') = Len(invitations)
        /\ \A j \in 1..Len(invitations) : invitations'[j] = IF j = i THEN w ELSE invitations[j]
    BY <1>2, <2>1, <2>3, <2>4
  <2>6. \A j \in 1..Len(invitations) : invitations'[j].user = invitations[j].user
    BY <2>3, <2>5
  <2>7. \/ k = "accept" /\ Turns(c, k, i, "adding", "nothing")
        \/ k # "accept" /\ Turns(c, k, i, "answered", "ok")
    <3>1. CASE k = "accept"
      BY <1>2, <1>4, <3>1, WentOn DEF RequestPc
    <3>2. CASE k # "accept"
      BY <1>2, <1>4, <3>2, Replied DEF InviteAnswers
    <3> QED BY <3>1, <3>2
  <2>8. /\ request' \in [Calls -> Request]
        /\ \A d \in Calls \ {c} : request'[d] = request[d]
        /\ request'[c].kind = k /\ request'[c].inv = i
        /\ request'[c].pc \in {"adding", "answered"}
        /\ request'[c].pc = "answered" <=> request'[c].answer # "nothing"
        /\ request'[c].pc = "adding" => k = "accept"
        /\ request'[c].pc = "answered" => k # "accept"
    BY <2>7 DEF Turns
  <2> HIDE DEF i, k
  <2>9. k \notin {"direct", "none"} /\ UNCHANGED call
    BY <1>1, <1>2 DEF Decisive, memberVars
  <2>10. \A d \in Calls : request'[d].kind = request[d].kind /\ request'[d].inv = request[d].inv
    BY <2>8 DEF i, k
  <2>11. Present' = Present
    BY <1>1, <2>10, StillPresent
  <2>12. LocksInv'
    BY <1>1 DEF InviteInv, LocksInv, MembersTypeOK, Holds, memberVars
  <2>13. InviteTypes'
    BY <1>2, <2>5, <2>8, <2>9 DEF InviteTypes
  <2>14. ASSUME NEW d \in Calls PROVE RequestOK(d)'
    <3>1. RequestOK(d)
      BY DEF InviteInv
    <3>2. Fits(request'[d].kind, request'[d].pc) /\ (request'[d].pc = "look" => request[d].pc = "look")
      <4>1. CASE d = c
        BY <2>8, <4>1 DEF Fits
      <4>2. CASE d # c
        BY <2>8, <3>1, <4>2 DEF RequestOK
      <4> QED BY <4>1, <4>2
    <3> QED BY <2>5, <2>6, <2>9, <2>10, <2>11, <3>1, <3>2 DEF RequestOK, Decisive
  <2>15. ASSUME NEW d \in Requests \ {c}, Decided(d)'
         PROVE  /\ Decided(d) /\ request[d].inv # i
                /\ invitations'[request'[d].inv].status = Verdict[request'[d].kind]
    <3>1. d \in Calls /\ request'[d] = request[d]
      BY <2>8, InvitationsAssumption
    <3>2. Decided(d) /\ request[d].kind \in Decisive
      BY <2>15, <3>1, Verdicts DEF Decided, Accepting
    <3>3. invitations[request[d].inv].status = Verdict[request[d].kind]
      BY <3>2 DEF InviteInv, VerdictStands
    <3>4. request[d].inv \in 1..Len(invitations) /\ Verdict[request[d].kind] # "pending"
      BY <3>1, <3>2, Verdicts DEF InviteInv, RequestOK, Decisive
    <3>5. request[d].inv # i
      BY <1>4, <3>3, <3>4 DEF i
    <3> QED BY <2>5, <3>1, <3>2, <3>3, <3>4, <3>5
  <2>16. VerdictStands'
    <3> SUFFICES ASSUME NEW d \in Requests, Decided(d)'
                 PROVE  /\ invitations'[request'[d].inv].status = Verdict[request'[d].kind]
                        /\ \A e \in Requests \ {d} : Decided(e)' => request'[e].inv # request'[d].inv
      BY DEF VerdictStands
    <3>1. CASE d = c
      <4>1. invitations'[i].status = Verdict[k]
        BY <1>2, <2>3, <2>5 DEF i
      <4> QED BY <2>8, <2>10, <2>15, <3>1, <4>1, InvitationsAssumption
    <3>2. CASE d # c
      <4>1. ASSUME NEW e \in Requests \ {d}, Decided(e)'
            PROVE  request'[e].inv # request'[d].inv
        <5>1. CASE e = c
          BY <2>8, <2>10, <2>15, <3>2, <5>1, InvitationsAssumption
        <5>2. CASE e # c
          BY <2>10, <2>15, <3>2, <4>1, <5>2, InvitationsAssumption DEF InviteInv, VerdictStands
        <5> QED BY <5>1, <5>2
      <4> QED BY <2>15, <3>2, <4>1
    <3> QED BY <3>1, <3>2
  <2>17. AcceptedInv'
    <3> SUFFICES ASSUME NEW j \in 1..Len(invitations), invitations'[j].status = "accepted"
                 PROVE  \/ invitations'[j].user \in Present'
                        \/ \E d \in Requests : Accepted(d, j)'
      BY <2>5 DEF AcceptedInv
    <3>1. CASE j = i
      <4>1. k = "accept" /\ request'[c].pc = "adding"
        BY <2>2, <2>3, <2>5, <2>8, <3>1
      <4>2. Accepted(c, j)' /\ c \in Requests
        BY <1>2, <2>8, <2>9, <3>1, <4>1 DEF Accepted, Accepting, RequestOK, k
      <4> QED BY <4>2
    <3>2. CASE j # i
      <4>1. invitations'[j] = invitations[j]
        BY <2>5, <3>2
      <4>2. CASE \E d \in Requests : Accepted(d, j)
        <5>1. PICK d \in Requests : Accepted(d, j)
          BY <4>2
        <5>2. d \in Calls /\ d # c
          BY <3>2, <5>1, InvitationsAssumption DEF Accepted, i
        <5>3. Accepted(d, j)'
          BY <2>8, <2>9, <5>1, <5>2 DEF Accepted, Accepting, Interrupted
        <5> QED BY <5>3
      <4> QED BY <2>6, <2>11, <4>1, <4>2 DEF InviteInv, AcceptedInv
    <3> QED BY <3>1, <3>2
  <2> QED BY <2>12, <2>13, <2>14, <2>16, <2>17 DEF InviteInv
<1> QED BY <1>3, <1>4 DEF MarkStatusIfPending

-----------------------------------------------------------------------------
(* Steps of the member service's calls.                                    *)

\* What an invitation's AddMember does in one step.
LEMMA AddStep ==
  ASSUME MembersTypeOK, NEW c \in Calls, CallNext(c),
         call[c].op = "add", call[c].role \in Roles,
         call[c].pc \in {"idle", "insert", "answered"}
  PROVE  /\ call'[c].op = "add"
         /\ call'[c].pc \in {"insert", "answered"}
         /\ call'[c].answer \in {"nothing", "ok", "exists"}
         /\ call'[c].answer \in {"ok", "exists"} => member'[call[c].user] # "none"
         /\ call[c].answer = "nothing"
<1>1. call[c] \in Call /\ call[c].user \in Users
  BY DEF MembersTypeOK, Call
<1>2. "none" \notin Roles
  BY MembersAssumption DEF Roles
<1>3. \A a \in Answers : Answer(c, a) =>
        call'[c].op = "add" /\ call'[c].pc = "answered" /\ call'[c].answer = a
  <2> SUFFICES ASSUME NEW a \in Answers, Answer(c, a)
               PROVE  call'[c].op = "add" /\ call'[c].pc = "answered" /\ call'[c].answer = a
    OBVIOUS
  <2>1. Becomes(c, [call[c] EXCEPT !.pc = "answered", !.answer = a])
    BY Answered
  <2> QED BY <1>1, <2>1 DEF Becomes, Call
<1>4. CASE ReadToAdd(c)
  <2>1. call[c].pc = "idle" /\ UNCHANGED member
    BY <1>4 DEF ReadToAdd
  <2>2. call[c].answer = "nothing"
    BY <2>1 DEF MembersTypeOK, Call, CallPc
  <2>3. CASE member[call[c].user] # "none"
    <3>1. Answer(c, "exists") /\ "exists" \in Answers
      BY <1>4, <2>3 DEF ReadToAdd, Answers
    <3> QED BY <1>3, <2>1, <2>2, <2>3, <3>1
  <2>4. CASE member[call[c].user] = "none"
    <3>1. CallGoto(c, "insert") /\ "insert" \in CallPc
      BY <1>4, <2>4 DEF ReadToAdd, CallPc
    <3>2. Becomes(c, [call[c] EXCEPT !.pc = "insert"])
      BY <3>1, Went
    <3>3. call'[c].op = "add" /\ call'[c].pc = "insert" /\ call'[c].answer = "nothing"
      BY <1>1, <2>2, <3>2 DEF Becomes, Call
    <3> QED BY <2>2, <3>3
  <2> QED BY <2>3, <2>4
<1>5. CASE Insert(c)
  <2>1. call[c].pc = "insert"
    BY <1>5 DEF Insert
  <2>2. call[c].answer = "nothing"
    BY <2>1 DEF MembersTypeOK
  <2>3. CASE member[call[c].user] = "none"
    <3>1. member' = [member EXCEPT ![call[c].user] = call[c].role] /\ Answer(c, "ok")
      BY <1>5, <2>3 DEF Insert
    <3>2. member'[call[c].user] # "none"
      BY <1>1, <1>2, <3>1 DEF MembersTypeOK
    <3> QED BY <1>3, <2>2, <3>1, <3>2 DEF Answers
  <2>4. CASE member[call[c].user] # "none"
    <3>1. UNCHANGED member /\ Answer(c, "exists")
      BY <1>5, <2>4 DEF Insert
    <3> QED BY <1>3, <2>2, <2>4, <3>1 DEF Answers
  <2> QED BY <2>3, <2>4
<1>6. ~ Abort(c)
  <2>1. Blocker(c) = "free"
    BY DEF Blocker
  <2>2. Deadlocked(c) => Blocker(c) \in Calls
    BY DEF Deadlocked
  <2> QED BY <2>1, <2>2, MembersAssumption DEF Abort
<1>7. ReadToAdd(c) \/ Insert(c)
  BY <1>6 DEF CallNext, ReadToChange, Update, Select, LockRow, CheckOthers, Write
<1> QED BY <1>4, <1>5, <1>7

\* A step of any call leaves everybody who was present so: who is removed had
\* the removal asked for.
LEMMA StaysPresent ==
  ASSUME InviteInv, NEW c \in Calls, CallNext(c), UNCHANGED inviteVars
  PROVE  Present \subseteq Present'
<1>1. LocksInv /\ RequestOK(c) /\ call[c] \in Call /\ member \in [Users -> Row]
  BY DEF InviteInv, LocksInv, MembersTypeOK
<1>2. /\ \A d \in Calls \ {c} : call'[d] = call[d]
      /\ call'[c].user = call[c].user /\ call'[c].role = call[c].role
      /\ call'[c].pc # "idle"
  BY <1>1, Asked
<1>3. UNCHANGED request
  BY DEF inviteVars
<1>4. SUFFICES ASSUME NEW u \in Present PROVE u \in Present'
  OBVIOUS
<1>5. u \in Users
  BY DEF Present
<1>6. CASE \E d \in Calls : /\ request[d].kind = "direct"
                            /\ call[d].user = u /\ call[d].role = "none"
                            /\ call[d].pc # "idle"
  <2>1. PICK d \in Calls : /\ request[d].kind = "direct"
                           /\ call[d].user = u /\ call[d].role = "none"
                           /\ call[d].pc # "idle"
    BY <1>6
  <2>2. /\ request'[d].kind = "direct"
        /\ call'[d].user = u /\ call'[d].role = "none" /\ call'[d].pc # "idle"
    BY <1>2, <1>3, <2>1
  <2> QED BY <1>5, <2>2 DEF Present
<1>7. CASE member[u] # "none"
  <2>1. UNCHANGED member \/ member' = [member EXCEPT ![call[c].user] = call[c].role]
    BY DEF CallNext, ReadToAdd, ReadToChange, Insert, Update, Select, LockRow, CheckOthers,
       Write, Abort
  <2>2. CASE member'[u] # "none"
    BY <1>5, <2>2 DEF Present
  <2>3. CASE member'[u] = "none"
    <3>1. call[c].user = u /\ call[c].role = "none"
      BY <1>1, <1>5, <1>7, <2>1, <2>3
    <3>2. request[c].kind = "direct"
      BY <1>1, <3>1, MembersAssumption DEF RequestOK, Roles
    <3> QED BY <1>2, <1>3, <1>5, <3>1, <3>2 DEF Present
  <2> QED BY <2>2, <2>3
<1> QED BY <1>6, <1>7 DEF Present

LEMMA CallStep ==
  ASSUME InviteInv, NEW c \in Calls, CallNext(c), UNCHANGED inviteVars
  PROVE  InviteInv'
<1>1. LocksInv /\ RequestOK(c) /\ MembersTypeOK
  BY DEF InviteInv, LocksInv
<1>2. UNCHANGED <<invitations, request>>
  BY DEF inviteVars
<1>3. LocksInv'
  BY <1>1, NextLocks DEF MembersNext
<1>4. /\ \A d \in Calls \ {c} : call'[d] = call[d]
      /\ call'[c].user = call[c].user /\ call'[c].role = call[c].role
  BY <1>1, Asked
<1>5. Present \subseteq Present'
  BY StaysPresent
<1>6. request[c].kind # "direct" =>
        /\ call'[c].op = "add"
        /\ call'[c].pc \in {"insert", "answered"}
        /\ call'[c].answer \in {"nothing", "ok", "exists"}
        /\ call'[c].answer \in {"ok", "exists"} => member'[call[c].user] # "none"
        /\ call[c].answer = "nothing"
  BY <1>1, AddStep DEF RequestOK
<1>7. \A d \in Calls : call[d].user \in Users
  BY <1>1 DEF MembersTypeOK, Call
<1>8. ASSUME NEW d \in Calls PROVE RequestOK(d)'
  <2>1. RequestOK(d)
    BY DEF InviteInv
  <2>2. CASE d # c
    BY <1>2, <1>4, <1>5, <2>1, <2>2 DEF RequestOK
  <2>3. CASE d = c
    <3>1. request[c].kind # "direct" /\ call'[c].answer \in {"ok", "exists"} =>
            call'[c].user \in Present'
      BY <1>4, <1>6, <1>7 DEF Present
    <3>2. request[c].pc # "look"
      <4>1. CASE request[c].kind = "direct"
        BY <4>1 DEF InviteInv, InviteTypes
      <4>2. CASE request[c].kind # "direct"
        BY <1>6, <2>1, <2>3, <4>2 DEF RequestOK
      <4> QED BY <4>1, <4>2
    <3> QED BY <1>2, <1>4, <1>6, <2>1, <2>3, <3>1, <3>2 DEF RequestOK
  <2> QED BY <2>2, <2>3
<1>9. ASSUME NEW i \in 1..Len(invitations), invitations[i].status = "accepted"
      PROVE  invitations[i].user \in Present' \/ \E d \in Requests : Accepted(d, i)'
  <2>1. CASE \E d \in Requests : Accepted(d, i)
    <3>1. PICK d \in Requests : Accepted(d, i)
      BY <2>1
    <3>2. d \in Calls /\ RequestOK(d)
      BY InvitationsAssumption DEF InviteInv
    <3>3. call[d].answer = "error" => call'[d].answer = "error"
      BY <1>4, <1>6, <3>1, <3>2 DEF Accepted
    <3>4. Accepted(d, i)'
      BY <1>2, <3>1, <3>3 DEF Accepted, Accepting, Interrupted
    <3> QED BY <3>4
  <2> QED BY <1>5, <1>9, <2>1 DEF InviteInv, AcceptedInv
<1>10. InviteTypes' /\ VerdictStands' /\ AcceptedInv'
  <2>1. InviteTypes'
    BY <1>2 DEF InviteInv, InviteTypes
  <2>2. VerdictStands'
    BY <1>2 DEF InviteInv, VerdictStands, Decided, Accepting
  <2>3. AcceptedInv'
    BY <1>2, <1>9 DEF AcceptedInv
  <2> QED BY <2>1, <2>2, <2>3
<1> QED BY <1>3, <1>8, <1>10 DEF InviteInv

\* A failed statement or a crash ends the call of AddMember.
LEMMA CutCall ==
  ASSUME InviteInv, NEW c \in Calls, request[c].kind # "direct",
         Answer(c, "error"), UNCHANGED <<member, lock>>
  PROVE  /\ LocksInv'
         /\ \A d \in Calls \ {c} : call'[d] = call[d]
         /\ call'[c].op = "add" /\ call'[c].role = call[c].role
         /\ call'[c].user = call[c].user
         /\ call'[c].pc = "answered" /\ call'[c].answer = "error"
<1>1. LocksInv /\ MembersTypeOK /\ RequestOK(c) /\ call[c] \in Call
  BY DEF InviteInv, LocksInv, MembersTypeOK
<1>2. "error" \in Answers \ {"nothing"}
  BY DEF Answers
<1>3. Becomes(c, [call[c] EXCEPT !.pc = "answered", !.answer = "error"])
  BY <1>1, <1>2, Answered
<1>4. \A u \in Users : lock[u] # c
  BY <1>1, NoLock DEF RequestOK, Transaction
<1>5. /\ member' \in [Users -> Row] /\ lock' \in [Users -> Calls \cup {"free"}]
      /\ \A u \in Users : lock'[u] = lock[u] /\ member'[u] = member[u]
  BY <1>1 DEF MembersTypeOK
<1>6. LocksInv'
  BY <1>1, <1>2, <1>4, <1>5, AnsweredInv
<1> QED BY <1>1, <1>3, <1>6 DEF Becomes, Call, RequestOK

LEMMA CutStep == ASSUME InviteInv, NEW c \in Calls, Fail(c) \/ Crash(c) PROVE InviteInv'
<1>1. request[c].pc \in {"adding", "look", "count"} /\ UNCHANGED <<member, lock, invitations>>
  BY DEF Fail, Crash, Committed, inviteVars
<1>2. /\ InviteTypes /\ RequestOK(c) /\ request[c].kind \in {"accept", "join"}
  BY <1>1, UnderwayFacts DEF Fits
<1>3. \/ UNCHANGED call
      \/ Answer(c, "error")
  BY DEF Fail, Crash
<1>4. /\ LocksInv'
      /\ \A d \in Calls \ {c} : call'[d] = call[d]
      /\ call'[c].op = "add" /\ call'[c].role = call[c].role
      /\ call'[c].user = call[c].user
      /\ \/ UNCHANGED call
         \/ call'[c].pc = "answered" /\ call'[c].answer = "error"
  <2>1. CASE UNCHANGED call
    <3>1. LocksInv'
      BY <1>1, <2>1, NextLocks DEF InviteInv, memberVars
    <3> QED BY <1>2, <2>1, <3>1 DEF RequestOK
  <2>2. CASE Answer(c, "error")
    BY <1>1, <1>2, <2>2, CutCall
  <2> QED BY <1>3, <2>1, <2>2
<1>5. \/ /\ UNCHANGED request /\ request[c].pc = "adding"
      \/ /\ Turns(c, request[c].kind, request[c].inv, "answered", "crashed")
         /\ UNCHANGED call \/ call[c].pc # "answered"
  <2>1. CASE Fail(c)
    BY <2>1 DEF Fail, inviteVars
  <2>2. CASE Crash(c)
    BY <1>2, <2>2, Replied DEF Crash, InviteAnswers
  <2> QED BY <2>1, <2>2
<1>6. /\ request' \in [Calls -> Request]
      /\ \A d \in Calls \ {c} : request'[d] = request[d]
      /\ request'[c].kind = request[c].kind /\ request'[c].inv = request[c].inv
      /\ \/ UNCHANGED request /\ request[c].pc = "adding"
         \/ request'[c].pc = "answered" /\ request'[c].answer = "crashed"
  BY <1>2, <1>5 DEF Turns, InviteTypes
<1>7. Present' = Present
  <2>1. \A d \in Calls : request[d].kind = "direct" => d # c
    BY <1>2
  <2>2. \A d \in Calls : request'[d].kind = request[d].kind
    BY <1>6
  <2> QED BY <1>1, <1>4, <2>1, <2>2 DEF Present
<1>8. InviteTypes'
  BY <1>1, <1>2, <1>6 DEF InviteTypes
<1>9. ASSUME NEW d \in Calls PROVE RequestOK(d)'
  <2>1. RequestOK(d)
    BY DEF InviteInv
  <2>2. CASE d # c
    BY <1>1, <1>4, <1>6, <1>7, <2>1, <2>2 DEF RequestOK
  <2>3. CASE d = c
    <3>1. Fits(request'[c].kind, request'[c].pc) /\ request'[c].pc # "look"
      BY <1>2, <1>6 DEF Fits, RequestOK
    <3>2. /\ c \in Requests
          /\ call'[c].op = "add" /\ call'[c].role \in Roles
          /\ call'[c].pc \in {"idle", "insert", "answered"}
          /\ call'[c].answer \in {"nothing", "ok", "exists", "error"}
          /\ call'[c].answer \in {"ok", "exists"} => call'[c].user \in Present'
      BY <1>2, <1>4, <1>7 DEF RequestOK
    <3>3. request[c].inv \in 1..Len(invitations)
      BY <1>2 DEF RequestOK, Decisive
    <3>4. request[c].kind = "accept" => invitations[request[c].inv].user = call'[c].user
      BY <1>2, <1>4 DEF RequestOK
    <3> QED BY <1>1, <1>6, <2>3, <3>1, <3>2, <3>3, <3>4 DEF RequestOK
  <2> QED BY <2>2, <2>3
<1>10. \A d \in Calls : Decided(d)' => /\ Decided(d)
                                       /\ request'[d].inv = request[d].inv
                                       /\ request'[d].kind = request[d].kind
  BY <1>6 DEF Decided, Accepting
<1>11. VerdictStands'
  BY <1>1, <1>10, InvitationsAssumption DEF InviteInv, VerdictStands
<1>12. ASSUME NEW i \in 1..Len(invitations), invitations[i].status = "accepted"
       PROVE  invitations[i].user \in Present' \/ \E d \in Requests : Accepted(d, i)'
  <2>1. CASE \E d \in Requests : Accepted(d, i)
    <3>1. PICK d \in Requests : Accepted(d, i)
      BY <2>1
    <3>2. d \in Calls
      BY InvitationsAssumption
    <3>3. Accepted(d, i)'
      <4>1. CASE d # c
        BY <1>4, <1>6, <3>1, <3>2, <4>1 DEF Accepted, Accepting, Interrupted
      <4>2. CASE d = c
        <5>1. CASE UNCHANGED request /\ request[c].pc = "adding"
          BY <3>1, <4>2, <5>1 DEF Accepted, Accepting
        <5>2. CASE request'[c].pc = "answered" /\ request'[c].answer = "crashed"
          BY <1>6, <3>1, <4>2, <5>2 DEF Accepted, Interrupted
        <5> QED BY <1>6, <5>1, <5>2
      <4> QED BY <4>1, <4>2
    <3> QED BY <3>3
  <2> QED BY <1>7, <1>12, <2>1 DEF InviteInv, AcceptedInv
<1>13. AcceptedInv'
  BY <1>1, <1>12 DEF AcceptedInv
<1> QED BY <1>4, <1>8, <1>9, <1>11, <1>13 DEF InviteInv

-----------------------------------------------------------------------------
LEMMA InviteInitInv == ASSUME InviteInit PROVE InviteInv
<1>1. LocksInv
  BY InitLocks DEF InviteInit
<1>2. PICK kind \in {"direct", "none"} :
       /\ request = [c \in Calls |-> [kind |-> IF c \in Requests THEN kind ELSE "direct",
                                      inv |-> 0, pc |-> "idle", answer |-> "nothing"]]
       /\ kind = "none" =>
            \A c \in Requests : call[c].op = "add"
  BY DEF InviteInit
<1>3. /\ request \in [Calls -> Request]
      /\ \A c \in Calls : /\ request[c].kind \in {"direct", "none"}
                          /\ request[c].kind = "none" => c \in Requests /\ kind = "none"
                          /\ request[c].pc = "idle" /\ request[c].answer = "nothing"
  BY <1>2 DEF Request, RequestPc, InviteAnswers
<1>4. /\ invitations \in Seq(Invitation)
      /\ \A i \in 1..Len(invitations) : invitations[i].status = "pending"
  <2>1. CASE invitations = << >>
    BY <2>1
  <2>2. CASE \E u \in Invitees \cup {"none"}, q \in InvitedRoles : invitations = <<NewRow(u, q)>>
    <3>1. PICK u \in Invitees \cup {"none"}, q \in InvitedRoles : invitations = <<NewRow(u, q)>>
      BY <2>2
    <3> DEFINE w == NewRow(u, q)
    <3>2. w \in Invitation /\ w.status = "pending"
      BY InvitationsAssumption DEF NewRow, Invitation, Status
    <3> HIDE DEF w
    <3> QED BY <3>1, <3>2 DEF w
  <2> QED BY <2>1, <2>2 DEF InviteInit
<1>5. \A c \in Calls : /\ call[c].pc = "idle" /\ call[c].answer = "nothing"
                       /\ call[c].op = "add" => call[c].role \in Roles
  BY DEF InviteInit, MembersInit, Requested, Row
<1>6. InviteTypes
  BY <1>3, <1>4 DEF InviteTypes
<1>7. \A c \in Calls : RequestOK(c)
  BY <1>2, <1>3, <1>5 DEF RequestOK, Fits, Decisive
<1>8. VerdictStands
  BY <1>3, InvitationsAssumption DEF VerdictStands, Decided, Accepting
<1>9. AcceptedInv
  BY <1>4 DEF AcceptedInv
<1> QED BY <1>1, <1>6, <1>7, <1>8, <1>9 DEF InviteInv

LEMMA InviteNextInv == ASSUME InviteInv, [InviteNext]_vars PROVE InviteInv'
<1>1. InviteTypes
  BY DEF InviteInv
<1>2. ASSUME UNCHANGED memberVars, UNCHANGED request, RowsKept PROVE InviteInv'
  <2>1. \A d \in Calls : Follows(d)
    BY <1>2, Still
  <2> QED BY <1>1, <1>2, <2>1, Quiet DEF InviteTypes
<1>3. CASE UNCHANGED vars
  BY <1>1, <1>2, <1>3, SameRows DEF vars, inviteVars
<1>4. CASE Age
  <2>1. UNCHANGED memberVars /\ UNCHANGED request
    BY <1>4 DEF Age
  <2> QED BY <1>1, <1>2, <1>4, <2>1, AgedRow
<1>5. CASE List
  BY <1>1, <1>2, <1>5, SweptRows DEF List
<1>6. ASSUME NEW c \in Requests, Invite(c) \/ CreateLink(c) \/ Decide(c) \/ Join(c)
      PROVE  InviteInv'
  BY <1>6, InviteStep, OpenStep
<1>7. ASSUME NEW c \in Calls, Direct(c) \/ Step(c) \/ Fail(c) \/ Crash(c)
      PROVE  InviteInv'
  BY <1>7, CallStep, CreateStep, ReadStep, MarkStep, EndStep, CutStep
     DEF Direct, Step, AddMember
<1> QED BY <1>3, <1>4, <1>5, <1>6, <1>7 DEF InviteNext

\* With invitations among the calls, everything stays well typed.
THEOREM InvitationTypeCorrect == InviteSafety => []InvitationTypeOK
<1>1. InviteInv => InvitationTypeOK
  BY DEF InviteInv, LocksInv, InviteTypes, InvitationTypeOK
<1> QED BY <1>1, InviteInitInv, InviteNextInv, PTL DEF InviteSafety

\* The verdict on an invitation is one and stays, for any number of requests,
\* rows, sweeps and failures.
THEOREM VerdictCorrect == InviteSafety => []VerdictStands
<1>1. InviteInv => VerdictStands
  BY DEF InviteInv
<1> QED BY <1>1, InviteInitInv, InviteNextInv, PTL DEF InviteSafety

\* An accepted invitation is a membership, one about to be, one cut short or one
\* whose removal was asked for.
THEOREM AcceptedCorrect == InviteSafety => []AcceptedIsMember
<1>1. InviteInv => AcceptedIsMember
  <2> SUFFICES ASSUME InviteInv, NEW i \in 1..Len(invitations),
                      invitations[i].status = "accepted"
               PROVE  LET u == invitations[i].user
                      IN \/ member[u] # "none"
                         \/ \E c \in Requests : /\ request[c].inv = i
                                                /\ \/ Accepting(c)
                                                   \/ request[c].kind = "accept" /\ Interrupted(c)
                         \/ \E c \in Calls : /\ request[c].kind = "direct"
                                             /\ call[c].user = u /\ call[c].role = "none"
                                             /\ call[c].pc # "idle"
    BY DEF AcceptedIsMember, InviteInv, InviteTypes
  <2>1. invitations[i].user \in Present \/ \E c \in Requests : Accepted(c, i)
    BY DEF InviteInv, AcceptedInv
  <2> QED BY <2>1 DEF Present, Accepted
<1> QED BY <1>1, InviteInitInv, InviteNextInv, PTL DEF InviteSafety

\* The tenant keeps an Owner with the invitation service among the callers, its
\* failures and crashes included.
THEOREM OwnerCorrectWithInvitations == InviteSafety => [](OwnerKept /\ WriterHoldsOwner)
<1>1. InviteInit => KeptInv
  BY DEF InviteInit, MembersInit, KeptInv, OwnersInv
<1>2. ASSUME InviteInv, KeptInv, [InviteNext]_vars PROVE KeptInv'
  <2>1. CASE UNCHANGED memberVars
    BY <1>2, <2>1 DEF KeptInv, NoPromotion, OwnersInv, HasOwner, Owners, memberVars
  <2>2. ASSUME NEW c \in Calls, CallNext(c)
        PROVE  KeptInv'
    BY <1>2, <2>2, OwnersStep DEF InviteInv, KeptInv
  <2>3. ASSUME NEW c \in Calls, Fail(c) \/ Crash(c), ~ UNCHANGED call
        PROVE  KeptInv'
    <3>1. /\ request[c].kind # "direct" /\ Answer(c, "error") /\ UNCHANGED <<member, lock>>
      BY <1>2, <2>3, UnderwayFacts DEF Fail, Crash, Committed
    <3>2. /\ \A d \in Calls \ {c} : call'[d] = call[d]
          /\ call'[c].role = call[c].role /\ call'[c].user = call[c].user
          /\ call'[c].pc = "answered"
      BY <1>2, <3>1, CutCall
    <3>3. NoPromotion' => NoPromotion
      BY <3>2 DEF NoPromotion
    <3> QED BY <1>2, <3>1, <3>2, <3>3 DEF KeptInv, OwnersInv, HasOwner, Owners
  <2>4. ASSUME NEW c \in Calls, Fail(c) \/ Crash(c), UNCHANGED call
        PROVE  UNCHANGED memberVars
    BY <2>4 DEF Fail, Crash, memberVars
  <2>5. ASSUME NEW c \in Calls, Step(c) \/ Direct(c)
        PROVE  UNCHANGED memberVars \/ CallNext(c)
    BY <2>5 DEF Step, Direct, AddMember, Probe, CreateRow, Read, MarkStatusIfPending, Added,
                Look, IncrementAcceptedCount
  <2>6. ASSUME NEW c \in Requests, Invite(c) \/ CreateLink(c) \/ Decide(c) \/ Join(c)
        PROVE  UNCHANGED memberVars
    BY <2>6 DEF Invite, CreateLink, Decide, Join, Ask
  <2>7. Age \/ List \/ UNCHANGED vars => UNCHANGED memberVars
    BY DEF Age, List, vars
  <2> QED BY <1>2, <2>1, <2>2, <2>3, <2>4, <2>5, <2>6, <2>7 DEF InviteNext
<1>3. KeptInv => OwnerKept
  BY DEF KeptInv, OwnersInv, OwnerKept
<1>4. InviteInv => WriterHoldsOwner
  BY LocksHoldOwner DEF InviteInv
<1>5. InviteInit => InviteInv /\ KeptInv
  BY <1>1, InviteInitInv
<1>6. InviteInv /\ KeptInv /\ [InviteNext]_vars => (InviteInv /\ KeptInv)'
  BY <1>2, InviteNextInv
<1> QED BY <1>3, <1>4, <1>5, <1>6, PTL DEF InviteSafety

=============================================================================
