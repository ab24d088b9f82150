--------------------------- MODULE QAQueueLimitProofs ---------------------------
(***************************************************************************)
(* The counters of the question queue for any number of replicas, workers, *)
(* users and requests: as long as Redis answers every command, the user's  *)
(* counter follows the requests through every exit, the limits hold, and   *)
(* the gate holds until a cancelled question runs.                         *)
(***************************************************************************)
EXTENDS QAQueueProofs

Alive == Outstanding \cup {"over"}
Number(u, stages) == Cardinality(RequestsOf(u, stages))

\* Users and homes stay; request r goes to pc and the others stay where they are.
ReqMoves(r, pc) ==
  /\ \A s \in Requests : req'[s].user = req[s].user /\ req'[s].home = req[s].home
  /\ req'[r].pc = pc
  /\ \A s \in Requests \ {r} : req'[s].pc = req[s].pc

ReqStays ==
  \A s \in Requests : /\ req'[s].user = req[s].user /\ req'[s].home = req[s].home
                      /\ req'[s].pc = req[s].pc

LEMMA GroupFinite ==
  ASSUME NEW u, NEW A
  PROVE  /\ IsFiniteSet(RequestsOf(u, A)) /\ Number(u, A) \in Nat
         /\ IsFiniteSet(RequestsOf(u, A)') /\ Number(u, A)' \in Nat
<1>1. RequestsOf(u, A) \in SUBSET Requests /\ RequestsOf(u, A)' \in SUBSET Requests
  BY DEF RequestsOf
<1>2. IsFiniteSet(RequestsOf(u, A)) /\ IsFiniteSet(RequestsOf(u, A)')
  BY <1>1, FS_Subset, QueueAssumption
<1> QED BY <1>2, FS_CardinalityType DEF Number

\* A request of u enters the stages A.
LEMMA NumberJoins ==
  ASSUME NEW r \in Requests, NEW pc, ReqMoves(r, pc), NEW u, req[r].user = u,
         NEW A, req[r].pc \notin A, pc \in A
  PROVE  Number(u, A)' = Number(u, A) + 1
<1>1. RequestsOf(u, A)' = RequestsOf(u, A) \cup {r} /\ r \notin RequestsOf(u, A)
  BY DEF RequestsOf, ReqMoves
<1> QED BY <1>1, GroupFinite, FS_AddElement DEF Number

\* A request of u leaves the stages A.
LEMMA NumberLeaves ==
  ASSUME NEW r \in Requests, NEW pc, ReqMoves(r, pc), NEW u, req[r].user = u,
         NEW A, req[r].pc \in A, pc \notin A
  PROVE  Number(u, A)' = Number(u, A) - 1
<1>1. RequestsOf(u, A)' = RequestsOf(u, A) \ {r} /\ r \in RequestsOf(u, A)
  BY DEF RequestsOf, ReqMoves
<1> QED BY <1>1, GroupFinite, FS_RemoveElement DEF Number

\* A request of another user, or one that does not cross the border of A.
LEMMA NumberKeeps ==
  ASSUME NEW r \in Requests, NEW pc, ReqMoves(r, pc), NEW u, NEW A,
         req[r].user # u \/ (req[r].pc \in A <=> pc \in A)
  PROVE  Number(u, A)' = Number(u, A)
<1>1. RequestsOf(u, A)' = RequestsOf(u, A)
  BY DEF RequestsOf, ReqMoves
<1> QED BY <1>1 DEF Number

LEMMA NumberStays ==
  ASSUME ReqStays, NEW u, NEW A
  PROVE  Number(u, A)' = Number(u, A)
<1>1. RequestsOf(u, A)' = RequestsOf(u, A)
  BY DEF RequestsOf, ReqStays
<1> QED BY <1>1 DEF Number

-----------------------------------------------------------------------------
(* The counters of users.                                                  *)

\* What holds of the counter of one user: it lies between the requests on
\* their way and those plus the ones that died, and admitted requests keep to
\* the limit.
UserOK(u) ==
  /\ Number(u, Alive) <= userCount[u]
  /\ userCount[u] <= Number(u, Alive) + Number(u, {"lost"})
  /\ Number(u, Outstanding) <= MaxPerUser

CountInv == hasRedis => \A u \in Users : UserOK(u)

LEMMA CountImplies ==
  ASSUME OwnerInv, CountInv
  PROVE  UserCountExact /\ UserWithinLimit
<1> SUFFICES ASSUME hasRedis, NEW u \in Users
             PROVE  /\ userCount[u] \in Number(u, Alive) .. Number(u, Alive) + Number(u, {"lost"})
                    /\ Number(u, Outstanding) <= MaxPerUser
  BY DEF UserCountExact, UserWithinLimit, Number, Alive
<1>1. userCount[u] \in Int
  BY DEF OwnerInv, QueueTypeOK
<1>2. Number(u, Alive) \in Nat /\ Number(u, {"lost"}) \in Nat
  BY GroupFinite
<1>3. UserOK(u)
  BY DEF CountInv
<1> QED BY <1>1, <1>2, <1>3 DEF UserOK

\* INCR: one request more.
LEMMA CountUp ==
  ASSUME OwnerInv, CountInv, NEW r \in Requests, req[r].pc = "new",
         NEW pc \in {"counted", "over"}, ReqMoves(r, pc),
         pc = "counted" => Counted(req[r].user),
         userCount' = [userCount EXCEPT ![req[r].user] = @ + 1], UNCHANGED hasRedis
  PROVE  CountInv'
<1> SUFFICES ASSUME hasRedis, NEW u \in Users
             PROVE  UserOK(u)'
  BY DEF CountInv
<1>1. userCount \in [Users -> Int] /\ MaxPerUser \in Nat
  BY QueueAssumption DEF OwnerInv, QueueTypeOK
<1>2. UserOK(u)
  BY DEF CountInv
<1>3. Number(u, Alive) \in Nat /\ Number(u, {"lost"}) \in Nat /\ Number(u, Outstanding) \in Nat
  BY GroupFinite
<1>4. Number(u, {"lost"})' = Number(u, {"lost"})
  BY NumberKeeps
<1>5. CASE req[r].user # u
  <2>1. Number(u, Alive)' = Number(u, Alive) /\ Number(u, Outstanding)' = Number(u, Outstanding)
    BY <1>5, NumberKeeps
  <2>2. userCount'[u] = userCount[u]
    BY <1>1, <1>5
  <2> QED BY <1>2, <1>4, <2>1, <2>2 DEF UserOK
<1>6. CASE req[r].user = u
  <2>1. Number(u, Alive)' = Number(u, Alive) + 1
    BY <1>6, NumberJoins DEF Alive, Outstanding
  <2>2. userCount'[u] = userCount[u] + 1 /\ userCount[u] \in Int
    BY <1>1, <1>6
  <2>3. Number(u, Outstanding)' <= MaxPerUser
    <3>1. CASE pc = "over"
      <4>1. Number(u, Outstanding)' = Number(u, Outstanding)
        BY <3>1, NumberKeeps DEF Outstanding
      <4> QED BY <1>2, <4>1 DEF UserOK
    <3>2. CASE pc = "counted"
      <4>1. Number(u, Outstanding)' = Number(u, Outstanding) + 1
        BY <1>6, <3>2, NumberJoins DEF Outstanding
      <4>2. Number(u, Outstanding) <= Number(u, Alive)
        <5>1. RequestsOf(u, Outstanding) \in SUBSET RequestsOf(u, Alive)
          BY DEF RequestsOf, Alive
        <5> QED BY <5>1, GroupFinite, FS_Subset DEF Number
      <4>3. userCount[u] < MaxPerUser
        BY <1>6, <3>2 DEF Counted
      <4> QED BY <1>1, <1>2, <1>3, <2>2, <4>1, <4>2, <4>3 DEF UserOK
    <3> QED BY <3>1, <3>2
  <2> QED BY <1>2, <1>3, <1>4, <2>1, <2>2, <2>3 DEF UserOK
<1> QED BY <1>5, <1>6

\* DECR: a request leaves in one of the four ways that give its slot back.
LEMMA CountDown ==
  ASSUME OwnerInv, CountInv, NEW r \in Requests, req[r].pc \in Alive,
         NEW pc \in {"refused", "removed", "served", "dropped"}, ReqMoves(r, pc),
         hasRedis => userCount' = [userCount EXCEPT ![req[r].user] = @ - 1], UNCHANGED hasRedis
  PROVE  CountInv'
<1> SUFFICES ASSUME hasRedis, NEW u \in Users
             PROVE  UserOK(u)'
  BY DEF CountInv
<1>1. userCount \in [Users -> Int] /\ MaxPerUser \in Nat
  BY QueueAssumption DEF OwnerInv, QueueTypeOK
<1>2. UserOK(u)
  BY DEF CountInv
<1>3. Number(u, Alive) \in Nat /\ Number(u, {"lost"}) \in Nat /\ Number(u, Outstanding) \in Nat
  BY GroupFinite
<1>4. Number(u, {"lost"})' = Number(u, {"lost"})
  BY NumberKeeps DEF Alive, Outstanding
<1>5. CASE req[r].user # u
  <2>1. Number(u, Alive)' = Number(u, Alive) /\ Number(u, Outstanding)' = Number(u, Outstanding)
    BY <1>5, NumberKeeps
  <2>2. userCount'[u] = userCount[u]
    BY <1>1, <1>5
  <2> QED BY <1>2, <1>4, <2>1, <2>2 DEF UserOK
<1>6. CASE req[r].user = u
  <2>1. Number(u, Alive)' = Number(u, Alive) - 1
    BY <1>6, NumberLeaves DEF Alive, Outstanding
  <2>2. userCount'[u] = userCount[u] - 1 /\ userCount[u] \in Int
    BY <1>1, <1>6
  <2>3. Number(u, Outstanding)' <= MaxPerUser
    <3>1. CASE req[r].pc = "over"
      <4>1. Number(u, Outstanding)' = Number(u, Outstanding)
        BY <3>1, NumberKeeps DEF Outstanding
      <4> QED BY <1>2, <4>1 DEF UserOK
    <3>2. CASE req[r].pc # "over"
      <4>1. Number(u, Outstanding)' = Number(u, Outstanding) - 1
        BY <1>6, <3>2, NumberLeaves DEF Alive, Outstanding
      <4> QED BY <1>1, <1>2, <1>3, <4>1 DEF UserOK
    <3> QED BY <3>1, <3>2
  <2> QED BY <1>2, <1>3, <1>4, <2>1, <2>2, <2>3 DEF UserOK
<1> QED BY <1>5, <1>6

\* A request is queued or taken.
LEMMA CountAlong ==
  ASSUME CountInv, NEW r \in Requests, NEW pc, ReqMoves(r, pc),
         req[r].pc \in Outstanding, pc \in Outstanding, UNCHANGED <<userCount, hasRedis>>
  PROVE  CountInv'
<1> SUFFICES ASSUME hasRedis, NEW u \in Users
             PROVE  UserOK(u)'
  BY DEF CountInv
<1>1. /\ Number(u, Alive)' = Number(u, Alive) /\ Number(u, {"lost"})' = Number(u, {"lost"})
      /\ Number(u, Outstanding)' = Number(u, Outstanding)
  BY NumberKeeps DEF Alive, Outstanding
<1> QED BY <1>1 DEF CountInv, UserOK

LEMMA CountSame ==
  ASSUME CountInv, ReqStays, UNCHANGED <<userCount, hasRedis>>
  PROVE  CountInv'
<1> SUFFICES ASSUME hasRedis, NEW u \in Users
             PROVE  UserOK(u)'
  BY DEF CountInv
<1>1. /\ Number(u, Alive)' = Number(u, Alive) /\ Number(u, {"lost"})' = Number(u, {"lost"})
      /\ Number(u, Outstanding)' = Number(u, Outstanding)
  BY NumberStays
<1> QED BY <1>1 DEF CountInv, UserOK

\* A restart: the requests of the instance that were on their way are lost, and
\* their slots stay counted.
LEMMA CountCrash ==
  ASSUME OwnerInv, CountInv, NEW i \in Instances, Crash(i)
  PROVE  CountInv'
<1> SUFFICES ASSUME hasRedis, NEW u \in Users
             PROVE  UserOK(u)'
  BY DEF CountInv, Crash, redisVars
<1>1. \A r \in Requests :
        /\ req'[r].user = req[r].user
        /\ req'[r].pc = IF req[r].home = i /\ req[r].pc \in Alive THEN "lost" ELSE req[r].pc
  <2>1. ASSUME NEW r \in Requests
        PROVE  /\ req'[r].user = req[r].user
               /\ req'[r].pc = IF req[r].home = i /\ req[r].pc \in Alive THEN "lost" ELSE req[r].pc
    <3>1. req[r] \in Request
      BY DEF OwnerInv, QueueTypeOK
    <3> QED BY <3>1 DEF Crash, Request, Alive
  <2> QED BY <2>1
<1>2. /\ userCount' = userCount /\ userCount[u] \in Int /\ MaxPerUser \in Nat /\ UserOK(u)
  BY QueueAssumption DEF OwnerInv, QueueTypeOK, Crash, redisVars, CountInv
<1> DEFINE alive == RequestsOf(u, Alive)
           lost == RequestsOf(u, {"lost"})
           out == RequestsOf(u, Outstanding)
<1>3. /\ alive' \in SUBSET alive /\ out' \in SUBSET out
      /\ alive' \cup lost' = alive \cup lost
      /\ alive \cap lost = {} /\ alive' \cap lost' = {}
  BY <1>1 DEF RequestsOf, Alive, Outstanding
<1>4. /\ IsFiniteSet(alive) /\ IsFiniteSet(lost) /\ IsFiniteSet(alive') /\ IsFiniteSet(lost')
      /\ IsFiniteSet(out)
  BY GroupFinite
<1>5. Cardinality(alive') <= Cardinality(alive) /\ Cardinality(out') <= Cardinality(out)
  BY <1>3, <1>4, FS_Subset
<1>6. Cardinality(alive) + Cardinality(lost) = Cardinality(alive') + Cardinality(lost')
  <2> HIDE DEF alive, lost, out
  <2>1. Cardinality(alive \cup lost) = Cardinality(alive) + Cardinality(lost) - Cardinality(alive \cap lost)
    BY <1>4, FS_Union
  <2>2. Cardinality(alive' \cup lost') = Cardinality(alive') + Cardinality(lost') - Cardinality(alive' \cap lost')
    BY <1>4, FS_Union
  <2>3. /\ Cardinality(alive) \in Nat /\ Cardinality(lost) \in Nat
        /\ Cardinality(alive') \in Nat /\ Cardinality(lost') \in Nat
    BY <1>4, FS_CardinalityType
  <2>4. Cardinality(alive \cap lost) = 0 /\ Cardinality(alive' \cap lost') = 0
    BY <1>3, FS_EmptySet
  <2>5. Cardinality(alive \cup lost) = Cardinality(alive' \cup lost')
    BY <1>3
  <2> QED BY <2>1, <2>2, <2>3, <2>4, <2>5
<1>7. /\ Number(u, Alive) \in Nat /\ Number(u, Alive)' \in Nat /\ Number(u, {"lost"}) \in Nat
      /\ Number(u, {"lost"})' \in Nat /\ Number(u, Outstanding) \in Nat /\ Number(u, Outstanding)' \in Nat
  BY GroupFinite
<1> QED BY <1>2, <1>5, <1>6, <1>7 DEF UserOK, Number

\* The key of a user with nothing on its way expires.
LEMMA CountExpiry ==
  ASSUME OwnerInv, CountInv, NEW v \in Users, UserExpires(v)
  PROVE  CountInv'
<1> SUFFICES ASSUME hasRedis, NEW u \in Users
             PROVE  UserOK(u)'
  BY DEF CountInv, UserExpires
<1>1. ReqStays /\ userCount \in [Users -> Int] /\ UserOK(u)
  BY DEF OwnerInv, QueueTypeOK, CountInv, UserExpires, ReqStays
<1>2. /\ Number(u, Alive)' = Number(u, Alive) /\ Number(u, {"lost"})' = Number(u, {"lost"})
      /\ Number(u, Outstanding)' = Number(u, Outstanding)
  BY <1>1, NumberStays
<1>3. CASE u # v
  <2>1. userCount'[u] = userCount[u]
    BY <1>1, <1>3 DEF UserExpires
  <2> QED BY <1>1, <1>2, <2>1 DEF UserOK
<1>4. CASE u = v
  <2>1. userCount'[u] = 0
    BY <1>1, <1>4 DEF UserExpires
  <2>2. Number(u, Alive) = 0
    <3>1. RequestsOf(u, Alive) = {}
      BY <1>4 DEF RequestsOf, UserExpires, Alive
    <3> QED BY <3>1, FS_EmptySet DEF Number
  <2>3. Number(u, {"lost"}) \in Nat
    BY GroupFinite
  <2> QED BY <1>1, <1>2, <2>1, <2>2, <2>3 DEF UserOK
<1> QED BY <1>3, <1>4

\* One request goes on, and maybe its context ends.
LEMMA GotoMoves ==
  ASSUME QueueTypeOK, NEW r \in Requests, NEW pc, NEW c,
         ReqGoto(r, pc) \/ req' = [req EXCEPT ![r].pc = pc, ![r].cancelled = c]
  PROVE  ReqMoves(r, pc)
<1>1. req \in [Requests -> Request] /\ req[r] \in Request
  BY DEF QueueTypeOK
<1> QED BY <1>1 DEF ReqGoto, ReqMoves, Request

LEMMA DecrDown ==
  ASSUME "refuse" \notin Faults, NEW u, DecrUser(u)
  PROVE  hasRedis => userCount' = [userCount EXCEPT ![u] = @ - 1]
BY DEF DecrUser

LEMMA CountSubmit ==
  ASSUME OwnerInv, CountInv, "refuse" \notin Faults, NEW r \in Requests, Submit(r)
  PROVE  CountInv'
<1>1. QueueTypeOK /\ hasRedis' = hasRedis /\ req[r].pc = "new"
  BY DEF OwnerInv, Submit
<1>2. CASE hasRedis
  <2> DEFINE pc == IF Counted(req[r].user) THEN "counted" ELSE "over"
  <2>1. ReqGoto(r, pc) /\ userCount' = [userCount EXCEPT ![req[r].user] = @ + 1]
    BY <1>2 DEF Submit
  <2>2. pc \in {"counted", "over"} /\ (pc = "counted" => Counted(req[r].user))
    OBVIOUS
  <2>3. CASE Counted(req[r].user)
    <3>1. ReqMoves(r, "counted")
      BY <1>1, <2>1, <2>3, GotoMoves
    <3> QED BY <1>1, <2>1, <2>3, <3>1, CountUp
  <2>4. CASE ~Counted(req[r].user)
    <3>1. ReqMoves(r, "over")
      BY <1>1, <2>1, <2>4, GotoMoves
    <3> QED BY <1>1, <2>1, <3>1, CountUp
  <2> QED BY <2>3, <2>4
<1>3. CASE ~hasRedis
  BY <1>1, <1>3 DEF CountInv
<1> QED BY <1>2, <1>3

LEMMA CountReject ==
  ASSUME OwnerInv, CountInv, "refuse" \notin Faults, NEW r \in Requests, Reject(r)
  PROVE  CountInv'
<1>1. QueueTypeOK /\ hasRedis' = hasRedis /\ req[r].pc \in Alive /\ ReqGoto(r, "refused")
  BY DEF OwnerInv, Reject, Alive
<1>2. ReqMoves(r, "refused")
  BY <1>1, GotoMoves
<1>3. hasRedis => userCount' = [userCount EXCEPT ![req[r].user] = @ - 1]
  BY DecrDown DEF Reject
<1> QED BY <1>1, <1>2, <1>3, CountDown

LEMMA CountEnqueue ==
  ASSUME OwnerInv, CountInv, "refuse" \notin Faults, NEW r \in Requests, Enqueue(r)
  PROVE  CountInv'
<1>1. QueueTypeOK /\ hasRedis' = hasRedis /\ req[r].pc \in Outstanding
  BY DEF OwnerInv, Enqueue, Outstanding
<1>2. CASE ReqGoto(r, "refused") /\ DecrUser(req[r].user)
  <2>1. ReqMoves(r, "refused")
    BY <1>1, <1>2, GotoMoves
  <2>2. hasRedis => userCount' = [userCount EXCEPT ![req[r].user] = @ - 1]
    BY <1>2, DecrDown
  <2> QED BY <1>1, <2>1, <2>2, CountDown DEF Alive
<1>3. CASE ReqGoto(r, "queued") /\ UNCHANGED userCount
  <2>1. ReqMoves(r, "queued")
    BY <1>1, <1>3, GotoMoves
  <2> QED BY <1>1, <1>3, <2>1, CountAlong DEF Outstanding
<1> QED BY <1>2, <1>3 DEF Enqueue

LEMMA CountRemove ==
  ASSUME OwnerInv, CountInv, "refuse" \notin Faults,
         NEW i \in Instances, NEW u \in Users, RemoveQueued(i, u)
  PROVE  CountInv'
<1>1. PICK k \in 1 .. Len(queue[i]) :
        /\ req[queue[i][k]].user = u
        /\ req' = [req EXCEPT ![queue[i][k]].pc = "removed", ![queue[i][k]].cancelled = TRUE]
        /\ DecrUser(u) /\ hasRedis' = hasRedis
  BY DEF RemoveQueued
<1> DEFINE r == queue[i][k]
<1>2. QueueTypeOK /\ r \in Requests /\ req[r].pc \in Alive
  BY DEF OwnerInv, QueueTypeOK, QueueInv, Alive, Outstanding
<1> HIDE DEF r
<1>3. ReqMoves(r, "removed")
  BY <1>1, <1>2, GotoMoves DEF r
<1>4. hasRedis => userCount' = [userCount EXCEPT ![req[r].user] = @ - 1]
  BY <1>1, DecrDown DEF r
<1> QED BY <1>1, <1>2, <1>3, <1>4, CountDown

LEMMA CountSettle ==
  ASSUME OwnerInv, CountInv, "refuse" \notin Faults, NEW i \in Instances, NEW w \in Workers,
         worker[i][w].pc \in JobPc, NEW outcome \in {"dropped", "served"},
         Settle(i, w, outcome), UNCHANGED hasRedis
  PROVE  CountInv'
<1> DEFINE r == worker[i][w].job
<1>1. QueueTypeOK /\ r \in Requests /\ req[r].pc \in Alive
  BY DEF OwnerInv, QueueTypeOK, WorkerInv, Alive, Outstanding
<1>2. /\ req' = [req EXCEPT ![r].pc = outcome, ![r].cancelled = @ \/ outcome = "dropped"]
      /\ DecrUser(req[r].user)
  BY DEF Settle
<1> HIDE DEF r
<1>3. ReqMoves(r, outcome)
  BY <1>1, <1>2, GotoMoves
<1>4. hasRedis => userCount' = [userCount EXCEPT ![req[r].user] = @ - 1]
  BY <1>2, DecrDown
<1> QED BY <1>1, <1>3, <1>4, CountDown

LEMMA CountDequeue ==
  ASSUME OwnerInv, CountInv, NEW i \in Instances, NEW w \in Workers, Dequeue(i, w)
  PROVE  CountInv'
<1>1. QueueTypeOK /\ QueueInv /\ UNCHANGED <<userCount, hasRedis>>
  BY DEF OwnerInv, Dequeue, redisVars
<1>2. CASE UNCHANGED req
  BY <1>1, <1>2, CountSame DEF ReqStays
<1>3. CASE queue[i] # <<>> /\ ReqGoto(Head(queue[i]), "taken")
  <2> DEFINE r == Head(queue[i])
  <2>1. r \in Requests /\ req[r].pc = "queued"
    <3>1. queue[i] \in Seq(Requests)
      BY <1>1 DEF QueueTypeOK
    <3>2. 1 \in 1 .. Len(queue[i]) /\ r = queue[i][1]
      BY <1>3, <3>1
    <3>3. queue[i][1] \in Requests
      BY <3>1, <3>2
    <3> QED BY <1>1, <3>2, <3>3 DEF QueueInv
  <2> HIDE DEF r
  <2>2. ReqMoves(r, "taken")
    BY <1>1, <1>3, <2>1, GotoMoves DEF r
  <2> QED BY <1>1, <2>1, <2>2, CountAlong DEF Outstanding
<1> QED BY <1>2, <1>3 DEF Dequeue

LEMMA CountTurn ==
  ASSUME OwnerInv, CountInv, "refuse" \notin Faults, NEW i \in Instances, NEW w \in Workers,
         Check(i, w) \/ Acquire(i, w) \/ GiveUp(i, w) \/ HandlerReturns(i, w) \/ Release(i, w)
           \/ Served(i, w)
  PROVE  CountInv'
<1>1. CASE UNCHANGED <<req, userCount, hasRedis>>
  BY <1>1, CountSame DEF ReqStays
<1>2. CASE Acquire(i, w) \/ HandlerReturns(i, w) \/ Release(i, w)
  <2>1. UNCHANGED <<req, userCount, hasRedis>>
    BY <1>2 DEF Acquire, HandlerReturns, Release, redisVars
  <2> QED BY <1>1, <2>1
<1>3. CASE Check(i, w)
  <2>1. CASE UNCHANGED <<req, userCount>>
    <3>1. UNCHANGED hasRedis
      BY <1>3 DEF Check
    <3> QED BY <1>1, <2>1, <3>1
  <2>2. CASE Settle(i, w, "dropped")
    BY <1>3, <2>2, CountSettle DEF Check, JobPc
  <2> QED BY <1>3, <2>1, <2>2 DEF Check
<1>4. CASE GiveUp(i, w)
  BY <1>4, CountSettle DEF GiveUp, JobPc
<1>5. CASE Served(i, w)
  BY <1>5, CountSettle DEF Served, JobPc
<1> QED BY <1>2, <1>3, <1>4, <1>5

LEMMA CountInit ==
  ASSUME QueueInit
  PROVE  CountInv
<1> SUFFICES ASSUME NEW u \in Users PROVE UserOK(u)
  BY DEF CountInv
<1>1. \A r \in Requests : req[r].pc = "new"
  BY DEF QueueInit
<1>2. RequestsOf(u, Alive) = {} /\ RequestsOf(u, {"lost"}) = {} /\ RequestsOf(u, Outstanding) = {}
  BY <1>1 DEF RequestsOf, Alive, Outstanding
<1>3. userCount[u] = 0
  BY DEF QueueInit
<1> QED BY <1>2, <1>3, FS_EmptySet, QueueAssumption DEF UserOK, Number

LEMMA CountNext ==
  ASSUME OwnerInv, CountInv, "refuse" \notin Faults, [QueueNext]_queueVars
  PROVE  CountInv'
<1>1. CASE ServiceStep
  <2>1. CASE \E r \in Requests : Submit(r) \/ Reject(r) \/ Enqueue(r)
    BY <2>1, CountSubmit, CountReject, CountEnqueue
  <2>2. CASE \E r \in Requests : Cancel(r)
    <3>1. UNCHANGED <<userCount, hasRedis>>
      BY <2>2 DEF Cancel, redisVars
    <3>2. ReqStays
      BY <2>2 DEF Cancel, ReqStays, OwnerInv, QueueTypeOK, Request
    <3> QED BY <3>1, <3>2, CountSame
  <2>3. CASE \E u \in Users : UserExpires(u)
    BY <2>3, CountExpiry
  <2>4. CASE GateExpires \/ \E i \in Instances : Stop(i) \/ Broadcast(i)
    <3>1. UNCHANGED <<req, userCount, hasRedis>>
      BY <2>4 DEF GateExpires, Stop, Broadcast, redisVars
    <3> QED BY <3>1, CountSame DEF ReqStays
  <2>5. CASE \E i \in Instances : Crash(i)
    BY <2>5, CountCrash
  <2> QED BY <1>1, <2>1, <2>2, <2>3, <2>4, <2>5 DEF ServiceStep
<1>2. CASE \E i \in Instances, u \in Users : RemoveQueued(i, u)
  BY <1>2, CountRemove
<1>3. CASE \E i \in Instances, w \in Workers : WorkerStep(i, w)
  BY <1>3, CountDequeue, CountTurn DEF WorkerStep, QueueSideStep
<1>4. CASE UNCHANGED queueVars
  BY <1>4, CountSame DEF queueVars, redisVars, ReqStays
<1> QED BY <1>1, <1>2, <1>3, <1>4 DEF QueueNext

LEMMA CountInductive ==
  ASSUME "refuse" \notin Faults
  PROVE  QueueSpec => [](OwnerInv /\ CountInv)
<1>1. OwnerInv /\ CountInv /\ [QueueNext]_queueVars => CountInv'
  BY CountNext
<1> QED BY <1>1, CountInit, OwnerInductive, PTL DEF QueueSpec

\* Without failing commands the user's counter lies between the requests on
\* their way and those plus the ones that died with an instance, whichever way
\* each request left.
THEOREM UserCountCorrect ==
  ASSUME "refuse" \notin Faults
  PROVE  QueueSpec => []UserCountExact
BY CountInductive, CountImplies, PTL

\* Without failing commands no user has more than MaxPerUser admitted requests,
\* on all instances together.
THEOREM UserLimitCorrect ==
  ASSUME "refuse" \notin Faults
  PROVE  QueueSpec => []UserWithinLimit
BY CountInductive, CountImplies, PTL

-----------------------------------------------------------------------------
(* The local counters, which replace Redis on a single instance.           *)

Here(i, u) == {r \in RequestsOf(u, {"queued"}) : req[r].home = i}

LocalOK(i, u) ==
  /\ perUser[i][u] = Cardinality(Here(i, u))
  /\ Cardinality(Here(i, u)) <= MaxPerUser

LocalInv == ~hasRedis => \A i \in Instances, u \in Users : LocalOK(i, u)

LEMMA HereFinite ==
  ASSUME NEW i, NEW u
  PROVE  IsFiniteSet(Here(i, u)) /\ Cardinality(Here(i, u)) \in Nat
<1>1. Here(i, u) \in SUBSET Requests
  BY DEF Here, RequestsOf
<1>2. IsFiniteSet(Here(i, u))
  BY <1>1, FS_Subset, QueueAssumption
<1> QED BY <1>2, FS_CardinalityType

\* Nothing that concerns the local counters.
LEMMA LocalSame ==
  ASSUME LocalInv, \/ ReqStays
                   \/ \E r \in Requests : \E pc \in {"counted", "over", "refused", "served", "dropped"} :
                        ReqMoves(r, pc) /\ req[r].pc # "queued",
         UNCHANGED <<perUser, hasRedis>>
  PROVE  LocalInv'
<1> SUFFICES ASSUME ~hasRedis, NEW i \in Instances, NEW u \in Users
             PROVE  LocalOK(i, u)'
  BY DEF LocalInv
<1>1. Here(i, u)' = Here(i, u)
  BY DEF Here, RequestsOf, ReqStays, ReqMoves
<1> QED BY <1>1 DEF LocalInv, LocalOK

LEMMA LocalEnqueue ==
  ASSUME OwnerInv, LocalInv, NEW r \in Requests, Enqueue(r)
  PROVE  LocalInv'
<1> DEFINE i == req[r].home
           u == req[r].user
<1>1. QueueTypeOK /\ hasRedis' = hasRedis /\ req[r].pc = "counted"
  BY DEF OwnerInv, Enqueue
<1>2. CASE ReqGoto(r, "refused") /\ UNCHANGED perUser
  <2>1. ReqMoves(r, "refused")
    BY <1>1, <1>2, GotoMoves
  <2> QED BY <1>1, <1>2, <2>1, LocalSame
<1>3. CASE /\ ~LocalFull(i, u)
           /\ ReqGoto(r, "queued")
           /\ perUser' = IF hasRedis THEN perUser ELSE [perUser EXCEPT ![i][u] = @ + 1]
  <2> SUFFICES ASSUME ~hasRedis, NEW j \in Instances, NEW v \in Users
               PROVE  LocalOK(j, v)'
    BY <1>1 DEF LocalInv
  <2>1. ReqMoves(r, "queued")
    BY <1>1, <1>3, GotoMoves
  <2>2. /\ perUser \in [Instances -> [Users -> Nat]] /\ i \in Instances /\ u \in Users
        /\ MaxPerUser \in Nat
    BY <1>1, QueueAssumption DEF QueueTypeOK, Request
  <2>3. LocalOK(j, v)
    BY DEF LocalInv
  <2>4. IsFiniteSet(Here(j, v)) /\ Cardinality(Here(j, v)) \in Nat
    BY HereFinite
  <2>5. CASE j = i /\ v = u
    <3>1. perUser'[j][v] = perUser[j][v] + 1
      BY <1>3, <2>2, <2>5
    <3>2. Here(j, v)' = Here(j, v) \cup {r} /\ r \notin Here(j, v)
      BY <1>1, <2>1, <2>5 DEF Here, RequestsOf, ReqMoves
    <3>3. Cardinality(Here(j, v)') = Cardinality(Here(j, v)) + 1
      BY <2>4, <3>2, FS_AddElement
    <3>4. perUser[j][v] < MaxPerUser
      <4>1. perUser[j][v] \in Nat
        BY <2>2
      <4> QED BY <1>3, <2>2, <2>5, <4>1 DEF LocalFull
    <3> QED BY <2>2, <2>3, <2>4, <3>1, <3>3, <3>4 DEF LocalOK
  <2>6. CASE ~(j = i /\ v = u)
    <3>1. perUser'[j][v] = perUser[j][v]
      BY <1>3, <2>2, <2>6
    <3>2. Here(j, v)' = Here(j, v)
      BY <1>1, <2>1, <2>6 DEF Here, RequestsOf, ReqMoves
    <3> QED BY <2>3, <3>1, <3>2 DEF LocalOK
  <2> QED BY <2>5, <2>6
<1> QED BY <1>2, <1>3 DEF Enqueue

\* A queued request leaves the queue.
LEMMA LocalDown ==
  ASSUME OwnerInv, LocalInv, NEW r \in Requests, req[r].pc = "queued",
         NEW pc, pc # "queued", ReqMoves(r, pc),
         LocalRelease(req[r].home, req[r].user), UNCHANGED hasRedis
  PROVE  LocalInv'
<1> DEFINE i == req[r].home
           u == req[r].user
<1> SUFFICES ASSUME ~hasRedis, NEW j \in Instances, NEW v \in Users
             PROVE  LocalOK(j, v)'
  BY DEF LocalInv
<1>1. /\ perUser \in [Instances -> [Users -> Nat]] /\ i \in Instances /\ u \in Users
      /\ MaxPerUser \in Nat
  BY QueueAssumption DEF OwnerInv, QueueTypeOK, Request
<1>2. perUser' = [perUser EXCEPT ![i][u] = IF @ > 0 THEN @ - 1 ELSE 0]
  BY DEF LocalRelease
<1>3. LocalOK(j, v)
  BY DEF LocalInv
<1>4. IsFiniteSet(Here(j, v)) /\ Cardinality(Here(j, v)) \in Nat
  BY HereFinite
<1>5. CASE j = i /\ v = u
  <2>1. perUser'[j][v] = IF perUser[j][v] > 0 THEN perUser[j][v] - 1 ELSE 0
    BY <1>1, <1>2, <1>5
  <2>2. Here(j, v)' = Here(j, v) \ {r} /\ r \in Here(j, v)
    BY <1>5 DEF Here, RequestsOf, ReqMoves
  <2>3. Cardinality(Here(j, v)') = Cardinality(Here(j, v)) - 1
    BY <1>4, <2>2, FS_RemoveElement
  <2>4. Cardinality(Here(j, v)) > 0
    <3>1. Cardinality(Here(j, v)) # 0
      BY <1>4, <2>2, FS_EmptySet
    <3> QED BY <1>4, <3>1
  <2> QED BY <1>1, <1>3, <1>4, <2>1, <2>3, <2>4 DEF LocalOK
<1>6. CASE ~(j = i /\ v = u)
  <2>1. perUser'[j][v] = perUser[j][v]
    BY <1>1, <1>2, <1>6
  <2>2. Here(j, v)' = Here(j, v)
    BY <1>6 DEF Here, RequestsOf, ReqMoves
  <2> QED BY <1>3, <2>1, <2>2 DEF LocalOK
<1> QED BY <1>5, <1>6

LEMMA LocalRemove ==
  ASSUME OwnerInv, LocalInv, NEW i \in Instances, NEW u \in Users, RemoveQueued(i, u)
  PROVE  LocalInv'
<1>1. PICK k \in 1 .. Len(queue[i]) :
        /\ req[queue[i][k]].user = u
        /\ req' = [req EXCEPT ![queue[i][k]].pc = "removed", ![queue[i][k]].cancelled = TRUE]
        /\ LocalRelease(i, u) /\ hasRedis' = hasRedis
  BY DEF RemoveQueued
<1> DEFINE r == queue[i][k]
<1>2. QueueTypeOK /\ r \in Requests /\ req[r].pc = "queued" /\ req[r].home = i
  BY DEF OwnerInv, QueueTypeOK, QueueInv
<1> HIDE DEF r
<1>3. ReqMoves(r, "removed")
  BY <1>1, <1>2, GotoMoves DEF r
<1>4. LocalRelease(req[r].home, req[r].user)
  BY <1>1, <1>2 DEF r
<1> QED BY <1>1, <1>2, <1>3, <1>4, LocalDown

LEMMA LocalDequeue ==
  ASSUME OwnerInv, LocalInv, NEW i \in Instances, NEW w \in Workers, Dequeue(i, w)
  PROVE  LocalInv'
<1>1. QueueTypeOK /\ QueueInv /\ UNCHANGED hasRedis
  BY DEF OwnerInv, Dequeue, redisVars
<1>2. CASE UNCHANGED <<req, perUser>>
  BY <1>1, <1>2, LocalSame DEF ReqStays
<1>3. CASE /\ queue[i] # <<>> /\ ReqGoto(Head(queue[i]), "taken")
           /\ LocalRelease(i, req[Head(queue[i])].user)
  <2> DEFINE r == Head(queue[i])
  <2>1. r \in Requests /\ req[r].pc = "queued" /\ req[r].home = i
    <3>1. queue[i] \in Seq(Requests)
      BY <1>1 DEF QueueTypeOK
    <3>2. 1 \in 1 .. Len(queue[i]) /\ r = queue[i][1]
      BY <1>3, <3>1
    <3>3. queue[i][1] \in Requests
      BY <3>1, <3>2
    <3> QED BY <1>1, <3>2, <3>3 DEF QueueInv
  <2> HIDE DEF r
  <2>2. ReqMoves(r, "taken")
    BY <1>1, <1>3, <2>1, GotoMoves DEF r
  <2>3. LocalRelease(req[r].home, req[r].user)
    BY <1>3, <2>1 DEF r
  <2> QED BY <1>1, <2>1, <2>2, <2>3, LocalDown
<1> QED BY <1>2, <1>3 DEF Dequeue

LEMMA LocalCrash ==
  ASSUME OwnerInv, LocalInv, NEW i \in Instances, Crash(i)
  PROVE  LocalInv'
<1> SUFFICES ASSUME ~hasRedis, NEW j \in Instances, NEW u \in Users
             PROVE  LocalOK(j, u)'
  BY DEF LocalInv, Crash, redisVars
<1>1. QueueTypeOK
  BY DEF OwnerInv
<1>2. \A r \in Requests :
        /\ req'[r].home = req[r].home
        /\ req[r].home = i => req'[r].pc \notin {"queued", "taken"}
        /\ req[r].home # i => req'[r] = req[r]
  BY <1>1, CrashReq
<1>3. perUser \in [Instances -> [Users -> Nat]] /\ perUser' = [perUser EXCEPT ![i] = [v \in Users |-> 0]]
  BY <1>1 DEF QueueTypeOK, Crash
<1>4. CASE j = i
  <2>1. Here(j, u)' = {}
    BY <1>2, <1>4 DEF Here, RequestsOf
  <2>2. perUser'[j][u] = 0
    BY <1>3, <1>4
  <2>3. Cardinality(Here(j, u)') = 0 /\ 0 <= MaxPerUser
    BY <2>1, FS_EmptySet, QueueAssumption
  <2> QED BY <2>2, <2>3 DEF LocalOK
<1>5. CASE j # i
  <2>1. Here(j, u)' = Here(j, u)
    BY <1>2, <1>5 DEF Here, RequestsOf
  <2>2. perUser'[j][u] = perUser[j][u]
    BY <1>3, <1>5
  <2> QED BY <2>1, <2>2 DEF LocalInv, LocalOK
<1> QED BY <1>4, <1>5

LEMMA LocalSettle ==
  ASSUME OwnerInv, LocalInv, NEW i \in Instances, NEW w \in Workers,
         worker[i][w].pc \in JobPc, NEW outcome \in {"dropped", "served"},
         Settle(i, w, outcome), UNCHANGED <<perUser, hasRedis>>
  PROVE  LocalInv'
<1> DEFINE r == worker[i][w].job
<1>1. QueueTypeOK /\ r \in Requests /\ req[r].pc # "queued"
  BY DEF OwnerInv, QueueTypeOK, WorkerInv
<1>2. req' = [req EXCEPT ![r].pc = outcome, ![r].cancelled = @ \/ outcome = "dropped"]
  BY DEF Settle
<1> HIDE DEF r
<1>3. ReqMoves(r, outcome)
  BY <1>1, <1>2, GotoMoves
<1> QED BY <1>1, <1>3, LocalSame

LEMMA LocalTurn ==
  ASSUME OwnerInv, LocalInv, NEW i \in Instances, NEW w \in Workers,
         Check(i, w) \/ Acquire(i, w) \/ GiveUp(i, w) \/ HandlerReturns(i, w) \/ Release(i, w)
           \/ Served(i, w)
  PROVE  LocalInv'
<1>1. UNCHANGED <<perUser, hasRedis>>
  BY DEF Check, Acquire, GiveUp, HandlerReturns, Release, Served, redisVars
<1>2. CASE UNCHANGED req
  BY <1>1, <1>2, LocalSame DEF ReqStays
<1>3. CASE worker[i][w].pc \in JobPc /\ (Settle(i, w, "dropped") \/ Settle(i, w, "served"))
  BY <1>1, <1>3, LocalSettle
<1> QED BY <1>2, <1>3 DEF Check, Acquire, GiveUp, HandlerReturns, Release, Served, JobPc

LEMMA LocalInit ==
  ASSUME QueueInit
  PROVE  LocalInv
<1> SUFFICES ASSUME NEW i \in Instances, NEW u \in Users PROVE LocalOK(i, u)
  BY DEF LocalInv
<1>1. Here(i, u) = {}
  BY DEF Here, RequestsOf, QueueInit
<1>2. perUser[i][u] = 0
  BY DEF QueueInit
<1> QED BY <1>1, <1>2, FS_EmptySet, QueueAssumption DEF LocalOK

LEMMA LocalNext ==
  ASSUME OwnerInv, LocalInv, [QueueNext]_queueVars
  PROVE  LocalInv'
<1>1. CASE ServiceStep
  <2>1. CASE \E r \in Requests : Submit(r) \/ Reject(r)
    <3>1. PICK r \in Requests : Submit(r) \/ Reject(r)
      BY <2>1
    <3>2. PICK pc \in {"counted", "over", "refused"} : ReqGoto(r, pc)
      BY <3>1 DEF Submit, Reject
    <3>3. ReqMoves(r, pc) /\ req[r].pc # "queued" /\ UNCHANGED <<perUser, hasRedis>>
      BY <3>1, <3>2, GotoMoves DEF OwnerInv, Submit, Reject
    <3> QED BY <3>3, LocalSame
  <2>2. CASE \E r \in Requests : Enqueue(r)
    BY <2>2, LocalEnqueue
  <2>3. CASE \E r \in Requests : Cancel(r)
    <3>1. UNCHANGED <<perUser, hasRedis>>
      BY <2>3 DEF Cancel, redisVars
    <3>2. ReqStays
      BY <2>3 DEF Cancel, ReqStays, OwnerInv, QueueTypeOK, Request
    <3> QED BY <3>1, <3>2, LocalSame
  <2>4. CASE \/ GateExpires
             \/ \E u \in Users : UserExpires(u)
             \/ \E i \in Instances : Stop(i) \/ Broadcast(i)
    <3>1. UNCHANGED <<req, perUser, hasRedis>>
      BY <2>4 DEF GateExpires, UserExpires, Stop, Broadcast, redisVars
    <3> QED BY <3>1, LocalSame DEF ReqStays
  <2>5. CASE \E i \in Instances : Crash(i)
    BY <2>5, LocalCrash
  <2> QED BY <1>1, <2>1, <2>2, <2>3, <2>4, <2>5 DEF ServiceStep
<1>2. CASE \E i \in Instances, u \in Users : RemoveQueued(i, u)
  BY <1>2, LocalRemove
<1>3. CASE \E i \in Instances, w \in Workers : WorkerStep(i, w)
  BY <1>3, LocalDequeue, LocalTurn DEF WorkerStep, QueueSideStep
<1>4. CASE UNCHANGED queueVars
  BY <1>4, LocalSame DEF queueVars, redisVars, ReqStays
<1> QED BY <1>1, <1>2, <1>3, <1>4 DEF QueueNext

LEMMA LocalImplies ==
  ASSUME LocalInv
  PROVE  LocalCountExact /\ LocalWithinLimit
BY DEF LocalInv, LocalOK, Here, LocalCountExact, LocalWithinLimit

\* Under every failure the local counter is the number of queued requests.
THEOREM LocalCountCorrect == QueueSpec => []LocalCountExact
<1>1. OwnerInv /\ LocalInv /\ [QueueNext]_queueVars => LocalInv'
  BY LocalNext
<1> QED BY <1>1, LocalInit, LocalImplies, OwnerInductive, PTL DEF QueueSpec

\* Under every failure no user has more than MaxPerUser requests in a queue.
THEOREM LocalLimitCorrect == QueueSpec => []LocalWithinLimit
<1>1. OwnerInv /\ LocalInv /\ [QueueNext]_queueVars => LocalInv'
  BY LocalNext
<1> QED BY <1>1, LocalInit, LocalImplies, OwnerInductive, PTL DEF QueueSpec

-----------------------------------------------------------------------------
(* The gate.                                                               *)

Holding == {"running", "releasing"}
Past == {"running", "releasing", "settling"}
Holders == {p \in Instances \X Workers : worker[p[1]][p[2]].pc \in Holding}

\* No cancelled request passed the gate.
Unharmed ==
  /\ \A r \in Requests : req[r].cancelled => req[r].pc \notin {"served", "lost"}
  /\ \A i \in Instances, w \in Workers :
       worker[i][w].pc \in Past => ~req[worker[i][w].job].cancelled

\* Until one does, every worker that holds a slot is counted.
GateInv == ~NoGate /\ Unharmed => Cardinality(Holders) <= gate /\ gate <= GlobalMax

LEMMA HoldersFinite ==
  /\ IsFiniteSet(Holders) /\ Cardinality(Holders) \in Nat
  /\ IsFiniteSet(Holders') /\ Cardinality(Holders') \in Nat
<1>1. IsFiniteSet(Instances \X Workers)
  BY QueueAssumption, FS_Product
<1>2. Holders \in SUBSET (Instances \X Workers) /\ Holders' \in SUBSET (Instances \X Workers)
  BY DEF Holders
<1>3. IsFiniteSet(Holders) /\ IsFiniteSet(Holders')
  BY <1>1, <1>2, FS_Subset
<1> QED BY <1>3, FS_CardinalityType

\* Whoever is past the gate stays there with the same request, and nobody joins;
\* no cancellation is taken back and no end undone.
Aside ==
  /\ \A i \in Instances, w \in Workers :
       /\ worker'[i][w].pc \in Holding <=> worker[i][w].pc \in Holding
       /\ worker'[i][w].pc \in Past <=> worker[i][w].pc \in Past
       /\ worker[i][w].pc \in Past => worker'[i][w].job = worker[i][w].job
  /\ \A r \in Requests : /\ req[r].cancelled => req'[r].cancelled
                         /\ req[r].pc \in {"served", "lost"} => req'[r].pc = req[r].pc

LEMMA AsideGate ==
  ASSUME OwnerInv, GateInv, Aside, UNCHANGED <<gate, hasRedis>>
  PROVE  GateInv'
<1>1. Holders' = Holders
  BY DEF Holders, Aside
<1>2. \A i \in Instances, w \in Workers :
        worker[i][w].pc \in Past => worker[i][w].job \in Requests
  BY DEF OwnerInv, QueueTypeOK, WorkerInv, Past, JobPc
<1>3. Unharmed' => Unharmed
  BY <1>2 DEF Unharmed, Aside
<1>4. NoGate' = NoGate
  BY DEF NoGate
<1> QED BY <1>1, <1>3, <1>4 DEF GateInv

\* Steps of workers that hold no slot, or only wake one another.
LEMMA BesideGate ==
  ASSUME OwnerInv, GateInv, UNCHANGED <<gate, hasRedis>>,
         \A i \in Instances, w \in Workers :
           \/ worker'[i][w] = worker[i][w]
           \/ worker[i][w].pc \notin Past /\ worker'[i][w].pc \notin Past,
         \A r \in Requests : /\ req[r].cancelled => req'[r].cancelled
                             /\ req[r].pc \in {"served", "lost"} => req'[r].pc = req[r].pc
  PROVE  GateInv'
<1>1. Aside
  BY DEF Aside, Past, Holding
<1> QED BY <1>1, AsideGate

\* One request goes on that had not ended.
LEMMA GoesOn ==
  ASSUME QueueTypeOK, NEW r \in Requests, NEW pc, NEW c, c \/ c = req[r].cancelled,
         ReqGoto(r, pc) \/ req' = [req EXCEPT ![r].pc = pc, ![r].cancelled = c],
         req[r].pc \notin {"served", "lost"}
  PROVE  \A s \in Requests : /\ req[s].cancelled => req'[s].cancelled
                             /\ req[s].pc \in {"served", "lost"} => req'[s].pc = req[s].pc
<1>1. req \in [Requests -> Request] /\ req[r] \in Request
  BY DEF QueueTypeOK
<1> QED BY <1>1 DEF ReqGoto, Request

\* Waking a sleeping worker.
LEMMA SignalBeside ==
  ASSUME QueueTypeOK, NEW i \in Instances, Signal(i)
  PROVE  \A j \in Instances, w \in Workers :
           \/ worker'[j][w] = worker[j][w]
           \/ worker[j][w].pc \notin Past /\ worker'[j][w].pc \notin Past
<1>1. CASE UNCHANGED worker
  BY <1>1
<1>2. CASE \E w \in Workers : worker[i][w].pc = "waiting" /\ worker' = [worker EXCEPT ![i][w].pc = "ready"]
  <2>1. PICK w \in Workers : worker[i][w].pc = "waiting" /\ worker' = [worker EXCEPT ![i][w].pc = "ready"]
    BY <1>2
  <2> DEFINE t == [worker[i][w] EXCEPT !.pc = "ready"]
  <2>2. WorkerBecomes(i, w, t)
    BY <2>1, WorkerWent DEF WorkerPc
  <2>3. t.pc = "ready"
    BY DEF QueueTypeOK
  <2> HIDE DEF t
  <2> QED BY <2>1, <2>2, <2>3 DEF WorkerBecomes, Past
<1> QED BY <1>1, <1>2 DEF Signal

LEMMA GateService ==
  ASSUME OwnerInv, GateInv, NEW r \in Requests,
         Submit(r) \/ Reject(r) \/ Enqueue(r) \/ Cancel(r)
  PROVE  GateInv'
<1>1. QueueTypeOK /\ UNCHANGED <<gate, hasRedis>>
  BY DEF OwnerInv, Submit, Reject, Enqueue, Cancel, redisVars
<1>2. \A s \in Requests : /\ req[s].cancelled => req'[s].cancelled
                          /\ req[s].pc \in {"served", "lost"} => req'[s].pc = req[s].pc
  <2>1. CASE Cancel(r)
    BY <1>1, <2>1 DEF Cancel, QueueTypeOK, Request
  <2>2. CASE Submit(r) \/ Reject(r) \/ Enqueue(r)
    <3>1. req[r].pc \in {"new", "over", "counted"}
      BY <2>2 DEF Submit, Reject, Enqueue
    <3>2. PICK pc : ReqGoto(r, pc)
      BY <2>2 DEF Submit, Reject, Enqueue
    <3> QED BY <1>1, <3>1, <3>2, GoesOn
  <2> QED BY <2>1, <2>2
<1>3. \A j \in Instances, w \in Workers :
        \/ worker'[j][w] = worker[j][w]
        \/ worker[j][w].pc \notin Past /\ worker'[j][w].pc \notin Past
  <2>1. CASE UNCHANGED worker
    BY <2>1
  <2>2. CASE Enqueue(r) /\ Signal(req[r].home)
    <3>1. req[r].home \in Instances
      BY <1>1 DEF QueueTypeOK, Request
    <3> QED BY <1>1, <2>2, <3>1, SignalBeside
  <2> QED BY <2>1, <2>2 DEF Submit, Reject, Enqueue, Cancel
<1> QED BY <1>1, <1>2, <1>3, BesideGate

LEMMA GateRemove ==
  ASSUME OwnerInv, GateInv, NEW i \in Instances, NEW u \in Users, RemoveQueued(i, u)
  PROVE  GateInv'
<1>1. PICK k \in 1 .. Len(queue[i]) :
        /\ req' = [req EXCEPT ![queue[i][k]].pc = "removed", ![queue[i][k]].cancelled = TRUE]
        /\ UNCHANGED <<worker, gate, hasRedis>>
  BY DEF RemoveQueued
<1> DEFINE r == queue[i][k]
<1>2. QueueTypeOK /\ r \in Requests /\ req[r].pc = "queued"
  BY DEF OwnerInv, QueueTypeOK, QueueInv
<1> HIDE DEF r
<1>3. \A s \in Requests : /\ req[s].cancelled => req'[s].cancelled
                          /\ req[s].pc \in {"served", "lost"} => req'[s].pc = req[s].pc
  BY <1>1, <1>2, GoesOn DEF r
<1> QED BY <1>1, <1>3, BesideGate

LEMMA GateStop ==
  ASSUME OwnerInv, GateInv,
         \/ \E u \in Users : UserExpires(u)
         \/ \E i \in Instances : Stop(i) \/ Broadcast(i)
  PROVE  GateInv'
<1>1. UNCHANGED <<req, gate, hasRedis>>
  BY DEF UserExpires, Stop, Broadcast, redisVars
<1>2. CASE UNCHANGED worker
  BY <1>1, <1>2, BesideGate
<1>3. CASE \E i \in Instances : Broadcast(i)
  <2>1. PICK i \in Instances : Broadcast(i)
    BY <1>3
  <2>2. \A j \in Instances, w \in Workers :
          worker'[j][w] = IF j = i /\ worker[j][w].pc = "waiting" THEN Idle ELSE worker[j][w]
    BY <2>1 DEF Broadcast, OwnerInv, QueueTypeOK
  <2>3. Idle.pc = "ready"
    BY DEF Idle
  <2> QED BY <1>1, <2>2, <2>3, BesideGate DEF Past
<1> QED BY <1>2, <1>3 DEF UserExpires, Stop

\* A worker with no slot goes from one stage before the gate to another.
LEMMA WorkerBeside ==
  ASSUME QueueTypeOK, NEW i \in Instances, NEW w \in Workers, worker[i][w].pc \notin Past,
         NEW t \in WorkerState, t.pc \notin Past, WorkerBecomes(i, w, t)
  PROVE  \A j \in Instances, v \in Workers :
           \/ worker'[j][v] = worker[j][v]
           \/ worker[j][v].pc \notin Past /\ worker'[j][v].pc \notin Past
BY DEF WorkerBecomes

LEMMA GateDequeue ==
  ASSUME OwnerInv, GateInv, NEW i \in Instances, NEW w \in Workers, Dequeue(i, w)
  PROVE  GateInv'
<1>1. /\ QueueTypeOK /\ QueueInv /\ UNCHANGED <<gate, hasRedis>>
      /\ worker[i][w].pc \notin Past
  BY DEF OwnerInv, Dequeue, redisVars, Past
<1>2. CASE (WorkerGoto(i, w, "waiting") \/ WorkerGoto(i, w, "exited")) /\ UNCHANGED req
  <2>1. PICK pc \in {"waiting", "exited"} : worker' = [worker EXCEPT ![i][w].pc = pc]
    BY <1>2 DEF WorkerGoto
  <2> DEFINE t == [worker[i][w] EXCEPT !.pc = pc]
  <2>2. WorkerBecomes(i, w, t)
    BY <1>1, <2>1, WorkerWent DEF WorkerPc
  <2>3. worker[i][w] \in WorkerState
    BY <1>1 DEF QueueTypeOK, WorkerState
  <2>4. t \in WorkerState /\ t.pc \notin Past
    BY <2>3 DEF WorkerState, WorkerPc, Past
  <2> HIDE DEF t
  <2> QED BY <1>1, <1>2, <2>2, <2>4, WorkerBeside, BesideGate
<1>3. CASE /\ queue[i] # <<>>
           /\ worker' = [worker EXCEPT ![i][w] = [pc |-> "checking", job |-> Head(queue[i])]]
           /\ ReqGoto(Head(queue[i]), "taken")
  <2> DEFINE r == Head(queue[i])
             t == [pc |-> "checking", job |-> r]
  <2>1. r \in Requests /\ req[r].pc = "queued"
    <3>1. queue[i] \in Seq(Requests)
      BY <1>1 DEF QueueTypeOK
    <3>2. 1 \in 1 .. Len(queue[i]) /\ r = queue[i][1]
      BY <1>3, <3>1
    <3>3. queue[i][1] \in Requests
      BY <3>1, <3>2
    <3> QED BY <1>1, <3>2, <3>3 DEF QueueInv
  <2>2. t \in WorkerState /\ t.pc \notin Past
    BY <2>1 DEF WorkerState, WorkerPc, Past
  <2>3. worker' = [worker EXCEPT ![i][w] = t]
    BY <1>3
  <2> HIDE DEF r, t
  <2>4. WorkerBecomes(i, w, t)
    BY <1>1, <2>2, <2>3, WorkerSet
  <2>5. \A s \in Requests : /\ req[s].cancelled => req'[s].cancelled
                            /\ req[s].pc \in {"served", "lost"} => req'[s].pc = req[s].pc
    BY <1>1, <1>3, <2>1, GoesOn DEF r
  <2> QED BY <1>1, <2>2, <2>4, <2>5, WorkerBeside, BesideGate
<1> QED BY <1>2, <1>3 DEF Dequeue

\* A request is dropped before the gate.
LEMMA GateDropped ==
  ASSUME OwnerInv, GateInv, NEW i \in Instances, NEW w \in Workers,
         worker[i][w].pc \in {"checking", "gating"}, Settle(i, w, "dropped"),
         UNCHANGED <<gate, hasRedis>>
  PROVE  GateInv'
<1> DEFINE r == worker[i][w].job
<1>1. QueueTypeOK /\ r \in Requests /\ req[r].pc = "taken"
  BY DEF OwnerInv, QueueTypeOK, WorkerInv, JobPc
<1>2. req' = [req EXCEPT ![r].pc = "dropped", ![r].cancelled = @ \/ "dropped" = "dropped"]
  BY DEF Settle
<1> HIDE DEF r
<1>3. \A s \in Requests : /\ req[s].cancelled => req'[s].cancelled
                          /\ req[s].pc \in {"served", "lost"} => req'[s].pc = req[s].pc
  BY <1>1, <1>2, GoesOn
<1>4. Idle \in WorkerState /\ Idle.pc \notin Past
  BY DEF Idle, WorkerState, WorkerPc, Past
<1>5. WorkerBecomes(i, w, Idle)
  BY <1>1, <1>4, WorkerSet DEF Settle
<1> QED BY <1>1, <1>3, <1>4, <1>5, WorkerBeside, BesideGate DEF Past

LEMMA GateCheck ==
  ASSUME OwnerInv, GateInv, NEW i \in Instances, NEW w \in Workers, Check(i, w) \/ GiveUp(i, w)
  PROVE  GateInv'
<1>1. /\ QueueTypeOK /\ UNCHANGED <<gate, hasRedis>>
      /\ worker[i][w].pc \in {"checking", "gating"}
  BY DEF OwnerInv, Check, GiveUp
<1>2. CASE worker' = [worker EXCEPT ![i][w].pc = "gating"] /\ UNCHANGED req
  <2> DEFINE t == [worker[i][w] EXCEPT !.pc = "gating"]
  <2>1. WorkerBecomes(i, w, t)
    BY <1>1, <1>2, WorkerWent DEF WorkerPc
  <2>2. worker[i][w] \in WorkerState
    BY <1>1 DEF QueueTypeOK, WorkerState
  <2>3. t \in WorkerState /\ t.pc \notin Past
    BY <2>2 DEF WorkerState, WorkerPc, Past
  <2> HIDE DEF t
  <2> QED BY <1>1, <1>2, <2>1, <2>3, WorkerBeside, BesideGate DEF Past
<1>3. CASE Settle(i, w, "dropped")
  BY <1>1, <1>3, GateDropped
<1> QED BY <1>2, <1>3 DEF Check, GiveUp, WorkerGoto

\* The worker's pc, and nothing else of the workers and requests, changes.
PcBecomes(i, w, pc) ==
  /\ worker'[i][w].pc = pc /\ worker'[i][w].job = worker[i][w].job
  /\ \A j \in Instances, v \in Workers : j # i \/ v # w => worker'[j][v] = worker[j][v]

LEMMA GotoPc ==
  ASSUME QueueTypeOK, NEW i \in Instances, NEW w \in Workers, NEW pc \in WorkerPc,
         WorkerGoto(i, w, pc)
  PROVE  PcBecomes(i, w, pc)
<1> DEFINE t == [worker[i][w] EXCEPT !.pc = pc]
<1>1. WorkerBecomes(i, w, t)
  BY WorkerWent DEF WorkerGoto
<1>2. worker[i][w] \in WorkerState
  BY DEF QueueTypeOK, WorkerState
<1>3. t.pc = pc /\ t.job = worker[i][w].job
  BY <1>2 DEF WorkerState
<1> HIDE DEF t
<1> QED BY <1>1, <1>3 DEF WorkerBecomes, PcBecomes

\* The script lets a request in and counts it, or the request is cancelled.
LEMMA GateAcquire ==
  ASSUME OwnerInv, GateInv, "refuse" \notin Faults, NEW i \in Instances, NEW w \in Workers,
         Acquire(i, w)
  PROVE  GateInv'
<1> SUFFICES ASSUME ~NoGate', Unharmed'
             PROVE  Cardinality(Holders') <= gate' /\ gate' <= GlobalMax
  BY DEF GateInv
<1>1. /\ QueueTypeOK /\ ~NoGate /\ UNCHANGED <<req, hasRedis>>
      /\ worker[i][w].pc = "gating" /\ WorkerGoto(i, w, "running")
  BY DEF OwnerInv, NoGate, Acquire
<1>2. PcBecomes(i, w, "running")
  BY <1>1, GotoPc DEF WorkerPc
<1>3. ~req[worker[i][w].job].cancelled
  BY <1>1, <1>2 DEF Unharmed, PcBecomes, Past
<1>4. Unharmed
  BY <1>1, <1>2 DEF Unharmed, PcBecomes, Past
<1>5. Room /\ gate' = gate + 1
  BY <1>1, <1>3 DEF Acquire
<1>6. Holders' = Holders \cup {<<i, w>>} /\ <<i, w>> \notin Holders
  BY <1>1, <1>2 DEF Holders, PcBecomes, Holding
<1>7. Cardinality(Holders') = Cardinality(Holders) + 1
  BY <1>6, HoldersFinite, FS_AddElement
<1>8. gate \in Int /\ GlobalMax \in Nat
  BY <1>1, QueueAssumption DEF QueueTypeOK
<1> QED BY <1>1, <1>4, <1>5, <1>7, <1>8, HoldersFinite DEF GateInv, Room

LEMMA GateReturns ==
  ASSUME OwnerInv, GateInv, NEW i \in Instances, NEW w \in Workers, HandlerReturns(i, w)
  PROVE  GateInv'
<1>1. /\ QueueTypeOK /\ UNCHANGED <<req, gate, hasRedis>>
      /\ worker[i][w].pc = "running" /\ WorkerGoto(i, w, "releasing")
  BY DEF OwnerInv, HandlerReturns, redisVars
<1>2. PcBecomes(i, w, "releasing")
  BY <1>1, GotoPc DEF WorkerPc
<1>3. Aside
  BY <1>1, <1>2 DEF Aside, PcBecomes, Past, Holding
<1> QED BY <1>1, <1>3, AsideGate

LEMMA GateRelease ==
  ASSUME OwnerInv, GateInv, "refuse" \notin Faults, NEW i \in Instances, NEW w \in Workers,
         Release(i, w)
  PROVE  GateInv'
<1> SUFFICES ASSUME ~NoGate', Unharmed'
             PROVE  Cardinality(Holders') <= gate' /\ gate' <= GlobalMax
  BY DEF GateInv
<1>1. /\ QueueTypeOK /\ ~NoGate /\ UNCHANGED <<req, hasRedis>>
      /\ worker[i][w].pc = "releasing" /\ WorkerGoto(i, w, "settling")
  BY DEF OwnerInv, NoGate, Release
<1>2. PcBecomes(i, w, "settling")
  BY <1>1, GotoPc DEF WorkerPc
<1>3. Unharmed
  BY <1>1, <1>2 DEF Unharmed, PcBecomes, Past
<1>4. gate' = gate - 1
  BY <1>1 DEF Release
<1>5. Holders' = Holders \ {<<i, w>>} /\ <<i, w>> \in Holders
  BY <1>1, <1>2 DEF Holders, PcBecomes, Holding
<1>6. Cardinality(Holders') = Cardinality(Holders) - 1
  BY <1>5, HoldersFinite, FS_RemoveElement
<1>7. gate \in Int /\ GlobalMax \in Nat
  BY <1>1, QueueAssumption DEF QueueTypeOK
<1> QED BY <1>1, <1>3, <1>4, <1>6, <1>7, HoldersFinite DEF GateInv

\* A cancelled request that was served leaves its mark.
LEMMA GateServed ==
  ASSUME OwnerInv, GateInv, NEW i \in Instances, NEW w \in Workers, Served(i, w)
  PROVE  GateInv'
<1> DEFINE r == worker[i][w].job
<1>1. /\ QueueTypeOK /\ WorkerInv /\ UNCHANGED <<gate, hasRedis>>
      /\ worker[i][w].pc = "settling" /\ worker' = [worker EXCEPT ![i][w] = Idle]
      /\ req' = [req EXCEPT ![r].pc = "served", ![r].cancelled = @ \/ "served" = "dropped"]
  BY DEF OwnerInv, Served, Settle
<1>2. r \in Requests
  BY <1>1 DEF QueueTypeOK, WorkerInv, JobPc
<1>3. Idle \in WorkerState /\ Idle.pc \notin Past /\ Idle.pc \notin Holding
  BY DEF Idle, WorkerState, WorkerPc, Past, Holding
<1>4. WorkerBecomes(i, w, Idle)
  BY <1>1, <1>3, WorkerSet
<1> HIDE DEF r
<1>5. /\ req'[r].pc = "served" /\ (req[r].cancelled => req'[r].cancelled)
      /\ \A s \in Requests \ {r} : req'[s] = req[s]
  <2>1. req \in [Requests -> Request] /\ req[r] \in Request
    BY <1>1, <1>2 DEF QueueTypeOK
  <2> QED BY <1>1, <1>2, <2>1 DEF Request
<1>6. ASSUME Unharmed' PROVE Unharmed
  <2>1. ~req[r].cancelled
    BY <1>2, <1>5, <1>6 DEF Unharmed
  <2>2. ASSUME NEW s \in Requests, req[s].cancelled
        PROVE  req[s].pc \notin {"served", "lost"}
    BY <1>5, <1>6, <2>1, <2>2 DEF Unharmed
  <2>3. ASSUME NEW j \in Instances, NEW v \in Workers, worker[j][v].pc \in Past
        PROVE  ~req[worker[j][v].job].cancelled
    <3>1. worker[j][v].job \in Requests
      BY <1>1, <2>3 DEF QueueTypeOK, WorkerInv, JobPc, Past
    <3>2. CASE worker[j][v].job = r
      BY <2>1, <3>2
    <3>3. CASE worker[j][v].job # r
      <4>1. worker'[j][v] = worker[j][v]
        BY <1>4, <3>3 DEF WorkerBecomes, r
      <4> QED BY <1>5, <1>6, <2>3, <3>1, <3>3, <4>1 DEF Unharmed
    <3> QED BY <3>2, <3>3
  <2> QED BY <2>2, <2>3 DEF Unharmed
<1>7. Holders' = Holders
  BY <1>1, <1>3, <1>4 DEF Holders, WorkerBecomes, Holding
<1>8. NoGate' = NoGate
  BY <1>1 DEF NoGate
<1> QED BY <1>1, <1>6, <1>7, <1>8 DEF GateInv

\* What died with its instance no longer holds a slot; the count stays above.
LEMMA GateCrash ==
  ASSUME OwnerInv, GateInv, NEW i \in Instances, Crash(i)
  PROVE  GateInv'
<1>1. QueueTypeOK /\ WorkerInv /\ UNCHANGED <<gate, hasRedis>>
  BY DEF OwnerInv, Crash, redisVars
<1>2. Idle.pc \notin Past /\ Idle.pc \notin Holding
  BY DEF Idle, Past, Holding
<1>3. \A j \in Instances, w \in Workers : worker'[j][w] = IF j = i THEN Idle ELSE worker[j][w]
  BY <1>1 DEF QueueTypeOK, Crash
<1>4. \A r \in Requests :
        /\ req'[r].cancelled = req[r].cancelled
        /\ req'[r].pc = IF req[r].home = i /\ req[r].pc \in Alive THEN "lost" ELSE req[r].pc
  <2>1. ASSUME NEW r \in Requests
        PROVE  /\ req'[r].cancelled = req[r].cancelled
               /\ req'[r].pc = IF req[r].home = i /\ req[r].pc \in Alive THEN "lost" ELSE req[r].pc
    <3>1. req[r] \in Request
      BY <1>1 DEF QueueTypeOK
    <3> QED BY <3>1 DEF Crash, Request, Alive
  <2> QED BY <2>1
<1>5. ASSUME Unharmed' PROVE Unharmed
  <2>1. ASSUME NEW s \in Requests, req[s].cancelled
        PROVE  req[s].pc \notin {"served", "lost"}
    BY <1>4, <1>5, <2>1 DEF Unharmed, Alive, Outstanding
  <2>2. ASSUME NEW j \in Instances, NEW w \in Workers, worker[j][w].pc \in Past
        PROVE  ~req[worker[j][w].job].cancelled
    <3>1. /\ worker[j][w].job \in Requests /\ req[worker[j][w].job].pc = "taken"
          /\ req[worker[j][w].job].home = j
      BY <1>1, <2>2 DEF QueueTypeOK, WorkerInv, JobPc, Past
    <3>2. CASE j = i
      BY <1>4, <1>5, <3>1, <3>2 DEF Unharmed, Alive, Outstanding
    <3>3. CASE j # i
      BY <1>3, <1>4, <1>5, <2>2, <3>1, <3>3 DEF Unharmed
    <3> QED BY <3>2, <3>3
  <2> QED BY <2>1, <2>2 DEF Unharmed
<1>6. Holders' \in SUBSET Holders
  BY <1>2, <1>3 DEF Holders
<1>7. Cardinality(Holders') <= Cardinality(Holders)
  BY <1>6, HoldersFinite, FS_Subset
<1>8. NoGate' = NoGate /\ gate \in Int
  BY <1>1 DEF NoGate, QueueTypeOK
<1> QED BY <1>1, <1>5, <1>7, <1>8, HoldersFinite DEF GateInv

LEMMA GateExpiry ==
  ASSUME OwnerInv, GateInv, GateExpires
  PROVE  GateInv'
<1>1. Holders' = {} /\ gate' = 0
  BY DEF GateExpires, Holders, Holding
<1> QED BY <1>1, FS_EmptySet, QueueAssumption DEF GateInv

LEMMA GateInit ==
  ASSUME QueueInit
  PROVE  GateInv
<1>1. Holders = {} /\ gate = 0
  BY DEF QueueInit, Holders, Holding, Idle
<1> QED BY <1>1, FS_EmptySet, QueueAssumption DEF GateInv

LEMMA GateNext ==
  ASSUME OwnerInv, GateInv, "refuse" \notin Faults, [QueueNext]_queueVars
  PROVE  GateInv'
<1>1. CASE ServiceStep
  <2>1. CASE \E r \in Requests : Submit(r) \/ Reject(r) \/ Enqueue(r) \/ Cancel(r)
    BY <2>1, GateService
  <2>2. CASE \/ \E u \in Users : UserExpires(u)
             \/ \E i \in Instances : Stop(i) \/ Broadcast(i)
    BY <2>2, GateStop
  <2>3. CASE \E i \in Instances : Crash(i)
    BY <2>3, GateCrash
  <2>4. CASE GateExpires
    BY <2>4, GateExpiry
  <2> QED BY <1>1, <2>1, <2>2, <2>3, <2>4 DEF ServiceStep
<1>2. CASE \E i \in Instances, u \in Users : RemoveQueued(i, u)
  BY <1>2, GateRemove
<1>3. CASE \E i \in Instances, w \in Workers : WorkerStep(i, w)
  BY <1>3, GateDequeue, GateCheck, GateAcquire, GateReturns, GateRelease, GateServed
     DEF WorkerStep, QueueSideStep
<1>4. CASE UNCHANGED queueVars
  BY <1>4, BesideGate DEF queueVars, redisVars
<1> QED BY <1>1, <1>2, <1>3, <1>4 DEF QueueNext

LEMMA GateImplies ==
  ASSUME OwnerInv, GateInv
  PROVE  GateHolds
<1> SUFFICES ASSUME \A r \in Requests : req[r].cancelled => req[r].pc \notin {"taken", "served", "lost"},
                    ~NoGate
             PROVE  Cardinality(Answering) <= GlobalMax
  BY DEF GateHolds, GateWithinLimit
<1>1. Unharmed
  <2>1. ASSUME NEW i \in Instances, NEW w \in Workers, worker[i][w].pc \in Past
        PROVE  ~req[worker[i][w].job].cancelled
    <3>1. worker[i][w].job \in Requests /\ req[worker[i][w].job].pc = "taken"
      BY <2>1 DEF OwnerInv, QueueTypeOK, WorkerInv, JobPc, Past
    <3> QED BY <3>1
  <2> QED BY <2>1 DEF Unharmed
<1>2. Answering \in SUBSET Holders
  BY DEF Answering, Holders, Holding
<1>3. Cardinality(Answering) <= Cardinality(Holders) /\ Cardinality(Answering) \in Nat
  BY <1>2, HoldersFinite, FS_Subset, FS_CardinalityType
<1>4. gate \in Int /\ GlobalMax \in Nat
  BY QueueAssumption DEF OwnerInv, QueueTypeOK
<1> QED BY <1>1, <1>3, <1>4, HoldersFinite DEF GateInv

\* Without failing commands at most GlobalMax questions run across the instances,
\* until a cancelled one passes the gate.
THEOREM GateCorrect ==
  ASSUME "refuse" \notin Faults
  PROVE  QueueSpec => []GateHolds
<1>1. OwnerInv /\ GateInv /\ [QueueNext]_queueVars => GateInv'
  BY GateNext
<1> QED BY <1>1, GateInit, GateImplies, OwnerInductive, PTL DEF QueueSpec
=============================================================================
