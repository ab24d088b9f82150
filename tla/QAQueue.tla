--------------------------------- MODULE QAQueue ---------------------------------
(***************************************************************************)
(* The question queue of the IM service: on every instance a bounded FIFO  *)
(* drained by a pool of workers that sleep on a condition variable; across *)
(* instances two Redis counters, requests per user and running questions.  *)
(* Every Redis command is a step of its own.  A question is given up after *)
(* a minute and answered well within the counters' five-minute TTL.        *)
(***************************************************************************)
EXTENDS Integers, Sequences, FiniteSets

CONSTANTS
  Instances,    \* backend replicas
  Workers,      \* worker goroutines of an instance
  Users,        \* user keys
  Requests,     \* requests submitted in a behaviour
  MaxSize,      \* queue capacity of an instance
  MaxPerUser,   \* requests of a user
  GlobalMax,    \* questions running across instances, 0: no limit
  RedisModes,   \* {TRUE}, {FALSE} (single-instance mode) or both
  Faults        \* what happens besides questions, see FaultKinds

FaultKinds == {"refuse",    \* a Redis command returns an error
               "cancel",    \* the channel that delivered a request is stopped
               "timeout",   \* a request waits longer than queueTimeout
               "crash",     \* an instance restarts without decrementing
               "stop"}      \* an instance shuts down

ASSUME QueueAssumption ==
  /\ MaxSize \in Nat /\ MaxPerUser \in Nat /\ GlobalMax \in Nat
  /\ IsFiniteSet(Instances) /\ IsFiniteSet(Workers) /\ IsFiniteSet(Requests)
  /\ "none" \notin Requests
  /\ RedisModes \subseteq BOOLEAN
  /\ Faults \subseteq FaultKinds

VARIABLES
  req,        \* req[r]: the life of request r
  queue,      \* queue[i]: waiting requests of instance i
  perUser,    \* perUser[i][u]: queued requests of u, kept without Redis only
  shut,       \* shut[i]: whether Stop has run
  worker,     \* worker[i][w]
  userCount,  \* Redis: im:queue:user:<u>
  gate,       \* Redis: im:global:active
  hasRedis    \* whether Redis is configured; never changes

redisVars == <<userCount, gate, hasRedis>>
queueVars == <<req, queue, perUser, shut, worker, redisVars>>

Outstanding == {"counted", "queued", "taken"}
Over == {"refused", "removed", "served", "dropped", "lost"}
Request == [pc : {"new", "over"} \cup Outstanding \cup Over, user : Users,
            home : Instances, cancelled : BOOLEAN]
WorkerPc == {"ready", "waiting", "checking", "gating", "running", "releasing",
             "settling", "exited"}

QueueTypeOK ==
  /\ req \in [Requests -> Request]
  /\ queue \in [Instances -> Seq(Requests)]
  /\ \A i \in Instances : Len(queue[i]) <= MaxSize
  /\ perUser \in [Instances -> [Users -> Nat]]
  /\ shut \in [Instances -> {"open", "closing", "closed"}]
  /\ worker \in [Instances -> [Workers -> [pc : WorkerPc, job : Requests \cup {"none"}]]]
  /\ userCount \in [Users -> Int]
  /\ gate \in Int
  /\ hasRedis \in BOOLEAN

Idle == [pc |-> "ready", job |-> "none"]

QueueInit ==
  /\ req \in [Requests -> [pc : {"new"}, user : Users, home : Instances, cancelled : {FALSE}]]
  /\ queue = [i \in Instances |-> <<>>]
  /\ perUser = [i \in Instances |-> [u \in Users |-> 0]]
  /\ shut = [i \in Instances |-> "open"]
  /\ worker = [i \in Instances |-> [w \in Workers |-> Idle]]
  /\ userCount = [u \in Users |-> 0]
  /\ gate = 0
  /\ hasRedis \in RedisModes

-----------------------------------------------------------------------------
(* The Redis counters                                                      *)

\* Mutant: the slot of a dropped request is not given back.
KeepUser(u) == UNCHANGED userCount

\* redisDecrUser: the error of the command is dropped.
DecrUser(u) ==
  IF hasRedis
    THEN \/ userCount' = [userCount EXCEPT ![u] = @ - 1]
         \/ "refuse" \in Faults /\ UNCHANGED userCount
    ELSE UNCHANGED userCount

\* The counters' TTL, renewed by every INCR and by every attempt at the gate:
\* a counter lives while somebody it counts, or who retries, does.  A key made
\* by a DECR has no TTL, so only a positive gate is sure to expire.
UserExpires(u) ==
  /\ userCount[u] # 0
  /\ \A r \in Requests : req[r].user = u => req[r].pc \notin Outstanding \cup {"over"}
  /\ userCount' = [userCount EXCEPT ![u] = 0]
  /\ UNCHANGED <<req, queue, perUser, shut, worker, gate, hasRedis>>

GateExpires ==
  /\ gate # 0
  /\ \A i \in Instances, w \in Workers :
       worker[i][w].pc \notin {"gating", "running", "releasing"}
  /\ gate' = 0
  /\ UNCHANGED <<req, queue, perUser, shut, worker, userCount, hasRedis>>

-----------------------------------------------------------------------------
(* Enqueue                                                                 *)

ReqGoto(r, pc) == req' = [req EXCEPT ![r].pc = pc]

\* Mutant: one request too many.
CountedLoose(u) == userCount[u] <= MaxPerUser
\* Whether INCR leaves the counter within the limit.
Counted(u) == userCount[u] < MaxPerUser

\* redisCheckAndIncrUser: INCR, and a DECR in a second command when it went over
\* the limit.  An error counts nothing and admits the request.
Submit(r) ==
  /\ req[r].pc = "new"
  /\ IF hasRedis
       THEN \/ /\ ReqGoto(r, IF Counted(req[r].user) THEN "counted" ELSE "over")
               /\ userCount' = [userCount EXCEPT ![req[r].user] = @ + 1]
            \/ /\ "refuse" \in Faults
               /\ ReqGoto(r, "counted")
               /\ UNCHANGED userCount
       ELSE ReqGoto(r, "counted") /\ UNCHANGED userCount
  /\ UNCHANGED <<queue, perUser, shut, worker, gate, hasRedis>>

Reject(r) ==
  /\ req[r].pc = "over"
  /\ DecrUser(req[r].user)
  /\ ReqGoto(r, "refused")
  /\ UNCHANGED <<queue, perUser, shut, worker, gate, hasRedis>>

\* Mutant: nobody is woken.
NoSignal(i) == UNCHANGED worker

\* cond.Signal wakes one sleeping worker, if any sleeps.
Signal(i) ==
  LET sleeping == {w \in Workers : worker[i][w].pc = "waiting"}
  IN IF sleeping = {} THEN UNCHANGED worker
     ELSE \E w \in sleeping : worker' = [worker EXCEPT ![i][w].pc = "ready"]

LocalFull(i, u) == ~hasRedis /\ perUser[i][u] >= MaxPerUser

\* Under the queue's lock: closed, full and, without Redis, the local limit.
Enqueue(r) ==
  LET i == req[r].home
      u == req[r].user
  IN /\ req[r].pc = "counted"
     /\ IF shut[i] # "open" \/ Len(queue[i]) >= MaxSize \/ LocalFull(i, u)
          THEN /\ DecrUser(u)
               /\ ReqGoto(r, "refused")
               /\ UNCHANGED <<queue, perUser, worker>>
          ELSE /\ queue' = [queue EXCEPT ![i] = Append(@, r)]
               /\ ReqGoto(r, "queued")
               /\ perUser' = IF hasRedis THEN perUser ELSE [perUser EXCEPT ![i][u] = @ + 1]
               /\ Signal(i)
               /\ UNCHANGED userCount
     /\ UNCHANGED <<shut, gate, hasRedis>>

-----------------------------------------------------------------------------
(* Remove and Stop                                                         *)

\* Mutant: without the Redis guard and the floor.
LocalReleaseAlways(i, u) == perUser' = [perUser EXCEPT ![i][u] = @ - 1]
\* Mutant: a request that leaves the queue keeps its local slot.
LocalKeep(i, u) == UNCHANGED perUser

\* One local slot is given back, without Redis only; zero is an absent key.
LocalRelease(i, u) ==
  perUser' = IF hasRedis THEN perUser
             ELSE [perUser EXCEPT ![i][u] = IF @ > 0 THEN @ - 1 ELSE 0]

\* Mutant: the neighbour leaves the queue instead.
RemoveNeighbour(i, u) ==
  \E k \in 1 .. Len(queue[i]) - 1 :
    LET r == queue[i][k]
    IN /\ req[r].user = u
       /\ queue' = [queue EXCEPT ![i] = SubSeq(@, 1, k) \o SubSeq(@, k + 2, Len(@))]
       /\ req' = [req EXCEPT ![r].pc = "removed", ![r].cancelled = TRUE]
       /\ LocalRelease(i, u)
       /\ DecrUser(u)
       /\ UNCHANGED <<shut, worker, gate, hasRedis>>

\* The user's first waiting request: req.cancel and out of the queue.
RemoveQueued(i, u) ==
  \E k \in 1 .. Len(queue[i]) :
    LET r == queue[i][k]
    IN /\ req[r].user = u
       /\ \A j \in 1 .. k - 1 : req[queue[i][j]].user # u
       /\ queue' = [queue EXCEPT ![i] = SubSeq(@, 1, k - 1) \o SubSeq(@, k + 1, Len(@))]
       /\ req' = [req EXCEPT ![r].pc = "removed", ![r].cancelled = TRUE]
       /\ LocalRelease(i, u)
       /\ DecrUser(u)
       /\ UNCHANGED <<shut, worker, gate, hasRedis>>

Stop(i) ==
  /\ "stop" \in Faults
  /\ shut[i] = "open"
  /\ shut' = [shut EXCEPT ![i] = "closing"]
  /\ UNCHANGED <<req, queue, perUser, worker, redisVars>>

\* Mutant: Signal in place of Broadcast.
SignalOne(i) ==
  /\ shut[i] = "closing"
  /\ shut' = [shut EXCEPT ![i] = "closed"]
  /\ Signal(i)
  /\ UNCHANGED <<req, queue, perUser, redisVars>>

\* The broadcast, after the lock is released.
Broadcast(i) ==
  /\ shut[i] = "closing"
  /\ shut' = [shut EXCEPT ![i] = "closed"]
  /\ worker' = [worker EXCEPT ![i] = [w \in Workers |->
                  IF @[w].pc = "waiting" THEN Idle ELSE @[w]]]
  /\ UNCHANGED <<req, queue, perUser, redisVars>>

-----------------------------------------------------------------------------
(* runWorker                                                               *)

WorkerGoto(i, w, pc) == worker' = [worker EXCEPT ![i][w].pc = pc]

\* Mutant: a closed queue is left with requests in it.
ExitEarly(i) == shut[i] # "open"
MayExit(i) == shut[i] # "open" /\ queue[i] = <<>>

\* dequeue, under the lock: sleep, exit, or take the first request.
Dequeue(i, w) ==
  /\ worker[i][w].pc = "ready"
  /\ \/ /\ queue[i] = <<>> /\ shut[i] = "open"
        /\ WorkerGoto(i, w, "waiting")
        /\ UNCHANGED <<req, queue, perUser>>
     \/ /\ MayExit(i)
        /\ WorkerGoto(i, w, "exited")
        /\ UNCHANGED <<req, queue, perUser>>
     \/ /\ queue[i] # <<>> /\ ~MayExit(i)
        /\ worker' = [worker EXCEPT ![i][w] = [pc |-> "checking", job |-> Head(queue[i])]]
        /\ queue' = [queue EXCEPT ![i] = Tail(@)]
        /\ ReqGoto(Head(queue[i]), "taken")
        /\ LocalRelease(i, req[Head(queue[i])].user)
  /\ UNCHANGED <<shut, redisVars>>

\* The end of a request's turn: its user slot is given back, and the context of
\* one that is dropped is cancelled.
Settle(i, w, outcome) ==
  LET r == worker[i][w].job
  IN /\ DecrUser(req[r].user)
     /\ req' = [req EXCEPT ![r].pc = outcome,
                           ![r].cancelled = @ \/ outcome = "dropped"]
     /\ worker' = [worker EXCEPT ![i][w] = Idle]

\* A request cancelled, or too old, is dropped.
Check(i, w) ==
  /\ worker[i][w].pc = "checking"
  /\ \/ /\ ~req[worker[i][w].job].cancelled
        /\ WorkerGoto(i, w, "gating")
        /\ UNCHANGED <<req, userCount>>
     \/ /\ req[worker[i][w].job].cancelled \/ "timeout" \in Faults
        /\ Settle(i, w, "dropped")
  /\ UNCHANGED <<queue, perUser, shut, gate, hasRedis>>

NoGate == GlobalMax = 0 \/ ~hasRedis
\* Mutant: the script compares before it increments.
RoomLoose == gate <= GlobalMax
Room == gate < GlobalMax

\* acquireGlobalGate: a slot, retried while there is none.  Any error of the
\* script lets the request through uncounted, and a cancelled context makes the
\* client return an error.
Acquire(i, w) ==
  /\ worker[i][w].pc = "gating"
  /\ \/ /\ NoGate \/ "refuse" \in Faults \/ req[worker[i][w].job].cancelled
        /\ UNCHANGED gate
     \/ /\ ~NoGate /\ Room /\ ~req[worker[i][w].job].cancelled
        /\ gate' = gate + 1
  /\ WorkerGoto(i, w, "running")
  /\ UNCHANGED <<req, queue, perUser, shut, userCount, hasRedis>>

\* The context is cancelled while it waits between two attempts.
GiveUp(i, w) ==
  /\ worker[i][w].pc = "gating"
  /\ ~NoGate
  /\ req[worker[i][w].job].cancelled
  /\ Settle(i, w, "dropped")
  /\ UNCHANGED <<queue, perUser, shut, gate, hasRedis>>

\* The handler returns.
HandlerReturns(i, w) ==
  /\ worker[i][w].pc = "running"
  /\ WorkerGoto(i, w, "releasing")
  /\ UNCHANGED <<req, queue, perUser, shut, redisVars>>

\* releaseGlobalGate
Release(i, w) ==
  /\ worker[i][w].pc = "releasing"
  /\ \/ NoGate /\ UNCHANGED gate
     \/ ~NoGate /\ gate' = gate - 1
     \/ "refuse" \in Faults /\ UNCHANGED gate
  /\ WorkerGoto(i, w, "settling")
  /\ UNCHANGED <<req, queue, perUser, shut, userCount, hasRedis>>

Served(i, w) ==
  /\ worker[i][w].pc = "settling"
  /\ Settle(i, w, "served")
  /\ UNCHANGED <<queue, perUser, shut, gate, hasRedis>>

QueueSideStep(i, w) ==
  Dequeue(i, w) \/ Check(i, w) \/ Acquire(i, w) \/ GiveUp(i, w) \/ Release(i, w) \/ Served(i, w)

WorkerStep(i, w) == QueueSideStep(i, w) \/ HandlerReturns(i, w)

-----------------------------------------------------------------------------
(* The environment                                                         *)

\* The context a long-lived connection handed over ends with the connection.
Cancel(r) ==
  /\ "cancel" \in Faults
  /\ req[r].pc \in Outstanding
  /\ ~req[r].cancelled
  /\ req' = [req EXCEPT ![r].cancelled = TRUE]
  /\ UNCHANGED <<queue, perUser, shut, worker, redisVars>>

\* The process dies and is started again; what Redis counted stays.
Crash(i) ==
  /\ "crash" \in Faults
  /\ req' = [r \in Requests |->
               IF req[r].home = i /\ req[r].pc \in Outstanding \cup {"over"}
                 THEN [req[r] EXCEPT !.pc = "lost"] ELSE req[r]]
  /\ queue' = [queue EXCEPT ![i] = <<>>]
  /\ perUser' = [perUser EXCEPT ![i] = [u \in Users |-> 0]]
  /\ shut' = [shut EXCEPT ![i] = "open"]
  /\ worker' = [worker EXCEPT ![i] = [w \in Workers |-> Idle]]
  /\ UNCHANGED redisVars

ServiceStep ==
  \/ \E r \in Requests : Submit(r) \/ Reject(r) \/ Enqueue(r) \/ Cancel(r)
  \/ \E u \in Users : UserExpires(u)
  \/ \E i \in Instances : Stop(i) \/ Broadcast(i) \/ Crash(i)
  \/ GateExpires

QueueNext ==
  \/ ServiceStep
  \/ \E i \in Instances, u \in Users : RemoveQueued(i, u)      \* a /stop command
  \/ \E i \in Instances, w \in Workers : WorkerStep(i, w)

\* Goroutines run, the handler returns and Redis expires keys; users, failures
\* and shutdowns come as they please.
ServiceFairness ==
  /\ \A r \in Requests : WF_queueVars(Reject(r)) /\ WF_queueVars(Enqueue(r))
  /\ \A i \in Instances : WF_queueVars(Broadcast(i))
  /\ WF_queueVars(gate > 0 /\ GateExpires)

WorkerFairness == \A i \in Instances, w \in Workers : WF_queueVars(WorkerStep(i, w))

QueueSpec == QueueInit /\ [][QueueNext]_queueVars /\ ServiceFairness /\ WorkerFairness

-----------------------------------------------------------------------------
(* Properties                                                              *)

RequestsOf(u, stages) == {r \in Requests : req[r].user = u /\ req[r].pc \in stages}

\* Each of the exits of a request (refused, removed, dropped, given up, served)
\* gives its user slot back exactly once: the Redis counter covers the requests
\* still on their way, on whichever instance, and exceeds them only by what
\* died with an instance.
UserCountExact ==
  hasRedis => \A u \in Users :
    LET outstanding == Cardinality(RequestsOf(u, Outstanding \cup {"over"}))
    IN userCount[u] \in outstanding .. outstanding + Cardinality(RequestsOf(u, {"lost"}))

\* The local counter is the number of queued requests of the user.
LocalCountExact ==
  ~hasRedis => \A i \in Instances, u \in Users :
    perUser[i][u] = Cardinality({r \in RequestsOf(u, {"queued"}) : req[r].home = i})

\* No user has more than MaxPerUser admitted requests across the instances.
UserWithinLimit ==
  hasRedis => \A u \in Users : Cardinality(RequestsOf(u, Outstanding)) <= MaxPerUser

\* Without Redis, no user has more than that in a queue.
LocalWithinLimit ==
  ~hasRedis => \A i \in Instances, u \in Users :
    Cardinality({r \in RequestsOf(u, {"queued"}) : req[r].home = i}) <= MaxPerUser

\* Workers that run a question somebody still waits for.
Answering ==
  {p \in Instances \X Workers :
     worker[p[1]][p[2]].pc = "running" /\ ~req[worker[p[1]][p[2]].job].cancelled}

\* The claim at globalMaxWorkers: across the instances no more than GlobalMax
\* questions run at a time.
GateWithinLimit == ~NoGate => Cardinality(Answering) <= GlobalMax

\* It holds, through timeouts, shutdowns and crashes, until a request is cancelled
\* that a worker has taken and does not drop.
GateHolds ==
  (\A r \in Requests : req[r].cancelled => req[r].pc \notin {"taken", "served", "lost"})
    => GateWithinLimit

\* Under every failure a waiting request is in its queue once, and a taken one
\* has exactly one worker: none is answered twice or left behind.
OneOwner ==
  \A r \in Requests :
    /\ Cardinality({p \in Instances \X (1 .. MaxSize) :
                       p[2] <= Len(queue[p[1]]) /\ queue[p[1]][p[2]] = r})
         = IF req[r].pc = "queued" THEN 1 ELSE 0
    /\ Cardinality({p \in Instances \X Workers : worker[p[1]][p[2]].job = r})
         = IF req[r].pc = "taken" THEN 1 ELSE 0

\* No wakeup is lost: whatever is queued is answered, dropped or removed, also
\* when its instance stops.
EverySettled ==
  \A r \in Requests : (req[r].pc \in Outstanding \cup {"over"}) ~> (req[r].pc \in Over)

\* After Stop every worker drains the queue and exits.
StoppedWorkersExit ==
  \A i \in Instances :
    (shut[i] # "open") ~> (shut[i] = "closed" /\ queue[i] = <<>>
                            /\ \A w \in Workers : worker[i][w].pc = "exited")
=============================================================================
