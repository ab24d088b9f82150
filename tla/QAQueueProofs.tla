------------------------------ MODULE QAQueueProofs ------------------------------
(***************************************************************************)
(* For any number of replicas, workers, users and requests and under every *)
(* fault: every variable keeps its type, the queue its bound, a queued     *)
(* request is in its queue once and a taken one has exactly one worker.    *)
(***************************************************************************)
EXTENDS QAQueue, FiniteSetTheorems, SequenceTheorems, TLAPS

WorkerState == [pc : WorkerPc, job : Requests \cup {"none"}]

\* A step makes t of one worker, or of one request.
WorkerBecomes(i, w, t) ==
  /\ worker' \in [Instances -> [Workers -> WorkerState]]
  /\ worker'[i][w] = t
  /\ \A j \in Instances, v \in Workers : j # i \/ v # w => worker'[j][v] = worker[j][v]

ReqBecomes(r, t) ==
  /\ req' \in [Requests -> Request]
  /\ req'[r] = t
  /\ \A s \in Requests \ {r} : req'[s] = req[s]

\* One worker is replaced.
LEMMA WorkerSet ==
  ASSUME QueueTypeOK, NEW i \in Instances, NEW w \in Workers, NEW t \in WorkerState,
         worker' = [worker EXCEPT ![i][w] = t]
  PROVE  WorkerBecomes(i, w, t)
<1>1. worker \in [Instances -> [Workers -> WorkerState]]
  BY DEF QueueTypeOK, WorkerState
<1> QED BY <1>1 DEF WorkerBecomes

\* One worker goes on.
LEMMA WorkerWent ==
  ASSUME QueueTypeOK, NEW i \in Instances, NEW w \in Workers, NEW pc \in WorkerPc,
         worker' = [worker EXCEPT ![i][w].pc = pc]
  PROVE  WorkerBecomes(i, w, [worker[i][w] EXCEPT !.pc = pc])
<1> DEFINE t == [worker[i][w] EXCEPT !.pc = pc]
<1>1. worker[i][w] \in WorkerState
  BY DEF QueueTypeOK, WorkerState
<1>2. t \in WorkerState
  BY <1>1 DEF WorkerState
<1>3. worker' = [worker EXCEPT ![i][w] = t]
  BY <1>1 DEF QueueTypeOK, WorkerState
<1> HIDE DEF t
<1>4. WorkerBecomes(i, w, t)
  BY <1>2, <1>3, WorkerSet
<1> QED BY <1>4 DEF t

\* One request goes on.
LEMMA ReqWent ==
  ASSUME QueueTypeOK, NEW r \in Requests,
         NEW pc \in {"new", "over"} \cup Outstanding \cup Over, ReqGoto(r, pc)
  PROVE  ReqBecomes(r, [req[r] EXCEPT !.pc = pc])
<1> DEFINE t == [req[r] EXCEPT !.pc = pc]
<1>1. req[r] \in Request
  BY DEF QueueTypeOK
<1>2. t \in Request
  BY <1>1 DEF Request
<1>3. req' = [req EXCEPT ![r] = t]
  BY DEF ReqGoto
<1> HIDE DEF t
<1>4. ReqBecomes(r, t)
  BY <1>2, <1>3 DEF QueueTypeOK, ReqBecomes
<1> QED BY <1>4 DEF t

\* No worker takes or leaves a job; some may wake, sleep or go on.
JobPc == {"checking", "gating", "running", "releasing", "settling"}
Moved ==
  /\ worker' \in [Instances -> [Workers -> WorkerState]]
  /\ \A j \in Instances, v \in Workers :
       /\ worker'[j][v].job = worker[j][v].job
       /\ worker'[j][v].pc \in JobPc <=> worker[j][v].pc \in JobPc

LEMMA WentMoved ==
  ASSUME QueueTypeOK, NEW i \in Instances, NEW w \in Workers, NEW pc \in WorkerPc,
         worker' = [worker EXCEPT ![i][w].pc = pc],
         pc \in JobPc <=> worker[i][w].pc \in JobPc
  PROVE  Moved
<1> DEFINE t == [worker[i][w] EXCEPT !.pc = pc]
<1>1. WorkerBecomes(i, w, t)
  BY WorkerWent
<1>2. worker[i][w] \in WorkerState
  BY DEF QueueTypeOK, WorkerState
<1>3. t.job = worker[i][w].job /\ t.pc = pc
  BY <1>2 DEF WorkerState
<1> HIDE DEF t
<1> QED BY <1>1, <1>3 DEF WorkerBecomes, Moved

LEMMA StillMoved ==
  ASSUME QueueTypeOK, UNCHANGED worker
  PROVE  Moved
BY DEF QueueTypeOK, WorkerState, Moved

LEMMA SignalMoved ==
  ASSUME QueueTypeOK, NEW i \in Instances, Signal(i)
  PROVE  Moved
<1>1. CASE UNCHANGED worker
  BY <1>1, StillMoved
<1>2. CASE \E w \in Workers : worker[i][w].pc = "waiting" /\ worker' = [worker EXCEPT ![i][w].pc = "ready"]
  <2>1. PICK w \in Workers : worker[i][w].pc = "waiting" /\ worker' = [worker EXCEPT ![i][w].pc = "ready"]
    BY <1>2
  <2> QED BY <2>1, WentMoved DEF JobPc, WorkerPc
<1> QED BY <1>1, <1>2 DEF Signal
-----------------------------------------------------------------------------
(* Workers and their requests.                                             *)

WorkerInv ==
  /\ \A i \in Instances, w \in Workers :
       /\ worker[i][w].pc \in JobPc <=> worker[i][w].job # "none"
       /\ worker[i][w].job # "none" =>
            req[worker[i][w].job].pc = "taken" /\ req[worker[i][w].job].home = i
  /\ \A i \in Instances, w, v \in Workers :
       worker[i][w].job = worker[i][v].job /\ worker[i][w].job # "none" => w = v
  /\ \A r \in Requests : req[r].pc = "taken" => \E w \in Workers : worker[req[r].home][w].job = r

\* The same requests are at stage pc as before.
Keeps(pc) == \A r \in Requests : /\ req'[r].home = req[r].home
                                 /\ req'[r].pc = pc <=> req[r].pc = pc

LEMMA WorkersStay ==
  ASSUME QueueTypeOK, WorkerInv, Moved, Keeps("taken"), req' \in [Requests -> Request]
  PROVE  WorkerInv'
<1>1. \A i \in Instances, w \in Workers :
         /\ worker[i][w].job \in Requests \cup {"none"}
         /\ worker'[i][w].job = worker[i][w].job
         /\ worker'[i][w].pc \in JobPc <=> worker[i][w].pc \in JobPc
  BY DEF QueueTypeOK, Moved
<1>2. \A r \in Requests : req[r].home \in Instances
  BY DEF QueueTypeOK, Request
<1> QED BY <1>1, <1>2 DEF WorkerInv, Keeps

\* A free worker takes a queued request of its instance.
LEMMA WorkerTakes ==
  ASSUME QueueTypeOK, QueueAssumption, WorkerInv, NEW i \in Instances, NEW w \in Workers, NEW r \in Requests,
         worker[i][w].job = "none", req[r].pc # "taken", req[r].home = i,
         NEW s, WorkerBecomes(i, w, s), s.pc \in JobPc, s.job = r,
         NEW t, ReqBecomes(r, t), t.pc = "taken", t.home = i
  PROVE  WorkerInv'
<1>1. \A j \in Instances, v \in Workers : worker[j][v].job \in Requests \cup {"none"}
  BY DEF QueueTypeOK
<1>2. \A j \in Instances, v \in Workers : worker[j][v].job # r
  BY DEF WorkerInv
<1>3. r # "none"
  BY DEF QueueAssumption
<1>4. \A j \in Instances, v \in Workers :
         IF j = i /\ v = w THEN worker'[j][v].pc \in JobPc /\ worker'[j][v].job = r
                           ELSE worker'[j][v] = worker[j][v]
  BY DEF WorkerBecomes
<1>5. \A q \in Requests : /\ req[q].home \in Instances
                          /\ IF q = r THEN req'[q].pc = "taken" /\ req'[q].home = i
                                      ELSE req'[q] = req[q]
  BY DEF ReqBecomes, QueueTypeOK, Request
<1> QED BY <1>1, <1>2, <1>3, <1>4, <1>5 DEF WorkerInv

\* A worker is done with its request.
LEMMA WorkerLeaves ==
  ASSUME QueueTypeOK, WorkerInv, NEW i \in Instances, NEW w \in Workers,
         worker[i][w].job # "none", WorkerBecomes(i, w, Idle),
         NEW t, ReqBecomes(worker[i][w].job, t), t.pc # "taken"
  PROVE  WorkerInv'
<1> DEFINE r == worker[i][w].job
<1>1. \A j \in Instances, v \in Workers : worker[j][v].job \in Requests \cup {"none"}
  BY DEF QueueTypeOK
<1>2. \A j \in Instances, v \in Workers : worker[j][v].job = r => j = i /\ v = w
  BY <1>1 DEF WorkerInv
<1>3. Idle.pc \notin JobPc /\ Idle.job = "none"
  BY DEF Idle, JobPc
<1>4. \A j \in Instances, v \in Workers :
         IF j = i /\ v = w THEN worker'[j][v].pc \notin JobPc /\ worker'[j][v].job = "none"
                           ELSE worker'[j][v] = worker[j][v]
  BY <1>3 DEF WorkerBecomes
<1>5. \A q \in Requests : /\ req[q].home \in Instances
                          /\ IF q = r THEN req'[q].pc # "taken" ELSE req'[q] = req[q]
  BY <1>1 DEF ReqBecomes, QueueTypeOK, Request
<1> HIDE DEF r
<1>6. ASSUME NEW j \in Instances, NEW v \in Workers
      PROVE  /\ worker'[j][v].pc \in JobPc <=> worker'[j][v].job # "none"
             /\ worker'[j][v].job # "none" =>
                  req'[worker'[j][v].job].pc = "taken" /\ req'[worker'[j][v].job].home = j
  BY <1>1, <1>2, <1>4, <1>5 DEF WorkerInv
<1>7. ASSUME NEW j \in Instances, NEW v \in Workers, NEW u \in Workers,
             worker'[j][v].job = worker'[j][u].job, worker'[j][v].job # "none"
      PROVE  v = u
  <2>1. worker'[j][v] = worker[j][v] /\ worker'[j][u] = worker[j][u]
    BY <1>4, <1>7
  <2> QED BY <1>7, <2>1 DEF WorkerInv
<1>8. ASSUME NEW q \in Requests, req'[q].pc = "taken"
      PROVE  \E v \in Workers : worker'[req'[q].home][v].job = q
  <2>1. q # r /\ req'[q] = req[q] /\ req[q].home \in Instances
    BY <1>5, <1>8
  <2>2. PICK v \in Workers : worker[req[q].home][v].job = q
    BY <1>8, <2>1 DEF WorkerInv
  <2>3. worker'[req[q].home][v] = worker[req[q].home][v]
    BY <1>4, <2>1, <2>2 DEF r
  <2> QED BY <2>1, <2>2, <2>3
<1> QED BY <1>6, <1>7, <1>8 DEF WorkerInv

-----------------------------------------------------------------------------
(* Queues and their requests.                                              *)

QueueInv ==
  /\ \A i \in Instances : \A k \in 1 .. Len(queue[i]) :
       req[queue[i][k]].pc = "queued" /\ req[queue[i][k]].home = i
  /\ \A i \in Instances : \A k, l \in 1 .. Len(queue[i]) : queue[i][k] = queue[i][l] => k = l
  /\ \A r \in Requests : req[r].pc = "queued" =>
       \E k \in 1 .. Len(queue[req[r].home]) : queue[req[r].home][k] = r

LEMMA QueuesStay ==
  ASSUME QueueTypeOK, QueueInv, UNCHANGED queue, Keeps("queued")
  PROVE  QueueInv'
<1>1. \A i \in Instances : \A k \in 1 .. Len(queue[i]) : queue[i][k] \in Requests
  BY DEF QueueTypeOK
<1>2. \A r \in Requests : req[r].home \in Instances
  BY DEF QueueTypeOK, Request
<1> QED BY <1>1, <1>2 DEF QueueInv, Keeps

\* A request is appended.
LEMMA QueueGrows ==
  ASSUME QueueTypeOK, QueueInv, NEW i \in Instances, NEW r \in Requests,
         queue' = [queue EXCEPT ![i] = Append(@, r)], req[r].pc # "queued",
         NEW t, ReqBecomes(r, t), t.pc = "queued", t.home = i
  PROVE  QueueInv'
<1> DEFINE n == Len(queue[i])
<1>1. \A j \in Instances : queue[j] \in Seq(Requests)
  BY DEF QueueTypeOK
<1>2. /\ n \in Nat /\ Len(queue'[i]) = n + 1
      /\ queue'[i][n + 1] = r
      /\ \A k \in 1 .. n : queue'[i][k] = queue[i][k]
  BY <1>1 DEF QueueTypeOK
<1>3. \A j \in Instances \ {i} : queue'[j] = queue[j]
  BY DEF QueueTypeOK
<1>4. \A j \in Instances : \A k \in 1 .. Len(queue[j]) : queue[j][k] \in Requests /\ queue[j][k] # r
  BY <1>1 DEF QueueInv
<1>5. \A q \in Requests : /\ req[q].home \in Instances
                          /\ IF q = r THEN req'[q].pc = "queued" /\ req'[q].home = i
                                      ELSE req'[q] = req[q]
  BY DEF ReqBecomes, QueueTypeOK, Request
<1>6. ASSUME NEW j \in Instances, NEW k \in 1 .. Len(queue'[j])
      PROVE  req'[queue'[j][k]].pc = "queued" /\ req'[queue'[j][k]].home = j
  <2>1. CASE j = i
    <3> HIDE DEF n
    <3>1. k = n + 1 \/ k \in 1 .. n
      BY <1>2, <2>1
    <3> QED BY <1>2, <1>4, <1>5, <2>1, <3>1 DEF QueueInv, n
  <2>2. CASE j # i
    BY <1>3, <1>4, <1>5, <2>2 DEF QueueInv
  <2> QED BY <2>1, <2>2
<1>7. ASSUME NEW j \in Instances, NEW k \in 1 .. Len(queue'[j]), NEW l \in 1 .. Len(queue'[j]),
             queue'[j][k] = queue'[j][l]
      PROVE  k = l
  <2>1. CASE j = i
    <3>1. k = n + 1 \/ k \in 1 .. n
      BY <1>2, <2>1
    <3>2. l = n + 1 \/ l \in 1 .. n
      BY <1>2, <2>1
    <3> QED BY <1>2, <1>4, <1>7, <2>1, <3>1, <3>2 DEF QueueInv
  <2>2. CASE j # i
    BY <1>3, <1>7, <2>2 DEF QueueInv
  <2> QED BY <2>1, <2>2
<1>8. ASSUME NEW q \in Requests, req'[q].pc = "queued"
      PROVE  \E k \in 1 .. Len(queue'[req'[q].home]) : queue'[req'[q].home][k] = q
  <2>1. CASE q = r
    <3>1. n + 1 \in 1 .. Len(queue'[i]) /\ queue'[i][n + 1] = q
      BY <1>2, <2>1
    <3> QED BY <1>5, <2>1, <3>1
  <2>2. CASE q # r
    <3>1. req[q].pc = "queued" /\ req'[q].home = req[q].home /\ req[q].home \in Instances
      BY <1>5, <1>8, <2>2
    <3>2. PICK k \in 1 .. Len(queue[req[q].home]) : queue[req[q].home][k] = q
      BY <3>1 DEF QueueInv
    <3>3. k \in 1 .. Len(queue'[req[q].home]) /\ queue'[req[q].home][k] = q
      BY <1>2, <1>3, <3>1, <3>2
    <3> QED BY <3>1, <3>3
  <2> QED BY <2>1, <2>2
<1> QED BY <1>6, <1>7, <1>8 DEF QueueInv

\* What is left of a sequence without its k-th element.
LEMMA Without ==
  ASSUME NEW S, NEW s \in Seq(S), NEW k \in 1 .. Len(s)
  PROVE  LET d == SubSeq(s, 1, k - 1) \o SubSeq(s, k + 1, Len(s))
         IN /\ d \in Seq(S)
            /\ Len(d) = Len(s) - 1
            /\ \A l \in 1 .. Len(s) - 1 : d[l] = IF l < k THEN s[l] ELSE s[l + 1]
<1> DEFINE a == SubSeq(s, 1, k - 1)
           b == SubSeq(s, k + 1, Len(s))
<1>1. Len(s) \in Nat /\ \A l \in 1 .. Len(s) : s[l] \in S
  BY LenProperties, ElementOfSeq
<1>2. a \in Seq(S) /\ Len(a) = k - 1 /\ \A l \in 1 .. k - 1 : a[l] = s[l]
  <2>1. \A l \in 1 .. k - 1 : s[l] \in S
    BY <1>1
  <2>2. /\ a \in Seq(S)
        /\ Len(a) = IF 1 <= k - 1 THEN k - 1 - 1 + 1 ELSE 0
        /\ \A l \in 1 .. k - 1 - 1 + 1 : a[l] = s[1 + l - 1]
    <3> HIDE DEF a
    <3>1. k - 1 \in Int /\ 1 \in Int
      BY <1>1
    <3> QED BY <2>1, <3>1, SubSeqProperties DEF a
  <2> HIDE DEF a
  <2> QED BY <1>1, <2>2
<1>3. b \in Seq(S) /\ Len(b) = Len(s) - k /\ \A l \in 1 .. Len(s) - k : b[l] = s[k + l]
  <2>1. \A l \in k + 1 .. Len(s) : s[l] \in S
    BY <1>1
  <2>2. /\ b \in Seq(S)
        /\ Len(b) = IF k + 1 <= Len(s) THEN Len(s) - (k + 1) + 1 ELSE 0
        /\ \A l \in 1 .. Len(s) - (k + 1) + 1 : b[l] = s[k + 1 + l - 1]
    <3> HIDE DEF b
    <3>1. k + 1 \in Int /\ Len(s) \in Int
      BY <1>1
    <3> QED BY <2>1, <3>1, SubSeqProperties DEF b
  <2> HIDE DEF b
  <2> QED BY <1>1, <2>2
<1> HIDE DEF a, b
<1>4. /\ a \o b \in Seq(S)
      /\ Len(a \o b) = Len(a) + Len(b)
      /\ \A l \in 1 .. Len(a) + Len(b) : (a \o b)[l] = IF l <= Len(a) THEN a[l] ELSE b[l - Len(a)]
  BY <1>2, <1>3, ConcatProperties
<1>5. Len(a \o b) = Len(s) - 1
  BY <1>1, <1>2, <1>3, <1>4
<1>6. ASSUME NEW l \in 1 .. Len(s) - 1
      PROVE  (a \o b)[l] = IF l < k THEN s[l] ELSE s[l + 1]
  <2>1. (a \o b)[l] = IF l <= k - 1 THEN a[l] ELSE b[l - (k - 1)]
    BY <1>1, <1>2, <1>3, <1>4
  <2>2. CASE l < k
    BY <1>1, <1>2, <2>1, <2>2
  <2>3. CASE l >= k
    <3>1. l - (k - 1) \in 1 .. Len(s) - k /\ k + (l - (k - 1)) = l + 1 /\ ~(l <= k - 1)
      BY <1>1, <2>3
    <3> QED BY <1>1, <1>3, <2>1, <2>3, <3>1
  <2>4. l < k \/ l >= k
    BY <1>1
  <2> QED BY <2>2, <2>3, <2>4
<1> QED BY <1>4, <1>5, <1>6 DEF a, b

\* The k-th request of instance i is no longer in its queue.
QueueLoses(i, k) ==
  /\ queue' \in [Instances -> Seq(Requests)]
  /\ Len(queue'[i]) = Len(queue[i]) - 1
  /\ \A l \in 1 .. Len(queue[i]) - 1 :
       queue'[i][l] = IF l < k THEN queue[i][l] ELSE queue[i][l + 1]
  /\ \A j \in Instances \ {i} : queue'[j] = queue[j]

\* A request leaves the queue.
LEMMA QueueShrinks ==
  ASSUME QueueTypeOK, QueueInv, NEW i \in Instances, NEW k \in 1 .. Len(queue[i]),
         QueueLoses(i, k),
         NEW t, ReqBecomes(queue[i][k], t), t.pc # "queued"
  PROVE  QueueInv'
<1> DEFINE n == Len(queue[i])
           r == queue[i][k]
<1>1. \A j \in Instances : Len(queue[j]) \in Nat /\ Len(queue'[j]) \in Nat
  BY DEF QueueTypeOK, QueueLoses
<1>2. /\ n \in Nat /\ k \in 1 .. n /\ Len(queue'[i]) = n - 1
      /\ \A l \in 1 .. n - 1 : queue'[i][l] = IF l < k THEN queue[i][l] ELSE queue[i][l + 1]
  BY <1>1 DEF QueueLoses
<1>3. \A j \in Instances \ {i} : queue'[j] = queue[j]
  BY DEF QueueLoses
<1>4. r \in Requests /\ \A j \in Instances : \A l \in 1 .. Len(queue[j]) : queue[j][l] \in Requests
  BY DEF QueueTypeOK
<1>5. \A j \in Instances : \A l \in 1 .. Len(queue[j]) : queue[j][l] = r => j = i /\ l = k
  BY <1>4 DEF QueueInv
<1>6. \A q \in Requests : /\ req[q].home \in Instances
                          /\ IF q = r THEN req'[q].pc # "queued" ELSE req'[q] = req[q]
  BY <1>4 DEF ReqBecomes, QueueTypeOK, Request
<1> HIDE DEF r
<1>7. ASSUME NEW j \in Instances, NEW l \in 1 .. Len(queue'[j])
      PROVE  \E m \in 1 .. Len(queue[j]) :
               /\ queue'[j][l] = queue[j][m] /\ queue[j][m] # r
               /\ m = IF j = i /\ l >= k THEN l + 1 ELSE l
  <2>1. CASE j # i
    BY <1>3, <1>5, <2>1
  <2>2. CASE j = i /\ l < k
    <3>1. l \in 1 .. n /\ queue'[j][l] = queue[j][l]
      BY <1>2, <2>2
    <3> QED BY <1>5, <2>2, <3>1
  <2>3. CASE j = i /\ l >= k
    <3>1. l + 1 \in 1 .. n /\ queue'[j][l] = queue[j][l + 1] /\ l + 1 # k
      BY <1>2, <2>3
    <3> QED BY <1>5, <2>3, <3>1
  <2> QED BY <2>1, <2>2, <2>3, <1>2
<1>8. ASSUME NEW j \in Instances, NEW l \in 1 .. Len(queue'[j])
      PROVE  req'[queue'[j][l]].pc = "queued" /\ req'[queue'[j][l]].home = j
  <2>1. PICK m \in 1 .. Len(queue[j]) : queue'[j][l] = queue[j][m] /\ queue[j][m] # r
    BY <1>7
  <2>2. /\ queue[j][m] \in Requests
        /\ req[queue[j][m]].pc = "queued" /\ req[queue[j][m]].home = j
    BY <1>4 DEF QueueInv
  <2> QED BY <1>6, <2>1, <2>2
<1>9. ASSUME NEW j \in Instances, NEW l \in 1 .. Len(queue'[j]), NEW m \in 1 .. Len(queue'[j]),
             queue'[j][l] = queue'[j][m]
      PROVE  l = m
  <2>1. PICK a \in 1 .. Len(queue[j]) :
          queue'[j][l] = queue[j][a] /\ a = IF j = i /\ l >= k THEN l + 1 ELSE l
    BY <1>7
  <2>2. PICK b \in 1 .. Len(queue[j]) :
          queue'[j][m] = queue[j][b] /\ b = IF j = i /\ m >= k THEN m + 1 ELSE m
    BY <1>7
  <2>3. a = b
    <3>1. queue[j][a] = queue[j][b]
      BY <1>9, <2>1, <2>2
    <3> QED BY <3>1 DEF QueueInv
  <2> QED BY <1>2, <2>1, <2>2, <2>3
<1>10. ASSUME NEW q \in Requests, req'[q].pc = "queued"
       PROVE  \E l \in 1 .. Len(queue'[req'[q].home]) : queue'[req'[q].home][l] = q
  <2>1. q # r /\ req[q].pc = "queued" /\ req'[q].home = req[q].home /\ req[q].home \in Instances
    BY <1>6, <1>10
  <2>2. PICK m \in 1 .. Len(queue[req[q].home]) : queue[req[q].home][m] = q
    BY <2>1 DEF QueueInv
  <2>3. CASE req[q].home # i
    BY <1>3, <2>1, <2>2, <2>3
  <2>4. CASE req[q].home = i /\ m < k
    <3>1. m \in 1 .. Len(queue'[i]) /\ queue'[i][m] = q
      BY <1>2, <2>2, <2>4
    <3> QED BY <2>1, <2>4, <3>1
  <2>5. CASE req[q].home = i /\ m > k
    <3>1. m - 1 \in 1 .. Len(queue'[i]) /\ queue'[i][m - 1] = q
      BY <1>2, <2>2, <2>5
    <3> QED BY <2>1, <2>5, <3>1
  <2>6. m # k \/ req[q].home # i
    BY <2>1, <2>2 DEF r
  <2> QED BY <1>2, <2>3, <2>4, <2>5, <2>6
<1> QED BY <1>8, <1>9, <1>10 DEF QueueInv

-----------------------------------------------------------------------------
(* The invariant of owners, one lemma per kind of step.                    *)

OwnerInv == QueueTypeOK /\ WorkerInv /\ QueueInv

\* The part of the type invariant about counters and shutdown.
CountsType ==
  /\ perUser \in [Instances -> [Users -> Nat]]
  /\ shut \in [Instances -> {"open", "closing", "closed"}]
  /\ userCount \in [Users -> Int]
  /\ gate \in Int
  /\ hasRedis \in BOOLEAN

LEMMA SplitType ==
  ASSUME CountsType', req' \in [Requests -> Request], queue' \in [Instances -> Seq(Requests)],
         \A i \in Instances : Len(queue'[i]) <= MaxSize,
         worker' \in [Instances -> [Workers -> WorkerState]]
  PROVE  QueueTypeOK'
BY DEF QueueTypeOK, CountsType, WorkerState

LEMMA DecrType ==
  ASSUME QueueTypeOK, NEW u, DecrUser(u)
  PROVE  userCount' \in [Users -> Int]
BY DEF QueueTypeOK, DecrUser

LEMMA ReleaseType ==
  ASSUME QueueTypeOK, NEW i \in Instances, NEW u \in Users, LocalRelease(i, u)
  PROVE  perUser' \in [Instances -> [Users -> Nat]]
<1> DEFINE row == [perUser[i] EXCEPT ![u] = IF @ > 0 THEN @ - 1 ELSE 0]
<1>1. perUser[i] \in [Users -> Nat] /\ perUser \in [Instances -> [Users -> Nat]]
  BY DEF QueueTypeOK
<1>2. row \in [Users -> Nat]
  <2>1. perUser[i][u] \in Nat
    BY <1>1
  <2>2. (IF perUser[i][u] > 0 THEN perUser[i][u] - 1 ELSE 0) \in Nat
    BY <2>1
  <2> QED BY <1>1, <2>2
<1>3. perUser' = perUser \/ perUser' = [perUser EXCEPT ![i] = row]
  BY DEF LocalRelease
<1> HIDE DEF row
<1> QED BY <1>1, <1>2, <1>3

\* The same requests are at stage pc when the one that moves neither reaches
\* nor leaves it.
LEMMA KeepsOthers ==
  ASSUME QueueTypeOK, NEW r \in Requests, NEW t, ReqBecomes(r, t), t.home = req[r].home,
         NEW pc, t.pc # pc, req[r].pc # pc
  PROVE  Keeps(pc)
BY DEF ReqBecomes, Keeps

\* A step that takes no job and leaves the queues alone.
LEMMA QuietStep ==
  ASSUME OwnerInv, Moved, UNCHANGED queue, Keeps("taken"), Keeps("queued"),
         req' \in [Requests -> Request], CountsType'
  PROVE  OwnerInv'
<1>1. QueueTypeOK'
  BY SplitType DEF OwnerInv, QueueTypeOK, Moved, WorkerState, CountsType
<1>2. WorkerInv'
  BY WorkersStay DEF OwnerInv
<1>3. QueueInv'
  BY QueuesStay DEF OwnerInv
<1> QED BY <1>1, <1>2, <1>3 DEF OwnerInv

\* Requests stay as they are.
LEMMA StillKeeps ==
  ASSUME QueueTypeOK, UNCHANGED req
  PROVE  req' \in [Requests -> Request] /\ Keeps("taken") /\ Keeps("queued")
BY DEF QueueTypeOK, Keeps

\* A request goes on and is neither queued nor taken before or after.
LEMMA RequestStep ==
  ASSUME OwnerInv, NEW r \in Requests, NEW pc \in {"counted", "over", "refused"}, ReqGoto(r, pc),
         req[r].pc \in {"new", "over", "counted"}, UNCHANGED <<queue, worker>>, CountsType'
  PROVE  OwnerInv'
<1> DEFINE t == [req[r] EXCEPT !.pc = pc]
<1>1. QueueTypeOK /\ req[r] \in Request
  BY DEF OwnerInv, QueueTypeOK
<1>2. ReqBecomes(r, t)
  BY <1>1, ReqWent DEF Outstanding, Over
<1>3. t.home = req[r].home /\ t.pc = pc
  BY <1>1 DEF Request
<1> HIDE DEF t
<1>4. Keeps("taken") /\ Keeps("queued")
  BY <1>1, <1>2, <1>3, KeepsOthers
<1> QED BY <1>1, <1>2, <1>4, StillMoved, QuietStep DEF ReqBecomes

LEMMA SubmitOwner ==
  ASSUME OwnerInv, NEW r \in Requests, Submit(r)
  PROVE  OwnerInv'
<1>1. CountsType'
  BY DEF OwnerInv, QueueTypeOK, Submit, CountsType
<1>2. UNCHANGED <<queue, worker>> /\ req[r].pc = "new"
  BY DEF Submit
<1>3. ReqGoto(r, "counted") \/ ReqGoto(r, "over")
  BY DEF Submit
<1> QED BY <1>1, <1>2, <1>3, RequestStep

LEMMA RejectOwner ==
  ASSUME OwnerInv, NEW r \in Requests, Reject(r)
  PROVE  OwnerInv'
<1>1. userCount' \in [Users -> Int]
  BY DecrType DEF OwnerInv, Reject
<1>2. CountsType'
  BY <1>1 DEF OwnerInv, QueueTypeOK, Reject, CountsType
<1> QED BY <1>2, RequestStep DEF Reject

LEMMA EnqueueOwner ==
  ASSUME OwnerInv, NEW r \in Requests, Enqueue(r)
  PROVE  OwnerInv'
<1> DEFINE i == req[r].home
           u == req[r].user
           t == [req[r] EXCEPT !.pc = "queued"]
<1>1. QueueTypeOK /\ req[r] \in Request /\ i \in Instances /\ u \in Users /\ req[r].pc = "counted"
  BY DEF OwnerInv, QueueTypeOK, Request, Enqueue
<1>2. CASE ReqGoto(r, "refused") /\ DecrUser(u) /\ UNCHANGED <<queue, perUser, worker>>
  <2>1. userCount' \in [Users -> Int]
    BY <1>1, <1>2, DecrType
  <2>2. CountsType'
    BY <1>1, <1>2, <2>1 DEF QueueTypeOK, Enqueue, CountsType
  <2> QED BY <1>1, <1>2, <2>2, RequestStep
<1>3. CASE /\ ~(Len(queue[i]) >= MaxSize)
           /\ queue' = [queue EXCEPT ![i] = Append(@, r)]
           /\ ReqGoto(r, "queued")
           /\ perUser' = IF hasRedis THEN perUser ELSE [perUser EXCEPT ![i][u] = @ + 1]
           /\ Signal(i)
           /\ UNCHANGED userCount
  <2>1. ReqBecomes(r, t)
    BY <1>1, <1>3, ReqWent DEF Outstanding
  <2>2. t.home = i /\ t.pc = "queued"
    BY <1>1 DEF Request
  <2>3. perUser' \in [Instances -> [Users -> Nat]]
    <3> DEFINE row == [perUser[i] EXCEPT ![u] = @ + 1]
    <3>1. perUser[i] \in [Users -> Nat] /\ perUser \in [Instances -> [Users -> Nat]]
      BY <1>1 DEF QueueTypeOK
    <3>2. row \in [Users -> Nat]
      <4>1. perUser[i][u] + 1 \in Nat
        BY <1>1, <3>1
      <4> QED BY <3>1, <4>1
    <3>3. perUser' = perUser \/ perUser' = [perUser EXCEPT ![i] = row]
      BY <1>3
    <3> HIDE DEF row, i
    <3> QED BY <1>1, <3>1, <3>2, <3>3
  <2>4. CountsType'
    BY <1>1, <1>3, <2>3 DEF QueueTypeOK, Enqueue, CountsType
  <2> HIDE DEF t, i, u
  <2>5. Moved
    BY <1>1, <1>3, SignalMoved
  <2>6. QueueInv'
    BY <1>1, <1>3, <2>1, <2>2, QueueGrows DEF OwnerInv
  <2>7. Keeps("taken")
    BY <1>1, <2>1, <2>2, KeepsOthers DEF i
  <2>8. WorkerInv'
    BY <2>1, <2>5, <2>7, WorkersStay DEF OwnerInv, ReqBecomes
  <2>9. queue' \in [Instances -> Seq(Requests)] /\ \A j \in Instances : Len(queue'[j]) <= MaxSize
    <3>1. queue \in [Instances -> Seq(Requests)] /\ \A j \in Instances : Len(queue[j]) <= MaxSize
      BY <1>1 DEF QueueTypeOK
    <3>2. Append(queue[i], r) \in Seq(Requests) /\ Len(Append(queue[i], r)) = Len(queue[i]) + 1
      BY <1>1, <3>1, AppendProperties
    <3>3. Len(queue[i]) + 1 <= MaxSize
      <4>1. Len(queue[i]) \in Nat /\ MaxSize \in Nat
        BY <1>1, <3>1, LenProperties, QueueAssumption
      <4> QED BY <1>3, <4>1
    <3> QED BY <1>1, <1>3, <3>1, <3>2, <3>3
  <2> QED BY <2>1, <2>4, <2>5, <2>6, <2>8, <2>9, SplitType DEF OwnerInv, ReqBecomes, Moved
<1> QED BY <1>2, <1>3 DEF Enqueue

\* What a queue keeps when its k-th request leaves.
LEMMA LosesType ==
  ASSUME QueueTypeOK, NEW i \in Instances, NEW k \in 1 .. Len(queue[i]), QueueLoses(i, k)
  PROVE  /\ queue' \in [Instances -> Seq(Requests)]
         /\ \A j \in Instances : Len(queue'[j]) <= MaxSize
<1>1. \A j \in Instances : Len(queue[j]) \in Nat /\ Len(queue[j]) <= MaxSize
  BY DEF QueueTypeOK
<1>2. \A j \in Instances : Len(queue'[j]) = Len(queue[j]) \/ Len(queue'[j]) = Len(queue[j]) - 1
  BY DEF QueueLoses
<1>3. ASSUME NEW j \in Instances
      PROVE  Len(queue'[j]) <= MaxSize
  BY <1>1, <1>2, QueueAssumption
<1> QED BY <1>3 DEF QueueLoses

LEMMA RemoveOwner ==
  ASSUME OwnerInv, NEW i \in Instances, NEW u \in Users, RemoveQueued(i, u)
  PROVE  OwnerInv'
<1>1. PICK k \in 1 .. Len(queue[i]) :
        /\ queue' = [queue EXCEPT ![i] = SubSeq(@, 1, k - 1) \o SubSeq(@, k + 1, Len(@))]
        /\ req' = [req EXCEPT ![queue[i][k]].pc = "removed", ![queue[i][k]].cancelled = TRUE]
        /\ LocalRelease(i, u)
        /\ DecrUser(u)
        /\ UNCHANGED <<shut, worker, gate, hasRedis>>
  BY DEF RemoveQueued
<1> DEFINE r == queue[i][k]
           t == [req[r] EXCEPT !.pc = "removed", !.cancelled = TRUE]
<1>2. QueueTypeOK /\ QueueInv /\ WorkerInv
  BY DEF OwnerInv
<1>3. queue \in [Instances -> Seq(Requests)] /\ r \in Requests
  BY <1>2 DEF QueueTypeOK
<1>4. req[r] \in Request /\ req \in [Requests -> Request] /\ req[r].pc = "queued"
  BY <1>2, <1>3 DEF QueueTypeOK, QueueInv
<1>5. t \in Request /\ t.pc = "removed" /\ t.home = req[r].home
  BY <1>4 DEF Request, Over
<1>6. req' = [req EXCEPT ![r] = t]
  BY <1>1, <1>3, <1>4
<1>7. QueueLoses(i, k)
  BY <1>1, <1>3, Without DEF QueueLoses
<1>8. CountsType'
  BY <1>1, <1>2, DecrType, ReleaseType DEF QueueTypeOK, CountsType
<1> HIDE DEF t
<1>9. ReqBecomes(r, t)
  BY <1>3, <1>4, <1>5, <1>6 DEF ReqBecomes
<1>10. QueueInv'
  BY <1>2, <1>5, <1>7, <1>9, QueueShrinks
<1> HIDE DEF r
<1>11. Keeps("taken")
  BY <1>2, <1>3, <1>4, <1>5, <1>9, KeepsOthers
<1>12. Moved
  BY <1>1, <1>2, StillMoved
<1>13. WorkerInv'
  BY <1>2, <1>9, <1>11, <1>12, WorkersStay DEF ReqBecomes
<1>14. QueueTypeOK'
  BY <1>2, <1>7, <1>8, <1>9, <1>12, LosesType, SplitType DEF ReqBecomes, Moved
<1> QED BY <1>10, <1>13, <1>14 DEF OwnerInv

\* Requests, workers and queues stay as they are.
LEMMA CounterStep ==
  ASSUME OwnerInv, UNCHANGED <<req, queue, worker>>, CountsType'
  PROVE  OwnerInv'
BY StillMoved, StillKeeps, QuietStep DEF OwnerInv

LEMMA ExpiryOwner ==
  ASSUME OwnerInv, GateExpires \/ \E u \in Users : UserExpires(u)
  PROVE  OwnerInv'
<1>1. UNCHANGED <<req, queue, worker>> /\ CountsType'
  BY DEF OwnerInv, QueueTypeOK, GateExpires, UserExpires, CountsType
<1> QED BY <1>1, CounterStep

LEMMA StopOwner ==
  ASSUME OwnerInv, NEW i \in Instances, Stop(i) \/ Broadcast(i)
  PROVE  OwnerInv'
<1>1. QueueTypeOK /\ WorkerInv
  BY DEF OwnerInv
<1>2. UNCHANGED <<req, queue>> /\ CountsType'
  BY <1>1 DEF QueueTypeOK, Stop, Broadcast, CountsType, redisVars
<1>3. CASE Stop(i)
  BY <1>2, <1>3, CounterStep DEF Stop
<1>4. CASE Broadcast(i)
  <2> DEFINE row == [w \in Workers |-> IF worker[i][w].pc = "waiting" THEN Idle ELSE worker[i][w]]
  <2>1. worker' = [worker EXCEPT ![i] = row]
    BY <1>4 DEF Broadcast
  <2>2. worker \in [Instances -> [Workers -> WorkerState]]
    BY <1>1 DEF QueueTypeOK, WorkerState
  <2>3. Idle \in WorkerState /\ Idle.pc = "ready" /\ Idle.job = "none"
    BY DEF Idle, WorkerState, WorkerPc
  <2>4. row \in [Workers -> WorkerState]
    BY <2>2, <2>3
  <2>5. \A w \in Workers : /\ row[w].job = worker[i][w].job
                           /\ row[w].pc \in JobPc <=> worker[i][w].pc \in JobPc
    <3>1. \A w \in Workers : worker[i][w].pc = "waiting" => worker[i][w].job = "none"
      BY <1>1 DEF WorkerInv, JobPc
    <3> QED BY <2>3, <3>1 DEF JobPc
  <2> HIDE DEF row
  <2>6. Moved
    BY <2>1, <2>2, <2>4, <2>5 DEF Moved
  <2> QED BY <1>1, <1>2, <2>6, StillKeeps, QuietStep
<1> QED BY <1>3, <1>4

LEMMA CancelOwner ==
  ASSUME OwnerInv, NEW r \in Requests, Cancel(r)
  PROVE  OwnerInv'
<1>1. QueueTypeOK
  BY DEF OwnerInv
<1>2. req' \in [Requests -> Request] /\ Keeps("taken") /\ Keeps("queued")
  BY <1>1 DEF QueueTypeOK, Cancel, Request, Keeps
<1>3. CountsType' /\ UNCHANGED <<queue, worker>>
  BY <1>1 DEF QueueTypeOK, CountsType, Cancel, redisVars
<1> QED BY <1>1, <1>2, <1>3, StillMoved, QuietStep

-----------------------------------------------------------------------------
(* The workers' steps.                                                     *)

\* A worker goes on, with its job or without one.
LEMMA WorkerGoes ==
  ASSUME OwnerInv, NEW i \in Instances, NEW w \in Workers, NEW pc \in WorkerPc,
         WorkerGoto(i, w, pc), pc \in JobPc <=> worker[i][w].pc \in JobPc,
         UNCHANGED <<req, queue>>, CountsType'
  PROVE  OwnerInv'
BY WentMoved, StillKeeps, QuietStep DEF OwnerInv, WorkerGoto

\* A worker is done with its request, and gives its user slot back.
LEMMA SettleOwner ==
  ASSUME OwnerInv, NEW i \in Instances, NEW w \in Workers, worker[i][w].pc \in JobPc,
         NEW outcome \in {"dropped", "served"}, Settle(i, w, outcome),
         UNCHANGED <<queue, perUser, shut, gate, hasRedis>>
  PROVE  OwnerInv'
<1> DEFINE r == worker[i][w].job
           t == [req[r] EXCEPT !.pc = outcome, !.cancelled = @ \/ outcome = "dropped"]
<1>1. QueueTypeOK /\ WorkerInv
  BY DEF OwnerInv
<1>2. r # "none" /\ r \in Requests /\ req[r].pc = "taken"
  BY <1>1 DEF WorkerInv, QueueTypeOK
<1>3. req[r] \in Request /\ req \in [Requests -> Request]
  BY <1>1, <1>2 DEF QueueTypeOK
<1>4. t \in Request /\ t.pc = outcome /\ t.home = req[r].home
  BY <1>3 DEF Request, Over
<1>5. req' = [req EXCEPT ![r] = t]
  BY <1>2, <1>3 DEF Settle
<1>6. CountsType'
  BY <1>1, DecrType DEF QueueTypeOK, CountsType, Settle
<1> HIDE DEF t
<1>7. ReqBecomes(r, t)
  BY <1>2, <1>3, <1>4, <1>5 DEF ReqBecomes
<1>8. WorkerBecomes(i, w, Idle)
  <2>1. Idle \in WorkerState
    BY DEF Idle, WorkerState, WorkerPc
  <2> QED BY <1>1, <2>1, WorkerSet DEF Settle
<1>9. WorkerInv'
  BY <1>1, <1>2, <1>4, <1>7, <1>8, WorkerLeaves
<1> HIDE DEF r
<1>10. QueueInv'
  <2>1. Keeps("queued")
    BY <1>1, <1>2, <1>4, <1>7, KeepsOthers
  <2> QED BY <1>1, <2>1, QueuesStay DEF OwnerInv
<1>11. QueueTypeOK'
  BY <1>1, <1>6, <1>7, <1>8, SplitType DEF QueueTypeOK, ReqBecomes, WorkerBecomes
<1> QED BY <1>9, <1>10, <1>11 DEF OwnerInv

LEMMA TakeOwner ==
  ASSUME OwnerInv, NEW i \in Instances, NEW w \in Workers,
         worker[i][w].pc = "ready", queue[i] # <<>>,
         worker' = [worker EXCEPT ![i][w] = [pc |-> "checking", job |-> Head(queue[i])]],
         queue' = [queue EXCEPT ![i] = Tail(@)],
         ReqGoto(Head(queue[i]), "taken"),
         LocalRelease(i, req[Head(queue[i])].user),
         UNCHANGED <<shut, redisVars>>
  PROVE  OwnerInv'
<1> DEFINE r == Head(queue[i])
           t == [req[r] EXCEPT !.pc = "taken"]
           s == [pc |-> "checking", job |-> r]
<1>1. QueueTypeOK /\ WorkerInv /\ QueueInv
  BY DEF OwnerInv
<1>2. queue \in [Instances -> Seq(Requests)] /\ queue[i] \in Seq(Requests)
  BY <1>1 DEF QueueTypeOK
<1>3. /\ 1 \in 1 .. Len(queue[i]) /\ r = queue[i][1] /\ r \in Requests
      /\ req[r].pc = "queued" /\ req[r].home = i
  <2>1. 1 \in 1 .. Len(queue[i]) /\ r = queue[i][1]
    BY <1>2
  <2>2. queue[i][1] \in Requests
    BY <1>2, <2>1
  <2> QED BY <1>1, <2>1, <2>2 DEF QueueInv
<1>4. req[r] \in Request /\ req[r].user \in Users
  BY <1>1, <1>3 DEF QueueTypeOK, Request
<1>5. t.pc = "taken" /\ t.home = i
  BY <1>3, <1>4 DEF Request
<1>6. s \in WorkerState /\ s.pc \in JobPc /\ s.job = r
  BY <1>3 DEF WorkerState, WorkerPc, JobPc
<1>7. ReqBecomes(r, t)
  BY <1>1, <1>3, ReqWent DEF Outstanding
<1>8. worker' = [worker EXCEPT ![i][w] = s]
  OBVIOUS
<1> HIDE DEF s, t
<1>9. WorkerBecomes(i, w, s)
  BY <1>1, <1>6, <1>8, WorkerSet
<1>10. QueueLoses(i, 1)
  <2>1. /\ Tail(queue[i]) \in Seq(Requests) /\ Len(Tail(queue[i])) = Len(queue[i]) - 1
        /\ \A l \in 1 .. Len(Tail(queue[i])) : Tail(queue[i])[l] = queue[i][l + 1]
    BY <1>2, HeadTailProperties
  <2>2. queue'[i] = Tail(queue[i]) /\ queue' \in [Instances -> Seq(Requests)]
    BY <1>2, <2>1
  <2>3. \A j \in Instances \ {i} : queue'[j] = queue[j]
    BY <1>2
  <2>4. ASSUME NEW l \in 1 .. Len(queue[i]) - 1
        PROVE  queue'[i][l] = IF l < 1 THEN queue[i][l] ELSE queue[i][l + 1]
    BY <2>1, <2>2
  <2> QED BY <2>1, <2>2, <2>3, <2>4 DEF QueueLoses
<1> HIDE DEF r
<1>11. QueueInv'
  <2>1. ReqBecomes(queue[i][1], t) /\ t.pc # "queued"
    BY <1>3, <1>5, <1>7
  <2> QED BY <1>1, <1>3, <1>10, <2>1, QueueShrinks
<1>12. WorkerInv'
  <2>1. worker[i][w].job = "none"
    BY <1>1 DEF WorkerInv, JobPc
  <2>2. req[r].pc # "taken"
    BY <1>3
  <2> QED BY <1>1, <1>3, <1>5, <1>6, <1>7, <1>9, <2>1, <2>2, QueueAssumption, WorkerTakes
<1>13. CountsType'
  <2>1. perUser' \in [Instances -> [Users -> Nat]]
    BY <1>1, <1>4, ReleaseType DEF r
  <2> QED BY <1>1, <2>1 DEF QueueTypeOK, CountsType, redisVars
<1>14. QueueTypeOK'
  BY <1>1, <1>3, <1>7, <1>9, <1>10, <1>13, LosesType, SplitType DEF ReqBecomes, WorkerBecomes
<1> QED BY <1>11, <1>12, <1>14 DEF OwnerInv

LEMMA DequeueOwner ==
  ASSUME OwnerInv, NEW i \in Instances, NEW w \in Workers, Dequeue(i, w)
  PROVE  OwnerInv'
<1>1. worker[i][w].pc = "ready" /\ UNCHANGED <<shut, redisVars>>
  BY DEF Dequeue
<1>2. CASE (WorkerGoto(i, w, "waiting") \/ WorkerGoto(i, w, "exited")) /\ UNCHANGED <<req, queue, perUser>>
  <2>1. CountsType'
    BY <1>1, <1>2 DEF OwnerInv, QueueTypeOK, CountsType, redisVars
  <2> QED BY <1>1, <1>2, <2>1, WorkerGoes DEF JobPc, WorkerPc
<1>3. CASE /\ queue[i] # <<>>
           /\ worker' = [worker EXCEPT ![i][w] = [pc |-> "checking", job |-> Head(queue[i])]]
           /\ queue' = [queue EXCEPT ![i] = Tail(@)]
           /\ ReqGoto(Head(queue[i]), "taken")
           /\ LocalRelease(i, req[Head(queue[i])].user)
  BY <1>1, <1>3, TakeOwner
<1> QED BY <1>2, <1>3 DEF Dequeue

\* A step between taking a request and being done with it.
LEMMA TurnOwner ==
  ASSUME OwnerInv, NEW i \in Instances, NEW w \in Workers,
         Check(i, w) \/ Acquire(i, w) \/ GiveUp(i, w) \/ HandlerReturns(i, w) \/ Release(i, w)
           \/ Served(i, w)
  PROVE  OwnerInv'
<1>1. CASE Check(i, w)
  <2>1. worker[i][w].pc \in JobPc /\ UNCHANGED <<queue, perUser, shut, gate, hasRedis>>
    BY <1>1 DEF Check, JobPc
  <2>2. CASE WorkerGoto(i, w, "gating") /\ UNCHANGED <<req, userCount>>
    <3>1. CountsType'
      BY <2>1, <2>2 DEF OwnerInv, QueueTypeOK, CountsType
    <3> QED BY <2>1, <2>2, <3>1, WorkerGoes DEF JobPc, WorkerPc
  <2>3. CASE Settle(i, w, "dropped")
    BY <2>1, <2>3, SettleOwner
  <2> QED BY <1>1, <2>2, <2>3 DEF Check
<1>2. CASE Acquire(i, w)
  <2>1. CountsType' /\ UNCHANGED <<req, queue>>
    BY <1>2 DEF OwnerInv, QueueTypeOK, CountsType, Acquire
  <2> QED BY <1>2, <2>1, WorkerGoes DEF Acquire, JobPc, WorkerPc
<1>3. CASE GiveUp(i, w)
  BY <1>3, SettleOwner DEF GiveUp, JobPc
<1>4. CASE HandlerReturns(i, w)
  <2>1. CountsType' /\ UNCHANGED <<req, queue>>
    BY <1>4 DEF OwnerInv, QueueTypeOK, CountsType, HandlerReturns, redisVars
  <2> QED BY <1>4, <2>1, WorkerGoes DEF HandlerReturns, JobPc, WorkerPc
<1>5. CASE Release(i, w)
  <2>1. CountsType' /\ UNCHANGED <<req, queue>>
    BY <1>5 DEF OwnerInv, QueueTypeOK, CountsType, Release
  <2> QED BY <1>5, <2>1, WorkerGoes DEF Release, JobPc, WorkerPc
<1>6. CASE Served(i, w)
  BY <1>6, SettleOwner DEF Served, JobPc
<1> QED BY <1>1, <1>2, <1>3, <1>4, <1>5, <1>6

-----------------------------------------------------------------------------
(* A restart, and the theorems.                                            *)

\* What Crash makes of the requests.
LEMMA CrashReq ==
  ASSUME QueueTypeOK, NEW i \in Instances, Crash(i)
  PROVE  /\ req' \in [Requests -> Request]
         /\ \A r \in Requests :
              /\ req'[r].home = req[r].home
              /\ req[r].home = i => req'[r].pc \notin {"queued", "taken"}
              /\ req[r].home # i => req'[r] = req[r]
<1> DEFINE t(r) == IF req[r].home = i /\ req[r].pc \in Outstanding \cup {"over"}
                     THEN [req[r] EXCEPT !.pc = "lost"] ELSE req[r]
<1>1. req' = [r \in Requests |-> t(r)]
  BY DEF Crash
<1>2. ASSUME NEW r \in Requests
      PROVE  /\ t(r) \in Request
             /\ t(r).home = req[r].home
             /\ req[r].home = i => t(r).pc \notin {"queued", "taken"}
             /\ req[r].home # i => t(r) = req[r]
  <2>1. req[r] \in Request
    BY DEF QueueTypeOK
  <2> QED BY <2>1 DEF Request, Outstanding, Over
<1> HIDE DEF t
<1> QED BY <1>1, <1>2

LEMMA CrashOwner ==
  ASSUME OwnerInv, NEW i \in Instances, Crash(i)
  PROVE  OwnerInv'
<1>1. QueueTypeOK /\ WorkerInv /\ QueueInv
  BY DEF OwnerInv
<1>2. /\ req' \in [Requests -> Request]
      /\ \A r \in Requests :
           /\ req[r].home \in Instances
           /\ req'[r].home = req[r].home
           /\ req[r].home = i => req'[r].pc \notin {"queued", "taken"}
           /\ req[r].home # i => req'[r] = req[r]
  BY <1>1, CrashReq DEF QueueTypeOK, Request
<1>3. CountsType'
  BY <1>1 DEF QueueTypeOK, CountsType, Crash, redisVars
<1>4. queue' \in [Instances -> Seq(Requests)] /\ \A j \in Instances : queue'[j] = IF j = i THEN <<>> ELSE queue[j]
  BY <1>1 DEF QueueTypeOK, Crash
<1>5. /\ worker' \in [Instances -> [Workers -> WorkerState]]
      /\ \A j \in Instances, w \in Workers : worker'[j][w] = IF j = i THEN Idle ELSE worker[j][w]
  <2>1. Idle \in WorkerState
    BY DEF Idle, WorkerState, WorkerPc
  <2> QED BY <1>1, <2>1 DEF QueueTypeOK, WorkerState, Crash
<1>6. Idle.job = "none" /\ Idle.pc \notin JobPc
  BY DEF Idle, JobPc
<1>7. QueueTypeOK'
  <2>1. ASSUME NEW j \in Instances PROVE Len(queue'[j]) <= MaxSize
    <3>1. CASE j = i
      BY <1>4, <3>1, EmptySeq, QueueAssumption
    <3>2. CASE j # i
      BY <1>1, <1>4, <3>2 DEF QueueTypeOK
    <3> QED BY <3>1, <3>2
  <2> QED BY <1>2, <1>3, <1>4, <1>5, <2>1, SplitType
<1>8. WorkerInv'
  <2>1. ASSUME NEW j \in Instances, NEW w \in Workers
        PROVE  /\ worker'[j][w].pc \in JobPc <=> worker'[j][w].job # "none"
               /\ worker'[j][w].job # "none" =>
                    req'[worker'[j][w].job].pc = "taken" /\ req'[worker'[j][w].job].home = j
    <3>1. CASE j = i
      BY <1>5, <1>6, <3>1
    <3>2. CASE j # i
      <4>1. worker'[j][w] = worker[j][w] /\ worker[j][w].job \in Requests \cup {"none"}
        BY <1>1, <1>5, <3>2 DEF QueueTypeOK
      <4> QED BY <1>1, <1>2, <3>2, <4>1 DEF WorkerInv
    <3> QED BY <3>1, <3>2
  <2>2. ASSUME NEW j \in Instances, NEW w \in Workers, NEW v \in Workers,
               worker'[j][w].job = worker'[j][v].job, worker'[j][w].job # "none"
        PROVE  w = v
    <3>1. worker'[j][w] = worker[j][w] /\ worker'[j][v] = worker[j][v]
      BY <1>5, <1>6, <2>2
    <3> QED BY <1>1, <2>2, <3>1 DEF WorkerInv
  <2>3. ASSUME NEW r \in Requests, req'[r].pc = "taken"
        PROVE  \E w \in Workers : worker'[req'[r].home][w].job = r
    <3>1. req'[r] = req[r] /\ req[r].home \in Instances /\ req[r].home # i
      BY <1>2, <2>3
    <3>2. PICK w \in Workers : worker[req[r].home][w].job = r
      BY <1>1, <2>3, <3>1 DEF WorkerInv
    <3> QED BY <1>5, <3>1, <3>2
  <2> QED BY <2>1, <2>2, <2>3 DEF WorkerInv
<1>9. QueueInv'
  <2>1. ASSUME NEW j \in Instances, NEW k \in 1 .. Len(queue'[j])
        PROVE  j # i /\ queue'[j] = queue[j]
    <3>1. j # i
      BY <1>4, <2>1
    <3> QED BY <1>4, <3>1
  <2>2. ASSUME NEW j \in Instances, NEW k \in 1 .. Len(queue'[j])
        PROVE  req'[queue'[j][k]].pc = "queued" /\ req'[queue'[j][k]].home = j
    <3>1. j # i /\ queue'[j] = queue[j] /\ queue[j][k] \in Requests
      BY <1>1, <2>1 DEF QueueTypeOK
    <3> QED BY <1>1, <1>2, <3>1 DEF QueueInv
  <2>3. ASSUME NEW j \in Instances, NEW k \in 1 .. Len(queue'[j]), NEW l \in 1 .. Len(queue'[j]),
               queue'[j][k] = queue'[j][l]
        PROVE  k = l
    <3>1. queue'[j] = queue[j]
      BY <2>1
    <3> QED BY <1>1, <2>3, <3>1 DEF QueueInv
  <2>4. ASSUME NEW r \in Requests, req'[r].pc = "queued"
        PROVE  \E k \in 1 .. Len(queue'[req'[r].home]) : queue'[req'[r].home][k] = r
    <3>1. req'[r] = req[r] /\ req[r].home \in Instances /\ req[r].home # i
      BY <1>2, <2>4
    <3>2. queue'[req[r].home] = queue[req[r].home]
      BY <1>4, <3>1
    <3> QED BY <1>1, <2>4, <3>1, <3>2 DEF QueueInv
  <2> QED BY <2>2, <2>3, <2>4 DEF QueueInv
<1> QED BY <1>7, <1>8, <1>9 DEF OwnerInv

LEMMA OwnerInit ==
  ASSUME QueueInit
  PROVE  OwnerInv
<1>1. /\ req \in [Requests -> [pc : {"new"}, user : Users, home : Instances, cancelled : {FALSE}]]
      /\ \A i \in Instances : queue[i] = <<>>
      /\ \A i \in Instances, w \in Workers : worker[i][w] = Idle
  BY DEF QueueInit
<1>2. QueueTypeOK
  <2>1. Idle \in [pc : WorkerPc, job : Requests \cup {"none"}]
    BY DEF Idle, WorkerPc
  <2>2. req \in [Requests -> Request]
    BY <1>1 DEF Request
  <2>3. \A i \in Instances : Len(queue[i]) <= MaxSize
    BY <1>1, EmptySeq, QueueAssumption
  <2>4. queue \in [Instances -> Seq(Requests)]
    BY DEF QueueInit
  <2>5. hasRedis \in BOOLEAN
    BY QueueAssumption DEF QueueInit
  <2>6. /\ perUser \in [Instances -> [Users -> Nat]]
        /\ shut \in [Instances -> {"open", "closing", "closed"}]
        /\ userCount \in [Users -> Int] /\ gate \in Int
    BY DEF QueueInit
  <2>7. worker \in [Instances -> [Workers -> [pc : WorkerPc, job : Requests \cup {"none"}]]]
    BY <2>1 DEF QueueInit
  <2> QED BY <2>2, <2>3, <2>4, <2>5, <2>6, <2>7 DEF QueueTypeOK
<1>3. \A r \in Requests : req[r].pc = "new"
  BY <1>1
<1>4. WorkerInv
  BY <1>1, <1>3 DEF WorkerInv, Idle, JobPc
<1>5. QueueInv
  <2>1. \A i \in Instances : Len(queue[i]) = 0
    BY <1>1
  <2> QED BY <1>3, <2>1 DEF QueueInv
<1> QED BY <1>2, <1>4, <1>5 DEF OwnerInv

LEMMA OwnerNext ==
  ASSUME OwnerInv, [QueueNext]_queueVars
  PROVE  OwnerInv'
<1>1. CASE ServiceStep
  <2>1. CASE \E r \in Requests : Submit(r) \/ Reject(r) \/ Enqueue(r) \/ Cancel(r)
    BY <2>1, SubmitOwner, RejectOwner, EnqueueOwner, CancelOwner
  <2>2. CASE GateExpires \/ \E u \in Users : UserExpires(u)
    BY <2>2, ExpiryOwner
  <2>3. CASE \E i \in Instances : Stop(i) \/ Broadcast(i) \/ Crash(i)
    BY <2>3, StopOwner, CrashOwner
  <2> QED BY <1>1, <2>1, <2>2, <2>3 DEF ServiceStep
<1>2. CASE \E i \in Instances, u \in Users : RemoveQueued(i, u)
  BY <1>2, RemoveOwner
<1>3. CASE \E i \in Instances, w \in Workers : WorkerStep(i, w)
  BY <1>3, DequeueOwner, TurnOwner DEF WorkerStep, QueueSideStep
<1>4. CASE UNCHANGED queueVars
  <2>1. UNCHANGED <<req, queue, worker>> /\ CountsType'
    BY <1>4 DEF OwnerInv, QueueTypeOK, CountsType, queueVars, redisVars
  <2> QED BY <2>1, CounterStep
<1> QED BY <1>1, <1>2, <1>3, <1>4 DEF QueueNext

\* The invariant behind both: types, what each worker's step says of its request,
\* and that queues hold their waiting requests once (dequeue, Remove, Enqueue).
THEOREM OwnerInductive == QueueSpec => []OwnerInv
BY OwnerInit, OwnerNext, PTL DEF QueueSpec

\* The queue is never longer than its capacity, and every variable keeps its type.
THEOREM QueueTypeCorrect == QueueSpec => []QueueTypeOK
<1>1. OwnerInv => QueueTypeOK
  BY DEF OwnerInv
<1> QED BY <1>1, OwnerInductive, PTL

\* An empty set has no members to count.
LEMMA Nobody ==
  ASSUME NEW S, \A y : y \notin S
  PROVE  Cardinality(S) = 0
<1>1. S = {}
  OBVIOUS
<1> QED BY <1>1, FS_EmptySet

\* Whatever fails, a waiting request is in one queue once, a taken one has one
\* worker, and no other request has either.
THEOREM OwnerCorrect == QueueSpec => []OneOwner
<1>1. ASSUME OwnerInv PROVE OneOwner
  <2> SUFFICES ASSUME NEW r \in Requests
               PROVE  /\ Cardinality({p \in Instances \X (1 .. MaxSize) :
                                         p[2] <= Len(queue[p[1]]) /\ queue[p[1]][p[2]] = r})
                           = IF req[r].pc = "queued" THEN 1 ELSE 0
                      /\ Cardinality({p \in Instances \X Workers : worker[p[1]][p[2]].job = r})
                           = IF req[r].pc = "taken" THEN 1 ELSE 0
    BY DEF OneOwner
  <2> DEFINE home == req[r].home
             places == {p \in Instances \X (1 .. MaxSize) :
                          p[2] <= Len(queue[p[1]]) /\ queue[p[1]][p[2]] = r}
             owners == {p \in Instances \X Workers : worker[p[1]][p[2]].job = r}
  <2>1. QueueTypeOK /\ WorkerInv /\ QueueInv
    BY <1>1 DEF OwnerInv
  <2>2. home \in Instances /\ r # "none"
    BY <2>1, QueueAssumption DEF QueueTypeOK, Request
  <2>3. \A i \in Instances : Len(queue[i]) \in Nat /\ Len(queue[i]) <= MaxSize
    BY <2>1 DEF QueueTypeOK
  <2>4. ASSUME NEW p \in places
        PROVE  /\ req[r].pc = "queued" /\ p[1] = home /\ p[2] \in 1 .. Len(queue[home])
               /\ queue[home][p[2]] = r /\ p = <<p[1], p[2]>>
    <3>1. p[1] \in Instances /\ p[2] \in 1 .. Len(queue[p[1]]) /\ queue[p[1]][p[2]] = r /\ p = <<p[1], p[2]>>
      BY <2>3, QueueAssumption
    <3>2. req[r].pc = "queued" /\ home = p[1]
      BY <2>1, <3>1 DEF QueueInv
    <3> QED BY <3>1, <3>2
  <2>5. ASSUME NEW p \in owners
        PROVE  /\ req[r].pc = "taken" /\ p[1] = home /\ p[2] \in Workers
               /\ worker[home][p[2]].job = r /\ p = <<p[1], p[2]>>
    <3>1. p[1] \in Instances /\ p[2] \in Workers /\ worker[p[1]][p[2]].job = r /\ p = <<p[1], p[2]>>
      OBVIOUS
    <3>2. req[r].pc = "taken" /\ home = p[1]
      BY <2>1, <2>2, <3>1 DEF WorkerInv
    <3> QED BY <3>1, <3>2
  <2>6. Cardinality(places) = IF req[r].pc = "queued" THEN 1 ELSE 0
    <3>1. CASE req[r].pc = "queued"
      <4>1. PICK k \in 1 .. Len(queue[home]) : queue[home][k] = r
        BY <2>1, <3>1 DEF QueueInv
      <4>2. <<home, k>> \in places
        BY <2>2, <2>3, <4>1, QueueAssumption
      <4>3. \A p \in places : p = <<home, k>>
        BY <2>1, <2>2, <2>4, <4>1 DEF QueueInv
      <4> HIDE DEF places, home
      <4>4. places = {<<home, k>>}
        BY <4>2, <4>3
      <4>5. Cardinality(places) = 1
        BY <4>4, FS_Singleton
      <4> QED BY <3>1, <4>5
    <3>2. CASE req[r].pc # "queued"
      <4>1. \A p : p \notin places
        BY <2>4, <3>2
      <4> HIDE DEF places
      <4> QED BY <3>2, <4>1, Nobody
    <3> QED BY <3>1, <3>2
  <2>7. Cardinality(owners) = IF req[r].pc = "taken" THEN 1 ELSE 0
    <3>1. CASE req[r].pc = "taken"
      <4>1. PICK w \in Workers : worker[home][w].job = r
        BY <2>1, <3>1 DEF WorkerInv
      <4>2. <<home, w>> \in owners
        BY <2>2, <4>1
      <4>3. \A p \in owners : p = <<home, w>>
        BY <2>1, <2>2, <2>5, <4>1 DEF WorkerInv
      <4> HIDE DEF owners, home
      <4>4. owners = {<<home, w>>}
        BY <4>2, <4>3
      <4>5. Cardinality(owners) = 1
        BY <4>4, FS_Singleton
      <4> QED BY <3>1, <4>5
    <3>2. CASE req[r].pc # "taken"
      <4>1. \A p : p \notin owners
        BY <2>5, <3>2
      <4> HIDE DEF owners
      <4> QED BY <3>2, <4>1, Nobody
    <3> QED BY <3>1, <3>2
  <2> QED BY <2>6, <2>7
<1> QED BY <1>1, OwnerInductive, PTL
=============================================================================
