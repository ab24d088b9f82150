---------------------------- MODULE ApprovalGateProofs ----------------------------
(***************************************************************************)
(* For any set of Resolve calls and any Redis failures: the approval gate  *)
(* implements the one-shot decision, its "ok" and "already" answers are    *)
(* true, and only the owner decides.                                       *)
(***************************************************************************)
EXTENDS ApprovalGate, TLAPS

\* What an answered call looks like; the others are untouched.
LEMMA Answered ==
  ASSUME TypeOK, NEW c \in Calls, NEW a \in Answers, Answer(c, a)
  PROVE  /\ call' \in [Calls -> Call]
         /\ call'[c].pc = "answered" /\ call'[c].answer = a
         /\ call'[c].owner = call[c].owner /\ call'[c].local = call[c].local
         /\ \A d \in Calls \ {c} : call'[d] = call[d]
<1> DEFINE t == [call[c] EXCEPT !.pc = "answered", !.answer = a]
<1>1. call[c] \in Call
  BY DEF TypeOK
<1>2. /\ t \in Call /\ t.pc = "answered" /\ t.answer = a
      /\ t.owner = call[c].owner /\ t.local = call[c].local
  BY <1>1 DEF Call
<1>3. call' = [call EXCEPT ![c] = t]
  BY DEF Answer
<1> HIDE DEF t
<1> QED BY <1>2, <1>3 DEF TypeOK

\* Every step keeps the state well typed.
THEOREM GateTypeCorrect == Safety => []TypeOK
<1>1. Init => TypeOK
  BY DEF Init, TypeOK, Waiter, WaiterPc, Call, Answers, Outcomes, Deciders, Running
<1>2. TypeOK /\ [Next]_vars => TypeOK'
  <2> SUFFICES ASSUME TypeOK, [Next]_vars PROVE TypeOK'
    OBVIOUS
  <2> USE DEF TypeOK, Waiter, WaiterPc, Call, Answers, Outcomes, Deciders, Running
  <2>1. CASE UNCHANGED vars
    BY <2>1 DEF vars
  <2>2. CASE WaiterStep
    <3>1. CASE Register
      BY <3>1 DEF Register
    <3>2. CASE Emit
      BY <3>2 DEF Emit
    <3>3. CASE TakeDecision
      BY <3>3 DEF TakeDecision
    <3>4. CASE StopWaiting
      BY <3>4 DEF StopWaiting
    <3>5. CASE DeliverOwn
      BY <3>5 DEF DeliverOwn, MaySend
    <3>6. CASE ReadDecision
      BY <3>6 DEF ReadDecision
    <3>7. CASE Leave
      BY <3>7 DEF Leave
    <3> QED BY <2>2, <3>1, <3>2, <3>3, <3>4, <3>5, <3>6, <3>7 DEF WaiterStep
  <2>3. ASSUME NEW c \in Calls, Resolve(c) \/ CallStep(c) \/ PublishFails(c)
        PROVE  TypeOK'
    <3>1. CASE Resolve(c)
      BY <3>1, Answered DEF Resolve, At
    <3>2. CASE Lookup(c)
      BY <3>2 DEF Lookup, At
    <3>3. CASE LoadResolved(c)
      BY <3>3 DEF LoadResolved, At
    <3>4. CASE Deliver(c)
      BY <3>4 DEF Deliver, At, MaySend
    <3>5. CASE StoreResolved(c)
      BY <3>5 DEF StoreResolved, At
    <3>6. CASE ReturnLocal(c)
      BY <3>6, Answered DEF ReturnLocal
    <3>7. CASE Publish(c)
      BY <3>7 DEF Publish, At
    <3>8. CASE Receive(c)
      BY <3>8 DEF Receive, At
    <3>9. CASE Ack(c)
      BY <3>9, Answered DEF Ack, At
    <3>10. CASE AckTimeout(c)
      BY <3>10, Answered DEF AckTimeout
    <3>11. CASE PublishFails(c)
      BY <3>11, Answered DEF PublishFails, At
    <3> QED BY <2>3, <3>1, <3>2, <3>3, <3>4, <3>5, <3>6, <3>7, <3>8, <3>9, <3>10, <3>11
            DEF CallStep, DeliveryStep
  <2> QED BY <2>1, <2>2, <2>3 DEF Next
<1> QED BY <1>1, <1>2, PTL DEF Safety

\* What one call knows of the decision, wherever it stands.
CallInv(c) ==
  /\ delivery[c] \in {"store", "ok"} => Winner = c
  /\ Winner = c => delivery[c] \in {"store", "ok", "acked"} /\ call[c].owner
  /\ delivery[c] = "already" => Winner \notin {"nobody", c}
  /\ delivery[c] \in {"load", "once", "store", "ok"} => call[c].owner
  /\ call[c].pc = "idle" => delivery[c] = "none"
  /\ call[c].pc = "delivering" => call[c].local
  /\ call[c].pc = "publishing" /\ ~call[c].local => delivery[c] = "none"
  /\ call[c].pc # "answered" => call[c].answer = "nothing"
  /\ call[c].answer = "ok" => Winner = c
  /\ call[c].answer = "already" => Winner \notin {"nobody", c}

\* The inductive invariant: once.Do has run exactly when somebody has won.
GateInv ==
  /\ waiter.once = "free" <=> Winner = "nobody"
  /\ waiter.resolved => Winner # "nobody"
  /\ \A c \in Calls : CallInv(c)

\* Steps that leave the winner alone touch no call but their own.
LEMMA OwnCallOnly ==
  ASSUME TypeOK, GateInv, Winner' = Winner,
         waiter'.once = "free" <=> waiter.once = "free",
         waiter'.resolved => Winner # "nobody",
         NEW c \in Calls,
         \A d \in Calls \ {c} : call'[d] = call[d] /\ delivery'[d] = delivery[d],
         CallInv(c)'
  PROVE  GateInv'
<1>1. ASSUME NEW d \in Calls, d # c PROVE CallInv(d)'
  <2>1. call'[d] = call[d] /\ delivery'[d] = delivery[d]
    BY <1>1
  <2> QED BY <1>1, <2>1 DEF GateInv, CallInv
<1> QED BY <1>1 DEF GateInv

\* The invariant is kept by every step, and every step is a step, or a
\* stutter, of the one-shot decision.
LEMMA GateStep ==
  ASSUME TypeOK, TypeOK', GateInv, [Next]_vars
  PROVE  GateInv' /\ [Decision!Next]_(Decision!vars)
<1> USE DEF Told
<1>1. CASE UNCHANGED vars
  BY <1>1 DEF vars, GateInv, CallInv, Winner, Decision!vars
<1>2. ASSUME Winner' = Winner, call' = call, delivery' = delivery,
             waiter'.once = waiter.once, waiter'.resolved = waiter.resolved
      PROVE  GateInv' /\ UNCHANGED Decision!vars
  BY <1>2 DEF GateInv, CallInv, Decision!vars
<1>3. CASE WaiterStep
  <2> USE DEF TypeOK, Waiter
  <2>1. CASE Register \/ Emit \/ StopWaiting \/ Leave
    BY <1>2, <2>1 DEF Register, Emit, StopWaiting, Leave, Winner
  <2>2. CASE TakeDecision
    BY <1>2, <2>2 DEF TakeDecision, Winner
  <2>3. CASE ReadDecision
    BY <1>2, <2>3 DEF ReadDecision, Winner
  <2>4. CASE DeliverOwn
    <3>1. CASE MaySend
      <4>1. Winner = "nobody" /\ Winner' = waiter.pc /\ waiter.pc \in {"timeout", "canceled"}
        BY <2>4, <3>1 DEF DeliverOwn, MaySend, GateInv, Winner
      <4>2. waiter'.once = "over" /\ call' = call /\ delivery' = delivery
        BY <2>4, <3>1 DEF DeliverOwn
      <4>3. Winner' \notin Calls /\ Winner' # "nobody"
        BY <4>1, ApprovalAssumption
      <4>4. ASSUME NEW c \in Calls PROVE CallInv(c)'
        BY <4>1, <4>2, <4>3, <4>4, ApprovalAssumption DEF GateInv, CallInv
      <4>5. GateInv'
        BY <4>2, <4>3, <4>4 DEF GateInv
      <4>6. Decision!Decide
        BY <4>1, <4>2 DEF Decision!Decide, Decision!Deciders
      <4> QED BY <4>5, <4>6 DEF Decision!Next
    <3>2. CASE ~MaySend
      BY <1>2, <2>4, <3>2 DEF DeliverOwn, Winner
    <3> QED BY <3>1, <3>2
  <2> QED BY <1>3, <2>1, <2>2, <2>3, <2>4 DEF WaiterStep
<1>4. ASSUME NEW c \in Calls, Resolve(c) \/ CallStep(c) \/ PublishFails(c)
      PROVE  GateInv' /\ [Decision!Next]_(Decision!vars)
  <2> USE <1>4 DEF TypeOK
  <2>0. ASSUME Winner' = Winner, call' = call
        PROVE  UNCHANGED Decision!vars
    BY <2>0 DEF Decision!vars
  <2>00. ASSUME Winner' = Winner, NEW a \in Decision!Answers, Answer(c, a),
                call[c].pc # "answered",
                a = "ok" => Winner = c, a = "already" => Winner \notin {"nobody", c}
         PROVE  Decision!Next
    <3>1. Told[c] = "nothing"
      BY <2>00 DEF GateInv, CallInv
    <3>2. Told' = [Told EXCEPT ![c] = a]
      BY <2>00 DEF Answer, Call
    <3>3. Decision!Tell(c, a)
      BY <2>00, <3>1, <3>2 DEF Decision!Tell
    <3> QED BY <3>3 DEF Decision!Next
  <2>1. CASE Resolve(c)
    <3>1. waiter' = waiter /\ Winner' = Winner
      BY <2>1 DEF Resolve, Winner
    <3>2. CallInv(c)'
      BY <2>1, <3>1 DEF Resolve, At, Answer, GateInv, CallInv, Call
    <3>3. GateInv'
      BY <2>1, <3>1, <3>2, OwnCallOnly DEF Resolve, At, Answer, GateInv
    <3>4. CASE call[c].local \/ HasRedis
      <4>1. Told' = Told
        BY <2>1, <3>4 DEF Resolve, Call
      <4> QED BY <3>1, <3>3, <4>1 DEF Decision!vars
    <3>5. CASE ~(call[c].local \/ HasRedis)
      <4>1. Answer(c, "not_found") /\ call[c].pc # "answered"
        BY <2>1, <3>5 DEF Resolve
      <4>2. Decision!Next
        BY <2>00, <3>1, <4>1 DEF Decision!Answers
      <4> QED BY <3>3, <4>2
    <3> QED BY <3>4, <3>5
  <2>2. CASE Lookup(c)
    <3>1. waiter' = waiter /\ call' = call /\ Winner' = Winner
      BY <2>2 DEF Lookup, Winner
    <3>2. CallInv(c)'
      BY <2>2, <3>1 DEF Lookup, At, GateInv, CallInv
    <3>3. GateInv'
      BY <2>2, <3>1, <3>2, OwnCallOnly DEF Lookup, At, GateInv
    <3> QED BY <2>0, <3>1, <3>3
  <2>3. CASE LoadResolved(c)
    <3>1. waiter' = waiter /\ call' = call /\ Winner' = Winner
      BY <2>3 DEF LoadResolved, Winner
    <3>2. CallInv(c)'
      BY <2>3, <3>1 DEF LoadResolved, At, GateInv, CallInv
    <3>3. GateInv'
      BY <2>3, <3>1, <3>2, OwnCallOnly DEF LoadResolved, At, GateInv
    <3> QED BY <2>0, <3>1, <3>3
  <2>4. CASE Deliver(c)
    <3>1. CASE MaySend
      <4>1. Winner = "nobody" /\ Winner' = c /\ c # "nobody"
        BY <2>4, <3>1, ApprovalAssumption DEF Deliver, MaySend, GateInv, Winner, Waiter
      <4>2. /\ waiter'.once = "running" /\ call' = call
            /\ delivery' = [delivery EXCEPT ![c] = "store"]
        BY <2>4, <3>1 DEF Deliver, At, Waiter
      <4>3. ASSUME NEW d \in Calls PROVE CallInv(d)'
        <5>1. d # "nobody" /\ CallInv(d)
          BY ApprovalAssumption DEF GateInv
        <5>2. CASE d = c
          BY <2>4, <4>1, <4>2, <5>1, <5>2 DEF CallInv, Deliver
        <5>3. CASE d # c
          BY <4>1, <4>2, <5>1, <5>3 DEF CallInv
        <5> QED BY <5>2, <5>3
      <4>4. GateInv'
        BY <4>1, <4>2, <4>3 DEF GateInv
      <4>5. Decision!Decide
        BY <4>1, <4>2 DEF Decision!Decide, Decision!Deciders
      <4> QED BY <4>4, <4>5 DEF Decision!Next
    <3>2. CASE ~MaySend
      <4>1. waiter' = waiter /\ call' = call /\ Winner' = Winner
        BY <2>4, <3>2 DEF Deliver, Winner
      <4>2. CallInv(c)'
        BY <2>4, <3>2, <4>1 DEF Deliver, At, MaySend, GateInv, CallInv
      <4>3. GateInv'
        BY <2>4, <3>2, <4>1, <4>2, OwnCallOnly DEF Deliver, At, GateInv
      <4> QED BY <2>0, <4>1, <4>3
    <3> QED BY <3>1, <3>2
  <2>5. CASE StoreResolved(c)
    <3>1. call' = call /\ Winner' = Winner /\ Winner = c /\ c # "nobody" /\ waiter.once # "free"
      BY <2>5, ApprovalAssumption DEF StoreResolved, Winner, GateInv, CallInv, Waiter
    <3>2. CallInv(c)' /\ waiter'.once = "over"
      BY <2>5, <3>1 DEF StoreResolved, At, GateInv, CallInv, Waiter
    <3>3. GateInv'
      BY <2>5, <3>1, <3>2, OwnCallOnly DEF StoreResolved, At
    <3> QED BY <2>0, <3>1, <3>3
  <2>6. CASE ReturnLocal(c)
    <3>1. waiter' = waiter /\ delivery' = delivery /\ Winner' = Winner
      BY <2>6 DEF ReturnLocal, Winner
    <3>2. CallInv(c)'
      <4>1. CASE delivery[c] = "not_found" /\ HasRedis
        BY <2>6, <3>1, <4>1 DEF ReturnLocal, GateInv, CallInv, Call
      <4>2. CASE ~(delivery[c] = "not_found" /\ HasRedis)
        <5>1. Answer(c, delivery[c]) /\ delivery[c] \in Answers /\ CallInv(c)
          BY <2>6, <4>2 DEF ReturnLocal, GateInv, Outcomes, Answers
        <5> QED BY <3>1, <5>1, Answered DEF CallInv
      <4> QED BY <4>1, <4>2
    <3>3. GateInv'
      BY <2>6, <3>1, <3>2, OwnCallOnly DEF ReturnLocal, Answer, GateInv
    <3>4. CASE delivery[c] = "not_found" /\ HasRedis
      <4>1. Told' = Told
        BY <2>6, <3>4 DEF ReturnLocal, Call
      <4> QED BY <3>1, <3>3, <4>1 DEF Decision!vars
    <3>5. CASE ~(delivery[c] = "not_found" /\ HasRedis)
      <4>1. Answer(c, delivery[c]) /\ call[c].pc # "answered" /\ delivery[c] \in Outcomes
        BY <2>6, <3>5 DEF ReturnLocal
      <4>2. /\ delivery[c] = "ok" => Winner = c
            /\ delivery[c] = "already" => Winner \notin {"nobody", c}
        BY DEF GateInv, CallInv
      <4>3. Decision!Next
        BY <2>00, <3>1, <4>1, <4>2 DEF Decision!Answers, Outcomes
      <4> QED BY <3>3, <4>3
    <3> QED BY <3>4, <3>5
  <2>7. CASE Publish(c)
    <3>1. waiter' = waiter /\ Winner' = Winner
      BY <2>7 DEF Publish, Winner
    <3>2. CallInv(c)'
      BY <2>7, <3>1 DEF Publish, At, GateInv, CallInv, Call
    <3>3. GateInv'
      BY <2>7, <3>1, <3>2, OwnCallOnly DEF Publish, At, GateInv
    <3>4. Told' = Told
      BY <2>7 DEF Publish, Call
    <3> QED BY <3>1, <3>3, <3>4 DEF Decision!vars
  <2>8. CASE Receive(c)
    <3>1. waiter' = waiter /\ call' = call /\ Winner' = Winner
      BY <2>8 DEF Receive, Winner
    <3>2. CallInv(c)'
      BY <2>8, <3>1 DEF Receive, At, GateInv, CallInv
    <3>3. GateInv'
      BY <2>8, <3>1, <3>2, OwnCallOnly DEF Receive, At, GateInv
    <3> QED BY <2>0, <3>1, <3>3
  <2>9. CASE Ack(c)
    <3>1. waiter' = waiter /\ Winner' = Winner
      BY <2>9 DEF Ack, Winner
    <3>2. CallInv(c)'
      <4>1. CallInv(c) /\ delivery'[c] = "acked" /\ delivery[c] \in Outcomes
        BY <2>9 DEF Ack, At, GateInv
      <4>2. CASE call' = call
        BY <2>9, <3>1, <4>1, <4>2 DEF CallInv, Ack, Outcomes
      <4>3. CASE Answer(c, delivery[c])
        BY <3>1, <4>1, <4>3, Answered DEF CallInv, Outcomes, Answers
      <4> QED BY <2>9, <4>2, <4>3 DEF Ack
    <3>3. GateInv'
      BY <2>9, <3>1, <3>2, OwnCallOnly DEF Ack, At, Answer, GateInv
    <3>4. CASE call' = call
      BY <2>0, <3>1, <3>3, <3>4
    <3>5. CASE call' # call
      <4>1. Answer(c, delivery[c]) /\ call[c].pc # "answered" /\ delivery[c] \in Outcomes
        BY <2>9, <3>5 DEF Ack
      <4>2. /\ delivery[c] = "ok" => Winner = c
            /\ delivery[c] = "already" => Winner \notin {"nobody", c}
        BY DEF GateInv, CallInv
      <4>3. Decision!Next
        BY <2>00, <3>1, <4>1, <4>2 DEF Decision!Answers, Outcomes
      <4> QED BY <3>3, <4>3
    <3> QED BY <3>4, <3>5
  <2>10. CASE AckTimeout(c) \/ PublishFails(c)
    <3>1. waiter' = waiter /\ Winner' = Winner
      BY <2>10 DEF AckTimeout, PublishFails, Winner
    <3>2. \E a \in {"not_found", "error"} : Answer(c, a) /\ call[c].pc # "answered"
      BY <2>10 DEF AckTimeout, PublishFails
    <3>3. CallInv(c)'
      BY <2>10, <3>1 DEF AckTimeout, PublishFails, Answer, At, GateInv, CallInv, Call
    <3>4. GateInv'
      BY <2>10, <3>1, <3>3, OwnCallOnly DEF AckTimeout, PublishFails, Answer, At, GateInv
    <3>5. Decision!Next
      BY <2>00, <3>1, <3>2 DEF Decision!Answers
    <3> QED BY <3>4, <3>5
  <2> QED BY <1>4, <2>1, <2>2, <2>3, <2>4, <2>5, <2>6, <2>7, <2>8, <2>9, <2>10
          DEF CallStep, DeliveryStep
<1> QED BY <1>1, <1>3, <1>4 DEF Next

\* The invariant holds throughout.
LEMMA GateInvariant == Safety => []GateInv
<1>1. Init => GateInv
  BY ApprovalAssumption DEF Init, GateInv, CallInv, Winner
<1>2. TypeOK /\ TypeOK' /\ GateInv /\ [Next]_vars => GateInv'
  BY GateStep
<1> QED BY <1>1, <1>2, GateTypeCorrect, PTL DEF Safety

\* A caller answered "ok" decided; "already resolved" names another's win; and
\* only the owner decides, for any number of racing calls.
THEOREM AnswersCorrect == Safety => [](AnswerIsTrue /\ OnlyOwnerDecides)
<1>1. GateInv => AnswerIsTrue /\ OnlyOwnerDecides
  BY DEF GateInv, CallInv, AnswerIsTrue, OnlyOwnerDecides
<1> QED BY <1>1, GateInvariant, PTL

\* RequestAndWait and Resolve, Redis fan-out included, implement the one-shot
\* decision of ApprovalDecision.
THEOREM GateRefines == Safety => ImplementsDecision
<1>1. Init => Decision!Init
  BY DEF Init, Decision!Init, Winner, Told
<1>2. TypeOK /\ TypeOK' /\ GateInv /\ [Next]_vars => [Decision!Next]_(Decision!vars)
  BY GateStep
<1> QED BY <1>1, <1>2, GateTypeCorrect, GateInvariant, PTL
        DEF Safety, ImplementsDecision, Decision!Safety
=============================================================================
