------------------------------ MODULE ApprovalGate ------------------------------
(***************************************************************************)
(* The human-approval gate of dangerous MCP tools, for one pending         *)
(* approval: RequestAndWait on the replica that owns it, racing Resolve    *)
(* calls on that replica, Resolve calls on others (Redis Pub/Sub there and *)
(* an ack back), the timer and the cancelled request.  Pending approvals   *)
(* share nothing (ids, waiters and reply channels are per approval, acks   *)
(* per call), so one is enough.                                            *)
(***************************************************************************)
EXTENDS Naturals

CONSTANTS
  Calls,      \* Resolve calls
  HasRedis,   \* FALSE: single-process mode, no fan-out
  Faults      \* what Redis may do, see FaultKinds

FaultKinds == {"refuse",   \* a subscribe or publish returns an error
               "drop",     \* Pub/Sub loses a message or an ack (at most once)
               "late"}     \* the ack takes longer than the 3s window

ASSUME ApprovalAssumption ==
  /\ Calls \cap {"nobody", "timeout", "canceled"} = {}
  /\ HasRedis \in BOOLEAN
  /\ Faults \subseteq FaultKinds

VARIABLES
  waiter,     \* RequestAndWait and its entry in Gate.pending
  call,       \* call[c]: a Resolve call as its caller sees it
  delivery    \* delivery[c]: where the deliverLocal made for c stands

vars == <<waiter, call, delivery>>

Deciders == Calls \cup {"timeout", "canceled"}

WaiterPc == {"new", "registered", "waiting", "timeout", "canceled", "reading",
             "leaving", "gone"}
Waiter == [pc : WaiterPc,
           mapped : BOOLEAN,                       \* it is in Gate.pending
           published : BOOLEAN,                    \* the UI knows the pending id
           once : {"free", "running", "over"},     \* waiter.once
           resolved : BOOLEAN,                     \* waiter.resolved
           ch : Deciders \cup {"nobody"},          \* the one-slot channel
           decision : Deciders \cup {"nobody"}]    \* what RequestAndWait returns

Outcomes == {"ok", "mismatch", "already", "not_found"}
Running == {"lookup", "load", "once", "store"}
Answers == Outcomes \cup {"nothing", "error"}
Call == [pc : {"idle", "delivering", "publishing", "awaiting", "answered"},
         local : BOOLEAN,     \* it reached the replica that owns the approval
         owner : BOOLEAN,     \* its tenant and user are the approval's
         answer : Answers]

TypeOK ==
  /\ waiter \in Waiter
  /\ call \in [Calls -> Call]
  /\ delivery \in [Calls -> {"none", "wire", "lost", "acked"} \cup Running \cup Outcomes]

Init ==
  /\ waiter = [pc |-> "new", mapped |-> FALSE, published |-> FALSE, once |-> "free",
               resolved |-> FALSE, ch |-> "nobody", decision |-> "nobody"]
  /\ call \in [Calls -> [pc : {"idle"}, local : BOOLEAN, owner : BOOLEAN, answer : {"nothing"}]]
  /\ delivery = [c \in Calls |-> "none"]

-----------------------------------------------------------------------------
(* RequestAndWait                                                          *)

Register ==
  /\ waiter.pc = "new"
  /\ waiter' = [waiter EXCEPT !.pc = "registered", !.mapped = TRUE]
  /\ UNCHANGED <<call, delivery>>

\* The event carries the pending id to the UI, or Emit fails and the wait ends
\* with an error before anybody can resolve it.
Emit ==
  /\ waiter.pc = "registered"
  /\ \/ waiter' = [waiter EXCEPT !.pc = "waiting", !.published = TRUE]
     \/ waiter' = [waiter EXCEPT !.pc = "leaving"]
  /\ UNCHANGED <<call, delivery>>

TakeDecision ==
  /\ waiter.pc = "waiting"
  /\ waiter.ch # "nobody"
  /\ waiter' = [waiter EXCEPT !.pc = "leaving", !.ch = "nobody", !.decision = waiter.ch]
  /\ UNCHANGED <<call, delivery>>

\* The timer or the request's context, even when a decision is there to take:
\* select picks among the ready cases at random.
StopWaiting ==
  /\ waiter.pc = "waiting"
  /\ \E cause \in {"timeout", "canceled"} : waiter' = [waiter EXCEPT !.pc = cause]
  /\ UNCHANGED <<call, delivery>>

\* waiter.deliver sends inside once.Do, so only the first caller ever sends.
MaySendTwice == waiter.ch = "nobody"        \* mutant: no once
MaySend == waiter.once = "free"

\* Mutant: its own decision is never delivered.
DeliverNothing ==
  /\ waiter.pc \in {"timeout", "canceled"}
  /\ waiter' = [waiter EXCEPT !.pc = "reading"]
  /\ UNCHANGED <<call, delivery>>

\* The waiter delivers its own decision: once.Do waits while another runs it.
DeliverOwn ==
  /\ waiter.pc \in {"timeout", "canceled"}
  /\ waiter.once # "running"
  /\ waiter' = IF MaySend
                 THEN [waiter EXCEPT !.pc = "reading", !.once = "over", !.resolved = TRUE,
                                     !.ch = waiter.pc]
                 ELSE [waiter EXCEPT !.pc = "reading"]
  /\ UNCHANGED <<call, delivery>>

\* Mutant: the waiter returns its own decision instead of the channel's.
ReadOwn ==
  /\ waiter.pc \in {"timeout", "canceled"}
  /\ waiter' = [waiter EXCEPT !.pc = "leaving", !.ch = "nobody", !.decision = waiter.pc,
                              !.once = "over"]
  /\ UNCHANGED <<call, delivery>>

\* It then reads the channel: whoever won, that is the decision it returns.
ReadDecision ==
  /\ waiter.pc = "reading"
  /\ waiter.ch # "nobody"
  /\ waiter' = [waiter EXCEPT !.pc = "leaving", !.ch = "nobody", !.decision = waiter.ch]
  /\ UNCHANGED <<call, delivery>>

\* The deferred delete, after the decision has been emitted and returned.
Leave ==
  /\ waiter.pc = "leaving"
  /\ waiter' = [waiter EXCEPT !.pc = "gone", !.mapped = FALSE]
  /\ UNCHANGED <<call, delivery>>

WaiterStep ==
  Register \/ Emit \/ TakeDecision \/ StopWaiting \/ DeliverOwn \/ ReadDecision \/ Leave

-----------------------------------------------------------------------------
(* deliverLocal on the owning replica, by the call itself or by the        *)
(* subscriber on behalf of a call made elsewhere                           *)

At(c, stage) == delivery' = [delivery EXCEPT ![c] = stage]

\* Mutant: the caller's identity is not checked.
LookupAnyone(c) ==
  /\ delivery[c] = "lookup"
  /\ At(c, IF waiter.mapped THEN "load" ELSE "not_found")
  /\ UNCHANGED <<waiter, call>>

\* Under the gate's lock: the waiter is found and the caller's identity
\* checked.  The lock is released before anything is delivered.
Lookup(c) ==
  /\ delivery[c] = "lookup"
  /\ At(c, IF ~waiter.mapped THEN "not_found"
           ELSE IF ~call[c].owner THEN "mismatch" ELSE "load")
  /\ UNCHANGED <<waiter, call>>

LoadResolved(c) ==
  /\ delivery[c] = "load"
  /\ At(c, IF waiter.resolved THEN "already" ELSE "once")
  /\ UNCHANGED <<waiter, call>>

\* once.Do blocks while another caller is inside, then runs nothing.
Deliver(c) ==
  /\ delivery[c] = "once"
  /\ waiter.once # "running"
  /\ IF MaySend
       THEN /\ waiter' = [waiter EXCEPT !.once = "running", !.ch = c]
            /\ At(c, "store")
       ELSE /\ At(c, "already")
            /\ UNCHANGED waiter
  /\ UNCHANGED call

StoreResolved(c) ==
  /\ delivery[c] = "store"
  /\ waiter' = [waiter EXCEPT !.once = "over", !.resolved = TRUE]
  /\ At(c, "ok")
  /\ UNCHANGED call

DeliveryStep(c) == Lookup(c) \/ LoadResolved(c) \/ Deliver(c) \/ StoreResolved(c)

-----------------------------------------------------------------------------
(* Resolve                                                                 *)

Answer(c, answer) == call' = [call EXCEPT ![c].pc = "answered", ![c].answer = answer]

\* On a replica that does not own the approval deliverLocal finds nothing.
Resolve(c) ==
  /\ call[c].pc = "idle"
  /\ waiter.published
  /\ IF call[c].local
       THEN /\ call' = [call EXCEPT ![c].pc = "delivering"]
            /\ At(c, "lookup")
       ELSE /\ IF HasRedis THEN call' = [call EXCEPT ![c].pc = "publishing"]
                           ELSE Answer(c, "not_found")
            /\ UNCHANGED delivery
  /\ UNCHANGED waiter

\* Mutant: the call returns before the delivery is over.
ReturnEarly(c) ==
  /\ call[c].pc = "delivering"
  /\ Answer(c, delivery[c])
  /\ UNCHANGED <<waiter, delivery>>

\* The owner does not have it any more: with Redis the call is fanned out like
\* a foreign one, and its own subscriber skips the message.
ReturnLocal(c) ==
  /\ call[c].pc = "delivering"
  /\ delivery[c] \in Outcomes
  /\ IF delivery[c] = "not_found" /\ HasRedis
       THEN call' = [call EXCEPT ![c].pc = "publishing"]
       ELSE Answer(c, delivery[c])
  /\ UNCHANGED <<waiter, delivery>>

\* resolveCrossInstance: subscribe to the reply channel, then publish.  Pub/Sub
\* keeps nothing for a subscriber that is reconnecting.
Publish(c) ==
  /\ call[c].pc = "publishing"
  /\ call' = [call EXCEPT ![c].pc = "awaiting"]
  /\ IF call[c].local THEN UNCHANGED delivery
     ELSE At(c, "wire") \/ ("drop" \in Faults /\ At(c, "lost"))
  /\ UNCHANGED waiter

\* A publish that timed out may have reached Redis all the same.
PublishFails(c) ==
  /\ "refuse" \in Faults
  /\ call[c].pc = "publishing"
  /\ Answer(c, "error")
  /\ UNCHANGED delivery \/ (~call[c].local /\ At(c, "wire"))
  /\ UNCHANGED waiter

\* runSubscriber on the owner handles one message at a time.
SubscriberIdle == \A c \in Calls : call[c].local \/ delivery[c] \notin Running \cup Outcomes
Receive(c) ==
  /\ delivery[c] = "wire"
  /\ SubscriberIdle
  /\ At(c, "lookup")
  /\ UNCHANGED <<waiter, call>>

\* The outcome goes back as an ack, unless nothing was found: a replica that
\* does not have the approval stays silent.  A caller already gone misses it.
Ack(c) ==
  /\ ~call[c].local
  /\ delivery[c] \in Outcomes
  /\ At(c, "acked")
  /\ \/ /\ call[c].pc = "awaiting" /\ delivery[c] # "not_found"
        /\ Answer(c, delivery[c])
     \/ /\ call[c].pc # "awaiting" \/ delivery[c] = "not_found" \/ "drop" \in Faults
        /\ UNCHANGED call
  /\ UNCHANGED waiter

\* Mutant: the wait for the ack has no deadline.
NoDeadline(c) == call[c].pc = "awaiting" /\ FALSE /\ UNCHANGED vars

\* Nothing will come (no replica has it, or Pub/Sub lost it), or it is late.
AckTimeout(c) ==
  /\ call[c].pc = "awaiting"
  /\ call[c].local \/ delivery[c] \in {"lost", "acked"} \/ "late" \in Faults
  /\ Answer(c, "not_found")
  /\ UNCHANGED <<waiter, delivery>>

CallStep(c) ==
  DeliveryStep(c) \/ ReturnLocal(c) \/ Publish(c) \/ Receive(c) \/ Ack(c) \/ AckTimeout(c)

-----------------------------------------------------------------------------
Next == WaiterStep \/ \E c \in Calls : Resolve(c) \/ CallStep(c) \/ PublishFails(c)

\* Goroutines run, and the timer fires; no user has to decide.
Fairness == WF_vars(WaiterStep) /\ \A c \in Calls : WF_vars(CallStep(c))

Safety == Init /\ [][Next]_vars
Spec == Safety /\ Fairness

-----------------------------------------------------------------------------
(* Properties                                                              *)

\* Whose decision entered the channel, or left it.
Winner == IF waiter.ch # "nobody" THEN waiter.ch ELSE waiter.decision

Told == [c \in Calls |-> call[c].answer]

\* A caller answered "ok" decided the tool call, however its Resolve raced the
\* timeout, a stop and other callers; "already resolved" names another's win.
AnswerIsTrue ==
  \A c \in Calls :
    /\ call[c].answer = "ok" => Winner = c
    /\ call[c].answer = "already" => Winner \notin {"nobody", c}

\* Only the user and tenant that own the session decide an approval.
OnlyOwnerDecides == \A c \in Calls : Winner = c => call[c].owner

Decision == INSTANCE ApprovalDecision WITH decided <- Winner, told <- Told

\* The gate implements the one-shot decision, fan-out and all.
ImplementsDecision == Decision!Safety

\* A tool call that asked for approval always gets an answer: the timeout's
\* delivery cannot block on a decision it lost to.
WaitEnds == (waiter.pc = "registered") ~> (waiter.pc = "gone")

\* A Resolve request is always answered.
CallsEnd == \A c \in Calls : (call[c].pc \notin {"idle", "answered"}) ~> (call[c].pc = "answered")
=============================================================================
