------------------------------ MODULE EnrichmentProofs ------------------------------
(* Theorems about Enrichment for any number of deliveries, slots and retries. *)
EXTENDS Enrichment, FiniteSetTheorems, TLAPS

USE DEF storeVars, enrichVars

-----------------------------------------------------------------------------
(* Type correctness.                                                       *)

LEMMA TypeInit == Init => TypeOK
BY MaxAttemptsAssumption, EnrichmentAssumption
   DEF Init, EnrichInit, TypeOK, StoreTypeOK, Row, ParseStatus, SummaryStatus,
       PostTask, PostPc, SubTask, SubPc, Copy, Idle, SweepState

\* The repository's writes keep the row well formed.
LEMMA RowWrites ==
  ASSUME row \in Row
  PROVE  /\ \A st \in ParseStatus : SetStatus(st) => row' \in Row
         /\ \A su \in SummaryStatus : SetSummary(su) => row' \in Row
         /\ \A c \in Copy : Save(c) => row' \in Row
         /\ \A n \in Nat : SetFinalizing(n) => row' \in Row
         /\ Decrement => row' \in Row
         /\ Promote => row' \in Row
         /\ MarkCancelled => row' \in Row
         /\ MarkStuckFailed => row' \in Row
<1> USE DEF Row, Write
<1>1. \A st \in ParseStatus : SetStatus(st) => row' \in Row
  BY DEF SetStatus
<1>2. \A su \in SummaryStatus : SetSummary(su) => row' \in Row
  BY DEF SetSummary
<1>3. \A c \in Copy : Save(c) => row' \in Row
  BY DEF Save, Copy
<1>4. \A n \in Nat : SetFinalizing(n) => row' \in Row
  BY DEF SetFinalizing, ParseStatus
<1>5. Decrement => row' \in Row
  BY DEF Decrement
<1>6. Promote => row' \in Row
  BY DEF Promote, ParseStatus
<1> PICK zero \in Nat : zero = 0
  OBVIOUS
<1>7. MarkCancelled => row' \in Row
  <2>1. ASSUME row' = IF row.live THEN [row EXCEPT !.status = "cancelled", !.count = zero] ELSE row
        PROVE  row' \in Row
    BY <2>1 DEF ParseStatus
  <2> QED
    BY <2>1 DEF MarkCancelled
<1>8. MarkStuckFailed => row' \in Row
  <2>1. ASSUME row' = [row EXCEPT !.status = "failed", !.count = zero]
        PROVE  row' \in Row
    BY <2>1 DEF ParseStatus
  <2> QED
    BY <2>1 DEF MarkStuckFailed
<1> QED
  BY <1>1, <1>2, <1>3, <1>4, <1>5, <1>6, <1>7, <1>8

LEMMA PlanCount == \A plan \in Plans : Cardinality(plan) \in Nat
BY EnrichmentAssumption, FS_CardinalityType, FS_Subset DEF Plans

LEMMA RowType ==
  ASSUME TypeOK, Next
  PROVE  row' \in Row
<1>1. row \in Row
  BY DEF TypeOK, StoreTypeOK
<1>2. {"failed", "completed"} \subseteq ParseStatus /\ "pending" \in SummaryStatus
  BY DEF ParseStatus, SummaryStatus
<1>3. ASSUME NEW p \in Posts, PostStep(p) PROVE row' \in Row
  BY <1>1, <1>2, <1>3, RowWrites, PlanCount
     DEF PostStep, PostLoad, PostDeadLetter, PostComplete, PostSeed, PostSkip,
         PostSummaryPending, PostEnqueue, PostRelease, PostReleasePromote, PostDone
<1>4. ASSUME NEW p \in Posts, NEW s \in Slots, SubStep(p, s) PROVE row' \in Row
  BY <1>1, <1>4, RowWrites
     DEF SubStep, SubStart, SubLoad, SubExit, SubDrain, SubPromote, SubAck
<1>5. ASSUME NEW p \in Posts, SummaryStep(p) PROVE row' \in Row
  <2>1. \A su \in SummaryStatus : [sub[p][Summary].copy EXCEPT !.summary = su] \in Copy
    <3>1. sub[p][Summary].copy \in Copy
      BY EnrichmentAssumption DEF TypeOK, SubTask
    <3> QED
      BY <3>1 DEF Copy
  <2>2. {"processing", "completed", "failed"} \subseteq SummaryStatus
    BY DEF SummaryStatus
  <2>3. CASE SummaryBegin(p)
    BY <1>1, <2>1, <2>2, <2>3, RowWrites DEF SummaryBegin
  <2>4. CASE SummarySave(p)
    BY <1>1, <2>1, <2>2, <2>4, RowWrites DEF SummarySave
  <2>5. CASE SummaryGiveUp(p)
    BY <1>1, <2>1, <2>2, <2>5, RowWrites DEF SummaryGiveUp
  <2>6. CASE SummarySaveFails(p)
    BY <1>1, <2>6 DEF SummarySaveFails
  <2> QED
    BY <1>5, <2>3, <2>4, <2>5, <2>6 DEF SummaryStep
<1>6. ASSUME FaultStep PROVE row' \in Row
  BY <1>1, <1>6 DEF FaultStep, PostError, PostReleaseFails, PostCrash, SubCrash, SweepFails
<1>7. ASSUME CancelStep PROVE row' \in Row
  BY <1>1, <1>7, RowWrites DEF CancelStep, CancelCheck, CancelWrite, CancelDequeue
<1>8. ASSUME SweepLook \/ SweepWrite PROVE row' \in Row
  BY <1>1, <1>8, RowWrites DEF SweepLook, SweepFind, SweepSpans, SweepProbe, SweepWrite
<1> QED
  BY <1>3, <1>4, <1>5, <1>6, <1>7, <1>8 DEF Next, WorkerStep

LEMMA PostType ==
  ASSUME TypeOK, Next
  PROVE  post' \in [Posts -> PostTask]
<1>1. post \in [Posts -> PostTask]
  BY DEF TypeOK
<1>2. ASSUME NEW p \in Posts, NEW pc \in PostPc, PostGoto(p, pc)
      PROVE  post' \in [Posts -> PostTask]
  BY <1>1, <1>2 DEF PostGoto, PostTask
<1>3. ASSUME NEW p \in Posts, PostStep(p) PROVE post' \in [Posts -> PostTask]
  <2> USE <1>1
  <2>1. CASE PostLoad(p)
    <3> DEFINE pc == IF row.status = "processing" THEN "loaded" ELSE "done"
               a == IF post[p].attempt = 0 THEN latest ELSE post[p].attempt
    <3>1. pc \in PostPc
      BY DEF PostPc
    <3>2. a \in 0 .. MaxAttempts
      BY MaxAttemptsAssumption DEF TypeOK, StoreTypeOK, PostTask
    <3> DEFINE t == [post[p] EXCEPT !.pc = pc, !.attempt = a]
    <3>3. post' = [post EXCEPT ![p] = t]
      BY <2>1 DEF PostLoad
    <3> HIDE DEF pc, a
    <3>4. t \in PostTask
      <4>1. post[p] \in PostTask
        OBVIOUS
      <4> QED
        BY <3>1, <3>2, <4>1 DEF PostTask
    <3> HIDE DEF t
    <3> QED
      BY <3>3, <3>4
  <2>2. CASE PostSeed(p)
    <3>1. PICK plan \in Plans : post' = [post EXCEPT ![p].pc = "seeded", ![p].plan = plan]
      BY <2>2 DEF PostSeed
    <3> DEFINE t == [post[p] EXCEPT !.pc = "seeded", !.plan = plan]
    <3>2. post' = [post EXCEPT ![p] = t]
      BY <3>1
    <3>3. t \in PostTask
      <4>1. post[p] \in PostTask
        OBVIOUS
      <4> QED
        BY <4>1 DEF PostTask, PostPc, Plans
    <3> HIDE DEF t
    <3> QED
      BY <3>2, <3>3
  <2>3. CASE \/ PostDeadLetter(p) \/ PostComplete(p) \/ PostSkip(p)
             \/ PostSummaryPending(p) \/ PostReleasePromote(p) \/ PostDone(p)
             \/ \E s \in Slots : PostEnqueue(p, s) \/ PostRelease(p, s)
    BY <2>3, <1>2 DEF PostDeadLetter, PostComplete, PostSkip, PostSummaryPending,
         PostReleasePromote, PostDone, PostEnqueue, PostRelease, PostPc
  <2> QED
    BY <1>3, <2>1, <2>2, <2>3 DEF PostStep
<1>4. ASSUME FaultStep PROVE post' \in [Posts -> PostTask]
  <2> USE <1>1
  <2>1. ASSUME NEW p \in Posts, PostError(p) \/ PostCrash(p)
        PROVE  post' \in [Posts -> PostTask]
    BY <2>1, EnrichmentAssumption DEF PostError, PostCrash, PostTask, PostPc
  <2>2. ASSUME NEW p \in Posts, PostReleaseFails(p)
        PROVE  post' \in [Posts -> PostTask]
    BY <2>2, <1>2 DEF PostReleaseFails, PostPc
  <2> QED
    BY <1>4, <2>1, <2>2 DEF FaultStep, SubCrash, SweepFails, SweepGoto
<1>5. ASSUME CancelStep PROVE post' \in [Posts -> PostTask]
  <2>1. \A p \in Posts : [post[p] EXCEPT !.pc = "done"] \in PostTask
    BY <1>1 DEF PostTask, PostPc
  <2> QED
    BY <1>1, <1>5, <2>1 DEF CancelStep, CancelCheck, CancelWrite, CancelDequeue
<1>6. ASSUME NEW p \in Posts, NEW s \in Slots, SubStep(p, s) PROVE post' = post
  BY <1>6 DEF SubStep, SubStart, SubLoad, SubExit, SubDrain, SubPromote, SubAck
<1>7. ASSUME NEW p \in Posts, SummaryStep(p) PROVE post' = post
  BY <1>7 DEF SummaryStep, SummaryBegin, SummarySave, SummaryGiveUp, SummarySaveFails
<1>8. SweepLook \/ SweepWrite => post' = post
  BY DEF SweepLook, SweepFind, SweepSpans, SweepProbe, SweepWrite, SweepGoto
<1> QED
  BY <1>1, <1>3, <1>4, <1>5, <1>6, <1>7, <1>8 DEF Next, WorkerStep

\* Replacing one subtask by a well-formed one keeps sub well formed.
LEMMA SubPatch ==
  ASSUME NEW p \in Posts, NEW s \in Slots, NEW t \in SubTask,
         sub \in [Posts -> [Slots -> SubTask]],
         sub' = [sub EXCEPT ![p] = [@ EXCEPT ![s] = t]]
  PROVE  sub' \in [Posts -> [Slots -> SubTask]]
<1>1. [sub[p] EXCEPT ![s] = t] \in [Slots -> SubTask]
  OBVIOUS
<1> QED
  BY <1>1

LEMMA SubType ==
  ASSUME TypeOK, Next
  PROVE  sub' \in [Posts -> [Slots -> SubTask]]
<1> DEFINE Typed == sub' \in [Posts -> [Slots -> SubTask]]
<1>1. sub \in [Posts -> [Slots -> SubTask]]
  BY DEF TypeOK
<1>2. ASSUME NEW p \in Posts, NEW s \in Slots, NEW pc \in SubPc,
             sub' = [sub EXCEPT ![p][s].pc = pc]
      PROVE  Typed
  <2> DEFINE t == [sub[p][s] EXCEPT !.pc = pc]
  <2>1. t \in SubTask
    <3>1. sub[p][s] \in SubTask
      BY <1>1
    <3> QED
      BY <3>1 DEF SubTask
  <2>2. sub' = [sub EXCEPT ![p] = [@ EXCEPT ![s] = t]]
    BY <1>2
  <2> HIDE DEF t
  <2> QED
    BY <1>1, <2>1, <2>2, SubPatch
<1>3. ASSUME NEW p \in Posts, NEW s \in Slots, NEW pc \in SubPc,
             sub' = [sub EXCEPT ![p][s].pc = pc, ![p][s].drained = TRUE]
      PROVE  Typed
  <2> DEFINE t == [sub[p][s] EXCEPT !.pc = pc, !.drained = TRUE]
  <2>1. t \in SubTask
    <3>1. sub[p][s] \in SubTask
      BY <1>1
    <3> QED
      BY <3>1 DEF SubTask
  <2>2. sub' = [sub EXCEPT ![p] = [@ EXCEPT ![s] = t]]
    BY <1>1, <1>3
  <2> HIDE DEF t
  <2> QED
    BY <1>1, <2>1, <2>2, SubPatch
<1>4. ASSUME NEW p \in Posts, NEW s \in Slots, NEW pc \in SubPc, NEW c \in Copy,
             sub' = [sub EXCEPT ![p][s].copy = c, ![p][s].pc = pc]
      PROVE  Typed
  <2> DEFINE t == [sub[p][s] EXCEPT !.copy = c, !.pc = pc]
  <2>1. t \in SubTask
    <3>1. sub[p][s] \in SubTask
      BY <1>1
    <3> QED
      BY <3>1 DEF SubTask
  <2>2. sub' = [sub EXCEPT ![p] = [@ EXCEPT ![s] = t]]
    BY <1>1, <1>4
  <2> HIDE DEF t
  <2> QED
    BY <1>1, <2>1, <2>2, SubPatch
<1>5. ASSUME NEW p \in Posts, NEW s \in Slots, NEW pc \in SubPc,
             NEW n \in 0 .. MaxRetry,
             sub' = [sub EXCEPT ![p][s].pc = pc, ![p][s].retried = n]
      PROVE  Typed
  <2> DEFINE t == [sub[p][s] EXCEPT !.pc = pc, !.retried = n]
  <2>1. t \in SubTask
    <3>1. sub[p][s] \in SubTask
      BY <1>1
    <3> QED
      BY <3>1 DEF SubTask
  <2>2. sub' = [sub EXCEPT ![p] = [@ EXCEPT ![s] = t]]
    BY <1>1, <1>5
  <2> HIDE DEF t
  <2> QED
    BY <1>1, <2>1, <2>2, SubPatch
<1>6. ASSUME NEW p \in Posts, NEW s \in Slots, sub[p][s].retried < MaxRetry,
             sub' = [sub EXCEPT ![p][s].pc = "queued", ![p][s].retried = @ + 1]
      PROVE  Typed
  <2>1. sub[p][s].retried + 1 \in 0 .. MaxRetry
    BY <1>1, <1>6, EnrichmentAssumption DEF SubTask
  <2> DEFINE n == sub[p][s].retried + 1
  <2>2. sub' = [sub EXCEPT ![p][s].pc = "queued", ![p][s].retried = n]
    BY <1>6
  <2> HIDE DEF n
  <2> QED
    BY <1>5, <2>1, <2>2 DEF SubPc, n
<1>7. ASSUME NEW p \in Posts, NEW s \in Slots, ExitWithError(p, s)
      PROVE  Typed
  BY <1>2, <1>6, <1>7 DEF ExitWithError, SubPc, SubActive
<1>8. ASSUME NEW p \in Posts, NEW s \in Slots, SubCrash(p, s)
      PROVE  Typed
  BY <1>2, <1>6, <1>8 DEF SubCrash, SubPc
<1>9. ASSUME NEW p \in Posts, PostStep(p) PROVE Typed
  <2>1. ASSUME NEW s \in Slots, PostEnqueue(p, s) PROVE Typed
    BY <1>2, <2>1 DEF PostEnqueue, SubPc
  <2>2. ASSUME NEW s \in Slots, PostRelease(p, s) PROVE Typed
    BY <1>3, <2>2 DEF PostRelease, SubPc
  <2> QED
    BY <1>1, <1>9, <2>1, <2>2
       DEF PostStep, PostLoad, PostDeadLetter, PostComplete, PostSeed, PostSkip,
           PostSummaryPending, PostReleasePromote, PostDone
<1>10. ASSUME NEW p \in Posts, NEW s \in Slots, SubStep(p, s) PROVE Typed
  <2>1. Loaded \in Copy
    BY DEF TypeOK, StoreTypeOK, Row, Loaded, Copy
  <2> USE DEF SubGoto, SubPc, SubActive
  <2>2. CASE SubStart(p, s)
    BY <1>2, <2>2 DEF SubStart
  <2>3. CASE SubLoad(p, s)
    BY <1>2, <1>4, <2>1, <2>3 DEF SubLoad
  <2>4. CASE SubExit(p, s)
    BY <1>2, <1>7, <2>4 DEF SubExit
  <2>5. CASE SubDrain(p, s)
    BY <1>2, <1>3, <2>5 DEF SubDrain
  <2>6. CASE SubPromote(p, s) \/ SubAck(p, s)
    BY <1>2, <2>6 DEF SubPromote, SubAck
  <2> QED
    BY <1>10, <2>2, <2>3, <2>4, <2>5, <2>6 DEF SubStep
<1>11. ASSUME NEW p \in Posts, SummaryStep(p) PROVE Typed
  <2> USE DEF SubGoto, SubPc, SubActive
  <2>1. Summary \in Slots
    BY EnrichmentAssumption
  <2>2. CASE SummaryBegin(p)
    <3> DEFINE c == [sub[p][Summary].copy EXCEPT !.summary = "processing"]
    <3>1. c \in Copy
      <4>1. sub[p][Summary].copy \in Copy
        BY <1>1, <2>1 DEF SubTask
      <4> QED
        BY <4>1 DEF Copy, SummaryStatus
    <3>2. sub' = [sub EXCEPT ![p][Summary].copy = c, ![p][Summary].pc = "working"]
      BY <2>2, <1>1, <2>1 DEF SummaryBegin
    <3> HIDE DEF c
    <3> QED
      BY <1>4, <2>1, <3>1, <3>2
  <2>3. CASE SummarySave(p)
    BY <1>2, <2>1, <2>3 DEF SummarySave
  <2>4. CASE SummaryGiveUp(p)
    BY <1>2, <1>7, <2>1, <2>4 DEF SummaryGiveUp
  <2>5. CASE SummarySaveFails(p)
    BY <1>7, <2>1, <2>5 DEF SummarySaveFails
  <2> QED
    BY <1>11, <2>2, <2>3, <2>4, <2>5 DEF SummaryStep
<1>12. ASSUME NEW p \in Posts, PostReleaseFails(p) PROVE Typed
  <2>1. \A s \in Slots : [sub[p][s] EXCEPT !.pc = "lost"] \in SubTask
    BY <1>1 DEF SubTask, SubPc
  <2>2. [s \in Slots |-> IF sub[p][s].pc = "unqueued" THEN [sub[p][s] EXCEPT !.pc = "lost"]
                         ELSE sub[p][s]] \in [Slots -> SubTask]
    BY <1>1, <2>1
  <2> QED
    BY <1>1, <1>12, <2>2 DEF PostReleaseFails
<1>13. ASSUME FaultStep PROVE Typed
  BY <1>1, <1>8, <1>12, <1>13 DEF FaultStep, PostError, PostCrash, SweepFails, SweepGoto
<1>14. ASSUME CancelStep PROVE Typed
  <2>1. \A p \in Posts, s \in Slots : [sub[p][s] EXCEPT !.pc = "removed"] \in SubTask
    BY <1>1 DEF SubTask, SubPc
  <2> QED
    BY <1>1, <1>14, <2>1 DEF CancelStep, CancelCheck, CancelWrite, CancelDequeue
<1>15. SweepLook \/ SweepWrite => Typed
  BY <1>1 DEF SweepLook, SweepFind, SweepSpans, SweepProbe, SweepWrite, SweepGoto
<1> QED
  BY <1>9, <1>10, <1>11, <1>13, <1>14, <1>15 DEF Next, WorkerStep

\* Every reachable state is well typed, whatever fails and whoever cancels.
THEOREM TypeCorrect == Spec => []TypeOK
<1>1. TypeOK /\ [Next]_vars => TypeOK'
  <2> SUFFICES ASSUME TypeOK, Next PROVE TypeOK'
    BY DEF vars, TypeOK, StoreTypeOK
  <2> DEFINE Rest == /\ latest' = latest /\ hasText' = hasText
                     /\ canceller' \in {"idle", "checked", "written", "over"}
                     /\ sweep' \in SweepState
  <2>1. ASSUME NEW p \in Posts, PostStep(p) PROVE Rest
    BY <2>1 DEF TypeOK, PostStep, PostLoad, PostDeadLetter, PostComplete, PostSeed, PostSkip,
         PostSummaryPending, PostEnqueue, PostRelease, PostReleasePromote, PostDone
  <2>2. ASSUME NEW p \in Posts, NEW s \in Slots, SubStep(p, s) PROVE Rest
    BY <2>2 DEF TypeOK, SubStep, SubStart, SubLoad, SubExit, SubDrain, SubPromote, SubAck
  <2>3. ASSUME NEW p \in Posts, SummaryStep(p) PROVE Rest
    BY <2>3 DEF TypeOK, SummaryStep, SummaryBegin, SummarySave, SummaryGiveUp,
         SummarySaveFails
  <2>4. ASSUME FaultStep PROVE Rest
    BY <2>4 DEF TypeOK, FaultStep, PostError, PostReleaseFails, PostCrash, SubCrash,
         SweepFails, SweepGoto, SweepState
  <2>5. ASSUME CancelStep PROVE Rest
    BY <2>5 DEF TypeOK, CancelStep, CancelCheck, CancelWrite, CancelDequeue
  <2>6. ASSUME SweepLook \/ SweepWrite PROVE Rest
    <3>1. ASSUME NEW pc \in {"idle", "candidate", "silent", "stuck"}, SweepGoto(pc) PROVE Rest
      <4>1. sweep' = [sweep EXCEPT !.pc = pc] /\ sweep \in SweepState
        BY <3>1 DEF SweepGoto, TypeOK
      <4>2. sweep' \in SweepState
        BY <4>1 DEF SweepState
      <4> QED
        BY <3>1, <4>2 DEF SweepGoto, TypeOK
    <3>2. ASSUME sweep' = [pc |-> "stuck", blind |-> TRUE],
                 UNCHANGED <<latest, post, sub, canceller, hasText>>
          PROVE  Rest
      BY <3>2 DEF TypeOK, SweepState
    <3>3. CASE SweepProbe
      BY <3>1, <3>2, <3>3 DEF SweepProbe
    <3>4. CASE SweepFind \/ SweepSpans \/ SweepWrite
      BY <3>1, <3>4 DEF SweepFind, SweepSpans, SweepWrite
    <3> QED
      BY <2>6, <3>3, <3>4 DEF SweepLook
  <2>7. Rest
    BY <2>1, <2>2, <2>3, <2>4, <2>5, <2>6 DEF Next, WorkerStep
  <2> QED
    BY <2>7, RowType, PostType, SubType DEF TypeOK, StoreTypeOK
<1> QED
  BY <1>1, TypeInit, PTL DEF Spec

-----------------------------------------------------------------------------
(* The counter.  While no drained task is redelivered and nobody cancels,  *)
(* the counter of a finalizing row is the number of open slots.  That is   *)
(* not inductive: a summary handler may put the row back to finalizing     *)
(* after it failed, so the count must also be exact while such a copy is   *)
(* held; and a slot must be seen drained exactly when its task is past     *)
(* its drain.                                                              *)

Quiet == "redeliver" \notin Faults /\ ~Cancels

DrainedPc == {"promoting", "acking", "done"}
HoldingPc == {"loaded", "working", "saved"}
Holds(p) == sub[p][Summary].pc \in HoldingPc

QuietRow ==
  /\ row.live
  /\ row.status \in {"processing", "finalizing", "completed", "failed"}
  /\ canceller = "idle"

\* One delivery at most fanned out, of a document with text; its plan has a
\* summary and owns every slot that left "none".
FanOutShape ==
  /\ \A p, q \in Posts : post[p].plan # {} /\ post[q].plan # {} => p = q
  /\ \A p \in Posts : post[p].plan # {} => hasText
  /\ \A p \in Posts, s \in Slots : sub[p][s].pc # "none" => s \in post[p].plan
  /\ row.status = "processing" => \A p \in Posts : post[p].plan = {}

DrainedShape ==
  \A p \in Posts, s \in Slots : sub[p][s].drained <=> sub[p][s].pc \in DrainedPc

CopyShape ==
  \A p \in Posts : Holds(p) => sub[p][Summary].copy.status \in {"finalizing", "failed"}

HoldsFinalizing(p) == Holds(p) /\ sub[p][Summary].copy.status = "finalizing"
Exact(p) == row.count = Cardinality(OpenSlots(p))

CountExact ==
  \A p \in Posts :
    post[p].plan # {} /\ (row.status = "finalizing" \/ HoldsFinalizing(p)) => Exact(p)

\* CompletedMeansDrained, whatever the sweep has seen.
CompletedDrained == row.status = "completed" => \A p \in Posts : OpenSlots(p) = {}

CounterInv ==
  QuietRow /\ FanOutShape /\ DrainedShape /\ CopyShape /\ CountExact /\ CompletedDrained

LEMMA CounterInit == Init => CounterInv
<1> SUFFICES ASSUME Init PROVE CounterInv
  OBVIOUS
<1>1. \A p \in Posts : post[p].plan = {}
  BY DEF Init, EnrichInit
<1>2. \A p \in Posts, s \in Slots : sub[p][s].pc = "none" /\ sub[p][s].drained = FALSE
  BY DEF Init, EnrichInit, Idle
<1>3. QuietRow /\ row.status = "processing"
  BY DEF Init, EnrichInit, QuietRow
<1>4. DrainedShape /\ CopyShape
  BY <1>2, EnrichmentAssumption DEF DrainedShape, CopyShape, Holds, DrainedPc, HoldingPc
<1> QED
  BY <1>1, <1>2, <1>3, <1>4 DEF CounterInv, FanOutShape, CountExact, CompletedDrained

LEMMA OpenFinite ==
  ASSUME NEW p \in Posts, TypeOK
  PROVE  IsFiniteSet(OpenSlots(p)) /\ Cardinality(OpenSlots(p)) \in Nat
BY EnrichmentAssumption, FS_CardinalityType, FS_Subset DEF OpenSlots, TypeOK, PostTask

\* Steps that leave every plan, drained slot and held copy as they are.
PlansKeep == \A p \in Posts : post'[p].plan = post[p].plan
SubsKeep ==
  \A p \in Posts, s \in Slots :
    /\ sub'[p][s].drained = sub[p][s].drained
    /\ sub'[p][s].pc # "none" => s \in post[p].plan
    /\ sub'[p][s].pc \in DrainedPc <=> sub[p][s].pc \in DrainedPc
    /\ s = Summary /\ sub'[p][s].pc \in HoldingPc
         => sub[p][s].pc \in HoldingPc /\ sub'[p][s].copy.status = sub[p][s].copy.status
Keeps == PlansKeep /\ SubsKeep /\ hasText' = hasText /\ canceller' = canceller

LEMMA KeepsShape ==
  ASSUME TypeOK, CounterInv, Keeps
  PROVE  /\ \A p \in Posts : OpenSlots(p)' = OpenSlots(p)
         /\ \A p \in Posts : HoldsFinalizing(p)' => HoldsFinalizing(p)
         /\ DrainedShape' /\ CopyShape'
<1>1. \A p \in Posts : OpenSlots(p)' = OpenSlots(p)
  <2> SUFFICES ASSUME NEW p \in Posts PROVE OpenSlots(p)' = OpenSlots(p)
    OBVIOUS
  <2>1. post[p].plan \subseteq Slots
    BY DEF TypeOK, PostTask
  <2> QED
    BY <2>1 DEF Keeps, PlansKeep, SubsKeep, OpenSlots
<1>2. ASSUME NEW p \in Posts, Holds(p)'
      PROVE  Holds(p) /\ sub'[p][Summary].copy.status = sub[p][Summary].copy.status
  BY <1>2, EnrichmentAssumption DEF Keeps, SubsKeep, Holds, HoldingPc
<1>3. DrainedShape'
  BY DEF CounterInv, DrainedShape, Keeps, SubsKeep
<1>4. CopyShape'
  BY <1>2 DEF CounterInv, CopyShape
<1> QED
  BY <1>1, <1>2, <1>3, <1>4 DEF HoldsFinalizing

\* ... preserve the invariant if they leave status and counter alone too.
LEMMA KeepsInv ==
  ASSUME TypeOK, CounterInv, Keeps,
         row'.live = row.live, row'.status = row.status, row'.count = row.count
  PROVE  CounterInv'
<1>1. QuietRow' /\ FanOutShape'
  BY DEF CounterInv, QuietRow, FanOutShape, Keeps, PlansKeep, SubsKeep
<1>2. CountExact'
  BY KeepsShape DEF CounterInv, CountExact, Exact, Keeps, PlansKeep
<1>3. CompletedDrained'
  BY KeepsShape DEF CounterInv, CompletedDrained
<1> QED
  BY <1>1, <1>2, <1>3, KeepsShape DEF CounterInv

\* One subtask moves; what the others are stays.
LEMMA SubMove ==
  ASSUME TypeOK, CounterInv, NEW p \in Posts, NEW s \in Slots, NEW pc \in SubPc,
         \/ sub' = [sub EXCEPT ![p][s].pc = pc]
         \/ \E n \in Nat : sub' = [sub EXCEPT ![p][s].pc = pc, ![p][s].retried = n],
         s \in post[p].plan,
         pc \in DrainedPc <=> sub[p][s].pc \in DrainedPc,
         s = Summary /\ pc \in HoldingPc => sub[p][s].pc \in HoldingPc
  PROVE  SubsKeep
<1> SUFFICES ASSUME NEW q \in Posts, NEW t \in Slots
             PROVE  /\ sub'[q][t].drained = sub[q][t].drained
                    /\ sub'[q][t].copy = sub[q][t].copy
                    /\ sub'[q][t].pc = IF q = p /\ t = s THEN pc ELSE sub[q][t].pc
  BY DEF SubsKeep, CounterInv, FanOutShape
<1>1. sub \in [Posts -> [Slots -> SubTask]]
  BY DEF TypeOK
<1>2. CASE sub' = [sub EXCEPT ![p][s].pc = pc]
  BY <1>1, <1>2 DEF SubTask
<1>3. CASE \E n \in Nat : sub' = [sub EXCEPT ![p][s].pc = pc, ![p][s].retried = n]
  BY <1>1, <1>3 DEF SubTask
<1> QED
  BY <1>2, <1>3

LEMMA PostGotoPlans ==
  ASSUME TypeOK, NEW p \in Posts, NEW pc, PostGoto(p, pc)
  PROVE  PlansKeep
BY DEF PostGoto, PlansKeep, TypeOK, PostTask

\* FinalizeSubtask's decrement, by the task or the release loop of an open slot.
LEMMA CounterDecrement ==
  ASSUME TypeOK, CounterInv, NEW p \in Posts, NEW s \in Slots, NEW pc \in DrainedPc,
         sub[p][s].pc \notin DrainedPc \cup {"none"},
         Decrement, PlansKeep, hasText' = hasText, canceller' = canceller,
         sub' = [sub EXCEPT ![p][s].pc = pc, ![p][s].drained = TRUE]
  PROVE  CounterInv'
<1>1. s \in post[p].plan /\ ~sub[p][s].drained /\ s \in OpenSlots(p)
  BY DEF CounterInv, FanOutShape, DrainedShape, OpenSlots
<1>2. /\ \A q \in Posts, t \in Slots : q # p \/ t # s => sub'[q][t] = sub[q][t]
      /\ sub'[p][s].pc = pc
      /\ sub'[p][s].drained = TRUE
      /\ sub'[p][s].copy = sub[p][s].copy
  <2>1. sub \in [Posts -> [Slots -> SubTask]]
    BY DEF TypeOK
  <2> DEFINE t == [sub[p][s] EXCEPT !.pc = pc, !.drained = TRUE]
  <2>2. sub' = [sub EXCEPT ![p] = [@ EXCEPT ![s] = t]]
    BY <2>1
  <2>3. t.pc = pc /\ t.drained = TRUE /\ t.copy = sub[p][s].copy
    <3>1. sub[p][s] \in SubTask
      BY <2>1
    <3> QED
      BY <3>1 DEF SubTask
  <2> HIDE DEF t
  <2> QED
    BY <2>1, <2>2, <2>3
<1> pc # "none" /\ pc \notin HoldingPc
  BY DEF DrainedPc, HoldingPc
<1>3. post[p].plan \subseteq Slots
  BY DEF TypeOK, PostTask
<1>4. OpenSlots(p)' = OpenSlots(p) \ {s}
  BY <1>2, <1>3 DEF OpenSlots, PlansKeep
<1>5. Cardinality(OpenSlots(p)') = Cardinality(OpenSlots(p)) - 1 /\ Cardinality(OpenSlots(p)) > 0
  <2>1. IsFiniteSet(OpenSlots(p)) /\ Cardinality(OpenSlots(p)) \in Nat
    BY OpenFinite
  <2>2. Cardinality(OpenSlots(p)) # 0
    BY <1>1, <2>1, FS_EmptySet
  <2>3. Cardinality(OpenSlots(p) \ {s}) = Cardinality(OpenSlots(p)) - 1
    BY <1>1, <2>1, FS_RemoveElement
  <2> QED
    BY <1>4, <2>1, <2>2, <2>3
<1>6. row'.live = row.live /\ row'.status = row.status
       /\ row'.count = IF row.count > 0 THEN row.count - 1 ELSE 0
  BY DEF Decrement, Write, CounterInv, QuietRow, TypeOK, StoreTypeOK, Row
<1>7. QuietRow' /\ FanOutShape'
  <2>1. \A q \in Posts, t \in Slots : sub'[q][t].pc # "none" => t \in post[q].plan
    <3> SUFFICES ASSUME NEW q \in Posts, NEW t \in Slots, sub'[q][t].pc # "none"
                 PROVE  t \in post[q].plan
      OBVIOUS
    <3>1. CASE q = p /\ t = s
      BY <1>1, <3>1
    <3>2. CASE q # p \/ t # s
      BY <1>2, <3>2 DEF CounterInv, FanOutShape
    <3> QED
      BY <3>1, <3>2
  <2>2. QuietRow'
    BY <1>6 DEF CounterInv, QuietRow
  <2> QED
    BY <1>6, <2>1, <2>2 DEF CounterInv, FanOutShape, PlansKeep
<1>8. DrainedShape'
  <2> SUFFICES ASSUME NEW q \in Posts, NEW t \in Slots
               PROVE  sub'[q][t].drained <=> sub'[q][t].pc \in DrainedPc
    BY DEF DrainedShape
  <2>1. CASE q = p /\ t = s
    BY <1>2, <2>1
  <2>2. CASE q # p \/ t # s
    BY <1>2, <2>2 DEF CounterInv, DrainedShape
  <2> QED
    BY <2>1, <2>2
<1>9. \A q \in Posts : Holds(q)' => Holds(q) /\ sub'[q][Summary].copy = sub[q][Summary].copy
  BY <1>2, EnrichmentAssumption DEF Holds
<1>10. CopyShape'
  BY <1>9 DEF CounterInv, CopyShape
<1>11. CountExact'
  <2> SUFFICES ASSUME NEW q \in Posts, post'[q].plan # {},
                      row'.status = "finalizing" \/ HoldsFinalizing(q)'
               PROVE  Exact(q)'
    BY DEF CountExact
  <2>1. q = p
    BY <1>1 DEF CounterInv, FanOutShape, PlansKeep
  <2>2. Exact(p)
    BY <1>1, <1>6, <1>9, <2>1 DEF CounterInv, CountExact, HoldsFinalizing
  <2> QED
    BY <1>5, <1>6, <2>1, <2>2 DEF Exact
<1>12. CompletedDrained'
  BY <1>1, <1>6 DEF CounterInv, CompletedDrained
<1> QED
  BY <1>7, <1>8, <1>10, <1>11, <1>12 DEF CounterInv

\* FinalizeSubtask's promotion.
LEMMA CounterPromote ==
  ASSUME TypeOK, CounterInv, Promote, Keeps
  PROVE  CounterInv'
<1>1. /\ row'.live = row.live /\ row'.count = row.count
      /\ row'.status = IF row.status = "finalizing" /\ row.count = 0 THEN "completed"
                       ELSE row.status
  BY DEF Promote, Write, CounterInv, QuietRow, TypeOK, StoreTypeOK, Row
<1>2. QuietRow' /\ FanOutShape'
  BY <1>1 DEF CounterInv, QuietRow, FanOutShape, Keeps, PlansKeep, SubsKeep
<1>3. CountExact'
  BY <1>1, KeepsShape DEF CounterInv, CountExact, Exact, Keeps, PlansKeep
<1>4. CompletedDrained'
  <2> SUFFICES ASSUME row'.status = "completed", NEW p \in Posts PROVE OpenSlots(p) = {}
    BY KeepsShape DEF CompletedDrained
  <2>1. CASE row.status = "completed"
    BY <2>1 DEF CounterInv, CompletedDrained
  <2>2. CASE post[p].plan = {}
    BY <2>2 DEF OpenSlots
  <2>3. CASE row.status = "finalizing" /\ row.count = 0 /\ post[p].plan # {}
    BY <2>3, OpenFinite, FS_EmptySet DEF CounterInv, CountExact, Exact
  <2> QED
    BY <1>1, <2>1, <2>2, <2>3
<1> QED
  BY <1>2, <1>3, <1>4, KeepsShape DEF CounterInv

\* The summary handler writes its copy back.
LEMMA CounterSave ==
  ASSUME TypeOK, CounterInv, Keeps, NEW p \in Posts, Holds(p),
         NEW su, Save([sub[p][Summary].copy EXCEPT !.summary = su])
  PROVE  CounterInv'
<1>1. sub[p][Summary].copy \in Copy
  BY EnrichmentAssumption DEF TypeOK, SubTask
<1>2. /\ row'.live = row.live /\ row'.count = row.count
      /\ row'.status = sub[p][Summary].copy.status
  BY <1>1 DEF Save, Write, Copy, CounterInv, QuietRow, TypeOK, StoreTypeOK, Row
<1>3. row'.status \in {"finalizing", "failed"}
  BY <1>2 DEF CounterInv, CopyShape
<1>4. post[p].plan # {}
  BY EnrichmentAssumption DEF Holds, HoldingPc, CounterInv, FanOutShape
<1>5. QuietRow' /\ FanOutShape' /\ CompletedDrained'
  BY <1>2, <1>3 DEF CounterInv, QuietRow, FanOutShape, CompletedDrained, Keeps,
                     PlansKeep, SubsKeep
<1>6. CountExact'
  <2> SUFFICES ASSUME NEW q \in Posts, post[q].plan # {},
                      row'.status = "finalizing" \/ HoldsFinalizing(q)
               PROVE  Exact(q)
    BY <1>2, KeepsShape DEF CountExact, Exact, Keeps, PlansKeep
  <2>1. q = p
    BY <1>4 DEF CounterInv, FanOutShape
  <2>2. HoldsFinalizing(p)
    BY <1>2, <2>1 DEF HoldsFinalizing
  <2> QED
    BY <2>1, <2>2, <1>4 DEF CounterInv, CountExact
<1> QED
  BY <1>5, <1>6, KeepsShape DEF CounterInv

\* The handler of one delivery.
LEMMA CounterPost ==
  ASSUME TypeOK, CounterInv, NEW p \in Posts, PostStep(p)
  PROVE  CounterInv'
<1>1. ASSUME UNCHANGED sub PROVE SubsKeep
  BY <1>1 DEF SubsKeep, CounterInv, FanOutShape
<1>2. CASE PostLoad(p)
  <2>1. PlansKeep
    BY <1>2 DEF PostLoad, PlansKeep, TypeOK, PostTask
  <2> QED
    BY <1>1, <1>2, <2>1, KeepsInv DEF PostLoad, Keeps
<1>3. CASE PostDeadLetter(p)
  <2>1. Keeps
    BY <1>1, <1>3, PostGotoPlans DEF PostDeadLetter, Keeps
  <2>2. row'.live = row.live /\ row'.count = row.count /\ row'.status = "failed"
    BY <1>3 DEF PostDeadLetter, SetStatus, Write, CounterInv, QuietRow, TypeOK, StoreTypeOK, Row
  <2>3. QuietRow' /\ FanOutShape' /\ CompletedDrained'
    BY <2>1, <2>2 DEF CounterInv, QuietRow, FanOutShape, CompletedDrained, Keeps,
                       PlansKeep, SubsKeep
  <2>4. CountExact'
    BY <2>1, <2>2, KeepsShape DEF CounterInv, CountExact, Exact, Keeps, PlansKeep
  <2> QED
    BY <2>1, <2>3, <2>4, KeepsShape DEF CounterInv
<1>4. CASE PostComplete(p)
  <2>1. Keeps
    BY <1>1, <1>4, PostGotoPlans DEF PostComplete, Keeps
  <2>2. row'.live = row.live /\ row'.count = row.count /\ row'.status = "completed"
    BY <1>4 DEF PostComplete, SetStatus, Write, CounterInv, QuietRow, TypeOK, StoreTypeOK, Row
  <2>3. \A q \in Posts : post'[q].plan = {}
    BY <1>4, <2>1 DEF PostComplete, CounterInv, FanOutShape, Keeps, PlansKeep
  <2>4. QuietRow' /\ FanOutShape'
    BY <2>1, <2>2 DEF CounterInv, QuietRow, FanOutShape, Keeps, PlansKeep, SubsKeep
  <2>5. CompletedDrained' /\ CountExact'
    BY <2>3 DEF CompletedDrained, OpenSlots, CountExact
  <2> QED
    BY <2>1, <2>4, <2>5, KeepsShape DEF CounterInv
<1>5. CASE PostSeed(p)
  <2>1. PICK plan \in Plans :
          /\ SetFinalizing(Cardinality(plan))
          /\ post' = [post EXCEPT ![p].pc = "seeded", ![p].plan = plan]
    BY <1>5 DEF PostSeed
  <2>2. /\ row'.live = row.live /\ row'.count = Cardinality(plan)
        /\ row'.status = "finalizing" /\ row.status = "processing" /\ row.live
        /\ hasText /\ hasText' = hasText /\ sub' = sub /\ canceller' = canceller
    BY <1>5, <2>1 DEF PostSeed, CanFinalize, SetFinalizing, TypeOK, StoreTypeOK, Row
  <2>3. \A q \in Posts : post[q].plan = {} /\ post'[q].plan = IF q = p THEN plan ELSE {}
    <3>1. \A q \in Posts : post[q].plan = {}
      BY <2>2 DEF CounterInv, FanOutShape
    <3>2. post \in [Posts -> PostTask] /\ post[p] \in PostTask
      BY DEF TypeOK
    <3> DEFINE t == [post[p] EXCEPT !.pc = "seeded", !.plan = plan]
    <3>3. post' = [post EXCEPT ![p] = t] /\ t.plan = plan
      BY <2>1, <3>2 DEF PostTask
    <3> HIDE DEF t
    <3> QED
      BY <3>1, <3>2, <3>3
  <2>4. \A q \in Posts, s \in Slots : sub[q][s].pc = "none" /\ ~sub[q][s].drained
    BY <2>3 DEF CounterInv, FanOutShape, DrainedShape, DrainedPc
  <2>5. QuietRow' /\ FanOutShape' /\ DrainedShape' /\ CopyShape'
    BY <2>2, <2>3, <2>4, EnrichmentAssumption
       DEF CounterInv, QuietRow, FanOutShape, DrainedShape, CopyShape, Holds, HoldingPc
  <2>6. OpenSlots(p)' = plan
    BY <2>2, <2>3, <2>4 DEF OpenSlots, Plans
  <2>7. CountExact' /\ CompletedDrained'
    BY <2>2, <2>3, <2>6 DEF CountExact, Exact, CompletedDrained
  <2> QED
    BY <2>5, <2>7 DEF CounterInv
<1>6. CASE PostSkip(p) \/ PostDone(p)
  BY <1>1, <1>6, PostGotoPlans, KeepsInv DEF PostSkip, PostDone, Keeps
<1>7. CASE PostSummaryPending(p)
  <2>1. row'.live = row.live /\ row'.count = row.count /\ row'.status = row.status
    BY <1>7 DEF PostSummaryPending, SetSummary, Write, TypeOK, StoreTypeOK, Row
  <2> QED
    BY <1>1, <1>7, <2>1, PostGotoPlans, KeepsInv DEF PostSummaryPending, Keeps
<1>8. ASSUME NEW s \in Slots, PostEnqueue(p, s) PROVE CounterInv'
  <2>1. s \in post[p].plan /\ sub[p][s].pc = "none"
    BY <1>8 DEF PostEnqueue, ToEnqueue
  <2>2. PICK pc \in {"queued", "lost", "unqueued"} : sub' = [sub EXCEPT ![p][s].pc = pc]
    BY <1>8 DEF PostEnqueue
  <2>3. SubsKeep
    BY <2>1, <2>2, SubMove DEF SubPc, DrainedPc, HoldingPc
  <2> QED
    BY <1>8, <2>3, KeepsInv DEF PostEnqueue, Keeps, PlansKeep
<1>9. ASSUME NEW s \in Slots, PostRelease(p, s) PROVE CounterInv'
  BY <1>9, PostGotoPlans, CounterDecrement DEF PostRelease, DrainedPc
<1>10. CASE PostReleasePromote(p)
  BY <1>1, <1>10, PostGotoPlans, CounterPromote DEF PostReleasePromote, Keeps
<1> QED
  BY <1>2, <1>3, <1>4, <1>5, <1>6, <1>7, <1>8, <1>9, <1>10 DEF PostStep

\* An error return: to the queue again, or on to the drain.
LEMMA ErrorKeeps ==
  ASSUME TypeOK, CounterInv, NEW p \in Posts, NEW s \in Slots, ExitWithError(p, s),
         s \in post[p].plan, sub[p][s].pc \notin DrainedPc
  PROVE  SubsKeep
<1>1. CASE sub' = [sub EXCEPT ![p][s].pc = "draining"]
  BY <1>1, SubMove DEF SubPc, SubActive, DrainedPc, HoldingPc
<1>2. CASE sub' = [sub EXCEPT ![p][s].pc = "queued", ![p][s].retried = @ + 1]
  <2>1. sub[p][s].retried + 1 \in Nat
    BY DEF TypeOK, SubTask
  <2>2. \E n \in Nat : sub' = [sub EXCEPT ![p][s].pc = "queued", ![p][s].retried = n]
    <3> USE <2>1
    <3> WITNESS sub[p][s].retried + 1 \in Nat
    <3> QED
      BY <1>2
  <2> QED
    BY <2>2, SubMove DEF SubPc, DrainedPc, HoldingPc
<1> QED
  BY <1>1, <1>2 DEF ExitWithError

\* The summary handler takes its copy of the row: it is finalizing or failed,
\* since a completed row has no open slot left and this one is open.
LEMMA CounterLoad ==
  ASSUME TypeOK, CounterInv, NEW p \in Posts,
         Summary \in post[p].plan, sub[p][Summary].pc = "started",
         sub' = [sub EXCEPT ![p][Summary].copy = Loaded, ![p][Summary].pc = "loaded"],
         UNCHANGED <<row, latest, post, canceller, hasText, sweep>>
  PROVE  CounterInv'
<1> Summary \in Slots
  BY EnrichmentAssumption
<1>1. /\ \A q \in Posts, t \in Slots : q # p \/ t # Summary => sub'[q][t] = sub[q][t]
      /\ sub'[p][Summary].pc = "loaded"
      /\ sub'[p][Summary].drained = sub[p][Summary].drained
      /\ sub'[p][Summary].copy = Loaded
  <2>1. sub \in [Posts -> [Slots -> SubTask]]
    BY DEF TypeOK
  <2> DEFINE t == [sub[p][Summary] EXCEPT !.copy = Loaded, !.pc = "loaded"]
  <2>2. sub' = [sub EXCEPT ![p] = [@ EXCEPT ![Summary] = t]]
    BY <2>1
  <2>3. t.pc = "loaded" /\ t.drained = sub[p][Summary].drained /\ t.copy = Loaded
    <3>1. sub[p][Summary] \in SubTask
      BY <2>1
    <3> QED
      BY <3>1 DEF SubTask
  <2> HIDE DEF t
  <2> QED
    BY <2>1, <2>2, <2>3
<1>2. \A q \in Posts : OpenSlots(q)' = OpenSlots(q)
  <2> SUFFICES ASSUME NEW q \in Posts PROVE OpenSlots(q)' = OpenSlots(q)
    OBVIOUS
  <2>1. post[q].plan \subseteq Slots
    BY DEF TypeOK, PostTask
  <2>2. \A t \in Slots : sub'[q][t].drained = sub[q][t].drained
    BY <1>1
  <2> QED
    BY <2>1, <2>2 DEF OpenSlots
<1>3. row.status \in {"finalizing", "failed"}
  <2>1. Summary \in OpenSlots(p)
    BY DEF OpenSlots, CounterInv, DrainedShape, DrainedPc
  <2> QED
    BY <2>1 DEF CounterInv, QuietRow, FanOutShape, CompletedDrained
<1>4. QuietRow'
  BY DEF CounterInv, QuietRow
<1>5. FanOutShape'
  <2>1. \A q \in Posts, t \in Slots : sub'[q][t].pc # "none" => t \in post[q].plan
    <3> SUFFICES ASSUME NEW q \in Posts, NEW t \in Slots, sub'[q][t].pc # "none"
                 PROVE  t \in post[q].plan
      OBVIOUS
    <3>1. CASE q = p /\ t = Summary
      BY <3>1
    <3>2. CASE q # p \/ t # Summary
      BY <1>1, <3>2 DEF CounterInv, FanOutShape
    <3> QED
      BY <3>1, <3>2
  <2> QED
    BY <2>1 DEF CounterInv, FanOutShape
<1>6. DrainedShape'
  <2> SUFFICES ASSUME NEW q \in Posts, NEW t \in Slots
               PROVE  sub'[q][t].drained <=> sub'[q][t].pc \in DrainedPc
    BY DEF DrainedShape
  <2>1. CASE q = p /\ t = Summary
    BY <1>1, <2>1 DEF CounterInv, DrainedShape, DrainedPc
  <2>2. CASE q # p \/ t # Summary
    BY <1>1, <2>2 DEF CounterInv, DrainedShape
  <2> QED
    BY <2>1, <2>2
<1>7. CopyShape'
  <2> SUFFICES ASSUME NEW q \in Posts, Holds(q)'
               PROVE  sub'[q][Summary].copy.status \in {"finalizing", "failed"}
    BY DEF CopyShape
  <2>1. CASE q = p
    BY <1>1, <1>3, <2>1 DEF Loaded
  <2>2. CASE q # p
    BY <1>1, <2>2 DEF CounterInv, CopyShape, Holds
  <2> QED
    BY <2>1, <2>2
<1>8. CountExact'
  <2> SUFFICES ASSUME NEW q \in Posts, post[q].plan # {},
                      row.status = "finalizing" \/ HoldsFinalizing(q)'
               PROVE  row.status = "finalizing" \/ HoldsFinalizing(q)
    BY <1>2 DEF CounterInv, CountExact, Exact
  <2>1. CASE q = p
    BY <1>1, <2>1 DEF HoldsFinalizing, Loaded
  <2>2. CASE q # p
    BY <1>1, <2>2 DEF HoldsFinalizing, Holds
  <2> QED
    BY <2>1, <2>2
<1>9. CompletedDrained'
  BY <1>2 DEF CounterInv, CompletedDrained
<1> QED
  BY <1>4, <1>5, <1>6, <1>7, <1>8, <1>9 DEF CounterInv

\* The subtask handlers.
LEMMA CounterSub ==
  ASSUME Quiet, TypeOK, CounterInv, NEW p \in Posts, NEW s \in Slots, SubStep(p, s)
  PROVE  CounterInv'
<1> USE DEF SubGoto
<1>1. ASSUME UNCHANGED post PROVE PlansKeep
  BY <1>1 DEF PlansKeep
<1>2. ASSUME sub[p][s].pc # "none" PROVE s \in post[p].plan
  BY <1>2 DEF CounterInv, FanOutShape
<1>3. CASE SubStart(p, s)
  <2>1. SubsKeep
    BY <1>2, <1>3, SubMove, EnrichmentAssumption
       DEF SubStart, SubPc, SubActive, DrainedPc, HoldingPc
  <2> QED
    BY <1>1, <1>3, <2>1, KeepsInv DEF SubStart, Keeps
<1>4. CASE SubExit(p, s)
  <2>1. SubsKeep
    <3>1. s \in post[p].plan /\ sub[p][s].pc \notin DrainedPc
      BY <1>2, <1>4 DEF SubExit, DrainedPc
    <3>2. CASE SubGoto(p, s, "draining")
      BY <3>1, <3>2, SubMove DEF SubPc, SubActive, DrainedPc, HoldingPc
    <3> QED
      BY <1>4, <3>1, <3>2, ErrorKeeps DEF SubExit
  <2> QED
    BY <1>1, <1>4, <2>1, KeepsInv DEF SubExit, Keeps
<1>5. CASE SubDrain(p, s)
  <2>1. sub[p][s].pc \notin DrainedPc \cup {"none"}
    BY <1>5 DEF SubDrain, DrainedPc
  <2>2. CASE Decrement /\ sub' = [sub EXCEPT ![p][s].pc = "promoting", ![p][s].drained = TRUE]
    BY <1>1, <1>5, <2>1, <2>2, CounterDecrement DEF SubDrain, DrainedPc
  <2>3. CASE SubGoto(p, s, "lost") /\ UNCHANGED row
    <3>1. SubsKeep
      BY <1>2, <2>1, <2>3, SubMove DEF SubPc, DrainedPc, HoldingPc
    <3> QED
      BY <1>1, <1>5, <2>3, <3>1, KeepsInv DEF SubDrain, Keeps
  <2> QED
    BY <1>5, <2>2, <2>3 DEF SubDrain
<1>6. CASE SubPromote(p, s)
  <2>1. SubsKeep
    BY <1>2, <1>6, SubMove DEF SubPromote, SubPc, SubActive, DrainedPc, HoldingPc
  <2> QED
    BY <1>1, <1>6, <2>1, CounterPromote DEF SubPromote, Keeps
<1>7. CASE SubAck(p, s)
  <2>1. SubsKeep
    BY <1>2, <1>7, SubMove DEF SubAck, SubPc, DrainedPc, HoldingPc
  <2> QED
    BY <1>1, <1>7, <2>1, KeepsInv DEF SubAck, Keeps
<1>8. CASE SubLoad(p, s)
  <2>1. s \in post[p].plan /\ sub[p][s].pc = "started"
    BY <1>2, <1>8 DEF SubLoad
  <2>2. CASE s # Summary /\ SubGoto(p, s, "working")
    <3>1. SubsKeep
      BY <2>1, <2>2, SubMove DEF SubPc, SubActive, DrainedPc, HoldingPc
    <3> QED
      BY <1>1, <1>8, <3>1, KeepsInv DEF SubLoad, Keeps
  <2>3. CASE SubGoto(p, s, "draining")
    <3>1. SubsKeep
      BY <2>1, <2>3, SubMove DEF SubPc, SubActive, DrainedPc, HoldingPc
    <3> QED
      BY <1>1, <1>8, <3>1, KeepsInv DEF SubLoad, Keeps
  <2>4. CASE s = Summary /\ sub' = [sub EXCEPT ![p][s].copy = Loaded, ![p][s].pc = "loaded"]
    BY <1>8, <2>1, <2>4, CounterLoad DEF SubLoad
  <2> QED
    BY <1>8, <2>2, <2>3, <2>4 DEF SubLoad
<1> QED
  BY <1>3, <1>4, <1>5, <1>6, <1>7, <1>8 DEF SubStep

LEMMA CounterSummary ==
  ASSUME TypeOK, CounterInv, NEW p \in Posts, SummaryStep(p)
  PROVE  CounterInv'
<1> USE DEF SubGoto
<1> Summary \in Slots
  BY EnrichmentAssumption
<1>1. ASSUME UNCHANGED post PROVE PlansKeep
  BY <1>1 DEF PlansKeep
<1>2. Holds(p) /\ Summary \in post[p].plan /\ sub[p][Summary].pc \notin DrainedPc
  BY DEF SummaryStep, SummaryBegin, SummarySave, SummaryGiveUp, SummarySaveFails, Holds,
         HoldingPc, DrainedPc, CounterInv, FanOutShape
<1>3. CASE SummaryBegin(p)
  <2> DEFINE c == [sub[p][Summary].copy EXCEPT !.summary = "processing"]
  <2>1. SubsKeep
    <3>1. sub \in [Posts -> [Slots -> SubTask]] /\ sub[p][Summary] \in SubTask
      BY DEF TypeOK
    <3> DEFINE t == [sub[p][Summary] EXCEPT !.pc = "working", !.copy = c]
    <3>2. sub' = [sub EXCEPT ![p] = [@ EXCEPT ![Summary] = t]]
      BY <1>3, <3>1 DEF SummaryBegin
    <3>3. /\ t.pc = "working" /\ t.drained = sub[p][Summary].drained
          /\ t.copy.status = sub[p][Summary].copy.status
      BY <3>1 DEF SubTask, Copy
    <3> HIDE DEF t
    <3>4. /\ \A q \in Posts, u \in Slots : q # p \/ u # Summary => sub'[q][u] = sub[q][u]
          /\ sub'[p][Summary] = t
      BY <3>1, <3>2
    <3> SUFFICES ASSUME NEW q \in Posts, NEW u \in Slots
                 PROVE  /\ sub'[q][u].drained = sub[q][u].drained
                        /\ sub'[q][u].pc # "none" => u \in post[q].plan
                        /\ sub'[q][u].pc \in DrainedPc <=> sub[q][u].pc \in DrainedPc
                        /\ u = Summary /\ sub'[q][u].pc \in HoldingPc
                             => /\ sub[q][u].pc \in HoldingPc
                                /\ sub'[q][u].copy.status = sub[q][u].copy.status
      BY DEF SubsKeep
    <3>5. CASE q = p /\ u = Summary
      BY <1>2, <3>3, <3>4, <3>5 DEF DrainedPc, HoldingPc, Holds
    <3>6. CASE q # p \/ u # Summary
      BY <3>4, <3>6 DEF CounterInv, FanOutShape
    <3> QED
      BY <3>5, <3>6
  <2>2. Keeps
    BY <1>1, <1>3, <2>1 DEF SummaryBegin, Keeps
  <2>3. CASE Save(c)
    BY <1>2, <2>2, <2>3, CounterSave
  <2>4. CASE UNCHANGED row
    BY <2>2, <2>4, KeepsInv
  <2> QED
    BY <1>3, <2>3, <2>4 DEF SummaryBegin
<1>4. CASE SummarySave(p)
  <2>1. SubsKeep
    BY <1>2, <1>4, SubMove DEF SummarySave, SubPc, SubActive, DrainedPc, HoldingPc
  <2> QED
    BY <1>1, <1>2, <1>4, <2>1, CounterSave DEF SummarySave, Keeps
<1>5. CASE SummaryGiveUp(p)
  <2>1. SubsKeep
    <3>1. CASE SubGoto(p, Summary, "draining")
      BY <1>2, <3>1, SubMove DEF SubPc, SubActive, DrainedPc, HoldingPc
    <3> QED
      BY <1>2, <1>5, <3>1, ErrorKeeps DEF SummaryGiveUp
  <2> QED
    BY <1>1, <1>2, <1>5, <2>1, CounterSave DEF SummaryGiveUp, Keeps
<1>6. CASE SummarySaveFails(p)
  <2>1. SubsKeep
    BY <1>2, <1>6, ErrorKeeps DEF SummarySaveFails
  <2> QED
    BY <1>1, <1>6, <2>1, KeepsInv DEF SummarySaveFails, Keeps
<1> QED
  BY <1>3, <1>4, <1>5, <1>6 DEF SummaryStep

\* Failures, short of a redelivery after the drain.
LEMMA CounterFault ==
  ASSUME Quiet, TypeOK, CounterInv, FaultStep
  PROVE  CounterInv'
<1>1. ASSUME NEW p \in Posts, PostError(p) \/ PostCrash(p) PROVE CounterInv'
  <2>1. PlansKeep
    BY <1>1 DEF PostError, PostCrash, PlansKeep, TypeOK, PostTask
  <2>2. SubsKeep
    BY <1>1 DEF PostError, PostCrash, SubsKeep, CounterInv, FanOutShape
  <2> QED
    BY <1>1, <2>1, <2>2, KeepsInv DEF PostError, PostCrash, Keeps
<1>2. ASSUME NEW p \in Posts, PostReleaseFails(p) PROVE CounterInv'
  <2>1. sub \in [Posts -> [Slots -> SubTask]]
    BY DEF TypeOK
  <2>2. \A q \in Posts, s \in Slots :
          sub'[q][s] = IF q = p /\ sub[q][s].pc = "unqueued"
                         THEN [sub[q][s] EXCEPT !.pc = "lost"] ELSE sub[q][s]
    BY <1>2, <2>1 DEF PostReleaseFails
  <2>3. SubsKeep
    <3> SUFFICES ASSUME NEW q \in Posts, NEW s \in Slots
                 PROVE  /\ sub'[q][s].drained = sub[q][s].drained
                        /\ sub'[q][s].copy = sub[q][s].copy
                        /\ \/ sub'[q][s].pc = sub[q][s].pc
                           \/ sub'[q][s].pc = "lost" /\ sub[q][s].pc = "unqueued"
      BY DEF SubsKeep, CounterInv, FanOutShape, DrainedPc, HoldingPc
    <3>1. sub[q][s] \in SubTask
      BY <2>1
    <3> QED
      BY <2>2, <3>1 DEF SubTask
  <2> QED
    BY <1>2, <2>3, PostGotoPlans, KeepsInv DEF PostReleaseFails, Keeps
<1>3. ASSUME NEW p \in Posts, NEW s \in Slots, SubCrash(p, s) PROVE CounterInv'
  <2>1. sub[p][s].pc \in SubActive \ {"promoting", "acking"}
    BY <1>3 DEF SubCrash, Quiet
  <2>2. s \in post[p].plan /\ sub[p][s].pc \notin DrainedPc
    BY <2>1 DEF CounterInv, FanOutShape, SubActive, DrainedPc
  <2>3. CASE sub' = [sub EXCEPT ![p][s].pc = "lost"]
    <3>1. SubsKeep
      BY <2>2, <2>3, SubMove DEF SubPc, DrainedPc, HoldingPc
    <3> QED
      BY <1>3, <3>1, KeepsInv DEF SubCrash, Keeps, PlansKeep
  <2>4. CASE sub' = [sub EXCEPT ![p][s].pc = "queued", ![p][s].retried = @ + 1]
    <3>1. SubsKeep
      <4>1. sub[p][s].retried + 1 \in Nat
        BY DEF TypeOK, SubTask
      <4>2. \E n \in Nat : sub' = [sub EXCEPT ![p][s].pc = "queued", ![p][s].retried = n]
        <5> USE <4>1
        <5> WITNESS sub[p][s].retried + 1 \in Nat
        <5> QED
          BY <2>4
      <4> QED
        BY <2>2, <4>2, SubMove DEF SubPc, DrainedPc, HoldingPc
    <3> QED
      BY <1>3, <3>1, KeepsInv DEF SubCrash, Keeps, PlansKeep
  <2> QED
    BY <1>3, <2>3, <2>4 DEF SubCrash
<1>4. ASSUME SweepFails PROVE CounterInv'
  <2>1. SubsKeep
    BY <1>4 DEF SweepFails, SweepGoto, SubsKeep, CounterInv, FanOutShape
  <2> QED
    BY <1>4, <2>1, KeepsInv DEF SweepFails, SweepGoto, Keeps, PlansKeep
<1> QED
  BY <1>1, <1>2, <1>3, <1>4 DEF FaultStep

\* The sweep.  Between its look at the queue and its UPDATE no handler of the
\* document starts: with nothing of it queued or running, nothing comes back.
SweepQuiet == sweep.pc = "stuck" => ~AsynqTasksLeft

LEMMA QueueStaysEmpty ==
  ASSUME TypeOK, ~AsynqTasksLeft, WorkerStep \/ FaultStep
  PROVE  ~AsynqTasksLeft'
<1>1. \A p \in Posts : post[p].pc = "done"
  BY DEF AsynqTasksLeft
<1>2. \A p \in Posts, s \in Slots : s # Wiki => sub[p][s].pc \notin SubActive \cup {"queued"}
  BY DEF AsynqTasksLeft
<1>3. ASSUME NEW p \in Posts
      PROVE  ~PostStep(p) /\ ~PostError(p) /\ ~PostReleaseFails(p) /\ ~PostCrash(p)
  BY <1>1 DEF PostStep, PostLoad, PostDeadLetter, PostComplete, PostSeed, PostSkip,
       PostSummaryPending, PostEnqueue, PostRelease, PostReleasePromote, PostDone, PostError,
       PostReleaseFails, PostCrash
<1>4. ASSUME NEW p \in Posts PROVE ~SummaryStep(p)
  BY <1>2, EnrichmentAssumption
     DEF SummaryStep, SummaryBegin, SummarySave, SummaryGiveUp, SummarySaveFails, SubActive
<1>5. ASSUME NEW p \in Posts, NEW s \in Slots, SubStep(p, s) \/ SubCrash(p, s)
      PROVE  /\ UNCHANGED post
             /\ \A q \in Posts, t \in Slots : t # Wiki => sub'[q][t] = sub[q][t]
  <2>1. sub[p][s].pc \in SubActive \cup {"queued"} /\ UNCHANGED post
    BY <1>5 DEF SubStep, SubStart, SubLoad, SubExit, SubDrain, SubPromote, SubAck, SubCrash,
         SubActive
  <2>2. s = Wiki /\ s # Summary
    BY <1>2, <2>1, EnrichmentAssumption
  <2>3. sub \in [Posts -> [Slots -> SubTask]]
    BY DEF TypeOK
  <2>4. ASSUME NEW pc, sub' = [sub EXCEPT ![p][s].pc = pc]
        PROVE  \A q \in Posts, t \in Slots : t # Wiki => sub'[q][t] = sub[q][t]
    BY <2>2, <2>3, <2>4
  <2>5. ASSUME NEW pc, sub' = [sub EXCEPT ![p][s].pc = pc, ![p][s].drained = TRUE]
        PROVE  \A q \in Posts, t \in Slots : t # Wiki => sub'[q][t] = sub[q][t]
    BY <2>2, <2>3, <2>5
  <2>6. ASSUME NEW pc, sub' = [sub EXCEPT ![p][s].pc = pc, ![p][s].retried = @ + 1]
        PROVE  \A q \in Posts, t \in Slots : t # Wiki => sub'[q][t] = sub[q][t]
    BY <2>2, <2>3, <2>6
  <2>7. ASSUME SubStep(p, s)
        PROVE  \A q \in Posts, t \in Slots : t # Wiki => sub'[q][t] = sub[q][t]
    <3>1. CASE SubStart(p, s) \/ SubPromote(p, s) \/ SubAck(p, s)
      BY <2>4, <3>1 DEF SubStart, SubPromote, SubAck, SubGoto
    <3>2. CASE SubLoad(p, s)
      BY <2>2, <2>4, <3>2 DEF SubLoad, SubGoto
    <3>3. CASE SubExit(p, s)
      BY <2>4, <2>6, <3>3 DEF SubExit, SubGoto, ExitWithError
    <3>4. CASE SubDrain(p, s)
      BY <2>4, <2>5, <3>4 DEF SubDrain, SubGoto
    <3> QED
      BY <2>7, <3>1, <3>2, <3>3, <3>4 DEF SubStep
  <2>8. ASSUME SubCrash(p, s)
        PROVE  \A q \in Posts, t \in Slots : t # Wiki => sub'[q][t] = sub[q][t]
    BY <2>4, <2>6, <2>8 DEF SubCrash
  <2> QED
    BY <1>5, <2>1, <2>7, <2>8
<1>6. SweepFails => UNCHANGED <<post, sub>>
  BY DEF SweepFails, SweepGoto
<1>7. /\ UNCHANGED post
      /\ \A q \in Posts, t \in Slots : t # Wiki => sub'[q][t] = sub[q][t]
  BY <1>3, <1>4, <1>5, <1>6 DEF WorkerStep, FaultStep
<1> QED
  BY <1>1, <1>2, <1>7 DEF AsynqTasksLeft

LEMMA QuietNext ==
  ASSUME Quiet, TypeOK, CounterInv, SweepQuiet, [Next]_vars, ~sweep'.blind
  PROVE  SweepQuiet'
<1>1. ASSUME WorkerStep \/ FaultStep PROVE sweep'.pc = "stuck" => sweep.pc = "stuck"
  <2>1. ASSUME NEW p \in Posts, PostStep(p) \/ SummaryStep(p) PROVE UNCHANGED sweep
    BY <2>1 DEF PostStep, PostLoad, PostDeadLetter, PostComplete, PostSeed, PostSkip,
         PostSummaryPending, PostEnqueue, PostRelease, PostReleasePromote, PostDone,
         SummaryStep, SummaryBegin, SummarySave, SummaryGiveUp, SummarySaveFails
  <2>2. ASSUME NEW p \in Posts, NEW s \in Slots, SubStep(p, s) PROVE UNCHANGED sweep
    BY <2>2 DEF SubStep, SubStart, SubLoad, SubExit, SubDrain, SubPromote, SubAck
  <2>3. ASSUME FaultStep PROVE sweep'.pc = "stuck" => sweep.pc = "stuck"
    BY <2>3 DEF FaultStep, PostError, PostReleaseFails, PostCrash, SubCrash, SweepFails,
         SweepGoto, TypeOK, SweepState
  <2> QED
    BY <1>1, <2>1, <2>2, <2>3 DEF WorkerStep
<1>2. CASE WorkerStep \/ FaultStep
  BY <1>1, <1>2, QueueStaysEmpty DEF SweepQuiet
<1>3. CASE SweepFind \/ SweepSpans \/ SweepWrite
  BY <1>3 DEF SweepFind, SweepSpans, SweepWrite, SweepGoto, SweepQuiet, TypeOK, SweepState
<1>4. CASE SweepProbe
  BY <1>4 DEF SweepProbe, SweepGoto, SweepQuiet, AsynqTasksLeft, TypeOK, SweepState
<1>5. CASE UNCHANGED vars
  BY <1>5 DEF vars, SweepQuiet, AsynqTasksLeft
<1>6. ~CancelStep
  BY DEF CancelStep, CancelCheck, CancelWrite, CancelDequeue, Quiet, CounterInv, QuietRow
<1> QED
  BY <1>2, <1>3, <1>4, <1>5, <1>6 DEF Next, SweepLook

\* So its UPDATE finds no summary handler with a copy.
LEMMA NobodyHoldsAtSweep ==
  ASSUME TypeOK, SweepQuiet, SweepWrite
  PROVE  \A p \in Posts : ~Holds(p) /\ post[p].pc = "done"
BY EnrichmentAssumption DEF SweepWrite, SweepQuiet, AsynqTasksLeft, Holds, HoldingPc, SubActive

LEMMA CounterSweep ==
  ASSUME TypeOK, CounterInv, SweepQuiet, SweepLook \/ SweepWrite
  PROVE  CounterInv'
<1>1. UNCHANGED <<post, sub, hasText, canceller>>
  BY DEF SweepLook, SweepFind, SweepSpans, SweepProbe, SweepWrite, SweepGoto
<1>2. CASE UNCHANGED row
  <2>1. Keeps
    BY <1>1 DEF Keeps, PlansKeep, SubsKeep, CounterInv, FanOutShape
  <2> QED
    BY <1>2, <2>1, KeepsInv
<1>3. CASE SweepWrite /\ MarkStuckFailed
  <2>1. row'.live = row.live /\ row'.status = "failed"
    BY <1>3 DEF MarkStuckFailed, TypeOK, StoreTypeOK, Row
  <2>2. QuietRow' /\ FanOutShape' /\ DrainedShape' /\ CopyShape'
    BY <1>1, <2>1 DEF CounterInv, QuietRow, FanOutShape, DrainedShape, CopyShape, Holds
  <2>3. CountExact' /\ CompletedDrained'
    BY <1>1, <1>3, <2>1, NobodyHoldsAtSweep
       DEF CountExact, CompletedDrained, HoldsFinalizing, Holds
  <2> QED
    BY <2>2, <2>3 DEF CounterInv
<1> QED
  BY <1>2, <1>3 DEF SweepLook, SweepFind, SweepSpans, SweepProbe, SweepWrite

LEMMA CounterNext ==
  ASSUME Quiet, TypeOK, CounterInv, SweepQuiet, [Next]_vars
  PROVE  CounterInv'
<1>1. CASE Next
  <2>1. ~CancelStep
    BY DEF CancelStep, CancelCheck, CancelWrite, CancelDequeue, Quiet, CounterInv, QuietRow
  <2> QED
    BY <1>1, <2>1, CounterPost, CounterSub, CounterSummary, CounterFault, CounterSweep
       DEF Next, WorkerStep
<1>2. CASE UNCHANGED vars
  <2>1. Keeps
    BY <1>2 DEF vars, Keeps, PlansKeep, SubsKeep, CounterInv, FanOutShape
  <2> QED
    BY <1>2, <2>1, KeepsInv DEF vars
<1> QED
  BY <1>1, <1>2

\* A sweep that once missed a task stays one that did.
LEMMA BlindStays ==
  ASSUME TypeOK, [Next]_vars, sweep.blind
  PROVE  sweep'.blind
<1>1. ASSUME NEW p \in Posts, PostStep(p) \/ SummaryStep(p) PROVE UNCHANGED sweep
  BY <1>1 DEF PostStep, PostLoad, PostDeadLetter, PostComplete, PostSeed, PostSkip,
       PostSummaryPending, PostEnqueue, PostRelease, PostReleasePromote, PostDone,
       SummaryStep, SummaryBegin, SummarySave, SummaryGiveUp, SummarySaveFails
<1>2. ASSUME NEW p \in Posts, NEW s \in Slots, SubStep(p, s) PROVE UNCHANGED sweep
  BY <1>2 DEF SubStep, SubStart, SubLoad, SubExit, SubDrain, SubPromote, SubAck
<1>3. ASSUME CancelStep PROVE UNCHANGED sweep
  BY <1>3 DEF CancelStep, CancelCheck, CancelWrite, CancelDequeue
<1>4. ASSUME FaultStep PROVE sweep'.blind
  BY <1>4 DEF FaultStep, PostError, PostReleaseFails, PostCrash, SubCrash, SweepFails,
       SweepGoto, TypeOK, SweepState
<1>5. ASSUME SweepLook \/ SweepWrite PROVE sweep'.blind
  BY <1>5 DEF SweepLook, SweepFind, SweepSpans, SweepProbe, SweepWrite, SweepGoto, TypeOK,
       SweepState
<1> QED
  BY <1>1, <1>2, <1>3, <1>4, <1>5 DEF Next, WorkerStep, vars

SightedInv == ~sweep.blind => CounterInv /\ SweepQuiet

LEMMA SightedInit == Init => SightedInv
<1>1. Init => SweepQuiet
  BY DEF Init, EnrichInit, SweepQuiet
<1> QED
  BY <1>1, CounterInit DEF SightedInv

LEMMA SightedNext ==
  ASSUME Quiet, TypeOK, SightedInv, [Next]_vars
  PROVE  SightedInv'
<1> SUFFICES ASSUME ~sweep'.blind PROVE CounterInv' /\ SweepQuiet'
  BY DEF SightedInv
<1>1. CounterInv /\ SweepQuiet
  BY BlindStays DEF SightedInv
<1> QED
  BY <1>1, CounterNext, QuietNext

\* While a document is finalizing its counter is the number of slots nobody has
\* drained, and a completed document has none left: for any number of
\* deliveries, slots and retries, through failed enqueues, UPDATEs and reads,
\* dying workers, and a sweep that reads the row, the spans and the queue and
\* fails the row as four steps, unless its look at the queue missed a task.
THEOREM CounterCorrect ==
  ASSUME Quiet
  PROVE  Spec => [](CounterIsOpenSlots /\ CompletedMeansDrained)
<1>1. SightedInv => CounterIsOpenSlots /\ CompletedMeansDrained
  BY DEF SightedInv, CounterInv, CounterIsOpenSlots, CountExact, Exact, CompletedDrained,
         CompletedMeansDrained
<1>2. TypeOK /\ SightedInv /\ [Next]_vars => SightedInv'
  BY SightedNext
<1> QED
  BY <1>1, <1>2, SightedInit, TypeCorrect, PTL DEF Spec

-----------------------------------------------------------------------------
(* Settled documents.  Besides the counter: a copy that a summary handler  *)
(* holds says what the row says, since no handler starts between the       *)
(* sweep's look at the queue and its UPDATE and a row with an open slot    *)
(* does not complete; and no delivery is about to complete a document that *)
(* has failed.                                                             *)

CopyFresh == \A p \in Posts : Holds(p) => sub[p][Summary].copy.status = row.status

SettledInv ==
  /\ CopyFresh
  /\ \A p \in Posts : post[p].pc # "failing"
  /\ row.status = "failed" => \A p \in Posts : post[p].pc # "loaded"

\* Nobody takes a copy, and the copies held stay as they are.
HoldsKeep ==
  \A p \in Posts : Holds(p)' =>
    Holds(p) /\ sub'[p][Summary].copy.status = sub[p][Summary].copy.status

PostsCalm ==
  \A p \in Posts : /\ post'[p].pc # "failing"
                   /\ post'[p].pc = "loaded" => post[p].pc = "loaded"

LEMMA SettledInit == Init => SettledInv
BY EnrichmentAssumption DEF Init, EnrichInit, Idle, SettledInv, CopyFresh, Holds, HoldingPc

\* A row whose count is used up, or that is completed, has no copy out.
LEMMA NobodyHolds ==
  ASSUME TypeOK, CounterInv,
         row.status = "completed" \/ (row.status = "finalizing" /\ row.count = 0)
  PROVE  \A p \in Posts : ~Holds(p)
<1> SUFFICES ASSUME NEW p \in Posts, Holds(p) PROVE FALSE
  OBVIOUS
<1>1. Summary \in OpenSlots(p) /\ post[p].plan # {}
  BY EnrichmentAssumption
     DEF Holds, HoldingPc, DrainedPc, CounterInv, FanOutShape, DrainedShape, OpenSlots
<1>2. CASE row.status = "completed"
  BY <1>1, <1>2 DEF CounterInv, CompletedDrained
<1>3. CASE row.status = "finalizing" /\ row.count = 0
  BY <1>1, <1>3, OpenFinite, FS_EmptySet DEF CounterInv, CountExact, Exact
<1> QED
  BY <1>2, <1>3

LEMMA SettledQuietly ==
  ASSUME SettledInv, HoldsKeep, PostsCalm, row'.status = row.status
  PROVE  SettledInv'
BY DEF SettledInv, CopyFresh, HoldsKeep, PostsCalm, Holds

\* The promotion that completes the row finds no copy out.
LEMMA SettledPromote ==
  ASSUME TypeOK, CounterInv, SettledInv, HoldsKeep, PostsCalm, Promote
  PROVE  SettledInv' /\ (row.status \in {"completed", "failed"} => row'.status = row.status)
<1>1. row'.status = IF row.status = "finalizing" /\ row.count = 0 THEN "completed"
                    ELSE row.status
  BY DEF Promote, Write, CounterInv, QuietRow, TypeOK, StoreTypeOK, Row
<1>2. CASE row.status = "finalizing" /\ row.count = 0
  BY <1>1, <1>2, NobodyHolds DEF SettledInv, CopyFresh, HoldsKeep, PostsCalm
<1>3. CASE ~(row.status = "finalizing" /\ row.count = 0)
  BY <1>1, <1>3, SettledQuietly
<1> QED
  BY <1>1, <1>2, <1>3

\* One subtask changes and takes no copy.
LEMMA CellHolds ==
  ASSUME TypeOK, NEW p \in Posts, NEW s \in Slots, NEW t,
         sub' = [sub EXCEPT ![p] = [@ EXCEPT ![s] = t]],
         s = Summary /\ t.pc \in HoldingPc
           => sub[p][s].pc \in HoldingPc /\ t.copy.status = sub[p][s].copy.status
  PROVE  HoldsKeep
BY EnrichmentAssumption DEF TypeOK, HoldsKeep, Holds

LEMMA MoveHolds ==
  ASSUME TypeOK, NEW p \in Posts, NEW s \in Slots, NEW pc \in SubPc,
         sub' = [sub EXCEPT ![p][s].pc = pc],
         s = Summary /\ pc \in HoldingPc => sub[p][s].pc \in HoldingPc
  PROVE  HoldsKeep
<1>1. sub \in [Posts -> [Slots -> SubTask]] /\ Summary \in Slots
  BY EnrichmentAssumption DEF TypeOK
<1> SUFFICES ASSUME NEW q \in Posts
             PROVE  /\ sub'[q][Summary].copy = sub[q][Summary].copy
                    /\ sub'[q][Summary].pc = IF q = p /\ s = Summary THEN pc
                                             ELSE sub[q][Summary].pc
  BY DEF HoldsKeep, Holds
<1> QED
  BY <1>1 DEF SubTask

\* ... with its decrement,
LEMMA DrainHolds ==
  ASSUME TypeOK, NEW p \in Posts, NEW s \in Slots, NEW pc \in SubPc,
         sub' = [sub EXCEPT ![p][s].pc = pc, ![p][s].drained = TRUE],
         s = Summary /\ pc \in HoldingPc => sub[p][s].pc \in HoldingPc
  PROVE  HoldsKeep
<1>1. sub \in [Posts -> [Slots -> SubTask]] /\ Summary \in Slots
  BY EnrichmentAssumption DEF TypeOK
<1> SUFFICES ASSUME NEW q \in Posts
             PROVE  /\ sub'[q][Summary].copy = sub[q][Summary].copy
                    /\ sub'[q][Summary].pc = IF q = p /\ s = Summary THEN pc
                                             ELSE sub[q][Summary].pc
  BY DEF HoldsKeep, Holds
<1> QED
  BY <1>1 DEF SubTask

\* ... or to be retried.
LEMMA RetryHolds ==
  ASSUME TypeOK, NEW p \in Posts, NEW s \in Slots, NEW pc \in SubPc,
         sub' = [sub EXCEPT ![p][s].pc = pc, ![p][s].retried = @ + 1],
         s = Summary /\ pc \in HoldingPc => sub[p][s].pc \in HoldingPc
  PROVE  HoldsKeep
<1>1. sub \in [Posts -> [Slots -> SubTask]] /\ Summary \in Slots
  BY EnrichmentAssumption DEF TypeOK
<1> SUFFICES ASSUME NEW q \in Posts
             PROVE  /\ sub'[q][Summary].copy = sub[q][Summary].copy
                    /\ sub'[q][Summary].pc = IF q = p /\ s = Summary THEN pc
                                             ELSE sub[q][Summary].pc
  BY DEF HoldsKeep, Holds
<1> QED
  BY <1>1 DEF SubTask

LEMMA ErrorHolds ==
  ASSUME TypeOK, NEW p \in Posts, NEW s \in Slots, ExitWithError(p, s)
  PROVE  HoldsKeep
<1>1. {"queued", "draining"} \subseteq SubPc \ HoldingPc
  BY DEF SubPc, SubActive, HoldingPc
<1> QED
  BY <1>1, MoveHolds, RetryHolds DEF ExitWithError

\* A handler of the post-process task.
LEMMA SettledPost ==
  ASSUME TypeOK, CounterInv, SettledInv, NEW p \in Posts, PostStep(p)
  PROVE  SettledInv' /\ (row.status \in {"completed", "failed"} => row'.status = row.status)
<1>1. ASSUME UNCHANGED sub PROVE HoldsKeep
  BY <1>1 DEF HoldsKeep, Holds
<1>2. post \in [Posts -> PostTask]
  BY DEF TypeOK
<1>3. ASSUME NEW pc \in {"done", "enqueueing", "releasing"}, PostGoto(p, pc) PROVE PostsCalm
  BY <1>2, <1>3 DEF PostGoto, PostsCalm, SettledInv, PostTask
<1>4. CASE PostLoad(p)
  <2>1. \A q \in Posts : /\ post'[q].pc # "failing"
                         /\ post'[q].pc = "loaded"
                              => post[q].pc = "loaded" \/ row.status = "processing"
    BY <1>2, <1>4 DEF PostLoad, SettledInv, PostTask
  <2>2. UNCHANGED <<row, sub>>
    BY <1>4 DEF PostLoad
  <2> QED
    BY <2>1, <2>2 DEF SettledInv, CopyFresh, Holds
<1>5. ~PostDeadLetter(p)
  BY DEF PostDeadLetter, SettledInv
<1>6. CASE PostComplete(p)
  <2>1. PostsCalm /\ UNCHANGED sub
    BY <1>3, <1>6 DEF PostComplete
  <2>2. row'.status = "completed" /\ row.status # "failed"
    BY <1>6 DEF PostComplete, SetStatus, Write, CounterInv, QuietRow, TypeOK, StoreTypeOK,
                Row, SettledInv
  <2>3. \A q \in Posts : ~Holds(q)
    BY <1>6, EnrichmentAssumption DEF PostComplete, CounterInv, FanOutShape, Holds, HoldingPc
  <2> QED
    BY <2>1, <2>2, <2>3 DEF SettledInv, CopyFresh, PostsCalm, Holds
<1>7. CASE PostSeed(p)
  <2>1. row.status = "processing" /\ row'.status = "finalizing" /\ UNCHANGED sub
    BY <1>7 DEF PostSeed, CanFinalize, SetFinalizing, TypeOK, StoreTypeOK, Row
  <2>2. \A q \in Posts : ~Holds(q)
    BY <2>1, EnrichmentAssumption DEF CounterInv, FanOutShape, Holds, HoldingPc
  <2>3. \A q \in Posts : post'[q].pc # "failing"
    BY <1>2, <1>7 DEF PostSeed, SettledInv, PostTask
  <2> QED
    BY <2>1, <2>2, <2>3 DEF SettledInv, CopyFresh, Holds
<1>8. CASE PostSkip(p) \/ PostDone(p)
  BY <1>1, <1>3, <1>8, SettledQuietly DEF PostSkip, PostDone
<1>9. CASE PostSummaryPending(p)
  <2>1. row'.status = row.status
    BY <1>9 DEF PostSummaryPending, SetSummary, Write, TypeOK, StoreTypeOK, Row
  <2> QED
    BY <1>1, <1>3, <1>9, <2>1, SettledQuietly DEF PostSummaryPending
<1>10. ASSUME NEW s \in Slots, PostEnqueue(p, s)
       PROVE  SettledInv' /\ row'.status = row.status
  <2>1. HoldsKeep
    <3>1. PICK pc \in {"queued", "lost", "unqueued"} : sub' = [sub EXCEPT ![p][s].pc = pc]
      BY <1>10 DEF PostEnqueue
    <3> QED
      BY <3>1, MoveHolds DEF SubPc, HoldingPc
  <2>2. PostsCalm
    BY <1>10 DEF PostEnqueue, PostsCalm, SettledInv
  <2> QED
    BY <1>10, <2>1, <2>2, SettledQuietly DEF PostEnqueue
<1>11. ASSUME NEW s \in Slots, PostRelease(p, s)
       PROVE  SettledInv' /\ row'.status = row.status
  <2>1. HoldsKeep
    BY <1>11, DrainHolds DEF PostRelease, SubPc, HoldingPc
  <2>2. row'.status = row.status
    BY <1>11 DEF PostRelease, Decrement, Write, TypeOK, StoreTypeOK, Row
  <2> QED
    BY <1>3, <1>11, <2>1, <2>2, SettledQuietly DEF PostRelease
<1>12. CASE PostReleasePromote(p)
  BY <1>1, <1>3, <1>12, SettledPromote DEF PostReleasePromote
<1> QED
  BY <1>4, <1>5, <1>6, <1>7, <1>8, <1>9, <1>10, <1>11, <1>12 DEF PostStep

\* A subtask's own steps: a copy is taken from the row as it is.
LEMMA SettledSub ==
  ASSUME TypeOK, CounterInv, SettledInv, NEW p \in Posts, NEW s \in Slots, SubStep(p, s)
  PROVE  SettledInv' /\ (row.status \in {"completed", "failed"} => row'.status = row.status)
<1> USE DEF SubGoto
<1>1. PostsCalm
  BY DEF SubStep, SubStart, SubLoad, SubExit, SubDrain, SubPromote, SubAck, PostsCalm, SettledInv
<1>2. CASE SubStart(p, s)
  <2>1. PICK pc \in {"working", "superseded", "started"} :
          sub' = [sub EXCEPT ![p][s].pc = pc] /\ (s = Summary => pc # "working")
    BY <1>2, EnrichmentAssumption DEF SubStart
  <2>2. HoldsKeep
    BY <2>1, MoveHolds DEF SubPc, SubActive, HoldingPc
  <2> QED
    BY <1>1, <1>2, <2>2, SettledQuietly DEF SubStart
<1>3. CASE SubLoad(p, s)
  <2>1. CASE s = Summary /\ sub' = [sub EXCEPT ![p][s].copy = Loaded, ![p][s].pc = "loaded"]
    <3>1. \A q \in Posts : Holds(q)' =>
            \/ q = p /\ sub'[q][Summary].copy.status = row.status
            \/ Holds(q) /\ sub'[q][Summary].copy.status = sub[q][Summary].copy.status
      BY <2>1 DEF TypeOK, SubTask, Holds, Loaded
    <3> QED
      BY <1>1, <1>3, <3>1 DEF SubLoad, SettledInv, CopyFresh, PostsCalm, Holds
  <2>2. CASE (SubGoto(p, s, "working") /\ s # Summary) \/ SubGoto(p, s, "draining")
    <3>1. HoldsKeep
      BY <2>2, MoveHolds DEF SubPc, SubActive, HoldingPc
    <3> QED
      BY <1>1, <1>3, <3>1, SettledQuietly DEF SubLoad
  <2> QED
    BY <1>3, <2>1, <2>2 DEF SubLoad
<1>4. CASE SubExit(p, s)
  <2>1. HoldsKeep
    BY <1>4, MoveHolds, ErrorHolds DEF SubExit, SubPc, SubActive, HoldingPc
  <2> QED
    BY <1>1, <1>4, <2>1, SettledQuietly DEF SubExit
<1>5. CASE SubDrain(p, s)
  <2>1. HoldsKeep
    <3>1. {"promoting", "lost"} \subseteq SubPc \ HoldingPc
      BY DEF SubPc, SubActive, HoldingPc
    <3> QED
      BY <1>5, <3>1, MoveHolds, DrainHolds DEF SubDrain
  <2>2. row'.status = row.status
    BY <1>5 DEF SubDrain, Decrement, Write, TypeOK, StoreTypeOK, Row
  <2> QED
    BY <1>1, <2>1, <2>2, SettledQuietly
<1>6. CASE SubPromote(p, s)
  <2>1. HoldsKeep
    BY <1>6, MoveHolds DEF SubPromote, SubPc, SubActive, HoldingPc
  <2> QED
    BY <1>1, <1>6, <2>1, SettledPromote DEF SubPromote
<1>7. CASE SubAck(p, s)
  BY <1>1, <1>7, MoveHolds, SettledQuietly DEF SubAck, SubPc, HoldingPc
<1> QED
  BY <1>2, <1>3, <1>4, <1>5, <1>6, <1>7 DEF SubStep

\* The summary handler's saves write what the row says already.
LEMMA SettledSummary ==
  ASSUME TypeOK, CounterInv, SettledInv, NEW p \in Posts, SummaryStep(p)
  PROVE  SettledInv' /\ row'.status = row.status
<1> USE DEF SubGoto
<1> Summary \in Slots
  BY EnrichmentAssumption
<1>1. Holds(p) /\ sub[p][Summary].copy.status = row.status /\ PostsCalm
  BY DEF SummaryStep, SummaryBegin, SummarySave, SummaryGiveUp, SummarySaveFails, Holds,
         HoldingPc, SettledInv, CopyFresh, PostsCalm
<1>2. sub[p][Summary].copy \in Copy /\ sub[p][Summary] \in SubTask
  BY DEF TypeOK, SubTask
<1>3. ASSUME NEW su, Save([sub[p][Summary].copy EXCEPT !.summary = su])
      PROVE  row'.status = row.status
  BY <1>1, <1>2, <1>3 DEF Save, Write, Copy, TypeOK, StoreTypeOK, Row
<1>4. CASE SummaryBegin(p)
  <2> DEFINE t == [sub[p][Summary] EXCEPT !.pc = "working",
                     !.copy = [sub[p][Summary].copy EXCEPT !.summary = "processing"]]
  <2>1. sub' = [sub EXCEPT ![p] = [@ EXCEPT ![Summary] = t]]
    BY <1>4 DEF SummaryBegin, TypeOK
  <2>2. t.copy.status = sub[p][Summary].copy.status
    BY <1>2 DEF SubTask, Copy
  <2> HIDE DEF t
  <2>3. HoldsKeep
    BY <1>1, <2>1, <2>2, CellHolds DEF Holds
  <2>4. row'.status = row.status
    BY <1>3, <1>4 DEF SummaryBegin
  <2> QED
    BY <1>1, <2>3, <2>4, SettledQuietly
<1>5. CASE SummarySave(p)
  BY <1>1, <1>3, <1>5, MoveHolds, SettledQuietly
     DEF SummarySave, SubPc, SubActive, HoldingPc, Holds
<1>6. CASE SummaryGiveUp(p)
  <2>1. HoldsKeep
    BY <1>6, MoveHolds, ErrorHolds DEF SummaryGiveUp, SubPc, SubActive, HoldingPc
  <2> QED
    BY <1>1, <1>3, <1>6, <2>1, SettledQuietly DEF SummaryGiveUp
<1>7. CASE SummarySaveFails(p)
  BY <1>1, <1>7, ErrorHolds, SettledQuietly DEF SummarySaveFails
<1> QED
  BY <1>4, <1>5, <1>6, <1>7 DEF SummaryStep

LEMMA SettledFault ==
  ASSUME "read" \notin Faults, TypeOK, CounterInv, SettledInv, FaultStep
  PROVE  SettledInv' /\ row'.status = row.status
<1>1. \A p \in Posts : ~PostError(p)
  BY DEF PostError, CounterInv, QuietRow
<1>2. ASSUME NEW p \in Posts, PostCrash(p) PROVE HoldsKeep /\ PostsCalm /\ UNCHANGED row
  BY <1>2 DEF PostCrash, HoldsKeep, Holds, PostsCalm, SettledInv, TypeOK, PostTask
<1>3. ASSUME NEW p \in Posts, PostReleaseFails(p) PROVE HoldsKeep /\ PostsCalm /\ UNCHANGED row
  <2>1. PostsCalm /\ UNCHANGED row
    BY <1>3 DEF PostReleaseFails, PostGoto, PostsCalm, SettledInv, TypeOK, PostTask
  <2>2. HoldsKeep
    <3>1. \A q \in Posts : sub'[q][Summary] =
            IF q = p /\ sub[q][Summary].pc = "unqueued"
              THEN [sub[q][Summary] EXCEPT !.pc = "lost"] ELSE sub[q][Summary]
      BY <1>3, EnrichmentAssumption DEF PostReleaseFails, TypeOK
    <3>2. \A q \in Posts : sub[q][Summary] \in SubTask
      BY EnrichmentAssumption DEF TypeOK
    <3> QED
      BY <3>1, <3>2 DEF HoldsKeep, Holds, HoldingPc, SubTask
  <2> QED
    BY <2>1, <2>2
<1>4. ASSUME NEW p \in Posts, NEW s \in Slots, SubCrash(p, s)
      PROVE  HoldsKeep /\ PostsCalm /\ UNCHANGED row
  BY <1>4, MoveHolds, RetryHolds DEF SubCrash, SubPc, HoldingPc, PostsCalm, SettledInv
<1>5. ASSUME SweepFails PROVE HoldsKeep /\ PostsCalm /\ UNCHANGED row
  BY <1>5 DEF SweepFails, SweepGoto, HoldsKeep, Holds, PostsCalm, SettledInv
<1> QED
  BY <1>1, <1>2, <1>3, <1>4, <1>5, SettledQuietly DEF FaultStep

LEMMA SettledNext ==
  ASSUME Quiet, "read" \notin Faults, TypeOK, CounterInv, SweepQuiet, SettledInv, [Next]_vars
  PROVE  SettledInv' /\ (row.status \in {"completed", "failed"} => row'.status = row.status)
<1>1. CASE UNCHANGED vars
  BY <1>1 DEF vars, SettledInv, CopyFresh, Holds
<1>2. ~CancelStep
  BY DEF CancelStep, CancelCheck, CancelWrite, CancelDequeue, Quiet, CounterInv, QuietRow
<1>3. CASE SweepLook \/ SweepWrite
  <2>1. UNCHANGED <<post, sub>>
    BY <1>3 DEF SweepLook, SweepFind, SweepSpans, SweepProbe, SweepWrite, SweepGoto
  <2>2. CASE UNCHANGED row
    BY <2>1, <2>2 DEF SettledInv, CopyFresh, Holds
  <2>3. CASE SweepWrite /\ Stuck
    BY <2>1, <2>3, NobodyHoldsAtSweep DEF Stuck, SettledInv, CopyFresh, Holds
  <2> QED
    BY <1>3, <2>2, <2>3 DEF SweepLook, SweepFind, SweepSpans, SweepProbe, SweepWrite
<1> QED
  BY <1>1, <1>2, <1>3, SettledPost, SettledSub, SettledSummary, SettledFault DEF Next, WorkerStep

SightedSettledInv == ~sweep.blind => SettledInv

\* A completed or failed document keeps its status, for any number of deliveries,
\* slots and retries, through failed enqueues and UPDATEs, dying workers and a
\* sweep whose reads and UPDATE the handlers interleave with, unless its look at
\* the queue missed a task: the summary handler's whole-row saves, late drains and
\* duplicate deliveries do not reopen it, and the sweep's UPDATE comes too late.
THEOREM SettledCorrect ==
  ASSUME Quiet, "read" \notin Faults
  PROVE  Spec => SettledIsFinal
<1>1. TypeOK /\ SightedInv /\ [Next]_vars => SightedInv'
  BY SightedNext
<1>2. TypeOK /\ SightedInv /\ SightedSettledInv /\ [Next]_vars => SightedSettledInv'
  BY SettledNext, BlindStays DEF SightedInv, SightedSettledInv
<1>3. TypeOK /\ SightedInv /\ SightedSettledInv /\ [Next]_vars
        => [row.status \in {"completed", "failed"} /\ ~sweep.blind
              => row'.status = row.status]_vars
  BY SettledNext DEF SightedInv, SightedSettledInv
<1>4. Init => SightedSettledInv
  BY SettledInit DEF SightedSettledInv
<1> QED
  BY <1>1, <1>2, <1>3, <1>4, SightedInit, TypeCorrect, PTL DEF Spec, SettledIsFinal
=============================================================================
