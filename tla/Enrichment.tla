-------------------------------- MODULE Enrichment --------------------------------
(***************************************************************************)
(* The fan-out and fan-in of a parsed document: KnowledgePostProcess seeds *)
(* pending_subtasks_count and enqueues one task per slot (summary,         *)
(* question batches and graph chunks, the wiki op); every subtask drains   *)
(* its slot on its terminal exit; the drain that reaches zero promotes the *)
(* row.  Task delivery is asynq's: at least once, bounded retries.         *)
(***************************************************************************)
EXTENDS KnowledgeStore, FiniteSets

CONSTANTS
  Posts,       \* deliveries of the post-process task (duplicates included)
  Slots,       \* subtasks one fan-out can plan
  Summary,     \* the summary slot: the only handler that saves the whole row
  Wiki,        \* the wiki slot: an op in task_pending_ops, not an asynq task
  MaxRetry,    \* retry budget of a task (asynq.MaxRetry, wikiMaxFailRetries)
  Faults,      \* which failures happen, see FaultKinds
  Cancels      \* TRUE: the user may cancel the parse

FaultKinds == {"enqueue",    \* a subtask cannot be placed on its queue
               "crash",      \* a worker dies before its terminal drain
               "redeliver",  \* a worker dies between its drain and its ack
               "database",   \* an UPDATE fails; most handlers only log it
               "read",       \* the post-process handler's reads fail
               "probe"}      \* the sweep's looks miss what they should see

ASSUME EnrichmentAssumption ==
  /\ MaxRetry \in Nat
  /\ IsFiniteSet(Slots)
  /\ Summary \in Slots
  /\ Summary # Wiki
  /\ Faults \subseteq FaultKinds
  /\ Cancels \in BOOLEAN

VARIABLES
  post,      \* post[p]: one delivery of the post-process task
  sub,       \* sub[p][s]: the subtask that delivery p enqueued for slot s
  canceller, \* the CancelKnowledgeParse request
  hasText,   \* whether the document has text chunks
  sweep      \* how far the housekeeping sweep is; "blind" is history: its
             \* look at the queue has missed a task

enrichVars == <<post, sub, canceller, hasText, sweep>>
vars == <<storeVars, enrichVars>>

SubActive == {"started", "loaded", "working", "saved", "draining", "promoting", "acking"}
SubPc == {"none", "queued", "unqueued", "done", "lost", "superseded", "removed"}
           \cup SubActive
PostPc == {"queued", "loaded", "seeded", "enqueueing", "releasing", "failing", "done"}

PostTask == [pc : PostPc, attempt : 0 .. MaxAttempts, retried : 0 .. MaxRetry,
             plan : SUBSET Slots]
SweepState == [pc : {"idle", "candidate", "silent", "stuck"}, blind : BOOLEAN]
SubTask == [pc : SubPc, retried : 0 .. MaxRetry, copy : Copy, drained : BOOLEAN]

TypeOK ==
  /\ StoreTypeOK
  /\ post \in [Posts -> PostTask]
  /\ sub \in [Posts -> [Slots -> SubTask]]
  /\ canceller \in {"idle", "checked", "written", "over"}
  /\ hasText \in BOOLEAN
  /\ sweep \in SweepState

\* "drained" is history: FinalizeSubtask's decrement has run for the slot.
Idle == [pc |-> "none", retried |-> 0, drained |-> FALSE,
         copy |-> [status |-> "pending", summary |-> "none"]]

EnrichInit ==
  /\ post = [p \in Posts |-> [pc |-> "queued", attempt |-> 0, retried |-> 0, plan |-> {}]]
  /\ sub = [p \in Posts |-> [s \in Slots |-> Idle]]
  /\ canceller = "idle"
  /\ hasText \in BOOLEAN
  /\ sweep = [pc |-> "idle", blind |-> FALSE]

\* A document whose chunks are written: processing, nothing pending yet.
Init ==
  /\ row = [status |-> "processing", summary |-> "none", count |-> 0, live |-> TRUE]
  /\ latest = 1
  /\ EnrichInit

-----------------------------------------------------------------------------
(* KnowledgePostProcessService.Handle                                      *)

PostGoto(p, pc) == post' = [post EXCEPT ![p].pc = pc]

\* Entry: resolve the attempt (the image fan-in enqueues none), load the row;
\* a status other than processing ends the task.
PostLoad(p) ==
  /\ post[p].pc = "queued"
  /\ row.live
  /\ post' = [post EXCEPT
       ![p].pc = IF row.status = "processing" THEN "loaded" ELSE "done",
       ![p].attempt = IF @ = 0 THEN latest ELSE @]
  /\ UNCHANGED <<row, latest, sub, canceller, hasText, sweep>>

\* An error return of the reads (row, KB, chunks): asynq retries, and the
\* dead-letter callback follows the last attempt.
PostError(p) ==
  /\ "read" \in Faults \/ ~row.live
  /\ post[p].pc \in {"queued", "loaded"}
  /\ post' = IF post[p].retried < MaxRetry
               THEN [post EXCEPT ![p].pc = "queued", ![p].retried = @ + 1]
               ELSE [post EXCEPT ![p].pc = "failing"]
  /\ UNCHANGED <<row, latest, sub, canceller, hasText, sweep>>

\* newDeadLetterKnowledgeFailer: parse_status = failed, whatever it was.
PostDeadLetter(p) ==
  /\ post[p].pc = "failing"
  /\ SetStatus("failed")
  /\ PostGoto(p, "done")
  /\ UNCHANGED <<latest, sub, canceller, hasText, sweep>>

\* Nothing to enrich (no text chunks): completed, written without a guard.
PostComplete(p) ==
  /\ post[p].pc = "loaded"
  /\ ~hasText
  /\ SetStatus("completed")
  /\ PostGoto(p, "done")
  /\ UNCHANGED <<latest, sub, canceller, hasText, sweep>>

\* Text chunks exist, so the summary is always planned.
Plans == {plan \in SUBSET Slots : Summary \in plan}

\* SetFinalizing with the planned count, while the row is still processing.
PostSeed(p) ==
  /\ post[p].pc = "loaded"
  /\ hasText
  /\ CanFinalize
  /\ \E plan \in Plans :
       /\ SetFinalizing(Cardinality(plan))
       /\ post' = [post EXCEPT ![p].pc = "seeded", ![p].plan = plan]
  /\ UNCHANGED <<latest, sub, canceller, hasText, sweep>>

\* The row left processing since it was loaded, or the UPDATE failed (which
\* is logged; the task is not retried).
PostSkip(p) ==
  /\ post[p].pc = "loaded"
  /\ (hasText /\ ~CanFinalize) \/ "database" \in Faults
  /\ PostGoto(p, "done")
  /\ UNCHANGED <<row, latest, sub, canceller, hasText, sweep>>

PostSummaryPending(p) ==
  /\ post[p].pc = "seeded"
  /\ SetSummary("pending")
  /\ PostGoto(p, "enqueueing")
  /\ UNCHANGED <<latest, sub, canceller, hasText, sweep>>

ToEnqueue(p) == {s \in post[p].plan : sub[p][s].pc = "none"}

\* The slots are enqueued in order: summary, workers, wiki.  A failed enqueue
\* leaves the slot to the release loop; for the wiki nobody learns of it.
PostEnqueue(p, s) ==
  /\ post[p].pc = "enqueueing"
  /\ s \in ToEnqueue(p)
  /\ s = Summary \/ Summary \notin ToEnqueue(p)
  /\ s = Wiki => ToEnqueue(p) = {Wiki}
  /\ \/ sub' = [sub EXCEPT ![p][s].pc = "queued"]
     \/ /\ "enqueue" \in Faults
        /\ sub' = [sub EXCEPT ![p][s].pc = IF s = Wiki THEN "lost" ELSE "unqueued"]
  /\ UNCHANGED <<row, latest, post, canceller, hasText, sweep>>

\* One turn of the shortfall loop is a FinalizeSubtask: decrement, promote.
PostRelease(p, s) ==
  /\ post[p].pc = "enqueueing"
  /\ ToEnqueue(p) = {}
  /\ sub[p][s].pc = "unqueued"
  /\ Decrement
  /\ sub' = [sub EXCEPT ![p][s].pc = "done", ![p][s].drained = TRUE]
  /\ PostGoto(p, "releasing")
  /\ UNCHANGED <<latest, canceller, hasText, sweep>>

\* The loop breaks on the first error: the remaining slots keep no owner.
PostReleaseFails(p) ==
  /\ "database" \in Faults
  /\ post[p].pc = "enqueueing"
  /\ ToEnqueue(p) = {}
  /\ \E s \in Slots : sub[p][s].pc = "unqueued"
  /\ sub' = [sub EXCEPT ![p] = [s \in Slots |->
               IF @[s].pc = "unqueued" THEN [@[s] EXCEPT !.pc = "lost"] ELSE @[s]]]
  /\ PostGoto(p, "done")
  /\ UNCHANGED <<row, latest, canceller, hasText, sweep>>

PostReleasePromote(p) ==
  /\ post[p].pc = "releasing"
  /\ Promote
  /\ PostGoto(p, "enqueueing")
  /\ UNCHANGED <<latest, sub, canceller, hasText, sweep>>

PostDone(p) ==
  /\ post[p].pc = "enqueueing"
  /\ \A s \in post[p].plan : sub[p][s].pc \notin {"none", "unqueued"}
  /\ PostGoto(p, "done")
  /\ UNCHANGED <<row, latest, sub, canceller, hasText, sweep>>

\* The worker running the handler dies: asynq's recoverer retries the task.
\* Once seeded, the retry finds "finalizing" and skips the fan-out.
PostCrash(p) ==
  /\ "crash" \in Faults
  /\ post[p].pc \in {"loaded", "seeded", "enqueueing", "releasing"}
  /\ post' = IF post[p].retried < MaxRetry
               THEN [post EXCEPT ![p].pc = "queued", ![p].retried = @ + 1]
               ELSE [post EXCEPT ![p].pc = "done"]
  /\ UNCHANGED <<row, latest, sub, canceller, hasText, sweep>>

PostStep(p) ==
  \/ PostLoad(p) \/ PostDeadLetter(p) \/ PostComplete(p)
  \/ PostSeed(p) \/ PostSkip(p) \/ PostSummaryPending(p)
  \/ \E s \in Slots : PostEnqueue(p, s) \/ PostRelease(p, s)
  \/ PostReleasePromote(p) \/ PostDone(p)

-----------------------------------------------------------------------------
(* The subtask handlers                                                    *)

SubGoto(p, s, pc) == sub' = [sub EXCEPT ![p][s].pc = pc]

\* Entry guard of the summary, question and graph handlers: a newer attempt
\* ends the task before its drain is registered.  Wiki ops carry no attempt.
SubStart(p, s) ==
  /\ sub[p][s].pc = "queued"
  /\ SubGoto(p, s, IF s = Wiki THEN "working"
                   ELSE IF Superseded(post[p].attempt) THEN "superseded" ELSE "started")
  /\ UNCHANGED <<row, latest, post, canceller, hasText, sweep>>

\* The handler loads the row.  Cancelled or deleting: a terminal exit, which
\* drains.  The summary also returns nil, hence drains, when the row cannot be
\* loaded or its knowledge base has no summary model.
SubLoad(p, s) ==
  /\ sub[p][s].pc = "started"
  /\ \/ /\ s = Summary /\ row.live /\ ~SeenAborted
        /\ sub' = [sub EXCEPT ![p][s].copy = Loaded, ![p][s].pc = "loaded"]
     \/ /\ s # Summary /\ ~SeenAborted
        /\ SubGoto(p, s, "working")
     \/ /\ SeenAborted \/ s = Summary
        /\ SubGoto(p, s, "draining")
  /\ UNCHANGED <<row, latest, post, canceller, hasText, sweep>>

\* ProcessSummaryGeneration saves the whole row before and after the LLM call,
\* parse_status as it was loaded.  A failure of the first save is only logged.
SummaryBegin(p) ==
  /\ sub[p][Summary].pc = "loaded"
  /\ LET copy == [sub[p][Summary].copy EXCEPT !.summary = "processing"]
     IN /\ Save(copy) \/ ("database" \in Faults /\ UNCHANGED row)
        /\ sub' = [sub EXCEPT ![p][Summary].pc = "working", ![p][Summary].copy = copy]
  /\ UNCHANGED <<latest, post, canceller, hasText, sweep>>

\* The LLM answered (or the first chunk stands in): save it, then write and
\* index the summary chunk.
SummarySave(p) ==
  /\ sub[p][Summary].pc = "working"
  /\ Save([sub[p][Summary].copy EXCEPT !.summary = "completed"])
  /\ SubGoto(p, Summary, "saved")
  /\ UNCHANGED <<latest, post, canceller, hasText, sweep>>

\* Where a handler's error return leads: asynq retries it, or, on the final
\* attempt, finalizeSubtaskDetached drains and the task is archived.
ExitWithError(p, s) ==
  sub' = IF sub[p][s].retried < MaxRetry
           THEN [sub EXCEPT ![p][s].pc = "queued", ![p][s].retried = @ + 1]
           ELSE [sub EXCEPT ![p][s].pc = "draining"]

\* Insufficient text: failed, and nil is returned (no retry).  No chat model:
\* failed, and the error is returned.
SummaryGiveUp(p) ==
  /\ sub[p][Summary].pc = "working"
  /\ Save([sub[p][Summary].copy EXCEPT !.summary = "failed"])
  /\ SubGoto(p, Summary, "draining") \/ ExitWithError(p, Summary)
  /\ UNCHANGED <<latest, post, canceller, hasText, sweep>>

\* The save itself fails (or the cancel's signal reached the worker's context):
\* the error is returned.
SummarySaveFails(p) ==
  /\ "database" \in Faults \/ canceller = "over"
  /\ sub[p][Summary].pc = "working"
  /\ ExitWithError(p, Summary)
  /\ UNCHANGED <<row, latest, post, canceller, hasText, sweep>>

\* The handler returns: nil is terminal, an error is retried or final.
SubExit(p, s) ==
  /\ sub[p][s].pc = IF s = Summary THEN "saved" ELSE "working"
  /\ SubGoto(p, s, "draining") \/ ExitWithError(p, s)
  /\ UNCHANGED <<row, latest, post, canceller, hasText, sweep>>

\* finalizeSubtaskDetached: FinalizeSubtask's decrement, then its promotion;
\* an error of the UPDATE is logged and swallowed.
SubDrain(p, s) ==
  /\ sub[p][s].pc = "draining"
  /\ \/ /\ Decrement
        /\ sub' = [sub EXCEPT ![p][s].pc = "promoting", ![p][s].drained = TRUE]
     \/ /\ "database" \in Faults
        /\ SubGoto(p, s, "lost")
        /\ UNCHANGED row
  /\ UNCHANGED <<latest, post, canceller, hasText, sweep>>

SubPromote(p, s) ==
  /\ sub[p][s].pc = "promoting"
  /\ Promote
  /\ SubGoto(p, s, "acking")
  /\ UNCHANGED <<latest, post, canceller, hasText, sweep>>

\* asynq acknowledges (or archives) the task; the wiki batch trims its op.
SubAck(p, s) ==
  /\ sub[p][s].pc = "acking"
  /\ SubGoto(p, s, "done")
  /\ UNCHANGED <<row, latest, post, canceller, hasText, sweep>>

\* The worker dies.  The recoverer retries the task while it has retries,
\* else archives it without running any handler; a wiki op stays in its queue
\* (the number of crashes it meets is bounded by MaxRetry here).
SubCrash(p, s) ==
  /\ \/ "crash" \in Faults /\ sub[p][s].pc \in SubActive \ {"promoting", "acking"}
     \/ "redeliver" \in Faults /\ sub[p][s].pc \in {"promoting", "acking"}
  /\ sub' = IF sub[p][s].retried < MaxRetry
              THEN [sub EXCEPT ![p][s].pc = "queued", ![p][s].retried = @ + 1]
              ELSE [sub EXCEPT ![p][s].pc = "lost"]
  /\ s = Wiki => sub[p][s].retried < MaxRetry
  /\ UNCHANGED <<row, latest, post, canceller, hasText, sweep>>

SubStep(p, s) ==
  \/ SubStart(p, s) \/ SubLoad(p, s) \/ SubExit(p, s)
  \/ SubDrain(p, s) \/ SubPromote(p, s) \/ SubAck(p, s)

SummaryStep(p) ==
  SummaryBegin(p) \/ SummarySave(p) \/ SummaryGiveUp(p) \/ SummarySaveFails(p)

-----------------------------------------------------------------------------
(* CancelKnowledgeParse and the housekeeping sweep                         *)

Queued(t) == t.pc = "queued"

\* The status check; the row is written in a later step.
CancelCheck ==
  /\ Cancels
  /\ canceller = "idle"
  /\ row.live /\ row.status \in {"pending", "processing", "finalizing"}
  /\ canceller' = "checked"
  /\ UNCHANGED <<row, latest, post, sub, hasText, sweep>>

CancelWrite ==
  /\ canceller = "checked"
  /\ MarkCancelled
  /\ canceller' = "written"
  /\ UNCHANGED <<latest, post, sub, hasText, sweep>>

\* dequeueKnowledgeTasks and scrubWikiPendingIngest: what is still queued is
\* removed, what is running keeps running.
CancelDequeue ==
  /\ canceller = "written"
  /\ post' = [p \in Posts |-> IF Queued(post[p]) THEN [post[p] EXCEPT !.pc = "done"] ELSE post[p]]
  /\ sub' = [p \in Posts |-> [s \in Slots |->
               IF Queued(sub[p][s]) THEN [sub[p][s] EXCEPT !.pc = "removed"] ELSE sub[p][s]]]
  /\ canceller' = "over"
  /\ UNCHANGED <<row, latest, hasText, sweep>>

\* HasQueuedTasksForKnowledge: tasks of the seven asynq types that carry the
\* knowledge id; the wiki op's queue is not asynq and is not looked at.
AsynqTasksLeft ==
  \/ \E p \in Posts : post[p].pc # "done"
  \/ \E p \in Posts : \E s \in Slots \ {Wiki} : sub[p][s].pc \in SubActive \cup {"queued"}

\* A running handler has written its span; the threshold exceeds what a handler
\* may take.
Heartbeat ==
  \E p \in Posts : \/ post[p].pc \in {"loaded", "seeded", "enqueueing", "releasing"}
                   \/ \E s \in Slots : sub[p][s].pc \in SubActive

SweepGoto(pc) ==
  /\ sweep' = [sweep EXCEPT !.pc = pc]
  /\ UNCHANGED <<latest, post, sub, canceller, hasText>>

\* runSweep, A: the candidates, the spans, the queue and the UPDATE are four
\* calls, and the handlers go on between them.
SweepFind ==
  /\ sweep.pc = "idle"
  /\ Stuck
  /\ SweepGoto("candidate")
  /\ UNCHANGED row

\* filterByLastSpanActivity: no heartbeat, or the spans cannot be read.
SweepSpans ==
  /\ sweep.pc = "candidate"
  /\ \/ Heartbeat /\ SweepGoto("idle")
     \/ (~Heartbeat \/ "probe" \in Faults) /\ SweepGoto("silent")
  /\ UNCHANGED row

\* Mutant: the queue is not asked.
SweepProbeSkipped ==
  /\ sweep.pc = "silent"
  /\ SweepGoto("stuck")
  /\ UNCHANGED row

\* filterOutQueued: a list that cannot be read counts as empty, and a task that
\* asynq moves from one list to the next between two looks is not seen.
SweepProbe ==
  /\ sweep.pc = "silent"
  /\ \/ AsynqTasksLeft /\ SweepGoto("idle")
     \/ ~AsynqTasksLeft /\ SweepGoto("stuck")
     \/ /\ AsynqTasksLeft /\ "probe" \in Faults
        /\ sweep' = [pc |-> "stuck", blind |-> TRUE]
        /\ UNCHANGED <<latest, post, sub, canceller, hasText>>
  /\ UNCHANGED row

\* Mutant: the UPDATE does not look at the status again.
SweepWriteUnguarded ==
  /\ sweep.pc = "stuck"
  /\ Write([row EXCEPT !.status = "failed", !.count = 0])
  /\ SweepGoto("idle")

\* The UPDATE looks at the status again, and at nothing else.
SweepWrite ==
  /\ sweep.pc = "stuck"
  /\ IF Stuck THEN MarkStuckFailed ELSE UNCHANGED row
  /\ SweepGoto("idle")

\* The UPDATE fails: logged, and the next sweep starts over.
SweepFails ==
  /\ "database" \in Faults
  /\ sweep.pc = "stuck"
  /\ SweepGoto("idle")
  /\ UNCHANGED row

SweepLook == SweepFind \/ SweepSpans \/ SweepProbe

-----------------------------------------------------------------------------
WorkerStep ==
  \/ \E p \in Posts : PostStep(p) \/ SummaryStep(p)
  \/ \E p \in Posts, s \in Slots : SubStep(p, s)

FaultStep ==
  \/ \E p \in Posts : PostError(p) \/ PostReleaseFails(p) \/ PostCrash(p)
  \/ \E p \in Posts, s \in Slots : SubCrash(p, s)
  \/ SweepFails

CancelStep == CancelCheck \/ CancelWrite \/ CancelDequeue

Next == WorkerStep \/ FaultStep \/ CancelStep \/ SweepLook \/ SweepWrite

\* asynq keeps handing out what is queued and the cron keeps sweeping, with an
\* UPDATE that does not fail every time; no fault and no user request has to
\* happen.
Fairness ==
  /\ \A p \in Posts : WF_vars(PostStep(p)) /\ WF_vars(SummaryStep(p))
  /\ \A p \in Posts, s \in Slots : WF_vars(SubStep(p, s))
  /\ WF_vars(SweepLook) /\ SF_vars(SweepWrite)

Spec == Init /\ [][Next]_vars /\ Fairness

-----------------------------------------------------------------------------
(* Properties                                                              *)

\* Planned slots that neither their task nor the release loop has drained yet.
OpenSlots(p) == {s \in post[p].plan : ~sub[p][s].drained}

\* While a document is finalizing, its counter is the number of planned slots
\* nobody has drained yet: retries, failed enqueues, workers that die before
\* their drain and concurrent drains neither lose nor double a decrement.  Only
\* a sweep whose look at the queue missed a task undoes it: the row it fails may
\* be in the hands of a summary handler, whose save brings "finalizing" back
\* with the counter at zero.
CounterIsOpenSlots ==
  \A p \in Posts :
    post[p].plan # {} /\ row.status = "finalizing" /\ ~sweep.blind
      => row.count = Cardinality(OpenSlots(p))

\* A completed document has no slot left to drain: the drain that promotes is
\* the last one, a sweep that missed a queued task apart.
CompletedMeansDrained ==
  row.status = "completed" /\ ~sweep.blind => \A p \in Posts : OpenSlots(p) = {}

\* A settled document stays settled: no stale whole-row save of the summary
\* handler, late drain, duplicate post-process task or late UPDATE of the sweep
\* reopens it or takes its verdict back, however the sweep's reads and its
\* UPDATE interleave with them, as long as its look at the queue saw every task.
SettledIsFinal ==
  [][row.status \in {"completed", "failed"} /\ ~sweep.blind => row'.status = row.status]_vars

\* Every document leaves processing and finalizing, if only through the sweep.
EventuallySettled ==
  row.status \in {"processing", "finalizing"}
    ~> row.status \in {"completed", "failed", "cancelled"}

\* The claim at CancelKnowledgeParse: once the row is cancelled and its counter
\* zeroed, a late FinalizeSubtask cannot promote it to completed.
NoPromotionAfterCancel ==
  [][(canceller \in {"written", "over"})
       => ~(row.status = "finalizing" /\ row'.status = "completed")]_vars
=============================================================================
