------------------------------ MODULE KnowledgeStore ------------------------------
(***************************************************************************)
(* The row of one document ("knowledge") and the repository calls that     *)
(* write it.  Every other module of the document pipeline reaches the row  *)
(* only through these operators; each is one SQL statement, hence one      *)
(* atomic step.  A handler that loads the row, works, and saves it later   *)
(* keeps what it read in a Copy, so that its save can be stale.            *)
(***************************************************************************)
EXTENDS Integers

CONSTANT
  MaxAttempts   \* parse attempts (upload, then each reparse) of a document

ASSUME MaxAttemptsAssumption == MaxAttempts \in Nat \ {0}

VARIABLES
  row,      \* the row: parse_status, pending_subtasks_count, summary_status
  latest    \* the newest attempt the span tracker knows (LatestAttempt)

storeVars == <<row, latest>>

ParseStatus == {"pending", "processing", "finalizing", "completed",
                "failed", "deleting", "cancelled"}
SummaryStatus == {"none", "pending", "processing", "completed", "failed"}

\* What a handler holds in memory of the row, and writes back with Save.
Copy == [status : ParseStatus, summary : SummaryStatus]

Row == [status : ParseStatus, summary : SummaryStatus, count : Nat, live : BOOLEAN]

StoreTypeOK ==
  /\ row \in Row
  /\ latest \in 1 .. MaxAttempts

-----------------------------------------------------------------------------
(* Reads.  A soft-deleted row is invisible to every query.                 *)

\* GetKnowledgeByID
Loaded == [status |-> row.status, summary |-> row.summary]

\* What the enrichment and image handlers test: a missing row is NOT aborted.
SeenAborted == row.live /\ row.status \in {"deleting", "cancelled"}

\* isKnowledgeAborted: a missing row counts as deleting.
Aborted == ~row.live \/ row.status \in {"deleting", "cancelled"}

\* attemptSuperseded
Superseded(attempt) == latest > attempt

-----------------------------------------------------------------------------
(* Writes.  An UPDATE of an invisible row matches nothing.                 *)

Write(newRow) == row' = IF row.live THEN newRow ELSE row

\* UpdateKnowledge: gorm Save of the whole in-memory row, parse_status
\* included; only the counter and deleted_at are left out.
Save(copy) == Write([row EXCEPT !.status = copy.status, !.summary = copy.summary])

\* UpdateKnowledgeColumns / UpdateKnowledgeColumn: no guard on the status.
SetStatus(status) == Write([row EXCEPT !.status = status])
SetSummary(summary) == Write([row EXCEPT !.summary = summary])
ResetCount == Write([row EXCEPT !.count = 0])

\* SetFinalizing: guarded by parse_status = 'processing'.
CanFinalizeAgain == row.live /\ row.status \in {"processing", "finalizing"}   \* mutant
CanFinalize == row.live /\ row.status = "processing"
SetFinalizing(n) == row' = [row EXCEPT !.status = "finalizing", !.count = n]

\* Mutant: no clamp.
DecrementUnclamped == Write([row EXCEPT !.count = @ - 1])

\* FinalizeSubtask, first statement: decrement clamped at zero.
Decrement == Write([row EXCEPT !.count = IF @ > 0 THEN @ - 1 ELSE 0])

\* Mutants: a promotion that forgets the counter, or the status.
PromoteEarly ==
  Write([row EXCEPT !.status = IF @ = "finalizing" THEN "completed" ELSE @])
PromoteAny == Write([row EXCEPT !.status = IF row.count = 0 THEN "completed" ELSE @])

\* FinalizeSubtask, second statement: the guarded promotion.
Promote ==
  Write([row EXCEPT !.status =
           IF @ = "finalizing" /\ row.count = 0 THEN "completed" ELSE @])

\* The columns the user's cancel writes in one UPDATE.
MarkCancelled == Write([row EXCEPT !.status = "cancelled", !.count = 0])

\* The columns the housekeeping sweep writes, guarded by the stuck statuses.
StuckInParse == row.live /\ row.status = "processing"   \* mutants
StuckInFinalizing == row.live /\ row.status = "finalizing"
Stuck == row.live /\ row.status \in {"processing", "finalizing"}
MarkStuckFailed == row' = [row EXCEPT !.status = "failed", !.count = 0]
=============================================================================
