------------------------------ MODULE DocumentParse ------------------------------
(***************************************************************************)
(* From upload to post-processing: the document:process task converts,     *)
(* chunks and indexes one document, checking between its steps whether the *)
(* user has cancelled or deleted it, and hands over to post-processing, by *)
(* itself or through a countdown in Redis that its image tasks share.  The *)
(* user's cancel and delete, and the housekeeping sweep, run beside it.    *)
(***************************************************************************)
EXTENDS KnowledgeStore, FiniteSets

CONSTANTS
  Images,      \* images a document may contain
  MaxRetry,    \* retry budget of a task
  MaxFaults,   \* how many of FaultKinds meet one document (bound)
  Setups       \* what a behaviour may contain: the images a document shows, what
               \* can go wrong (Outcomes, FaultKinds), what the user asks for (bounds)

\* How work on a document can end badly, without further trouble.
Outcomes == {"config",    \* the document cannot be parsed, ever
             "convert",   \* fetching or converting it fails
             "model",     \* there is no embedding model
             "chunks",    \* chunks cannot be written
             "vector",    \* the vector store refuses the batch
             "vision"}    \* the vision model fails, or its chunks cannot be written

\* Failures that leave something undone; "mishap" remembers them.
FaultKinds == {"quota",      \* the tenant's storage is full
               "cleanup",    \* chunks or vectors cannot be deleted
               "database",   \* the row cannot be saved
               "unread",     \* the tenant or the row cannot be read
               "probe",      \* the sweep's look at the queue misses a task
               "enqueue",    \* a task cannot be enqueued
               "redis",      \* a countdown command fails
               "crash",      \* a worker dies before it has handed over or counted
               "redeliver"}  \* a worker dies after that, before the ack

\* Not failures, but what handlers that run side by side do to each other.
Collisions == {"overwritten",  \* a write wiped out a cancel or a delete
               "interrupted",  \* a dequeue cancelled a running worker's context
               "late"}         \* an image wrote its chunks or vectors under a delete

ASSUME ParseAssumption ==
  /\ IsFiniteSet(Images)
  /\ MaxRetry \in Nat /\ MaxFaults \in Nat
  /\ Setups \subseteq [images : SUBSET Images, faults : SUBSET (Outcomes \cup FaultKinds),
                       requests : SUBSET {"cancel", "delete"}]

VARIABLES
  parse,      \* the document:process task
  image,      \* image[n][i]: the image:multimodal task the parse task's delivery
              \* n (0 the first, then its retries) enqueued for image i
  pending,    \* Redis multimodal:pending:<id>; an absent key counts as 0
  posts,      \* knowledge:post_process tasks waiting
  text,       \* whether the document's text chunks are in the database
  vectors,    \* whether their vectors are in the vector store
  captions,   \* what the image tasks left of their OCR and caption chunks:
              \* "text" in the database, "vectors" in the vector store
  canceller,  \* the CancelKnowledgeParse request
  deleter,    \* the DeleteKnowledge request
  sweep,      \* how far the housekeeping sweep is
  mishap,     \* history: the failures and collisions so far
  setup       \* the bounds of this behaviour

still == <<latest, setup>>
dataVars == <<text, vectors, captions>>
userVars == <<canceller, deleter, sweep>>
vars == <<storeVars, parse, image, pending, posts, dataVars, userVars, mishap, setup>>

\* Before the hand-over, and from its first effect on.
ParseBefore == {"loaded", "checked", "working", "clearing", "clearingVectors", "cleared",
                "creating", "created", "full", "dropping", "indexing", "indexed",
                "undoing", "undoingVectors", "finishing", "fanout"}
ParseAfter == {"enqueueing", "acking"}
ImageBefore == {"working", "indexing", "counting"}
ImageAfter == {"handing", "posting", "acking"}

Running(task) == task.pc \in ParseBefore \cup ParseAfter \cup ImageBefore \cup ImageAfter
AtRest == {"none", "done", "lost", "removed"}
DataKinds == {"text", "vectors", "graph"}
Deliveries == 0 .. MaxRetry

ParseTask == [pc : AtRest \cup {"queued"} \cup ParseBefore \cup ParseAfter,
              retried : Deliveries, found : SUBSET Images, signalled : BOOLEAN]
ImageTask == [pc : AtRest \cup {"queued"} \cup ImageBefore \cup ImageAfter,
              retried : Deliveries, signalled : BOOLEAN]

ParseTypeOK ==
  /\ StoreTypeOK
  /\ parse \in ParseTask
  /\ image \in [Deliveries -> [Images -> ImageTask]]
  /\ pending \in Int /\ posts \in Nat
  /\ text \in BOOLEAN /\ vectors \in BOOLEAN /\ captions \subseteq {"text", "vectors"}
  /\ canceller \in {"idle", "checked", "written", "over"}
  /\ deleter \in [pc : {"idle", "loaded", "marked", "clearing", "over"},
                  dequeues : BOOLEAN, left : SUBSET DataKinds, failed : BOOLEAN]
  /\ sweep \in {"idle", "stuck"}
  /\ mishap \subseteq FaultKinds \cup Collisions
  /\ setup \in Setups

NoImage == [pc |-> "none", retried |-> 0, signalled |-> FALSE]

\* A document just uploaded: its row is pending and its task is enqueued.
Init ==
  /\ row = [status |-> "pending", summary |-> "none", count |-> 0, live |-> TRUE]
  /\ latest = 1
  /\ parse = [pc |-> "queued", retried |-> 0, found |-> {}, signalled |-> FALSE]
  /\ image = [n \in Deliveries |-> [i \in Images |-> NoImage]]
  /\ pending = 0 /\ posts = 0
  /\ text = FALSE /\ vectors = FALSE /\ captions = {}
  /\ canceller = "idle"
  /\ deleter = [pc |-> "idle", dequeues |-> FALSE, left |-> {}, failed |-> FALSE]
  /\ sweep = "idle"
  /\ mishap = {}
  /\ setup \in Setups

-----------------------------------------------------------------------------
(* Failures and saves                                                      *)

Smooth == UNCHANGED mishap

\* A failure of a kind happens, now or again.
Strikes(kind) ==
  /\ kind \in setup.faults
  /\ kind \in mishap \/ Cardinality(mishap \cap FaultKinds) < MaxFaults
  /\ mishap' = mishap \cup {kind}

\* A task runs again although it has done its work: once (bound).
RunsAgain == "redeliver" \notin mishap /\ Strikes("redeliver")

\* The dequeue signalled a running worker: what it does with its context fails.
Interrupted(task) == task.signalled /\ mishap' = mishap \cup {"interrupted"}

\* UpdateKnowledge on the copy loaded at the start: of its columns only the
\* status differs from the row's, and it is written whatever the row says by now.
Saved(status) ==
  /\ Save([status |-> status, summary |-> row.summary])
  /\ mishap' = IF SeenAborted THEN mishap \cup {"overwritten"} ELSE mishap

SaveFails == Strikes("database") /\ UNCHANGED row

\* Most callers do not look at the result.
SaveStatus(status) == Saved(status) \/ SaveFails

-----------------------------------------------------------------------------
(* ProcessDocument, up to the converted text                               *)

ParseGoto(pc) == parse' = [parse EXCEPT !.pc = pc]

\* Mutant: one retry too many.
MayRetryAgain(task) == task.retried <= MaxRetry
MayRetry(task) == task.retried < MaxRetry

Again(task) == [task EXCEPT !.pc = "queued", !.retried = @ + 1, !.signalled = FALSE]

Elsewhere == <<still, image, pending, posts, userVars>>

\* Entry: a row that is gone, aborted or completed ends the task; a failed one
\* is parsed again.  When the tenant or the row cannot be read nil is returned:
\* the task is consumed and the row stays as it was.
ParseLoad ==
  /\ parse.pc = "queued"
  /\ \/ /\ ParseGoto(IF ~row.live \/ row.status \in {"deleting", "cancelled", "completed"}
                       THEN "done" ELSE "loaded")
        /\ Smooth
     \/ Strikes("unread") /\ ParseGoto("done")
  /\ UNCHANGED <<row, dataVars, Elsewhere>>

\* A checkpoint asks isKnowledgeAborted: under a delete what was written is taken
\* back, under a cancel it stays.  A row that is gone or cannot be read counts as
\* deleting.
Check(next, takeBack) ==
  \/ /\ ParseGoto(IF ~Aborted THEN next
                  ELSE IF row.live /\ row.status = "cancelled" THEN "done" ELSE takeBack)
     /\ Smooth
  \/ Strikes("unread") /\ ParseGoto(takeBack)

\* The re-check just before the row is marked.
ParseRecheck ==
  /\ parse.pc = "loaded"
  /\ Check("checked", "done")
  /\ UNCHANGED <<row, dataVars, Elsewhere>>

\* Marked processing.  When that fails nil is returned: nobody retries.
ParseMark ==
  /\ parse.pc = "checked"
  /\ \/ Saved("processing") /\ ParseGoto("working")
     \/ SaveFails /\ ParseGoto("done")
  /\ UNCHANGED <<dataVars, Elsewhere>>

\* No knowledge base, or a kind of document that cannot be parsed: failed, and
\* no retry.
ParseRefuse ==
  /\ "config" \in setup.faults
  /\ parse.pc \in {"loaded", "working"}
  /\ SaveStatus("failed")
  /\ ParseGoto("done")
  /\ UNCHANGED <<dataVars, Elsewhere>>

\* Fetching, converting, storing or transcribing fails: an error return, and
\* only the last attempt marks the row.
ParseConvertFails ==
  /\ "convert" \in setup.faults
  /\ parse.pc = "working"
  /\ IF MayRetry(parse)
       THEN /\ parse' = Again(parse)
            /\ Smooth
            /\ UNCHANGED row
       ELSE /\ SaveStatus("failed")
            /\ ParseGoto("done")
  /\ UNCHANGED <<dataVars, Elsewhere>>

\* Converted, with the images it shows; processChunks begins with a check and
\* needs an embedding model, without which it just returns.
ParseConvert ==
  /\ parse.pc = "working"
  /\ \/ /\ \E found \in SUBSET setup.images :
             parse' = [parse EXCEPT !.pc = IF Aborted THEN "done" ELSE "clearing",
                                    !.found = found]
        /\ Smooth
     \/ "model" \in setup.faults /\ ParseGoto("done") /\ Smooth
     \/ Strikes("unread") /\ ParseGoto("done")
  /\ UNCHANGED <<row, dataVars, Elsewhere>>

-----------------------------------------------------------------------------
(* processChunks                                                           *)

\* All chunks, or all vectors, of the document are deleted.
Cleared(kind) ==
  /\ text' = (text /\ kind # "text")
  /\ vectors' = (vectors /\ kind # "vectors")
  /\ captions' = captions \ {kind}

\* An error of it is logged.
Drop(kind) == \/ Cleared(kind) /\ Smooth
              \/ Strikes("cleanup") /\ UNCHANGED dataVars

\* What an earlier attempt left is removed first.
ParseClearText ==
  /\ parse.pc = "clearing"
  /\ Drop("text")
  /\ ParseGoto("clearingVectors")
  /\ UNCHANGED <<row, Elsewhere>>

ParseClearVectors ==
  /\ parse.pc = "clearingVectors"
  /\ Drop("vectors")
  /\ ParseGoto("cleared")
  /\ UNCHANGED <<row, Elsewhere>>

ParseCheckCleared ==
  /\ parse.pc = "cleared"
  /\ Check("creating", "done")
  /\ UNCHANGED <<row, dataVars, Elsewhere>>

ParseCreate ==
  /\ parse.pc = "creating"
  /\ \/ /\ text' = TRUE
        /\ ParseGoto("created")
        /\ Smooth
        /\ UNCHANGED row
     \/ /\ "chunks" \in setup.faults
        /\ SaveStatus("failed")
        /\ ParseGoto("done")
        /\ UNCHANGED text
  /\ UNCHANGED <<vectors, captions, Elsewhere>>

\* The storage quota is exceeded or cannot be read; the chunks stay.
ParseFull ==
  /\ parse.pc = "created"
  /\ Strikes("quota")
  /\ ParseGoto("full")
  /\ UNCHANGED <<row, dataVars, Elsewhere>>

ParseFullFails ==
  /\ parse.pc = "full"
  /\ SaveStatus("failed")
  /\ ParseGoto("done")
  /\ UNCHANGED <<dataVars, Elsewhere>>

ParseCheckCreated ==
  /\ parse.pc = "created"
  /\ Check("indexing", "dropping")
  /\ UNCHANGED <<row, dataVars, Elsewhere>>

ParseDrop ==
  /\ parse.pc = "dropping"
  /\ Drop("text")
  /\ ParseGoto("done")
  /\ UNCHANGED <<row, Elsewhere>>

\* Part of a batch may have been written when the writer stops.
PartVectors == vectors' \in {vectors, vectors \/ parse.pc = "indexing"}

\* Mutant: the error branch does not return.
IndexFailsOn == "indexed"
IndexFails == "undoing"

\* BatchIndex; on an error the row fails, then chunks and vectors are removed.
ParseIndex ==
  /\ parse.pc = "indexing"
  /\ \/ /\ vectors' = TRUE
        /\ ParseGoto("indexed")
        /\ Smooth
        /\ UNCHANGED row
     \/ /\ "vector" \in setup.faults
        /\ SaveStatus("failed")
        /\ ParseGoto(IndexFails)
        /\ PartVectors
  /\ UNCHANGED <<text, captions, Elsewhere>>

ParseUndoText ==
  /\ parse.pc = "undoing"
  /\ Drop("text")
  /\ ParseGoto("undoingVectors")
  /\ UNCHANGED <<row, Elsewhere>>

ParseUndoVectors ==
  /\ parse.pc = "undoingVectors"
  /\ Drop("vectors")
  /\ ParseGoto("done")
  /\ UNCHANGED <<row, Elsewhere>>

ParseCheckIndexed ==
  /\ parse.pc = "indexed"
  /\ Check("finishing", "undoing")
  /\ UNCHANGED <<row, dataVars, Elsewhere>>

\* finalizeIndexedKnowledgeState: with text chunks the row stays processing.
ParseFinish ==
  /\ parse.pc = "finishing"
  /\ SaveStatus("processing")
  /\ ParseGoto("fanout")
  /\ UNCHANGED <<dataVars, Elsewhere>>

-----------------------------------------------------------------------------
(* The hand-over to post-processing                                        *)

\* A knowledge:post_process task is enqueued, or that fails and is logged.
HandOver == \/ posts' = posts + 1 /\ Smooth
            \/ Strikes("enqueue") /\ UNCHANGED posts

\* Mutant: the countdown starts one short.
CountdownShort == Cardinality(parse.found) - 1
Countdown == Cardinality(parse.found)

Now == parse.retried

\* Without images the hand-over is direct; with images the countdown is set
\* first, whether or not Redis takes it.
ParseFanout ==
  /\ parse.pc = "fanout"
  /\ \/ parse.found = {} /\ HandOver /\ UNCHANGED pending /\ ParseGoto("acking")
     \/ /\ parse.found # {}
        /\ \/ pending' = Countdown /\ Smooth
           \/ (Strikes("redis") \/ Interrupted(parse)) /\ UNCHANGED pending
        /\ ParseGoto("enqueueing")
        /\ UNCHANGED posts
  /\ UNCHANGED <<row, still, image, dataVars, userVars>>

\* A failed enqueue is logged: nothing will count for that image.
ParseEnqueue(i) ==
  /\ parse.pc = "enqueueing"
  /\ i \in parse.found
  /\ image[Now][i].pc = "none"
  /\ \/ image' = [image EXCEPT ![Now][i].pc = "queued"] /\ Smooth
     \/ image' = [image EXCEPT ![Now][i].pc = "lost"] /\ Strikes("enqueue")
  /\ UNCHANGED <<row, still, parse, pending, posts, dataVars, userVars>>

ParseEnqueued ==
  /\ parse.pc = "enqueueing"
  /\ \A i \in parse.found : image[Now][i].pc # "none"
  /\ ParseGoto("acking")
  /\ Smooth
  /\ UNCHANGED <<row, dataVars, Elsewhere>>

ParseAck ==
  /\ parse.pc = "acking"
  /\ ParseGoto("done")
  /\ Smooth
  /\ UNCHANGED <<row, dataVars, Elsewhere>>

\* A signalled worker's next database or store call fails: every check reads
\* that as a deletion, clean-ups and saves are lost, and asynq, seeing the
\* context cancelled, may schedule a retry.
ParseInterrupted ==
  /\ Interrupted(parse)
  /\ parse.pc \in ParseBefore \ {"fanout"}
  /\ parse' \in {[parse EXCEPT !.pc = IF @ = "finishing" THEN "fanout" ELSE "done"]}
               \cup (IF MayRetry(parse) THEN {Again(parse)} ELSE {})
  /\ PartVectors
  /\ UNCHANGED <<row, text, captions, Elsewhere>>

\* The worker dies: asynq's recoverer retries the task, or archives it.
ParseCrash ==
  /\ \/ parse.pc \in ParseBefore /\ Strikes("crash")
     \/ parse.pc \in ParseAfter /\ RunsAgain
  /\ parse' = IF MayRetry(parse) THEN Again(parse) ELSE [parse EXCEPT !.pc = "lost"]
  /\ PartVectors
  /\ UNCHANGED <<row, text, captions, Elsewhere>>

-----------------------------------------------------------------------------
(* ImageMultimodalService.Handle                                           *)

ImageGoto(n, i, pc) == image' = [image EXCEPT ![n][i].pc = pc]

ImageElsewhere == <<row, still, parse, text, vectors, userVars>>

\* An aborted row ends the task before its count-down is registered; a row
\* that is gone or cannot be read does not.
ImageStart(n, i) ==
  /\ image[n][i].pc = "queued"
  /\ \/ ImageGoto(n, i, IF SeenAborted THEN "done" ELSE "working") /\ Smooth
     \/ Strikes("unread") /\ ImageGoto(n, i, "working")
  /\ UNCHANGED <<pending, posts, captions, ImageElsewhere>>

\* Chunks or vectors of an image are written whatever the row says by now.
Leave(kind) ==
  /\ captions' = captions \cup {kind}
  /\ mishap' = IF ~row.live \/ row.status = "deleting" THEN mishap \cup {"late"}
               ELSE mishap

\* The vision model has read the image; chunks are written if it found
\* anything, without another look at the row.
ImageRead(n, i) ==
  /\ image[n][i].pc = "working"
  /\ \/ ImageGoto(n, i, "counting") /\ Smooth /\ UNCHANGED captions
     \/ ImageGoto(n, i, "indexing") /\ Leave("text")
  /\ UNCHANGED <<pending, posts, ImageElsewhere>>

\* indexChunks: their vectors are written, or that fails, which is only logged.
ImageIndex(n, i) ==
  /\ image[n][i].pc = "indexing"
  /\ ImageGoto(n, i, "counting")
  /\ (Smooth /\ UNCHANGED captions) \/ Leave("vectors")
  /\ UNCHANGED <<pending, posts, ImageElsewhere>>

\* An error: retried without counting, or, on the last attempt, counted.
ImageFails(n, i) ==
  /\ image[n][i].pc = "working"
  /\ ("vision" \in setup.faults /\ Smooth) \/ Interrupted(image[n][i])
  /\ image' = [image EXCEPT ![n][i] = IF MayRetry(@) THEN Again(@)
                                       ELSE [@ EXCEPT !.pc = "counting"]]
  /\ UNCHANGED <<pending, posts, captions, ImageElsewhere>>

\* checkAndFinalizeAllImages: DECR, and at zero or below delete the key and
\* hand over.  A Redis error hands over at once.
ImageCount(n, i) ==
  /\ image[n][i].pc = "counting"
  /\ \/ /\ pending' = pending - 1
        /\ ImageGoto(n, i, IF pending' <= 0 THEN "handing" ELSE "acking")
        /\ Smooth
     \/ /\ Strikes("redis") \/ Interrupted(image[n][i])
        /\ ImageGoto(n, i, "posting")
        /\ UNCHANGED pending
  /\ UNCHANGED <<posts, captions, ImageElsewhere>>

ImageDelKey(n, i) ==
  /\ image[n][i].pc = "handing"
  /\ \/ pending' = 0 /\ Smooth
     \/ (Strikes("redis") \/ Interrupted(image[n][i])) /\ UNCHANGED pending
  /\ ImageGoto(n, i, "posting")
  /\ UNCHANGED <<posts, captions, ImageElsewhere>>

ImageHandOver(n, i) ==
  /\ image[n][i].pc = "posting"
  /\ HandOver
  /\ ImageGoto(n, i, "acking")
  /\ UNCHANGED <<pending, captions, ImageElsewhere>>

ImageAck(n, i) ==
  /\ image[n][i].pc = "acking"
  /\ ImageGoto(n, i, "done")
  /\ Smooth
  /\ UNCHANGED <<pending, posts, captions, ImageElsewhere>>

ImageCrash(n, i) ==
  /\ \/ image[n][i].pc \in ImageBefore /\ Strikes("crash")
     \/ image[n][i].pc \in ImageAfter /\ RunsAgain
  /\ image' = [image EXCEPT ![n][i] = IF MayRetry(@) THEN Again(@)
                                       ELSE [@ EXCEPT !.pc = "lost"]]
  /\ UNCHANGED <<pending, posts, captions, ImageElsewhere>>

ImageStep(n, i) ==
  \/ ImageStart(n, i) \/ ImageRead(n, i) \/ ImageIndex(n, i) \/ ImageCount(n, i)
  \/ ImageDelKey(n, i) \/ ImageHandOver(n, i) \/ ImageAck(n, i)

-----------------------------------------------------------------------------
(* What comes after, taken apart in Enrichment, and the housekeeping sweep *)

\* KnowledgePostProcess: nothing to do unless the row is processing; without
\* any text completed, else finalizing.
PostProcess ==
  /\ posts > 0
  /\ posts' = posts - 1
  /\ IF ~CanFinalize THEN UNCHANGED row
     ELSE IF text \/ "text" \in captions THEN SetFinalizing(1) ELSE SetStatus("completed")
  /\ Smooth
  /\ UNCHANGED <<still, parse, image, pending, dataVars, userVars>>

\* The enrichment subtasks have drained the counter.
Enriched ==
  /\ row.live /\ row.status = "finalizing"
  /\ row' = [row EXCEPT !.status = "completed", !.count = 0]
  /\ Smooth
  /\ UNCHANGED <<still, parse, image, pending, posts, dataVars, userVars>>

AtWork(task) == task.pc = "queued" \/ Running(task)

TasksLeft == \/ AtWork(parse) \/ posts > 0
             \/ \E n \in Deliveries, i \in Images : AtWork(image[n][i])

SweepGoto(pc) ==
  /\ sweep' = pc
  /\ UNCHANGED <<still, parse, image, pending, posts, dataVars, canceller, deleter>>

\* runSweep: the look at the row and the queue (one step here, several in
\* Enrichment, where a finalizing row is swept), which can miss a task, and the
\* UPDATE, which looks at the status again and at nothing else.
SweepLook ==
  /\ sweep = "idle"
  /\ row.live /\ row.status = "processing"
  /\ (~TasksLeft /\ Smooth) \/ (TasksLeft /\ Strikes("probe"))
  /\ SweepGoto("stuck")
  /\ UNCHANGED row

SweepWrite ==
  /\ sweep = "stuck"
  /\ IF Stuck THEN MarkStuckFailed ELSE UNCHANGED row
  /\ SweepGoto("idle")
  /\ Smooth

\* Logged; the next sweep starts over.
SweepFails ==
  /\ sweep = "stuck"
  /\ SaveFails
  /\ SweepGoto("idle")

-----------------------------------------------------------------------------
(* The user's requests                                                     *)

Dequeued(task) == IF task.pc = "queued" THEN [task EXCEPT !.pc = "removed"]
                  ELSE [task EXCEPT !.signalled = @ \/ Running(task)]

\* CancelTasksForKnowledge: queued tasks are removed, running ones signalled.
Dequeue ==
  /\ parse' = Dequeued(parse)
  /\ image' = [n \in Deliveries |-> [i \in Images |-> Dequeued(image[n][i])]]
  /\ posts' = 0

\* CancelKnowledgeParse: the status check, the write of the row, the dequeue.
CancelCheck ==
  /\ "cancel" \in setup.requests
  /\ canceller = "idle"
  /\ row.live /\ row.status \in {"pending", "processing", "finalizing"}
  /\ canceller' = "checked"
  /\ Smooth
  /\ UNCHANGED <<row, still, parse, image, pending, posts, dataVars, deleter, sweep>>

CancelWrite ==
  /\ canceller = "checked"
  /\ \/ /\ MarkCancelled
        /\ mishap' = IF row.status = "deleting" THEN mishap \cup {"overwritten"} ELSE mishap
        /\ canceller' = "written"
     \/ SaveFails /\ canceller' = "over"
  /\ UNCHANGED <<still, parse, image, pending, posts, dataVars, deleter, sweep>>

CancelDequeue ==
  /\ canceller = "written"
  /\ Dequeue
  /\ canceller' = "over"
  /\ Smooth
  /\ UNCHANGED <<row, still, pending, dataVars, deleter, sweep>>

\* DeleteKnowledge: load the row, mark it (a failure is only logged), dequeue
\* if it was being parsed, clear chunks, vectors and graph side by side, drop the
\* row unless one of them reported an error (a failing drop leaves it, too).
DeleteLoad ==
  /\ "delete" \in setup.requests
  /\ deleter.pc = "idle"
  /\ row.live
  /\ deleter' = [deleter EXCEPT !.pc = "loaded",
                               !.dequeues = row.status \in {"pending", "processing"}]
  /\ Smooth
  /\ UNCHANGED <<row, still, parse, image, pending, posts, dataVars, canceller, sweep>>

DeleteMark ==
  /\ deleter.pc = "loaded"
  /\ (Save([status |-> "deleting", summary |-> row.summary]) /\ Smooth) \/ SaveFails
  /\ deleter' = [deleter EXCEPT !.pc = "marked"]
  /\ UNCHANGED <<still, parse, image, pending, posts, dataVars, canceller, sweep>>

DeleteDequeue ==
  /\ deleter.pc = "marked"
  /\ IF deleter.dequeues THEN Dequeue ELSE UNCHANGED <<parse, image, posts>>
  /\ deleter' = [deleter EXCEPT !.pc = "clearing", !.left = DataKinds]
  /\ Smooth
  /\ UNCHANGED <<row, still, pending, dataVars, canceller, sweep>>

\* The graph itself is left out; an error of deleting it counts.  When the
\* knowledge base cannot be loaded, the vectors of a store of its own are not
\* found, and that is no error.
DeleteData(kind) ==
  /\ deleter.pc = "clearing"
  /\ kind \in deleter.left
  /\ \/ /\ Cleared(kind)
        /\ deleter' = [deleter EXCEPT !.left = @ \ {kind}]
        /\ Smooth
     \/ /\ Strikes("cleanup")
        /\ \E failed \in {TRUE} \cup (IF kind = "vectors" THEN {deleter.failed} ELSE {}) :
             deleter' = [deleter EXCEPT !.left = @ \ {kind}, !.failed = failed]
        /\ UNCHANGED dataVars
  /\ UNCHANGED <<row, still, parse, image, pending, posts, canceller, sweep>>

DeleteRow ==
  /\ deleter.pc = "clearing"
  /\ deleter.left = {}
  /\ \/ row' = [row EXCEPT !.live = deleter.failed] /\ Smooth
     \/ ~deleter.failed /\ SaveFails
  /\ deleter' = [deleter EXCEPT !.pc = "over"]
  /\ UNCHANGED <<still, parse, image, pending, posts, dataVars, canceller, sweep>>

-----------------------------------------------------------------------------

ParseStep ==
  \/ ParseLoad \/ ParseRecheck \/ ParseMark \/ ParseRefuse \/ ParseConvertFails
  \/ ParseConvert \/ ParseClearText \/ ParseClearVectors \/ ParseCheckCleared
  \/ ParseCreate \/ ParseFull \/ ParseFullFails \/ ParseCheckCreated \/ ParseDrop
  \/ ParseIndex \/ ParseUndoText \/ ParseUndoVectors \/ ParseCheckIndexed
  \/ ParseFinish \/ ParseFanout \/ (\E i \in Images : ParseEnqueue(i))
  \/ ParseEnqueued \/ ParseAck

CancelStep == CancelWrite \/ CancelDequeue
DeleteStep == \/ DeleteMark \/ DeleteDequeue \/ DeleteRow
              \/ \E kind \in DataKinds : DeleteData(kind)

Next ==
  \/ ParseStep \/ ParseInterrupted \/ ParseCrash
  \/ \E n \in Deliveries, i \in Images :
       ImageStep(n, i) \/ ImageFails(n, i) \/ ImageCrash(n, i)
  \/ PostProcess \/ Enriched \/ SweepLook \/ SweepWrite \/ SweepFails
  \/ CancelCheck \/ CancelStep \/ DeleteLoad \/ DeleteStep

\* asynq's workers keep taking tasks and handlers return; a request once begun
\* goes on; the sweep runs on a ticker, and its UPDATE does not fail every time.
\* No failure and no request has to come.
Fairness ==
  /\ WF_vars(ParseStep)
  /\ \A n \in Deliveries, i \in Images : WF_vars(ImageStep(n, i))
  /\ WF_vars(PostProcess) /\ WF_vars(Enriched)
  /\ WF_vars(SweepLook) /\ SF_vars(SweepWrite)
  /\ WF_vars(CancelStep) /\ WF_vars(DeleteStep)

Spec == Init /\ [][Next]_vars /\ Fairness

-----------------------------------------------------------------------------
(* Properties                                                              *)

Calm(kinds) == mishap \cap kinds = {}

\* A document that is gone leaves nothing that can still be found: no text chunk
\* and no vector of the parse, wherever the delete met it (processChunks' checks
\* and DeleteKnowledge's own clearing cover each other), and nothing of its
\* images unless one of their tasks wrote under the delete, which nobody takes
\* back.  Excused: a clean-up failed, the worker was stopped or died before it
\* looked again, the quota error returned without cleaning, or the delete's mark
\* was overwritten or could not be made.
GoneLeavesNothing ==
  /\ ~row.live
  /\ ~AtWork(parse)
  /\ Calm({"cleanup", "interrupted", "crash", "redeliver", "quota", "overwritten",
           "database"})
  => /\ ~text /\ ~vectors
     /\ Calm({"late"}) => captions = {}

\* finalizing and completed are reached only with chunks and vectors in place:
\* neither a failed index batch, nor a delete, nor an earlier attempt's
\* clean-up leaves a searchable-looking document with nothing to search.
FinishedIsIndexed ==
  /\ row.live /\ row.status \in {"finalizing", "completed"}
  /\ deleter.pc \in {"idle", "loaded", "over"}
  /\ Calm({"redeliver", "overwritten", "database"})
  => text /\ vectors

Counted(task) == task.pc \in ImageAfter \cup {"done"}

\* However the image tasks interleave, fail and retry, post-processing is
\* started once, and not before the last image has counted: the DECR of
\* checkAndFinalizeAllImages reaches zero exactly then.
HandsOverOnceAtTheEnd ==
  [][(posts' > posts /\ Calm({"redis", "redeliver", "interrupted"})')
     => /\ posts = 0 /\ ~(row.live /\ row.status \in {"finalizing", "completed"})
        /\ \A i \in parse.found : Counted(image[Now][i])]_vars

\* The document comes to rest: parsed, failed or cancelled, or gone.  It stays
\* pending only if its tenant or row could not be read, its mark could not be
\* saved or its worker was stopped or died before it, and deleting only if its
\* data or the row could not be removed.
ComesToRest ==
  <>[](row.live => row.status \in
         {"completed", "failed", "cancelled"}
           \cup (IF Calm({"unread", "database", "crash", "interrupted"})
                   THEN {} ELSE {"pending"})
           \cup (IF Calm({"cleanup", "database"}) THEN {} ELSE {"deleting"}))
=============================================================================
