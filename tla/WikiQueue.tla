------------------------------- MODULE WikiQueue -------------------------------
(***************************************************************************)
(* The wiki queue of one knowledge base.  Post-processing and deletes      *)
(* append rows to task_pending_ops and enqueue a wiki:ingest trigger; a    *)
(* trigger that gets the active-batch lock peeks at the oldest rows, maps  *)
(* each document to page updates, reduces them onto the pages, releases    *)
(* the documents' slots in the finalizing counter, trims the rows and      *)
(* schedules a follow-up for what is left.  Users re-parse, cancel and     *)
(* delete documents meanwhile.  One page, which documents may mention,     *)
(* stands for all; a document's wiki slot is its only one (Enrichment      *)
(* counts the others), so the row is finalizing while the slot is held.    *)
(***************************************************************************)
EXTENDS Naturals, Sequences

CONSTANTS
  Docs,        \* documents
  Workers,     \* asynq workers that run wiki:ingest
  BatchSize,   \* rows a batch peeks at
  MaxFails,    \* failed maps of a row before its dead letter
  MaxRetry,    \* retries of a trigger
  Setups       \* the documents and workers of a behaviour, and how many requests
               \* and faults come in it, and of which kinds they are (bounds)

FaultKinds == {"database",  \* a statement on the queue fails, or on a document or page
               "enqueue",   \* Redis refuses a trigger
               "redis",     \* Redis does not answer SetNX
               "expire",    \* the lock is not renewed in time
               "config",    \* the knowledge base or its model cannot be loaded
               "map",       \* the LLM fails on a document
               "page",      \* the LLM fails on a page
               "crash"}     \* a worker dies

\* History of what weakens a guarantee.
Mishaps == {"unstored",     \* a row that never reached the table
            "untriggered",  \* rows may be left without a trigger
            "unlocked",     \* a batch went on without the lock
            "unscrubbed",   \* a delete that left the wiki alone
            "unread",       \* a document or its pages could not be read: taken for gone
            "unretracted",  \* a retract was dropped, failed or undone
            "unwritten",    \* a document's update never reached the page
            "older"}        \* the work for older content released a newer slot

ASSUME WikiAssumption ==
  /\ BatchSize \in Nat \ {0} /\ MaxFails \in Nat /\ MaxRetry \in Nat
  /\ Setups \subseteq [docs : SUBSET Docs, workers : SUBSET Workers,
                       requests : Nat, wants : SUBSET {"reparse", "cancel", "delete"},
                       faults : Nat, kinds : SUBSET FaultKinds]

VARIABLES
  doc,        \* doc[d]: the document's row, and what its text says of the page
  post,       \* post[d]: EnqueueWikiIngest in the post-processing of d
  user,       \* user[d]: a re-parse, cancel or delete of d under way
  rows,       \* task_pending_ops, oldest first
  triggers,   \* triggers[n]: queued wiki:ingest tasks that were retried n times
  batch,      \* batch[w]: ProcessWikiIngest
  lock,       \* the active-batch key exists
  page,       \* the page: does it exist, and its source_refs
  mishap,     \* history
  setup, requests, faults   \* the bounds, and what may still come

now == <<doc, post, user, rows, triggers, batch, lock, page>>
vars == <<now, mishap, setup, requests, faults>>

Texts == {"mentions", "silent", "none"}   \* "none": too little text for the LLM
Statuses == {"processing", "finalizing", "completed", "cancelled", "gone"}
Attempts == 1 .. 3   \* an upload and its re-parses (bound)
Page == [live : BOOLEAN, refs : SUBSET Docs]
Key == [op : {"ingest", "retract"}, doc : Docs, attempt : Attempts, listed : BOOLEAN]
Mapped == [doc : Docs, attempt : Attempts \cup {0}]
Phases == {"idle", "locked", "mapping", "reducing", "publishing",
           "trimming", "requeueing", "following", "unlocking"}

\* Everything has its type.
WikiTypeOK ==
  /\ doc \in [Docs -> [status : Statuses, attempt : Attempts, text : Texts]]
  /\ post \in [Docs -> [pc : {"idle", "row", "trigger"}, attempt : Attempts]]
  /\ user \in [Docs -> [pc : {"idle", "clear", "reset", "scrub", "list", "strip",
                              "retract", "trigger"}, copy : SUBSET Docs, listed : BOOLEAN]]
  /\ \A k \in 1 .. Len(rows) : rows[k].key \in Key /\ rows[k].fails \in 0 .. MaxFails
  /\ triggers \in [0 .. MaxRetry -> Nat]
  /\ batch \in [Workers -> [pc : Phases, retried : 0 .. MaxRetry, again : BOOLEAN,
                  peeked : SUBSET Key, todo : SUBSET Key, adds : SUBSET Docs,
                  strips : SUBSET Docs, skipped : SUBSET Mapped, mapped : SUBSET Mapped,
                  failed : SUBSET Key, copy : Page]]
  /\ lock \in BOOLEAN /\ page \in Page
  /\ mishap \subseteq Mishaps /\ requests \in Nat /\ faults \in Nat

NoPage == [live |-> FALSE, refs |-> {}]
NoBatch == [pc |-> "idle", retried |-> 0, again |-> FALSE, peeked |-> {}, todo |-> {},
            adds |-> {}, strips |-> {}, skipped |-> {}, mapped |-> {}, failed |-> {},
            copy |-> NoPage]
NoRequest == [pc |-> "idle", copy |-> {}, listed |-> FALSE]

\* Uploaded documents whose parse is at its end; no wiki yet.
Init ==
  /\ setup \in Setups
  /\ requests = setup.requests /\ faults = setup.faults
  /\ \E text \in [Docs -> Texts] :
       /\ \A d \in Docs \ setup.docs : text[d] = "none"
       /\ doc = [d \in Docs |-> [status |-> IF d \in setup.docs THEN "processing" ELSE "gone",
                                 attempt |-> 1, text |-> text[d]]]
  /\ post = [d \in Docs |-> [pc |-> "idle", attempt |-> 1]]
  /\ user = [d \in Docs |-> NoRequest]
  /\ rows = <<>> /\ triggers = [n \in 0 .. MaxRetry |-> 0]
  /\ batch = [w \in Workers |-> NoBatch]
  /\ lock = FALSE /\ page = NoPage /\ mishap = {}

Note(kinds) == mishap' = mishap \cup kinds
Fault(kind) == kind \in setup.kinds /\ faults > 0 /\ faults' = faults - 1
Request(want) == want \in setup.wants /\ requests > 0 /\ requests' = requests - 1
calm == <<mishap, setup, requests, faults>>
bounds == <<setup, requests, faults>>
FaultOnly == UNCHANGED <<setup, requests>>

Row(op, d, attempt, listed) ==
  [key |-> [op |-> op, doc |-> d, attempt |-> attempt, listed |-> listed], fails |-> 0]
\* The rows that have none of these keys (SelectSeq, for the provers).
Without(some, keys) ==
  LET kept[k \in 0 .. Len(some)] ==
        IF k = 0 THEN <<>>
        ELSE IF some[k].key \in keys THEN kept[k - 1] ELSE Append(kept[k - 1], some[k])
  IN kept[Len(some)]
\* DeleteByDedupKey of the document's ingest rows; an error is only logged.
Scrubbed(d) == Without(rows, {key \in Key : key.op = "ingest" /\ key.doc = d})
Scrub(d) ==
  \/ rows' = Scrubbed(d) /\ UNCHANGED faults
  \/ Fault("database") /\ UNCHANGED rows
NewTrigger == triggers' = [triggers EXCEPT ![0] = @ + 1]

\* FinalizeSubtask of the wiki slots of documents: whoever holds one completes.
Released(docs) == [d \in Docs |-> IF d \in docs /\ doc[d].status = "finalizing"
                                  THEN [doc[d] EXCEPT !.status = "completed"] ELSE doc[d]]
\* It knows no attempt: it may release the slot of a newer one.
NoteOlder(done) ==
  IF \E m \in done : doc[m.doc].status = "finalizing" /\ doc[m.doc].attempt # m.attempt
  THEN {"older"} ELSE {}

-----------------------------------------------------------------------------
(* Post-processing, which queues the wiki op of a document                 *)

\* SetFinalizing (one post-processing of a document at a time: a bound).
PostFinalize(d) ==
  /\ post[d].pc = "idle"
  /\ doc[d].status = "processing"
  /\ doc' = [doc EXCEPT ![d].status = "finalizing"]
  /\ post' = [post EXCEPT ![d] = [pc |-> "row", attempt |-> doc[d].attempt]]
  /\ UNCHANGED <<user, rows, triggers, batch, lock, page, calm>>

\* EnqueueWikiIngest logs its failures and goes on.
PostRow(d) ==
  /\ post[d].pc = "row"
  /\ \/ rows' = Append(rows, Row("ingest", d, post[d].attempt, FALSE)) /\ UNCHANGED <<mishap, faults>>
     \/ Fault("database") /\ Note({"unstored"}) /\ UNCHANGED rows
  /\ post' = [post EXCEPT ![d].pc = "trigger"]
  /\ FaultOnly /\ UNCHANGED <<doc, user, triggers, batch, lock, page>>

PostTrigger(d) ==
  /\ post[d].pc = "trigger"
  /\ \/ NewTrigger /\ UNCHANGED <<mishap, faults>>
     \/ Fault("enqueue") /\ Note({"untriggered"}) /\ UNCHANGED triggers
  /\ post' = [post EXCEPT ![d].pc = "idle"]
  /\ FaultOnly /\ UNCHANGED <<doc, user, rows, batch, lock, page>>

-----------------------------------------------------------------------------
(* Users (one request at a time for a document: a bound)                   *)

\* prepareWikiForReparse scrubs the queued ingest rows ...
ReparseScrub(d) ==
  /\ user[d].pc = "idle" /\ doc[d].status # "gone"
  /\ doc[d].attempt + 1 \in Attempts
  /\ Request("reparse")
  /\ Scrub(d)
  /\ user' = [user EXCEPT ![d].pc = "clear"]
  /\ UNCHANGED <<doc, post, triggers, batch, lock, page, mishap, setup>>

\* ... cleanupKnowledgeResources removes the chunks ...
ReparseClear(d) ==
  /\ user[d].pc = "clear"
  /\ doc' = [doc EXCEPT ![d].text = "none"]
  /\ user' = [user EXCEPT ![d].pc = "reset"]
  /\ UNCHANGED <<post, rows, triggers, batch, lock, page, calm>>

\* ... and the row and the counter start again.  The new text is anything.
ReparseReset(d) ==
  /\ user[d].pc = "reset"
  /\ \E text \in Texts :
       doc' = [doc EXCEPT ![d] = [status |-> "processing", attempt |-> @.attempt + 1,
                                  text |-> text]]
  /\ user' = [user EXCEPT ![d] = NoRequest]
  /\ UNCHANGED <<post, rows, triggers, batch, lock, page, calm>>

CancelMark(d) ==
  /\ user[d].pc = "idle" /\ doc[d].status \in {"processing", "finalizing"}
  /\ Request("cancel")
  /\ doc' = [doc EXCEPT ![d].status = "cancelled"]
  /\ user' = [user EXCEPT ![d].pc = "scrub"]
  /\ UNCHANGED <<post, rows, triggers, batch, lock, page, mishap, setup, faults>>

CancelScrub(d) ==
  /\ user[d].pc = "scrub"
  /\ Scrub(d)
  /\ user' = [user EXCEPT ![d] = NoRequest]
  /\ FaultOnly /\ UNCHANGED <<doc, post, triggers, batch, lock, page, mishap>>

\* cleanupWikiOnKnowledgeDelete: the mark (or the tombstone, or the missing row:
\* isKnowledgeGone takes any of them) and the scrub, one step.  A knowledge base
\* that cannot be loaded is none: the document goes, the wiki is left alone ...
DeleteMark(d) ==
  /\ user[d].pc = "idle" /\ doc[d].status # "gone"
  /\ Request("delete")
  /\ doc' = [doc EXCEPT ![d].status = "gone"]
  /\ \/ Scrub(d) /\ user' = [user EXCEPT ![d].pc = "list"] /\ UNCHANGED mishap
     \/ Fault("config") /\ Note({"unscrubbed"}) /\ UNCHANGED <<rows, user>>
  /\ UNCHANGED <<post, triggers, batch, lock, page, setup>>

\* ... the pages that list the document (after an error, none) ...
DeleteList(d) ==
  /\ user[d].pc = "list"
  /\ \/ /\ user' = [user EXCEPT ![d] = IF page.live /\ d \in page.refs
                                       THEN [@ EXCEPT !.pc = "strip", !.copy = page.refs]
                                       ELSE [@ EXCEPT !.pc = "retract"]]
        /\ UNCHANGED faults
     \/ Fault("database") /\ user' = [user EXCEPT ![d].pc = "retract"]
  /\ FaultOnly /\ UNCHANGED <<doc, post, rows, triggers, batch, lock, page, mishap>>

\* ... are deleted, or saved without it, from the copy just read, or stay ...
DeleteStrip(d) ==
  LET remaining == user[d].copy \ {d}
      lost == page.refs \ (remaining \cup {d})
      ghosts == {e \in remaining \ page.refs : doc[e].status = "gone"}
  IN /\ user[d].pc = "strip"
     /\ \/ /\ page' = IF ~page.live THEN page
                      ELSE IF remaining = {} THEN NoPage ELSE [page EXCEPT !.refs = remaining]
           /\ user' = [user EXCEPT ![d].pc = "retract", ![d].listed = page.live]
           /\ Note(IF ~page.live THEN {}
                   ELSE (IF lost # {} \/ remaining \ page.refs # {} THEN {"unwritten"} ELSE {})
                        \cup (IF ghosts # {} THEN {"unretracted"} ELSE {}))
           /\ UNCHANGED faults
        \/ /\ Fault("database")
           /\ user' = [user EXCEPT ![d].pc = "retract"]
           /\ UNCHANGED <<page, mishap>>
     /\ FaultOnly /\ UNCHANGED <<doc, post, rows, triggers, batch, lock>>

\* ... and a retract row, whatever was found, does the rest.
DeleteRetract(d) ==
  /\ user[d].pc = "retract"
  /\ \/ /\ rows' = Append(rows, Row("retract", d, doc[d].attempt, user[d].listed))
        /\ UNCHANGED <<mishap, faults>>
     \/ Fault("database") /\ Note({"unstored"}) /\ UNCHANGED rows
  /\ user' = [user EXCEPT ![d].pc = "trigger"]
  /\ FaultOnly /\ UNCHANGED <<doc, post, triggers, batch, lock, page>>

DeleteTrigger(d) ==
  /\ user[d].pc = "trigger"
  /\ \/ NewTrigger /\ UNCHANGED <<mishap, faults>>
     \/ Fault("enqueue") /\ Note({"untriggered"}) /\ UNCHANGED triggers
  /\ user' = [user EXCEPT ![d] = NoRequest]
  /\ FaultOnly /\ UNCHANGED <<doc, post, rows, batch, lock, page>>

-----------------------------------------------------------------------------
(* The lock                                                                *)

Inside(w) == batch[w].pc \notin {"idle", "unlocking"}
Start(w, n) == batch' = [batch EXCEPT ![w] = [NoBatch EXCEPT !.pc = "locked", !.retried = n]]
Dequeued(n) == [triggers EXCEPT ![n] = @ - 1]

\* SetNX; when Redis does not answer the batch goes on without the lock.
Take(w, n) ==
  /\ w \in setup.workers /\ triggers[n] > 0 /\ batch[w].pc = "idle"
  /\ \/ ~lock /\ lock' = TRUE /\ UNCHANGED <<mishap, faults>>
     \/ Fault("redis") /\ Note({"unlocked"}) /\ UNCHANGED lock
  /\ triggers' = Dequeued(n)
  /\ Start(w, n)
  /\ FaultOnly /\ UNCHANGED <<doc, post, user, rows, page>>

\* Mutant: the deferred Del runs for a refused trigger, too.
LockFreed == FALSE
LockAfterRefusal == lock

\* Another batch holds the lock: nothing to do, or another try in 15 s.  The
\* last try comes after the TTL of a lock whose holder died.
Refused(n) ==
  LET again == rows # <<>> /\ n < MaxRetry
      next(k) == triggers[k] + (IF again /\ k = n + 1 THEN 1 ELSE 0)
  IN /\ triggers[n] > 0 /\ lock
     /\ n < MaxRetry \/ \E w \in Workers : batch[w].pc # "idle"
     /\ triggers' = [k \in 0 .. MaxRetry |-> IF k = n THEN triggers[k] - 1 ELSE next(k)]
     /\ lock' = LockAfterRefusal
     /\ Note(IF rows # <<>> /\ ~again /\ ~\E w \in Workers : Inside(w)
             THEN {"untriggered"} ELSE {})
     /\ UNCHANGED <<doc, post, user, rows, batch, page, bounds>>

\* The key's TTL runs out: its holder died, or does not renew it in time.
Expire ==
  /\ lock
  /\ \/ (\A w \in Workers : batch[w].pc = "idle") /\ UNCHANGED <<mishap, faults>>
     \/ Fault("expire") /\ Note({"unlocked"})
  /\ lock' = FALSE
  /\ FaultOnly /\ UNCHANGED <<doc, post, user, rows, triggers, batch, page>>

MayRetry(b) == b.retried < MaxRetry
\* asynq retries the task of a batch, or archives it.
Again(b) == IF MayRetry(b) THEN [triggers EXCEPT ![b.retried + 1] = @ + 1] ELSE triggers
NoteLast(b) == IF MayRetry(b) THEN {} ELSE {"untriggered"}

\* The handler returns; Del takes the key, whoever set it.
Unlock(w) ==
  LET b == batch[w]
  IN /\ b.pc = "unlocking"
     /\ lock' = FALSE
     /\ triggers' = IF b.again THEN Again(b) ELSE triggers
     /\ Note(IF b.again THEN NoteLast(b) ELSE {})
     /\ batch' = [batch EXCEPT ![w] = NoBatch]
     /\ UNCHANGED <<doc, post, user, rows, page, bounds>>

\* The worker dies; the key stays until its TTL runs out.
Crash(w) ==
  /\ batch[w].pc # "idle" /\ Fault("crash")
  /\ triggers' = Again(batch[w])
  /\ Note(NoteLast(batch[w]))
  /\ batch' = [batch EXCEPT ![w] = NoBatch]
  /\ FaultOnly /\ UNCHANGED <<doc, post, user, rows, lock, page>>

-----------------------------------------------------------------------------
(* The batch: ProcessWikiIngest                                            *)

Set(w, b) == batch' = [batch EXCEPT ![w] = b]
Leave(w, again) == Set(w, [batch[w] EXCEPT !.pc = "unlocking", !.again = again])

\* The knowledge base, its wiki settings or its model cannot be had.
Misconfigured(w) ==
  /\ batch[w].pc = "locked"
  /\ Fault("config")
  /\ Leave(w, TRUE)
  /\ FaultOnly /\ UNCHANGED <<doc, post, user, rows, triggers, lock, page, mishap>>

\* The last one is kept.
LastOnly(keys, k) == ~\E j \in k + 1 .. Len(keys) : keys[j].doc = keys[k].doc

\* peekPendingList: the oldest rows, of each document the last.  Nothing, or an
\* error, ends the batch without a follow-up.
Peek(w) ==
  LET some == SubSeq(rows, 1, IF Len(rows) < BatchSize THEN Len(rows) ELSE BatchSize)
      keys == [k \in 1 .. Len(some) |-> some[k].key]
      kept == {keys[k] : k \in {k \in 1 .. Len(keys) : LastOnly(keys, k)}}
      dropped == {keys[k] : k \in 1 .. Len(keys)} \ kept
  IN /\ batch[w].pc = "locked"
     /\ \/ /\ IF keys = <<>> THEN Leave(w, FALSE)
              ELSE Set(w, [batch[w] EXCEPT !.pc = "mapping", !.todo = kept,
                                           !.peeked = kept \cup dropped])
           /\ Note(IF \E r \in dropped : r.op = "retract" THEN {"unretracted"} ELSE {})
           /\ UNCHANGED faults
        \/ Fault("database") /\ Note({"untriggered"}) /\ Leave(w, FALSE)
     /\ FaultOnly /\ UNCHANGED <<doc, post, user, rows, triggers, lock, page>>

\* Mutant: only the pages known when the retract was queued.
ListedThen(r) == r.listed
\* And those that list the document now.
Listed(r) == r.listed \/ (page.live /\ r.doc \in page.refs)

MapRetract(w) ==
  /\ batch[w].pc = "mapping"
  /\ \E r \in batch[w].todo :
       /\ r.op = "retract"
       /\ \/ /\ Set(w, [batch[w] EXCEPT !.todo = @ \ {r},
                          !.strips = IF Listed(r) THEN @ \cup {r.doc} ELSE @])
             /\ UNCHANGED <<mishap, faults>>
          \/ /\ Fault("database") /\ Note({"unretracted"})
             /\ Set(w, [batch[w] EXCEPT !.todo = @ \ {r},
                          !.strips = IF r.listed THEN @ \cup {r.doc} ELSE @])
  /\ FaultOnly /\ UNCHANGED <<doc, post, user, rows, triggers, lock, page>>

Gone(d) == doc[d].status \in {"gone", "cancelled"}
NoText(d) == [text |-> "none", done |-> [doc |-> d, attempt |-> doc[d].attempt]]
\* What mapOneDocument may read: while a parse is at work, anything.
Reads(d) ==
  IF Gone(d) THEN {NoText(d)}
  ELSE IF doc[d].status = "processing"
  THEN [text : Texts, done : {[doc |-> d, attempt |-> 0]}]
  ELSE {[text |-> doc[d].text, done |-> [doc |-> d, attempt |-> doc[d].attempt]]}

\* Mutant: the slot is released as soon as the document is mapped.
SlotIsFree(text) == TRUE
\* A document without text has nothing to write: its slot is released at once.
Skipped(text) == text = "none"

\* What reading the document comes to; listed: the page was found to name it.
MapTo(w, r, read, listed) ==
  Set(w, [batch[w] EXCEPT !.todo = @ \ {r},
    !.skipped = IF Skipped(read.text) THEN @ \cup {read.done} ELSE @,
    !.mapped = IF read.text # "none" THEN @ \cup {read.done} ELSE @,
    !.adds = IF read.text = "mentions" THEN @ \cup {r.doc} ELSE @,
    !.strips = IF read.text # "none" /\ listed THEN @ \cup {r.doc} ELSE @])

\* mapOneDocument: a page that lists the document loses the reference, and gets
\* it again if the new text still mentions its subject.  A document whose row
\* cannot be read counts as gone; pages that cannot be listed do not lose it.
MapIngest(w) ==
  /\ batch[w].pc = "mapping"
  /\ \E r \in batch[w].todo :
       /\ r.op = "ingest"
       /\ \/ /\ \E read \in Reads(r.doc) : MapTo(w, r, read, page.live /\ r.doc \in page.refs)
             /\ UNCHANGED <<mishap, faults>>
          \/ /\ Fault("database") /\ Note({"unread"})
             /\ \E read \in Reads(r.doc) \cup {NoText(r.doc)} : MapTo(w, r, read, FALSE)
  /\ FaultOnly /\ UNCHANGED <<doc, post, user, rows, triggers, lock, page>>

\* The LLM, or reading the chunks, fails.
MapFails(w) ==
  /\ batch[w].pc = "mapping"
  /\ \E r \in batch[w].todo :
       /\ r.op = "ingest"
       /\ Fault("map")
       /\ Set(w, [batch[w] EXCEPT !.todo = @ \ {r}, !.failed = @ \cup {r}])
  /\ FaultOnly /\ UNCHANGED <<doc, post, user, rows, triggers, lock, page, mishap>>

DrainSkipped(w) ==
  /\ batch[w].pc = "mapping"
  /\ \E done \in batch[w].skipped :
       /\ doc' = Released({done.doc})
       /\ Note(NoteOlder({done}))
       /\ Set(w, [batch[w] EXCEPT !.skipped = @ \ {done}])
  /\ UNCHANGED <<post, user, rows, triggers, lock, page, bounds>>

\* With these documents to add, and the page as it was found.
Reduce(w, adds, copy) ==
  LET b == batch[w]
      idle == IF copy.live THEN adds \cup b.strips = {} ELSE adds = {}
  IN Set(w, IF idle THEN [b EXCEPT !.pc = "publishing"]
            ELSE [b EXCEPT !.pc = "reducing", !.adds = adds, !.copy = copy])

\* reduceSlugUpdates: filterLiveUpdates, and the page.  A document or page that
\* cannot be read counts as gone, too.
ReduceRead(w) ==
  LET live == {d \in batch[w].adds : ~Gone(d)}
  IN /\ batch[w].pc = "mapping" /\ batch[w].todo = {} /\ batch[w].skipped = {}
     /\ \/ Reduce(w, live, page) /\ UNCHANGED <<mishap, faults>>
        \/ /\ Fault("database")
           /\ \/ Note({"unread"}) /\ \E seen \in SUBSET live : Reduce(w, seen, page)
              \/ Note({"unread", "unretracted"}) /\ Reduce(w, live, NoPage)
     /\ FaultOnly /\ UNCHANGED <<doc, post, user, rows, triggers, lock, page>>

\* After the LLM's answer UpdatePage saves the page, if it is still there, and
\* CreatePage makes one, if there is none; their errors are only logged.
ReduceWrite(w) ==
  LET b == batch[w]
  IN /\ b.pc = "reducing"
     /\ \/ /\ b.copy.live = page.live
           /\ page' = [live |-> TRUE, refs |-> (b.copy.refs \ b.strips) \cup b.adds]
           /\ UNCHANGED <<mishap, faults>>
        \/ /\ b.copy.live # page.live
           /\ Note(IF b.adds # {} THEN {"unwritten"} ELSE {})
           /\ UNCHANGED <<page, faults>>
        \/ Fault("page") /\ Note({"unwritten", "unretracted"}) /\ UNCHANGED page
     /\ Set(w, [b EXCEPT !.pc = "publishing"])
     /\ FaultOnly /\ UNCHANGED <<doc, post, user, rows, triggers, lock>>

\* The mapped documents' slots (one step: each is another row).
DrainMapped(w) ==
  /\ batch[w].pc = "publishing"
  /\ doc' = Released({m.doc : m \in batch[w].mapped})
  /\ Note(NoteOlder(batch[w].mapped))
  /\ Set(w, [batch[w] EXCEPT !.pc = "trimming"])
  /\ UNCHANGED <<post, user, rows, triggers, lock, page, bounds>>

\* Mutant: the failed rows go, too.
AllPeeked(b) == b.peeked
TrimIds(b) == b.peeked \ b.failed

\* Rows that cannot be trimmed come again.
Trim(w) ==
  /\ batch[w].pc = "trimming"
  /\ \/ rows' = Without(rows, TrimIds(batch[w])) /\ UNCHANGED faults
     \/ Fault("database") /\ UNCHANGED rows
  /\ Set(w, [batch[w] EXCEPT !.pc = "requeueing"])
  /\ FaultOnly /\ UNCHANGED <<doc, post, user, triggers, lock, page, mishap>>

\* Mutant: one failure too many.
SpentLate(r) == r.fails > MaxFails
Spent(r) == r.fails = MaxFails

\* requeueFailedOps: a row that failed too often is dropped and its slot released.
\* A row that cannot be counted stays as it is, one that cannot be dropped stays
\* spent (its count, which only grows, ends at MaxFails here).
Requeue(w) ==
  LET failed == {k \in 1 .. Len(rows) : rows[k].key \in batch[w].failed}
      dead == {rows[k].key : k \in {k \in failed : Spent(rows[k])}}
  IN /\ batch[w].pc = "requeueing"
     /\ \/ /\ rows' = LET counted == [k \in 1 .. Len(rows) |->
                             IF k \in failed THEN [rows[k] EXCEPT !.fails = @ + 1] ELSE rows[k]]
                      IN Without(counted, dead)
           /\ doc' = Released({r.doc : r \in dead})
           /\ Note((IF dead # {} THEN {"unwritten"} ELSE {}) \cup NoteOlder(dead))
           /\ UNCHANGED faults
        \/ Fault("database") /\ UNCHANGED <<rows, doc, mishap>>
        \/ /\ Fault("database") /\ UNCHANGED rows
           /\ doc' = Released({r.doc : r \in dead})
           /\ Note((IF dead # {} THEN {"unwritten"} ELSE {}) \cup NoteOlder(dead))
     /\ Set(w, [batch[w] EXCEPT !.pc = "following"])
     /\ FaultOnly /\ UNCHANGED <<post, user, triggers, lock, page>>

\* scheduleFollowUp
Follow(w) ==
  /\ batch[w].pc = "following"
  /\ \/ triggers' = (IF rows = <<>> THEN triggers ELSE [triggers EXCEPT ![0] = @ + 1])
        /\ UNCHANGED <<mishap, faults>>
     \/ /\ Fault("database") \/ Fault("enqueue")
        /\ Note({"untriggered"})
        /\ UNCHANGED triggers
  /\ Leave(w, FALSE)
  /\ FaultOnly /\ UNCHANGED <<doc, post, user, rows, lock, page>>

-----------------------------------------------------------------------------
PostStep(d) == PostRow(d) \/ PostTrigger(d)
UserStep(d) ==
  \/ ReparseClear(d) \/ ReparseReset(d) \/ CancelScrub(d)
  \/ DeleteList(d) \/ DeleteStrip(d) \/ DeleteRetract(d) \/ DeleteTrigger(d)
BatchStep(w) ==
  \/ Peek(w) \/ MapRetract(w) \/ MapIngest(w) \/ DrainSkipped(w)
  \/ ReduceRead(w) \/ ReduceWrite(w) \/ DrainMapped(w)
  \/ Trim(w) \/ Requeue(w) \/ Follow(w) \/ Unlock(w)
TriggerStep ==
  \E n \in 0 .. MaxRetry : Refused(n) \/ \E w \in Workers : Take(w, n)

Next ==
  \/ \E d \in Docs : \/ PostFinalize(d) \/ PostStep(d) \/ UserStep(d)
                     \/ ReparseScrub(d) \/ CancelMark(d) \/ DeleteMark(d)
  \/ TriggerStep \/ Expire
  \/ \E w \in Workers : BatchStep(w) \/ Misconfigured(w) \/ MapFails(w) \/ Crash(w)

\* What has begun goes on, queued triggers are taken, TTLs run out.
Fairness ==
  /\ \A d \in Docs : WF_vars(PostStep(d)) /\ WF_vars(UserStep(d))
  /\ WF_vars(TriggerStep) /\ WF_vars(Expire)
  /\ \A w \in Workers : WF_vars(BatchStep(w))

Spec == Init /\ [][Next]_vars /\ Fairness

-----------------------------------------------------------------------------
(* Properties                                                              *)

Excused(kinds) == mishap \cap kinds # {}
AtRest == \A w \in Workers : batch[w].pc = "idle"

\* Of one knowledge base, one batch at a time, crashes, retries and refused
\* triggers included (the active-batch lock of ProcessWikiIngest).
OneBatch ==
  \/ Excused({"unlocked"})
  \/ \A v, w \in Workers : Inside(v) /\ Inside(w) => v = w

\* When a delete is over and its rows are worked off, no page names the document,
\* although a batch may have been writing it all the while
\* (cleanupWikiOnKnowledgeDelete and the retract's lookup).
NoGhost ==
  \/ Excused({"unstored", "unlocked", "unretracted", "unscrubbed"})
  \/ \A d \in Docs :
       (/\ doc[d].status = "gone" /\ user[d].pc = "idle" /\ AtRest
        /\ \A k \in 1 .. Len(rows) : rows[k].key.doc # d)
       => d \notin page.refs

\* A document is "completed" only when its wiki is fully written: the page names
\* it if its text mentions the page's subject, and else does not, whatever an
\* earlier text said (the drain after publish, and the replace of a re-parse).
CompletedIsWritten ==
  \/ Excused({"unlocked", "unwritten", "unread", "older"})
  \/ \A d \in Docs : doc[d].status = "completed" /\ doc[d].text # "none"
                     => (d \in page.refs <=> doc[d].text = "mentions")

\* Every row is worked off and every slot released, over crashes, failed maps,
\* refused triggers and failed trims, as long as each row is stored and some
\* trigger for what is left is not lost for good (scheduleFollowUp).
Drains ==
  <>[](\/ Excused({"unstored", "untriggered"})
       \/ rows = <<>> /\ \A d \in Docs : doc[d].status # "finalizing")
=============================================================================
