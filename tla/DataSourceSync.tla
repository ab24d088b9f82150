------------------------------ MODULE DataSourceSync ------------------------------
(***************************************************************************)
(* The scheduled synchronisation of one external data source into a        *)
(* knowledge base.  On every instance a cron entry fires each minute; the  *)
(* instances agree on one sync through the sync logs (a running log means  *)
(* skip) and a task id made of the minute.  A sync fetches what changed    *)
(* since the source's cursor, replaces each changed document and moves the *)
(* cursor.  Users pause, resume, delete and sync by hand meanwhile.        *)
(***************************************************************************)
EXTENDS Integers, Sequences, FiniteSets

CONSTANTS
  Instances,    \* backend replicas
  Syncs,        \* sync logs with their tasks that exist at a time (bound)
  Items,        \* external items of the source
  MaxChanges,   \* changes of items in a behaviour (bound)
  MaxRetry,     \* retries of a sync task
  Faults,       \* what can go wrong
  Requests,     \* what users ask for
  Setups        \* the instances that have a cron entry at first, and how many
                \* faults and requests come in a behaviour (bounds)

FaultKinds == {"fetch",    \* the connector fails
               "ingest",   \* an old document cannot be deleted, or a new one created
               "enqueue",  \* a task cannot be enqueued
               "database", \* a row or a log cannot be read or written
               "url",      \* an item comes with its URL only (no failure of ours)
               "crash"}    \* an instance dies and starts again

\* History of what weakens the protection against overlapping syncs, or
\* leaves one of them unfinished.
Causes == {"manual",   \* a manual sync, which looks at no log
           "late",     \* a trigger enqueued in a later minute than it checked in
           "retry",    \* a failed sync is retried, its log no longer running
           "blind",    \* the logs could not be read, and so none seemed to be running
           "reset"}    \* a start-up failed the log of a sync that goes on
Mishaps == Causes \cup {"overlap",  \* a sync began while another was at work
                        "orphan",   \* an instance died between a log and its task
                        "lost",     \* a task died with its last worker
                        "unlogged", \* a log that was over could not be read or written
                        "ahead",    \* an old copy of the row put the cursor forward again
                        "failed",   \* an old document stayed, or an item was passed over
                        "link",     \* an item was stored by its URL, without its id
                        "skipped"}  \* an item was passed over: its URL was there already

ASSUME SyncAssumption ==
  /\ Instances # {} /\ IsFiniteSet(Syncs) /\ "no sync" \notin Syncs
  /\ MaxChanges \in Nat /\ MaxRetry \in Nat
  /\ Faults \subseteq FaultKinds
  /\ Requests \subseteq {"pause", "resume", "delete", "manual"}
  /\ Setups \subseteq [entries : SUBSET Instances, faults : Nat, requests : Nat]

VARIABLES
  source,   \* the data source row
  feed,     \* the external system: its changes, in order
  docs,     \* documents in the knowledge base: item, version, and whether it
            \* was made from the item's URL
  sync,     \* sync[s]: a sync log (is it running?) and its datasource:sync task
  entry,    \* entry[i]: instance i has a cron entry for the source
  ticked,   \* ticked[i]: the entry has fired this minute
  trigger,  \* trigger[i]: triggerSync, or ManualSync, on instance i
  user,     \* a pause, resume or delete request
  mishap,   \* history
  faults, requests   \* how many may still come

counts == <<mishap, faults, requests>>
vars == <<source, feed, docs, sync, entry, ticked, trigger, user, counts>>

Positions == 0 .. MaxChanges
Ingesting == {"ingesting", "creating", "fetched nothing"}
Working == Ingesting \cup {"saving"}
NoSync == "no sync"
Doc == [item : Items, version : 1 .. MaxChanges, link : BOOLEAN]
Copy == [status : {"active", "paused", "error"}, cursor : Positions]

\* Everything has its type.
SyncTypeOK ==
  /\ source \in [status : {"active", "paused", "error"}, cursor : Positions, live : BOOLEAN]
  /\ feed \in Seq(Items) /\ Len(feed) <= MaxChanges
  /\ docs \subseteq Doc
  /\ sync \in [Syncs -> [running : BOOLEAN, pc : {"none", "queued"} \cup Working,
                         fresh : BOOLEAN,
                         retried : 0 .. MaxRetry, copy : Copy,
                         until : Positions, todo : SUBSET Items, failed : SUBSET Items,
                         stored : BOOLEAN, outcome : {"success", "failed", "unfetched"}]]
  /\ entry \in [Instances -> BOOLEAN] /\ ticked \in [Instances -> BOOLEAN]
  /\ trigger \in [Instances -> [pc : {"idle", "checked", "logged"},
                                manual : BOOLEAN, late : BOOLEAN, copy : Copy,
                                sync : Syncs \cup {NoSync}]]
  /\ user \in [pc : {"idle", "loaded", "written"}, want : {"pause", "resume", "delete"}, copy : Copy]
  /\ mishap \subseteq Mishaps /\ faults \in Nat /\ requests \in Nat

Blank == [status |-> "active", cursor |-> 0]
NoTask == [running |-> FALSE, pc |-> "none", fresh |-> FALSE, retried |-> 0, copy |-> Blank,
           until |-> 0, todo |-> {}, failed |-> {}, stored |-> FALSE,
           outcome |-> "success"]
MayRetry(t) == t.retried < MaxRetry
\* The task of t has ended, or asynq retries it.
Over(t) == [NoTask EXCEPT !.running = t.running]
Again(t) == [NoTask EXCEPT !.running = t.running, !.pc = "queued", !.fresh = t.fresh,
                                !.retried = t.retried + 1]
NoTrigger == [pc |-> "idle", manual |-> FALSE, late |-> FALSE, copy |-> Blank, sync |-> NoSync]
NoRequest == [pc |-> "idle", want |-> "pause", copy |-> Blank]

\* An active source, registered by the schedulers that started since it was
\* created, and by the instance that created it.
Init ==
  /\ source = [status |-> "active", cursor |-> 0, live |-> TRUE]
  /\ feed = <<>> /\ docs = {}
  /\ sync = [s \in Syncs |-> NoTask]
  /\ ticked = [i \in Instances |-> FALSE]
  /\ trigger = [i \in Instances |-> NoTrigger]
  /\ user = NoRequest
  /\ mishap = {}
  /\ \E setup \in Setups : /\ entry = [i \in Instances |-> i \in setup.entries]
                           /\ faults = setup.faults /\ requests = setup.requests

Loaded == [status |-> source.status, cursor |-> source.cursor]

Note(kinds) == mishap' = mishap \cup kinds
Ahead == IF source'.cursor > source.cursor THEN {"ahead"} ELSE {}
NoteAhead == Note(Ahead)
Fault(kind) == kind \in Faults /\ faults > 0 /\ faults' = faults - 1
Request(kind) == kind \in Requests /\ requests > 0 /\ requests' = requests - 1

\* An update from a copy of the row; GORM skips the cursor when it is empty.
Saved(copy) == [source EXCEPT !.status = copy.status,
                              !.cursor = IF copy.cursor = 0 THEN @ ELSE copy.cursor]

\* The version of an item after the first n changes; 0: it does not exist yet.
Version(e, n) ==
  LET changes == {k \in 1 .. n : feed[k] = e}
  IN IF changes = {} THEN 0 ELSE CHOOSE k \in changes : \A j \in changes : j <= k

-----------------------------------------------------------------------------
(* The scheduler                                                           *)

HasRunningSync == \E s \in Syncs : sync[s].running

\* cron fires every entry at the full minute; triggerSync reads the source and
\* the logs (nothing is lost if the two reads are one step: it may come late).
\* A source that cannot be read is skipped; logs that cannot be read are taken
\* for none running, for the error is dropped.
Tick(i) ==
  /\ entry[i] /\ ~ticked[i]
  /\ trigger[i].pc = "idle"
  /\ ticked' = [ticked EXCEPT ![i] = TRUE]
  /\ \/ /\ trigger' = [trigger EXCEPT ![i].pc =
                          IF source.live /\ source.status = "active" /\ ~HasRunningSync
                          THEN "checked" ELSE @]
        /\ UNCHANGED <<mishap, faults>>
     \/ /\ source.live /\ source.status = "active" /\ HasRunningSync
        /\ Fault("database")
        /\ trigger' = [trigger EXCEPT ![i].pc = "checked"]
        /\ Note({"blind"})
     \/ Fault("database") /\ UNCHANGED <<trigger, mishap>>
  /\ UNCHANGED <<source, feed, docs, sync, entry, user, requests>>

NewMinute ==
  /\ \A i \in Instances : entry[i] => ticked[i]
  /\ ticked' = [i \in Instances |-> FALSE]
  /\ sync' = [s \in Syncs |-> [sync[s] EXCEPT !.fresh = FALSE]]
  /\ trigger' = [i \in Instances |-> [trigger[i] EXCEPT
                   !.late = @ \/ (~trigger[i].manual /\ trigger[i].pc # "idle")]]
  /\ UNCHANGED <<source, feed, docs, entry, user, counts>>

\* ManualSync: any source that exists, whatever its logs say.
ManualSync(i) ==
  /\ Request("manual")
  /\ trigger[i].pc = "idle"
  /\ source.live
  /\ trigger' = [trigger EXCEPT ![i] = [NoTrigger EXCEPT !.pc = "checked", !.manual = TRUE,
                                                        !.copy = Loaded]]
  /\ Note({"manual"})
  /\ UNCHANGED <<source, feed, docs, sync, entry, ticked, user, faults>>

\* A log that is over makes room for a new one.
Free(s) == sync[s].pc = "none" /\ ~sync[s].running
           /\ \A i \in Instances : trigger[i].sync # s

\* The log is created; a trigger that cannot create it gives up.
TriggerLog(i) ==
  /\ trigger[i].pc = "checked"
  /\ \/ /\ \E s \in Syncs :
             /\ Free(s)
             /\ sync' = [sync EXCEPT ![s] = [NoTask EXCEPT !.running = TRUE]]
             /\ trigger' = [trigger EXCEPT ![i].pc = "logged", ![i].sync = s]
        /\ UNCHANGED faults
     \/ /\ Fault("database")
        /\ trigger' = [trigger EXCEPT ![i] = NoTrigger]
        /\ UNCHANGED sync
  /\ UNCHANGED <<source, feed, docs, entry, ticked, user, mishap, requests>>

\* Mutant: the instances' task ids differ.
TaskIdFree == FALSE
\* A task of the same minute that has not ended holds the id.
TaskIdTaken == \E s \in Syncs : sync[s].fresh /\ sync[s].pc # "none"

\* The task of instance i's trigger is queued; a scheduled one under the
\* minute's id.
TriggerEnqueue(i) ==
  /\ trigger[i].pc = "logged"
  /\ trigger[i].manual \/ ~TaskIdTaken
  /\ sync' = [sync EXCEPT ![trigger[i].sync].pc = "queued",
                          ![trigger[i].sync].fresh = ~trigger[i].manual]
  /\ Note(IF trigger[i].late THEN {"late"} ELSE {})
  /\ trigger' = [trigger EXCEPT ![i] = NoTrigger]
  /\ UNCHANGED <<source, feed, docs, entry, ticked, user, faults, requests>>

\* Mutant: the log of a trigger without a task stays as it is.
CloseNothing(s) == UNCHANGED sync
\* "canceled" or "failed"
CloseLog(s) == sync' = [sync EXCEPT ![s].running = FALSE]

\* Another instance was first in this minute.  The error of an update of the
\* log is dropped, here and wherever a log is closed.
TriggerConflict(i) ==
  /\ trigger[i].pc = "logged" /\ ~trigger[i].manual /\ TaskIdTaken
  /\ \/ CloseLog(trigger[i].sync) /\ UNCHANGED <<mishap, faults>>
     \/ Fault("database") /\ Note({"unlogged"}) /\ UNCHANGED sync
  /\ trigger' = [trigger EXCEPT ![i] = NoTrigger]
  /\ UNCHANGED <<source, feed, docs, entry, ticked, user, requests>>

\* Redis refuses the task.  ManualSync saves its copy of the source as well.
\* The database may fail as Redis did: either write may have no effect.
TriggerRefused(i) ==
  /\ trigger[i].pc = "logged"
  /\ Fault("enqueue")
  /\ source' \in
       IF ~trigger[i].manual THEN {source}
       ELSE {Saved([trigger[i].copy EXCEPT !.status = IF @ = "paused" THEN @ ELSE "error"])}
            \cup (IF "database" \in Faults THEN {source} ELSE {})
  /\ \/ CloseLog(trigger[i].sync) /\ NoteAhead
     \/ "database" \in Faults /\ UNCHANGED sync /\ Note(Ahead \cup {"unlogged"})
  /\ trigger' = [trigger EXCEPT ![i] = NoTrigger]
  /\ UNCHANGED <<feed, docs, entry, ticked, user, requests>>

-----------------------------------------------------------------------------
(* The sync: ProcessSync                                                   *)

SyncOnly(s) == UNCHANGED <<source, feed, entry, ticked, trigger, user, requests>>

Overlap == IF \E t \in Syncs : sync[t].pc \in Working THEN {"overlap"} ELSE {}

LogLost(s) == IF sync[s].running THEN {"unlogged"} ELSE {}

\* The task of a deleted source ends at once and closes its log; a source, or
\* its knowledge base, that cannot be read is taken for deleted.  A log that
\* cannot be read or written stays as it is, and the task ends all the same.
SyncGone(s) ==
  /\ sync[s].pc = "queued"
  /\ \/ /\ IF source.live THEN Fault("database") ELSE UNCHANGED faults
        /\ sync' = [sync EXCEPT ![s] = NoTask]
        /\ UNCHANGED mishap
     \/ /\ Fault("database")
        /\ sync' = [sync EXCEPT ![s] = Over(sync[s])]
        /\ Note(LogLost(s))
  /\ UNCHANGED docs /\ SyncOnly(s)

\* The handler copies the row and fetches what changed after its cursor (one
\* step: the row's later changes do not reach the copy, whenever the fetch is).
\* The log of a retry is not set back to "running".
FetchIncremental(s) ==
  /\ sync[s].pc = "queued"
  /\ source.live
  /\ \/ /\ sync' = [sync EXCEPT ![s].pc = "ingesting", ![s].copy = Loaded, ![s].until = Len(feed),
                                ![s].todo = {feed[k] : k \in source.cursor + 1 .. Len(feed)}]
        /\ UNCHANGED faults
     \/ /\ Fault("fetch")
        /\ sync' = [sync EXCEPT ![s].pc = "fetched nothing", ![s].copy = Loaded]
  /\ Note(Overlap)
  /\ UNCHANGED docs /\ SyncOnly(s)

\* The items in the order of the fetch, oldest change first.
NextItem(s) == CHOOSE e \in sync[s].todo :
                 \A f \in sync[s].todo : Version(e, sync[s].until) <= Version(f, sync[s].until)

\* Mutant: the existing document of the item is not looked for.
FindNothing(e) == {{}}
\* One document that bears the item's id, if there is any.
FindByMetadataKey(e) == LET found == {d \in docs : d.item = e /\ ~d.link}
                        IN IF found = {} THEN {{}} ELSE {{d} : d \in found}

\* ingestItem deletes the item's document; a failure is only logged.
IngestDelete(s) ==
  /\ sync[s].pc = "ingesting" /\ sync[s].todo # {}
  /\ \/ \E old \in FindByMetadataKey(NextItem(s)) : docs' = docs \ old /\ UNCHANGED <<mishap, faults>>
     \/ Fault("ingest") /\ Note({"failed"}) /\ UNCHANGED docs
  /\ sync' = [sync EXCEPT ![s].pc = "creating"]
  /\ SyncOnly(s)

\* Then it creates one of the new version, under the item's id.  One with that
\* content is a duplicate and skipped.
CreateFromFile(e, v) ==
  /\ docs' = docs \cup {[item |-> e, version |-> v, link |-> FALSE]}
  /\ UNCHANGED <<mishap, faults>>

\* An item without content is stored by its URL, without its id; one whose URL
\* is there already is skipped.  Where one item comes so, more may.
CreateFromURL(e, v) ==
  /\ "url" \in Faults
  /\ IF "link" \in mishap THEN UNCHANGED faults ELSE Fault("url")
  /\ IF \E d \in docs : d.item = e /\ d.link
     THEN UNCHANGED docs /\ Note({"skipped"})
     ELSE docs' = docs \cup {[item |-> e, version |-> v, link |-> TRUE]} /\ Note({"link"})

IngestCreate(s) ==
  LET e == NextItem(s)
      v == Version(e, sync[s].until)
      next == [sync[s] EXCEPT !.pc = "ingesting", !.todo = @ \ {e}]
  IN /\ sync[s].pc = "creating"
     /\ \/ /\ CreateFromFile(e, v) \/ CreateFromURL(e, v)
           /\ sync' = [sync EXCEPT ![s] = [next EXCEPT !.stored = TRUE]]
        \/ /\ Fault("ingest")
           /\ sync' = [sync EXCEPT ![s] = [next EXCEPT !.failed = @ \cup {e}]]
           /\ UNCHANGED <<docs, mishap>>
     /\ SyncOnly(s)

AllItemsFailed(t) == t.failed # {} /\ ~t.stored

Outcome(t) == IF t.pc = "fetched nothing" THEN "unfetched"
              ELSE IF AllItemsFailed(t) THEN "failed" ELSE "success"

\* updateSyncRunResult: first the log, whatever it says by now (a failed write
\* leaves it) ...
SyncLog(s) ==
  /\ \/ sync[s].pc = "ingesting" /\ sync[s].todo = {}
     \/ sync[s].pc = "fetched nothing"
  /\ \/ /\ sync' = [sync EXCEPT ![s].running = FALSE, ![s].pc = "saving",
                                ![s].outcome = Outcome(sync[s])]
        /\ UNCHANGED <<mishap, faults>>
     \/ /\ Fault("database")
        /\ sync' = [sync EXCEPT ![s].pc = "saving", ![s].outcome = Outcome(sync[s])]
        /\ Note(LogLost(s))
  /\ UNCHANGED docs /\ SyncOnly(s)

\* Mutant: the row gets the status of the log.
StatusOfLog(t) == t.outcome
StatusAfter(t) ==
  IF t.copy.status = "paused" THEN "paused"
  ELSE IF t.outcome = "success" THEN "active" ELSE "error"

\* Mutant: the cursor moves to the end of the feed as it is now.
CursorNow(t) == Len(feed)
\* UpdateSyncState writes any cursor, Update (after a failed fetch) no empty one.
CursorAfter(t) ==
  IF t.outcome = "success" THEN t.until
  ELSE IF t.outcome = "unfetched" THEN Saved(t.copy).cursor ELSE t.copy.cursor

\* ... and then the row, if the database lets it.  A failed sync's task is
\* retried or archived.
SyncSave(s) ==
  LET t == sync[s]
      again == t.outcome # "success" /\ MayRetry(t)
  IN /\ t.pc = "saving"
     /\ \/ /\ source' = [source EXCEPT !.status = StatusAfter(t), !.cursor = CursorAfter(t)]
           /\ UNCHANGED faults
        \/ Fault("database") /\ UNCHANGED source
     /\ sync' = [sync EXCEPT ![s] = IF again THEN Again(t) ELSE Over(t)]
     /\ Note((IF again THEN {"retry"} ELSE {})
             \cup (IF t.outcome = "success" /\ t.failed # {} THEN {"failed"} ELSE {}))
     /\ UNCHANGED <<feed, docs, entry, ticked, trigger, user, requests>>

-----------------------------------------------------------------------------
(* Users, the external system, crashes                                     *)

\* Pause, resume and delete read the row first ...
UserLoad(want) ==
  /\ user.pc = "idle"
  /\ Request(want)
  /\ source.live
  /\ user' = [pc |-> "loaded", want |-> want, copy |-> Loaded]
  /\ UNCHANGED <<source, feed, docs, sync, entry, ticked, trigger, mishap, faults>>

\* ... then write it: pause and resume from the copy, a stale cursor included.
UserWrite ==
  /\ user.pc = "loaded"
  /\ source' = CASE user.want = "pause"  -> Saved([user.copy EXCEPT !.status = "paused"])
                 [] user.want = "resume" -> Saved([user.copy EXCEPT !.status = "active"])
                 [] user.want = "delete" -> [source EXCEPT !.live = FALSE]
  /\ NoteAhead
  /\ user' = [user EXCEPT !.pc = "written"]
  /\ UNCHANGED <<feed, docs, sync, entry, ticked, trigger, faults, requests>>

\* The cron entry changes on the instance that answers only; a delete then
\* cancels the running logs (one step: nothing sees one without the other).
UserEnd ==
  /\ user.pc = "written"
  /\ \E i \in Instances : entry' = [entry EXCEPT ![i] = user.want = "resume"]
  /\ sync' = IF user.want # "delete" THEN sync
             ELSE [s \in Syncs |-> [sync[s] EXCEPT !.running = FALSE]]
  /\ user' = NoRequest
  /\ UNCHANGED <<source, feed, docs, ticked, trigger, counts>>

Change(e) ==
  /\ Len(feed) < MaxChanges
  /\ feed' = Append(feed, e)
  /\ UNCHANGED <<source, docs, sync, entry, ticked, trigger, user, counts>>

\* Instance i dies and starts again.  What it was doing for its trigger and the
\* user is lost; asynq retries or archives the syncs its workers had; the start
\* registers the active source and fails logs that have been running for long.
Crash(i) ==
  \E mine \in SUBSET {s \in Syncs : sync[s].pc \in Working},
     stale \in SUBSET {s \in Syncs : sync[s].running} :
    LET running == {s \in Syncs : sync[s].running} \ stale
        last == {s \in mine : ~MayRetry(sync[s])}
        orphans == {s \in Syncs : s = trigger[i].sync}
        reset(s) == [sync[s] EXCEPT !.running = @ /\ s \notin stale]
    IN /\ Fault("crash")
       /\ sync' = [s \in Syncs |-> IF s \in last THEN Over(reset(s))
                                   ELSE IF s \in mine THEN Again(reset(s))
                                   ELSE reset(s)]
       /\ trigger' = [trigger EXCEPT ![i] = NoTrigger]
       /\ user' \in {user, NoRequest}
       /\ entry' = [entry EXCEPT ![i] = source.live /\ source.status = "active"]
       /\ Note((IF stale \ (last \cup orphans) # {} THEN {"reset"} ELSE {})
               \cup (IF orphans \cap running # {} THEN {"orphan"} ELSE {})
               \cup (IF last \cap running # {} THEN {"lost"} ELSE {})
               \cup (IF mine \ (last \cup running \cup stale) # {} THEN {"retry"} ELSE {}))
       /\ UNCHANGED <<source, feed, docs, ticked, requests>>

-----------------------------------------------------------------------------
TriggerStep(i) ==
  \/ TriggerLog(i) \/ TriggerEnqueue(i)
  \/ TriggerConflict(i) \/ TriggerRefused(i)
SyncStep(s) ==
  \/ SyncGone(s) \/ FetchIncremental(s) \/ IngestDelete(s) \/ IngestCreate(s)
  \/ SyncLog(s) \/ SyncSave(s)
UserStep == UserWrite \/ UserEnd

Next ==
  \/ \E i \in Instances : Tick(i) \/ TriggerStep(i) \/ ManualSync(i) \/ Crash(i)
  \/ NewMinute
  \/ \E s \in Syncs : SyncStep(s)
  \/ \E want \in {"pause", "resume", "delete"} : UserLoad(want)
  \/ UserStep
  \/ \E e \in Items : Change(e)

\* cron and the workers go on; nothing else has to happen.
Fairness ==
  /\ WF_vars(NewMinute)
  /\ \A i \in Instances : WF_vars(Tick(i) \/ TriggerStep(i))
  /\ \A s \in Syncs : WF_vars(SyncStep(s))

Spec == Init /\ [][Next]_vars /\ Fairness

-----------------------------------------------------------------------------
(* Properties                                                              *)

\* Two scheduled syncs never fetch and store at the same time, although every
\* instance triggers every minute and the check of the logs and the new log
\* are two statements (triggerSync's two layers).
NoOverlap ==
  mishap \cap Causes = {} =>
    \A s, t \in Syncs : sync[s].pc \in Ingesting /\ sync[t].pc \in Ingesting => s = t

Stored(e, n) == Version(e, n) = 0 \/ \E d \in docs : d.item = e /\ d.version >= Version(e, n)
Latest(e) == Version(e, Len(feed))

\* What the cursor has passed is in the knowledge base, unless a newer change of
\* the item lies ahead: a crash between the delete and the create, a failed fetch
\* or write, or a write of an older cursor loses no document (ProcessSync).  Only
\* an item that failed among others that did not, or whose URL was there already,
\* is passed over.
StoredUpToCursor ==
  mishap \cap {"overlap", "failed", "ahead", "skipped"} = {} =>
    \A e \in Items : Stored(e, source.cursor) \/ Latest(e) > source.cursor

\* A repeated sync replaces a document and never doubles it (ingestItem), unless
\* one was stored by its URL: that one is never found again.
NoDuplicates ==
  mishap \cap {"overlap", "failed", "link"} = {} => \A d, f \in docs : d.item = f.item => d = f

\* The cron entries serve an active source.
Served == source.live /\ source.status = "active" /\ \E i \in Instances : entry[i]

\* As long as the source stays active and some instance has its cron entry,
\* every change of every item arrives: nothing but an instance that dies between
\* a log and its task, a task that dies with its last worker, or a log that could
\* not be read or written when its sync was over leaves a log that says "running"
\* for good and stops all scheduled syncs (HasRunningSync).
EveryChangeArrives ==
  <>[]Served => []<>(\/ mishap \cap {"overlap", "failed", "orphan", "lost", "unlogged",
                                     "ahead", "skipped"} # {}
                     \/ \A e \in Items : Stored(e, Len(feed)))
=============================================================================
