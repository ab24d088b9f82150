--------------------------- MODULE DataSourceSyncProofs ---------------------------
(***************************************************************************)
(* For any number of instances, syncs, items and changes: every variable   *)
(* keeps its type; two scheduled syncs never work at the same time unless  *)
(* one of the named causes has happened before; and while syncs do not     *)
(* overlap, no item has two documents and none is lost behind the cursor.  *)
(***************************************************************************)
EXTENDS DataSourceSync, SequenceTheorems, WellFoundedInduction, TLAPS

Task == [running : BOOLEAN, pc : {"none", "queued"} \cup Working, fresh : BOOLEAN,
         retried : 0 .. MaxRetry, copy : Copy, until : Positions, todo : SUBSET Items,
         failed : SUBSET Items, stored : BOOLEAN, outcome : {"success", "failed", "unfetched"}]
Trigger == [pc : {"idle", "checked", "logged"}, manual : BOOLEAN, late : BOOLEAN,
            copy : Copy, sync : Syncs \cup {NoSync}]

\* The parts of the type invariant.
SourceType == source \in [status : {"active", "paused", "error"}, cursor : Positions, live : BOOLEAN]
FeedType == feed \in Seq(Items) /\ Len(feed) <= MaxChanges
TickType == entry \in [Instances -> BOOLEAN] /\ ticked \in [Instances -> BOOLEAN]
UserType == user \in [pc : {"idle", "loaded", "written"}, want : {"pause", "resume", "delete"}, copy : Copy]
CountsType == mishap \subseteq Mishaps /\ faults \in Nat /\ requests \in Nat
SyncType == sync \in [Syncs -> Task]
TriggerType == trigger \in [Instances -> Trigger]

LEMMA Parts ==
  /\ SyncTypeOK <=> /\ SourceType /\ FeedType /\ docs \subseteq Doc /\ TickType /\ UserType
                    /\ CountsType /\ SyncType /\ TriggerType
  /\ SyncTypeOK' <=> /\ SourceType' /\ FeedType' /\ docs' \subseteq Doc /\ TickType' /\ UserType'
                     /\ CountsType' /\ SyncType' /\ TriggerType'
BY DEF SyncTypeOK, SourceType, FeedType, TickType, UserType, CountsType, SyncType, TriggerType,
       Task, Trigger

\* A step makes t of one task, or of one trigger.
SyncBecomes(s, t) ==
  /\ sync' \in [Syncs -> Task]
  /\ sync'[s] = t
  /\ \A r \in Syncs \ {s} : sync'[r] = sync[r]

TriggerBecomes(i, t) ==
  /\ trigger' \in [Instances -> Trigger]
  /\ trigger'[i] = t
  /\ \A j \in Instances \ {i} : trigger'[j] = trigger[j]

LEMMA SyncSet ==
  ASSUME SyncType, NEW s \in Syncs, NEW t \in Task, sync' = [sync EXCEPT ![s] = t]
  PROVE  SyncBecomes(s, t)
BY DEF SyncType, SyncBecomes

LEMMA TriggerSet ==
  ASSUME TriggerType, NEW i \in Instances, NEW t \in Trigger, trigger' = [trigger EXCEPT ![i] = t]
  PROVE  TriggerBecomes(i, t)
BY DEF TriggerType, TriggerBecomes

LEMMA Bounds == MaxChanges \in Nat /\ MaxRetry \in Nat /\ NoSync \notin Syncs
BY SyncAssumption DEF NoSync

LEMMA BlankTypes ==
  /\ Blank \in Copy /\ NoTask \in Task /\ NoTrigger \in Trigger
  /\ NoRequest \in [pc : {"idle", "loaded", "written"}, want : {"pause", "resume", "delete"}, copy : Copy]
<1>1. 0 \in Positions /\ 0 \in 0 .. MaxRetry
  BY Bounds DEF Positions
<1>2. Blank \in Copy
  BY <1>1 DEF Blank, Copy
<1> QED BY <1>1, <1>2 DEF NoTask, Task, NoTrigger, Trigger, NoRequest

LEMMA LoadedType ==
  ASSUME SourceType
  PROVE  Loaded \in Copy
BY DEF SourceType, Loaded, Copy

LEMMA SavedType ==
  ASSUME SourceType, NEW copy \in Copy
  PROVE  Saved(copy) \in [status : {"active", "paused", "error"}, cursor : Positions, live : BOOLEAN]
         /\ Saved(copy).live = source.live
BY DEF SourceType, Saved, Copy

\* A task that ends or is retried.
LEMMA EndType ==
  ASSUME NEW t \in Task
  PROVE  /\ Over(t) \in Task /\ Over(t).pc = "none" /\ Over(t).todo = {} /\ Over(t).until = 0
         /\ Over(t).running = t.running
         /\ MayRetry(t) => /\ Again(t) \in Task /\ Again(t).pc = "queued" /\ Again(t).todo = {}
                           /\ Again(t).until = 0 /\ Again(t).running = t.running
                           /\ Again(t).fresh = t.fresh
<1>1. NoTask \in Task /\ NoTask.pc = "none" /\ NoTask.todo = {} /\ NoTask.until = 0
  BY BlankTypes DEF NoTask
<1>2. t.running \in BOOLEAN /\ t.fresh \in BOOLEAN /\ t.retried \in 0 .. MaxRetry
  BY DEF Task
<1>3. Over(t) \in Task /\ Over(t).pc = "none" /\ Over(t).todo = {} /\ Over(t).until = 0
      /\ Over(t).running = t.running
  BY <1>1, <1>2 DEF Over, Task
<1>4. ASSUME MayRetry(t)
      PROVE  /\ Again(t) \in Task /\ Again(t).pc = "queued" /\ Again(t).todo = {}
             /\ Again(t).until = 0 /\ Again(t).running = t.running /\ Again(t).fresh = t.fresh
  <2>1. t.retried + 1 \in 0 .. MaxRetry
    BY <1>2, <1>4, Bounds DEF MayRetry
  <2> QED BY <1>1, <1>2, <2>1 DEF Again, Task
<1> QED BY <1>3, <1>4

-----------------------------------------------------------------------------
(* Versions and the order of items.                                        *)

LEMMA SmallestNat ==
  ASSUME NEW T \in SUBSET Nat, T # {}
  PROVE  \E x \in T : \A y \in T : x <= y
<1>1. PICK x \in T : \A y \in T : ~ (<<y, x>> \in OpToRel(<, Nat))
  <2> DEFINE R == OpToRel(<, Nat)
  <2>1. IsWellFoundedOn(R, Nat)
    BY NatLessThanWellFounded
  <2> HIDE DEF R
  <2>2. \E x \in T : \A y \in T : ~ (<<y, x>> \in R)
    BY <2>1, WFMin
  <2> QED BY <2>2 DEF R
<1>2. \A y \in T : ~ (y < x)
  BY <1>1 DEF OpToRel
<1> QED BY <1>2

LEMMA LargestNat ==
  ASSUME NEW n \in Nat, NEW T \in SUBSET (1 .. n), T # {}
  PROVE  \E x \in T : \A y \in T : y <= x
<1> DEFINE U == {n - y : y \in T}
<1>1. U \in SUBSET Nat /\ U # {}
  <2>1. \A y \in T : n - y \in Nat
    OBVIOUS
  <2> QED BY <2>1
<1>2. PICK u \in U : \A v \in U : u <= v
  BY <1>1, SmallestNat
<1>3. PICK x \in T : u = n - x
  BY <1>2
<1>4. \A y \in T : n - x <= n - y
  BY <1>2, <1>3
<1> QED BY <1>4

\* The version of an item is a position of the feed, 0 when it has not changed.
LEMMA VersionBounds ==
  ASSUME NEW e, NEW n \in Nat
  PROVE  /\ Version(e, n) \in 0 .. n
         /\ (\E k \in 1 .. n : feed[k] = e) => Version(e, n) \in 1 .. n
<1> DEFINE changes == {k \in 1 .. n : feed[k] = e}
<1>1. CASE changes = {}
  BY <1>1 DEF Version
<1>2. CASE changes # {}
  <2>1. \E k \in changes : \A j \in changes : j <= k
    BY <1>2, LargestNat
  <2>2. Version(e, n) \in changes
    BY <1>2, <2>1 DEF Version
  <2> QED BY <2>2
<1> QED BY <1>1, <1>2

\* The next item is one of those still to do.
LEMMA NextIsToDo ==
  ASSUME NEW s, sync[s].until \in Nat, sync[s].todo # {}
  PROVE  NextItem(s) \in sync[s].todo
<1> DEFINE n == sync[s].until
           todo == sync[s].todo
           T == {Version(e, n) : e \in todo}
<1>1. T \in SUBSET Nat /\ T # {}
  BY VersionBounds
<1>2. PICK v \in T : \A x \in T : v <= x
  <2> HIDE DEF T
  <2> QED BY <1>1, SmallestNat
<1>3. PICK e \in todo : v = Version(e, n)
  BY <1>2
<1>4. \A f \in todo : Version(e, n) <= Version(f, n)
  BY <1>2, <1>3
<1> QED BY <1>4 DEF NextItem

-----------------------------------------------------------------------------
(* Types, with the items that are still to do: each of them has changed.   *)

TodoOK(t) ==
  /\ t.until <= Len(feed)
  /\ \A e \in t.todo : \E k \in 1 .. t.until : feed[k] = e
  /\ t.pc = "creating" => t.todo # {}

TypeInv == SyncTypeOK /\ \A s \in Syncs : TodoOK(sync[s])

\* Task s goes to one of the stages.
SyncGoes(s, stages, running, fresh) ==
  \E t \in Task : /\ SyncBecomes(s, t)
                  /\ t.pc \in stages /\ t.running = running /\ t.fresh = fresh
                  /\ TodoOK(t)

\* Everything but the tasks has its type, and the feed stays.
RestType ==
  /\ SourceType' /\ feed' = feed /\ docs' \subseteq Doc /\ TickType' /\ UserType'
  /\ CountsType' /\ TriggerType'

LEMMA GoesType ==
  ASSUME TypeInv, RestType, NEW s \in Syncs, NEW stages, NEW b, NEW c, SyncGoes(s, stages, b, c)
  PROVE  TypeInv'
<1>1. PICK t \in Task : SyncBecomes(s, t) /\ TodoOK(t)
  BY DEF SyncGoes
<1>2. SyncType' /\ FeedType'
  BY <1>1, Parts DEF TypeInv, RestType, SyncBecomes, SyncType, FeedType
<1>3. SyncTypeOK'
  BY <1>2, Parts DEF RestType
<1>4. \A r \in Syncs : TodoOK(sync[r])'
  <2> SUFFICES ASSUME NEW r \in Syncs PROVE TodoOK(sync[r])'
    OBVIOUS
  <2>1. feed' = feed
    BY DEF RestType
  <2>2. CASE r = s
    <3>1. sync'[r] = t
      BY <1>1, <2>2 DEF SyncBecomes
    <3> QED BY <1>1, <2>1, <3>1 DEF TodoOK
  <2>3. CASE r # s
    <3>1. sync'[r] = sync[r]
      BY <1>1, <2>3 DEF SyncBecomes
    <3> QED BY <2>1, <3>1 DEF TypeInv, TodoOK
  <2> QED BY <2>2, <2>3
<1> QED BY <1>3, <1>4 DEF TypeInv

LEMMA StaysType ==
  ASSUME TypeInv, RestType, UNCHANGED sync
  PROVE  TypeInv'
<1>1. SyncType' /\ FeedType'
  BY Parts DEF TypeInv, RestType, SyncType, FeedType
<1>2. SyncTypeOK'
  BY <1>1, Parts DEF RestType
<1>3. \A r \in Syncs : TodoOK(sync[r])'
  BY DEF TypeInv, RestType, TodoOK
<1> QED BY <1>2, <1>3 DEF TypeInv

\* What the steps of a sync, which only touch it, documents and history, keep.
LEMMA SyncOnlyType ==
  ASSUME TypeInv, NEW s, SyncOnly(s), docs' \subseteq Doc, mishap' \subseteq Mishaps, faults' \in Nat
  PROVE  RestType
BY Parts DEF TypeInv, RestType, SyncOnly, SourceType, TickType, UserType, CountsType, TriggerType

LEMMA NoteType ==
  ASSUME TypeInv, NEW kinds, Note(kinds), kinds \subseteq Mishaps
  PROVE  mishap' \subseteq Mishaps
BY DEF TypeInv, SyncTypeOK, Note

\* A write of the row from an older copy, or a log left as it is, is noted; no
\* cause of an overlap is.
OnlyAhead == mishap \subseteq mishap' /\ mishap' \subseteq mishap \cup {"ahead", "unlogged"}

LEMMA AheadType ==
  ASSUME TypeInv, NoteAhead
  PROVE  mishap' \subseteq Mishaps /\ OnlyAhead
BY DEF TypeInv, SyncTypeOK, NoteAhead, Ahead, Note, Mishaps, OnlyAhead

LEMMA FaultType ==
  ASSUME TypeInv, NEW kind, Fault(kind)
  PROVE  faults' \in Nat
BY DEF TypeInv, SyncTypeOK, Fault

LEMMA SyncTyped ==
  ASSUME TypeInv, NEW s \in Syncs
  PROVE  sync[s] \in Task /\ TodoOK(sync[s]) /\ SyncType
BY Parts DEF TypeInv, SyncType

LEMMA EmptyTodo ==
  ASSUME TypeInv, NEW t, t.until = 0, t.todo = {}, t.pc # "creating"
  PROVE  TodoOK(t)
<1>1. Len(feed) \in Nat
  BY LenProperties DEF TypeInv, SyncTypeOK
<1> QED BY <1>1 DEF TodoOK

LEMMA GoneGoes ==
  ASSUME TypeInv, NEW s \in Syncs, SyncGone(s)
  PROVE  /\ \E b \in BOOLEAN : SyncGoes(s, {"none"}, b, FALSE)
         /\ RestType /\ mishap \subseteq mishap'
<1>1. sync[s] \in Task /\ SyncType
  BY SyncTyped
<1>2. /\ NoTask \in Task /\ NoTask.pc = "none" /\ NoTask.fresh = FALSE /\ NoTask.running \in BOOLEAN
      /\ NoTask.until = 0 /\ NoTask.todo = {}
  BY BlankTypes DEF NoTask
<1>3. /\ Over(sync[s]) \in Task /\ Over(sync[s]).pc = "none" /\ Over(sync[s]).fresh = FALSE
      /\ Over(sync[s]).running \in BOOLEAN
      /\ Over(sync[s]).until = 0 /\ Over(sync[s]).todo = {}
  <2>1. Over(sync[s]).fresh = FALSE
    BY DEF Over, NoTask
  <2> QED BY <1>1, <2>1, EndType DEF Task
<1>4. PICK t \in {NoTask, Over(sync[s])} : sync' = [sync EXCEPT ![s] = t]
  BY DEF SyncGone
<1>5. /\ t \in Task /\ t.pc = "none" /\ t.fresh = FALSE /\ t.running \in BOOLEAN
      /\ t.until = 0 /\ t.todo = {}
  BY <1>2, <1>3, <1>4
<1>6. SyncBecomes(s, t)
  BY <1>1, <1>4, <1>5, SyncSet
<1>7. TodoOK(t)
  BY <1>5, EmptyTodo
<1>8. faults' \in Nat /\ mishap' \subseteq Mishaps /\ mishap \subseteq mishap'
  <2>1. LogLost(s) \subseteq Mishaps
    BY DEF LogLost, Mishaps
  <2>2. CASE Note(LogLost(s)) /\ Fault("database")
    BY <2>1, <2>2, NoteType, FaultType DEF Note
  <2>3. CASE UNCHANGED mishap /\ (Fault("database") \/ UNCHANGED faults)
    BY <2>3, FaultType DEF TypeInv, SyncTypeOK
  <2> QED BY <2>2, <2>3 DEF SyncGone
<1>9. RestType
  BY <1>8, SyncOnlyType DEF SyncGone, TypeInv, SyncTypeOK
<1> QED BY <1>5, <1>6, <1>7, <1>8, <1>9 DEF SyncGoes

LEMMA FetchGoes ==
  ASSUME TypeInv, NEW s \in Syncs, FetchIncremental(s)
  PROVE  SyncGoes(s, {"ingesting", "fetched nothing"}, sync[s].running, sync[s].fresh) /\ RestType
<1>1. sync[s] \in Task /\ TodoOK(sync[s]) /\ SyncType /\ sync[s].pc = "queued"
  BY SyncTyped DEF FetchIncremental
<1>2. feed \in Seq(Items) /\ Len(feed) \in Nat /\ Len(feed) \in Positions /\ source.cursor \in Positions
      /\ \A k \in 1 .. Len(feed) : feed[k] \in Items
  BY Bounds, LenProperties, ElementOfSeq DEF TypeInv, SyncTypeOK, Positions
<1>3. Loaded \in Copy
  BY Parts, LoadedType DEF TypeInv
<1>4. RestType
  <2>1. Overlap \subseteq Mishaps
    BY DEF Overlap, Mishaps
  <2>2. mishap' \subseteq Mishaps /\ docs' \subseteq Doc /\ faults' \in Nat
    BY <2>1, NoteType, FaultType DEF FetchIncremental, TypeInv, SyncTypeOK
  <2> QED BY <2>2, SyncOnlyType DEF FetchIncremental
<1>5. CASE sync' = [sync EXCEPT ![s].pc = "ingesting", ![s].copy = Loaded, ![s].until = Len(feed),
                                ![s].todo = {feed[k] : k \in source.cursor + 1 .. Len(feed)}]
  <2> DEFINE todo == {feed[k] : k \in source.cursor + 1 .. Len(feed)}
             t == [sync[s] EXCEPT !.pc = "ingesting", !.copy = Loaded, !.until = Len(feed), !.todo = todo]
  <2>1. todo \subseteq Items /\ \A e \in todo : \E k \in 1 .. Len(feed) : feed[k] = e
    BY <1>2 DEF Positions
  <2>2. sync' = [sync EXCEPT ![s] = t]
    BY <1>1, <1>5
  <2> HIDE DEF todo
  <2>3. /\ t \in Task /\ t.pc = "ingesting" /\ t.running = sync[s].running /\ t.fresh = sync[s].fresh
        /\ t.until = Len(feed) /\ t.todo = todo
    BY <1>1, <1>2, <1>3, <2>1 DEF Task, Working, Ingesting
  <2> HIDE DEF t
  <2>4. SyncBecomes(s, t)
    BY <1>1, <2>2, <2>3, SyncSet
  <2>5. TodoOK(t)
    BY <1>2, <2>1, <2>3 DEF TodoOK
  <2> QED BY <1>4, <2>3, <2>4, <2>5 DEF SyncGoes
<1>6. CASE sync' = [sync EXCEPT ![s].pc = "fetched nothing", ![s].copy = Loaded]
  <2> DEFINE t == [sync[s] EXCEPT !.pc = "fetched nothing", !.copy = Loaded]
  <2>1. sync' = [sync EXCEPT ![s] = t]
    BY <1>1, <1>6
  <2>2. /\ t \in Task /\ t.pc = "fetched nothing" /\ t.running = sync[s].running /\ t.fresh = sync[s].fresh
        /\ t.until = sync[s].until /\ t.todo = sync[s].todo
    BY <1>1, <1>3 DEF Task, Working, Ingesting
  <2> HIDE DEF t
  <2>3. SyncBecomes(s, t)
    BY <1>1, <2>1, <2>2, SyncSet
  <2>4. TodoOK(t)
    BY <1>1, <2>2 DEF TodoOK
  <2> QED BY <1>4, <2>2, <2>3, <2>4 DEF SyncGoes
<1> QED BY <1>5, <1>6 DEF FetchIncremental

LEMMA DeleteGoes ==
  ASSUME TypeInv, NEW s \in Syncs, IngestDelete(s)
  PROVE  SyncGoes(s, {"creating"}, sync[s].running, sync[s].fresh) /\ RestType
<1> DEFINE t == [sync[s] EXCEPT !.pc = "creating"]
<1>1. sync[s] \in Task /\ TodoOK(sync[s]) /\ SyncType /\ sync[s].todo # {}
  BY SyncTyped DEF IngestDelete
<1>2. sync' = [sync EXCEPT ![s] = t]
  BY <1>1 DEF IngestDelete
<1>3. /\ t \in Task /\ t.pc = "creating" /\ t.running = sync[s].running /\ t.fresh = sync[s].fresh
      /\ t.until = sync[s].until /\ t.todo = sync[s].todo
  BY <1>1 DEF Task, Working, Ingesting
<1> HIDE DEF t
<1>4. SyncBecomes(s, t) /\ TodoOK(t)
  BY <1>1, <1>2, <1>3, SyncSet DEF TodoOK
<1>5. RestType
  <2>1. {"failed"} \subseteq Mishaps
    BY DEF Mishaps
  <2>2. mishap' \subseteq Mishaps /\ docs' \subseteq Doc /\ faults' \in Nat
    BY <2>1, NoteType, FaultType DEF IngestDelete, TypeInv, SyncTypeOK
  <2> QED BY <2>2, SyncOnlyType DEF IngestDelete
<1> QED BY <1>3, <1>4, <1>5 DEF SyncGoes

LEMMA CreateGoes ==
  ASSUME TypeInv, NEW s \in Syncs, IngestCreate(s)
  PROVE  SyncGoes(s, {"ingesting"}, sync[s].running, sync[s].fresh) /\ RestType
<1> DEFINE e == NextItem(s)
           next == [sync[s] EXCEPT !.pc = "ingesting", !.todo = @ \ {e}]
<1>1. sync[s] \in Task /\ TodoOK(sync[s]) /\ SyncType /\ sync[s].pc = "creating"
  BY SyncTyped DEF IngestCreate
<1>2. sync[s].until \in 0 .. MaxChanges /\ sync[s].todo \subseteq Items /\ MaxChanges \in Nat
  BY <1>1, Bounds DEF Task, Positions
<1>3. e \in sync[s].todo /\ e \in Items
  BY <1>1, <1>2, NextIsToDo DEF TodoOK
<1>4. Version(e, sync[s].until) \in 1 .. MaxChanges
  <2>1. Version(e, sync[s].until) \in 1 .. sync[s].until
    BY <1>1, <1>2, <1>3, VersionBounds DEF TodoOK
  <2> QED BY <1>2, <2>1
<1>5. docs' \subseteq Doc /\ faults' \in Nat /\ mishap' \subseteq Mishaps
  <2> DEFINE v == Version(e, sync[s].until)
  <2>1. docs \subseteq Doc /\ faults \in Nat /\ mishap \subseteq Mishaps
    BY DEF TypeInv, SyncTypeOK
  <2>2. \A l \in BOOLEAN : [item |-> e, version |-> v, link |-> l] \in Doc
    BY <1>3, <1>4 DEF Doc
  <2>3. CreateFromFile(e, v) \/ CreateFromURL(e, v)
        \/ (Fault("ingest") /\ UNCHANGED <<docs, mishap>>)
    BY DEF IngestCreate
  <2>4. {"skipped"} \subseteq Mishaps /\ {"link"} \subseteq Mishaps
    BY DEF Mishaps
  <2> HIDE DEF e, v
  <2>5. CASE CreateFromFile(e, v)
    BY <2>1, <2>2, <2>5 DEF CreateFromFile
  <2>6. CASE CreateFromURL(e, v)
    <3>1. docs' \subseteq Doc /\ (Note({"skipped"}) \/ Note({"link"}))
      BY <2>1, <2>2, <2>6 DEF CreateFromURL
    <3>2. faults' \in Nat
      BY <2>1, <2>6, FaultType DEF CreateFromURL
    <3> QED BY <2>4, <3>1, <3>2, NoteType
  <2>7. CASE Fault("ingest") /\ UNCHANGED <<docs, mishap>>
    BY <2>1, <2>7, FaultType
  <2> QED BY <2>3, <2>5, <2>6, <2>7
<1>6. RestType
  BY <1>5, SyncOnlyType DEF IngestCreate
<1> HIDE DEF e
<1>7. /\ next \in Task /\ next.pc = "ingesting" /\ next.running = sync[s].running
      /\ next.fresh = sync[s].fresh /\ next.until = sync[s].until
      /\ next.todo = sync[s].todo \ {e} /\ next.failed = sync[s].failed
  BY <1>1 DEF Task, Working, Ingesting
<1>8. ASSUME NEW t \in Task, sync' = [sync EXCEPT ![s] = t], t.pc = "ingesting",
             t.running = sync[s].running, t.fresh = sync[s].fresh, t.until = sync[s].until,
             t.todo = sync[s].todo \ {e}
      PROVE  SyncGoes(s, {"ingesting"}, sync[s].running, sync[s].fresh)
  <2>1. SyncBecomes(s, t)
    BY <1>1, <1>8, SyncSet
  <2>2. TodoOK(t)
    BY <1>1, <1>8 DEF TodoOK
  <2> QED BY <1>8, <2>1, <2>2 DEF SyncGoes
<1>9. sync' = [sync EXCEPT ![s] = [next EXCEPT !.stored = TRUE]]
      \/ sync' = [sync EXCEPT ![s] = [next EXCEPT !.failed = @ \cup {e}]]
  BY DEF IngestCreate, e
<1> HIDE DEF next
<1>10. CASE sync' = [sync EXCEPT ![s] = [next EXCEPT !.stored = TRUE]]
  <2> DEFINE t == [next EXCEPT !.stored = TRUE]
  <2>1. /\ t \in Task /\ t.pc = "ingesting" /\ t.running = sync[s].running
        /\ t.fresh = sync[s].fresh /\ t.until = sync[s].until /\ t.todo = sync[s].todo \ {e}
    BY <1>7 DEF Task
  <2> HIDE DEF t
  <2> QED BY <1>6, <1>8, <1>10, <2>1 DEF t
<1>11. CASE sync' = [sync EXCEPT ![s] = [next EXCEPT !.failed = @ \cup {e}]]
  <2> DEFINE t == [next EXCEPT !.failed = @ \cup {e}]
  <2>1. /\ t \in Task /\ t.pc = "ingesting" /\ t.running = sync[s].running
        /\ t.fresh = sync[s].fresh /\ t.until = sync[s].until /\ t.todo = sync[s].todo \ {e}
    BY <1>3, <1>7 DEF Task
  <2> HIDE DEF t
  <2> QED BY <1>6, <1>8, <1>11, <2>1 DEF t
<1> QED BY <1>9, <1>10, <1>11

LEMMA LogGoes ==
  ASSUME TypeInv, NEW s \in Syncs, SyncLog(s)
  PROVE  /\ \/ SyncGoes(s, {"saving"}, FALSE, sync[s].fresh)
            \/ SyncGoes(s, {"saving"}, sync[s].running, sync[s].fresh)
         /\ RestType /\ mishap \subseteq mishap'
<1>1. sync[s] \in Task /\ TodoOK(sync[s]) /\ SyncType /\ sync[s].running \in BOOLEAN
  BY SyncTyped DEF Task
<1>2. Outcome(sync[s]) \in {"success", "failed", "unfetched"}
  BY DEF Outcome
<1> DEFINE t(b) == [sync[s] EXCEPT !.running = b, !.pc = "saving", !.outcome = Outcome(sync[s])]
<1>3. \E b \in {FALSE, sync[s].running} : sync' = [sync EXCEPT ![s] = t(b)]
  <2>1. CASE sync' = [sync EXCEPT ![s].running = FALSE, ![s].pc = "saving",
                                  ![s].outcome = Outcome(sync[s])]
    BY <1>1, <2>1
  <2>2. CASE sync' = [sync EXCEPT ![s].pc = "saving", ![s].outcome = Outcome(sync[s])]
    <3> DEFINE k == sync[s]
               u == [k EXCEPT !.pc = "saving", !.outcome = Outcome(sync[s])]
    <3>1. k \in Task /\ sync' = [sync EXCEPT ![s] = u]
      BY <1>1, <2>2
    <3>2. t(sync[s].running) = [k EXCEPT !.running = k.running, !.pc = "saving",
                                         !.outcome = Outcome(sync[s])]
      OBVIOUS
    <3> HIDE DEF k, t
    <3>3. u = [k EXCEPT !.running = k.running, !.pc = "saving", !.outcome = Outcome(sync[s])]
      BY <3>1 DEF Task
    <3>4. t(sync[s].running) = u
      BY <3>2, <3>3
    <3> QED BY <3>1, <3>4
  <2> QED BY <2>1, <2>2 DEF SyncLog
<1>4. \A b \in BOOLEAN :
        /\ t(b) \in Task /\ t(b).pc = "saving" /\ t(b).running = b /\ t(b).fresh = sync[s].fresh
        /\ t(b).until = sync[s].until /\ t(b).todo = sync[s].todo
  BY <1>1, <1>2 DEF Task, Working
<1> HIDE DEF t
<1>5. ASSUME NEW b \in BOOLEAN, sync' = [sync EXCEPT ![s] = t(b)]
      PROVE  SyncGoes(s, {"saving"}, b, sync[s].fresh)
  <2>1. t(b) \in Task /\ SyncBecomes(s, t(b))
    BY <1>1, <1>4, <1>5, SyncSet
  <2>2. TodoOK(t(b))
    BY <1>1, <1>4 DEF TodoOK
  <2> QED BY <1>4, <2>1, <2>2 DEF SyncGoes
<1>6. faults' \in Nat /\ mishap' \subseteq Mishaps /\ mishap \subseteq mishap'
  <2>1. LogLost(s) \subseteq Mishaps
    BY DEF LogLost, Mishaps
  <2>2. CASE Note(LogLost(s)) /\ Fault("database")
    BY <2>1, <2>2, NoteType, FaultType DEF Note
  <2>3. CASE UNCHANGED <<mishap, faults>>
    BY <2>3 DEF TypeInv, SyncTypeOK
  <2> QED BY <2>2, <2>3 DEF SyncLog
<1>7. RestType
  BY <1>6, SyncOnlyType DEF SyncLog, TypeInv, SyncTypeOK
<1> QED BY <1>1, <1>3, <1>5, <1>6, <1>7

LEMMA SaveGoes ==
  ASSUME TypeInv, NEW s \in Syncs, SyncSave(s)
  PROVE  /\ \/ SyncGoes(s, {"none"}, sync[s].running, FALSE)
            \/ /\ SyncGoes(s, {"queued"}, sync[s].running, sync[s].fresh)
               /\ "retry" \in mishap'
         /\ RestType /\ mishap \subseteq mishap' /\ source'.live = source.live
<1> DEFINE t == sync[s]
           again == t.outcome # "success" /\ MayRetry(t)
<1>1. t \in Task /\ TodoOK(t) /\ SyncType
  BY SyncTyped
<1>2. StatusAfter(t) \in {"active", "paused", "error"}
  BY DEF StatusAfter
<1>3. SourceType
  BY Parts DEF TypeInv
<1>4. CursorAfter(t) \in Positions
  <2>1. t.copy \in Copy /\ t.until \in Positions
    BY <1>1 DEF Task
  <2>2. Saved(t.copy).cursor \in Positions
    BY <1>3, <2>1 DEF SourceType, Saved, Copy
  <2> QED BY <2>1, <2>2 DEF CursorAfter, Copy
<1>5. SourceType' /\ source'.live = source.live /\ faults' \in Nat
  <2>1. CASE /\ source' = [source EXCEPT !.status = StatusAfter(t), !.cursor = CursorAfter(t)]
             /\ UNCHANGED faults
    <3>1. faults' \in Nat
      BY <2>1 DEF TypeInv, SyncTypeOK
    <3> HIDE DEF t
    <3> QED BY <1>2, <1>3, <1>4, <2>1, <3>1 DEF SourceType
  <2>2. CASE Fault("database") /\ UNCHANGED source
    <3>1. faults' \in Nat
      BY <2>2, FaultType
    <3> QED BY <1>3, <2>2, <3>1 DEF SourceType
  <2> QED BY <2>1, <2>2 DEF SyncSave
<1>6. mishap' \subseteq Mishaps /\ mishap \subseteq mishap' /\ (again => "retry" \in mishap')
  <2>1. mishap' = mishap \cup ((IF again THEN {"retry"} ELSE {})
             \cup (IF t.outcome = "success" /\ t.failed # {} THEN {"failed"} ELSE {}))
    BY DEF SyncSave, Note
  <2> QED BY <2>1 DEF TypeInv, SyncTypeOK, Mishaps, Causes
<1>7. RestType
  BY <1>5, <1>6, Parts DEF TypeInv, RestType, SyncSave, TickType, UserType, CountsType, TriggerType
<1>8. CASE again
  <2>1. sync' = [sync EXCEPT ![s] = Again(t)]
    BY <1>8 DEF SyncSave
  <2>2. /\ Again(t) \in Task /\ Again(t).pc = "queued" /\ Again(t).todo = {} /\ Again(t).until = 0
        /\ Again(t).running = t.running /\ Again(t).fresh = t.fresh
    BY <1>1, <1>8, EndType
  <2>3. SyncBecomes(s, Again(t)) /\ TodoOK(Again(t))
    BY <1>1, <2>1, <2>2, SyncSet, EmptyTodo
  <2> QED BY <1>5, <1>6, <1>7, <1>8, <2>2, <2>3 DEF SyncGoes
<1>9. CASE ~again
  <2>1. sync' = [sync EXCEPT ![s] = Over(t)]
    BY <1>9 DEF SyncSave
  <2>2. /\ Over(t) \in Task /\ Over(t).pc = "none" /\ Over(t).todo = {} /\ Over(t).until = 0
        /\ Over(t).running = t.running
    BY <1>1, EndType
  <2>3. Over(t).fresh = FALSE
    BY DEF Over, NoTask
  <2>4. SyncBecomes(s, Over(t)) /\ TodoOK(Over(t))
    BY <1>1, <2>1, <2>2, SyncSet, EmptyTodo
  <2> QED BY <1>5, <1>6, <1>7, <2>2, <2>3, <2>4 DEF SyncGoes
<1> QED BY <1>8, <1>9

-----------------------------------------------------------------------------
(* The triggers, users, the feed and crashes.                              *)

\* Every task may change.
LEMMA AllGoType ==
  ASSUME TypeInv, RestType, SyncType', \A r \in Syncs : TodoOK(sync'[r])
  PROVE  TypeInv'
<1>1. FeedType'
  BY Parts DEF TypeInv, RestType, FeedType
<1>2. SyncTypeOK'
  BY <1>1, Parts DEF RestType
<1>3. \A r \in Syncs : TodoOK(sync[r])'
  BY DEF RestType, TodoOK
<1> QED BY <1>2, <1>3 DEF TypeInv

\* A trigger that moves on keeps its type.
LEMMA TriggerMoves ==
  ASSUME TypeInv, NEW i \in Instances, NEW p \in {"idle", "checked", "logged"}, NEW b \in BOOLEAN,
         NEW r \in Syncs \cup {NoSync}
  PROVE  /\ [trigger[i] EXCEPT !.pc = p] \in Trigger
         /\ [trigger[i] EXCEPT !.pc = p, !.sync = r] \in Trigger
         /\ [trigger[i] EXCEPT !.late = b] \in Trigger
         /\ trigger[i] \in Trigger /\ TriggerType
<1>1. trigger[i] \in Trigger /\ TriggerType
  BY Parts DEF TypeInv, TriggerType
<1> QED BY <1>1 DEF Trigger

LEMMA SamePc ==
  ASSUME NEW g \in Trigger
  PROVE  [g EXCEPT !.pc = g.pc] = g
BY DEF Trigger

LEMMA TickType1 ==
  ASSUME TypeInv, NEW i \in Instances, Tick(i)
  PROVE  /\ TypeInv' /\ UNCHANGED <<source, sync, user>> /\ mishap \subseteq mishap'
         /\ \/ UNCHANGED trigger
            \/ \E t \in Trigger : /\ TriggerBecomes(i, t) /\ t = [trigger[i] EXCEPT !.pc = "checked"]
                                  /\ (source.live /\ ~HasRunningSync) \/ "blind" \in mishap'
<1> DEFINE t == [trigger[i] EXCEPT !.pc = "checked"]
<1>1. t \in Trigger /\ trigger[i] \in Trigger /\ TriggerType /\ trigger \in [Instances -> Trigger]
  BY TriggerMoves DEF TriggerType
<1>2. ASSUME trigger' = [trigger EXCEPT ![i].pc = "checked"]
      PROVE  TriggerBecomes(i, t)
  <2>1. trigger' = [trigger EXCEPT ![i] = t]
    BY <1>1, <1>2
  <2> HIDE DEF t
  <2> QED BY <1>1, <2>1, TriggerSet
<1>3. ASSUME trigger' = [trigger EXCEPT ![i].pc = @]
      PROVE  trigger' = trigger
  <2>1. trigger' = [trigger EXCEPT ![i] = [trigger[i] EXCEPT !.pc = trigger[i].pc]]
    BY <1>1, <1>3
  <2>2. [trigger[i] EXCEPT !.pc = trigger[i].pc] = trigger[i]
    <3> DEFINE g == trigger[i]
    <3>1. g \in Trigger
      BY <1>1
    <3> HIDE DEF g
    <3>2. [g EXCEPT !.pc = g.pc] = g
      BY <3>1, SamePc
    <3> QED BY <3>2 DEF g
  <2>3. trigger' = [trigger EXCEPT ![i] = trigger[i]]
    BY <2>1, <2>2
  <2>4. trigger' = trigger
    BY <1>1, <2>3
  <2> QED BY <2>4
<1>4. \/ /\ trigger' = trigger \/ (TriggerBecomes(i, t) /\ source.live /\ ~HasRunningSync)
         /\ UNCHANGED <<mishap, faults>>
      \/ TriggerBecomes(i, t) /\ Fault("database") /\ Note({"blind"})
      \/ trigger' = trigger /\ Fault("database") /\ UNCHANGED mishap
  <2>1. CASE /\ trigger' = [trigger EXCEPT ![i].pc =
                              IF source.live /\ source.status = "active" /\ ~HasRunningSync
                              THEN "checked" ELSE @]
             /\ UNCHANGED <<mishap, faults>>
    <3>1. CASE source.live /\ source.status = "active" /\ ~HasRunningSync
      <4>1. trigger' = [trigger EXCEPT ![i].pc = "checked"]
        BY <2>1, <3>1
      <4> QED BY <1>2, <2>1, <3>1, <4>1
    <3>2. CASE ~(source.live /\ source.status = "active" /\ ~HasRunningSync)
      <4>1. trigger' = [trigger EXCEPT ![i].pc = @]
        BY <2>1, <3>2
      <4> QED BY <1>3, <2>1, <4>1
    <3> QED BY <3>1, <3>2
  <2>2. CASE trigger' = [trigger EXCEPT ![i].pc = "checked"] /\ Fault("database") /\ Note({"blind"})
    BY <1>2, <2>2
  <2>3. CASE Fault("database") /\ UNCHANGED <<trigger, mishap>>
    BY <2>3
  <2> QED BY <2>1, <2>2, <2>3 DEF Tick
<1>5. t = [trigger[i] EXCEPT !.pc = "checked"]
  OBVIOUS
<1> HIDE DEF t
<1>6. TriggerType'
  <2>1. CASE trigger' = trigger
    BY <1>1, <2>1 DEF TriggerType
  <2>2. CASE TriggerBecomes(i, t)
    BY <2>2 DEF TriggerBecomes, TriggerType
  <2> QED BY <1>4, <2>1, <2>2
<1>7. CountsType' /\ mishap \subseteq mishap'
  <2>1. CountsType /\ {"blind"} \subseteq Mishaps
    BY Parts DEF TypeInv, Mishaps, Causes
  <2>2. requests' = requests
    BY DEF Tick
  <2>3. CASE UNCHANGED <<mishap, faults>>
    BY <2>1, <2>2, <2>3 DEF CountsType
  <2>4. CASE Fault("database") /\ (Note({"blind"}) \/ UNCHANGED mishap)
    BY <2>1, <2>2, <2>4, FaultType DEF CountsType, Note
  <2> QED BY <1>4, <2>3, <2>4
<1>8. RestType
  BY <1>6, <1>7, Parts DEF TypeInv, RestType, Tick, SourceType, TickType, UserType
<1>9. UNCHANGED <<source, sync, user>>
  BY DEF Tick
<1>10. TypeInv'
  BY <1>8, <1>9, StaysType
<1> QED BY <1>1, <1>4, <1>5, <1>7, <1>9, <1>10 DEF Note

LEMMA MinuteType ==
  ASSUME TypeInv, NewMinute
  PROVE  /\ TypeInv' /\ UNCHANGED <<source, mishap, user>>
         /\ \A s \in Syncs : sync'[s] = [sync[s] EXCEPT !.fresh = FALSE]
         /\ \A i \in Instances : \E b \in BOOLEAN :
              /\ trigger'[i] = [trigger[i] EXCEPT !.late = b]
              /\ ~trigger[i].manual /\ trigger[i].pc # "idle" => b
<1>1. \A s \in Syncs : /\ [sync[s] EXCEPT !.fresh = FALSE] \in Task
                       /\ TodoOK([sync[s] EXCEPT !.fresh = FALSE])
  <2> SUFFICES ASSUME NEW s \in Syncs
               PROVE  /\ [sync[s] EXCEPT !.fresh = FALSE] \in Task
                      /\ TodoOK([sync[s] EXCEPT !.fresh = FALSE])
    OBVIOUS
  <2>1. sync[s] \in Task /\ TodoOK(sync[s])
    BY SyncTyped
  <2> DEFINE t == [sync[s] EXCEPT !.fresh = FALSE]
  <2>2. t \in Task /\ t.until = sync[s].until /\ t.todo = sync[s].todo /\ t.pc = sync[s].pc
    BY <2>1 DEF Task
  <2> HIDE DEF t
  <2>3. t \in Task /\ TodoOK(t)
    BY <2>1, <2>2 DEF TodoOK
  <2> QED BY <2>3 DEF t
<1>2. sync' = [s \in Syncs |-> [sync[s] EXCEPT !.fresh = FALSE]]
  BY DEF NewMinute
<1>3. SyncType' /\ \A s \in Syncs : sync'[s] = [sync[s] EXCEPT !.fresh = FALSE] /\ TodoOK(sync'[s])
  BY <1>1, <1>2 DEF SyncType
<1>4. \A i \in Instances : \E b \in BOOLEAN :
        /\ trigger'[i] = [trigger[i] EXCEPT !.late = b]
        /\ ~trigger[i].manual /\ trigger[i].pc # "idle" => b
        /\ trigger'[i] \in Trigger
  <2> SUFFICES ASSUME NEW i \in Instances
               PROVE  \E b \in BOOLEAN :
                        /\ trigger'[i] = [trigger[i] EXCEPT !.late = b]
                        /\ ~trigger[i].manual /\ trigger[i].pc # "idle" => b
                        /\ trigger'[i] \in Trigger
    OBVIOUS
  <2> DEFINE b == trigger[i].late \/ (~trigger[i].manual /\ trigger[i].pc # "idle")
  <2>1. trigger[i] \in Trigger
    BY Parts DEF TypeInv, TriggerType
  <2>2. b \in BOOLEAN
    BY <2>1 DEF Trigger
  <2>3. trigger'[i] = [trigger[i] EXCEPT !.late = b]
    BY <2>1 DEF NewMinute, Trigger
  <2>4. ~trigger[i].manual /\ trigger[i].pc # "idle" => b
    OBVIOUS
  <2> HIDE DEF b
  <2>5. trigger'[i] \in Trigger
    BY <2>2, <2>3, <2>1 DEF Trigger
  <2> QED BY <2>2, <2>3, <2>4, <2>5
<1>5. TriggerType'
  <2>1. trigger' = [i \in Instances |-> trigger'[i]]
    BY DEF NewMinute
  <2> QED BY <1>4, <2>1 DEF TriggerType
<1>6. RestType
  BY <1>5, Parts DEF TypeInv, RestType, NewMinute, counts, SourceType, TickType, UserType, CountsType
<1>7. UNCHANGED <<source, mishap, user>>
  BY DEF NewMinute, counts
<1>8. TypeInv'
  BY <1>3, <1>6, AllGoType
<1> QED BY <1>3, <1>4, <1>7, <1>8

LEMMA ManualType ==
  ASSUME TypeInv, NEW i \in Instances, ManualSync(i)
  PROVE  TypeInv' /\ "manual" \in mishap' /\ mishap \subseteq mishap' /\ UNCHANGED <<source, sync, user>>
         /\ \E t \in Trigger : TriggerBecomes(i, t) /\ t.pc = "checked" /\ t.sync = NoSync
<1> DEFINE t == [NoTrigger EXCEPT !.pc = "checked", !.manual = TRUE, !.copy = Loaded]
<1>1. t \in Trigger /\ t.pc = "checked" /\ t.sync = NoSync
  BY Parts, BlankTypes, LoadedType DEF TypeInv, Trigger, NoTrigger
<1>2. trigger' = [trigger EXCEPT ![i] = t]
  BY DEF ManualSync
<1> HIDE DEF t
<1>3. TriggerBecomes(i, t)
  BY <1>1, <1>2, Parts, TriggerSet DEF TypeInv
<1>4. {"manual"} \subseteq Mishaps
  BY DEF Mishaps, Causes
<1>5. CountsType'
  <2>1. mishap' \subseteq Mishaps
    BY <1>4, NoteType DEF ManualSync
  <2> QED BY <2>1 DEF TypeInv, SyncTypeOK, ManualSync, Request, CountsType
<1>6. RestType
  BY <1>3, <1>5, Parts
     DEF TypeInv, RestType, ManualSync, SourceType, TickType, UserType, TriggerType, TriggerBecomes
<1>7. "manual" \in mishap' /\ mishap \subseteq mishap' /\ UNCHANGED <<source, sync, user>>
  BY DEF ManualSync, Note
<1> QED BY <1>1, <1>3, <1>6, <1>7, StaysType

\* The trigger of instance i is over.
TriggerDone(i) == TriggerBecomes(i, NoTrigger)

LEMMA DoneType ==
  ASSUME TypeInv, NEW i \in Instances, trigger' = [trigger EXCEPT ![i] = NoTrigger]
  PROVE  TriggerDone(i) /\ TriggerType'
<1>1. TriggerBecomes(i, NoTrigger)
  BY Parts, BlankTypes, TriggerSet DEF TypeInv
<1> QED BY <1>1 DEF TriggerDone, TriggerBecomes, TriggerType

LEMMA LogTriggerType ==
  ASSUME TypeInv, NEW i \in Instances, TriggerLog(i)
  PROVE  /\ TypeInv' /\ UNCHANGED <<source, mishap, user>> /\ trigger[i].pc = "checked"
         /\ \/ \E s \in Syncs : /\ Free(s)
                                 /\ SyncGoes(s, {"none"}, TRUE, FALSE)
                                 /\ \E t \in Trigger :
                                      /\ TriggerBecomes(i, t) /\ t.pc = "logged" /\ t.sync = s
                                      /\ t.manual = trigger[i].manual /\ t.late = trigger[i].late
            \/ TriggerDone(i) /\ UNCHANGED sync
<1>1. UNCHANGED <<source, mishap, user>> /\ trigger[i].pc = "checked"
  BY DEF TriggerLog
<1>2. ASSUME NEW s \in Syncs, Free(s), sync' = [sync EXCEPT ![s] = [NoTask EXCEPT !.running = TRUE]],
             trigger' = [trigger EXCEPT ![i].pc = "logged", ![i].sync = s], UNCHANGED faults
      PROVE  /\ TypeInv' /\ SyncGoes(s, {"none"}, TRUE, FALSE)
             /\ \E t \in Trigger :
                  /\ TriggerBecomes(i, t) /\ t.pc = "logged" /\ t.sync = s
                  /\ t.manual = trigger[i].manual /\ t.late = trigger[i].late
  <2> DEFINE t == [NoTask EXCEPT !.running = TRUE]
             g == [trigger[i] EXCEPT !.pc = "logged", !.sync = s]
  <2>1. /\ t \in Task /\ t.pc = "none" /\ t.running = TRUE /\ t.fresh = FALSE
        /\ t.until = 0 /\ t.todo = {}
    BY BlankTypes DEF NoTask, Task
  <2>2. g \in Trigger /\ TriggerType /\ trigger[i] \in Trigger
    BY TriggerMoves
  <2>3. g.pc = "logged" /\ g.sync = s /\ g.manual = trigger[i].manual /\ g.late = trigger[i].late
    BY <2>2 DEF Trigger
  <2>4. trigger' = [trigger EXCEPT ![i] = g]
    BY <1>2, <2>2 DEF TriggerType
  <2>5. sync' = [sync EXCEPT ![s] = t]
    BY <1>2
  <2> HIDE DEF t, g
  <2>6. TriggerBecomes(i, g)
    BY <2>2, <2>4, TriggerSet
  <2>7. SyncBecomes(s, t)
    BY <2>1, <2>5, SyncTyped, SyncSet
  <2>8. SyncGoes(s, {"none"}, TRUE, FALSE)
    BY <2>1, <2>7, EmptyTodo DEF SyncGoes
  <2>9. RestType
    BY <1>2, <2>6, Parts DEF TypeInv, RestType, TriggerLog, SourceType, TickType, UserType,
       CountsType, TriggerType, TriggerBecomes
  <2>10. TypeInv'
    BY <2>8, <2>9, GoesType
  <2> QED BY <2>2, <2>3, <2>6, <2>8, <2>10
<1>3. ASSUME Fault("database"), trigger' = [trigger EXCEPT ![i] = NoTrigger], UNCHANGED sync
      PROVE  TypeInv' /\ TriggerDone(i)
  <2>1. TriggerDone(i) /\ TriggerType'
    BY <1>3, DoneType
  <2>2. RestType
    BY <1>1, <1>3, <2>1, FaultType, Parts DEF TypeInv, RestType, TriggerLog, SourceType, TickType, UserType,
       CountsType
  <2> QED BY <1>3, <2>1, <2>2, StaysType
<1>4. CASE \E s \in Syncs : /\ Free(s)
                            /\ sync' = [sync EXCEPT ![s] = [NoTask EXCEPT !.running = TRUE]]
                            /\ trigger' = [trigger EXCEPT ![i].pc = "logged", ![i].sync = s]
                            /\ UNCHANGED faults
  BY <1>1, <1>2, <1>4
<1>5. CASE Fault("database") /\ trigger' = [trigger EXCEPT ![i] = NoTrigger] /\ UNCHANGED sync
  BY <1>1, <1>3, <1>5
<1> QED BY <1>4, <1>5 DEF TriggerLog

LEMMA EnqueueType ==
  ASSUME TypeInv, NEW i \in Instances, TriggerEnqueue(i)
  PROVE  /\ TypeInv' /\ UNCHANGED <<source, user>> /\ mishap \subseteq mishap'
         /\ TriggerDone(i)
         /\ trigger[i].late => "late" \in mishap'
         /\ trigger[i].sync \in Syncs =>
              SyncGoes(trigger[i].sync, {"queued"}, sync[trigger[i].sync].running, ~trigger[i].manual)
<1> DEFINE s == trigger[i].sync
           t == [sync[s] EXCEPT !.pc = "queued", !.fresh = ~trigger[i].manual]
<1>1. TriggerDone(i) /\ TriggerType'
  BY DoneType DEF TriggerEnqueue
<1>2. mishap' \subseteq Mishaps /\ mishap \subseteq mishap' /\ (trigger[i].late => "late" \in mishap')
  BY DEF TriggerEnqueue, Note, TypeInv, SyncTypeOK, Mishaps, Causes
<1>3. RestType
  BY <1>1, <1>2, Parts DEF TypeInv, RestType, TriggerEnqueue, SourceType, TickType, UserType, CountsType
<1>4. trigger[i].manual \in BOOLEAN /\ s \in Syncs \cup {NoSync}
  BY Parts DEF TypeInv, TriggerType, Trigger
<1>5. sync \in [Syncs -> Task]
  BY Parts DEF TypeInv, SyncType
<1>6. sync' = [sync EXCEPT ![s].pc = "queued", ![s].fresh = ~trigger[i].manual]
  BY DEF TriggerEnqueue
<1>7. ASSUME s \in Syncs
      PROVE  SyncGoes(s, {"queued"}, sync[s].running, ~trigger[i].manual)
  <2>1. sync[s] \in Task /\ TodoOK(sync[s]) /\ SyncType
    BY <1>7, SyncTyped
  <2>2. sync' = [sync EXCEPT ![s] = t]
    BY <1>5, <1>6, <1>7
  <2>3. /\ t \in Task /\ t.pc = "queued" /\ t.running = sync[s].running /\ t.fresh = (~trigger[i].manual)
        /\ t.until = sync[s].until /\ t.todo = sync[s].todo
    BY <1>4, <2>1 DEF Task
  <2> HIDE DEF t
  <2>4. SyncBecomes(s, t) /\ TodoOK(t)
    BY <1>7, <2>1, <2>2, <2>3, SyncSet DEF TodoOK
  <2> QED BY <2>3, <2>4 DEF SyncGoes
<1>8. ASSUME s \notin Syncs
      PROVE  UNCHANGED sync
  BY <1>5, <1>6, <1>8
<1>9. TypeInv'
  <2> HIDE DEF s
  <2>1. CASE s \in Syncs
    BY <1>3, <1>7, <2>1, GoesType
  <2>2. CASE s \notin Syncs
    BY <1>3, <1>8, <2>2, StaysType
  <2> QED BY <2>1, <2>2
<1>10. UNCHANGED <<source, user>>
  BY DEF TriggerEnqueue
<1> QED BY <1>1, <1>2, <1>7, <1>9, <1>10

\* A log is closed: "canceled" or "failed".
LEMMA CloseGoes ==
  ASSUME TypeInv, NEW s \in Syncs, CloseLog(s)
  PROVE  SyncGoes(s, {sync[s].pc}, FALSE, sync[s].fresh)
<1> DEFINE t == [sync[s] EXCEPT !.running = FALSE]
<1>1. sync[s] \in Task /\ TodoOK(sync[s]) /\ SyncType
  BY SyncTyped
<1>2. sync' = [sync EXCEPT ![s] = t]
  BY <1>1 DEF CloseLog, SyncType
<1>3. /\ t \in Task /\ t.pc = sync[s].pc /\ t.running = FALSE /\ t.fresh = sync[s].fresh
      /\ t.until = sync[s].until /\ t.todo = sync[s].todo
  BY <1>1 DEF Task
<1> HIDE DEF t
<1>4. SyncBecomes(s, t) /\ TodoOK(t)
  BY <1>1, <1>2, <1>3, SyncSet DEF TodoOK
<1> QED BY <1>3, <1>4 DEF SyncGoes

LEMMA RefusedType ==
  ASSUME TypeInv, NEW i \in Instances, TriggerConflict(i) \/ TriggerRefused(i)
  PROVE  /\ TypeInv' /\ UNCHANGED user /\ OnlyAhead /\ source'.live = source.live
         /\ TriggerDone(i)
         /\ UNCHANGED sync \/ CloseLog(trigger[i].sync)
<1> DEFINE s == trigger[i].sync
<1>1. TriggerDone(i) /\ TriggerType'
  BY DoneType DEF TriggerConflict, TriggerRefused
<1>2. SourceType' /\ source'.live = source.live
  <2>1. SourceType
    BY Parts DEF TypeInv
  <2> DEFINE copy == [trigger[i].copy EXCEPT !.status = IF @ = "paused" THEN @ ELSE "error"]
  <2>2. copy \in Copy
    BY Parts DEF TypeInv, TriggerType, Trigger, Copy
  <2>3. source' = source \/ source' = Saved(copy)
    BY DEF TriggerConflict, TriggerRefused
  <2> HIDE DEF copy
  <2> QED BY <2>1, <2>2, <2>3, SavedType DEF SourceType
<1>3. CountsType' /\ UNCHANGED user /\ OnlyAhead
  <2>1. CountsType /\ {"unlogged"} \subseteq Mishaps /\ Ahead \cup {"unlogged"} \subseteq Mishaps
        /\ Ahead \subseteq {"ahead"}
    BY Parts DEF TypeInv, Mishaps, Ahead
  <2>2. UNCHANGED <<user, requests>>
    BY DEF TriggerConflict, TriggerRefused
  <2>3. faults' \in Nat
    <3>1. CASE TriggerConflict(i)
      BY <2>1, <3>1, FaultType DEF TriggerConflict, CountsType
    <3>2. CASE TriggerRefused(i)
      BY <3>2, FaultType DEF TriggerRefused
    <3> QED BY <3>1, <3>2
  <2>4. NoteAhead \/ Note(Ahead \cup {"unlogged"}) \/ Note({"unlogged"}) \/ UNCHANGED mishap
    BY DEF TriggerConflict, TriggerRefused
  <2>5. mishap' \subseteq Mishaps /\ OnlyAhead
    <3>1. CASE NoteAhead
      BY <3>1, AheadType
    <3>2. CASE Note(Ahead \cup {"unlogged"}) \/ Note({"unlogged"})
      BY <2>1, <3>2, NoteType DEF Note, OnlyAhead
    <3>3. CASE UNCHANGED mishap
      BY <2>1, <3>3 DEF CountsType, OnlyAhead
    <3> QED BY <2>4, <3>1, <3>2, <3>3
  <2> QED BY <2>1, <2>2, <2>3, <2>5 DEF CountsType
<1>4. RestType
  BY <1>1, <1>2, <1>3, Parts
     DEF TypeInv, RestType, TriggerConflict, TriggerRefused, TickType, UserType
<1>5. UNCHANGED sync \/ CloseLog(s)
  BY DEF TriggerConflict, TriggerRefused
<1>6. ASSUME s \notin Syncs, CloseLog(s)
      PROVE  UNCHANGED sync
  BY <1>6, Parts DEF CloseLog, TypeInv, SyncType
<1>7. s \in Syncs /\ CloseLog(s) => SyncGoes(s, {sync[s].pc}, FALSE, sync[s].fresh)
  BY CloseGoes
<1> HIDE DEF s
<1>8. TypeInv'
  <2>1. CASE s \in Syncs /\ CloseLog(s)
    BY <1>4, <1>7, <2>1, GoesType
  <2>2. CASE UNCHANGED sync
    BY <1>4, <2>2, StaysType
  <2> QED BY <1>5, <1>6, <2>1, <2>2
<1> QED BY <1>1, <1>2, <1>3, <1>5, <1>8 DEF s

LEMMA LoadType ==
  ASSUME TypeInv, NEW want \in {"pause", "resume", "delete"}, UserLoad(want)
  PROVE  /\ TypeInv' /\ UNCHANGED <<source, sync, trigger, mishap>>
         /\ user'.pc = "loaded"
<1>1. Loaded \in Copy
  BY Parts, LoadedType DEF TypeInv
<1>2. UserType' /\ user'.pc = "loaded"
  BY <1>1 DEF UserLoad, UserType
<1>3. CountsType'
  BY Parts DEF TypeInv, UserLoad, Request, CountsType
<1>4. RestType
  BY <1>2, <1>3, Parts DEF TypeInv, RestType, UserLoad, SourceType, TickType, TriggerType
<1> QED BY <1>2, <1>4, StaysType DEF UserLoad

LEMMA WriteType ==
  ASSUME TypeInv, UserWrite
  PROVE  /\ TypeInv' /\ UNCHANGED <<sync, trigger>> /\ OnlyAhead
         /\ source'.live => source.live
         /\ user'.want = "delete" => ~source'.live
<1>1. SourceType /\ UserType
  BY Parts DEF TypeInv
<1> DEFINE paused == [user.copy EXCEPT !.status = "paused"]
           active == [user.copy EXCEPT !.status = "active"]
<1>2. paused \in Copy /\ active \in Copy
  BY <1>1 DEF UserType, Copy
<1>3. /\ UserType' /\ user'.want = user.want
  BY <1>1 DEF UserWrite, UserType
<1>4. SourceType' /\ (source'.live => source.live) /\ (user'.want = "delete" => ~source'.live)
  <2>1. CASE user.want = "delete"
    <3>1. source' = [source EXCEPT !.live = FALSE]
      BY <2>1 DEF UserWrite
    <3> QED BY <1>1, <3>1 DEF SourceType
  <2>2. CASE user.want = "pause"
    <3>1. source' = Saved(paused)
      BY <2>2 DEF UserWrite
    <3> HIDE DEF paused
    <3> QED BY <1>1, <1>2, <1>3, <2>2, <3>1, SavedType DEF SourceType
  <2>3. CASE user.want = "resume"
    <3>1. source' = Saved(active)
      BY <2>3 DEF UserWrite
    <3> HIDE DEF active
    <3> QED BY <1>1, <1>2, <1>3, <2>3, <3>1, SavedType DEF SourceType
  <2> QED BY <1>1, <2>1, <2>2, <2>3 DEF UserType
<1>5. mishap' \subseteq Mishaps /\ OnlyAhead
  BY AheadType DEF UserWrite
<1>6. CountsType'
  BY <1>5, Parts DEF TypeInv, UserWrite, CountsType
<1>7. RestType
  BY <1>3, <1>4, <1>6, Parts DEF TypeInv, RestType, UserWrite, TickType, TriggerType
<1>8. UNCHANGED <<sync, trigger>>
  BY DEF UserWrite
<1> QED BY <1>4, <1>5, <1>7, <1>8, StaysType

LEMMA UserEndType ==
  ASSUME TypeInv, UserEnd
  PROVE  /\ TypeInv' /\ UNCHANGED <<source, trigger, mishap>> /\ user'.pc = "idle"
         /\ user.pc = "written"
         /\ \/ UNCHANGED sync
            \/ /\ user.want = "delete"
               /\ \A s \in Syncs : sync'[s] = [sync[s] EXCEPT !.running = FALSE]
<1>1. UserType' /\ user'.pc = "idle"
  BY BlankTypes DEF UserEnd, UserType, NoRequest
<1>2. TickType'
  <2>1. entry \in [Instances -> BOOLEAN] /\ ticked \in [Instances -> BOOLEAN]
    BY DEF TypeInv, SyncTypeOK
  <2>2. PICK i \in Instances : entry' = [entry EXCEPT ![i] = user.want = "resume"]
    BY DEF UserEnd
  <2>3. (user.want = "resume") \in BOOLEAN
    OBVIOUS
  <2>4. entry' \in [Instances -> BOOLEAN]
    BY <2>1, <2>2, <2>3
  <2> QED BY <2>1, <2>4 DEF UserEnd, TickType
<1>3. RestType
  BY <1>1, <1>2, Parts DEF TypeInv, RestType, UserEnd, SourceType, TriggerType, CountsType, counts
<1>4. UNCHANGED <<source, trigger, mishap>> /\ user.pc = "written"
  BY DEF UserEnd, counts
<1>5. CASE user.want # "delete"
  <2>1. UNCHANGED sync
    BY <1>5 DEF UserEnd
  <2> QED BY <1>1, <1>3, <1>4, <2>1, StaysType
<1>6. CASE user.want = "delete"
  <2>1. sync' = [s \in Syncs |-> [sync[s] EXCEPT !.running = FALSE]]
    BY <1>6 DEF UserEnd
  <2>2. \A s \in Syncs : sync'[s] \in Task /\ TodoOK(sync'[s])
    <3> SUFFICES ASSUME NEW s \in Syncs PROVE sync'[s] \in Task /\ TodoOK(sync'[s])
      OBVIOUS
    <3> DEFINE t == [sync[s] EXCEPT !.running = FALSE]
    <3>1. sync[s] \in Task /\ TodoOK(sync[s])
      BY SyncTyped
    <3>2. t \in Task /\ t.until = sync[s].until /\ t.todo = sync[s].todo /\ t.pc = sync[s].pc
      BY <3>1 DEF Task
    <3>3. sync'[s] = t
      BY <2>1
    <3> HIDE DEF t
    <3> QED BY <3>1, <3>2, <3>3 DEF TodoOK
  <2>3. SyncType'
    BY <2>1, <2>2 DEF SyncType
  <2>4. TypeInv'
    BY <1>3, <2>2, <2>3, AllGoType
  <2> QED BY <1>1, <1>4, <1>6, <2>1, <2>4
<1> QED BY <1>5, <1>6

LEMMA ChangeType ==
  ASSUME TypeInv, NEW e \in Items, Change(e)
  PROVE  TypeInv' /\ UNCHANGED <<source, sync, trigger, user, mishap>>
<1>1. feed \in Seq(Items) /\ Len(feed) \in Nat /\ Len(feed) <= MaxChanges
  BY LenProperties DEF TypeInv, SyncTypeOK
<1>2. /\ feed' \in Seq(Items) /\ Len(feed') = Len(feed) + 1
      /\ \A k \in 1 .. Len(feed) : feed'[k] = feed[k]
  BY <1>1, AppendProperties DEF Change
<1>3. FeedType'
  BY <1>1, <1>2, Bounds DEF Change, FeedType
<1>4. UNCHANGED <<source, sync, trigger, user, mishap>>
  BY DEF Change, counts
<1>5. SyncTypeOK'
  BY <1>3, Parts DEF TypeInv, Change, counts, SourceType, TickType, UserType, TriggerType,
     CountsType, SyncType
<1>6. ASSUME NEW s \in Syncs
      PROVE  TodoOK(sync[s])'
  <2>1. TodoOK(sync[s]) /\ sync'[s] = sync[s]
    BY <1>4, SyncTyped
  <2>2. sync[s].until \in Nat
    BY SyncTyped, Bounds DEF Task, Positions
  <2>3. \A k \in 1 .. sync[s].until : feed'[k] = feed[k]
    BY <1>1, <1>2, <2>1, <2>2 DEF TodoOK
  <2> QED BY <1>1, <1>2, <2>1, <2>2, <2>3 DEF TodoOK
<1> QED BY <1>4, <1>5, <1>6 DEF TypeInv

\* A crash that kills the syncs in mine and fails the logs in stale.
Reset(s, stale) == [sync[s] EXCEPT !.running = @ /\ s \notin stale]
Last(mine) == {s \in mine : ~MayRetry(sync[s])}
Running == {s \in Syncs : sync[s].running}
CrashOf(i, mine, stale) ==
  /\ sync' = [s \in Syncs |-> IF s \in Last(mine) THEN Over(Reset(s, stale))
                              ELSE IF s \in mine THEN Again(Reset(s, stale))
                              ELSE Reset(s, stale)]
  /\ Note((IF stale \ (Last(mine) \cup {s \in Syncs : s = trigger[i].sync}) # {}
           THEN {"reset"} ELSE {})
          \cup (IF {s \in Syncs : s = trigger[i].sync} \cap (Running \ stale) # {} THEN {"orphan"} ELSE {})
          \cup (IF Last(mine) \cap (Running \ stale) # {} THEN {"lost"} ELSE {})
          \cup (IF mine \ (Last(mine) \cup (Running \ stale) \cup stale) # {} THEN {"retry"} ELSE {}))

\* What becomes of each task, and what is noted.
CrashEffect(i, mine, stale) ==
  /\ \A s \in Syncs :
       /\ sync'[s].running = (sync[s].running /\ s \notin stale)
       /\ s \notin mine => sync'[s].pc = sync[s].pc /\ sync'[s].fresh = sync[s].fresh
       /\ s \in Last(mine) => sync'[s].pc = "none"
       /\ s \in mine \ Last(mine) => sync'[s].pc = "queued" /\ sync'[s].fresh = sync[s].fresh
  /\ \A s \in stale \ Last(mine) : s = trigger[i].sync \/ "reset" \in mishap'
  /\ \A s \in mine \ Last(mine) : s \in Running \/ "retry" \in mishap'

LEMMA CrashType ==
  ASSUME TypeInv, NEW i \in Instances, Crash(i)
  PROVE  /\ TypeInv' /\ UNCHANGED source /\ TriggerDone(i) /\ user' \in {user, NoRequest}
         /\ mishap \subseteq mishap'
         /\ \E mine \in SUBSET {s \in Syncs : sync[s].pc \in Working},
               stale \in SUBSET {s \in Syncs : sync[s].running} : CrashEffect(i, mine, stale)
<1>1. PICK mine \in SUBSET {s \in Syncs : sync[s].pc \in Working},
           stale \in SUBSET {s \in Syncs : sync[s].running} : CrashOf(i, mine, stale)
  BY DEF Crash, CrashOf, Last, Running, Reset
<1>2. TriggerDone(i) /\ TriggerType'
  BY DoneType DEF Crash
<1>3. \A s \in Syncs : /\ sync'[s] \in Task /\ TodoOK(sync'[s])
                       /\ sync'[s].running = (sync[s].running /\ s \notin stale)
                       /\ s \notin mine => sync'[s].pc = sync[s].pc /\ sync'[s].fresh = sync[s].fresh
                       /\ s \in Last(mine) => sync'[s].pc = "none"
                       /\ s \in mine \ Last(mine) => sync'[s].pc = "queued" /\ sync'[s].fresh = sync[s].fresh
  <2> SUFFICES ASSUME NEW s \in Syncs
               PROVE  /\ sync'[s] \in Task /\ TodoOK(sync'[s])
                      /\ sync'[s].running = (sync[s].running /\ s \notin stale)
                      /\ s \notin mine => sync'[s].pc = sync[s].pc /\ sync'[s].fresh = sync[s].fresh
                      /\ s \in Last(mine) => sync'[s].pc = "none"
                      /\ s \in mine \ Last(mine) => sync'[s].pc = "queued" /\ sync'[s].fresh = sync[s].fresh
    OBVIOUS
  <2> DEFINE b == sync[s].running /\ s \notin stale
             t == [sync[s] EXCEPT !.running = b]
  <2>1. sync[s] \in Task /\ TodoOK(sync[s]) /\ b \in BOOLEAN
    BY SyncTyped DEF Task
  <2>2. /\ t \in Task /\ t.running = b /\ t.pc = sync[s].pc /\ t.fresh = sync[s].fresh
        /\ t.until = sync[s].until /\ t.todo = sync[s].todo /\ t.retried = sync[s].retried
    BY <2>1 DEF Task
  <2>3. /\ s \in Last(mine) => sync'[s] = Over(t)
        /\ s \in mine \ Last(mine) => sync'[s] = Again(t)
        /\ s \notin mine => sync'[s] = t
    BY <1>1 DEF CrashOf, Reset, Last
  <2>4. Last(mine) \subseteq mine /\ (s \in mine \ Last(mine) => MayRetry(t))
    BY <2>2 DEF Last, MayRetry
  <2> HIDE DEF t, b
  <2>5. CASE s \notin mine
    <3>1. TodoOK(t)
      BY <2>1, <2>2 DEF TodoOK
    <3> QED BY <2>2, <2>3, <2>4, <2>5, <3>1 DEF b
  <2>6. CASE s \in Last(mine)
    <3>1. Over(t) \in Task /\ Over(t).pc = "none" /\ TodoOK(Over(t)) /\ Over(t).running = b
      BY <2>2, EndType, EmptyTodo
    <3> QED BY <2>3, <2>4, <2>6, <3>1 DEF b
  <2>7. CASE s \in mine \ Last(mine)
    <3>1. /\ Again(t) \in Task /\ Again(t).pc = "queued" /\ TodoOK(Again(t)) /\ Again(t).running = b
          /\ Again(t).fresh = sync[s].fresh
      BY <2>2, <2>4, <2>7, EndType, EmptyTodo
    <3> QED BY <2>3, <2>4, <2>7, <3>1 DEF b
  <2> QED BY <2>5, <2>6, <2>7
<1>4. SyncType'
  <2>1. sync' = [s \in Syncs |-> sync'[s]]
    BY <1>1 DEF CrashOf
  <2> QED BY <1>3, <2>1 DEF SyncType
<1>5. mishap' \subseteq Mishaps /\ mishap \subseteq mishap'
  BY <1>1 DEF CrashOf, Note, TypeInv, SyncTypeOK, Mishaps, Causes
<1>6. UserType' /\ user' \in {user, NoRequest}
  BY BlankTypes, Parts DEF Crash, TypeInv, UserType
<1>7. TickType'
  BY DEF Crash, TypeInv, SyncTypeOK, TickType
<1>8. faults' \in Nat
  BY FaultType DEF Crash
<1>9. RestType
  <2>1. UNCHANGED <<source, feed, docs, requests>>
    BY DEF Crash
  <2> QED BY <1>2, <1>5, <1>6, <1>7, <1>8, <2>1, Parts DEF TypeInv, RestType, SourceType, CountsType
<1>10. TypeInv'
  BY <1>3, <1>4, <1>9, AllGoType
<1>11. \A s \in stale \ Last(mine) : s = trigger[i].sync \/ "reset" \in mishap'
  BY <1>1 DEF CrashOf, Note
<1>12. \A s \in mine \ Last(mine) : s \in Running \/ "retry" \in mishap'
  <2> SUFFICES ASSUME NEW s \in mine \ Last(mine), s \notin Running PROVE "retry" \in mishap'
    OBVIOUS
  <2>1. s \notin stale
    BY DEF Running
  <2>2. mine \ (Last(mine) \cup (Running \ stale) \cup stale) # {}
    BY <2>1
  <2> QED BY <1>1, <2>2 DEF CrashOf, Note
<1>13. CrashEffect(i, mine, stale)
  BY <1>3, <1>11, <1>12 DEF CrashEffect
<1>14. UNCHANGED source
  BY DEF Crash
<1> QED BY <1>2, <1>5, <1>6, <1>10, <1>13, <1>14

-----------------------------------------------------------------------------
LEMMA InitTyped == Init => TypeInv
<1> SUFFICES ASSUME Init PROVE TypeInv
  OBVIOUS
<1>1. PICK setup \in Setups : /\ entry = [i \in Instances |-> i \in setup.entries]
                             /\ faults = setup.faults /\ requests = setup.requests
  BY DEF Init
<1>2. setup.faults \in Nat /\ setup.requests \in Nat
  BY SyncAssumption
<1>3. SourceType /\ TickType /\ CountsType /\ UserType
  BY <1>1, <1>2, BlankTypes, Bounds
     DEF Init, SourceType, Positions, TickType, CountsType, UserType
<1>4. FeedType
  <2>1. <<>> \in Seq(Items) /\ Len(<<>>) = 0
    BY EmptySeq
  <2> QED BY <2>1, Bounds DEF Init, FeedType
<1>5. SyncType /\ TriggerType /\ docs \subseteq Doc
  BY BlankTypes DEF Init, SyncType, TriggerType
<1>6. SyncTypeOK
  BY <1>3, <1>4, <1>5, Parts
<1>7. \A s \in Syncs : TodoOK(sync[s])
  <2>1. Len(feed) = 0
    BY EmptySeq DEF Init
  <2>2. TodoOK(NoTask)
    BY <2>1 DEF NoTask, TodoOK
  <2> QED BY <2>2 DEF Init
<1> QED BY <1>6, <1>7 DEF TypeInv

LEMMA SyncStepTyped ==
  ASSUME TypeInv, NEW s \in Syncs, SyncStep(s)
  PROVE  TypeInv'
<1>1. CASE SyncGone(s)
  BY <1>1, GoneGoes, GoesType
<1>2. CASE FetchIncremental(s)
  BY <1>2, FetchGoes, GoesType
<1>3. CASE IngestDelete(s)
  BY <1>3, DeleteGoes, GoesType
<1>4. CASE IngestCreate(s)
  BY <1>4, CreateGoes, GoesType
<1>5. CASE SyncLog(s)
  BY <1>5, LogGoes, GoesType
<1>6. CASE SyncSave(s)
  BY <1>6, SaveGoes, GoesType
<1> QED BY <1>1, <1>2, <1>3, <1>4, <1>5, <1>6 DEF SyncStep

LEMMA TypeStep ==
  ASSUME TypeInv, [Next]_vars
  PROVE  TypeInv'
<1>1. ASSUME NEW i \in Instances, Tick(i) \/ TriggerStep(i) \/ ManualSync(i) \/ Crash(i)
      PROVE  TypeInv'
  BY <1>1, TickType1, LogTriggerType, EnqueueType, RefusedType, ManualType, CrashType DEF TriggerStep
<1>2. CASE NewMinute
  BY <1>2, MinuteType
<1>3. ASSUME NEW s \in Syncs, SyncStep(s) PROVE TypeInv'
  BY <1>3, SyncStepTyped
<1>4. ASSUME NEW want \in {"pause", "resume", "delete"}, UserLoad(want) PROVE TypeInv'
  BY <1>4, LoadType
<1>5. CASE UserStep
  BY <1>5, WriteType, UserEndType DEF UserStep
<1>6. ASSUME NEW e \in Items, Change(e) PROVE TypeInv'
  BY <1>6, ChangeType
<1>7. CASE UNCHANGED vars
  <2>1. SyncTypeOK'
    BY <1>7 DEF TypeInv, vars, counts, SyncTypeOK
  <2>2. \A s \in Syncs : TodoOK(sync[s])'
    BY <1>7 DEF TypeInv, vars, TodoOK
  <2> QED BY <2>1, <2>2 DEF TypeInv
<1> QED BY <1>1, <1>2, <1>3, <1>4, <1>5, <1>6, <1>7 DEF Next

\* Every variable of the scheduler, the syncs and the users keeps its type, for any
\* number of instances, logs, items and changes; a document's version is always a
\* change that its item has had (ingestItem stores what FetchIncremental returned).
THEOREM SyncTypeCorrect == Spec => []SyncTypeOK
<1>1. TypeInv => SyncTypeOK
  BY DEF TypeInv
<1>2. TypeInv /\ [Next]_vars => TypeInv'
  BY TypeStep
<1> QED BY <1>1, <1>2, InitTyped, PTL DEF Spec

-----------------------------------------------------------------------------
(* Two scheduled syncs never work at the same time.                        *)

\* A task that fetches and stores, or may begin to without another log: one that
\* is about to save while its log still says "running" is retried under that log.
Active(t) == t.pc \in {"queued"} \cup Ingesting \/ (t.pc = "saving" /\ t.running)
NoCause == mishap \cap Causes = {}

\* A trigger that has written a log owns it, no task works on that log yet, and
\* no other trigger has it.
LinkInv ==
  /\ \A i \in Instances : IF trigger[i].pc = "logged"
                          THEN trigger[i].sync \in Syncs /\ sync[trigger[i].sync].pc = "none"
                          ELSE trigger[i].sync = NoSync
  /\ \A i, j \in Instances : trigger[i].sync = trigger[j].sync => i = j \/ trigger[i].sync = NoSync
  /\ user.pc = "written" /\ user.want = "delete" => ~source.live

\* While the source lives: a queued or working task's log is running, a trigger
\* that has seen no running log in this minute knows that every such task has
\* this minute's id, and there is one of them at most.
LiveInv ==
  /\ \A s \in Syncs : Active(sync[s]) => sync[s].running
  /\ \A i \in Instances : trigger[i].pc = "logged" => sync[trigger[i].sync].running
  /\ \A i \in Instances, s \in Syncs :
       trigger[i].pc # "idle" /\ ~trigger[i].late /\ Active(sync[s]) => sync[s].fresh
  /\ \A s, t \in Syncs : Active(sync[s]) /\ Active(sync[t]) => s = t

AloneInv ==
  NoCause => /\ \A i \in Instances : ~trigger[i].manual
             /\ \A s, t \in Syncs : sync[s].pc \in Ingesting /\ sync[t].pc \in Ingesting => s = t
             /\ source.live => LiveInv

FlowInv == TypeInv /\ LinkInv /\ AloneInv

LEMMA GoesFacts ==
  ASSUME NEW s \in Syncs, NEW stages, NEW b, NEW c, SyncGoes(s, stages, b, c)
  PROVE  /\ sync'[s].pc \in stages /\ sync'[s].running = b /\ sync'[s].fresh = c
         /\ \A r \in Syncs \ {s} : sync'[r] = sync[r]
BY DEF SyncGoes, SyncBecomes

\* A step of a sync whose task exists keeps the links.
LEMMA SyncLinks ==
  ASSUME LinkInv, NEW s \in Syncs, NEW stages, NEW b, NEW c, SyncGoes(s, stages, b, c),
         sync[s].pc # "none", UNCHANGED <<trigger, user>>, source'.live = source.live
  PROVE  LinkInv'
<1>1. /\ sync'[s].pc \in stages /\ sync'[s].running = b
      /\ \A r \in Syncs \ {s} : sync'[r] = sync[r]
  BY GoesFacts
<1>2. \A i \in Instances : trigger[i].pc = "logged" => trigger[i].sync # s
  BY DEF LinkInv
<1> QED BY <1>1, <1>2 DEF LinkInv

LEMMA CausesGrow ==
  ASSUME mishap \subseteq mishap', NoCause'
  PROVE  NoCause
BY DEF NoCause

\* A sync that goes on, or starts while the source lives, works alone as before.
LEMMA GoesOn ==
  ASSUME FlowInv, NEW s \in Syncs, NEW stages, SyncGoes(s, stages, sync[s].running, sync[s].fresh),
         stages \subseteq {"saving"} \cup Ingesting,
         sync[s].pc \in Ingesting \/ (sync[s].pc = "queued" /\ source.live),
         UNCHANGED <<source, trigger, user>>, mishap \subseteq mishap'
  PROVE  LinkInv' /\ AloneInv'
<1>1. /\ sync'[s].pc \in {"saving"} \cup Ingesting
      /\ sync'[s].running = sync[s].running /\ sync'[s].fresh = sync[s].fresh
      /\ \A r \in Syncs \ {s} : sync'[r] = sync[r]
  BY GoesFacts
<1>2. Active(sync[s]) /\ sync[s].pc # "none"
  BY DEF Active, Ingesting
<1>3. LinkInv'
  BY <1>2, SyncLinks DEF FlowInv
<1>4. ASSUME NoCause' PROVE NoCause
  BY <1>4, CausesGrow
<1>5. \A r \in Syncs : Active(sync'[r]) => /\ Active(sync[r])
                                               /\ sync'[r].running = sync[r].running
                                               /\ sync'[r].fresh = sync[r].fresh
  BY <1>1, <1>2
<1>6. ASSUME NoCause', source.live
      PROVE  LiveInv'
  <2>1. LiveInv
    BY <1>4, <1>6 DEF FlowInv, AloneInv
  <2>2. \A i \in Instances : trigger[i].pc = "logged" => trigger[i].sync \in Syncs \ {s}
    BY <1>2 DEF FlowInv, LinkInv
  <2> QED BY <1>1, <1>5, <2>1, <2>2 DEF LiveInv
<1>7. ASSUME NoCause'
      PROVE  \A q, r \in Syncs : sync'[q].pc \in Ingesting /\ sync'[r].pc \in Ingesting => q = r
  <2>1. CASE sync[s].pc \in Ingesting
    BY <1>1, <1>4, <1>7, <2>1 DEF FlowInv, AloneInv
  <2>2. CASE source.live
    <3>1. LiveInv'
      BY <1>6, <1>7, <2>2
    <3> QED BY <3>1 DEF LiveInv, Active
  <2> QED BY <2>1, <2>2
<1>8. AloneInv'
  BY <1>4, <1>6, <1>7 DEF FlowInv, AloneInv
<1> QED BY <1>3, <1>8

\* A sync that stops working leaves the others alone.
LEMMA StopsWorking ==
  ASSUME FlowInv, NEW s \in Syncs, NEW stages, NEW b, NEW c, SyncGoes(s, stages, b, c),
         stages \subseteq {"none", "saving"}, "saving" \in stages => ~b,
         sync[s].pc # "none", UNCHANGED <<trigger, user>>, source'.live = source.live,
         mishap \subseteq mishap'
  PROVE  LinkInv' /\ AloneInv'
<1>1. ~Active(sync'[s]) /\ \A r \in Syncs \ {s} : sync'[r] = sync[r]
  <2>1. /\ sync'[s].pc \in stages /\ sync'[s].running = b
        /\ \A r \in Syncs \ {s} : sync'[r] = sync[r]
    BY GoesFacts
  <2>2. sync'[s].pc = "none" \/ (sync'[s].pc = "saving" /\ ~sync'[s].running)
    BY <2>1
  <2> QED BY <2>1, <2>2 DEF Active, Ingesting
<1>2. LinkInv'
  BY SyncLinks DEF FlowInv
<1>3. ASSUME NoCause' PROVE NoCause
  BY <1>3, CausesGrow
<1>4. \A r \in Syncs : Active(sync'[r]) => sync'[r] = sync[r]
  BY <1>1
<1>5. ASSUME NoCause', source.live
      PROVE  LiveInv'
  <2>1. LiveInv
    BY <1>3, <1>5 DEF FlowInv, AloneInv
  <2>2. \A i \in Instances : trigger[i].pc = "logged" => trigger[i].sync \in Syncs \ {s}
    BY DEF FlowInv, LinkInv
  <2> QED BY <1>1, <1>4, <2>1, <2>2 DEF LiveInv
<1>6. \A r \in Syncs : sync'[r].pc \in Ingesting => sync'[r] = sync[r]
  BY <1>4 DEF Active
<1>7. AloneInv'
  BY <1>3, <1>5, <1>6 DEF FlowInv, AloneInv
<1> QED BY <1>2, <1>7

LEMMA SyncStepFlow ==
  ASSUME FlowInv, NEW s \in Syncs, SyncStep(s)
  PROVE  LinkInv' /\ AloneInv'
<1> USE DEF FlowInv
<1>1. CASE SyncGone(s)
  <2>1. PICK b \in BOOLEAN : SyncGoes(s, {"none"}, b, FALSE)
    BY <1>1, GoneGoes
  <2>2. sync[s].pc # "none" /\ UNCHANGED <<source, trigger, user>> /\ mishap \subseteq mishap'
    BY <1>1, GoneGoes DEF SyncGone, SyncOnly
  <2> QED BY <2>1, <2>2, StopsWorking
<1>2. CASE FetchIncremental(s)
  <2>1. SyncGoes(s, {"ingesting", "fetched nothing"}, sync[s].running, sync[s].fresh)
    BY <1>2, FetchGoes
  <2>2. /\ UNCHANGED <<source, trigger, user>> /\ mishap \subseteq mishap'
        /\ sync[s].pc = "queued" /\ source.live
    BY <1>2 DEF FetchIncremental, SyncOnly, Note
  <2>3. {"ingesting", "fetched nothing"} \subseteq {"saving"} \cup Ingesting
    BY DEF Ingesting
  <2> QED BY <2>1, <2>2, <2>3, GoesOn
<1>3. CASE IngestDelete(s)
  <2>1. SyncGoes(s, {"creating"}, sync[s].running, sync[s].fresh)
    BY <1>3, DeleteGoes
  <2>2. UNCHANGED <<source, trigger, user>> /\ mishap \subseteq mishap' /\ sync[s].pc \in Ingesting
    BY <1>3 DEF IngestDelete, SyncOnly, Note, Ingesting
  <2>3. {"creating"} \subseteq {"saving"} \cup Ingesting
    BY DEF Ingesting
  <2> QED BY <2>1, <2>2, <2>3, GoesOn
<1>4. CASE IngestCreate(s)
  <2>1. SyncGoes(s, {"ingesting"}, sync[s].running, sync[s].fresh)
    BY <1>4, CreateGoes
  <2>2. UNCHANGED <<source, trigger, user>> /\ mishap \subseteq mishap' /\ sync[s].pc \in Ingesting
    BY <1>4 DEF IngestCreate, CreateFromFile, CreateFromURL, SyncOnly, Note, Ingesting
  <2>3. {"ingesting"} \subseteq {"saving"} \cup Ingesting
    BY DEF Ingesting
  <2> QED BY <2>1, <2>2, <2>3, GoesOn
<1>5. CASE SyncLog(s)
  <2>1. \/ SyncGoes(s, {"saving"}, FALSE, sync[s].fresh)
        \/ SyncGoes(s, {"saving"}, sync[s].running, sync[s].fresh)
    BY <1>5, LogGoes
  <2>2. /\ UNCHANGED <<source, trigger, user>> /\ mishap \subseteq mishap'
        /\ sync[s].pc \in Ingesting /\ sync[s].pc # "none"
    BY <1>5, LogGoes DEF SyncLog, SyncOnly, Ingesting
  <2>3. CASE SyncGoes(s, {"saving"}, FALSE, sync[s].fresh)
    BY <2>2, <2>3, StopsWorking
  <2>4. CASE SyncGoes(s, {"saving"}, sync[s].running, sync[s].fresh)
    BY <2>2, <2>4, GoesOn
  <2> QED BY <2>1, <2>3, <2>4
<1>6. CASE SyncSave(s)
  <2>1. sync[s].pc = "saving" /\ UNCHANGED <<trigger, user>>
    BY <1>6 DEF SyncSave
  <2>2. source'.live = source.live /\ mishap \subseteq mishap'
    BY <1>6, SaveGoes
  <2>3. CASE SyncGoes(s, {"none"}, sync[s].running, FALSE)
    BY <2>1, <2>2, <2>3, StopsWorking
  <2>4. CASE SyncGoes(s, {"queued"}, sync[s].running, sync[s].fresh) /\ "retry" \in mishap'
    <3>1. ~NoCause'
      BY <2>4 DEF NoCause, Causes
    <3>2. LinkInv'
      BY <2>1, <2>2, <2>4, SyncLinks
    <3> QED BY <3>1, <3>2 DEF AloneInv
  <2> QED BY <1>6, <2>3, <2>4, SaveGoes
<1> QED BY <1>1, <1>2, <1>3, <1>4, <1>5, <1>6 DEF SyncStep

-----------------------------------------------------------------------------
LEMMA TickFlow ==
  ASSUME FlowInv, NEW i \in Instances, Tick(i)
  PROVE  LinkInv' /\ AloneInv'
<1>1. /\ UNCHANGED <<source, sync, user>> /\ trigger[i].pc = "idle"
      /\ mishap \subseteq mishap' /\ (NoCause' => NoCause)
  BY TickType1, CausesGrow DEF FlowInv, Tick
<1>2. CASE UNCHANGED trigger
  BY <1>1, <1>2 DEF FlowInv, LinkInv, AloneInv, LiveInv
<1>3. ASSUME NEW t \in Trigger, TriggerBecomes(i, t), t = [trigger[i] EXCEPT !.pc = "checked"],
             (source.live /\ ~HasRunningSync) \/ "blind" \in mishap'
      PROVE  LinkInv' /\ AloneInv'
  <2>1. trigger[i] \in Trigger
    BY TriggerMoves DEF FlowInv
  <2>2. t.pc = "checked" /\ t.sync = trigger[i].sync /\ t.manual = trigger[i].manual
    BY <1>3, <2>1 DEF Trigger
  <2>3. trigger'[i] = t /\ \A j \in Instances \ {i} : trigger'[j] = trigger[j]
    BY <1>3 DEF TriggerBecomes
  <2>4. \A j \in Instances : /\ trigger'[j].sync = trigger[j].sync /\ trigger'[j].manual = trigger[j].manual
                             /\ trigger'[j].pc = "logged" <=> trigger[j].pc = "logged"
    BY <1>1, <2>2, <2>3
  <2>5. LinkInv'
    BY <1>1, <2>4 DEF FlowInv, LinkInv
  <2>6. ASSUME LiveInv, ~HasRunningSync PROVE LiveInv'
    <3>1. \A s \in Syncs : ~Active(sync[s])
      BY <2>6 DEF LiveInv, HasRunningSync
    <3> QED BY <1>1, <2>4, <2>6, <3>1 DEF LiveInv
  <2>7. CASE "blind" \in mishap'
    <3>1. ~NoCause'
      BY <2>7 DEF NoCause, Causes
    <3> QED BY <2>5, <3>1 DEF AloneInv
  <2>8. CASE ~HasRunningSync
    <3>1. ASSUME NoCause' PROVE NoCause
      BY <1>1, <3>1
    <3>2. \A j \in Instances : trigger'[j].manual = trigger[j].manual
      BY <2>4
    <3>3. LiveInv => LiveInv'
      BY <2>6, <2>8
    <3> QED BY <1>1, <2>5, <3>1, <3>2, <3>3 DEF FlowInv, AloneInv
  <2> QED BY <1>3, <2>5, <2>7, <2>8
<1> QED BY <1>2, <1>3, TickType1 DEF FlowInv

LEMMA MinuteFlow ==
  ASSUME FlowInv, NewMinute
  PROVE  LinkInv' /\ AloneInv'
<1>1. UNCHANGED <<source, mishap, user>>
  BY MinuteType DEF FlowInv
<1>2. \A s \in Syncs : sync'[s].pc = sync[s].pc /\ sync'[s].running = sync[s].running
  <2>1. ASSUME NEW s \in Syncs
        PROVE  sync'[s].pc = sync[s].pc /\ sync'[s].running = sync[s].running
    <3>1. sync'[s] = [sync[s] EXCEPT !.fresh = FALSE] /\ sync[s] \in Task
      BY MinuteType, SyncTyped DEF FlowInv
    <3> QED BY <3>1 DEF Task
  <2> QED BY <2>1
<1>3. \A i \in Instances : /\ trigger'[i].pc = trigger[i].pc /\ trigger'[i].sync = trigger[i].sync
                           /\ trigger'[i].manual = trigger[i].manual
                           /\ ~trigger[i].manual /\ trigger[i].pc # "idle" => trigger'[i].late
  <2>1. ASSUME NEW i \in Instances
        PROVE  /\ trigger'[i].pc = trigger[i].pc /\ trigger'[i].sync = trigger[i].sync
               /\ trigger'[i].manual = trigger[i].manual
               /\ ~trigger[i].manual /\ trigger[i].pc # "idle" => trigger'[i].late
    <3>1. PICK b \in BOOLEAN : /\ trigger'[i] = [trigger[i] EXCEPT !.late = b]
                               /\ ~trigger[i].manual /\ trigger[i].pc # "idle" => b
      BY MinuteType DEF FlowInv
    <3>2. trigger[i] \in Trigger
      BY Parts DEF FlowInv, TypeInv, TriggerType
    <3> QED BY <3>1, <3>2 DEF Trigger
  <2> QED BY <2>1
<1>4. LinkInv'
  BY <1>1, <1>2, <1>3 DEF FlowInv, LinkInv
<1>5. ASSUME NoCause, LiveInv PROVE LiveInv'
  <2>1. \A i \in Instances : trigger'[i].pc # "idle" => trigger'[i].late
    BY <1>3, <1>5 DEF FlowInv, AloneInv
  <2>2. \A i \in Instances : trigger[i].pc = "logged" => trigger[i].sync \in Syncs
    BY DEF FlowInv, LinkInv
  <2>3. \A s \in Syncs : Active(sync'[s]) <=> Active(sync[s])
    BY <1>2 DEF Active
  <2> QED BY <1>2, <1>3, <1>5, <2>1, <2>2, <2>3 DEF LiveInv
<1>6. AloneInv'
  BY <1>1, <1>2, <1>3, <1>5 DEF FlowInv, AloneInv, NoCause
<1> QED BY <1>4, <1>6

LEMMA ManualFlow ==
  ASSUME FlowInv, NEW i \in Instances, ManualSync(i)
  PROVE  LinkInv' /\ AloneInv'
<1>1. PICK t \in Trigger : TriggerBecomes(i, t) /\ t.pc = "checked" /\ t.sync = NoSync
  BY ManualType DEF FlowInv
<1>2. "manual" \in mishap' /\ UNCHANGED <<source, sync, user>>
  BY ManualType DEF FlowInv
<1>3. trigger'[i] = t /\ \A j \in Instances \ {i} : trigger'[j] = trigger[j]
  BY <1>1 DEF TriggerBecomes
<1>4. LinkInv'
  BY <1>1, <1>2, <1>3 DEF FlowInv, LinkInv
<1>5. ~NoCause'
  BY <1>2 DEF NoCause, Causes
<1> QED BY <1>4, <1>5 DEF AloneInv

\* A trigger that is over leaves the other triggers and their logs.
LEMMA DoneLinks ==
  ASSUME LinkInv, NEW i \in Instances, TriggerDone(i)
  PROVE  /\ trigger'[i].sync = NoSync /\ trigger'[i].pc = "idle"
         /\ ~trigger'[i].manual
         /\ \A j \in Instances \ {i} : trigger'[j] = trigger[j]
         /\ \A j \in Instances : trigger'[j].pc = "logged" =>
              j # i /\ trigger'[j].sync \in Syncs /\ trigger'[j].sync # trigger[i].sync
         /\ \A j, k \in Instances : trigger'[j].sync = trigger'[k].sync => j = k \/ trigger'[j].sync = NoSync
         /\ \A j \in Instances : trigger'[j].pc # "logged" => trigger'[j].sync = NoSync
<1>1. /\ trigger'[i].sync = NoSync /\ trigger'[i].pc = "idle" /\ ~trigger'[i].manual
      /\ \A j \in Instances \ {i} : trigger'[j] = trigger[j]
  BY DEF TriggerDone, TriggerBecomes, NoTrigger
<1>2. \A j \in Instances : trigger'[j].pc = "logged" =>
        j # i /\ trigger'[j].sync \in Syncs /\ trigger'[j].sync # trigger[i].sync
  <2> SUFFICES ASSUME NEW j \in Instances, trigger'[j].pc = "logged"
               PROVE  j # i /\ trigger'[j].sync \in Syncs /\ trigger'[j].sync # trigger[i].sync
    OBVIOUS
  <2>1. j # i /\ trigger'[j] = trigger[j]
    BY <1>1
  <2>2. trigger[j].sync \in Syncs /\ trigger[j].sync # NoSync
    BY <2>1, Bounds DEF LinkInv
  <2> QED BY <2>1, <2>2 DEF LinkInv
<1>3. \A j, k \in Instances : trigger'[j].sync = trigger'[k].sync => j = k \/ trigger'[j].sync = NoSync
  BY <1>1 DEF LinkInv
<1>4. \A j \in Instances : trigger'[j].pc # "logged" => trigger'[j].sync = NoSync
  BY <1>1 DEF LinkInv
<1> QED BY <1>1, <1>2, <1>3, <1>4

\* A trigger that gives up before it has a log.
LEMMA UnloggedFlow ==
  ASSUME FlowInv, NEW i \in Instances, TriggerLog(i), TriggerDone(i), UNCHANGED sync
  PROVE  LinkInv' /\ AloneInv'
<1>1. UNCHANGED <<source, mishap, user>>
  BY LogTriggerType DEF FlowInv
<1>2. /\ \A j \in Instances \ {i} : trigger'[j] = trigger[j]
      /\ trigger'[i].sync = NoSync /\ trigger'[i].pc = "idle" /\ ~trigger'[i].manual
      /\ \A j, k \in Instances : trigger'[j].sync = trigger'[k].sync => j = k \/ trigger'[j].sync = NoSync
  BY DoneLinks DEF FlowInv
<1>3. LinkInv'
  BY <1>1, <1>2 DEF FlowInv, LinkInv
<1>4. ASSUME LiveInv PROVE LiveInv'
  BY <1>2, <1>4 DEF LiveInv
<1>5. AloneInv'
  BY <1>1, <1>2, <1>4 DEF FlowInv, AloneInv, NoCause
<1> QED BY <1>3, <1>5

LEMMA LogFlow ==
  ASSUME FlowInv, NEW i \in Instances, TriggerLog(i), ~(TriggerDone(i) /\ UNCHANGED sync)
  PROVE  LinkInv' /\ AloneInv'
<1>1. UNCHANGED <<source, mishap, user>> /\ trigger[i].pc = "checked"
  BY LogTriggerType DEF FlowInv
<1>2. PICK s \in Syncs : /\ Free(s)
                         /\ SyncGoes(s, {"none"}, TRUE, FALSE)
                         /\ \E t \in Trigger :
                              /\ TriggerBecomes(i, t) /\ t.pc = "logged" /\ t.sync = s
                              /\ t.manual = trigger[i].manual /\ t.late = trigger[i].late
  BY LogTriggerType DEF FlowInv
<1>3. /\ sync'[s].pc = "none" /\ sync'[s].running = TRUE
      /\ \A r \in Syncs \ {s} : sync'[r] = sync[r]
  BY <1>2 DEF SyncGoes, SyncBecomes
<1>4. /\ trigger'[i].pc = "logged" /\ trigger'[i].sync = s
      /\ trigger'[i].manual = trigger[i].manual /\ trigger'[i].late = trigger[i].late
      /\ \A j \in Instances \ {i} : trigger'[j] = trigger[j]
  BY <1>2 DEF TriggerBecomes
<1>5. sync[s].pc = "none" /\ \A j \in Instances : trigger[j].sync # s
  BY <1>2 DEF Free
<1>6. LinkInv'
  <2>1. s # NoSync
    BY Bounds
  <2> QED BY <1>1, <1>3, <1>4, <1>5, <2>1 DEF FlowInv, LinkInv
<1>7. ~Active(sync'[s]) /\ "none" \notin Ingesting
  BY <1>3 DEF Active, Ingesting
<1>8. ASSUME LiveInv PROVE LiveInv'
  <2>1. \A r \in Syncs : Active(sync'[r]) => r # s /\ sync'[r] = sync[r]
    BY <1>3, <1>7
  <2>2. \A j \in Instances : trigger[j].pc = "logged" => trigger[j].sync \in Syncs \ {s}
    BY <1>5 DEF FlowInv, LinkInv
  <2>3. \A r \in Syncs : Active(sync'[r]) => sync'[r].running
    BY <1>8, <2>1 DEF LiveInv
  <2>4. \A j \in Instances : trigger'[j].pc = "logged" => sync'[trigger'[j].sync].running
    BY <1>3, <1>4, <1>8, <2>2 DEF LiveInv
  <2>5. \A j \in Instances, r \in Syncs :
          trigger'[j].pc # "idle" /\ ~trigger'[j].late /\ Active(sync'[r]) => sync'[r].fresh
    BY <1>1, <1>4, <1>8, <2>1 DEF LiveInv
  <2>6. \A q, r \in Syncs : Active(sync'[q]) /\ Active(sync'[r]) => q = r
    BY <1>8, <2>1 DEF LiveInv
  <2> QED BY <2>3, <2>4, <2>5, <2>6 DEF LiveInv
<1>9. \A r \in Syncs : sync'[r].pc \in Ingesting => sync'[r] = sync[r]
  BY <1>3, <1>7
<1>10. AloneInv'
  BY <1>1, <1>4, <1>8, <1>9 DEF FlowInv, AloneInv, NoCause
<1> QED BY <1>6, <1>10

\* The task of a trigger is queued: nothing else is at work, or it is noted.
LEMMA EnqueueFlow ==
  ASSUME FlowInv, NEW i \in Instances, TriggerEnqueue(i)
  PROVE  LinkInv' /\ AloneInv'
<1> DEFINE s == trigger[i].sync
<1>1. /\ UNCHANGED <<source, user>> /\ mishap \subseteq mishap' /\ TriggerDone(i)
      /\ trigger[i].late => "late" \in mishap'
  BY EnqueueType DEF FlowInv
<1>2. trigger[i].pc = "logged" /\ (trigger[i].manual \/ ~TaskIdTaken)
  BY DEF TriggerEnqueue
<1>3. s \in Syncs /\ sync[s].pc = "none"
  BY <1>2 DEF FlowInv, LinkInv
<1>4. SyncGoes(s, {"queued"}, sync[s].running, ~trigger[i].manual)
  BY <1>3, EnqueueType DEF FlowInv
<1>5. /\ \A j \in Instances \ {i} : trigger'[j] = trigger[j]
      /\ trigger'[i].pc = "idle" /\ ~trigger'[i].manual
      /\ \A j \in Instances : trigger'[j].pc = "logged" =>
           j # i /\ trigger'[j].sync \in Syncs /\ trigger'[j].sync # s
      /\ \A j, k \in Instances : trigger'[j].sync = trigger'[k].sync => j = k \/ trigger'[j].sync = NoSync
      /\ \A j \in Instances : trigger'[j].pc # "logged" => trigger'[j].sync = NoSync
  BY <1>1, DoneLinks DEF FlowInv
<1> HIDE DEF s
<1>6. /\ sync'[s].pc = "queued" /\ sync'[s].running = sync[s].running
      /\ sync'[s].fresh = (~trigger[i].manual)
      /\ \A r \in Syncs \ {s} : sync'[r] = sync[r]
  BY <1>4 DEF SyncGoes, SyncBecomes
<1>7. LinkInv'
  <2>1. \A j \in Instances : trigger'[j].pc = "logged" => sync'[trigger'[j].sync].pc = "none"
    BY <1>5, <1>6 DEF FlowInv, LinkInv
  <2>3. user'.pc = "written" /\ user'.want = "delete" => ~source'.live
    BY <1>1 DEF FlowInv, LinkInv
  <2> QED BY <1>5, <2>1, <2>3 DEF LinkInv
<1>8. ASSUME NoCause' PROVE NoCause /\ ~trigger[i].late /\ ~trigger[i].manual
  <2>1. NoCause
    BY <1>1, <1>8, CausesGrow
  <2> QED BY <1>1, <1>8, <2>1 DEF NoCause, Causes, FlowInv, AloneInv
<1>9. ASSUME NoCause', source.live
      PROVE  LiveInv'
  <2>1. LiveInv
    BY <1>8, <1>9 DEF FlowInv, AloneInv
  <2>2. \A r \in Syncs : ~Active(sync[r])
    <3> SUFFICES ASSUME NEW r \in Syncs, Active(sync[r]) PROVE FALSE
      OBVIOUS
    <3>1. sync[r].fresh
      BY <1>2, <1>8, <1>9, <2>1 DEF LiveInv
    <3>2. sync[r].pc # "none"
      BY DEF Active, Ingesting
    <3> QED BY <1>2, <1>8, <1>9, <3>1, <3>2 DEF TaskIdTaken
  <2>3. \A r \in Syncs : Active(sync'[r]) => r = s
    BY <1>6, <2>2
  <2>4. sync'[s].running
    BY <1>2, <1>6, <2>1 DEF LiveInv, s
  <2>5. sync'[s].fresh
    BY <1>6, <1>8, <1>9
  <2>6. \A j \in Instances : trigger'[j].pc = "logged" => sync'[trigger'[j].sync].running
    BY <1>5, <1>6, <2>1 DEF LiveInv
  <2> QED BY <2>3, <2>4, <2>5, <2>6 DEF LiveInv
<1>10. \A r \in Syncs : sync'[r].pc \in Ingesting => sync'[r] = sync[r]
  BY <1>6 DEF Ingesting
<1>11. AloneInv'
  BY <1>1, <1>5, <1>8, <1>9, <1>10 DEF FlowInv, AloneInv
<1> QED BY <1>7, <1>11

LEMMA RefusedFlow ==
  ASSUME FlowInv, NEW i \in Instances, TriggerConflict(i) \/ TriggerRefused(i)
  PROVE  LinkInv' /\ AloneInv'
<1> DEFINE s == trigger[i].sync
<1>1. UNCHANGED user /\ source'.live = source.live /\ TriggerDone(i) /\ (NoCause' => NoCause)
  BY RefusedType, CausesGrow DEF FlowInv, OnlyAhead
<1>2. s \in Syncs /\ sync[s].pc = "none"
  BY DEF TriggerConflict, TriggerRefused, FlowInv, LinkInv
<1>3. UNCHANGED sync \/ SyncGoes(s, {sync[s].pc}, FALSE, sync[s].fresh)
  BY <1>2, RefusedType, CloseGoes DEF FlowInv
<1>4. /\ \A j \in Instances \ {i} : trigger'[j] = trigger[j]
      /\ trigger'[i].pc = "idle" /\ ~trigger'[i].manual
      /\ \A j \in Instances : trigger'[j].pc = "logged" =>
           j # i /\ trigger'[j].sync \in Syncs /\ trigger'[j].sync # s
      /\ \A j, k \in Instances : trigger'[j].sync = trigger'[k].sync => j = k \/ trigger'[j].sync = NoSync
      /\ \A j \in Instances : trigger'[j].pc # "logged" => trigger'[j].sync = NoSync
  BY <1>1, DoneLinks DEF FlowInv
<1> HIDE DEF s
<1>5. sync'[s].pc = "none" /\ \A r \in Syncs \ {s} : sync'[r] = sync[r]
  BY <1>2, <1>3 DEF SyncGoes, SyncBecomes
<1>6. \A r \in Syncs : Active(sync'[r]) => sync'[r] = sync[r]
  BY <1>5 DEF Active, Ingesting
<1>7. LinkInv'
  <2>1. \A j \in Instances : trigger'[j].pc = "logged" => sync'[trigger'[j].sync].pc = "none"
    BY <1>4, <1>5 DEF FlowInv, LinkInv
  <2>3. user'.pc = "written" /\ user'.want = "delete" => ~source'.live
    BY <1>1 DEF FlowInv, LinkInv
  <2> QED BY <1>4, <2>1, <2>3 DEF LinkInv
<1>8. ASSUME LiveInv PROVE LiveInv'
  <2>1. \A j \in Instances : trigger'[j].pc = "logged" => sync'[trigger'[j].sync].running
    BY <1>4, <1>5, <1>8 DEF LiveInv
  <2> QED BY <1>4, <1>6, <1>8, <2>1 DEF LiveInv
<1>9. \A r \in Syncs : sync'[r].pc \in Ingesting => sync'[r] = sync[r]
  BY <1>6 DEF Active
<1>10. AloneInv'
  BY <1>1, <1>4, <1>8, <1>9 DEF FlowInv, AloneInv
<1> QED BY <1>7, <1>10

LEMMA UserFlow ==
  ASSUME FlowInv, UserStep \/ \E want \in {"pause", "resume", "delete"} : UserLoad(want)
  PROVE  LinkInv' /\ AloneInv'
<1>1. ASSUME NEW want \in {"pause", "resume", "delete"}, UserLoad(want)
      PROVE  LinkInv' /\ AloneInv'
  <2>1. UNCHANGED <<source, sync, trigger, mishap>> /\ user'.pc = "loaded"
    BY <1>1, LoadType DEF FlowInv
  <2> QED BY <2>1 DEF FlowInv, LinkInv, AloneInv, LiveInv, NoCause
<1>2. CASE UserWrite
  <2>1. /\ UNCHANGED <<sync, trigger>> /\ (source'.live => source.live)
        /\ (user'.want = "delete" => ~source'.live) /\ (NoCause' => NoCause)
    BY <1>2, WriteType, CausesGrow DEF FlowInv, OnlyAhead
  <2> QED BY <2>1 DEF FlowInv, LinkInv, AloneInv, LiveInv
<1>3. CASE UserEnd
  <2>1. UNCHANGED <<source, trigger, mishap>> /\ user'.pc = "idle" /\ user.pc = "written"
    BY <1>3, UserEndType DEF FlowInv
  <2>2. CASE UNCHANGED sync
    BY <2>1, <2>2 DEF FlowInv, LinkInv, AloneInv, LiveInv, NoCause
  <2>3. CASE /\ user.want = "delete"
             /\ \A s \in Syncs : sync'[s] = [sync[s] EXCEPT !.running = FALSE]
    <3>1. \A s \in Syncs : sync'[s].pc = sync[s].pc /\ ~sync'[s].running
      <4>1. ASSUME NEW s \in Syncs PROVE sync'[s].pc = sync[s].pc /\ ~sync'[s].running
        <5>1. sync'[s] = [sync[s] EXCEPT !.running = FALSE] /\ sync[s] \in Task
          BY <2>3, SyncTyped DEF FlowInv
        <5> QED BY <5>1 DEF Task
      <4> QED BY <4>1
    <3>2. ~source.live
      BY <2>1, <2>3 DEF FlowInv, LinkInv
    <3>3. LinkInv'
      BY <2>1, <3>1 DEF FlowInv, LinkInv
    <3>4. AloneInv'
      BY <2>1, <3>1, <3>2 DEF FlowInv, AloneInv, NoCause
    <3> QED BY <3>3, <3>4
  <2> QED BY <1>3, <2>2, <2>3, UserEndType DEF FlowInv
<1> QED BY <1>1, <1>2, <1>3 DEF UserStep

LEMMA CrashFlow ==
  ASSUME FlowInv, NEW i \in Instances, Crash(i)
  PROVE  LinkInv' /\ AloneInv'
<1>1. UNCHANGED source /\ TriggerDone(i) /\ user' \in {user, NoRequest} /\ mishap \subseteq mishap'
  BY CrashType DEF FlowInv
<1>2. PICK mine \in SUBSET {s \in Syncs : sync[s].pc \in Working},
           stale \in SUBSET {s \in Syncs : sync[s].running} : CrashEffect(i, mine, stale)
  BY CrashType DEF FlowInv
<1>3. /\ \A j \in Instances \ {i} : trigger'[j] = trigger[j]
      /\ trigger'[i].pc = "idle" /\ ~trigger'[i].manual
      /\ \A j \in Instances : trigger'[j].pc = "logged" =>
           j # i /\ trigger'[j].sync \in Syncs /\ trigger'[j].sync # trigger[i].sync
      /\ \A j, k \in Instances : trigger'[j].sync = trigger'[k].sync => j = k \/ trigger'[j].sync = NoSync
      /\ \A j \in Instances : trigger'[j].pc # "logged" => trigger'[j].sync = NoSync
  BY <1>1, DoneLinks DEF FlowInv
<1>4. \A s \in Syncs :
        /\ sync'[s].running = (sync[s].running /\ s \notin stale)
        /\ s \notin mine => sync'[s].pc = sync[s].pc /\ sync'[s].fresh = sync[s].fresh
        /\ s \in Last(mine) => sync'[s].pc = "none"
        /\ s \in mine \ Last(mine) => sync'[s].pc = "queued" /\ sync'[s].fresh = sync[s].fresh
  BY <1>2 DEF CrashEffect
<1>5. Last(mine) \subseteq mine /\ \A s \in Syncs : sync[s].pc = "none" => s \notin mine
  BY DEF Last, Working, Ingesting
<1>6. \A j \in Instances : trigger'[j].pc = "logged" => /\ trigger'[j].sync \notin mine
                                                       /\ sync[trigger'[j].sync].pc = "none"
  BY <1>3, <1>5 DEF FlowInv, LinkInv
<1>7. LinkInv'
  <2>1. \A j \in Instances : trigger'[j].pc = "logged" => sync'[trigger'[j].sync].pc = "none"
    BY <1>3, <1>4, <1>6
  <2>3. user'.pc = "written" /\ user'.want = "delete" => ~source'.live
    BY <1>1 DEF FlowInv, LinkInv, NoRequest
  <2> QED BY <1>3, <2>1, <2>3 DEF LinkInv
<1>8. ASSUME NoCause'
      PROVE  /\ NoCause /\ \A s \in stale \ Last(mine) : s = trigger[i].sync
             /\ \A s \in mine \ Last(mine) : sync[s].running
  <2>1. NoCause
    BY <1>1, <1>8, CausesGrow
  <2>2. "reset" \notin mishap' /\ "retry" \notin mishap'
    BY <1>8 DEF NoCause, Causes
  <2> QED BY <1>2, <2>1, <2>2 DEF CrashEffect, Running
<1>9. \A s \in Syncs : sync'[s].pc \in Ingesting => s \notin mine /\ sync[s].pc \in Ingesting
  BY <1>4 DEF Ingesting
\* What is active was active before, with its log running and no reset.
<1>10. ASSUME NoCause', NEW s \in Syncs, Active(sync'[s])
       PROVE  /\ Active(sync[s]) /\ sync'[s].fresh = sync[s].fresh /\ s \notin stale
  <2>1. sync'[s].pc # "none"
    BY <1>10 DEF Active, Ingesting
  <2>2. s \notin Last(mine) /\ sync'[s].fresh = sync[s].fresh
    BY <1>4, <1>10, <2>1
  <2>3. Active(sync[s])
    <3>1. CASE s \notin mine
      BY <1>4, <1>10, <3>1 DEF Active
    <3>2. CASE s \in mine
      <4>1. sync[s].running
        BY <1>8, <1>10, <2>2, <3>2
      <4> QED BY <3>2, <4>1 DEF Working, Active
    <3> QED BY <3>1, <3>2
  <2>4. s # trigger[i].sync
    <3> SUFFICES ASSUME s = trigger[i].sync PROVE FALSE
      OBVIOUS
    <3>1. trigger[i].pc = "logged"
      BY Bounds DEF FlowInv, LinkInv
    <3>2. sync[s].pc = "none"
      BY <3>1 DEF FlowInv, LinkInv
    <3> QED BY <2>3, <3>2 DEF Active, Ingesting
  <2>5. s \notin stale
    BY <1>8, <1>10, <2>2, <2>4
  <2> QED BY <2>2, <2>3, <2>5
<1>11. ASSUME NoCause', source.live
       PROVE  LiveInv'
  <2>1. LiveInv
    BY <1>8, <1>11 DEF FlowInv, AloneInv
  <2>2. \A s \in Syncs : Active(sync'[s]) => sync'[s].running
    BY <1>4, <1>10, <1>11, <2>1 DEF LiveInv
  <2>3. \A j \in Instances : trigger'[j].pc = "logged" => sync'[trigger'[j].sync].running
    <3> SUFFICES ASSUME NEW j \in Instances, trigger'[j].pc = "logged"
                 PROVE  sync'[trigger'[j].sync].running
      OBVIOUS
    <3>1. /\ j # i /\ trigger'[j] = trigger[j] /\ trigger[j].sync \in Syncs
          /\ trigger[j].sync # trigger[i].sync /\ trigger[j].sync \notin mine
      BY <1>3, <1>6
    <3>2. sync[trigger[j].sync].running
      BY <2>1, <3>1 DEF LiveInv
    <3>3. trigger[j].sync \notin stale
      BY <1>5, <1>8, <1>11, <3>1
    <3> QED BY <1>4, <3>1, <3>2, <3>3
  <2>4. \A j \in Instances, s \in Syncs :
          trigger'[j].pc # "idle" /\ ~trigger'[j].late /\ Active(sync'[s]) => sync'[s].fresh
    BY <1>3, <1>10, <1>11, <2>1 DEF LiveInv
  <2>5. \A s, t \in Syncs : Active(sync'[s]) /\ Active(sync'[t]) => s = t
    BY <1>10, <1>11, <2>1 DEF LiveInv
  <2> QED BY <2>2, <2>3, <2>4, <2>5 DEF LiveInv
<1>12. AloneInv'
  <2> SUFFICES ASSUME NoCause'
               PROVE  /\ \A j \in Instances : ~trigger'[j].manual
                      /\ \A s, t \in Syncs : sync'[s].pc \in Ingesting /\ sync'[t].pc \in Ingesting => s = t
                      /\ source'.live => LiveInv'
    BY DEF AloneInv
  <2> QED BY <1>1, <1>3, <1>8, <1>9, <1>11 DEF FlowInv, AloneInv
<1> QED BY <1>7, <1>12

-----------------------------------------------------------------------------
LEMMA FlowInit == Init => FlowInv
<1> SUFFICES ASSUME Init PROVE FlowInv
  OBVIOUS
<1>1. TypeInv
  BY InitTyped
<1>2. \A s \in Syncs : sync[s].pc = "none"
  BY DEF Init, NoTask
<1>3. \A i \in Instances : trigger[i].pc = "idle" /\ trigger[i].sync = NoSync /\ ~trigger[i].manual
  BY DEF Init, NoTrigger
<1>4. user.pc = "idle"
  BY DEF Init, NoRequest
<1>5. LinkInv
  BY <1>2, <1>3, <1>4 DEF LinkInv
<1>6. AloneInv
  BY <1>2, <1>3 DEF AloneInv, LiveInv, Active, Ingesting
<1> QED BY <1>1, <1>5, <1>6 DEF FlowInv

LEMMA FlowStep ==
  ASSUME FlowInv, [Next]_vars
  PROVE  FlowInv'
<1>1. TypeInv'
  BY TypeStep DEF FlowInv
<1>2. ASSUME NEW i \in Instances, Tick(i) \/ TriggerStep(i) \/ ManualSync(i) \/ Crash(i)
      PROVE  LinkInv' /\ AloneInv'
  BY <1>2, TickFlow, LogFlow, UnloggedFlow, EnqueueFlow, RefusedFlow, ManualFlow, CrashFlow DEF TriggerStep
<1>3. CASE NewMinute
  BY <1>1, <1>3, MinuteFlow DEF FlowInv
<1>4. ASSUME NEW s \in Syncs, SyncStep(s) PROVE LinkInv' /\ AloneInv'
  BY <1>4, SyncStepFlow
<1>5. CASE UserStep \/ \E want \in {"pause", "resume", "delete"} : UserLoad(want)
  BY <1>1, <1>5, UserFlow DEF FlowInv
<1>6. ASSUME NEW e \in Items, Change(e) PROVE LinkInv' /\ AloneInv'
  <2>1. UNCHANGED <<source, sync, trigger, user, mishap>>
    BY <1>6, ChangeType DEF FlowInv
  <2> QED BY <2>1 DEF FlowInv, LinkInv, AloneInv, LiveInv, NoCause
<1>7. CASE UNCHANGED vars
  BY <1>1, <1>7 DEF FlowInv, LinkInv, AloneInv, LiveInv, NoCause, vars, counts
<1> QED BY <1>1, <1>2, <1>3, <1>4, <1>5, <1>6, <1>7 DEF Next, FlowInv

\* However many instances trigger in however many minutes, two syncs fetch and
\* store at the same time only after a manual sync, a trigger that was a minute
\* late, a retried sync, a start-up that failed the log of a sync at work or logs
\* that could not be read: the
\* check of the logs and the minute's task id together are enough (triggerSync).
THEOREM NoOverlapCorrect == Spec => []NoOverlap
<1>1. FlowInv => NoOverlap
  BY DEF FlowInv, AloneInv, NoCause, NoOverlap
<1>2. FlowInv /\ [Next]_vars => FlowInv'
  BY FlowStep
<1> QED BY <1>1, <1>2, FlowInit, PTL DEF Spec

-----------------------------------------------------------------------------
(* Versions and the next item, for any feed                                *)

VersionIn(f, e, n) ==
  LET changes == {k \in 1 .. n : f[k] = e}
  IN IF changes = {} THEN 0 ELSE CHOOSE k \in changes : \A j \in changes : j <= k
NextOf(f, todo, n) ==
  CHOOSE e \in todo : \A g \in todo : VersionIn(f, e, n) <= VersionIn(f, g, n)

LEMMA VersionIsIn ==
  /\ \A e, n : Version(e, n) = VersionIn(feed, e, n) /\ Version(e, n)' = VersionIn(feed', e, n)
  /\ \A s : NextItem(s) = NextOf(feed, sync[s].todo, sync[s].until)
            /\ NextItem(s)' = NextOf(feed', sync'[s].todo, sync'[s].until)
<1>1. \A e, n : Version(e, n) = VersionIn(feed, e, n)
  BY DEF Version, VersionIn
<1>2. \A e, n : Version(e, n)' = VersionIn(feed', e, n)
  BY DEF Version, VersionIn
<1>3. \A s : NextItem(s) = NextOf(feed, sync[s].todo, sync[s].until)
  BY DEF NextItem, NextOf, Version, VersionIn
<1>4. \A s : NextItem(s)' = NextOf(feed', sync'[s].todo, sync'[s].until)
  BY DEF NextItem, NextOf, Version, VersionIn
<1> QED BY <1>1, <1>2, <1>3, <1>4

\* The version is the last change, or there is none.
LEMMA LastChange ==
  ASSUME NEW f, NEW e, NEW n \in Nat
  PROVE  /\ VersionIn(f, e, n) \in 0 .. n
         /\ VersionIn(f, e, n) # 0 => f[VersionIn(f, e, n)] = e
         /\ \A k \in 1 .. n : f[k] = e => k <= VersionIn(f, e, n)
<1> DEFINE changes == {k \in 1 .. n : f[k] = e}
<1>1. CASE changes = {}
  BY <1>1 DEF VersionIn
<1>2. CASE changes # {}
  <2>1. \E k \in changes : \A j \in changes : j <= k
    BY <1>2, LargestNat
  <2>2. /\ VersionIn(f, e, n) \in changes
        /\ \A j \in changes : j <= VersionIn(f, e, n)
    BY <1>2, <2>1 DEF VersionIn
  <2> QED BY <2>2
<1> QED BY <1>1, <1>2

\* Later positions see later changes, and only then another version.
LEMMA VersionGrows ==
  ASSUME NEW f, NEW e, NEW x \in Nat, NEW y \in Nat, x <= y
  PROVE  /\ VersionIn(f, e, x) <= VersionIn(f, e, y)
         /\ VersionIn(f, e, y) <= x => VersionIn(f, e, x) = VersionIn(f, e, y)
<1> DEFINE v == VersionIn(f, e, x)
           w == VersionIn(f, e, y)
<1>1. /\ v \in 0 .. x /\ (v # 0 => f[v] = e) /\ \A k \in 1 .. x : f[k] = e => k <= v
  BY LastChange
<1>2. /\ w \in 0 .. y /\ (w # 0 => f[w] = e) /\ \A k \in 1 .. y : f[k] = e => k <= w
  BY LastChange
<1> HIDE DEF v, w
<1>3. v <= w
  BY <1>1, <1>2
<1>4. w <= x => v = w
  BY <1>1, <1>2, <1>3
<1> QED BY <1>3, <1>4 DEF v, w

\* A change leaves the earlier versions as they are.
LEMMA VersionStays ==
  ASSUME NEW f, NEW g, NEW e, NEW n \in Nat, \A k \in 1 .. n : g[k] = f[k]
  PROVE  VersionIn(g, e, n) = VersionIn(f, e, n)
<1> DEFINE v == VersionIn(f, e, n)
           w == VersionIn(g, e, n)
<1>1. /\ v \in 0 .. n /\ (v # 0 => f[v] = e) /\ \A k \in 1 .. n : f[k] = e => k <= v
  BY LastChange
<1>2. /\ w \in 0 .. n /\ (w # 0 => g[w] = e) /\ \A k \in 1 .. n : g[k] = e => k <= w
  BY LastChange
<1> HIDE DEF v, w
<1>3. v <= w /\ w <= v
  BY <1>1, <1>2
<1>4. v = w
  BY <1>1, <1>2, <1>3
<1> QED BY <1>4 DEF v, w

\* Two items have no common change, so there is one next item.
LEMMA NextIsOne ==
  ASSUME NEW f, NEW todo, NEW n \in Nat, todo # {},
         \A e \in todo : \E k \in 1 .. n : f[k] = e
  PROVE  /\ NextOf(f, todo, n) \in todo
         /\ \A e \in todo : (\A g \in todo : VersionIn(f, e, n) <= VersionIn(f, g, n))
                            => e = NextOf(f, todo, n)
<1> DEFINE V(e) == VersionIn(f, e, n)
           T == {V(e) : e \in todo}
           next == NextOf(f, todo, n)
<1>1. \A e \in todo : V(e) \in 1 .. n /\ f[V(e)] = e
  <2> TAKE e \in todo
  <2>1. PICK k \in 1 .. n : f[k] = e
    OBVIOUS
  <2>2. V(e) \in 0 .. n /\ (V(e) # 0 => f[V(e)] = e) /\ k <= V(e)
    BY <2>1, LastChange
  <2> HIDE DEF V
  <2> QED BY <2>2
<1>2. T \in SUBSET Nat /\ T # {}
  BY <1>1
<1>3. PICK e0 \in todo : \A g \in todo : V(e0) <= V(g)
  <2> HIDE DEF V
  <2>1. PICK v \in T : \A x \in T : v <= x
    <3> HIDE DEF T
    <3> QED BY <1>2, SmallestNat
  <2> QED BY <2>1
<1>4. next \in todo /\ \A g \in todo : V(next) <= V(g)
  BY <1>3 DEF NextOf
<1> HIDE DEF V, next
<1>5. ASSUME NEW e \in todo, \A g \in todo : V(e) <= V(g)
      PROVE  e = next
  <2>1. V(e) <= V(next) /\ V(next) <= V(e)
    BY <1>4, <1>5
  <2>2. V(e) = V(next)
    BY <1>1, <1>4, <2>1
  <2> QED BY <1>1, <1>4, <2>2
<1> QED BY <1>4, <1>5 DEF V, next

LEMMA NextStays ==
  ASSUME NEW f, NEW g, NEW todo, NEW n \in Nat, todo # {}, \A k \in 1 .. n : g[k] = f[k],
         \A e \in todo : \E k \in 1 .. n : f[k] = e
  PROVE  NextOf(g, todo, n) = NextOf(f, todo, n)
<1>1. \A e : VersionIn(g, e, n) = VersionIn(f, e, n)
  BY VersionStays
<1> DEFINE next == NextOf(f, todo, n)
           V(e) == VersionIn(f, e, n)
<1>2. next \in todo /\ \A e \in todo : V(next) <= V(e)
  <2> DEFINE T == {V(e) : e \in todo}
  <2>1. T \in SUBSET Nat /\ T # {}
    BY LastChange
  <2>2. PICK e0 \in todo : \A h \in todo : V(e0) <= V(h)
    <3>1. PICK v \in T : \A x \in T : v <= x
      <4> HIDE DEF T
      <4> QED BY <2>1, SmallestNat
    <3> HIDE DEF V
    <3> QED BY <3>1
  <2> QED BY <2>2 DEF NextOf
<1>3. \A e \in todo : \E k \in 1 .. n : g[k] = e
  OBVIOUS
<1>4. \A e \in todo : VersionIn(g, next, n) <= VersionIn(g, e, n)
  BY <1>1, <1>2
<1> HIDE DEF next, V
<1>5. next = NextOf(g, todo, n)
  BY <1>2, <1>3, <1>4, NextIsOne
<1> QED BY <1>5 DEF next
-----------------------------------------------------------------------------
(* What the steps do to the syncs at work                                  *)

AtWork(s) == sync[s].pc \in Working

\* A sync that is still at work after the step is where it was.
SameTask(s) ==
  sync'[s].pc \in Working =>
    /\ sync[s].pc = sync'[s].pc /\ sync'[s].copy = sync[s].copy /\ sync'[s].until = sync[s].until
    /\ sync'[s].todo = sync[s].todo /\ sync'[s].failed = sync[s].failed
    /\ sync'[s].outcome = sync[s].outcome

LEMMA MishapsGrow ==
  ASSUME TypeInv, [Next]_vars
  PROVE  mishap \subseteq mishap'
<1>1. ASSUME NEW i \in Instances, Tick(i) \/ TriggerStep(i) \/ ManualSync(i) \/ Crash(i)
      PROVE  mishap \subseteq mishap'
  BY <1>1 DEF Tick, TriggerStep, TriggerLog, TriggerEnqueue, TriggerConflict, TriggerRefused,
              ManualSync, Crash, Note, NoteAhead
<1>2. CASE NewMinute \/ UserStep \/ \E want \in {"pause", "resume", "delete"} : UserLoad(want)
  BY <1>2 DEF NewMinute, UserStep, UserWrite, UserEnd, UserLoad, Note, NoteAhead, counts
<1>3. ASSUME NEW s \in Syncs, SyncStep(s) PROVE mishap \subseteq mishap'
  BY <1>3 DEF SyncStep, SyncGone, FetchIncremental, IngestDelete, IngestCreate, CreateFromFile,
              CreateFromURL, SyncLog, SyncSave, Note
<1>4. CASE (\E e \in Items : Change(e)) \/ UNCHANGED vars
  BY <1>4 DEF Change, counts, vars
<1> QED BY <1>1, <1>2, <1>3, <1>4 DEF Next

\* Whoever is not the sync leaves its work and the documents alone.
LEMMA WorkGoesOn ==
  ASSUME TypeInv, [Next]_vars, \A s \in Syncs : ~SyncStep(s)
  PROVE  /\ UNCHANGED docs /\ \A s \in Syncs : SameTask(s)
         /\ feed' = feed \/ \E e \in Items : Change(e)
<1>1. sync \in [Syncs -> Task] /\ trigger \in [Instances -> Trigger]
  BY Parts DEF TypeInv, SyncType, TriggerType
<1>2. CASE \E i \in Instances : Tick(i) \/ ManualSync(i)
  BY <1>2 DEF Tick, ManualSync, SameTask
<1>3. CASE NewMinute
  <2>1. UNCHANGED <<docs, feed>> /\ sync' = [s \in Syncs |-> [sync[s] EXCEPT !.fresh = FALSE]]
    BY <1>3 DEF NewMinute
  <2>2. ASSUME NEW s \in Syncs PROVE SameTask(s)
    <3>1. sync'[s] = [sync[s] EXCEPT !.fresh = FALSE] /\ sync[s] \in Task
      BY <1>1, <2>1
    <3> QED BY <3>1 DEF Task, SameTask
  <2> QED BY <2>1, <2>2
<1>4. CASE \E i \in Instances : TriggerLog(i)
  <2>1. UNCHANGED <<docs, feed>>
    BY <1>4 DEF TriggerLog
  <2>2. ASSUME NEW s \in Syncs, sync' = [sync EXCEPT ![s] = [NoTask EXCEPT !.running = TRUE]]
        PROVE  \A r \in Syncs : SameTask(r)
    <3>1. sync'[s].pc = "none" /\ \A r \in Syncs \ {s} : sync'[r] = sync[r]
      BY <1>1, <2>2 DEF NoTask
    <3> QED BY <3>1 DEF SameTask, Working, Ingesting
  <2>3. CASE UNCHANGED sync
    BY <2>1, <2>3 DEF SameTask
  <2>4. UNCHANGED sync
        \/ \E s \in Syncs : sync' = [sync EXCEPT ![s] = [NoTask EXCEPT !.running = TRUE]]
    BY <1>4 DEF TriggerLog
  <2> QED BY <2>1, <2>2, <2>3, <2>4
<1>5. CASE \E i \in Instances : TriggerEnqueue(i)
  <2> PICK i \in Instances : TriggerEnqueue(i)
    BY <1>5
  <2>1. UNCHANGED <<docs, feed>>
        /\ sync' = [sync EXCEPT ![trigger[i].sync].pc = "queued",
                                ![trigger[i].sync].fresh = ~trigger[i].manual]
    BY DEF TriggerEnqueue
  <2>2. ASSUME NEW s \in Syncs PROVE sync'[s].pc = "queued" \/ sync'[s] = sync[s]
    BY <1>1, <2>1 DEF Task
  <2>3. "queued" \notin Working
    BY DEF Working, Ingesting
  <2> QED BY <2>1, <2>2, <2>3 DEF SameTask
<1>6. CASE \E i \in Instances : TriggerConflict(i) \/ TriggerRefused(i)
  <2> PICK i \in Instances : TriggerConflict(i) \/ TriggerRefused(i)
    BY <1>6
  <2>1. /\ UNCHANGED <<docs, feed>>
        /\ UNCHANGED sync \/ sync' = [sync EXCEPT ![trigger[i].sync].running = FALSE]
    BY DEF TriggerConflict, TriggerRefused, CloseLog
  <2>2. ASSUME NEW s \in Syncs PROVE SameTask(s)
    <3>1. sync[s] \in Task
      BY <1>1
    <3>2. sync'[s] = sync[s] \/ sync'[s] = [sync[s] EXCEPT !.running = FALSE]
      BY <1>1, <2>1
    <3> QED BY <3>1, <3>2 DEF Task, SameTask
  <2> QED BY <2>1, <2>2
<1>7. CASE \E i \in Instances : Crash(i)
  <2> PICK i \in Instances : Crash(i)
    BY <1>7
  <2>1. PICK mine \in SUBSET {s \in Syncs : sync[s].pc \in Working},
             stale \in SUBSET {s \in Syncs : sync[s].running} :
          sync' = [s \in Syncs |-> IF s \in Last(mine) THEN Over(Reset(s, stale))
                                   ELSE IF s \in mine THEN Again(Reset(s, stale))
                                   ELSE Reset(s, stale)]
    BY DEF Crash, Last, Reset
  <2>2. UNCHANGED <<docs, feed>>
    BY <1>7 DEF Crash
  <2>3. ASSUME NEW s \in Syncs PROVE SameTask(s)
    <3>1. sync[s] \in Task
      BY <1>1
    <3>2. \/ sync'[s] = Over(Reset(s, stale)) \/ sync'[s] = Again(Reset(s, stale))
          \/ sync'[s] = Reset(s, stale)
      BY <2>1
    <3>3. Over(Reset(s, stale)).pc = "none" /\ Again(Reset(s, stale)).pc = "queued"
      BY DEF Over, Again, NoTask
    <3>4. {"none", "queued"} \cap Working = {}
      BY DEF Working, Ingesting
    <3> QED BY <3>1, <3>2, <3>3, <3>4 DEF Reset, Task, SameTask
  <2> QED BY <2>2, <2>3
<1>8. CASE UserStep \/ \E want \in {"pause", "resume", "delete"} : UserLoad(want)
  <2>1. UNCHANGED <<docs, feed>>
        /\ \/ sync' = sync
           \/ sync' = [s \in Syncs |-> [sync[s] EXCEPT !.running = FALSE]]
    BY <1>8 DEF UserStep, UserWrite, UserEnd, UserLoad
  <2>2. ASSUME NEW s \in Syncs PROVE SameTask(s)
    <3>1. sync[s] \in Task
      BY <1>1
    <3>2. sync'[s] = sync[s] \/ sync'[s] = [sync[s] EXCEPT !.running = FALSE]
      BY <1>1, <2>1
    <3> QED BY <3>1, <3>2 DEF Task, SameTask
  <2> QED BY <2>1, <2>2
<1>9. CASE (\E e \in Items : Change(e)) \/ UNCHANGED vars
  BY <1>9 DEF Change, vars, SameTask
<1> QED BY <1>2, <1>3, <1>4, <1>5, <1>6, <1>7, <1>8, <1>9 DEF Next, TriggerStep

Others(s) == \A r \in Syncs \ {s} : sync'[r] = sync[r]

LEMMA GoneFacts ==
  ASSUME TypeInv, NEW s \in Syncs, SyncGone(s)
  PROVE  Others(s) /\ ~AtWork(s)' /\ UNCHANGED <<docs, source, feed, user>>
<1>1. Others(s) /\ sync'[s].pc = "none"
  <2>1. PICK b \in BOOLEAN : SyncGoes(s, {"none"}, b, FALSE)
    BY GoneGoes
  <2> QED BY <2>1 DEF SyncGoes, SyncBecomes, Others
<1> QED BY <1>1 DEF SyncGone, SyncOnly, AtWork, Working, Ingesting

LEMMA FetchFacts ==
  ASSUME TypeInv, NEW s \in Syncs, FetchIncremental(s)
  PROVE  /\ Others(s) /\ UNCHANGED <<docs, source, feed, user>>
         /\ sync'[s].copy.cursor = source.cursor
         /\ sync'[s].pc \in {"ingesting", "fetched nothing"}
         /\ sync'[s].pc = "ingesting" =>
              /\ sync'[s].until = Len(feed)
              /\ sync'[s].todo = {feed[k] : k \in source.cursor + 1 .. Len(feed)}
         /\ (\E t \in Syncs : AtWork(t)) => "overlap" \in mishap'
<1>1. sync[s] \in Task /\ SyncType
  BY SyncTyped
<1>2. Others(s) /\ sync'[s].pc \in {"ingesting", "fetched nothing"}
  BY FetchGoes, GoesFacts DEF Others
<1>3. UNCHANGED <<docs, source, feed, user>> /\ mishap' = mishap \cup Overlap
  BY DEF FetchIncremental, SyncOnly, Note
<1>4. \/ sync' = [sync EXCEPT ![s].pc = "ingesting", ![s].copy = Loaded, ![s].until = Len(feed),
                              ![s].todo = {feed[k] : k \in source.cursor + 1 .. Len(feed)}]
      \/ sync' = [sync EXCEPT ![s].pc = "fetched nothing", ![s].copy = Loaded]
  BY DEF FetchIncremental
<1>5. sync'[s].copy = Loaded
      /\ (sync'[s].pc = "ingesting" =>
            /\ sync'[s].until = Len(feed)
            /\ sync'[s].todo = {feed[k] : k \in source.cursor + 1 .. Len(feed)})
  <2> DEFINE todo == {feed[k] : k \in source.cursor + 1 .. Len(feed)}
             t == [sync[s] EXCEPT !.pc = "ingesting", !.copy = Loaded, !.until = Len(feed),
                                  !.todo = todo]
             u == [sync[s] EXCEPT !.pc = "fetched nothing", !.copy = Loaded]
  <2>1. sync'[s] = t \/ sync'[s] = u
    BY <1>1, <1>4 DEF SyncType
  <2> HIDE DEF todo
  <2>2. /\ t.copy = Loaded /\ t.until = Len(feed) /\ t.todo = todo
        /\ u.pc = "fetched nothing" /\ u.copy = Loaded
    BY <1>1 DEF Task
  <2> HIDE DEF t, u
  <2> QED BY <2>1, <2>2 DEF todo
<1>6. sync'[s].copy.cursor = source.cursor
  BY <1>5 DEF Loaded
<1>7. (\E t \in Syncs : AtWork(t)) => "overlap" \in mishap'
  BY <1>3 DEF Overlap, AtWork
<1> QED BY <1>2, <1>3, <1>5, <1>6, <1>7

LEMMA DeleteFacts ==
  ASSUME TypeInv, NEW s \in Syncs, IngestDelete(s)
  PROVE  /\ Others(s) /\ UNCHANGED <<source, feed, user>>
         /\ sync[s].pc = "ingesting" /\ sync[s].todo # {} /\ sync'[s].pc = "creating"
         /\ sync'[s].copy = sync[s].copy /\ sync'[s].until = sync[s].until
         /\ sync'[s].todo = sync[s].todo /\ sync'[s].failed = sync[s].failed
         /\ \/ "failed" \in mishap'
            \/ \E old \in FindByMetadataKey(NextItem(s)) : docs' = docs \ old
<1>1. sync[s] \in Task /\ SyncType
  BY SyncTyped
<1>2. Others(s)
  BY DeleteGoes, GoesFacts DEF Others
<1>3. sync' = [sync EXCEPT ![s].pc = "creating"]
  BY DEF IngestDelete
<1>4. /\ sync'[s].pc = "creating" /\ sync'[s].copy = sync[s].copy /\ sync'[s].until = sync[s].until
      /\ sync'[s].todo = sync[s].todo /\ sync'[s].failed = sync[s].failed
  BY <1>1, <1>3 DEF SyncType, Task
<1>5. /\ UNCHANGED <<source, feed, user>> /\ sync[s].pc = "ingesting" /\ sync[s].todo # {}
      /\ \/ "failed" \in mishap'
         \/ \E old \in FindByMetadataKey(NextItem(s)) : docs' = docs \ old
  BY DEF IngestDelete, SyncOnly, Note
<1> QED BY <1>2, <1>4, <1>5

\* A document of version v is there, by the item's id or its URL, or the item is
\* passed over.
StoresOne(e, v) ==
  \/ docs' = docs \cup {[item |-> e, version |-> v, link |-> FALSE]}
  \/ docs' = docs \cup {[item |-> e, version |-> v, link |-> TRUE]} /\ "link" \in mishap'
  \/ docs' = docs /\ "skipped" \in mishap'

LEMMA CreateFacts ==
  ASSUME TypeInv, NEW s \in Syncs, IngestCreate(s)
  PROVE  LET e == NextItem(s)
         IN  /\ Others(s) /\ UNCHANGED <<source, feed, user>>
             /\ sync[s].pc = "creating" /\ sync'[s].pc = "ingesting"
             /\ sync'[s].copy = sync[s].copy /\ sync'[s].until = sync[s].until
             /\ sync'[s].todo = sync[s].todo \ {e}
             /\ \/ /\ StoresOne(e, Version(e, sync[s].until))
                   /\ sync'[s].failed = sync[s].failed
                \/ docs' = docs /\ sync'[s].failed = sync[s].failed \cup {e}
<1> DEFINE e == NextItem(s)
           next == [sync[s] EXCEPT !.pc = "ingesting", !.todo = @ \ {e}]
<1>1. sync[s] \in Task /\ SyncType
  BY SyncTyped
<1>2. Others(s)
  BY CreateGoes, GoesFacts DEF Others
<1>3. UNCHANGED <<source, feed, user>> /\ sync[s].pc = "creating"
  BY DEF IngestCreate, SyncOnly
<1> DEFINE v == Version(e, sync[s].until)
<1>4. \/ /\ StoresOne(e, v)
         /\ sync' = [sync EXCEPT ![s] = [next EXCEPT !.stored = TRUE]]
      \/ /\ docs' = docs
         /\ sync' = [sync EXCEPT ![s] = [next EXCEPT !.failed = @ \cup {e}]]
  <2>1. CreateFromFile(e, v) \/ CreateFromURL(e, v) => StoresOne(e, v)
    <3> HIDE DEF e, v
    <3> QED BY DEF CreateFromFile, CreateFromURL, StoresOne, Note
  <2> QED BY <2>1 DEF IngestCreate
<1> HIDE DEF e, v
<1>5. /\ next.pc = "ingesting" /\ next.copy = sync[s].copy /\ next.until = sync[s].until
      /\ next.todo = sync[s].todo \ {e} /\ next.failed = sync[s].failed
      /\ [next EXCEPT !.stored = TRUE].pc = "ingesting"
      /\ [next EXCEPT !.stored = TRUE].copy = sync[s].copy
      /\ [next EXCEPT !.stored = TRUE].until = sync[s].until
      /\ [next EXCEPT !.stored = TRUE].todo = sync[s].todo \ {e}
      /\ [next EXCEPT !.stored = TRUE].failed = sync[s].failed
      /\ [next EXCEPT !.failed = @ \cup {e}].pc = "ingesting"
      /\ [next EXCEPT !.failed = @ \cup {e}].copy = sync[s].copy
      /\ [next EXCEPT !.failed = @ \cup {e}].until = sync[s].until
      /\ [next EXCEPT !.failed = @ \cup {e}].todo = sync[s].todo \ {e}
      /\ [next EXCEPT !.failed = @ \cup {e}].failed = sync[s].failed \cup {e}
  BY <1>1 DEF Task
<1> HIDE DEF next
<1>6. \/ /\ StoresOne(e, v)
         /\ sync'[s] = [next EXCEPT !.stored = TRUE]
      \/ /\ docs' = docs
         /\ sync'[s] = [next EXCEPT !.failed = @ \cup {e}]
  BY <1>1, <1>4 DEF SyncType
<1> QED BY <1>2, <1>3, <1>5, <1>6 DEF e, v

LEMMA LogFacts ==
  ASSUME TypeInv, NEW s \in Syncs, SyncLog(s)
  PROVE  /\ Others(s) /\ UNCHANGED <<docs, source, feed, user>>
         /\ sync[s].pc \in {"ingesting", "fetched nothing"} /\ sync'[s].pc = "saving"
         /\ sync'[s].copy = sync[s].copy /\ sync'[s].until = sync[s].until
         /\ sync'[s].failed = sync[s].failed
         /\ sync'[s].outcome = "success" => sync[s].pc = "ingesting" /\ sync[s].todo = {}
<1>1. sync[s] \in Task /\ SyncType
  BY SyncTyped
<1>2. Others(s)
  BY LogGoes, GoesFacts DEF Others
<1>3. /\ sync'[s].pc = "saving" /\ sync'[s].copy = sync[s].copy /\ sync'[s].until = sync[s].until
      /\ sync'[s].failed = sync[s].failed /\ sync'[s].outcome = Outcome(sync[s])
  <2>1. CASE sync' = [sync EXCEPT ![s].running = FALSE, ![s].pc = "saving",
                                  ![s].outcome = Outcome(sync[s])]
    BY <1>1, <2>1 DEF SyncType, Task
  <2>2. CASE sync' = [sync EXCEPT ![s].pc = "saving", ![s].outcome = Outcome(sync[s])]
    BY <1>1, <2>2 DEF SyncType, Task
  <2> QED BY <2>1, <2>2 DEF SyncLog
<1>4. /\ UNCHANGED <<docs, source, feed, user>>
      /\ sync[s].pc = "fetched nothing" \/ (sync[s].pc = "ingesting" /\ sync[s].todo = {})
  BY DEF SyncLog, SyncOnly
<1> QED BY <1>2, <1>3, <1>4 DEF Outcome

LEMMA SaveFacts ==
  ASSUME TypeInv, NEW s \in Syncs, SyncSave(s)
  PROVE  /\ Others(s) /\ ~AtWork(s)' /\ sync[s].pc = "saving" /\ UNCHANGED <<docs, feed, user>>
         /\ source'.cursor \in {CursorAfter(sync[s]), source.cursor}
         /\ sync[s].outcome = "success" /\ sync[s].failed # {} => "failed" \in mishap'
<1>1. Others(s) /\ sync'[s].pc \in {"none", "queued"}
  <2>1. \/ SyncGoes(s, {"none"}, sync[s].running, FALSE)
        \/ SyncGoes(s, {"queued"}, sync[s].running, sync[s].fresh)
    BY SaveGoes
  <2>2. CASE SyncGoes(s, {"none"}, sync[s].running, FALSE)
    BY <2>2 DEF SyncGoes, SyncBecomes, Others
  <2>3. CASE SyncGoes(s, {"queued"}, sync[s].running, sync[s].fresh)
    BY <2>3, GoesFacts DEF Others
  <2> QED BY <2>1, <2>2, <2>3
<1>2. source'.cursor \in {CursorAfter(sync[s]), source.cursor}
  BY Parts DEF SyncSave, TypeInv, SourceType
<1>3. sync[s].outcome = "success" /\ sync[s].failed # {} => "failed" \in mishap'
  BY DEF SyncSave, Note
<1>4. sync[s].pc = "saving" /\ UNCHANGED <<docs, feed, user>>
  BY DEF SyncSave
<1> QED BY <1>1, <1>2, <1>3, <1>4 DEF AtWork, Working, Ingesting
\* The feed only grows.
LEMMA FeedGrows ==
  ASSUME TypeInv, [Next]_vars
  PROVE  /\ Len(feed) \in Nat /\ Len(feed') \in Nat /\ Len(feed) <= Len(feed')
         /\ \A k \in 1 .. Len(feed) : feed'[k] = feed[k]
<1>1. feed \in Seq(Items)
  BY DEF TypeInv, SyncTypeOK
<1>2. CASE feed' = feed
  BY <1>1, <1>2, LenProperties
<1>3. CASE \E e \in Items : Change(e)
  <2>1. PICK e \in Items : feed' = Append(feed, e)
    BY <1>3 DEF Change
  <2> QED BY <1>1, <2>1, AppendProperties, LenProperties
<1>4. CASE \E s \in Syncs : SyncStep(s)
  <2>1. feed' = feed
    BY <1>4, GoneFacts, FetchFacts, DeleteFacts, CreateFacts, LogFacts, SaveFacts DEF SyncStep
  <2> QED BY <1>2, <2>1
<1> QED BY <1>2, <1>3, <1>4, WorkGoesOn

-----------------------------------------------------------------------------
(* No document twice                                                       *)

Good == mishap \cap {"overlap", "failed", "link"} = {}
OneWorks == \A s, t \in Syncs : AtWork(s) /\ AtWork(t) => s = t
OneEach == \A d, f \in docs : d.item = f.item => d = f
\* The old document is gone before the new one comes.
Cleared(s) == sync[s].pc = "creating" => \A d \in docs : d.item # NextItem(s)
\* No document was made from a URL, so every one bears its item's id.
Unlinked == \A d \in docs : ~d.link
DupInv == /\ "overlap" \notin mishap => OneWorks
          /\ Good => OneEach /\ Unlinked /\ \A s \in Syncs : Cleared(s)

LEMMA GoodBefore ==
  ASSUME TypeInv, [Next]_vars, Good'
  PROVE  /\ Good /\ "overlap" \notin mishap /\ "overlap" \notin mishap'
         /\ "failed" \notin mishap' /\ "link" \notin mishap'
BY MishapsGrow DEF Good

\* A sync that goes on has the same item next.
LEMMA SameNext ==
  ASSUME TypeInv, [Next]_vars, NEW s \in Syncs, sync'[s].todo = sync[s].todo,
         sync'[s].until = sync[s].until, sync[s].todo # {}
  PROVE  NextItem(s)' = NextItem(s) /\ NextItem(s) \in sync[s].todo
<1>1. sync[s] \in Task /\ TodoOK(sync[s])
  BY SyncTyped
<1>2. sync[s].until \in Nat /\ sync[s].until <= Len(feed)
  BY <1>1, Bounds DEF Task, Positions, TodoOK
<1>3. \A k \in 1 .. sync[s].until : feed'[k] = feed[k]
  BY <1>2, FeedGrows
<1>4. NextOf(feed', sync[s].todo, sync[s].until) = NextOf(feed, sync[s].todo, sync[s].until)
  BY <1>1, <1>2, <1>3, NextStays DEF TodoOK
<1>5. NextItem(s)' = NextOf(feed', sync'[s].todo, sync'[s].until)
      /\ NextItem(s) = NextOf(feed, sync[s].todo, sync[s].until)
  BY VersionIsIn
<1>6. NextItem(s) \in sync[s].todo
  BY <1>2, NextIsToDo
<1> QED BY <1>4, <1>5, <1>6

\* While a sync works, no other begins without an overlap; and who works goes on.
LEMMA WorkersStay ==
  ASSUME TypeInv, [Next]_vars, "overlap" \notin mishap', OneWorks
  PROVE  /\ OneWorks'
         /\ \A s, t \in Syncs : AtWork(s) /\ s # t => ~AtWork(t)'
<1>1. "overlap" \notin mishap'
  OBVIOUS
<1>2. CASE \A s \in Syncs : ~SyncStep(s)
  <2>1. \A s \in Syncs : AtWork(s)' => AtWork(s)
    BY <1>2, WorkGoesOn DEF SameTask, AtWork
  <2> QED BY <2>1 DEF OneWorks
<1>3. ASSUME NEW s \in Syncs, SyncStep(s), AtWork(s) \/ ~AtWork(s)'
      PROVE  \A r \in Syncs : AtWork(r)' => AtWork(r)
  <2>1. Others(s)
    BY <1>3, GoneFacts, FetchFacts, DeleteFacts, CreateFacts, LogFacts, SaveFacts DEF SyncStep
  <2> QED BY <1>3, <2>1 DEF Others, AtWork
<1>4. ASSUME NEW s \in Syncs, FetchIncremental(s)
      PROVE  (\A t \in Syncs : ~AtWork(t)) /\ \A r \in Syncs \ {s} : ~AtWork(r)'
  BY <1>1, <1>4, FetchFacts DEF Others, AtWork
<1>5. ASSUME NEW s \in Syncs, SyncStep(s), ~FetchIncremental(s)
      PROVE  AtWork(s) \/ ~AtWork(s)'
  <2>1. CASE SyncGone(s) \/ SyncSave(s)
    BY <2>1, GoneFacts, SaveFacts
  <2>2. CASE IngestDelete(s) \/ IngestCreate(s) \/ SyncLog(s)
    BY <2>2 DEF IngestDelete, IngestCreate, SyncLog, AtWork, Working, Ingesting
  <2> QED BY <1>5, <2>1, <2>2 DEF SyncStep
<1>6. CASE \E s \in Syncs : FetchIncremental(s)
  BY <1>4, <1>6 DEF OneWorks
<1>7. CASE \E s \in Syncs : SyncStep(s) /\ ~FetchIncremental(s)
  <2>1. \A r \in Syncs : AtWork(r)' => AtWork(r)
    BY <1>3, <1>5, <1>7
  <2> QED BY <2>1 DEF OneWorks
<1> QED BY <1>2, <1>6, <1>7

LEMMA NextDup ==
  ASSUME TypeInv, DupInv, [Next]_vars
  PROVE  DupInv'
<1>0. ASSUME "overlap" \notin mishap' PROVE OneWorks /\ OneWorks'
  BY <1>0, MishapsGrow, WorkersStay DEF DupInv
<1> SUFFICES ASSUME Good' PROVE OneEach' /\ Unlinked' /\ \A s \in Syncs : Cleared(s)'
  BY <1>0 DEF DupInv
<1>1. OneWorks /\ OneEach /\ Unlinked /\ \A s \in Syncs : Cleared(s)
  BY GoodBefore, <1>0 DEF DupInv
<1>2. "overlap" \notin mishap' /\ "link" \notin mishap'
  BY GoodBefore
\* A sync that was creating and goes on with the documents as they are.
<1>3. ASSUME NEW r \in Syncs, UNCHANGED docs, sync'[r].pc = "creating", sync[r].pc = "creating",
             sync'[r].todo = sync[r].todo, sync'[r].until = sync[r].until
      PROVE  Cleared(r)'
  <2>1. sync[r].todo # {}
    BY <1>3, SyncTyped DEF TodoOK
  <2>2. NextItem(r)' = NextItem(r)
    BY <1>3, <2>1, SameNext
  <2> QED BY <1>1, <1>3, <2>2 DEF Cleared
<1>4. CASE \A s \in Syncs : ~SyncStep(s)
  <2>1. UNCHANGED docs /\ \A s \in Syncs : SameTask(s)
    BY <1>4, WorkGoesOn
  <2>2. ASSUME NEW r \in Syncs PROVE Cleared(r)'
    <3>1. CASE sync'[r].pc = "creating"
      BY <1>3, <2>1, <3>1 DEF SameTask, Working, Ingesting
    <3> QED BY <3>1 DEF Cleared
  <2> QED BY <1>1, <2>1, <2>2 DEF OneEach, Unlinked
<1>5. CASE \E s \in Syncs : \/ SyncGone(s) \/ FetchIncremental(s) \/ SyncLog(s) \/ SyncSave(s)
  <2> PICK s \in Syncs : \/ SyncGone(s) \/ FetchIncremental(s) \/ SyncLog(s) \/ SyncSave(s)
    BY <1>5
  <2>1. UNCHANGED docs /\ Others(s) /\ sync'[s].pc # "creating"
    BY GoneFacts, FetchFacts, LogFacts, SaveFacts DEF AtWork, Working, Ingesting
  <2>2. ASSUME NEW r \in Syncs PROVE Cleared(r)'
    <3>1. CASE sync'[r].pc = "creating"
      BY <1>3, <2>1, <3>1 DEF Others
    <3> QED BY <3>1 DEF Cleared
  <2> QED BY <1>1, <2>1, <2>2 DEF OneEach, Unlinked
<1>6. CASE \E s \in Syncs : IngestDelete(s)
  <2> PICK s \in Syncs : IngestDelete(s)
    BY <1>6
  <2>1. /\ Others(s) /\ sync[s].pc = "ingesting" /\ sync[s].todo # {} /\ sync'[s].pc = "creating"
        /\ sync'[s].until = sync[s].until /\ sync'[s].todo = sync[s].todo
        /\ \E old \in FindByMetadataKey(NextItem(s)) : docs' = docs \ old
    BY DeleteFacts, GoodBefore
  <2>2. NextItem(s)' = NextItem(s)
    BY <2>1, SameNext
  <2>3. docs' \subseteq docs /\ \A d \in docs' : d.item # NextItem(s)
    BY <1>1, <2>1 DEF FindByMetadataKey, OneEach, Unlinked
  <2>4. \A r \in Syncs \ {s} : sync'[r].pc # "creating"
    BY <2>1, WorkersStay, <1>1, <1>2 DEF AtWork, Working, Ingesting
  <2> QED BY <1>1, <2>2, <2>3, <2>4 DEF OneEach, Unlinked, Cleared
<1>7. CASE \E s \in Syncs : IngestCreate(s)
  <2> PICK s \in Syncs : IngestCreate(s)
    BY <1>7
  <2>1. /\ Others(s) /\ sync[s].pc = "creating" /\ sync'[s].pc = "ingesting"
        /\ StoresOne(NextItem(s), Version(NextItem(s), sync[s].until)) \/ docs' = docs
    BY CreateFacts
  <2>2. \A d \in docs : d.item # NextItem(s)
    BY <1>1, <2>1 DEF Cleared
  <2>3. OneEach' /\ Unlinked'
    <3> DEFINE n == NextItem(s)
               v == Version(n, sync[s].until)
               d == [item |-> n, version |-> v, link |-> FALSE]
    <3>1. docs' = docs \/ docs' = docs \cup {d}
      BY <1>2, <2>1 DEF StoresOne
    <3>2. d.item = n /\ ~d.link /\ \A f \in docs : f.item # n
      BY <2>2
    <3> HIDE DEF d, n
    <3> QED BY <1>1, <3>1, <3>2 DEF OneEach, Unlinked
  <2>4. \A r \in Syncs \ {s} : sync'[r].pc # "creating"
    BY <2>1, WorkersStay, <1>1, <1>2 DEF AtWork, Working, Ingesting
  <2> QED BY <2>1, <2>3, <2>4 DEF Cleared
<1> QED BY <1>4, <1>5, <1>6, <1>7 DEF SyncStep

LEMMA InitDup == Init => DupInv
<1> SUFFICES ASSUME Init PROVE DupInv
  OBVIOUS
<1>1. docs = {} /\ \A s \in Syncs : sync[s].pc = "none"
  BY DEF Init, NoTask
<1> QED BY <1>1 DEF DupInv, OneWorks, OneEach, Unlinked, Cleared, AtWork, Working, Ingesting

\* No item has two documents, however often its changes are fetched, by retries,
\* manual syncs and syncs that a crash has cut off between the delete and the create,
\* unless two syncs overlapped, an old document could not be deleted, or one was
\* made from the item's URL and so bears no id to find it by (ingestItem).
THEOREM NoDuplicatesCorrect == Spec => []NoDuplicates
<1>1. Init => TypeInv /\ DupInv
  BY InitTyped, InitDup
<1>2. TypeInv /\ DupInv /\ [Next]_vars => (TypeInv /\ DupInv)'
  BY TypeStep, NextDup
<1>3. DupInv => NoDuplicates
  BY DEF DupInv, Good, OneEach, NoDuplicates
<1> QED BY <1>1, <1>2, <1>3, PTL DEF Spec

-----------------------------------------------------------------------------
(* What the cursor has passed is stored                                    *)

\* An item is stored as of position x, or changes later.
HereIn(f, D, e, x) ==
  \/ VersionIn(f, e, x) = 0 \/ \E d \in D : d.item = e /\ d.version >= VersionIn(f, e, x)
  \/ VersionIn(f, e, Len(f)) > x
KeptIn(f, D, x) == \A e \in Items : HereIn(f, D, e, x)

\* Everything is stored up to the cursor that task t has copied, which is not
\* behind the row's, c.  What the task has still to ingest changes after it; all
\* else is stored as far as the task has fetched.
TaskIn(f, D, t, c) ==
  /\ c <= t.copy.cursor /\ t.copy.cursor <= Len(f) /\ KeptIn(f, D, t.copy.cursor)
  /\ t.pc \in {"ingesting", "creating"} =>
       /\ t.copy.cursor <= t.until
       /\ \A e \in t.todo : VersionIn(f, e, t.until) > t.copy.cursor
       /\ \A e \in Items : e \in t.todo \cup t.failed \/ HereIn(f, D, e, t.until)
  /\ t.pc = "saving" /\ t.outcome = "success" /\ t.failed = {} =>
       t.copy.cursor <= t.until /\ KeptIn(f, D, t.until)

CursorGood == mishap \cap {"overlap", "failed", "ahead", "skipped"} = {}
SourceKept == source.cursor <= Len(feed) /\ KeptIn(feed, docs, source.cursor)
TaskKept(s) == AtWork(s) => TaskIn(feed, docs, sync[s], source.cursor)
CursorInv == CursorGood => SourceKept /\ \A s \in Syncs : TaskKept(s)

\* What is stored up to x is stored up to any earlier position.
LEMMA KeptDown ==
  ASSUME NEW f, Len(f) \in Nat, NEW D \in SUBSET Doc, NEW x \in Nat, NEW y \in Nat, y <= x,
         KeptIn(f, D, x)
  PROVE  KeptIn(f, D, y)
<1> SUFFICES ASSUME NEW e \in Items PROVE HereIn(f, D, e, y)
  BY DEF KeptIn
<1> DEFINE v == VersionIn(f, e, x)
           w == VersionIn(f, e, y)
           l == VersionIn(f, e, Len(f))
<1>1. v \in Nat /\ w \in Nat /\ l \in Nat /\ w <= v
  <2>1. v \in 0 .. x /\ w \in 0 .. y /\ l \in 0 .. Len(f)
    BY LastChange
  <2> QED BY <2>1, VersionGrows
<1>2. \A d \in D : d.version \in Nat
  BY Bounds DEF Doc
<1>3. v = 0 \/ (\E d \in D : d.item = e /\ d.version >= v) \/ l > x
  BY DEF KeptIn, HereIn
<1> HIDE DEF v, w, l
<1>4. w = 0 \/ (\E d \in D : d.item = e /\ d.version >= w) \/ l > y
  BY <1>1, <1>2, <1>3
<1> QED BY <1>4 DEF HereIn, w, l

\* A longer feed, and more documents of the item, keep it stored.
LEMMA HereGrows ==
  ASSUME NEW f, NEW g, Len(f) \in Nat, Len(g) \in Nat, Len(f) <= Len(g),
         \A k \in 1 .. Len(f) : g[k] = f[k],
         NEW e, NEW D, NEW E, \A d \in D : d.item = e => d \in E,
         NEW x \in Nat, x <= Len(f), HereIn(f, D, e, x)
  PROVE  HereIn(g, E, e, x)
<1>1. VersionIn(g, e, x) = VersionIn(f, e, x)
  BY VersionStays
<1>2. VersionIn(f, e, Len(f)) <= VersionIn(g, e, Len(g))
  <2>1. VersionIn(g, e, Len(f)) = VersionIn(f, e, Len(f))
    BY VersionStays
  <2>2. VersionIn(g, e, Len(f)) <= VersionIn(g, e, Len(g))
    BY VersionGrows
  <2> QED BY <2>1, <2>2
<1>3. VersionIn(f, e, Len(f)) \in Nat /\ VersionIn(g, e, Len(g)) \in Nat
  <2>1. VersionIn(f, e, Len(f)) \in 0 .. Len(f) /\ VersionIn(g, e, Len(g)) \in 0 .. Len(g)
    BY LastChange
  <2> QED BY <2>1
<1>4. CASE VersionIn(f, e, Len(f)) > x
  <2>1. VersionIn(g, e, Len(g)) > x
    BY <1>2, <1>3, <1>4
  <2> QED BY <2>1 DEF HereIn
<1>5. CASE VersionIn(f, e, x) = 0 \/ \E d \in D : d.item = e /\ d.version >= VersionIn(f, e, x)
  BY <1>1, <1>5 DEF HereIn
<1> QED BY <1>4, <1>5 DEF HereIn

LEMMA KeptStays ==
  ASSUME TypeInv, [Next]_vars, docs \subseteq docs', NEW x \in Nat, x <= Len(feed),
         KeptIn(feed, docs, x)
  PROVE  KeptIn(feed', docs', x)
<1> SUFFICES ASSUME NEW e \in Items PROVE HereIn(feed', docs', e, x)
  BY DEF KeptIn
<1>1. HereIn(feed, docs, e, x)
  BY DEF KeptIn
<1> QED BY <1>1, FeedGrows, HereGrows

\* A task keeps what it knows while the documents stay and the row's cursor does
\* not move on.
LEMMA TaskStays ==
  ASSUME TypeInv, [Next]_vars, docs \subseteq docs', NEW t \in Task, TodoOK(t), NEW u,
         u.pc = t.pc, u.copy = t.copy, u.until = t.until, u.todo = t.todo, u.failed = t.failed,
         u.outcome = t.outcome, NEW c \in Nat, NEW d \in Nat, d <= c, TaskIn(feed, docs, t, c)
  PROVE  TaskIn(feed', docs', u, d)
<1>1. t.copy.cursor \in Nat /\ t.until \in Nat /\ t.until <= Len(feed)
  BY Bounds DEF Task, Copy, Positions, TodoOK
<1>2. /\ c <= t.copy.cursor /\ t.copy.cursor <= Len(feed) /\ KeptIn(feed, docs, t.copy.cursor)
  BY DEF TaskIn
<1>3. /\ Len(feed) \in Nat /\ Len(feed') \in Nat /\ Len(feed) <= Len(feed')
      /\ \A k \in 1 .. Len(feed) : feed'[k] = feed[k]
  BY FeedGrows
<1>4. d <= u.copy.cursor /\ u.copy.cursor <= Len(feed') /\ KeptIn(feed', docs', u.copy.cursor)
  BY <1>1, <1>2, <1>3, KeptStays
<1>5. ASSUME t.pc \in {"ingesting", "creating"}
      PROVE  /\ u.copy.cursor <= u.until
             /\ \A e \in u.todo : VersionIn(feed', e, u.until) > u.copy.cursor
             /\ \A e \in Items : e \in u.todo \cup u.failed \/ HereIn(feed', docs', e, u.until)
  <2>1. /\ t.copy.cursor <= t.until
        /\ \A e \in t.todo : VersionIn(feed, e, t.until) > t.copy.cursor
        /\ \A e \in Items : e \in t.todo \cup t.failed \/ HereIn(feed, docs, e, t.until)
    BY <1>5 DEF TaskIn
  <2>2. \A k \in 1 .. t.until : feed'[k] = feed[k]
    BY <1>1, <1>3
  <2>3. \A e : VersionIn(feed', e, t.until) = VersionIn(feed, e, t.until)
    BY <1>1, <2>2, VersionStays
  <2>4. ASSUME NEW e \in Items, HereIn(feed, docs, e, t.until)
        PROVE  HereIn(feed', docs', e, t.until)
    BY <1>1, <1>3, <2>4, HereGrows
  <2> QED BY <2>1, <2>3, <2>4
<1>6. ASSUME t.pc = "saving", t.outcome = "success", t.failed = {}
      PROVE  u.copy.cursor <= u.until /\ KeptIn(feed', docs', u.until)
  <2>1. t.copy.cursor <= t.until /\ KeptIn(feed, docs, t.until)
    BY <1>6 DEF TaskIn
  <2> QED BY <1>1, <2>1, KeptStays
<1> QED BY <1>4, <1>5, <1>6 DEF TaskIn

\* Only a sync moves the cursor forward, or it is noted.
LEMMA CursorBack ==
  ASSUME TypeInv, [Next]_vars, \A s \in Syncs : ~SyncStep(s), "ahead" \notin mishap'
  PROVE  source'.cursor <= source.cursor
<1>1. source.cursor \in Nat /\ source'.cursor \in Nat
  <2>1. SourceType /\ SourceType'
    BY TypeStep, Parts DEF TypeInv
  <2> QED BY <2>1, Bounds DEF SourceType, Positions
<1>2. CASE Ahead \subseteq mishap'
  BY <1>1, <1>2 DEF Ahead
<1>3. CASE UNCHANGED source
  BY <1>1, <1>3
<1>4. ASSUME NEW i \in Instances, Tick(i) \/ TriggerStep(i) \/ ManualSync(i) \/ Crash(i)
      PROVE  Ahead \subseteq mishap' \/ UNCHANGED source
  BY <1>4 DEF Tick, TriggerStep, TriggerLog, TriggerEnqueue, TriggerConflict, TriggerRefused,
              ManualSync, Crash, NoteAhead, Note
<1>5. CASE UserStep
  BY <1>2, <1>3, <1>5 DEF UserStep, UserWrite, UserEnd, NoteAhead, Note
<1>6. CASE \/ NewMinute \/ \E want \in {"pause", "resume", "delete"} : UserLoad(want)
           \/ \E e \in Items : Change(e)
           \/ UNCHANGED vars
  BY <1>3, <1>6 DEF NewMinute, UserLoad, Change, vars
<1> QED BY <1>2, <1>3, <1>4, <1>5, <1>6 DEF Next

LEMMA CursorFacts ==
  ASSUME TypeInv, NEW s \in Syncs
  PROVE  /\ source.cursor \in Nat /\ sync[s].copy.cursor \in Nat /\ sync[s].until \in Nat
         /\ sync[s].until <= Len(feed) /\ Len(feed) \in Nat /\ docs \in SUBSET Doc
         /\ sync[s] \in Task /\ TodoOK(sync[s])
<1>1. sync[s] \in Task /\ TodoOK(sync[s])
  BY SyncTyped
<1>2. SourceType /\ docs \subseteq Doc /\ feed \in Seq(Items)
  BY Parts DEF TypeInv, FeedType
<1>3. Len(feed) \in Nat
  BY <1>2, LenProperties
<1>4. sync[s].copy.cursor \in Nat /\ sync[s].until \in Nat /\ sync[s].until <= Len(feed)
  BY <1>1, Bounds DEF Task, Copy, Positions, TodoOK
<1>5. source.cursor \in Nat
  BY <1>2, Bounds DEF SourceType, Positions
<1> QED BY <1>1, <1>2, <1>3, <1>4, <1>5

\* What is not fetched has not changed since the cursor, so it is stored.
LEMMA FetchKeeps ==
  ASSUME TypeInv, NEW s \in Syncs, FetchIncremental(s), SourceKept
  PROVE  TaskKept(s)' /\ SourceKept'
<1>1. /\ UNCHANGED <<docs, source, feed, user>>
      /\ sync'[s].copy.cursor = source.cursor
      /\ sync'[s].pc \in {"ingesting", "fetched nothing"}
      /\ sync'[s].pc = "ingesting" =>
              /\ sync'[s].until = Len(feed)
              /\ sync'[s].todo = {feed[k] : k \in source.cursor + 1 .. Len(feed)}
  BY FetchFacts
<1>2. source.cursor \in Nat /\ Len(feed) \in Nat /\ source.cursor <= Len(feed)
  BY CursorFacts DEF SourceKept
<1>3. KeptIn(feed, docs, source.cursor)
  BY DEF SourceKept
<1>4. ASSUME sync'[s].pc = "ingesting"
      PROVE  /\ \A e \in sync'[s].todo : VersionIn(feed, e, sync'[s].until) > source.cursor
             /\ \A e \in Items : e \in sync'[s].todo \cup sync'[s].failed
                                 \/ HereIn(feed, docs, e, sync'[s].until)
  <2>1. /\ sync'[s].until = Len(feed)
        /\ sync'[s].todo = {feed[k] : k \in source.cursor + 1 .. Len(feed)}
    BY <1>1, <1>4
  <2>2. ASSUME NEW e \in sync'[s].todo
        PROVE  VersionIn(feed, e, Len(feed)) > source.cursor
    <3>1. PICK k \in source.cursor + 1 .. Len(feed) : feed[k] = e
      BY <2>1
    <3>2. k \in 1 .. Len(feed) /\ k > source.cursor
      BY <1>2
    <3>3. /\ VersionIn(feed, e, Len(feed)) \in 0 .. Len(feed)
          /\ k <= VersionIn(feed, e, Len(feed))
      BY <1>2, <3>1, <3>2, LastChange
    <3> QED BY <1>2, <3>2, <3>3
  <2>3. ASSUME NEW e \in Items, e \notin sync'[s].todo
        PROVE  HereIn(feed, docs, e, Len(feed))
    <3> DEFINE l == VersionIn(feed, e, Len(feed))
    <3>1. l \in 0 .. Len(feed) /\ (l # 0 => feed[l] = e)
      BY <1>2, LastChange
    <3>2. VersionIn(feed, e, source.cursor) <= l
          /\ (l <= source.cursor => VersionIn(feed, e, source.cursor) = l)
      BY <1>2, VersionGrows
    <3>3. HereIn(feed, docs, e, source.cursor)
      BY <1>3 DEF KeptIn
    <3>4. l <= source.cursor
      <4> HIDE DEF l
      <4>1. SUFFICES ASSUME l > source.cursor PROVE FALSE
        BY <1>2, <3>1
      <4>2. l \in source.cursor + 1 .. Len(feed) /\ l # 0
        BY <1>2, <3>1, <4>1
      <4>3. feed[l] \in sync'[s].todo
        BY <2>1, <4>2
      <4> QED BY <2>3, <3>1, <4>2, <4>3
    <3>5. VersionIn(feed, e, source.cursor) = l /\ ~(l > source.cursor)
      <4> HIDE DEF l
      <4> QED BY <1>2, <3>1, <3>2, <3>4
    <3>6. l = 0 \/ \E d \in docs : d.item = e /\ d.version >= l
      <4>1. VersionIn(feed, e, Len(feed)) = l
        OBVIOUS
      <4> HIDE DEF l
      <4> QED BY <3>3, <3>5, <4>1 DEF HereIn
    <3> QED BY <3>6 DEF HereIn
  <2> QED BY <2>1, <2>2, <2>3
<1>5. source.cursor <= Len(feed) /\ source.cursor <= source.cursor
  BY <1>2
<1>6. TaskIn(feed, docs, sync'[s], source.cursor)
  BY <1>1, <1>3, <1>4, <1>5 DEF TaskIn
<1>7. SourceKept'
  BY <1>1, <1>2, <1>3 DEF SourceKept
<1> QED BY <1>1, <1>6, <1>7 DEF TaskKept

\* The item whose document goes is still to do: it changes after the cursor.
LEMMA DeleteKeeps ==
  ASSUME TypeInv, NEW s \in Syncs, IngestDelete(s), SourceKept, TaskKept(s), "failed" \notin mishap'
  PROVE  TaskKept(s)' /\ SourceKept'
<1> DEFINE n == NextItem(s)
           t == sync[s]
<1>1. /\ UNCHANGED <<source, feed, user>>
      /\ sync[s].pc = "ingesting" /\ sync[s].todo # {} /\ sync'[s].pc = "creating"
      /\ sync'[s].copy = sync[s].copy /\ sync'[s].until = sync[s].until
      /\ sync'[s].todo = sync[s].todo /\ sync'[s].failed = sync[s].failed
      /\ \E old \in FindByMetadataKey(n) : docs' = docs \ old
  BY DeleteFacts
<1>2. /\ source.cursor \in Nat /\ t.copy.cursor \in Nat /\ t.until \in Nat
      /\ t.until <= Len(feed) /\ Len(feed) \in Nat /\ docs \in SUBSET Doc
  BY CursorFacts
<1>3. \A d \in docs : d.item # n => d \in docs'
  BY <1>1 DEF FindByMetadataKey
<1>4. TaskIn(feed, docs, t, source.cursor)
  BY <1>1 DEF TaskKept, AtWork, Working, Ingesting
<1>5. /\ source.cursor <= t.copy.cursor /\ t.copy.cursor <= Len(feed)
      /\ KeptIn(feed, docs, t.copy.cursor)
      /\ t.copy.cursor <= t.until
      /\ \A e \in t.todo : VersionIn(feed, e, t.until) > t.copy.cursor
      /\ \A e \in Items : e \in t.todo \cup t.failed \/ HereIn(feed, docs, e, t.until)
  BY <1>1, <1>4 DEF TaskIn
<1>6. n \in t.todo
  BY <1>1, <1>2, NextIsToDo
<1> HIDE DEF n, t
<1>7. ASSUME NEW x \in Nat, NEW e \in Items, HereIn(feed, docs, e, x), e # n
      PROVE  HereIn(feed, docs', e, x)
  BY <1>3, <1>7 DEF HereIn
<1>8. ASSUME NEW x \in Nat, x <= t.copy.cursor, KeptIn(feed, docs, x)
      PROVE  KeptIn(feed, docs', x)
  <2>1. HereIn(feed, docs', n, x)
    <3>1. VersionIn(feed, n, t.until) > t.copy.cursor
          /\ VersionIn(feed, n, t.until) <= VersionIn(feed, n, Len(feed))
      BY <1>2, <1>5, <1>6, VersionGrows
    <3>2. VersionIn(feed, n, t.until) \in 0 .. t.until /\ VersionIn(feed, n, Len(feed)) \in 0 .. Len(feed)
      BY <1>2, LastChange
    <3>3. VersionIn(feed, n, Len(feed)) > x
      BY <1>2, <1>8, <3>1, <3>2
    <3> QED BY <3>3 DEF HereIn
  <2> QED BY <1>7, <1>8, <2>1 DEF KeptIn
<1>9. KeptIn(feed, docs', source.cursor) /\ KeptIn(feed, docs', t.copy.cursor)
  BY <1>2, <1>5, <1>8 DEF SourceKept
<1>10. \A e \in Items : e \in t.todo \cup t.failed \/ HereIn(feed, docs', e, t.until)
  BY <1>2, <1>5, <1>6, <1>7
<1>11. /\ sync'[s].pc = "creating"
       /\ sync'[s].copy = t.copy /\ sync'[s].until = t.until
       /\ sync'[s].todo = t.todo /\ sync'[s].failed = t.failed
  BY <1>1 DEF t
<1>12. TaskIn(feed, docs', sync'[s], source.cursor)
  BY <1>5, <1>9, <1>10, <1>11 DEF TaskIn
<1>13. TaskKept(s)'
  BY <1>1, <1>12 DEF TaskKept
<1>14. SourceKept'
  BY <1>1, <1>9 DEF SourceKept
<1> QED BY <1>13, <1>14

\* The new document is stored up to what the sync has fetched.
LEMMA CreateKeeps ==
  ASSUME TypeInv, [Next]_vars, NEW s \in Syncs, IngestCreate(s), SourceKept, TaskKept(s),
         "skipped" \notin mishap'
  PROVE  TaskKept(s)' /\ SourceKept'
<1> DEFINE n == NextItem(s)
           t == sync[s]
<1>1. /\ UNCHANGED <<source, feed, user>>
      /\ sync[s].pc = "creating" /\ sync'[s].pc = "ingesting"
      /\ sync'[s].copy = sync[s].copy /\ sync'[s].until = sync[s].until
      /\ sync'[s].todo = sync[s].todo \ {n}
      /\ \/ /\ \E l \in BOOLEAN :
                 docs' = docs \cup {[item |-> n, version |-> Version(n, sync[s].until), link |-> l]}
            /\ sync'[s].failed = sync[s].failed
         \/ docs' = docs /\ sync'[s].failed = sync[s].failed \cup {n}
  BY CreateFacts DEF StoresOne
<1>2. /\ source.cursor \in Nat /\ t.copy.cursor \in Nat /\ t.until \in Nat
      /\ t.until <= Len(feed) /\ Len(feed) \in Nat /\ docs \in SUBSET Doc
  BY CursorFacts
<1>3. TaskIn(feed, docs, t, source.cursor)
  BY <1>1 DEF TaskKept, AtWork, Working, Ingesting
<1>4. /\ source.cursor <= t.copy.cursor /\ t.copy.cursor <= Len(feed)
      /\ KeptIn(feed, docs, t.copy.cursor)
      /\ t.copy.cursor <= t.until
      /\ \A e \in t.todo : VersionIn(feed, e, t.until) > t.copy.cursor
      /\ \A e \in Items : e \in t.todo \cup t.failed \/ HereIn(feed, docs, e, t.until)
  BY <1>1, <1>3 DEF TaskIn
<1>5. docs \subseteq docs'
  BY <1>1
<1>6. n \in sync'[s].failed \/ HereIn(feed, docs', n, t.until)
  <2> DEFINE v == VersionIn(feed, n, t.until)
  <2>1. ASSUME NEW l \in BOOLEAN,
               docs' = docs \cup {[item |-> n, version |-> Version(n, sync[s].until), link |-> l]}
        PROVE  HereIn(feed, docs', n, t.until)
    <3>1. Version(n, sync[s].until) = v
      BY VersionIsIn
    <3>2. v \in Nat
      <4>1. v \in 0 .. t.until
        BY <1>2, LastChange
      <4> QED BY <1>2, <4>1
    <3> HIDE DEF v, n, t
    <3>3. [item |-> n, version |-> v, link |-> l] \in docs'
      BY <2>1, <3>1
    <3>4. v >= v
      BY <3>2
    <3>5. \E d \in docs' : d.item = n /\ d.version >= v
      BY <3>3, <3>4
    <3> QED BY <3>5 DEF HereIn, v
  <2>2. CASE sync'[s].failed = sync[s].failed \cup {n}
    BY <2>2
  <2> QED BY <1>1, <2>1, <2>2
<1> HIDE DEF n, t
<1>7. ASSUME NEW x \in Nat, NEW e \in Items, HereIn(feed, docs, e, x)
      PROVE  HereIn(feed, docs', e, x)
  BY <1>5, <1>7 DEF HereIn
<1>8. KeptIn(feed, docs', source.cursor) /\ KeptIn(feed, docs', t.copy.cursor)
  BY <1>2, <1>4, <1>7 DEF SourceKept, KeptIn
<1>9. /\ sync'[s].pc = "ingesting" /\ sync'[s].copy = t.copy /\ sync'[s].until = t.until
      /\ sync'[s].todo = t.todo \ {n} /\ t.failed \subseteq sync'[s].failed
  BY <1>1 DEF t
<1>10. \A e \in Items : e \in sync'[s].todo \cup sync'[s].failed \/ HereIn(feed, docs', e, t.until)
  <2> SUFFICES ASSUME NEW e \in Items
               PROVE  e \in sync'[s].todo \cup sync'[s].failed \/ HereIn(feed, docs', e, t.until)
    OBVIOUS
  <2>1. CASE e = n
    BY <1>6, <2>1
  <2>2. CASE e # n
    BY <1>2, <1>4, <1>7, <1>9, <2>2
  <2> QED BY <2>1, <2>2
<1>11. \A e \in sync'[s].todo : VersionIn(feed, e, t.until) > t.copy.cursor
  BY <1>4, <1>9
<1>12. TaskIn(feed, docs', sync'[s], source.cursor)
  BY <1>4, <1>8, <1>9, <1>10, <1>11 DEF TaskIn
<1>13. TaskKept(s)'
  BY <1>1, <1>12 DEF TaskKept
<1>14. SourceKept'
  BY <1>1, <1>8 DEF SourceKept
<1> QED BY <1>13, <1>14

\* A sync that has nothing left to do, and failed nothing, has stored all it fetched.
LEMMA LogKeeps ==
  ASSUME TypeInv, NEW s \in Syncs, SyncLog(s), SourceKept, TaskKept(s)
  PROVE  TaskKept(s)' /\ SourceKept'
<1>1. /\ UNCHANGED <<docs, source, feed, user>>
      /\ sync[s].pc \in {"ingesting", "fetched nothing"} /\ sync'[s].pc = "saving"
      /\ sync'[s].copy = sync[s].copy /\ sync'[s].until = sync[s].until
      /\ sync'[s].failed = sync[s].failed
      /\ sync'[s].outcome = "success" => sync[s].pc = "ingesting" /\ sync[s].todo = {}
  BY LogFacts
<1>2. TaskIn(feed, docs, sync[s], source.cursor)
  BY <1>1 DEF TaskKept, AtWork, Working, Ingesting
<1>3. TaskIn(feed, docs, sync'[s], source.cursor)
  BY <1>1, <1>2 DEF TaskIn, KeptIn
<1>4. TaskKept(s)'
  BY <1>1, <1>3 DEF TaskKept
<1>5. SourceKept'
  BY <1>1 DEF SourceKept
<1> QED BY <1>4, <1>5

\* The row gets a cursor up to which everything is stored.
LEMMA SaveKeeps ==
  ASSUME TypeInv, NEW s \in Syncs, SyncSave(s), SourceKept, TaskKept(s), "failed" \notin mishap'
  PROVE  SourceKept'
<1>1. /\ sync[s].pc = "saving" /\ UNCHANGED <<docs, feed, user>>
      /\ source'.cursor \in {CursorAfter(sync[s]), source.cursor}
      /\ sync[s].outcome = "success" /\ sync[s].failed # {} => "failed" \in mishap'
  BY SaveFacts
<1>2. TaskIn(feed, docs, sync[s], source.cursor)
  BY <1>1 DEF TaskKept, AtWork, Working
<1>3. SourceType
  BY Parts DEF TypeInv
<1>4. CursorAfter(sync[s]) \in {sync[s].copy.cursor, source.cursor}
      \/ (CursorAfter(sync[s]) = sync[s].until /\ sync[s].outcome = "success")
  BY <1>3 DEF CursorAfter, Saved, SourceType
<1>5. CASE source'.cursor \in {sync[s].copy.cursor, source.cursor}
  BY <1>1, <1>2, <1>5 DEF TaskIn, SourceKept
<1>6. CASE source'.cursor = sync[s].until /\ sync[s].outcome = "success"
  <2>1. KeptIn(feed, docs, sync[s].until)
    BY <1>1, <1>2, <1>6 DEF TaskIn
  <2> QED BY <1>1, <1>6, <2>1, CursorFacts DEF SourceKept
<1> QED BY <1>1, <1>4, <1>5, <1>6

\* Every step keeps the inductive invariant.
LEMMA NextCursor ==
  ASSUME TypeInv, DupInv, CursorInv, [Next]_vars
  PROVE  CursorInv'
<1> SUFFICES ASSUME CursorGood' PROVE SourceKept' /\ \A s \in Syncs : TaskKept(s)'
  BY DEF CursorInv
<1>1. /\ CursorGood /\ "overlap" \notin mishap
      /\ "ahead" \notin mishap' /\ "failed" \notin mishap' /\ "overlap" \notin mishap'
      /\ "skipped" \notin mishap'
  BY MishapsGrow DEF CursorGood
<1>2. OneWorks /\ SourceKept /\ \A s \in Syncs : TaskKept(s)
  BY <1>1 DEF DupInv, CursorInv
<1>3. \A s, t \in Syncs : AtWork(s) /\ s # t => ~AtWork(t)'
  BY <1>1, <1>2, WorkersStay
<1>4. CASE \A s \in Syncs : ~SyncStep(s)
  <2>1. docs' = docs /\ \A s \in Syncs : SameTask(s)
    BY <1>4, WorkGoesOn
  <2>2. source'.cursor <= source.cursor
    BY <1>1, <1>4, CursorBack
  <2>3. source.cursor \in Nat /\ source'.cursor \in Nat /\ docs \in SUBSET Doc /\ docs' \in SUBSET Doc
    <3>1. SourceType /\ SourceType' /\ docs \subseteq Doc
      BY TypeStep, Parts DEF TypeInv
    <3> QED BY <2>1, <3>1, Bounds DEF SourceType, Positions
  <2>4. SourceKept'
    <3>1. /\ Len(feed) \in Nat /\ Len(feed') \in Nat /\ Len(feed) <= Len(feed')
          /\ source.cursor <= Len(feed) /\ KeptIn(feed, docs, source.cursor)
      BY <1>2, FeedGrows DEF SourceKept
    <3>2. KeptIn(feed', docs', source.cursor)
      BY <2>1, <2>3, <3>1, KeptStays
    <3>3. KeptIn(feed', docs', source'.cursor)
      BY <2>2, <2>3, <3>1, <3>2, KeptDown
    <3> QED BY <2>2, <2>3, <3>1, <3>3 DEF SourceKept
  <2>5. ASSUME NEW s \in Syncs, AtWork(s)'
        PROVE  TaskIn(feed', docs', sync'[s], source'.cursor)
    <3>1. /\ sync'[s].pc = sync[s].pc /\ sync'[s].copy = sync[s].copy /\ sync'[s].until = sync[s].until
          /\ sync'[s].todo = sync[s].todo /\ sync'[s].failed = sync[s].failed
          /\ sync'[s].outcome = sync[s].outcome
      BY <2>1, <2>5 DEF SameTask, AtWork
    <3>2. TaskIn(feed, docs, sync[s], source.cursor)
      BY <1>2, <2>5, <3>1 DEF TaskKept, AtWork
    <3>3. sync[s] \in Task /\ TodoOK(sync[s]) /\ docs \subseteq docs'
      BY <2>1, SyncTyped
    <3> QED BY <2>2, <2>3, <3>1, <3>2, <3>3, TaskStays
  <2> QED BY <2>4, <2>5 DEF TaskKept
\* A step of one sync: no other is at work, or nothing that matters changes.
<1>5. ASSUME NEW s \in Syncs, SyncStep(s), TaskKept(s)', SourceKept', ~SyncGone(s)
      PROVE  SourceKept' /\ \A r \in Syncs : TaskKept(r)'
  <2> SUFFICES ASSUME NEW r \in Syncs \ {s} PROVE ~AtWork(r)'
    BY <1>5 DEF TaskKept
  <2>1. CASE AtWork(s)
    BY <1>3, <2>1
  <2>2. CASE ~AtWork(s)
    <3>1. FetchIncremental(s)
      BY <1>5, <2>2 DEF SyncStep, IngestDelete, IngestCreate, SyncLog, SyncSave, AtWork, Working, Ingesting
    <3> QED BY <1>1, <3>1, FetchFacts DEF Others, AtWork
  <2> QED BY <2>1, <2>2
<1>6. CASE \E s \in Syncs : SyncGone(s)
  <2> PICK s \in Syncs : SyncGone(s)
    BY <1>6
  <2>1. Others(s) /\ ~AtWork(s)' /\ UNCHANGED <<docs, source, feed, user>>
    BY GoneFacts
  <2>2. ASSUME NEW r \in Syncs PROVE TaskKept(r)'
    <3>1. CASE r = s
      BY <2>1, <3>1 DEF TaskKept
    <3>2. CASE r # s
      BY <1>2, <2>1, <3>2 DEF TaskKept, AtWork, Others
    <3> QED BY <3>1, <3>2
  <2> QED BY <1>2, <2>1, <2>2 DEF SourceKept
<1>7. CASE \E s \in Syncs : FetchIncremental(s)
  BY <1>2, <1>5, <1>6, <1>7, FetchKeeps DEF SyncStep
<1>8. CASE \E s \in Syncs : IngestDelete(s)
  BY <1>1, <1>2, <1>5, <1>6, <1>8, DeleteKeeps DEF SyncStep
<1>9. CASE \E s \in Syncs : IngestCreate(s)
  BY <1>1, <1>2, <1>5, <1>6, <1>9, CreateKeeps DEF SyncStep
<1>10. CASE \E s \in Syncs : SyncLog(s)
  BY <1>2, <1>5, <1>6, <1>10, LogKeeps DEF SyncStep
<1>11. CASE \E s \in Syncs : SyncSave(s)
  <2> PICK s \in Syncs : SyncSave(s)
    BY <1>11
  <2>1. SourceKept' /\ ~AtWork(s)'
    BY <1>1, <1>2, SaveKeeps, SaveFacts
  <2> QED BY <1>5, <1>6, <2>1 DEF SyncStep, TaskKept
<1> QED BY <1>4, <1>6, <1>7, <1>8, <1>9, <1>10, <1>11 DEF SyncStep

LEMMA InitCursor == Init => CursorInv
<1> SUFFICES ASSUME Init PROVE SourceKept /\ \A s \in Syncs : TaskKept(s)
  BY DEF CursorInv
<1>1. source.cursor = 0 /\ feed = <<>> /\ \A s \in Syncs : sync[s].pc = "none"
  BY DEF Init, NoTask
<1>2. Len(feed) = 0
  BY <1>1, EmptySeq
<1>3. \A e \in Items : VersionIn(feed, e, 0) \in 0 .. 0
  BY LastChange
<1>4. KeptIn(feed, docs, 0)
  BY <1>3 DEF KeptIn, HereIn
<1>5. SourceKept
  BY <1>1, <1>2, <1>4 DEF SourceKept
<1>6. \A s \in Syncs : TaskKept(s)
  BY <1>1 DEF TaskKept, AtWork, Working, Ingesting
<1> QED BY <1>5, <1>6

\* What the cursor has passed is stored, unless a newer change of the item lies
\* ahead of it: no crash, failed fetch, failed read or write of the database, or
\* write of an older cursor loses a document, for any number of them, unless two
\* syncs overlapped, a sync passed over an item that failed or whose URL was there
\* already, or an old copy of the row put the cursor forward again (ProcessSync,
\* updateSyncRunResult).
THEOREM StoredUpToCursorCorrect == Spec => []StoredUpToCursor
<1>1. Init => TypeInv /\ DupInv /\ CursorInv
  BY InitTyped, InitDup, InitCursor
<1>2. TypeInv /\ DupInv /\ CursorInv /\ [Next]_vars => (TypeInv /\ DupInv /\ CursorInv)'
  BY TypeStep, NextDup, NextCursor
<1>3. TypeInv /\ CursorInv => StoredUpToCursor
  <2>1. \A e \in Items : HereIn(feed, docs, e, source.cursor) <=>
          (Stored(e, source.cursor) \/ Latest(e) > source.cursor)
    BY VersionIsIn DEF HereIn, Stored, Latest
  <2> QED BY <2>1 DEF CursorInv, CursorGood, SourceKept, KeptIn, StoredUpToCursor
<1> QED BY <1>1, <1>2, <1>3, PTL DEF Spec
=============================================================================
