---------------------------- MODULE WikiQueueProofs ----------------------------
(***************************************************************************)
(* For any documents, workers, bounds and faults: the active-batch lock    *)
(* keeps the batches of one knowledge base apart; a deleted document       *)
(* disappears from its page; and a completed one is on it, or not, as its  *)
(* text says.  Each theorem has an inductive invariant of its own, built   *)
(* on those before it.                                                     *)
(***************************************************************************)
EXTENDS WikiQueue, NaturalsInduction, WellFoundedInduction, TLAPS

Busy(w) == batch[w].pc # "idle"

\* Every batch is a record with a phase: all that the proof needs of the types.
Shape ==
  /\ batch = [w \in Workers |-> batch[w]]
  /\ \A w \in Workers : "pc" \in DOMAIN batch[w]

\* Whoever is at work, unlocking included, is alone and the key exists.  That
\* Unlock deletes it unasked is why "alone" must cover the unlocking batch.
LockInv ==
  \/ "unlocked" \in mishap
  \/ /\ \A v, w \in Workers : Busy(v) /\ Busy(w) => v = w
     /\ \A w \in Workers : Busy(w) => lock

Inv == Shape /\ LockInv

-----------------------------------------------------------------------------
(* The four ways a step can touch the batches and the key                  *)

\* Neither changes.
LEMMA Elsewhere ==
  ASSUME Inv, UNCHANGED <<batch, lock>>, mishap \subseteq mishap'
  PROVE  Inv'
  BY DEF Inv, Shape, LockInv, Busy

\* A batch at work goes on, or dies, and the key stays.
LEMMA Onward ==
  ASSUME Inv, NEW w \in Workers, Busy(w), NEW b, "pc" \in DOMAIN b,
         batch' = [batch EXCEPT ![w] = b], UNCHANGED lock, mishap \subseteq mishap'
  PROVE  Inv'
<1>1. \A v \in Workers : batch'[v] = IF v = w THEN b ELSE batch[v]
  BY DEF Inv, Shape
<1>2. Shape'
  BY <1>1 DEF Inv, Shape
<1>3. \A v \in Workers : Busy(v)' => Busy(v)
  BY <1>1 DEF Busy
<1>4. LockInv'
  BY <1>3 DEF Inv, LockInv
<1> QED BY <1>2, <1>4 DEF Inv

\* The key goes while nobody is at work, or the step says so.
LEMMA Expired ==
  ASSUME Inv, UNCHANGED batch, mishap \subseteq mishap',
         "unlocked" \in mishap' \/ \A w \in Workers : ~Busy(w)
  PROVE  Inv'
  BY DEF Inv, Shape, LockInv, Busy

-----------------------------------------------------------------------------
(* The steps that touch the key                                            *)

\* SetNX succeeds only where no key exists, hence where nobody is at work; where
\* Redis does not answer the step says so.
LEMMA TakeKeepsInv ==
  ASSUME Inv, NEW w \in Workers, NEW n \in 0 .. MaxRetry, Take(w, n)
  PROVE  Inv'
<1> DEFINE b == [NoBatch EXCEPT !.pc = "locked", !.retried = n]
<1>1. batch' = [batch EXCEPT ![w] = b] /\ mishap \subseteq mishap'
  BY DEF Take, Start, Note
<1>2. "pc" \in DOMAIN b
  BY DEF NoBatch
<1> HIDE DEF b
<1>3. \A v \in Workers : batch'[v] = IF v = w THEN b ELSE batch[v]
  BY <1>1 DEF Inv, Shape
<1>4. Shape'
  BY <1>1, <1>2, <1>3 DEF Inv, Shape
<1>5. LockInv'
  <2>1. CASE "unlocked" \in mishap'
    BY <2>1 DEF LockInv
  <2>2. CASE "unlocked" \notin mishap'
    <3>1. ~lock /\ lock'
      BY <2>2 DEF Take, Note
    <3>2. \A v \in Workers : ~Busy(v)
      BY <1>1, <2>2, <3>1 DEF Inv, LockInv
    <3>3. \A v \in Workers : Busy(v)' => v = w
      BY <1>3, <3>2 DEF Busy
    <3> QED BY <3>1, <3>3 DEF LockInv
  <2> QED BY <2>1, <2>2
<1> QED BY <1>4, <1>5 DEF Inv

\* Del takes the key of the batch that ends: it was alone.
LEMMA UnlockKeepsInv ==
  ASSUME Inv, NEW w \in Workers, Unlock(w)
  PROVE  Inv'
<1>1. batch' = [batch EXCEPT ![w] = NoBatch] /\ Busy(w) /\ mishap \subseteq mishap'
  BY DEF Unlock, Note, Busy
<1>2. "pc" \in DOMAIN NoBatch /\ NoBatch.pc = "idle"
  BY DEF NoBatch
<1>3. \A v \in Workers : batch'[v] = IF v = w THEN NoBatch ELSE batch[v]
  BY <1>1 DEF Inv, Shape
<1>4. Shape'
  BY <1>1, <1>2, <1>3 DEF Inv, Shape
<1>5. LockInv'
  <2>1. CASE "unlocked" \in mishap'
    BY <2>1 DEF LockInv
  <2>2. CASE "unlocked" \notin mishap'
    <3>1. \A v \in Workers : Busy(v) => v = w
      BY <1>1, <2>2 DEF Inv, LockInv
    <3>2. \A v \in Workers : ~Busy(v)'
      BY <1>2, <1>3, <3>1 DEF Busy
    <3> QED BY <3>2 DEF LockInv
  <2> QED BY <2>1, <2>2
<1> QED BY <1>4, <1>5 DEF Inv

LEMMA ExpireKeepsInv ==
  ASSUME Inv, Expire
  PROVE  Inv'
<1>1. UNCHANGED batch /\ mishap \subseteq mishap'
  BY DEF Expire, Note
<1>2. "unlocked" \in mishap' \/ \A w \in Workers : ~Busy(w)
  BY DEF Expire, Note, Busy
<1> QED BY <1>1, <1>2, Expired

\* A refused trigger leaves the key to its holder.
LEMMA RefusedKeepsInv ==
  ASSUME Inv, NEW n \in 0 .. MaxRetry, Refused(n)
  PROVE  Inv'
  BY Elsewhere DEF Refused, LockAfterRefusal, Note

-----------------------------------------------------------------------------
(* The steps of a batch                                                    *)

LEMMA CrashKeepsInv ==
  ASSUME Inv, NEW w \in Workers, Crash(w)
  PROVE  Inv'
<1>1. "pc" \in DOMAIN NoBatch
  BY DEF NoBatch
<1>2. Busy(w) /\ batch' = [batch EXCEPT ![w] = NoBatch] /\ UNCHANGED lock
      /\ mishap \subseteq mishap'
  BY DEF Crash, Note, Busy
<1> QED BY <1>1, <1>2, Onward

\* A step of a batch saves a changed copy of its record.
LEMMA BatchKeepsInv ==
  ASSUME Inv, NEW w \in Workers,
         (BatchStep(w) /\ ~Unlock(w)) \/ Misconfigured(w) \/ MapFails(w)
  PROVE  Inv'
<1> SUFFICES /\ \E b : "pc" \in DOMAIN b /\ batch' = [batch EXCEPT ![w] = b]
             /\ Busy(w) /\ UNCHANGED lock /\ mishap \subseteq mishap'
  BY Onward
<1>0. "pc" \in DOMAIN batch[w]
  BY DEF Inv, Shape
<1>1. CASE Peek(w)
  BY <1>0, <1>1 DEF Peek, Set, Leave, Note, Busy
<1>2. CASE MapRetract(w)
  BY <1>0, <1>2 DEF MapRetract, Set, Note, Busy
<1>3. CASE MapIngest(w)
  BY <1>0, <1>3 DEF MapIngest, MapTo, Set, Note, Busy
<1>4. CASE DrainSkipped(w)
  BY <1>0, <1>4 DEF DrainSkipped, Set, Note, Busy
<1>5. CASE ReduceRead(w)
  BY <1>0, <1>5 DEF ReduceRead, Reduce, Set, Note, Busy
<1>6. CASE ReduceWrite(w)
  BY <1>0, <1>6 DEF ReduceWrite, Set, Note, Busy
<1>7. CASE DrainMapped(w)
  BY <1>0, <1>7 DEF DrainMapped, Set, Note, Busy
<1>8. CASE Trim(w)
  BY <1>0, <1>8 DEF Trim, Set, Busy
<1>9. CASE Requeue(w)
  BY <1>0, <1>9 DEF Requeue, Set, Note, Busy
<1>10. CASE Follow(w)
  BY <1>0, <1>10 DEF Follow, Set, Leave, Note, Busy
<1>11. CASE Misconfigured(w)
  BY <1>0, <1>11 DEF Misconfigured, Set, Leave, Busy
<1>12. CASE MapFails(w)
  BY <1>0, <1>12 DEF MapFails, Set, Busy
<1> QED BY <1>1, <1>2, <1>3, <1>4, <1>5, <1>6, <1>7, <1>8, <1>9, <1>10, <1>11, <1>12
        DEF BatchStep

-----------------------------------------------------------------------------
(* Post-processing and users touch neither                                 *)

LEMMA PostKeepsInv ==
  ASSUME Inv, NEW d \in Docs, PostFinalize(d) \/ PostStep(d)
  PROVE  Inv'
  BY Elsewhere DEF PostFinalize, PostStep, PostRow, PostTrigger, Note, calm

LEMMA UserKeepsInv ==
  ASSUME Inv, NEW d \in Docs,
         UserStep(d) \/ ReparseScrub(d) \/ CancelMark(d) \/ DeleteMark(d)
  PROVE  Inv'
<1>1. CASE ReparseScrub(d) \/ ReparseClear(d) \/ ReparseReset(d)
  BY <1>1, Elsewhere DEF ReparseScrub, ReparseClear, ReparseReset, calm
<1>2. CASE CancelMark(d) \/ CancelScrub(d) \/ DeleteMark(d) \/ DeleteList(d)
  BY <1>2, Elsewhere DEF CancelMark, CancelScrub, DeleteMark, DeleteList, Note
<1>3. CASE DeleteStrip(d)
  BY <1>3, Elsewhere DEF DeleteStrip, Note
<1>4. CASE DeleteRetract(d) \/ DeleteTrigger(d)
  BY <1>4, Elsewhere DEF DeleteRetract, DeleteTrigger, Note
<1> QED BY <1>1, <1>2, <1>3, <1>4 DEF UserStep

-----------------------------------------------------------------------------
LEMMA InitInv == Init => Inv
<1> SUFFICES ASSUME Init PROVE Inv
  OBVIOUS
<1>1. batch = [w \in Workers |-> NoBatch]
  BY DEF Init
<1>2. "pc" \in DOMAIN NoBatch /\ NoBatch.pc = "idle"
  BY DEF NoBatch
<1> QED BY <1>1, <1>2 DEF Inv, Shape, LockInv, Busy

LEMMA NextInv == Inv /\ [Next]_vars => Inv'
<1> SUFFICES ASSUME Inv, [Next]_vars PROVE Inv'
  OBVIOUS
<1>1. CASE UNCHANGED vars
  BY <1>1, Elsewhere DEF vars, now
<1>2. CASE \E d \in Docs : \/ PostFinalize(d) \/ PostStep(d) \/ UserStep(d)
                           \/ ReparseScrub(d) \/ CancelMark(d) \/ DeleteMark(d)
  BY <1>2, PostKeepsInv, UserKeepsInv
<1>3. CASE TriggerStep \/ Expire
  BY <1>3, TakeKeepsInv, RefusedKeepsInv, ExpireKeepsInv DEF TriggerStep
<1>4. CASE \E w \in Workers : BatchStep(w) \/ Misconfigured(w) \/ MapFails(w) \/ Crash(w)
  BY <1>4, BatchKeepsInv, UnlockKeepsInv, CrashKeepsInv
<1> QED BY <1>1, <1>2, <1>3, <1>4 DEF Next

\* Never two batches of one knowledge base, unless a batch went on without the
\* lock or outlived it: for any number of workers, documents and faults
\* (ProcessWikiIngest's active-batch lock).
THEOREM OneBatchCorrect == Spec => []OneBatch
<1>1. Inv => OneBatch
  BY DEF Inv, LockInv, OneBatch, Excused, Inside, Busy
<1> QED BY InitInv, NextInv, <1>1, PTL DEF Spec

-----------------------------------------------------------------------------
(* Rows                                                                    *)

Less == {p \in Nat \X Nat : p[1] < p[2]}
LEMMA LessWF == IsWellFoundedOn(Less, Nat)
<1>1. Less = OpToRel(<, Nat)
  BY DEF Less, OpToRel
<1> QED BY <1>1, NatLessThanWellFounded

LEMMA SetInduction ==
  ASSUME NEW T, 0 \in T, \A n \in Nat : n \in T => n + 1 \in T
  PROVE  Nat \subseteq T
<1> SUFFICES ASSUME Nat \ T # {} PROVE FALSE
  OBVIOUS
<1>1. PICK n \in Nat \ T : \A m \in Nat \ T : <<m, n>> \notin Less
  <2>1. Nat \ T \subseteq Nat
    OBVIOUS
  <2> QED BY <2>1, LessWF, WFMin
<1>2. n # 0 /\ n - 1 \in Nat
  BY <1>1
<1>3. <<n - 1, n>> \in Less
  BY <1>2 DEF Less
<1>4. n - 1 \in T
  BY <1>1, <1>2, <1>3
<1>5. (n - 1) + 1 \in T
  BY <1>2, <1>4
<1>6. (n - 1) + 1 = n
  BY <1>2
<1> QED BY <1>1, <1>5, <1>6

KeysOf(some) == {some[k].key : k \in 1 .. Len(some)}

LEMMA WithoutKeys ==
  ASSUME NEW S, NEW some \in Seq(S), NEW keys
  PROVE  /\ Without(some, keys) \in Seq({e \in S : e.key \notin keys})
         /\ KeysOf(Without(some, keys)) = KeysOf(some) \ keys
<1> DEFINE Body(f, k) == IF k = 0 THEN <<>>
                         ELSE IF some[k].key \in keys THEN f[k - 1]
                         ELSE Append(f[k - 1], some[k])
           Is(f, n) == f = [k \in 0 .. n |-> Body(f, k)]
           kept == CHOOSE f : Is(f, Len(some))
<1>0. Len(some) \in Nat /\ \A k \in 1 .. Len(some) : some[k] \in S
  OBVIOUS
<1>1. \E f : Is(f, Len(some))
  <2> DEFINE T == {n \in Nat : \E f : Is(f, n)}
  <2>1. 0 \in T
    <3>1. Is([k \in 0 .. 0 |-> <<>>], 0)
      OBVIOUS
    <3> QED BY <3>1
  <2>2. \A n \in Nat : n \in T => n + 1 \in T
    <3> SUFFICES ASSUME NEW n \in Nat, NEW f, Is(f, n) PROVE \E g : Is(g, n + 1)
      <4> HIDE DEF Is
      <4> QED OBVIOUS
    <3> DEFINE g == [k \in 0 .. (n + 1) |-> IF k = n + 1 THEN Body(f, k) ELSE f[k]]
    <3>1. \A k \in 0 .. n : f[k] = Body(f, k)
      OBVIOUS
    <3>2. ASSUME NEW k \in 0 .. n PROVE g[k] = Body(g, k)
      <4>1. g[k] = f[k]
        OBVIOUS
      <4>2. k = 0 \/ (k - 1 \in 0 .. n /\ g[k - 1] = f[k - 1])
        OBVIOUS
      <4> QED BY <3>1, <4>1, <4>2
    <3>3. g[n + 1] = Body(g, n + 1)
      <4>1. g[(n + 1) - 1] = f[(n + 1) - 1]
        OBVIOUS
      <4> QED BY <4>1
    <3> HIDE DEF g
    <3>4. g = [k \in 0 .. (n + 1) |-> g[k]]
      BY DEF g
    <3>5. \A k \in 0 .. (n + 1) : g[k] = Body(g, k)
      <4> SUFFICES ASSUME NEW k \in 0 .. (n + 1) PROVE g[k] = Body(g, k)
        OBVIOUS
      <4>1. k \in 0 .. n \/ k = n + 1
        OBVIOUS
      <4> QED BY <3>2, <3>3, <4>1
    <3>6. Is(g, n + 1)
      <4> HIDE DEF Body
      <4> QED BY <3>4, <3>5
    <3> QED BY <3>6
  <2>3. Len(some) \in T
    BY <1>0, <2>1, <2>2, SetInduction
  <2> QED BY <2>3
<1>2. Is(kept, Len(some))
  BY <1>1
<1>3. Without(some, keys) = kept[Len(some)]
  BY DEF Without
<1> HIDE DEF kept
<1>4. kept[0] = <<>>
  BY <1>0, <1>2
<1>5. \A k \in 1 .. Len(some) : kept[k] = IF some[k].key \in keys THEN kept[k - 1]
                                          ELSE Append(kept[k - 1], some[k])
  <2> SUFFICES ASSUME NEW k \in 1 .. Len(some) PROVE kept[k] = Body(kept, k)
    <3> HIDE DEF Is
    <3> QED BY <1>0
  <2>1. k \in 0 .. Len(some)
    BY <1>0
  <2> HIDE DEF Body
  <2> QED BY <1>2, <2>1
<1> DEFINE K == {e \in S : e.key \notin keys}
           Good(n) == /\ kept[n] \in Seq(K)
                      /\ KeysOf(kept[n]) = {some[j].key : j \in 1 .. n} \ keys
           U == {n \in Nat : n <= Len(some) => Good(n)}
<1>6. 0 \in U
  <2>1. 1 .. 0 = {} /\ Len(<<>>) = 0
    OBVIOUS
  <2>2. KeysOf(<<>>) = {} /\ {some[j].key : j \in 1 .. 0} = {}
    BY <2>1 DEF KeysOf
  <2>3. <<>> \in Seq(K)
    OBVIOUS
  <2>4. Good(0)
    BY <1>4, <2>2, <2>3
  <2> QED BY <2>4
<1>7. \A n \in Nat : n \in U => n + 1 \in U
  <2> SUFFICES ASSUME NEW n \in Nat, n + 1 <= Len(some), Good(n) PROVE Good(n + 1)
    <3> HIDE DEF Good
    <3> QED BY <1>0
  <2>1. n + 1 \in 1 .. Len(some) /\ (n + 1) - 1 = n
    BY <1>0
  <2>2. kept[n + 1] = IF some[n + 1].key \in keys THEN kept[n]
                      ELSE Append(kept[n], some[n + 1])
    BY <1>5, <2>1
  <2>3. {some[j].key : j \in 1 .. (n + 1)} = {some[j].key : j \in 1 .. n} \cup {some[n + 1].key}
    <3>1. 1 .. (n + 1) = 1 .. n \cup {n + 1}
      OBVIOUS
    <3> QED BY <3>1
  <2>4. CASE some[n + 1].key \in keys
    BY <2>2, <2>3, <2>4
  <2>5. CASE some[n + 1].key \notin keys
    <3>1. some[n + 1] \in K
      BY <1>0, <2>1, <2>5
    <3>2. kept[n + 1] = Append(kept[n], some[n + 1])
      BY <2>2, <2>5
    <3>3. KeysOf(kept[n + 1]) = KeysOf(kept[n]) \cup {some[n + 1].key}
      <4> DEFINE a == kept[n]
                 e == some[n + 1]
      <4>1. a \in Seq(K) /\ e \in K
        BY <3>1
      <4> HIDE DEF a, e
      <4>2. Len(Append(a, e)) = Len(a) + 1 /\ Append(a, e)[Len(a) + 1] = e
            /\ \A k \in 1 .. Len(a) : Append(a, e)[k] = a[k]
        BY <4>1
      <4>3. 1 .. (Len(a) + 1) = 1 .. Len(a) \cup {Len(a) + 1}
        BY <4>1
      <4>4. KeysOf(Append(a, e)) = KeysOf(a) \cup {e.key}
        BY <4>2, <4>3 DEF KeysOf
      <4> QED BY <3>2, <4>4 DEF a, e
    <3> QED BY <2>3, <2>5, <3>1, <3>2, <3>3
  <2> QED BY <2>4, <2>5
<1>8. Len(some) \in U
  BY <1>0, <1>6, <1>7, SetInduction
<1> QED BY <1>0, <1>3, <1>8 DEF KeysOf

-----------------------------------------------------------------------------
(* Types                                                                   *)

RowSet == [key : Key, fails : 0 .. MaxFails]
Clears == {"clear", "reset"}

\* The rows are a sequence, and whoever clears a document may count its attempt up.
TypeInv ==
  /\ WikiTypeOK
  /\ rows \in Seq(RowSet)
  /\ \A d \in Docs : user[d].pc \in Clears => doc[d].attempt + 1 \in Attempts

DocSet == [status : Statuses, attempt : Attempts, text : Texts]
PostSet == [pc : {"idle", "row", "trigger"}, attempt : Attempts]
UserSet == [pc : {"idle", "clear", "reset", "scrub", "list", "strip", "retract", "trigger"},
            copy : SUBSET Docs, listed : BOOLEAN]
BatchSet == [pc : Phases, retried : 0 .. MaxRetry, again : BOOLEAN, peeked : SUBSET Key,
             todo : SUBSET Key, adds : SUBSET Docs, strips : SUBSET Docs,
             skipped : SUBSET Mapped, mapped : SUBSET Mapped, failed : SUBSET Key, copy : Page]

LEMMA InitType == Init => TypeInv
<1> SUFFICES ASSUME Init PROVE TypeInv
  OBVIOUS
<1>1. requests \in Nat /\ faults \in Nat
  BY WikiAssumption DEF Init
<1>2. doc \in [Docs -> DocSet]
  BY DEF Init, DocSet, Statuses, Attempts
<1>3. /\ post \in [Docs -> PostSet] /\ user \in [Docs -> UserSet]
      /\ \A d \in Docs : user[d].pc \notin Clears
  BY DEF Init, NoRequest, Attempts, Clears, PostSet, UserSet
<1>4. NoBatch \in BatchSet
  BY WikiAssumption DEF NoBatch, BatchSet, Phases, NoPage, Page
<1>5. batch \in [Workers -> BatchSet] /\ page \in Page
  BY <1>4 DEF Init, NoPage, Page
<1>6. rows = <<>> /\ rows \in Seq(RowSet) /\ 1 .. Len(rows) = {}
  BY DEF Init
<1>7. triggers \in [0 .. MaxRetry -> Nat] /\ lock \in BOOLEAN /\ mishap \subseteq Mishaps
  BY DEF Init
<1> QED BY <1>1, <1>2, <1>3, <1>5, <1>6, <1>7
        DEF TypeInv, WikiTypeOK, DocSet, PostSet, UserSet, BatchSet

\* What an invariant of types gives.
LEMMA TypeFacts ==
  ASSUME TypeInv
  PROVE  /\ doc \in [Docs -> DocSet]
         /\ post \in [Docs -> PostSet]
         /\ user \in [Docs -> UserSet]
         /\ \A d \in Docs : user[d].pc \in Clears => doc[d].attempt + 1 \in Attempts
         /\ rows \in Seq(RowSet)
         /\ triggers \in [0 .. MaxRetry -> Nat]
         /\ batch \in [Workers -> BatchSet]
         /\ lock \in BOOLEAN /\ page \in Page
         /\ mishap \subseteq Mishaps /\ requests \in Nat /\ faults \in Nat
  BY DEF TypeInv, WikiTypeOK, DocSet, PostSet, UserSet, BatchSet

\* A step that keeps the rows, the counters and the history typed, if it changes
\* them, and the other variables.
LEMMA TypeStep ==
  ASSUME TypeInv,
         doc' \in [Docs -> DocSet], post' \in [Docs -> PostSet], user' \in [Docs -> UserSet],
         \A d \in Docs : user'[d].pc \in Clears => doc'[d].attempt + 1 \in Attempts,
         rows' \in Seq(RowSet), triggers' \in [0 .. MaxRetry -> Nat],
         batch' \in [Workers -> BatchSet], lock' \in BOOLEAN, page' \in Page,
         mishap' \subseteq Mishaps, requests' \in Nat, faults' \in Nat
  PROVE  TypeInv'
<1>1. \A k \in 1 .. Len(rows') : rows'[k] \in RowSet
  OBVIOUS
<1>2. \A k \in 1 .. Len(rows') : rows'[k].key \in Key /\ rows'[k].fails \in 0 .. MaxFails
  BY <1>1 DEF RowSet
<1> QED BY <1>2 DEF TypeInv, WikiTypeOK, DocSet, PostSet, UserSet, BatchSet

LEMMA PostKeepsType ==
  ASSUME TypeInv, NEW d \in Docs, PostFinalize(d) \/ PostStep(d)
  PROVE  TypeInv'
<1>1. CASE PostFinalize(d)
  <2>1. doc' \in [Docs -> DocSet] /\ \A e \in Docs : doc'[e].attempt = doc[e].attempt
    BY <1>1, TypeFacts DEF PostFinalize, DocSet, Statuses
  <2>2. post' \in [Docs -> PostSet]
    BY <1>1, TypeFacts DEF PostFinalize, DocSet, PostSet
  <2> QED BY <1>1, <2>1, <2>2, TypeStep, TypeFacts DEF PostFinalize, calm
<1>2. CASE PostRow(d)
  <2>1. post[d].attempt \in Attempts
    BY TypeFacts DEF PostSet
  <2>2. Row("ingest", d, post[d].attempt, FALSE) \in RowSet
    BY <2>1, WikiAssumption, TypeFacts DEF Row, RowSet, Key
  <2>3. Append(rows, Row("ingest", d, post[d].attempt, FALSE)) \in Seq(RowSet)
    <3>1. rows \in Seq(RowSet)
      BY TypeFacts
    <3> QED BY <2>2, <3>1 DEF Row
  <2>4. rows' \in Seq(RowSet)
    BY <1>2, <2>3 DEF PostRow, Row
  <2>5. post' \in [Docs -> PostSet]
    BY <1>2, TypeFacts DEF PostRow, PostSet
  <2>7. mishap' \subseteq Mishaps /\ faults' \in Nat
    BY <1>2, TypeFacts DEF PostRow, Row, Note, Fault, Mishaps
  <2> QED BY <1>2, <2>4, <2>5, <2>7, TypeStep, TypeFacts DEF PostRow, FaultOnly
<1>3. CASE PostTrigger(d)
  <2>1. triggers' \in [0 .. MaxRetry -> Nat]
    BY <1>3, TypeFacts DEF PostTrigger, NewTrigger
  <2>2. post' \in [Docs -> PostSet]
    BY <1>3, TypeFacts DEF PostTrigger, PostSet
  <2>3. mishap' \subseteq Mishaps /\ faults' \in Nat
    BY <1>3, TypeFacts DEF PostTrigger, Note, Fault, Mishaps
  <2> QED BY <1>3, <2>1, <2>2, <2>3, TypeStep, TypeFacts DEF PostTrigger, FaultOnly
<1> QED BY <1>1, <1>2, <1>3 DEF PostStep

LEMMA ScrubbedType ==
  ASSUME TypeInv, NEW d
  PROVE  Scrubbed(d) \in Seq(RowSet)
<1>1. Scrubbed(d) \in Seq({e \in RowSet : e.key \notin {k \in Key : k.op = "ingest" /\ k.doc = d}})
  BY TypeFacts, WithoutKeys DEF Scrubbed
<1> QED BY <1>1

LEMMA ScrubType ==
  ASSUME TypeInv, NEW d, Scrub(d)
  PROVE  rows' \in Seq(RowSet) /\ faults' \in Nat
  BY ScrubbedType, TypeFacts DEF Scrub, Fault

LEMMA ReparseKeepsType ==
  ASSUME TypeInv, NEW d \in Docs, ReparseScrub(d) \/ ReparseClear(d) \/ ReparseReset(d)
  PROVE  TypeInv'
<1>1. CASE ReparseScrub(d)
  <2>1. rows' \in Seq(RowSet) /\ faults' \in Nat /\ requests' \in Nat
    BY <1>1, ScrubType, TypeFacts DEF ReparseScrub, Request
  <2>2. user' \in [Docs -> UserSet]
    <3>1. user[d] \in UserSet
      BY TypeFacts
    <3>2. [user[d] EXCEPT !.pc = "clear"] \in UserSet
      BY <3>1 DEF UserSet
    <3>3. user' = [user EXCEPT ![d] = [user[d] EXCEPT !.pc = "clear"]]
      BY <1>1, TypeFacts DEF ReparseScrub
    <3> QED BY <3>2, <3>3, TypeFacts
  <2>3. \A e \in Docs : user'[e].pc \in Clears => doc[e].attempt + 1 \in Attempts
    BY <1>1, TypeFacts DEF ReparseScrub, UserSet
  <2> QED BY <1>1, <2>1, <2>2, <2>3, TypeStep, TypeFacts DEF ReparseScrub
<1>2. CASE ReparseClear(d)
  <2>1. doc' \in [Docs -> DocSet] /\ \A e \in Docs : doc'[e].attempt = doc[e].attempt
    BY <1>2, TypeFacts DEF ReparseClear, DocSet, Texts
  <2>2. user' = [user EXCEPT ![d] = [user[d] EXCEPT !.pc = "reset"]]
    BY <1>2, TypeFacts DEF ReparseClear
  <2>4. user' \in [Docs -> UserSet]
    BY <2>2, TypeFacts DEF UserSet
  <2>3. \A e \in Docs : user'[e].pc \in Clears => user[e].pc \in Clears
    BY <1>2, TypeFacts DEF ReparseClear, UserSet, Clears
  <2> QED BY <1>2, <2>1, <2>3, <2>4, TypeStep, TypeFacts DEF ReparseClear, calm
<1>3. CASE ReparseReset(d)
  <2>1. doc[d].attempt + 1 \in Attempts
    BY <1>3, TypeFacts DEF ReparseReset, Clears
  <2>2. PICK text \in Texts :
          doc' = [doc EXCEPT ![d] = [status |-> "processing", attempt |-> @.attempt + 1,
                                     text |-> text]]
    BY <1>3, TypeFacts DEF ReparseReset
  <2>3. doc' \in [Docs -> DocSet]
    BY <2>1, <2>2, TypeFacts DEF DocSet, Statuses
  <2>4. \A e \in Docs \ {d} : doc'[e] = doc[e]
    BY <2>2, TypeFacts
  <2>5. user' \in [Docs -> UserSet] /\ user'[d].pc = "idle"
        /\ \A e \in Docs \ {d} : user'[e] = user[e]
    BY <1>3, TypeFacts DEF ReparseReset, NoRequest, UserSet
  <2>6. \A e \in Docs : user'[e].pc \in Clears => doc'[e].attempt + 1 \in Attempts
    BY <2>4, <2>5, TypeFacts DEF Clears
  <2> QED BY <1>3, <2>3, <2>5, <2>6, TypeStep, TypeFacts DEF ReparseReset, calm
<1> QED BY <1>1, <1>2, <1>3

LEMMA CancelKeepsType ==
  ASSUME TypeInv, NEW d \in Docs, CancelMark(d) \/ CancelScrub(d)
  PROVE  TypeInv'
<1>1. CASE CancelMark(d)
  <2>1. doc' \in [Docs -> DocSet] /\ \A e \in Docs : doc'[e].attempt = doc[e].attempt
    BY <1>1, TypeFacts DEF CancelMark, DocSet, Statuses
  <2>2. user' \in [Docs -> UserSet]
        /\ \A e \in Docs : user'[e].pc \in Clears => user[e].pc \in Clears
    BY <1>1, TypeFacts DEF CancelMark, UserSet, Clears
  <2>3. requests' \in Nat
    BY <1>1, TypeFacts DEF CancelMark, Request
  <2> QED BY <1>1, <2>1, <2>2, <2>3, TypeStep, TypeFacts DEF CancelMark
<1>2. CASE CancelScrub(d)
  <2>1. user' \in [Docs -> UserSet]
        /\ \A e \in Docs : user'[e].pc \in Clears => user[e].pc \in Clears
    BY <1>2, TypeFacts DEF CancelScrub, NoRequest, UserSet, Clears
  <2> QED BY <1>2, <2>1, ScrubType, TypeStep, TypeFacts DEF CancelScrub, FaultOnly
<1> QED BY <1>1, <1>2

LEMMA DeleteKeepsType ==
  ASSUME TypeInv, NEW d \in Docs,
         \/ DeleteMark(d) \/ DeleteList(d) \/ DeleteStrip(d)
         \/ DeleteRetract(d) \/ DeleteTrigger(d)
  PROVE  TypeInv'
<1> SUFFICES /\ doc' \in [Docs -> DocSet] /\ \A e \in Docs : doc'[e].attempt = doc[e].attempt
             /\ user' \in [Docs -> UserSet]
             /\ \A e \in Docs : user'[e].pc \in Clears => user[e].pc \in Clears
             /\ rows' \in Seq(RowSet) /\ triggers' \in [0 .. MaxRetry -> Nat] /\ page' \in Page
             /\ mishap' \subseteq Mishaps /\ requests' \in Nat /\ faults' \in Nat
             /\ UNCHANGED <<post, batch, lock>>
  BY TypeStep, TypeFacts
<1>1. CASE DeleteMark(d)
  <2>1. doc' \in [Docs -> DocSet] /\ \A e \in Docs : doc'[e].attempt = doc[e].attempt
    BY <1>1, TypeFacts DEF DeleteMark, DocSet, Statuses
  <2>2. user' \in [Docs -> UserSet]
        /\ \A e \in Docs : user'[e].pc \in Clears => user[e].pc \in Clears
    <3> DEFINE u == [user[d] EXCEPT !.pc = "list"]
    <3>1. UNCHANGED user \/ user' = [user EXCEPT ![d] = u]
      BY <1>1, TypeFacts DEF DeleteMark
    <3>2. u \in UserSet /\ u.pc \notin Clears
      <4>1. user[d] \in UserSet
        BY TypeFacts
      <4> QED BY <4>1 DEF UserSet, Clears
    <3> HIDE DEF u
    <3> QED BY <3>1, <3>2, TypeFacts
  <2>3. requests' \in Nat
    BY <1>1, TypeFacts DEF DeleteMark, Request
  <2>4. rows' \in Seq(RowSet) /\ faults' \in Nat
    BY <1>1, ScrubType, TypeFacts DEF DeleteMark, Fault
  <2>5. mishap' \subseteq Mishaps
    BY <1>1, TypeFacts DEF DeleteMark, Note, Mishaps
  <2> QED BY <1>1, <2>1, <2>2, <2>3, <2>4, <2>5, TypeFacts DEF DeleteMark
<1>2. CASE DeleteList(d)
  <2>1. page.refs \in SUBSET Docs
    BY TypeFacts DEF Page
  <2>2. PICK u : /\ user' = [user EXCEPT ![d] = u]
                 /\ u = [user[d] EXCEPT !.pc = "strip", !.copy = page.refs]
                    \/ u = [user[d] EXCEPT !.pc = "retract"]
    BY <1>2, TypeFacts DEF DeleteList
  <2>3. u \in UserSet /\ u.pc \notin Clears
    <3>1. user[d] \in UserSet
      BY TypeFacts
    <3> QED BY <2>1, <2>2, <3>1 DEF UserSet, Clears
  <2>4. faults' \in Nat
    BY <1>2, TypeFacts DEF DeleteList, Fault
  <2> QED BY <1>2, <2>2, <2>3, <2>4, TypeFacts DEF DeleteList, FaultOnly
<1>3. CASE DeleteStrip(d)
  <2>1. user[d].copy \ {d} \in SUBSET Docs /\ page.live \in BOOLEAN
    BY TypeFacts DEF UserSet, Page
  <2>2. page' \in Page
    <3> DEFINE remaining == user[d].copy \ {d}
    <3>1. page' = page \/ page' = NoPage \/ page' = [page EXCEPT !.refs = remaining]
      BY <1>3 DEF DeleteStrip
    <3>2. remaining \in SUBSET Docs /\ page \in Page
      BY <2>1, TypeFacts
    <3> HIDE DEF remaining
    <3>3. [page EXCEPT !.refs = remaining] \in Page
      BY <3>2 DEF Page
    <3>4. NoPage \in Page
      BY DEF NoPage, Page
    <3> QED BY <3>1, <3>2, <3>3, <3>4
  <2>3. user' \in [Docs -> UserSet]
        /\ \A e \in Docs : user'[e].pc \in Clears => user[e].pc \in Clears
    <3> DEFINE u == [user[d] EXCEPT !.pc = "retract", !.listed = page.live]
               v == [user[d] EXCEPT !.pc = "retract"]
    <3>1. user' = [user EXCEPT ![d] = u] \/ user' = [user EXCEPT ![d] = v]
      BY <1>3, TypeFacts DEF DeleteStrip
    <3>2. user[d] \in UserSet
      BY TypeFacts
    <3>3. u \in UserSet /\ v \in UserSet
      BY <2>1, <3>2 DEF UserSet
    <3>4. u.pc \notin Clears /\ v.pc \notin Clears
      BY <3>2 DEF UserSet, Clears
    <3> HIDE DEF u, v
    <3> QED BY <3>1, <3>3, <3>4, TypeFacts
  <2>4. mishap' \subseteq Mishaps
    BY <1>3, TypeFacts DEF DeleteStrip, Note, Mishaps
  <2>5. faults' \in Nat
    BY <1>3, TypeFacts DEF DeleteStrip, Fault
  <2> QED BY <1>3, <2>2, <2>3, <2>4, <2>5, TypeFacts DEF DeleteStrip, FaultOnly
<1>4. CASE DeleteRetract(d)
  <2>1. doc[d].attempt \in Attempts /\ user[d].listed \in BOOLEAN
    BY TypeFacts DEF DocSet, UserSet
  <2>2. Row("retract", d, doc[d].attempt, user[d].listed) \in RowSet
    BY <2>1, WikiAssumption, TypeFacts DEF Row, RowSet, Key
  <2>3. Append(rows, Row("retract", d, doc[d].attempt, user[d].listed)) \in Seq(RowSet)
    <3>1. rows \in Seq(RowSet)
      BY TypeFacts
    <3> QED BY <2>2, <3>1
  <2>5. rows' \in Seq(RowSet)
    BY <1>4, <2>3 DEF DeleteRetract
  <2>7. mishap' \subseteq Mishaps /\ faults' \in Nat
    BY <1>4, TypeFacts DEF DeleteRetract, Row, Note, Fault, Mishaps
  <2>4. user' \in [Docs -> UserSet]
        /\ \A e \in Docs : user'[e].pc \in Clears => user[e].pc \in Clears
    BY <1>4, TypeFacts DEF DeleteRetract, UserSet, Clears
  <2> QED BY <1>4, <2>4, <2>5, <2>7, TypeFacts DEF DeleteRetract, FaultOnly
<1>5. CASE DeleteTrigger(d)
  <2>1. triggers' \in [0 .. MaxRetry -> Nat] /\ mishap' \subseteq Mishaps /\ faults' \in Nat
    BY <1>5, TypeFacts DEF DeleteTrigger, NewTrigger, Note, Fault, Mishaps
  <2>2. user' \in [Docs -> UserSet]
        /\ \A e \in Docs : user'[e].pc \in Clears => user[e].pc \in Clears
    BY <1>5, TypeFacts DEF DeleteTrigger, NoRequest, UserSet, Clears
  <2> QED BY <1>5, <2>1, <2>2, TypeFacts DEF DeleteTrigger, FaultOnly
<1> QED BY <1>1, <1>2, <1>3, <1>4, <1>5

LEMMA NoBatchType == NoBatch \in BatchSet
  BY WikiAssumption DEF NoBatch, BatchSet, Phases, NoPage, Page

LEMMA AgainType ==
  ASSUME TypeInv, NEW w \in Workers
  PROVE  Again(batch[w]) \in [0 .. MaxRetry -> Nat] /\ NoteLast(batch[w]) \subseteq Mishaps
<1>1. batch[w].retried \in 0 .. MaxRetry /\ MaxRetry \in Nat
  BY TypeFacts, WikiAssumption DEF BatchSet
<1>2. MayRetry(batch[w]) => batch[w].retried + 1 \in 0 .. MaxRetry
  BY <1>1 DEF MayRetry
<1> QED BY <1>2, TypeFacts DEF Again, NoteLast, Mishaps

LEMMA TriggersKeepType ==
  ASSUME TypeInv,
         Expire \/ \E n \in 0 .. MaxRetry : Refused(n) \/ \E w \in Workers : Take(w, n)
  PROVE  TypeInv'
<1>1. CASE Expire
  <2>1. mishap' \subseteq Mishaps /\ faults' \in Nat
    BY <1>1, TypeFacts DEF Expire, Note, Fault, Mishaps
  <2> QED BY <1>1, <2>1, TypeStep, TypeFacts DEF Expire, FaultOnly
<1>2. ASSUME NEW n \in 0 .. MaxRetry, Refused(n) PROVE TypeInv'
  <2>1. \A k \in 0 .. MaxRetry : triggers[k] \in Nat
    BY TypeFacts
  <2>2. triggers' \in [0 .. MaxRetry -> Nat]
    BY <1>2, <2>1 DEF Refused
  <2>3. mishap' \subseteq Mishaps
    BY <1>2, TypeFacts DEF Refused, Note, Mishaps
  <2> QED BY <1>2, <2>2, <2>3, TypeStep, TypeFacts DEF Refused, LockAfterRefusal, bounds
<1>3. ASSUME NEW n \in 0 .. MaxRetry, NEW w \in Workers, Take(w, n) PROVE TypeInv'
  <2>1. mishap' \subseteq Mishaps /\ faults' \in Nat
    BY <1>3, TypeFacts DEF Take, Note, Fault, Mishaps
  <2>5. lock' \in BOOLEAN
    BY <1>3, TypeFacts DEF Take
  <2>2. triggers' \in [0 .. MaxRetry -> Nat]
    <3>1. triggers[n] \in Nat /\ triggers[n] > 0
      BY <1>3, TypeFacts DEF Take
    <3> QED BY <1>3, <3>1, TypeFacts DEF Take, Dequeued
  <2>3. [NoBatch EXCEPT !.pc = "locked", !.retried = n] \in BatchSet
    BY NoBatchType DEF BatchSet, Phases
  <2>4. batch' \in [Workers -> BatchSet]
    BY <1>3, <2>3, TypeFacts DEF Take, Start
  <2> QED BY <1>3, <2>1, <2>2, <2>4, <2>5, TypeStep, TypeFacts DEF Take, FaultOnly
<1> QED BY <1>1, <1>2, <1>3

LEMMA EndsKeepType ==
  ASSUME TypeInv, NEW w \in Workers, Unlock(w) \/ Crash(w)
  PROVE  TypeInv'
<1>1. batch' \in [Workers -> BatchSet]
  <2>1. batch' = [batch EXCEPT ![w] = NoBatch]
    BY DEF Unlock, Crash
  <2> QED BY <2>1, NoBatchType, TypeFacts
<1>2. CASE Unlock(w)
  <2>1. triggers' \in [0 .. MaxRetry -> Nat] /\ mishap' \subseteq Mishaps
    BY <1>2, TypeFacts, AgainType DEF Unlock, Note
  <2> QED BY <1>1, <1>2, <2>1, TypeStep, TypeFacts DEF Unlock, bounds
<1>3. CASE Crash(w)
  <2>1. triggers' \in [0 .. MaxRetry -> Nat] /\ mishap' \subseteq Mishaps /\ faults' \in Nat
    BY <1>3, TypeFacts, AgainType DEF Crash, Note, Fault
  <2> QED BY <1>1, <1>3, <2>1, TypeStep, TypeFacts DEF Crash, FaultOnly
<1> QED BY <1>2, <1>3

\* A batch step saves a typed record and otherwise touches the rows of documents,
\* the queue, the page, the triggers and the history.
LEMMA BatchTypeStep ==
  ASSUME TypeInv, NEW w \in Workers, NEW b \in BatchSet, Set(w, b),
         doc' \in [Docs -> DocSet], \A d \in Docs : doc'[d].attempt = doc[d].attempt,
         rows' \in Seq(RowSet), triggers' \in [0 .. MaxRetry -> Nat], page' \in Page,
         mishap' \subseteq Mishaps, faults' \in Nat, UNCHANGED <<post, user, lock, requests>>
  PROVE  TypeInv'
<1>1. batch' \in [Workers -> BatchSet]
  BY TypeFacts DEF Set
<1> QED BY <1>1, TypeStep, TypeFacts

\* Releasing slots completes documents and changes nothing else of them.
LEMMA ReleasedFacts ==
  ASSUME TypeInv, NEW docs
  PROVE  /\ Released(docs) \in [Docs -> DocSet]
         /\ \A d \in Docs :
              /\ Released(docs)[d].attempt = doc[d].attempt
              /\ Released(docs)[d].text = doc[d].text
              /\ Released(docs)[d].status = IF d \in docs /\ doc[d].status = "finalizing"
                                            THEN "completed" ELSE doc[d].status
<1>1. \A d \in Docs : doc[d] \in DocSet
  BY TypeFacts
<1>2. \A d \in Docs : [doc[d] EXCEPT !.status = "completed"] \in DocSet
  BY <1>1 DEF DocSet, Statuses
<1> QED BY <1>1, <1>2 DEF Released, DocSet

LEMMA OlderType ==
  ASSUME NEW done
  PROVE  NoteOlder(done) \subseteq Mishaps
  BY DEF NoteOlder, Mishaps

LEMMA LeaveType ==
  ASSUME TypeInv, NEW w \in Workers, NEW again \in BOOLEAN
  PROVE  [batch[w] EXCEPT !.pc = "unlocking", !.again = again] \in BatchSet
<1>1. batch[w] \in BatchSet
  BY TypeFacts
<1> QED BY <1>1 DEF BatchSet, Phases

\* The keys that Peek reads are keys of rows.
LEMMA PeekedKeys ==
  ASSUME TypeInv, NEW n \in Nat
  PROVE  LET some == SubSeq(rows, 1, IF Len(rows) < n THEN Len(rows) ELSE n)
         IN  /\ Len(some) \in Nat
             /\ \A k \in 1 .. Len(some) : some[k].key \in Key /\ some[k].key \in KeysOf(rows)
<1>1. rows \in Seq(RowSet)
  BY TypeFacts
<1> DEFINE l == IF Len(rows) < n THEN Len(rows) ELSE n
<1>2. l \in Nat /\ l <= Len(rows)
  BY <1>1
<1> HIDE DEF l
<1>3. Len(SubSeq(rows, 1, l)) = l /\ \A k \in 1 .. l : SubSeq(rows, 1, l)[k] = rows[k]
  BY <1>1, <1>2
<1>4. \A k \in 1 .. l : k \in 1 .. Len(rows)
  BY <1>1, <1>2
<1>5. \A k \in 1 .. Len(rows) : rows[k].key \in Key
  BY DEF TypeInv, WikiTypeOK
<1> QED BY <1>2, <1>3, <1>4, <1>5 DEF l, KeysOf

LEMMA BatchKeepsType ==
  ASSUME TypeInv, NEW w \in Workers,
         (BatchStep(w) /\ ~Unlock(w)) \/ Misconfigured(w) \/ MapFails(w)
  PROVE  TypeInv'
<1>0. batch[w] \in BatchSet
  BY TypeFacts
<1>1. CASE Peek(w)
  <2> DEFINE some == SubSeq(rows, 1, IF Len(rows) < BatchSize THEN Len(rows) ELSE BatchSize)
             keys == [k \in 1 .. Len(some) |-> some[k].key]
             kept == {keys[k] : k \in {k \in 1 .. Len(keys) : LastOnly(keys, k)}}
             dropped == {keys[k] : k \in 1 .. Len(keys)} \ kept
             b == [batch[w] EXCEPT !.pc = "mapping", !.todo = kept, !.peeked = kept \cup dropped]
  <2>1. Len(some) \in Nat /\ \A k \in 1 .. Len(some) : some[k].key \in Key
    BY WikiAssumption, PeekedKeys
  <2> HIDE DEF some
  <2>2. Len(keys) = Len(some) /\ \A k \in 1 .. Len(keys) : keys[k] \in Key
    BY <2>1
  <2> HIDE DEF keys
  <2>3. kept \in SUBSET Key /\ kept \cup dropped \in SUBSET Key
    BY <2>2
  <2> HIDE DEF kept, dropped
  <2>4. b \in BatchSet
    BY <1>0, <2>3 DEF BatchSet, Phases
  <2>5. Leave(w, FALSE) \/ Set(w, b)
    BY <1>1 DEF Peek, some, keys, kept, dropped
  <2> HIDE DEF b
  <2>6. mishap' \subseteq Mishaps /\ faults' \in Nat
    <3>1. PICK kinds : kinds \subseteq Mishaps /\ Note(kinds)
      BY <1>1 DEF Peek, Mishaps
    <3>2. UNCHANGED faults \/ (faults > 0 /\ faults' = faults - 1)
      BY <1>1 DEF Peek, Fault
    <3> QED BY <3>1, <3>2, TypeFacts DEF Note
  <2>7. UNCHANGED <<doc, post, user, rows, triggers, lock, page, setup, requests>>
    BY <1>1 DEF Peek, FaultOnly
  <2> QED BY <2>4, <2>5, <2>6, <2>7, LeaveType, BatchTypeStep, TypeFacts DEF Leave
<1>2. CASE MapRetract(w)
  <2>1. PICK r, strips :
          /\ r \in batch[w].todo
          /\ strips = batch[w].strips \/ strips = batch[w].strips \cup {r.doc}
          /\ Set(w, [batch[w] EXCEPT !.todo = @ \ {r}, !.strips = strips])
    BY <1>2 DEF MapRetract
  <2>2. r.doc \in Docs
    BY <1>0, <2>1 DEF BatchSet, Key
  <2>3. [batch[w] EXCEPT !.todo = @ \ {r}, !.strips = strips] \in BatchSet
    BY <1>0, <2>1, <2>2 DEF BatchSet
  <2>4. mishap' \subseteq Mishaps /\ faults' \in Nat
    BY <1>2, TypeFacts DEF MapRetract, Note, Fault, Mishaps
  <2>5. UNCHANGED <<doc, post, user, rows, triggers, lock, page, setup, requests>>
    BY <1>2 DEF MapRetract, FaultOnly
  <2> QED BY <2>1, <2>3, <2>4, <2>5, BatchTypeStep, TypeFacts
<1>3. CASE MapIngest(w)
  <2>1. PICK r, read, listed :
          /\ r \in batch[w].todo
          /\ read \in Reads(r.doc) \cup {NoText(r.doc)} /\ MapTo(w, r, read, listed)
    BY <1>3 DEF MapIngest
  <2>2. r.doc \in Docs
    BY <1>0, <2>1 DEF BatchSet, Key
  <2>3. read.done \in Mapped
    <3>1. doc[r.doc].attempt \in Attempts
      BY <2>2, TypeFacts DEF DocSet
    <3>2. read.done \in {[doc |-> r.doc, attempt |-> doc[r.doc].attempt], [doc |-> r.doc, attempt |-> 0]}
      BY <2>1 DEF Reads, NoText
    <3> QED BY <2>2, <3>1, <3>2 DEF Mapped
  <2>4. [batch[w] EXCEPT !.todo = @ \ {r},
              !.skipped = IF Skipped(read.text) THEN @ \cup {read.done} ELSE @,
              !.mapped = IF read.text # "none" THEN @ \cup {read.done} ELSE @,
              !.adds = IF read.text = "mentions" THEN @ \cup {r.doc} ELSE @,
              !.strips = IF read.text # "none" /\ listed THEN @ \cup {r.doc} ELSE @] \in BatchSet
    BY <1>0, <2>2, <2>3 DEF BatchSet
  <2>5. UNCHANGED <<doc, post, user, rows, triggers, lock, page, setup, requests>>
    BY <1>3 DEF MapIngest, FaultOnly
  <2>6. mishap' \subseteq Mishaps /\ faults' \in Nat
    <3>1. mishap' = mishap \/ mishap' = mishap \cup {"unread"}
      BY <1>3 DEF MapIngest, Note
    <3>2. faults' = faults \/ (faults > 0 /\ faults' = faults - 1)
      BY <1>3 DEF MapIngest, Fault
    <3> QED BY <3>1, <3>2, TypeFacts DEF Mishaps
  <2> QED BY <2>1, <2>4, <2>5, <2>6, BatchTypeStep, TypeFacts DEF MapTo
<1>4. CASE DrainSkipped(w)
  <2>1. PICK done \in batch[w].skipped :
          /\ doc' = Released({done.doc})
          /\ Note(NoteOlder({done}))
          /\ Set(w, [batch[w] EXCEPT !.skipped = @ \ {done}])
    BY <1>4 DEF DrainSkipped
  <2>2. [batch[w] EXCEPT !.skipped = @ \ {done}] \in BatchSet
    BY <1>0 DEF BatchSet
  <2>3. mishap' \subseteq Mishaps
    BY <2>1, TypeFacts, OlderType DEF Note
  <2>4. UNCHANGED <<post, user, rows, triggers, lock, page, setup, requests, faults>>
    BY <1>4 DEF DrainSkipped, bounds
  <2> QED BY <2>1, <2>2, <2>3, <2>4, ReleasedFacts, BatchTypeStep, TypeFacts
<1>5. CASE ReduceRead(w)
  <2>0. PICK adds, copy : /\ adds \subseteq batch[w].adds /\ copy \in {page, NoPage}
                          /\ Reduce(w, adds, copy)
    BY <1>5 DEF ReduceRead
  <2>1. \/ Set(w, [batch[w] EXCEPT !.pc = "publishing"])
        \/ Set(w, [batch[w] EXCEPT !.pc = "reducing", !.adds = adds, !.copy = copy])
    BY <2>0 DEF Reduce
  <2>2. /\ [batch[w] EXCEPT !.pc = "publishing"] \in BatchSet
        /\ [batch[w] EXCEPT !.pc = "reducing", !.adds = adds, !.copy = copy] \in BatchSet
    <3>1. NoPage \in Page
      BY DEF Page, NoPage
    <3>2. copy \in Page
      BY <2>0, <3>1, TypeFacts
    <3> QED BY <1>0, <2>0, <3>2 DEF BatchSet, Phases
  <2>3. UNCHANGED <<doc, post, user, rows, triggers, lock, page, setup, requests>>
    BY <1>5 DEF ReduceRead, FaultOnly
  <2>4. mishap' \subseteq Mishaps /\ faults' \in Nat
    BY <1>5, TypeFacts DEF ReduceRead, Note, Fault, Mishaps
  <2> QED BY <2>1, <2>2, <2>3, <2>4, BatchTypeStep, TypeFacts
<1>6. CASE ReduceWrite(w)
  <2>1. Set(w, [batch[w] EXCEPT !.pc = "publishing"])
    BY <1>6 DEF ReduceWrite
  <2>2. [batch[w] EXCEPT !.pc = "publishing"] \in BatchSet
    BY <1>0 DEF BatchSet, Phases
  <2>3. [live |-> TRUE, refs |-> (batch[w].copy.refs \ batch[w].strips) \cup batch[w].adds] \in Page
    BY <1>0 DEF BatchSet, Page
  <2>4. page' \in Page /\ mishap' \subseteq Mishaps /\ faults' \in Nat
    <3>1. page' \in Page
      BY <1>6, <2>3, TypeFacts DEF ReduceWrite
    <3>2. mishap' \subseteq Mishaps
      BY <1>6, TypeFacts DEF ReduceWrite, Note, Mishaps
    <3>3. faults' \in Nat
      BY <1>6, TypeFacts DEF ReduceWrite, Fault
    <3> QED BY <3>1, <3>2, <3>3
  <2>5. UNCHANGED <<doc, post, user, rows, triggers, lock, setup, requests>>
    BY <1>6 DEF ReduceWrite, FaultOnly
  <2> QED BY <2>1, <2>2, <2>4, <2>5, BatchTypeStep, TypeFacts
<1>7. CASE DrainMapped(w)
  <2>1. [batch[w] EXCEPT !.pc = "trimming"] \in BatchSet
    BY <1>0 DEF BatchSet, Phases
  <2>2. mishap' \subseteq Mishaps
    BY <1>7, TypeFacts, OlderType DEF DrainMapped, Note
  <2>3. /\ doc' = Released({m.doc : m \in batch[w].mapped})
        /\ Set(w, [batch[w] EXCEPT !.pc = "trimming"])
        /\ UNCHANGED <<post, user, rows, triggers, lock, page, setup, requests, faults>>
    BY <1>7 DEF DrainMapped, bounds
  <2> QED BY <2>1, <2>2, <2>3, ReleasedFacts, BatchTypeStep, TypeFacts
<1>8. CASE Trim(w)
  <2>1. [batch[w] EXCEPT !.pc = "requeueing"] \in BatchSet
    BY <1>0 DEF BatchSet, Phases
  <2>2. Without(rows, TrimIds(batch[w])) \in Seq(RowSet)
    <3>1. Without(rows, TrimIds(batch[w])) \in Seq({e \in RowSet : e.key \notin TrimIds(batch[w])})
      BY WithoutKeys, TypeFacts
    <3> QED BY <3>1
  <2>3. rows' \in Seq(RowSet) /\ faults' \in Nat
    BY <1>8, <2>2, TypeFacts DEF Trim, Fault
  <2>4. /\ Set(w, [batch[w] EXCEPT !.pc = "requeueing"])
        /\ UNCHANGED <<doc, post, user, triggers, lock, page, mishap, setup, requests>>
    BY <1>8 DEF Trim, FaultOnly
  <2> QED BY <2>1, <2>3, <2>4, BatchTypeStep, TypeFacts
<1>9. CASE Requeue(w)
  <2> DEFINE failed == {k \in 1 .. Len(rows) : rows[k].key \in batch[w].failed}
             dead == {rows[k].key : k \in {k \in failed : Spent(rows[k])}}
             counted == [k \in 1 .. Len(rows) |->
                           IF k \in failed THEN [rows[k] EXCEPT !.fails = @ + 1] ELSE rows[k]]
  <2>1. [batch[w] EXCEPT !.pc = "following"] \in BatchSet
    BY <1>0 DEF BatchSet, Phases
  <2>2. /\ rows' = Without(counted, dead) \/ UNCHANGED rows
        /\ UNCHANGED doc \/ doc' = Released({r.doc : r \in dead})
        /\ \/ UNCHANGED mishap
           \/ Note((IF dead # {} THEN {"unwritten"} ELSE {}) \cup NoteOlder(dead))
        /\ Set(w, [batch[w] EXCEPT !.pc = "following"])
        /\ UNCHANGED <<post, user, triggers, lock, page, setup, requests>>
    BY <1>9 DEF Requeue, FaultOnly
  <2>3. mishap' \subseteq Mishaps /\ faults' \in Nat
    <3>1. mishap' \subseteq Mishaps
      BY <2>2, TypeFacts, OlderType DEF Note, Mishaps
    <3>2. faults' \in Nat
      BY <1>9, TypeFacts DEF Requeue, Fault
    <3> QED BY <3>1, <3>2
  <2>4. rows' \in Seq(RowSet)
    <3> DEFINE S == {counted[k] : k \in 1 .. Len(rows)}
    <3>1. rows \in Seq(RowSet) /\ Len(rows) \in Nat
      BY TypeFacts
    <3>2. counted \in Seq(S) /\ Len(counted) = Len(rows)
      BY <3>1
    <3>3. \A k \in 1 .. Len(rows) : rows[k] \in RowSet
      BY <3>1
    <3>4. \A k \in 1 .. Len(rows) : counted[k].key \notin dead => counted[k] \in RowSet
      <4> SUFFICES ASSUME NEW k \in 1 .. Len(rows), counted[k].key \notin dead
                   PROVE  counted[k] \in RowSet
        OBVIOUS
      <4>1. CASE k \notin failed
        BY <3>3, <4>1
      <4>2. CASE k \in failed
        <5>1. counted[k] = [rows[k] EXCEPT !.fails = @ + 1]
          BY <4>2
        <5>2. counted[k].key = rows[k].key
          BY <3>3, <5>1 DEF RowSet
        <5>3. ~Spent(rows[k])
          BY <4>2, <5>2
        <5>4. rows[k].fails + 1 \in 0 .. MaxFails
          BY <3>3, <5>3, WikiAssumption DEF RowSet, Spent
        <5> QED BY <3>3, <5>1, <5>4 DEF RowSet
      <4> QED BY <4>1, <4>2
    <3> HIDE DEF counted, dead
    <3>5. {e \in S : e.key \notin dead} \subseteq RowSet
      BY <3>4
    <3>6. Without(counted, dead) \in Seq({e \in S : e.key \notin dead})
      BY <3>2, WithoutKeys
    <3> QED BY <2>2, <3>1, <3>5, <3>6
  <2>5. doc' \in [Docs -> DocSet] /\ \A e \in Docs : doc'[e].attempt = doc[e].attempt
    <3> HIDE DEF dead
    <3> QED BY <2>2, ReleasedFacts, TypeFacts
  <2> HIDE DEF counted, dead
  <2> QED BY <2>1, <2>2, <2>3, <2>4, <2>5, BatchTypeStep, TypeFacts
<1>10. CASE Follow(w)
  <2>1. triggers' \in [0 .. MaxRetry -> Nat] /\ mishap' \subseteq Mishaps /\ faults' \in Nat
    BY <1>10, TypeFacts DEF Follow, Note, Fault, Mishaps
  <2>2. Leave(w, FALSE) /\ UNCHANGED <<doc, post, user, rows, lock, page, setup, requests>>
    BY <1>10 DEF Follow, FaultOnly
  <2> QED BY <2>1, <2>2, LeaveType, BatchTypeStep, TypeFacts DEF Leave
<1>11. CASE Misconfigured(w)
  <2>1. faults' \in Nat
    BY <1>11, TypeFacts DEF Misconfigured, Fault
  <2>2. /\ Leave(w, TRUE)
        /\ UNCHANGED <<doc, post, user, rows, triggers, lock, page, mishap, setup, requests>>
    BY <1>11 DEF Misconfigured, FaultOnly
  <2> QED BY <2>1, <2>2, LeaveType, BatchTypeStep, TypeFacts DEF Leave
<1>12. CASE MapFails(w)
  <2>1. PICK r \in batch[w].todo :
          Set(w, [batch[w] EXCEPT !.todo = @ \ {r}, !.failed = @ \cup {r}])
    BY <1>12 DEF MapFails
  <2>2. [batch[w] EXCEPT !.todo = @ \ {r}, !.failed = @ \cup {r}] \in BatchSet
    BY <1>0 DEF BatchSet
  <2>3. faults' \in Nat
    <3>1. faults > 0 /\ faults' = faults - 1
      BY <1>12 DEF MapFails, Fault
    <3> QED BY <3>1, TypeFacts
  <2>4. UNCHANGED <<doc, post, user, rows, triggers, lock, page, mishap, setup, requests>>
    BY <1>12 DEF MapFails, FaultOnly
  <2> QED BY <2>1, <2>2, <2>3, <2>4, BatchTypeStep, TypeFacts
<1> QED BY <1>1, <1>2, <1>3, <1>4, <1>5, <1>6, <1>7, <1>8, <1>9, <1>10, <1>11, <1>12
        DEF BatchStep

LEMMA NextType == TypeInv /\ [Next]_vars => TypeInv'
<1> SUFFICES ASSUME TypeInv, [Next]_vars PROVE TypeInv'
  OBVIOUS
<1>1. CASE UNCHANGED vars
  BY <1>1, TypeStep, TypeFacts DEF vars, now
<1>2. CASE \E d \in Docs : \/ PostFinalize(d) \/ PostStep(d) \/ UserStep(d)
                           \/ ReparseScrub(d) \/ CancelMark(d) \/ DeleteMark(d)
  BY <1>2, PostKeepsType, ReparseKeepsType, CancelKeepsType, DeleteKeepsType DEF UserStep
<1>3. CASE TriggerStep \/ Expire
  BY <1>3, TriggersKeepType DEF TriggerStep
<1>4. CASE \E w \in Workers : BatchStep(w) \/ Misconfigured(w) \/ MapFails(w) \/ Crash(w)
  BY <1>4, BatchKeepsType, EndsKeepType
<1> QED BY <1>1, <1>2, <1>3, <1>4 DEF Next

\* Rows, batches, requests and the page keep their types; no row outlives its last
\* failed map, and no document is parsed more often than the bound allows.
THEOREM WikiTypeCorrect == Spec => []WikiTypeOK
<1>1. TypeInv => WikiTypeOK
  BY DEF TypeInv
<1> QED BY InitType, NextType, <1>1, PTL DEF Spec

-----------------------------------------------------------------------------
(* How the documents and the batches move                                  *)

\* A new attempt begins with a parse; within one a document goes forward, its text
\* can only be lost, and deleted is for good.
Moves(d) ==
  \/ /\ doc'[d].attempt > doc[d].attempt
     /\ doc'[d].status = "processing" /\ doc[d].status # "gone"
  \/ /\ doc'[d].attempt = doc[d].attempt
     /\ doc'[d].text = doc[d].text \/ doc'[d].text = "none"
     /\ \/ doc'[d].status = doc[d].status
        \/ doc[d].status = "processing" /\ doc'[d].status = "finalizing"
        \/ doc[d].status = "finalizing" /\ doc'[d].status = "completed"
        \/ doc[d].status \in {"processing", "finalizing"} /\ doc'[d].status = "cancelled"
        \/ doc[d].status # "gone" /\ doc'[d].status = "gone"

\* Nobody but a user deletes a document.
Stays(d) == Moves(d) /\ (doc'[d].status = "gone" => doc[d].status = "gone")

Deletes == {"list", "strip", "retract", "trigger"}

\* A delete is for good, and the other requests are about a document that is there.
RequestInv ==
  \A d \in Docs :
    /\ user[d].pc \in Deletes => doc[d].status = "gone"
    /\ user[d].pc \in Clears \cup {"scrub"} => doc[d].status # "gone"

LEMMA UnmovedDocs ==
  ASSUME UNCHANGED doc
  PROVE  \A d \in Docs : Stays(d)
  BY DEF Moves, Stays

LEMMA ReleasedMoves ==
  ASSUME TypeInv, NEW docs, doc' = Released(docs)
  PROVE  \A d \in Docs : Stays(d)
  BY ReleasedFacts DEF Moves, Stays

\* A user's step moves the document it is about and its own request.
LEMMA UserMoves ==
  ASSUME TypeInv, RequestInv, NEW d \in Docs,
         \/ UserStep(d) \/ ReparseScrub(d) \/ CancelMark(d) \/ DeleteMark(d)
  PROVE  /\ \A e \in Docs : Moves(e)
         /\ RequestInv'
<1>0. /\ doc \in [Docs -> DocSet] /\ user \in [Docs -> UserSet]
      /\ doc[d] \in DocSet /\ user[d] \in UserSet
  BY TypeFacts
<1>1. \A e \in Docs \ {d} : doc'[e] = doc[e] /\ user'[e] = user[e]
  <2>1. PICK u : user' = [user EXCEPT ![d] = u]
    BY <1>0 DEF UserStep, ReparseScrub, ReparseClear, ReparseReset, CancelMark, CancelScrub,
              DeleteMark, DeleteList, DeleteStrip, DeleteRetract, DeleteTrigger
  <2>2. UNCHANGED doc \/ \E r : doc' = [doc EXCEPT ![d] = r]
    BY <1>0 DEF UserStep, ReparseScrub, ReparseClear, ReparseReset, CancelMark, CancelScrub,
              DeleteMark, DeleteList, DeleteStrip, DeleteRetract, DeleteTrigger
  <2> QED BY <1>0, <2>1, <2>2
<1>2. Moves(d) /\ (user'[d].pc \in Deletes => doc'[d].status = "gone")
      /\ (user'[d].pc \in Clears \cup {"scrub"} => doc'[d].status # "gone")
  <2> USE DEF Moves, Deletes, Clears
  <2>1. CASE ReparseScrub(d)
    BY <1>0, <2>1 DEF ReparseScrub, UserSet
  <2>2. CASE ReparseClear(d)
    BY <1>0, <2>2 DEF ReparseClear, UserSet, DocSet, RequestInv
  <2>3. CASE ReparseReset(d)
    BY <1>0, <2>3 DEF ReparseReset, UserSet, DocSet, NoRequest, RequestInv, Attempts
  <2>4. CASE CancelMark(d)
    BY <1>0, <2>4 DEF CancelMark, UserSet, DocSet
  <2>5. CASE CancelScrub(d)
    BY <1>0, <2>5 DEF CancelScrub, UserSet, NoRequest
  <2>6. CASE DeleteMark(d)
    BY <1>0, <2>6 DEF DeleteMark, UserSet, DocSet
  <2>7. CASE DeleteList(d)
    <3>0. \/ user' = [user EXCEPT ![d] = [user[d] EXCEPT !.pc = "strip", !.copy = page.refs]]
          \/ user' = [user EXCEPT ![d] = [user[d] EXCEPT !.pc = "retract"]]
      BY <1>0, <2>7 DEF DeleteList
    <3>2. user'[d].pc \in {"strip", "retract"}
      <4> DEFINE u == [user[d] EXCEPT !.pc = "strip", !.copy = page.refs]
                 v == [user[d] EXCEPT !.pc = "retract"]
      <4>1. u.pc = "strip" /\ v.pc = "retract"
        BY <1>0 DEF UserSet
      <4>2. user' = [user EXCEPT ![d] = u] \/ user' = [user EXCEPT ![d] = v]
        BY <3>0
      <4> HIDE DEF u, v
      <4> QED BY <1>0, <4>1, <4>2
    <3>1. user'[d].pc \in {"strip", "retract"} /\ doc' = doc /\ user[d].pc = "list"
      BY <2>7, <3>2 DEF DeleteList
    <3> QED BY <1>0, <3>1 DEF RequestInv
  <2>8. CASE DeleteStrip(d)
    <3>1. user'[d].pc = "retract" /\ doc' = doc /\ user[d].pc = "strip"
      BY <1>0, <2>8 DEF DeleteStrip, UserSet
    <3> QED BY <1>0, <3>1 DEF RequestInv
  <2>9. CASE DeleteRetract(d)
    <3>1. user'[d].pc = "trigger" /\ doc' = doc /\ user[d].pc = "retract"
      BY <1>0, <2>9 DEF DeleteRetract, UserSet
    <3> QED BY <1>0, <3>1 DEF RequestInv
  <2>10. CASE DeleteTrigger(d)
    BY <1>0, <2>10 DEF DeleteTrigger, UserSet, NoRequest
  <2> QED BY <2>1, <2>2, <2>3, <2>4, <2>5, <2>6, <2>7, <2>8, <2>9, <2>10 DEF UserStep
<1>3. \A e \in Docs \ {d} : Moves(e)
  BY <1>1 DEF Moves
<1> QED BY <1>1, <1>2, <1>3 DEF RequestInv

LEMMA PostMoves ==
  ASSUME TypeInv, NEW d \in Docs, PostFinalize(d) \/ PostStep(d)
  PROVE  \A e \in Docs : Stays(e)
<1>1. CASE PostFinalize(d)
  <2>1. doc \in [Docs -> DocSet]
    BY TypeFacts
  <2> QED BY <1>1, <2>1 DEF PostFinalize, Moves, Stays, DocSet
<1>2. CASE PostRow(d) \/ PostTrigger(d)
  BY <1>2, UnmovedDocs DEF PostRow, PostTrigger
<1> QED BY <1>1, <1>2 DEF PostStep

\* Who moves documents, and who moves requests.
LEMMA WorkersMove ==
  ASSUME TypeInv, NEW w \in Workers,
         BatchStep(w) \/ Misconfigured(w) \/ MapFails(w) \/ Crash(w)
  PROVE  (\A d \in Docs : Stays(d)) /\ UNCHANGED user
<1>1. CASE DrainSkipped(w) \/ DrainMapped(w) \/ Requeue(w)
  <2>1. UNCHANGED user /\ (UNCHANGED doc \/ \E docs : doc' = Released(docs))
    BY <1>1 DEF DrainSkipped, DrainMapped, Requeue
  <2> QED BY <2>1, ReleasedMoves, UnmovedDocs
<1>2. CASE Peek(w) \/ MapRetract(w) \/ MapIngest(w) \/ ReduceRead(w) \/ ReduceWrite(w)
  BY <1>2, UnmovedDocs DEF Peek, MapRetract, MapIngest, ReduceRead, ReduceWrite
<1>3. CASE Trim(w) \/ Follow(w) \/ Unlock(w) \/ Misconfigured(w) \/ MapFails(w) \/ Crash(w)
  BY <1>3, UnmovedDocs DEF Trim, Follow, Unlock, Misconfigured, MapFails, Crash
<1> QED BY <1>1, <1>2, <1>3 DEF BatchStep

LEMMA TriggersMove ==
  ASSUME TriggerStep \/ Expire
  PROVE  (\A d \in Docs : Stays(d)) /\ UNCHANGED <<user, rows, page>>
  BY UnmovedDocs DEF TriggerStep, Expire, Refused, Take

LEMMA RequestsKept ==
  ASSUME RequestInv, \A d \in Docs : Stays(d), UNCHANGED user
  PROVE  (\A d \in Docs : Moves(d)) /\ RequestInv'
  BY DEF RequestInv, Moves, Stays, Clears

LEMMA NextMoves ==
  ASSUME TypeInv, RequestInv, [Next]_vars
  PROVE  (\A d \in Docs : Moves(d)) /\ RequestInv'
<1>1. CASE UNCHANGED vars
  BY <1>1, UnmovedDocs, RequestsKept DEF vars, now
<1>2. CASE \E d \in Docs : PostFinalize(d) \/ PostStep(d)
  <2>1. UNCHANGED user
    BY <1>2 DEF PostFinalize, PostStep, PostRow, PostTrigger
  <2> QED BY <1>2, <2>1, PostMoves, RequestsKept
<1>3. CASE \E d \in Docs : UserStep(d) \/ ReparseScrub(d) \/ CancelMark(d) \/ DeleteMark(d)
  BY <1>3, UserMoves
<1>4. CASE TriggerStep \/ Expire
  BY <1>4, TriggersMove, RequestsKept
<1>5. CASE \E w \in Workers : BatchStep(w) \/ Misconfigured(w) \/ MapFails(w) \/ Crash(w)
  BY <1>5, WorkersMove, RequestsKept
<1> QED BY <1>1, <1>2, <1>3, <1>4, <1>5 DEF Next

-----------------------------------------------------------------------------
(* What each step does to the records of the batches                       *)

LEMMA SetFacts ==
  ASSUME TypeInv, NEW w \in Workers, NEW b, batch' = [batch EXCEPT ![w] = b]
  PROVE  /\ batch'[w] = b
         /\ \A v \in Workers \ {w} : batch'[v] = batch[v]
         /\ batch[w] \in BatchSet
  BY TypeFacts

\* The fields of a record that only its phase, or what else is named, changes.
SamePeeked(w) == batch'[w].peeked = batch[w].peeked /\ batch'[w].todo = batch[w].todo
                 /\ batch'[w].failed = batch[w].failed
SameMapped(w) == batch'[w].adds = batch[w].adds /\ batch'[w].strips = batch[w].strips
                 /\ batch'[w].skipped = batch[w].skipped /\ batch'[w].mapped = batch[w].mapped
Others(w) == \A v \in Workers \ {w} : batch'[v] = batch[v]

LEMMA LeaveFacts ==
  ASSUME TypeInv, NEW w \in Workers, NEW again, Leave(w, again)
  PROVE  /\ Others(w) /\ SamePeeked(w) /\ SameMapped(w)
         /\ batch'[w].pc = "unlocking"
<1>1. batch' = [batch EXCEPT ![w] = [batch[w] EXCEPT !.pc = "unlocking", !.again = again]]
  BY DEF Leave, Set
<1> HIDE DEF Leave
<1>2. /\ batch'[w] = [batch[w] EXCEPT !.pc = "unlocking", !.again = again]
      /\ Others(w) /\ batch[w] \in BatchSet
  BY <1>1, SetFacts DEF Others
<1> QED BY <1>2 DEF BatchSet, SamePeeked, SameMapped

\* A batch that has nothing yet: fresh, ended or dead.
Fresh(b) == /\ b.peeked = {} /\ b.todo = {} /\ b.failed = {}
            /\ b.adds = {} /\ b.strips = {} /\ b.skipped = {} /\ b.mapped = {}
            /\ b.pc \in {"idle", "locked"}

LEMMA FreshFacts ==
  ASSUME TypeInv, NEW w \in Workers,
         Unlock(w) \/ Crash(w) \/ \E n \in 0 .. MaxRetry : Take(w, n)
  PROVE  Others(w) /\ Fresh(batch'[w])
<1>1. CASE Unlock(w) \/ Crash(w)
  <2>1. batch' = [batch EXCEPT ![w] = NoBatch]
    BY <1>1 DEF Unlock, Crash
  <2>2. Fresh(NoBatch)
    BY DEF Fresh, NoBatch
  <2> QED BY <2>1, <2>2, SetFacts DEF Others
<1>2. CASE \E n \in 0 .. MaxRetry : Take(w, n)
  <2>1. PICK n \in 0 .. MaxRetry :
          batch' = [batch EXCEPT ![w] = [NoBatch EXCEPT !.pc = "locked", !.retried = n]]
    BY <1>2 DEF Take, Start
  <2>2. Fresh([NoBatch EXCEPT !.pc = "locked", !.retried = n])
    BY DEF Fresh, NoBatch
  <2> QED BY <2>1, <2>2, SetFacts DEF Others
<1> QED BY <1>1, <1>2

\* Peek takes rows of the table, of each document one.
LEMMA PeekFacts ==
  ASSUME TypeInv, NEW w \in Workers, Peek(w)
  PROVE  /\ Others(w) /\ SameMapped(w)
         /\ \/ SamePeeked(w) /\ batch'[w].pc = "unlocking"
            \/ /\ batch'[w].pc = "mapping" /\ batch'[w].failed = batch[w].failed
               /\ batch'[w].peeked \subseteq KeysOf(rows)
               /\ batch'[w].todo \subseteq batch'[w].peeked
               /\ \A r, s \in batch'[w].todo : r.doc = s.doc => r = s
               /\ \/ "unretracted" \in mishap'
                  \/ \A r \in batch'[w].peeked : r.op = "retract" => r \in batch'[w].todo
<1> DEFINE some == SubSeq(rows, 1, IF Len(rows) < BatchSize THEN Len(rows) ELSE BatchSize)
           keys == [k \in 1 .. Len(some) |-> some[k].key]
           kept == {keys[k] : k \in {k \in 1 .. Len(keys) : LastOnly(keys, k)}}
           dropped == {keys[k] : k \in 1 .. Len(keys)} \ kept
           b == [batch[w] EXCEPT !.pc = "mapping", !.todo = kept, !.peeked = kept \cup dropped]
<1>0. batch[w].pc = "locked"
  BY DEF Peek
<1>1. \/ Leave(w, FALSE)
      \/ Set(w, b) /\ Note(IF \E r \in dropped : r.op = "retract" THEN {"unretracted"} ELSE {})
  BY DEF Peek
<1>2. Len(some) \in Nat /\ \A k \in 1 .. Len(some) : some[k].key \in KeysOf(rows)
  BY WikiAssumption, PeekedKeys
<1> HIDE DEF some
<1>3. Len(keys) = Len(some) /\ \A k \in 1 .. Len(keys) : keys[k] \in KeysOf(rows)
  BY <1>2
<1> HIDE DEF keys
<1>4. \A r, s \in kept : r.doc = s.doc => r = s
  <2> SUFFICES ASSUME NEW j \in 1 .. Len(keys), NEW k \in 1 .. Len(keys),
                      LastOnly(keys, j), LastOnly(keys, k), keys[j].doc = keys[k].doc
               PROVE  j = k
    OBVIOUS
  <2>1. ~ j < k /\ ~ k < j
    BY <1>2, <1>3 DEF LastOnly
  <2> QED BY <1>2, <1>3, <2>1
<1>5. kept \cup dropped \subseteq KeysOf(rows)
  BY <1>3
<1>6. \A r \in kept \cup dropped : r \in kept \/ r \in dropped
  OBVIOUS
<1> HIDE DEF kept, dropped
<1>7. CASE Leave(w, FALSE)
  BY <1>7, LeaveFacts
<1>8. CASE Set(w, b) /\ Note(IF \E r \in dropped : r.op = "retract" THEN {"unretracted"} ELSE {})
  <2>1. batch'[w] = b /\ Others(w) /\ batch[w] \in BatchSet
    BY <1>8, SetFacts DEF Set, Others
  <2>2. /\ batch'[w].pc = "mapping" /\ batch'[w].failed = batch[w].failed
        /\ batch'[w].peeked = kept \cup dropped /\ batch'[w].todo = kept /\ SameMapped(w)
    BY <2>1 DEF BatchSet, SameMapped
  <2>3. (\E r \in dropped : r.op = "retract") => "unretracted" \in mishap'
    BY <1>8 DEF Note
  <2> HIDE DEF b
  <2> QED BY <1>4, <1>5, <1>6, <2>1, <2>2, <2>3
<1> QED BY <1>1, <1>7, <1>8

LEMMA MapRetractFacts ==
  ASSUME TypeInv, NEW w \in Workers, MapRetract(w)
  PROVE  \E r \in batch[w].todo :
           /\ r.op = "retract" /\ Others(w) /\ batch[w].pc = "mapping" /\ batch'[w].pc = "mapping"
           /\ batch'[w].todo = batch[w].todo \ {r}
           /\ batch'[w].peeked = batch[w].peeked /\ batch'[w].failed = batch[w].failed
           /\ batch'[w].adds = batch[w].adds /\ batch'[w].skipped = batch[w].skipped
           /\ batch'[w].mapped = batch[w].mapped
           /\ \/ "unretracted" \in mishap' /\ batch'[w].strips \in {batch[w].strips, batch[w].strips \cup {r.doc}}
              \/ batch'[w].strips = IF Listed(r) THEN batch[w].strips \cup {r.doc}
                                    ELSE batch[w].strips
<1>1. PICK r, strips :
        /\ r \in batch[w].todo
        /\ r.op = "retract"
        /\ \/ strips = IF Listed(r) THEN batch[w].strips \cup {r.doc} ELSE batch[w].strips
           \/ /\ "unretracted" \in mishap'
              /\ strips = batch[w].strips \/ strips = batch[w].strips \cup {r.doc}
        /\ batch' = [batch EXCEPT ![w] = [batch[w] EXCEPT !.todo = @ \ {r}, !.strips = strips]]
  BY DEF MapRetract, Set, Note
<1>2. /\ batch'[w] = [batch[w] EXCEPT !.todo = @ \ {r}, !.strips = strips]
      /\ Others(w) /\ batch[w] \in BatchSet
  BY <1>1, SetFacts DEF Others
<1>3. batch[w].pc = "mapping"
  BY DEF MapRetract
<1>4. /\ batch'[w].pc = "mapping" /\ batch'[w].todo = batch[w].todo \ {r}
      /\ batch'[w].peeked = batch[w].peeked /\ batch'[w].failed = batch[w].failed
      /\ batch'[w].adds = batch[w].adds /\ batch'[w].skipped = batch[w].skipped
      /\ batch'[w].mapped = batch[w].mapped /\ batch'[w].strips = strips
  BY <1>2, <1>3 DEF BatchSet
<1> QED BY <1>1, <1>2, <1>3, <1>4

LEMMA MapIngestFacts ==
  ASSUME TypeInv, NEW w \in Workers, MapIngest(w)
  PROVE  \E r \in batch[w].todo : \E read \in Reads(r.doc) \cup {NoText(r.doc)}, listed \in BOOLEAN :
           /\ \/ "unread" \in mishap'
              \/ read \in Reads(r.doc) /\ listed = (page.live /\ r.doc \in page.refs)
           /\ r.op = "ingest" /\ Others(w) /\ batch[w].pc = "mapping" /\ batch'[w].pc = "mapping"
           /\ batch'[w].todo = batch[w].todo \ {r}
           /\ batch'[w].peeked = batch[w].peeked /\ batch'[w].failed = batch[w].failed
           /\ batch'[w].skipped = IF read.text = "none" THEN batch[w].skipped \cup {read.done}
                                  ELSE batch[w].skipped
           /\ batch'[w].mapped = IF read.text # "none" THEN batch[w].mapped \cup {read.done}
                                 ELSE batch[w].mapped
           /\ batch'[w].adds = IF read.text = "mentions" THEN batch[w].adds \cup {r.doc}
                               ELSE batch[w].adds
           /\ batch'[w].strips = IF read.text # "none" /\ listed
                                 THEN batch[w].strips \cup {r.doc} ELSE batch[w].strips
<1> DEFINE b(r, read, listed) ==
      [batch[w] EXCEPT !.todo = @ \ {r},
         !.skipped = IF Skipped(read.text) THEN @ \cup {read.done} ELSE @,
         !.mapped = IF read.text # "none" THEN @ \cup {read.done} ELSE @,
         !.adds = IF read.text = "mentions" THEN @ \cup {r.doc} ELSE @,
         !.strips = IF read.text # "none" /\ listed THEN @ \cup {r.doc} ELSE @]
<1>1. PICK r, read, listed :
        /\ r \in batch[w].todo
        /\ read \in Reads(r.doc) \cup {NoText(r.doc)} /\ listed \in BOOLEAN /\ r.op = "ingest"
        /\ \/ "unread" \in mishap'
           \/ read \in Reads(r.doc) /\ listed = (page.live /\ r.doc \in page.refs)
        /\ batch' = [batch EXCEPT ![w] = b(r, read, listed)]
  <2> HIDE DEF b
  <2>0. \A r, read, listed : MapTo(w, r, read, listed) => batch' = [batch EXCEPT ![w] = b(r, read, listed)]
    BY DEF MapTo, Set, b
  <2>1. PICK r \in batch[w].todo :
          /\ r.op = "ingest"
          /\ \/ \E read \in Reads(r.doc) : MapTo(w, r, read, page.live /\ r.doc \in page.refs)
             \/ /\ "unread" \in mishap'
                /\ \E read \in Reads(r.doc) \cup {NoText(r.doc)} : MapTo(w, r, read, FALSE)
    BY DEF MapIngest, Note
  <2>2. CASE \E read \in Reads(r.doc) : MapTo(w, r, read, page.live /\ r.doc \in page.refs)
    <3>1. PICK read \in Reads(r.doc) : MapTo(w, r, read, page.live /\ r.doc \in page.refs)
      BY <2>2
    <3>2. batch' = [batch EXCEPT ![w] = b(r, read, page.live /\ r.doc \in page.refs)]
      BY <2>0, <3>1
    <3>3. (page.live /\ r.doc \in page.refs) \in BOOLEAN
      OBVIOUS
    <3> QED BY <2>1, <3>2, <3>3
  <2>3. CASE /\ "unread" \in mishap'
             /\ \E read \in Reads(r.doc) \cup {NoText(r.doc)} : MapTo(w, r, read, FALSE)
    <3>1. PICK read \in Reads(r.doc) \cup {NoText(r.doc)} : MapTo(w, r, read, FALSE)
      BY <2>3
    <3>2. batch' = [batch EXCEPT ![w] = b(r, read, FALSE)] /\ FALSE \in BOOLEAN
      BY <2>0, <3>1
    <3> QED BY <2>1, <2>3, <3>2
  <2> QED BY <2>1, <2>2, <2>3
<1> DEFINE c == b(r, read, listed)
<1>2. batch[w] \in BatchSet /\ batch[w].pc = "mapping"
  BY TypeFacts DEF MapIngest
<1>3. /\ c.pc = "mapping" /\ c.todo = batch[w].todo \ {r}
      /\ c.peeked = batch[w].peeked /\ c.failed = batch[w].failed
      /\ c.skipped = IF read.text = "none" THEN batch[w].skipped \cup {read.done}
                     ELSE batch[w].skipped
      /\ c.mapped = IF read.text # "none" THEN batch[w].mapped \cup {read.done}
                    ELSE batch[w].mapped
      /\ c.adds = IF read.text = "mentions" THEN batch[w].adds \cup {r.doc}
                  ELSE batch[w].adds
      /\ c.strips = IF read.text # "none" /\ listed
                    THEN batch[w].strips \cup {r.doc} ELSE batch[w].strips
  BY <1>2 DEF BatchSet, Skipped
<1>4. batch' = [batch EXCEPT ![w] = c]
  BY <1>1
<1> HIDE DEF c, b
<1>5. batch'[w] = c /\ Others(w)
  BY <1>4, SetFacts DEF Others
<1> QED BY <1>1, <1>2, <1>3, <1>5

LEMMA MapFailsFacts ==
  ASSUME TypeInv, NEW w \in Workers, MapFails(w)
  PROVE  \E r \in batch[w].todo :
           /\ r.op = "ingest" /\ Others(w) /\ batch[w].pc = "mapping" /\ batch'[w].pc = "mapping"
           /\ batch'[w].todo = batch[w].todo \ {r} /\ batch'[w].peeked = batch[w].peeked
           /\ batch'[w].failed = batch[w].failed \cup {r} /\ SameMapped(w)
<1>1. PICK r \in batch[w].todo :
        /\ r.op = "ingest"
        /\ batch' = [batch EXCEPT ![w] = [batch[w] EXCEPT !.todo = @ \ {r}, !.failed = @ \cup {r}]]
  BY DEF MapFails, Set
<1>2. /\ batch'[w] = [batch[w] EXCEPT !.todo = @ \ {r}, !.failed = @ \cup {r}]
      /\ Others(w) /\ batch[w] \in BatchSet
  BY <1>1, SetFacts DEF Others
<1>3. batch[w].pc = "mapping"
  BY DEF MapFails
<1>4. /\ batch'[w].pc = "mapping"
      /\ batch'[w].todo = batch[w].todo \ {r} /\ batch'[w].peeked = batch[w].peeked
      /\ batch'[w].failed = batch[w].failed \cup {r} /\ SameMapped(w)
  BY <1>2, <1>3 DEF BatchSet, SameMapped
<1> QED BY <1>1, <1>2, <1>3, <1>4

LEMMA DrainSkippedFacts ==
  ASSUME TypeInv, NEW w \in Workers, DrainSkipped(w)
  PROVE  \E done \in batch[w].skipped :
           /\ doc' = Released({done.doc}) /\ Note(NoteOlder({done})) /\ UNCHANGED page
           /\ Others(w) /\ SamePeeked(w) /\ batch[w].pc = "mapping" /\ batch'[w].pc = "mapping"
           /\ batch'[w].adds = batch[w].adds /\ batch'[w].strips = batch[w].strips
           /\ batch'[w].mapped = batch[w].mapped
           /\ batch'[w].skipped = batch[w].skipped \ {done}
<1>1. PICK done \in batch[w].skipped :
        /\ doc' = Released({done.doc}) /\ Note(NoteOlder({done}))
        /\ batch' = [batch EXCEPT ![w] = [batch[w] EXCEPT !.skipped = @ \ {done}]]
  BY DEF DrainSkipped, Set
<1>2. /\ batch'[w] = [batch[w] EXCEPT !.skipped = @ \ {done}]
      /\ Others(w) /\ batch[w] \in BatchSet
  BY <1>1, SetFacts DEF Others
<1>3. batch[w].pc = "mapping" /\ UNCHANGED page
  BY DEF DrainSkipped
<1> QED BY <1>1, <1>2, <1>3 DEF BatchSet, SamePeeked

LEMMA ReduceReadFacts ==
  ASSUME TypeInv, NEW w \in Workers, ReduceRead(w)
  PROVE  /\ Others(w) /\ SamePeeked(w) /\ UNCHANGED <<doc, page>>
         /\ batch[w].pc = "mapping" /\ batch[w].todo = {} /\ batch[w].skipped = {}
         /\ batch'[w].strips = batch[w].strips /\ batch'[w].mapped = batch[w].mapped
         /\ batch'[w].skipped = batch[w].skipped
         /\ \E adds \in SUBSET {d \in batch[w].adds : ~Gone(d)}, copy \in {page, NoPage} :
              /\ "unread" \in mishap' \/ adds = {d \in batch[w].adds : ~Gone(d)}
              /\ {"unread", "unretracted"} \subseteq mishap' \/ copy = page
              /\ \/ /\ batch'[w].pc = "publishing" /\ batch'[w].adds = batch[w].adds
                    /\ adds = {} /\ (copy.live => batch[w].strips = {})
                 \/ /\ batch'[w].pc = "reducing" /\ batch'[w].adds = adds
                    /\ batch'[w].copy = copy
<1> DEFINE live == {d \in batch[w].adds : ~Gone(d)}
<1>1. /\ batch[w].pc = "mapping" /\ batch[w].todo = {} /\ batch[w].skipped = {}
      /\ UNCHANGED <<doc, page>>
  BY DEF ReduceRead
<1>2. PICK adds, copy :
        /\ adds \subseteq live /\ copy \in {page, NoPage} /\ Reduce(w, adds, copy)
        /\ "unread" \in mishap' \/ adds = live
        /\ {"unread", "unretracted"} \subseteq mishap' \/ copy = page
  BY DEF ReduceRead, Note
<1> HIDE DEF live
<1> DEFINE idle == IF copy.live THEN adds \cup batch[w].strips = {} ELSE adds = {}
<1>3. batch' = [batch EXCEPT ![w] =
                  IF idle THEN [batch[w] EXCEPT !.pc = "publishing"]
                  ELSE [batch[w] EXCEPT !.pc = "reducing", !.adds = adds, !.copy = copy]]
  BY <1>2 DEF Reduce, Set
<1>4. /\ batch'[w] = IF idle THEN [batch[w] EXCEPT !.pc = "publishing"]
                     ELSE [batch[w] EXCEPT !.pc = "reducing", !.adds = adds, !.copy = copy]
      /\ Others(w) /\ batch[w] \in BatchSet
  BY <1>3, SetFacts DEF Others
<1>5. /\ SamePeeked(w)
      /\ batch'[w].strips = batch[w].strips /\ batch'[w].mapped = batch[w].mapped
      /\ batch'[w].skipped = batch[w].skipped
      /\ \/ /\ batch'[w].pc = "publishing" /\ batch'[w].adds = batch[w].adds
            /\ adds = {} /\ (copy.live => batch[w].strips = {})
         \/ batch'[w].pc = "reducing" /\ batch'[w].adds = adds /\ batch'[w].copy = copy
  <2>1. CASE idle
    <3>1. batch'[w] = [batch[w] EXCEPT !.pc = "publishing"]
      BY <1>4, <2>1
    <3>2. adds = {} /\ (copy.live => batch[w].strips = {})
      BY <2>1
    <3> QED BY <1>4, <3>1, <3>2 DEF BatchSet, SamePeeked
  <2>2. CASE ~idle
    <3>1. batch'[w] = [batch[w] EXCEPT !.pc = "reducing", !.adds = adds, !.copy = copy]
      BY <1>4, <2>2
    <3> QED BY <1>4, <3>1 DEF BatchSet, SamePeeked
  <2> QED BY <2>1, <2>2
<1> QED BY <1>1, <1>2, <1>4, <1>5 DEF live

LEMMA ReduceWriteFacts ==
  ASSUME TypeInv, NEW w \in Workers, ReduceWrite(w)
  PROVE  /\ Others(w) /\ SamePeeked(w) /\ SameMapped(w) /\ UNCHANGED doc
         /\ batch[w].pc = "reducing" /\ batch'[w].pc = "publishing"
         /\ \/ /\ batch[w].copy.live = page.live /\ UNCHANGED mishap
               /\ page'.live = TRUE
               /\ page'.refs = (batch[w].copy.refs \ batch[w].strips) \cup batch[w].adds
            \/ /\ batch[w].copy.live # page.live /\ UNCHANGED page
               /\ batch[w].adds # {} => "unwritten" \in mishap'
            \/ {"unwritten", "unretracted"} \subseteq mishap' /\ UNCHANGED page
<1>1. /\ batch[w].pc = "reducing" /\ UNCHANGED doc
      /\ batch' = [batch EXCEPT ![w] = [batch[w] EXCEPT !.pc = "publishing"]]
  BY DEF ReduceWrite, Set
<1>2. /\ batch'[w] = [batch[w] EXCEPT !.pc = "publishing"]
      /\ Others(w) /\ batch[w] \in BatchSet
  BY <1>1, SetFacts DEF Others
<1>3. \/ /\ batch[w].copy.live = page.live /\ UNCHANGED mishap
         /\ page'.live = TRUE
         /\ page'.refs = (batch[w].copy.refs \ batch[w].strips) \cup batch[w].adds
      \/ /\ batch[w].copy.live # page.live /\ UNCHANGED page
         /\ batch[w].adds # {} => "unwritten" \in mishap'
      \/ {"unwritten", "unretracted"} \subseteq mishap' /\ UNCHANGED page
  BY DEF ReduceWrite, Note
<1> QED BY <1>1, <1>2, <1>3 DEF BatchSet, SamePeeked, SameMapped

LEMMA DrainMappedFacts ==
  ASSUME TypeInv, NEW w \in Workers, DrainMapped(w)
  PROVE  /\ Others(w) /\ SamePeeked(w) /\ SameMapped(w) /\ UNCHANGED page
         /\ batch[w].pc = "publishing" /\ batch'[w].pc = "trimming"
         /\ doc' = Released({m.doc : m \in batch[w].mapped})
         /\ Note(NoteOlder(batch[w].mapped))
<1>1. /\ batch[w].pc = "publishing" /\ UNCHANGED page
      /\ doc' = Released({m.doc : m \in batch[w].mapped})
      /\ Note(NoteOlder(batch[w].mapped))
      /\ batch' = [batch EXCEPT ![w] = [batch[w] EXCEPT !.pc = "trimming"]]
  BY DEF DrainMapped, Set
<1>2. /\ batch'[w] = [batch[w] EXCEPT !.pc = "trimming"]
      /\ Others(w) /\ batch[w] \in BatchSet
  BY <1>1, SetFacts DEF Others
<1> QED BY <1>1, <1>2 DEF BatchSet, SamePeeked, SameMapped

\* The steps after the work: only the phase of the record changes.
LEMMA AfterwardsFacts ==
  ASSUME TypeInv, NEW w \in Workers, Trim(w) \/ Requeue(w) \/ Follow(w) \/ Misconfigured(w)
  PROVE  /\ Others(w) /\ SamePeeked(w) /\ SameMapped(w) /\ UNCHANGED page
         /\ batch'[w].pc \in {"requeueing", "following", "unlocking"}
<1>1. CASE Trim(w) \/ Requeue(w)
  <2>1. PICK pc \in {"requeueing", "following"} :
          UNCHANGED page /\ batch' = [batch EXCEPT ![w] = [batch[w] EXCEPT !.pc = pc]]
    BY <1>1 DEF Trim, Requeue, Set
  <2>2. /\ batch'[w] = [batch[w] EXCEPT !.pc = pc]
        /\ Others(w) /\ batch[w] \in BatchSet
    BY <2>1, SetFacts DEF Others
  <2> QED BY <2>1, <2>2 DEF BatchSet, SamePeeked, SameMapped
<1>2. CASE Follow(w) \/ Misconfigured(w)
  <2>1. UNCHANGED page /\ \E again : Leave(w, again)
    BY <1>2 DEF Follow, Misconfigured
  <2> QED BY <2>1, LeaveFacts
<1> QED BY <1>1, <1>2

-----------------------------------------------------------------------------
(* Which retracts are in the table                                         *)

\* Retracts are of deleted documents, and never fail in a map.
RetractInv ==
  /\ \A r \in KeysOf(rows) : r.op = "retract" => doc[r.doc].status = "gone"
  /\ \A w \in Workers :
       /\ \A r \in batch[w].peeked : r.op = "retract" => doc[r.doc].status = "gone"
       /\ batch[w].todo \subseteq batch[w].peeked
       /\ \A r \in batch[w].failed : r.op = "ingest"

\* The retracts stay in the table, and no other comes.
SameRetracts ==
  \A r : r.op = "retract" => (r \in KeysOf(rows') <=> r \in KeysOf(rows))

LEMMA AppendKeys ==
  ASSUME NEW S, NEW some \in Seq(S), NEW row \in S
  PROVE  KeysOf(Append(some, row)) = KeysOf(some) \cup {row.key}
<1>1. Len(some) \in Nat /\ Len(Append(some, row)) = Len(some) + 1
      /\ Append(some, row)[Len(some) + 1] = row
      /\ \A k \in 1 .. Len(some) : Append(some, row)[k] = some[k]
  OBVIOUS
<1>2. 1 .. (Len(some) + 1) = 1 .. Len(some) \cup {Len(some) + 1}
  BY <1>1
<1> QED BY <1>1, <1>2 DEF KeysOf

LEMMA RowKeys ==
  ASSUME TypeInv
  PROVE  \A r \in KeysOf(rows) : r \in Key
  BY DEF KeysOf, TypeInv, WikiTypeOK

LEMMA ScrubKeeps ==
  ASSUME TypeInv, NEW d \in Docs, Scrub(d)
  PROVE  SameRetracts
<1> DEFINE ingests == {key \in Key : key.op = "ingest" /\ key.doc = d}
<1>1. rows' = Without(rows, ingests) \/ UNCHANGED rows
  BY DEF Scrub, Scrubbed
<1>2. \A r \in ingests : r.op # "retract"
  OBVIOUS
<1> HIDE DEF ingests
<1>3. KeysOf(rows') = KeysOf(rows) \ ingests \/ UNCHANGED rows
  BY <1>1, WithoutKeys, TypeFacts
<1> QED BY <1>2, <1>3 DEF SameRetracts

LEMMA PostRowKeeps ==
  ASSUME TypeInv, NEW d \in Docs, PostRow(d)
  PROVE  SameRetracts
<1> DEFINE row == Row("ingest", d, post[d].attempt, FALSE)
<1>1. rows' = Append(rows, row) \/ rows' = rows
  BY DEF PostRow
<1>2. post[d].attempt \in Attempts
  BY TypeFacts DEF PostSet
<1>3. row \in RowSet /\ row.key.op = "ingest"
  BY <1>2, WikiAssumption DEF Row, RowSet, Key
<1> HIDE DEF row
<1>4. KeysOf(rows') = KeysOf(rows) \cup {row.key} \/ KeysOf(rows') = KeysOf(rows)
  <2>1. rows \in Seq(RowSet)
    BY TypeFacts
  <2> QED BY <1>1, <1>3, <2>1, AppendKeys
<1> QED BY <1>3, <1>4 DEF SameRetracts

\* A delete puts its retract into the table, or the step says that it failed.
LEMMA DeleteRetractAdds ==
  ASSUME TypeInv, NEW d \in Docs, DeleteRetract(d)
  PROVE  /\ \A r : r.op = "retract" => (r \in KeysOf(rows') => r \in KeysOf(rows) \/ r.doc = d)
         /\ KeysOf(rows) \subseteq KeysOf(rows')
         /\ \/ "unstored" \in mishap'
            \/ \E r \in KeysOf(rows') : r.op = "retract" /\ r.doc = d
<1> DEFINE row == Row("retract", d, doc[d].attempt, user[d].listed)
<1>1. rows' = Append(rows, row) \/ (rows' = rows /\ "unstored" \in mishap')
  BY DEF DeleteRetract, Note
<1>2. doc[d].attempt \in Attempts /\ user[d].listed \in BOOLEAN
  BY TypeFacts DEF DocSet, UserSet
<1>3. row \in RowSet /\ row.key.op = "retract" /\ row.key.doc = d
  BY <1>2, WikiAssumption DEF Row, RowSet, Key
<1> HIDE DEF row
<1>4. rows \in Seq(RowSet)
  BY TypeFacts
<1>5. KeysOf(Append(rows, row)) = KeysOf(rows) \cup {row.key}
  BY <1>3, <1>4, AppendKeys
<1> QED BY <1>1, <1>3, <1>5

LEMMA RequeueKeeps ==
  ASSUME TypeInv, RetractInv, NEW w \in Workers, Requeue(w)
  PROVE  SameRetracts
<1> DEFINE failed == {k \in 1 .. Len(rows) : rows[k].key \in batch[w].failed}
           dead == {rows[k].key : k \in {k \in failed : Spent(rows[k])}}
           counted == [k \in 1 .. Len(rows) |->
                         IF k \in failed THEN [rows[k] EXCEPT !.fails = @ + 1] ELSE rows[k]]
           S == {counted[k] : k \in 1 .. Len(rows)}
<1>1. rows' = Without(counted, dead) \/ UNCHANGED rows
  BY DEF Requeue
<1>2. rows \in Seq(RowSet) /\ Len(rows) \in Nat
  BY TypeFacts
<1>3. counted \in Seq(S) /\ Len(counted) = Len(rows)
  BY <1>2
<1>4. \A k \in 1 .. Len(rows) : counted[k].key = rows[k].key
  <2>1. \A k \in 1 .. Len(rows) : rows[k] \in RowSet
    BY <1>2
  <2> QED BY <2>1 DEF RowSet
<1>5. \A r \in dead : r.op # "retract"
  BY DEF RetractInv
<1> HIDE DEF counted, dead, S
<1>6. KeysOf(counted) = KeysOf(rows)
  BY <1>3, <1>4 DEF KeysOf
<1>7. KeysOf(rows') = KeysOf(rows) \ dead \/ UNCHANGED rows
  <2>1. KeysOf(Without(counted, dead)) = KeysOf(counted) \ dead
    BY <1>3, WithoutKeys
  <2> QED BY <1>1, <1>6, <2>1
<1> QED BY <1>5, <1>7 DEF SameRetracts

LEMMA TrimTakes ==
  ASSUME TypeInv, NEW w \in Workers, Trim(w)
  PROVE  /\ KeysOf(rows') \subseteq KeysOf(rows)
         /\ \A r \in KeysOf(rows) : r \in KeysOf(rows') \/ r \in batch[w].peeked
<1>1. rows' = Without(rows, TrimIds(batch[w])) \/ rows' = rows
  BY DEF Trim
<1>2. KeysOf(Without(rows, TrimIds(batch[w]))) = KeysOf(rows) \ TrimIds(batch[w])
  BY WithoutKeys, TypeFacts
<1> QED BY <1>1, <1>2 DEF TrimIds

\* A retract comes from a delete and goes with a trim.
LEMMA RowsMove ==
  ASSUME TypeInv, RetractInv, [Next]_vars
  PROVE  \/ SameRetracts
         \/ \E d \in Docs : DeleteRetract(d)
         \/ \E w \in Workers : Trim(w)
<1>1. UNCHANGED rows => SameRetracts
  BY DEF SameRetracts
<1>2. CASE UNCHANGED vars
  BY <1>1, <1>2 DEF vars, now
<1>3. ASSUME NEW d \in Docs, PostFinalize(d) \/ PostStep(d)
      PROVE  SameRetracts
  BY <1>1, <1>3, PostRowKeeps DEF PostStep, PostFinalize, PostTrigger
<1>4. ASSUME NEW d \in Docs, \/ ReparseScrub(d) \/ CancelScrub(d) \/ DeleteMark(d)
      PROVE  SameRetracts
  BY <1>1, <1>4, ScrubKeeps DEF ReparseScrub, CancelScrub, DeleteMark
<1>5. ASSUME NEW d \in Docs, \/ ReparseClear(d) \/ ReparseReset(d) \/ CancelMark(d)
                             \/ DeleteList(d) \/ DeleteStrip(d) \/ DeleteTrigger(d)
      PROVE  SameRetracts
  BY <1>1, <1>5 DEF ReparseClear, ReparseReset, CancelMark, DeleteList, DeleteStrip, DeleteTrigger
<1>6. CASE TriggerStep \/ Expire
  BY <1>1, <1>6, TriggersMove
<1>7. ASSUME NEW w \in Workers, \/ Peek(w) \/ MapRetract(w) \/ MapIngest(w) \/ DrainSkipped(w)
                                \/ ReduceRead(w) \/ ReduceWrite(w) \/ DrainMapped(w)
      PROVE  SameRetracts
  BY <1>1, <1>7 DEF Peek, MapRetract, MapIngest, DrainSkipped, ReduceRead, ReduceWrite, DrainMapped
<1>8. ASSUME NEW w \in Workers, \/ Follow(w) \/ Unlock(w) \/ Misconfigured(w)
                                \/ MapFails(w) \/ Crash(w)
      PROVE  SameRetracts
  BY <1>1, <1>8 DEF Follow, Unlock, Misconfigured, MapFails, Crash
<1>9. CASE \E d \in Docs : \/ PostFinalize(d) \/ PostStep(d) \/ UserStep(d)
                           \/ ReparseScrub(d) \/ CancelMark(d) \/ DeleteMark(d)
  BY <1>3, <1>4, <1>5, <1>9 DEF UserStep
<1>10. CASE \E w \in Workers : BatchStep(w) \/ Misconfigured(w) \/ MapFails(w) \/ Crash(w)
  BY <1>7, <1>8, <1>10, RequeueKeeps DEF BatchStep
<1> QED BY <1>2, <1>6, <1>9, <1>10 DEF Next

\* What a batch has peeked at is dropped, kept, or freshly read from the table.
LEMMA BatchesMove ==
  ASSUME TypeInv, RetractInv, [Next]_vars, NEW w \in Workers
  PROVE  /\ \/ batch'[w].peeked \subseteq batch[w].peeked
            \/ Peek(w) /\ batch'[w].peeked \subseteq KeysOf(rows)
         /\ batch'[w].todo \subseteq batch'[w].peeked
         /\ \A r \in batch'[w].failed : r.op = "ingest"
<1> DEFINE Goal == /\ \/ batch'[w].peeked \subseteq batch[w].peeked
                      \/ Peek(w) /\ batch'[w].peeked \subseteq KeysOf(rows)
                   /\ batch'[w].todo \subseteq batch'[w].peeked
                   /\ \A r \in batch'[w].failed : r.op = "ingest"
<1> SUFFICES Goal
  OBVIOUS
<1>1. batch'[w] = batch[w] => Goal
  BY DEF RetractInv
<1>2. SamePeeked(w) => Goal
  BY DEF RetractInv, SamePeeked
<1>3. Fresh(batch'[w]) => Goal
  BY DEF Fresh
<1>4. CASE UNCHANGED batch
  BY <1>1, <1>4
<1>5. ASSUME NEW v \in Workers, Unlock(v) \/ Crash(v) \/ \E n \in 0 .. MaxRetry : Take(v, n)
      PROVE  Goal
  BY <1>1, <1>3, <1>5, FreshFacts DEF Others
<1>6. ASSUME NEW v \in Workers, Peek(v) PROVE Goal
  BY <1>1, <1>2, <1>6, PeekFacts DEF Others, RetractInv
<1>7. ASSUME NEW v \in Workers, MapRetract(v) PROVE Goal
  <2>1. Others(v) /\ \E r \in batch[v].todo :
          /\ batch'[v].todo = batch[v].todo \ {r}
          /\ batch'[v].peeked = batch[v].peeked /\ batch'[v].failed = batch[v].failed
    BY <1>7, MapRetractFacts
  <2> QED BY <1>1, <2>1 DEF Others, RetractInv
<1>8. ASSUME NEW v \in Workers, MapIngest(v) PROVE Goal
  <2>1. Others(v) /\ \E r \in batch[v].todo :
          /\ batch'[v].todo = batch[v].todo \ {r}
          /\ batch'[v].peeked = batch[v].peeked /\ batch'[v].failed = batch[v].failed
    BY <1>8, MapIngestFacts
  <2> QED BY <1>1, <2>1 DEF Others, RetractInv
<1>9. ASSUME NEW v \in Workers, MapFails(v) PROVE Goal
  BY <1>1, <1>9, MapFailsFacts DEF Others, RetractInv
<1>10. ASSUME NEW v \in Workers,
              \/ DrainSkipped(v) \/ ReduceRead(v) \/ ReduceWrite(v) \/ DrainMapped(v)
              \/ Trim(v) \/ Requeue(v) \/ Follow(v) \/ Misconfigured(v)
       PROVE  Goal
  <2>1. Others(v) /\ SamePeeked(v)
    BY <1>10, DrainSkippedFacts, ReduceReadFacts, ReduceWriteFacts, DrainMappedFacts, AfterwardsFacts
  <2> QED BY <1>1, <1>2, <2>1 DEF Others
<1> HIDE DEF Goal
<1>11. CASE \E d \in Docs : \/ PostFinalize(d) \/ PostStep(d) \/ UserStep(d)
                            \/ ReparseScrub(d) \/ CancelMark(d) \/ DeleteMark(d)
  <2>1. UNCHANGED batch
    BY <1>11 DEF PostFinalize, PostStep, PostRow, PostTrigger, UserStep, ReparseScrub, ReparseClear,
         ReparseReset, CancelMark, CancelScrub, DeleteMark, DeleteList, DeleteStrip, DeleteRetract,
         DeleteTrigger
  <2> QED BY <1>4, <2>1
<1>12. CASE TriggerStep \/ Expire
  <2>1. UNCHANGED batch \/ \E v \in Workers : \E n \in 0 .. MaxRetry : Take(v, n)
    BY <1>12 DEF TriggerStep, Refused, Expire
  <2> QED BY <1>4, <1>5, <2>1
<1>13. CASE \E v \in Workers : BatchStep(v) \/ Misconfigured(v) \/ MapFails(v) \/ Crash(v)
  BY <1>5, <1>6, <1>7, <1>8, <1>9, <1>10, <1>13 DEF BatchStep
<1>14. CASE UNCHANGED vars
  BY <1>4, <1>14 DEF vars, now
<1> QED BY <1>11, <1>12, <1>13, <1>14 DEF Next

LEMMA NextRetracts ==
  ASSUME TypeInv, RequestInv, RetractInv, [Next]_vars
  PROVE  RetractInv'
<1>0. RequestInv' /\ \A d \in Docs : Moves(d)
  BY NextMoves
<1>1. \A d \in Docs : doc[d].status = "gone" => doc'[d].status = "gone"
  BY <1>0 DEF Moves
<1>2. \A r \in KeysOf(rows) : r.doc \in Docs
  BY RowKeys DEF Key
<1>3. \A w \in Workers : \A r \in batch[w].peeked : r.doc \in Docs
  BY TypeFacts DEF BatchSet, Key
<1>4. ASSUME NEW r \in KeysOf(rows'), r.op = "retract" PROVE doc'[r.doc].status = "gone"
  <2>1. CASE r \in KeysOf(rows)
    BY <1>1, <1>2, <1>4, <2>1 DEF RetractInv
  <2>2. CASE \E d \in Docs : DeleteRetract(d) /\ r.doc = d
    <3>1. PICK d \in Docs : DeleteRetract(d) /\ r.doc = d
      BY <2>2
    <3>2. doc[d].status = "gone"
      BY <3>1 DEF DeleteRetract, RequestInv, Deletes
    <3> QED BY <1>1, <3>1, <3>2
  <2> QED BY <1>4, <2>1, <2>2, RowsMove, DeleteRetractAdds, TrimTakes DEF SameRetracts
<1>5. ASSUME NEW w \in Workers, NEW r \in batch'[w].peeked, r.op = "retract"
      PROVE  doc'[r.doc].status = "gone"
  BY <1>1, <1>2, <1>3, <1>5, BatchesMove DEF RetractInv
<1> QED BY <1>4, <1>5, BatchesMove DEF RetractInv

-----------------------------------------------------------------------------
(* Who touches what                                                        *)

\* No page, no references; nobody makes the page while a batch is reducing.
PageInv ==
  /\ ~page.live => page.refs = {}
  /\ \/ "unlocked" \in mishap \/ {"unread", "unretracted"} \subseteq mishap
     \/ \A w \in Workers : batch[w].pc = "reducing" /\ ~batch[w].copy.live
                           => batch[w].copy.refs = {} /\ ~page.live

LEMMA Alone ==
  ASSUME Inv, "unlocked" \notin mishap, NEW v \in Workers, NEW w \in Workers,
         batch[v].pc # "idle", batch[w].pc # "idle"
  PROVE  v = w
  BY DEF Inv, LockInv, Busy

LEMMA MishapsGrow ==
  ASSUME [Next]_vars
  PROVE  mishap \subseteq mishap'
<1>1. CASE UNCHANGED vars
  BY <1>1 DEF vars
<1>2. CASE \E d \in Docs : PostFinalize(d) \/ PostStep(d)
  BY <1>2 DEF PostFinalize, PostStep, PostRow, PostTrigger, Note, calm
<1>3. CASE \E d \in Docs : UserStep(d) \/ ReparseScrub(d) \/ CancelMark(d) \/ DeleteMark(d)
  <2>1. PICK d \in Docs : UserStep(d) \/ ReparseScrub(d) \/ CancelMark(d) \/ DeleteMark(d)
    BY <1>3
  <2>2. CASE \/ ReparseScrub(d) \/ ReparseClear(d) \/ ReparseReset(d) \/ CancelMark(d)
             \/ CancelScrub(d) \/ DeleteMark(d) \/ DeleteList(d)
    BY <2>2 DEF ReparseScrub, ReparseClear, ReparseReset, CancelMark, CancelScrub, DeleteMark,
                DeleteList, Note, calm
  <2>3. CASE DeleteStrip(d) \/ DeleteRetract(d) \/ DeleteTrigger(d)
    BY <2>3 DEF DeleteStrip, DeleteRetract, DeleteTrigger, Note
  <2> QED BY <2>1, <2>2, <2>3 DEF UserStep
<1>4. CASE TriggerStep \/ Expire
  BY <1>4 DEF TriggerStep, Refused, Take, Expire, Note
<1>5. CASE \E w \in Workers : BatchStep(w) \/ Misconfigured(w) \/ MapFails(w) \/ Crash(w)
  <2>1. PICK w \in Workers : BatchStep(w) \/ Misconfigured(w) \/ MapFails(w) \/ Crash(w)
    BY <1>5
  <2>2. CASE \/ MapIngest(w) \/ ReduceRead(w) \/ Trim(w) \/ Misconfigured(w) \/ MapFails(w)
    BY <2>2 DEF MapIngest, ReduceRead, Trim, Misconfigured, MapFails, Note
  <2>3. CASE \/ Peek(w) \/ MapRetract(w) \/ DrainSkipped(w) \/ ReduceWrite(w) \/ DrainMapped(w)
    BY <2>3 DEF Peek, MapRetract, DrainSkipped, ReduceWrite, DrainMapped, Note
  <2>4. CASE \/ Requeue(w) \/ Follow(w) \/ Unlock(w) \/ Crash(w)
    BY <2>4 DEF Requeue, Follow, Unlock, Crash, Note
  <2> QED BY <2>1, <2>2, <2>3, <2>4 DEF BatchStep
<1> QED BY <1>1, <1>2, <1>3, <1>4, <1>5 DEF Next

Works(w) == \/ BatchStep(w) \/ Misconfigured(w) \/ MapFails(w) \/ Crash(w)
            \/ \E n \in 0 .. MaxRetry : Take(w, n)

\* A worker's record changes by its own steps.
LEMMA OwnSteps ==
  ASSUME TypeInv, [Next]_vars, NEW w \in Workers
  PROVE  batch'[w] = batch[w] \/ Works(w)
<1>1. CASE UNCHANGED vars
  BY <1>1 DEF vars, now
<1>2. CASE \E d \in Docs : \/ PostFinalize(d) \/ PostStep(d) \/ UserStep(d)
                           \/ ReparseScrub(d) \/ CancelMark(d) \/ DeleteMark(d)
  BY <1>2 DEF PostFinalize, PostStep, PostRow, PostTrigger, UserStep, ReparseScrub, ReparseClear,
         ReparseReset, CancelMark, CancelScrub, DeleteMark, DeleteList, DeleteStrip, DeleteRetract,
         DeleteTrigger
<1>3. ASSUME NEW v \in Workers, \E n \in 0 .. MaxRetry : Take(v, n)
      PROVE  batch'[w] = batch[w] \/ Works(w)
  BY <1>3, FreshFacts DEF Others, Works
<1>4. CASE TriggerStep \/ Expire
  <2>1. UNCHANGED batch \/ \E v \in Workers : \E n \in 0 .. MaxRetry : Take(v, n)
    BY <1>4 DEF TriggerStep, Refused, Expire
  <2> QED BY <1>3, <2>1
<1>5. CASE \E v \in Workers : BatchStep(v) \/ Misconfigured(v) \/ MapFails(v) \/ Crash(v)
  <2>1. PICK v \in Workers : BatchStep(v) \/ Misconfigured(v) \/ MapFails(v) \/ Crash(v)
    BY <1>5
  <2>2. Others(v)
    BY <2>1, FreshFacts, PeekFacts, MapRetractFacts, MapIngestFacts, MapFailsFacts,
       DrainSkippedFacts, ReduceReadFacts, ReduceWriteFacts, DrainMappedFacts, AfterwardsFacts
    DEF BatchStep
  <2> QED BY <2>1, <2>2 DEF Others, Works
<1> QED BY <1>1, <1>2, <1>4, <1>5 DEF Next

\* Only a reducing batch and a delete change the page.
LEMMA PageSteps ==
  ASSUME [Next]_vars
  PROVE  \/ UNCHANGED page
         \/ \E w \in Workers : ReduceWrite(w)
         \/ \E d \in Docs : DeleteStrip(d)
<1>1. CASE UNCHANGED vars
  BY <1>1 DEF vars, now
<1>2. CASE \E d \in Docs : \/ PostFinalize(d) \/ PostStep(d) \/ UserStep(d)
                           \/ ReparseScrub(d) \/ CancelMark(d) \/ DeleteMark(d)
  BY <1>2 DEF PostFinalize, PostStep, PostRow, PostTrigger, UserStep, ReparseScrub, ReparseClear,
         ReparseReset, CancelMark, CancelScrub, DeleteMark, DeleteList, DeleteRetract,
         DeleteTrigger
<1>3. CASE TriggerStep \/ Expire
  BY <1>3, TriggersMove
<1>4. CASE \E w \in Workers : BatchStep(w) \/ Misconfigured(w) \/ MapFails(w) \/ Crash(w)
  <2>1. PICK w \in Workers : BatchStep(w) \/ Misconfigured(w) \/ MapFails(w) \/ Crash(w)
    BY <1>4
  <2>2. CASE \/ Peek(w) \/ MapRetract(w) \/ MapIngest(w) \/ MapFails(w) \/ DrainSkipped(w)
             \/ ReduceRead(w) \/ DrainMapped(w)
    BY <2>2 DEF Peek, MapRetract, MapIngest, MapFails, DrainSkipped, ReduceRead, DrainMapped, calm
  <2>3. CASE \/ Trim(w) \/ Requeue(w) \/ Follow(w) \/ Unlock(w) \/ Misconfigured(w) \/ Crash(w)
    BY <2>3 DEF Trim, Requeue, Follow, Unlock, Misconfigured, Crash
  <2> QED BY <2>1, <2>2, <2>3 DEF BatchStep
<1> QED BY <1>1, <1>2, <1>3, <1>4 DEF Next

\* A batch comes to reduce by reading the page.
LEMMA Reducing ==
  ASSUME TypeInv, [Next]_vars, NEW w \in Workers, batch'[w].pc = "reducing"
  PROVE  batch'[w] = batch[w] \/ ReduceRead(w)
<1>1. CASE Works(w)
  <2>1. ~(Unlock(w) \/ Crash(w) \/ \E n \in 0 .. MaxRetry : Take(w, n))
    BY FreshFacts DEF Fresh
  <2>2. ~(Peek(w) \/ MapRetract(w) \/ MapIngest(w) \/ MapFails(w) \/ DrainSkipped(w))
    BY PeekFacts, MapRetractFacts, MapIngestFacts, MapFailsFacts, DrainSkippedFacts
  <2>3. ~(ReduceWrite(w) \/ DrainMapped(w) \/ Trim(w) \/ Requeue(w) \/ Follow(w) \/ Misconfigured(w))
    BY ReduceWriteFacts, DrainMappedFacts, AfterwardsFacts
  <2> QED BY <1>1, <2>1, <2>2, <2>3 DEF Works, BatchStep
<1> QED BY <1>1, OwnSteps

LEMMA NextPage ==
  ASSUME TypeInv, Inv, PageInv, [Next]_vars
  PROVE  PageInv'
<1>0. mishap \subseteq mishap'
  BY MishapsGrow
<1>1. CASE UNCHANGED page
  <2>1. ~page'.live => page'.refs = {}
    BY <1>1 DEF PageInv
  <2>2. ASSUME "unlocked" \notin mishap', ~({"unread", "unretracted"} \subseteq mishap'),
               NEW w \in Workers, batch'[w].pc = "reducing", ~batch'[w].copy.live
        PROVE  batch'[w].copy.refs = {} /\ ~page'.live
    <3>1. CASE batch'[w] = batch[w]
      BY <1>0, <1>1, <2>2, <3>1 DEF PageInv
    <3>2. CASE ReduceRead(w)
      <4>1. batch'[w].copy = page
        BY <2>2, <3>2, ReduceReadFacts
      <4> QED BY <1>1, <2>2, <4>1 DEF PageInv
    <3> QED BY <2>2, <3>1, <3>2, Reducing
  <2> QED BY <2>1, <2>2 DEF PageInv
<1>2. CASE \E w \in Workers : ReduceWrite(w)
  <2>1. PICK w \in Workers : ReduceWrite(w)
    BY <1>2
  <2>2. /\ Others(w) /\ batch[w].pc = "reducing" /\ batch'[w].pc = "publishing"
        /\ page'.live = TRUE \/ page' = page
    BY <2>1, ReduceWriteFacts
  <2>3. ASSUME "unlocked" \notin mishap', NEW v \in Workers PROVE batch'[v].pc # "reducing"
    <3>1. CASE v = w
      BY <2>2, <3>1
    <3>2. CASE v # w
      BY <1>0, <2>2, <2>3, <3>2, Alone DEF Others
    <3> QED BY <3>1, <3>2
  <2> QED BY <2>2, <2>3 DEF PageInv
<1>3. CASE \E d \in Docs : DeleteStrip(d)
  <2>1. UNCHANGED batch
    BY <1>3 DEF DeleteStrip
  <2>2. /\ ~page'.live => page'.refs = {}
        /\ ~page.live => page' = page
    <3>1. page \in Page
      BY TypeFacts
    <3>2. page' = page \/ page' = NoPage \/ page' = [page EXCEPT !.refs = page'.refs]
      BY <1>3, <3>1 DEF DeleteStrip, Page
    <3>3. ~page.live => page' = page
      BY <1>3 DEF DeleteStrip
    <3> QED BY <3>1, <3>2, <3>3 DEF PageInv, NoPage, Page
  <2> QED BY <1>0, <2>1, <2>2 DEF PageInv
<1> QED BY <1>1, <1>2, <1>3, PageSteps

-----------------------------------------------------------------------------
(* No ghosts                                                               *)

\* The delete will still look at the page, or its retract is in the table.
Due(d) ==
  \/ user[d].pc \in {"list", "strip", "retract"}
  \/ \E r \in KeysOf(rows) : r.op = "retract" /\ r.doc = d

\* What the page will list when the batch saves it.
Saves(b) == (b.copy.refs \ b.strips) \cup b.adds

\* A batch that trims a retract has seen to it.
Seen(w, r) ==
  /\ batch[w].pc = "mapping" =>
       r \in batch[w].todo \/ r.doc \notin page.refs \/ r.doc \in batch[w].strips
  /\ batch[w].pc = "reducing" => r.doc \notin Saves(batch[w])
  /\ batch[w].pc \in {"publishing", "trimming"} => r.doc \notin page.refs

Haunted == Excused({"unstored", "unlocked", "unretracted", "unscrubbed"})

\* A deleted document on the page, or on the page that a batch is about to save,
\* has a look or a retract coming.
GhostInv ==
  \/ Haunted
  \/ /\ \A d \in Docs : doc[d].status = "gone" /\ d \in page.refs => Due(d)
     /\ \A w \in Workers : batch[w].pc = "reducing" =>
          \A d \in Docs : d \in Saves(batch[w]) /\ doc[d].status = "gone" => Due(d)
     /\ \A w \in Workers : \A r \in batch[w].peeked : r.op = "retract" => Seen(w, r)

AllInv == TypeInv /\ Inv /\ RequestInv /\ RetractInv /\ PageInv

\* Whoever deletes a document will look, unless it leaves the wiki alone.
LEMMA GoneIsDue ==
  ASSUME TypeInv, RequestInv, [Next]_vars, "unscrubbed" \notin mishap', NEW d \in Docs,
         doc[d].status # "gone", doc'[d].status = "gone"
  PROVE  Due(d)'
<1>1. ~Stays(d)
  BY DEF Stays
<1>2. CASE \E e \in Docs : UserStep(e) \/ ReparseScrub(e) \/ CancelMark(e) \/ DeleteMark(e)
  <2>1. PICK e \in Docs : UserStep(e) \/ ReparseScrub(e) \/ CancelMark(e) \/ DeleteMark(e)
    BY <1>2
  <2>0. doc \in [Docs -> DocSet] /\ user \in [Docs -> UserSet]
    BY TypeFacts
  <2>2. CASE DeleteMark(e)
    <3>1. d = e
      BY <2>0, <2>2 DEF DeleteMark
    <3>2. user' = [user EXCEPT ![d].pc = "list"]
      BY <2>2, <3>1 DEF DeleteMark, Note
    <3>3. user'[d].pc = "list"
      BY <2>0, <3>2 DEF UserSet
    <3> QED BY <3>3 DEF Due
  <2>3. CASE ReparseReset(e) \/ CancelMark(e) \/ ReparseClear(e)
    <3>1. doc'[d] = doc[d] \/ d = e
      BY <2>0, <2>3 DEF ReparseReset, CancelMark, ReparseClear
    <3>2. doc'[e].status # "gone" \/ doc'[e].status = doc[e].status
      BY <2>0, <2>3 DEF ReparseReset, CancelMark, ReparseClear, DocSet
    <3> QED BY <3>1, <3>2
  <2>4. CASE \/ ReparseScrub(e) \/ CancelScrub(e) \/ DeleteList(e) \/ DeleteStrip(e)
             \/ DeleteRetract(e) \/ DeleteTrigger(e)
    BY <2>4 DEF ReparseScrub, CancelScrub, DeleteList, DeleteStrip, DeleteRetract, DeleteTrigger
  <2> QED BY <2>1, <2>2, <2>3, <2>4 DEF UserStep
<1>3. CASE UNCHANGED vars
  BY <1>3 DEF vars, now
<1>4. CASE \E e \in Docs : PostFinalize(e) \/ PostStep(e)
  BY <1>1, <1>4, PostMoves
<1>5. CASE TriggerStep \/ Expire
  BY <1>1, <1>5, TriggersMove
<1>6. CASE \E w \in Workers : BatchStep(w) \/ Misconfigured(w) \/ MapFails(w) \/ Crash(w)
  BY <1>1, <1>6, WorkersMove
<1> QED BY <1>2, <1>3, <1>4, <1>5, <1>6 DEF Next

\* A request goes on by its own steps.
LEMMA OwnRequests ==
  ASSUME TypeInv, [Next]_vars, NEW d \in Docs, user[d].pc \in {"list", "strip", "retract"}
  PROVE  user'[d] = user[d] \/ user'[d].pc \in {"strip", "retract"} \/ DeleteRetract(d)
<1>0. user \in [Docs -> UserSet]
  BY TypeFacts
<1>2. CASE \E e \in Docs : UserStep(e) \/ ReparseScrub(e) \/ CancelMark(e) \/ DeleteMark(e)
  <2>1. PICK e \in Docs : UserStep(e) \/ ReparseScrub(e) \/ CancelMark(e) \/ DeleteMark(e)
    BY <1>2
  <2>2. CASE e = d
    <3>1. CASE DeleteList(d)
      <4>1. \/ user' = [user EXCEPT ![d] = [user[d] EXCEPT !.pc = "strip", !.copy = page.refs]]
            \/ user' = [user EXCEPT ![d] = [user[d] EXCEPT !.pc = "retract"]]
        BY <1>0, <3>1 DEF DeleteList
      <4> QED BY <1>0, <4>1 DEF UserSet
    <3>2. CASE DeleteStrip(d)
      BY <1>0, <3>2 DEF DeleteStrip, UserSet
    <3>3. CASE DeleteRetract(d)
      BY <3>3
    <3>4. ~(ReparseScrub(d) \/ ReparseClear(d) \/ ReparseReset(d) \/ CancelMark(d)
            \/ CancelScrub(d) \/ DeleteMark(d) \/ DeleteTrigger(d))
      BY DEF ReparseScrub, ReparseClear, ReparseReset, CancelMark, CancelScrub, DeleteMark,
             DeleteTrigger
    <3> QED BY <2>1, <2>2, <3>1, <3>2, <3>3, <3>4 DEF UserStep
  <2>3. CASE e # d
    <3>1. PICK u : user' = [user EXCEPT ![e] = u]
      BY <1>0, <2>1 DEF UserStep, ReparseScrub, ReparseClear, ReparseReset, CancelMark, CancelScrub,
              DeleteMark, DeleteList, DeleteStrip, DeleteRetract, DeleteTrigger
    <3> QED BY <1>0, <2>3, <3>1
  <2> QED BY <2>2, <2>3
<1>3. CASE UNCHANGED user
  BY <1>3
<1>4. CASE UNCHANGED vars
  BY <1>4 DEF vars, now
<1>5. CASE \E e \in Docs : PostFinalize(e) \/ PostStep(e)
  BY <1>5 DEF PostFinalize, PostStep, PostRow, PostTrigger
<1>6. CASE TriggerStep \/ Expire
  BY <1>3, <1>6, TriggersMove
<1>7. CASE \E w \in Workers : BatchStep(w) \/ Misconfigured(w) \/ MapFails(w) \/ Crash(w)
  BY <1>3, <1>7, WorkersMove
<1> QED BY <1>2, <1>4, <1>5, <1>6, <1>7 DEF Next

\* What is due is done by trimming the retract.
LEMMA DueKept ==
  ASSUME TypeInv, RetractInv, [Next]_vars, "unstored" \notin mishap', NEW d \in Docs, Due(d)
  PROVE  \/ Due(d)'
         \/ \E w \in Workers : Trim(w) /\ \E r \in batch[w].peeked : r.op = "retract" /\ r.doc = d
<1>1. CASE user[d].pc \in {"list", "strip", "retract"}
  <2>1. CASE DeleteRetract(d)
    BY <2>1, DeleteRetractAdds DEF Due
  <2> QED BY <1>1, <2>1, OwnRequests DEF Due
<1>2. ASSUME NEW r \in KeysOf(rows), r.op = "retract", r.doc = d
      PROVE  r \in KeysOf(rows') \/ \E w \in Workers : Trim(w) /\ r \in batch[w].peeked
  <2>1. CASE SameRetracts
    BY <1>2, <2>1 DEF SameRetracts
  <2>2. CASE \E e \in Docs : DeleteRetract(e)
    BY <2>2, DeleteRetractAdds
  <2>3. CASE \E w \in Workers : Trim(w)
    BY <2>3, TrimTakes
  <2> QED BY <2>1, <2>2, <2>3, RowsMove
<1> QED BY <1>1, <1>2 DEF Due

\* A deleted document gets back onto the page only where a batch saves it.
LEMMA Reappears ==
  ASSUME TypeInv, [Next]_vars, "unretracted" \notin mishap', NEW d \in Docs,
         doc[d].status = "gone", d \notin page.refs, d \in page'.refs
  PROVE  \E w \in Workers : ReduceWrite(w) /\ d \in Saves(batch[w])
<1>1. CASE \E w \in Workers : ReduceWrite(w)
  BY <1>1, ReduceWriteFacts DEF Saves
<1>2. CASE \E e \in Docs : DeleteStrip(e)
  <2>1. PICK e \in Docs : DeleteStrip(e)
    BY <1>2
  <2> DEFINE remaining == user[e].copy \ {e}
             ghosts == {g \in remaining \ page.refs : doc[g].status = "gone"}
  <2>2. /\ page.live
        /\ page' = IF remaining = {} THEN NoPage ELSE [page EXCEPT !.refs = remaining]
        /\ ghosts # {} => "unretracted" \in mishap'
    <3>1. page' # page
      OBVIOUS
    <3> QED BY <2>1, <3>1 DEF DeleteStrip, Note
  <2>3. d \in remaining
    <3>1. page \in Page
      BY TypeFacts
    <3> HIDE DEF remaining
    <3> QED BY <2>2, <3>1 DEF NoPage, Page
  <2>4. d \in ghosts
    BY <2>3
  <2> QED BY <2>2, <2>4
<1> QED BY <1>1, <1>2, PageSteps

LEMMA GhostOnPage ==
  ASSUME AllInv, GhostInv, [Next]_vars, ~Haunted', NEW d \in Docs,
         doc'[d].status = "gone", d \in page'.refs
  PROVE  Due(d)'
<1> USE DEF AllInv
<1>0. /\ ~Haunted /\ "unstored" \notin mishap' /\ "unretracted" \notin mishap'
      /\ "unlocked" \notin mishap /\ "unlocked" \notin mishap'
      /\ "unscrubbed" \notin mishap'
  BY MishapsGrow DEF Haunted, Excused
<1>1. CASE doc[d].status # "gone"
  BY <1>0, <1>1, GoneIsDue
<1>2. CASE doc[d].status = "gone" /\ d \in page.refs
  <2>1. Due(d)
    BY <1>0, <1>2 DEF GhostInv
  <2>2. ASSUME NEW w \in Workers, Trim(w), NEW r \in batch[w].peeked, r.op = "retract", r.doc = d
        PROVE  FALSE
    <3>1. batch[w].pc = "trimming"
      BY <2>2 DEF Trim
    <3> QED BY <1>0, <1>2, <2>2, <3>1 DEF GhostInv, Seen
  <2> QED BY <1>0, <2>1, <2>2, DueKept
<1>3. CASE doc[d].status = "gone" /\ d \notin page.refs
  <2>1. PICK w \in Workers : ReduceWrite(w) /\ d \in Saves(batch[w])
    BY <1>0, <1>3, Reappears
  <2>2. Due(d)
    BY <1>0, <1>3, <2>1 DEF GhostInv, ReduceWrite
  <2>3. ASSUME NEW v \in Workers, Trim(v) PROVE FALSE
    BY <1>3, <2>3 DEF Trim
  <2> QED BY <1>0, <2>2, <2>3, DueKept
<1> QED BY <1>1, <1>2, <1>3

LEMMA GhostSaved ==
  ASSUME AllInv, GhostInv, [Next]_vars, ~Haunted', NEW w \in Workers, NEW d \in Docs,
         batch'[w].pc = "reducing", d \in Saves(batch'[w]), doc'[d].status = "gone"
  PROVE  Due(d)'
<1> USE DEF AllInv
<1>0. /\ ~Haunted /\ "unstored" \notin mishap' /\ "unretracted" \notin mishap'
      /\ "unlocked" \notin mishap /\ "unlocked" \notin mishap'
      /\ "unscrubbed" \notin mishap'
  BY MishapsGrow DEF Haunted, Excused
<1>1. CASE doc[d].status # "gone"
  BY <1>0, <1>1, GoneIsDue
<1>2. CASE doc[d].status = "gone"
  <2>1. Due(d) /\ batch[w].pc \in {"mapping", "reducing"}
    <3>1. CASE batch'[w] = batch[w]
      BY <1>0, <1>2, <3>1 DEF GhostInv
    <3>2. CASE ReduceRead(w)
      <4>1. /\ batch[w].pc = "mapping" /\ batch'[w].copy = page
            /\ batch'[w].adds \subseteq {e \in batch[w].adds : ~Gone(e)}
        BY <1>0, <3>2, ReduceReadFacts
      <4>2. d \in page.refs
        BY <1>2, <4>1 DEF Saves, Gone
      <4> QED BY <1>0, <1>2, <4>1, <4>2 DEF GhostInv
    <3> QED BY <3>1, <3>2, Reducing
  <2>2. ASSUME NEW v \in Workers, Trim(v) PROVE FALSE
    <3>1. batch[v].pc = "trimming"
      BY <2>2 DEF Trim
    <3> QED BY <1>0, <2>1, <3>1, Alone
  <2> QED BY <1>0, <2>1, <2>2, DueKept
<1> QED BY <1>1, <1>2

LEMMA GhostSeen ==
  ASSUME AllInv, GhostInv, [Next]_vars, ~Haunted', NEW w \in Workers,
         NEW r \in batch'[w].peeked, r.op = "retract"
  PROVE  Seen(w, r)'
<1> USE DEF AllInv
<1>0. /\ ~Haunted /\ "unretracted" \notin mishap /\ "unretracted" \notin mishap'
      /\ "unlocked" \notin mishap /\ "unlocked" \notin mishap'
  BY MishapsGrow DEF Haunted, Excused
<1>1. CASE batch'[w] = batch[w]
  <2>1. Seen(w, r)
    BY <1>0, <1>1 DEF GhostInv
  <2>2. doc[r.doc].status = "gone" /\ r.doc \in Docs
    BY <1>1, TypeFacts DEF RetractInv, BatchSet, Key
  <2>3. ASSUME batch[w].pc \in {"mapping", "publishing", "trimming"}, r.doc \notin page.refs
        PROVE  r.doc \notin page'.refs
    <3>1. ASSUME NEW v \in Workers, ReduceWrite(v) PROVE FALSE
      <4>1. batch[v].pc = "reducing"
        BY <3>1 DEF ReduceWrite
      <4> QED BY <1>0, <2>3, <4>1, Alone
    <3> QED BY <1>0, <2>2, <2>3, <3>1, Reappears
  <2> QED BY <1>1, <2>1, <2>3 DEF Seen
<1>2. CASE Unlock(w) \/ Crash(w) \/ \E n \in 0 .. MaxRetry : Take(w, n)
  BY <1>2, FreshFacts DEF Fresh
<1>3. CASE Peek(w)
  <2>1. batch'[w].pc = "unlocking" \/ (batch'[w].pc = "mapping" /\ r \in batch'[w].todo)
    BY <1>0, <1>3, PeekFacts
  <2> QED BY <2>1 DEF Seen
<1>4. CASE MapRetract(w)
  <2>1. PICK x \in batch[w].todo :
           /\ batch[w].pc = "mapping" /\ batch'[w].pc = "mapping"
           /\ batch'[w].todo = batch[w].todo \ {x} /\ batch'[w].peeked = batch[w].peeked
           /\ batch'[w].strips = IF Listed(x) THEN batch[w].strips \cup {x.doc}
                                 ELSE batch[w].strips
    BY <1>0, <1>4, MapRetractFacts
  <2>2. UNCHANGED page
    BY <1>4 DEF MapRetract
  <2>3. Seen(w, r)
    BY <1>0, <2>1 DEF GhostInv
  <2>4. r = x => Listed(r) \/ r.doc \notin page.refs
    BY DEF Listed, PageInv
  <2> QED BY <2>1, <2>2, <2>3, <2>4 DEF Seen
<1>5. CASE MapIngest(w) \/ MapFails(w)
  <2>1. PICK x \in batch[w].todo :
           /\ x.op = "ingest" /\ batch[w].pc = "mapping" /\ batch'[w].pc = "mapping"
           /\ batch'[w].todo = batch[w].todo \ {x} /\ batch'[w].peeked = batch[w].peeked
           /\ batch[w].strips \subseteq batch'[w].strips
    BY <1>5, MapIngestFacts, MapFailsFacts DEF SameMapped
  <2>2. UNCHANGED page
    BY <1>5 DEF MapIngest, MapFails
  <2>3. Seen(w, r)
    BY <1>0, <2>1 DEF GhostInv
  <2> QED BY <2>1, <2>2, <2>3 DEF Seen
<1>6. CASE DrainSkipped(w)
  <2>1. /\ UNCHANGED page /\ SamePeeked(w) /\ batch[w].pc = "mapping" /\ batch'[w].pc = "mapping"
        /\ batch'[w].strips = batch[w].strips
    BY <1>6, DrainSkippedFacts
  <2>2. Seen(w, r)
    BY <1>0, <2>1 DEF GhostInv, SamePeeked
  <2> QED BY <2>1, <2>2 DEF Seen, SamePeeked
<1>7. CASE ReduceRead(w)
  <2>1. /\ UNCHANGED page /\ SamePeeked(w) /\ batch[w].pc = "mapping" /\ batch[w].todo = {}
        /\ batch'[w].strips = batch[w].strips
        /\ \/ batch'[w].pc = "publishing" /\ (page.live => batch[w].strips = {})
           \/ /\ batch'[w].pc = "reducing" /\ batch'[w].copy = page
              /\ batch'[w].adds \subseteq {d \in batch[w].adds : ~Gone(d)}
    BY <1>0, <1>7, ReduceReadFacts
  <2>2. Seen(w, r) /\ doc[r.doc].status = "gone"
    BY <1>0, <2>1 DEF GhostInv, SamePeeked, RetractInv
  <2>3. r.doc \notin page.refs \/ r.doc \in batch[w].strips
    BY <2>1, <2>2 DEF Seen
  <2>4. CASE batch'[w].pc = "publishing"
    <3>1. r.doc \notin page.refs
      BY <2>1, <2>3, <2>4 DEF PageInv
    <3> QED BY <2>1, <2>4, <3>1 DEF Seen
  <2>5. CASE batch'[w].pc = "reducing"
    <3>1. r.doc \notin Saves(batch'[w])
      BY <2>1, <2>2, <2>3, <2>5 DEF Saves, Gone
    <3> QED BY <2>5, <3>1 DEF Seen
  <2> QED BY <2>1, <2>4, <2>5
<1>8. CASE ReduceWrite(w)
  <2>1. /\ SamePeeked(w) /\ batch[w].pc = "reducing" /\ batch'[w].pc = "publishing"
        /\ \/ page'.refs = Saves(batch[w])
           \/ batch[w].copy.live # page.live /\ UNCHANGED page
    BY <1>0, <1>8, ReduceWriteFacts DEF Saves
  <2>2. Seen(w, r)
    BY <1>0, <2>1 DEF GhostInv, SamePeeked
  <2>3. batch[w].copy.live # page.live => page.refs = {}
    <3>1. batch[w].copy.live \in BOOLEAN /\ page.live \in BOOLEAN
      BY TypeFacts DEF BatchSet, Page
    <3> QED BY <1>0, <2>1, <3>1 DEF PageInv
  <2> QED BY <2>1, <2>2, <2>3 DEF Seen
<1>9. CASE DrainMapped(w)
  <2>1. /\ SamePeeked(w) /\ UNCHANGED page
        /\ batch[w].pc = "publishing" /\ batch'[w].pc = "trimming"
    BY <1>9, DrainMappedFacts
  <2>2. Seen(w, r)
    BY <1>0, <2>1 DEF GhostInv, SamePeeked
  <2> QED BY <2>1, <2>2 DEF Seen
<1>10. CASE Trim(w) \/ Requeue(w) \/ Follow(w) \/ Misconfigured(w)
  BY <1>10, AfterwardsFacts DEF Seen
<1>11. CASE Works(w)
  BY <1>2, <1>3, <1>4, <1>5, <1>6, <1>7, <1>8, <1>9, <1>10, <1>11 DEF Works, BatchStep
<1> QED BY <1>1, <1>11, OwnSteps

LEMMA NextGhosts ==
  ASSUME AllInv, GhostInv, [Next]_vars
  PROVE  GhostInv'
<1>1. CASE Haunted'
  BY <1>1 DEF GhostInv
<1>2. CASE ~Haunted'
  <2>1. \A w \in Workers : \A r \in batch'[w].peeked : r.op = "retract" => Seen(w, r)'
    BY <1>2, GhostSeen
  <2> QED BY <1>2, <2>1, GhostOnPage, GhostSaved DEF GhostInv
<1> QED BY <1>1, <1>2

LEMMA InitGhosts == Init => RequestInv /\ RetractInv /\ PageInv /\ GhostInv
<1> SUFFICES ASSUME Init PROVE RequestInv /\ RetractInv /\ PageInv /\ GhostInv
  OBVIOUS
<1>1. /\ \A d \in Docs : user[d].pc = "idle"
      /\ \A w \in Workers : batch[w] = NoBatch
      /\ page = NoPage /\ 1 .. Len(rows) = {}
  BY DEF Init, NoRequest
<1>2. KeysOf(rows) = {} /\ page.refs = {}
  BY <1>1 DEF KeysOf, NoPage
<1>3. \A w \in Workers : /\ batch[w].pc = "idle" /\ batch[w].peeked = {} /\ batch[w].todo = {}
                         /\ batch[w].failed = {}
  BY <1>1 DEF NoBatch
<1>4. RequestInv
  BY <1>1 DEF RequestInv, Deletes, Clears
<1>5. RetractInv /\ PageInv
  BY <1>2, <1>3 DEF RetractInv, PageInv
<1> QED BY <1>2, <1>3, <1>4, <1>5 DEF GhostInv

LEMMA NextAll ==
  ASSUME AllInv, [Next]_vars
  PROVE  AllInv'
  BY NextType, NextInv, NextMoves, NextRetracts, NextPage DEF AllInv

\* When a delete is over and its rows are worked off, no page names the document,
\* whatever the batches, other deletes, crashes and failures did meanwhile, unless
\* a named mishap happened: for any number of documents and workers
\* (cleanupWikiOnKnowledgeDelete, its retract row, and the reduce's live filter).
THEOREM NoGhostCorrect == Spec => []NoGhost
<1>1. Init => AllInv /\ GhostInv
  BY InitType, InitInv, InitGhosts DEF AllInv
<1>2. AllInv /\ GhostInv /\ [Next]_vars => (AllInv /\ GhostInv)'
  BY NextAll, NextGhosts
<1>3. AllInv /\ GhostInv => NoGhost
  <2> SUFFICES ASSUME GhostInv, ~Haunted, NEW d \in Docs,
                      doc[d].status = "gone", user[d].pc = "idle",
                      \A k \in 1 .. Len(rows) : rows[k].key.doc # d
               PROVE  d \notin page.refs
    BY DEF NoGhost, Haunted
  <2>1. ~Due(d)
    BY DEF Due, KeysOf
  <2> QED BY <2>1 DEF GhostInv
<1> QED BY <1>1, <1>2, <1>3, PTL DEF Spec

-----------------------------------------------------------------------------
(* What a batch has read                                                   *)

\* A batch begins with nothing and maps a document once.
OnceInv ==
  \A w \in Workers :
    /\ batch[w].pc = "locked" => /\ batch[w].adds = {} /\ batch[w].strips = {}
                                 /\ batch[w].skipped = {} /\ batch[w].mapped = {}
    /\ \A r, s \in batch[w].todo : r.doc = s.doc => r = s
    /\ \A r \in batch[w].todo : /\ r.doc \notin batch[w].adds \cup batch[w].strips
                                /\ \A m \in batch[w].mapped : m.doc # r.doc

\* What was read of a document is not of a later attempt than the row, and if of the
\* same one then of a row whose parse was over; a skipped one was silent or gone.
Told(m) == /\ m.attempt <= doc[m.doc].attempt
           /\ m.attempt = doc[m.doc].attempt => doc[m.doc].status # "processing"
Mute(m) == m.attempt = doc[m.doc].attempt => doc[m.doc].text = "none" \/ Gone(m.doc)
ToldInv ==
  \/ "unread" \in mishap
  \/ \A w \in Workers : /\ \A m \in batch[w].mapped \cup batch[w].skipped : Told(m)
                        /\ \A m \in batch[w].skipped : Mute(m)

LEMMA NextOnce ==
  ASSUME TypeInv, OnceInv, [Next]_vars
  PROVE  OnceInv'
<1> DEFINE Goal(w) ==
      /\ batch'[w].pc = "locked" => /\ batch'[w].adds = {} /\ batch'[w].strips = {}
                                    /\ batch'[w].skipped = {} /\ batch'[w].mapped = {}
      /\ \A r, s \in batch'[w].todo : r.doc = s.doc => r = s
      /\ \A r \in batch'[w].todo : /\ r.doc \notin batch'[w].adds \cup batch'[w].strips
                                   /\ \A m \in batch'[w].mapped : m.doc # r.doc
<1> SUFFICES ASSUME NEW w \in Workers PROVE Goal(w)
  BY DEF OnceInv
<1>1. CASE batch'[w] = batch[w]
  BY <1>1 DEF OnceInv
<1>2. CASE Unlock(w) \/ Crash(w) \/ \E n \in 0 .. MaxRetry : Take(w, n)
  BY <1>2, FreshFacts DEF Fresh
<1>3. CASE Peek(w)
  <2>1. batch[w].pc = "locked" /\ batch'[w].pc # "locked" /\ SameMapped(w)
    BY <1>3, PeekFacts DEF Peek
  <2>2. \A r, s \in batch'[w].todo : r.doc = s.doc => r = s
    BY <1>3, PeekFacts DEF OnceInv, SamePeeked
  <2> QED BY <2>1, <2>2 DEF OnceInv, SameMapped
<1>4. CASE MapRetract(w)
  <2>1. PICK x \in batch[w].todo :
           /\ batch'[w].pc = "mapping" /\ batch'[w].todo = batch[w].todo \ {x}
           /\ batch'[w].adds = batch[w].adds /\ batch'[w].mapped = batch[w].mapped
           /\ batch'[w].strips \in {batch[w].strips, batch[w].strips \cup {x.doc}}
    BY <1>4, MapRetractFacts
  <2> QED BY <2>1 DEF OnceInv
<1>5. CASE MapIngest(w)
  <2>1. PICK x, done :
           /\ x \in batch[w].todo
           /\ done.doc = x.doc
           /\ batch'[w].pc = "mapping" /\ batch'[w].todo = batch[w].todo \ {x}
           /\ batch'[w].adds \subseteq batch[w].adds \cup {x.doc}
           /\ batch'[w].strips \subseteq batch[w].strips \cup {x.doc}
           /\ batch'[w].mapped \subseteq batch[w].mapped \cup {done}
    <3>1. PICK x, read :
           /\ x \in batch[w].todo
           /\ read \in Reads(x.doc) \cup {NoText(x.doc)}
           /\ batch'[w].pc = "mapping" /\ batch'[w].todo = batch[w].todo \ {x}
           /\ batch'[w].adds \subseteq batch[w].adds \cup {x.doc}
           /\ batch'[w].strips \subseteq batch[w].strips \cup {x.doc}
           /\ batch'[w].mapped \subseteq batch[w].mapped \cup {read.done}
      BY <1>5, MapIngestFacts
    <3>2. read.done.doc = x.doc
      BY <3>1 DEF Reads, NoText
    <3> QED BY <3>1, <3>2
  <2> QED BY <2>1 DEF OnceInv
<1>6. CASE MapFails(w)
  <2>1. batch'[w].pc = "mapping" /\ batch'[w].todo \subseteq batch[w].todo /\ SameMapped(w)
    BY <1>6, MapFailsFacts
  <2> QED BY <2>1 DEF OnceInv, SameMapped
<1>7. CASE DrainSkipped(w)
  <2>1. /\ batch'[w].pc = "mapping" /\ SamePeeked(w) /\ batch'[w].adds = batch[w].adds
        /\ batch'[w].strips = batch[w].strips /\ batch'[w].mapped = batch[w].mapped
    BY <1>7, DrainSkippedFacts
  <2> QED BY <2>1 DEF OnceInv, SamePeeked
<1>8. CASE ReduceRead(w)
  <2>1. batch'[w].pc # "locked" /\ batch'[w].todo = {}
    BY <1>8, ReduceReadFacts DEF SamePeeked
  <2> QED BY <2>1
<1>9. CASE ReduceWrite(w) \/ DrainMapped(w) \/ Trim(w) \/ Requeue(w) \/ Follow(w) \/ Misconfigured(w)
  <2>1. batch'[w].pc # "locked" /\ SamePeeked(w) /\ SameMapped(w)
    BY <1>9, ReduceWriteFacts, DrainMappedFacts, AfterwardsFacts
  <2> QED BY <2>1 DEF OnceInv, SamePeeked, SameMapped
<1>10. CASE Works(w)
  BY <1>2, <1>3, <1>4, <1>5, <1>6, <1>7, <1>8, <1>9, <1>10 DEF Works, BatchStep
<1> QED BY <1>1, <1>10, OwnSteps

\* What was told stays told while the documents move.
LEMMA ToldKept ==
  ASSUME TypeInv, TypeInv', NEW m \in Mapped, Moves(m.doc)
  PROVE  (Told(m) => Told(m)') /\ (Told(m) /\ Mute(m) => Mute(m)')
<1> DEFINE d == m.doc
           old == doc[d].attempt
           new == doc'[d].attempt
<1>1. m.attempt \in Nat /\ old \in Nat /\ new \in Nat
  <2>1. d \in Docs /\ m.attempt \in Attempts \cup {0}
    BY DEF Mapped
  <2>2. doc \in [Docs -> DocSet] /\ doc' \in [Docs -> DocSet]
    BY TypeFacts DEF TypeInv, WikiTypeOK, DocSet
  <2>3. doc[d] \in DocSet /\ doc'[d] \in DocSet
    BY <2>1, <2>2
  <2>4. doc[d].attempt \in Attempts /\ doc'[d].attempt \in Attempts
    BY <2>3 DEF DocSet
  <2> QED BY <2>1, <2>4 DEF Attempts
<1>2. CASE new = old
  <2>1. Told(m) => Told(m)'
    BY <1>1, <1>2 DEF Moves, Told
  <2>2. Mute(m) /\ Told(m) => Mute(m)'
    BY <1>1, <1>2 DEF Moves, Told, Mute, Gone
  <2> QED BY <2>1, <2>2
<1>3. CASE new > old
  <2>1. Told(m) => m.attempt <= new /\ m.attempt # new
    BY <1>1, <1>3 DEF Told
  <2> QED BY <2>1 DEF Told, Mute
<1> QED BY <1>2, <1>3 DEF Moves

\* What a batch has read it reads of one document at a time.
LEMMA MappedGrows ==
  ASSUME TypeInv, [Next]_vars, NEW w \in Workers
  PROVE  \/ batch'[w].mapped \subseteq batch[w].mapped /\ batch'[w].skipped \subseteq batch[w].skipped
         \/ MapIngest(w)
<1>1. CASE batch'[w] = batch[w]
  BY <1>1
<1>2. CASE Unlock(w) \/ Crash(w) \/ \E n \in 0 .. MaxRetry : Take(w, n)
  BY <1>2, FreshFacts DEF Fresh
<1>3. CASE Peek(w)
  BY <1>3, PeekFacts DEF SameMapped
<1>4. CASE MapRetract(w)
  BY <1>4, MapRetractFacts
<1>5. CASE MapFails(w)
  BY <1>5, MapFailsFacts DEF SameMapped
<1>6. CASE DrainSkipped(w)
  BY <1>6, DrainSkippedFacts
<1>7. CASE ReduceRead(w)
  BY <1>7, ReduceReadFacts
<1>8. CASE ReduceWrite(w) \/ DrainMapped(w) \/ Trim(w) \/ Requeue(w) \/ Follow(w) \/ Misconfigured(w)
  BY <1>8, ReduceWriteFacts, DrainMappedFacts, AfterwardsFacts DEF SameMapped
<1>9. CASE Works(w)
  BY <1>2, <1>3, <1>4, <1>5, <1>6, <1>7, <1>8, <1>9 DEF Works, BatchStep
<1> QED BY <1>1, <1>9, OwnSteps

\* What mapOneDocument reads, it reads of the row.
LEMMA ReadsTold ==
  ASSUME TypeInv, NEW d \in Docs, NEW read \in Reads(d)
  PROVE  /\ read.done.doc = d /\ Told(read.done)
         /\ read.text = "none" => Mute(read.done)
         /\ doc[d].status \in {"finalizing", "completed"} =>
              read.text = doc[d].text /\ read.done.attempt = doc[d].attempt
<1>1. doc[d] \in DocSet
  BY TypeFacts
<1>2. doc[d].attempt \in Nat /\ doc[d].attempt # 0
  BY <1>1 DEF DocSet, Attempts
<1>3. CASE Gone(d)
  <2>1. read = [text |-> "none", done |-> [doc |-> d, attempt |-> doc[d].attempt]]
    BY <1>3 DEF Reads, NoText
  <2> QED BY <1>2, <1>3, <2>1 DEF Told, Mute, Gone
<1>4. CASE ~Gone(d) /\ doc[d].status = "processing"
  <2>1. read.done = [doc |-> d, attempt |-> 0]
    BY <1>4 DEF Reads
  <2> QED BY <1>2, <1>4, <2>1 DEF Told, Mute
<1>5. CASE ~Gone(d) /\ doc[d].status # "processing"
  <2>1. read = [text |-> doc[d].text, done |-> [doc |-> d, attempt |-> doc[d].attempt]]
    BY <1>5 DEF Reads
  <2> QED BY <1>2, <1>5, <2>1 DEF Told, Mute
<1> QED BY <1>3, <1>4, <1>5

LEMMA NextTold ==
  ASSUME TypeInv, RequestInv, ToldInv, [Next]_vars
  PROVE  ToldInv'
<1>1. TypeInv' /\ \A d \in Docs : Moves(d)
  BY NextType, NextMoves
<1>0. SUFFICES ASSUME "unread" \notin mishap', NEW w \in Workers
               PROVE  /\ \A m \in batch'[w].mapped \cup batch'[w].skipped : Told(m)'
                      /\ \A m \in batch'[w].skipped : Mute(m)'
  BY DEF ToldInv
<1>2. batch[w].mapped \subseteq Mapped /\ batch[w].skipped \subseteq Mapped
  BY TypeFacts DEF BatchSet
<1>3. \A m \in batch[w].mapped \cup batch[w].skipped :
        /\ Told(m)'
        /\ m \in batch[w].skipped => Mute(m)'
  <2> SUFFICES ASSUME NEW m \in batch[w].mapped \cup batch[w].skipped
               PROVE  Told(m)' /\ (m \in batch[w].skipped => Mute(m)')
    OBVIOUS
  <2>1. m \in Mapped /\ m.doc \in Docs
    BY <1>2 DEF Mapped
  <2>2. Told(m) /\ (m \in batch[w].skipped => Mute(m))
    BY <1>0, MishapsGrow DEF ToldInv
  <2> QED BY <1>1, <2>1, <2>2, ToldKept
<1>4. CASE batch'[w].mapped \subseteq batch[w].mapped /\ batch'[w].skipped \subseteq batch[w].skipped
  BY <1>3, <1>4
<1>5. CASE MapIngest(w)
  <2>1. UNCHANGED doc
    BY <1>5 DEF MapIngest
  <2>2. PICK r \in batch[w].todo : \E read \in Reads(r.doc) :
           /\ batch'[w].skipped = IF read.text = "none" THEN batch[w].skipped \cup {read.done}
                                  ELSE batch[w].skipped
           /\ batch'[w].mapped = IF read.text # "none" THEN batch[w].mapped \cup {read.done}
                                 ELSE batch[w].mapped
    BY <1>0, <1>5, MapIngestFacts
  <2>3. r.doc \in Docs
    BY TypeFacts DEF BatchSet, Key
  <2>4. \A read \in Reads(r.doc) : Told(read.done) /\ (read.text = "none" => Mute(read.done))
    BY <2>3, ReadsTold
  <2>5. \A read \in Reads(r.doc) : Told(read.done)' /\ (read.text = "none" => Mute(read.done)')
    BY <2>1, <2>4 DEF Told, Mute, Gone
  <2> QED BY <1>3, <2>2, <2>5
<1> QED BY <1>4, <1>5, MappedGrows

-----------------------------------------------------------------------------
(* What a completed document's page says                                   *)

Wrong == Excused({"unlocked", "unwritten", "unread", "older"})
Mentions(d) == doc[d].text = "mentions"
Done(d) == doc[d].status = "completed" /\ doc[d].text # "none"
Settled(d) == doc[d].status \in {"finalizing", "completed"} /\ doc[d].text # "none"
\* What was read of a document is what its row says.
Current(m) == m.attempt = doc[m.doc].attempt /\ Settled(m.doc)
\* The references a batch starts from.
Base(b) == IF b.pc = "reducing" THEN b.copy.refs ELSE page.refs

\* What a batch will write of the documents it has read ...
ToWrite(w) ==
  \A m \in batch[w].mapped : Current(m) =>
    IF Mentions(m.doc) THEN m.doc \in batch[w].adds
    ELSE /\ m.doc \notin batch[w].adds
         /\ m.doc \in batch[w].strips \/ m.doc \notin Base(batch[w])
\* ... nothing of completed ones that it has not read ...
NoMore(w) ==
  \A d \in batch[w].adds \cup batch[w].strips : Done(d) =>
    \E m \in batch[w].mapped : m.doc = d /\ Current(m)
\* ... into a copy that is as fresh as the documents that are there need it ...
FreshCopy(w) ==
  batch[w].copy.live = page.live =>
    \A d \in Docs : doc[d].status # "gone" => (d \in batch[w].copy.refs <=> d \in page.refs)
\* ... and it has written before it releases.
Written(w) ==
  \A m \in batch[w].mapped : Current(m) => (m.doc \in page.refs <=> Mentions(m.doc))

BatchInv(w) ==
  /\ batch[w].pc \in {"mapping", "reducing"} => ToWrite(w) /\ NoMore(w)
  /\ batch[w].pc = "reducing" => FreshCopy(w)
  /\ batch[w].pc = "publishing" => Written(w)
DoneInv == \A d \in Docs : Done(d) => (d \in page.refs <=> Mentions(d))
WrittenInv == Wrong \/ (DoneInv /\ \A w \in Workers : BatchInv(w))

\* A row completes when somebody releases its slot.
LEMMA Completes ==
  ASSUME TypeInv, [Next]_vars, NEW d \in Docs,
         doc[d].status # "completed", doc'[d].status = "completed"
  PROVE  \E w \in Workers : DrainSkipped(w) \/ DrainMapped(w) \/ Requeue(w)
<1>1. doc \in [Docs -> DocSet] /\ doc[d] \in DocSet
  BY TypeFacts
<1>2. doc' # doc
  OBVIOUS
<1>3. CASE \E e \in Docs : PostFinalize(e)
  <2> PICK e \in Docs : PostFinalize(e)
    BY <1>3
  <2>1. doc' = [doc EXCEPT ![e].status = "finalizing"]
    BY DEF PostFinalize
  <2> QED BY <1>1, <2>1
<1>4. CASE \E e \in Docs : ReparseClear(e)
  <2> PICK e \in Docs : ReparseClear(e)
    BY <1>4
  <2>1. doc' = [doc EXCEPT ![e].text = "none"]
    BY DEF ReparseClear
  <2> QED BY <1>1, <2>1 DEF DocSet
<1>5. CASE \E e \in Docs : ReparseReset(e)
  <2>1. PICK e \in Docs, text \in Texts :
          doc' = [doc EXCEPT ![e] = [status |-> "processing", attempt |-> @.attempt + 1,
                                     text |-> text]]
    BY <1>5 DEF ReparseReset
  <2> QED BY <1>1, <2>1
<1>6. CASE \E e \in Docs : CancelMark(e)
  <2> PICK e \in Docs : CancelMark(e)
    BY <1>6
  <2>1. doc' = [doc EXCEPT ![e].status = "cancelled"]
    BY DEF CancelMark
  <2> QED BY <1>1, <2>1
<1>7. CASE \E e \in Docs : DeleteMark(e)
  <2> PICK e \in Docs : DeleteMark(e)
    BY <1>7
  <2>1. doc' = [doc EXCEPT ![e].status = "gone"]
    BY DEF DeleteMark
  <2> QED BY <1>1, <2>1
<1>8. CASE \E w \in Workers : DrainSkipped(w) \/ DrainMapped(w) \/ Requeue(w)
  BY <1>8
<1>9. CASE TriggerStep \/ Expire
  BY <1>2, <1>9 DEF TriggerStep, Take, Refused, Expire
<1>10. CASE \E w \in Workers : \/ Peek(w) \/ MapRetract(w) \/ MapIngest(w)
                               \/ ReduceRead(w) \/ ReduceWrite(w) \/ Trim(w) \/ Follow(w)
                               \/ Unlock(w) \/ Misconfigured(w) \/ MapFails(w) \/ Crash(w)
  BY <1>2, <1>10 DEF Peek, MapRetract, MapIngest, ReduceRead, ReduceWrite, Trim, Follow,
                     Unlock, Misconfigured, MapFails, Crash
<1>11. CASE \E e \in Docs : \/ PostStep(e) \/ CancelScrub(e) \/ DeleteList(e) \/ DeleteStrip(e)
                            \/ DeleteRetract(e) \/ DeleteTrigger(e) \/ ReparseScrub(e)
  BY <1>2, <1>11 DEF PostStep, PostRow, PostTrigger, CancelScrub, DeleteList, DeleteStrip,
                     DeleteRetract, DeleteTrigger, ReparseScrub
<1>12. CASE Next
  BY <1>3, <1>4, <1>5, <1>6, <1>7, <1>8, <1>9, <1>10, <1>11, <1>12
     DEF Next, UserStep, BatchStep
<1>13. CASE UNCHANGED vars
  BY <1>2, <1>13 DEF vars, now
<1> QED BY <1>12, <1>13

\* A dead letter of a map is an update that never reaches the page.
LEMMA DeadIsUnwritten ==
  ASSUME TypeInv, NEW w \in Workers, Requeue(w), doc' # doc
  PROVE  "unwritten" \in mishap'
<1> DEFINE failed == {k \in 1 .. Len(rows) : rows[k].key \in batch[w].failed}
           dead == {rows[k].key : k \in {k \in failed : Spent(rows[k])}}
<1>1. /\ doc' = Released({r.doc : r \in dead})
      /\ mishap' = mishap \cup ((IF dead # {} THEN {"unwritten"} ELSE {}) \cup NoteOlder(dead))
  BY DEF Requeue, Note
<1> HIDE DEF dead
<1>3. CASE dead = {}
  <2>1. doc' = [d \in Docs |-> doc[d]]
    BY <1>1, <1>3 DEF Released
  <2>2. doc' = doc
    BY <2>1, TypeFacts
  <2> QED BY <2>2
<1> QED BY <1>1, <1>3

\* A document with text completes, and nothing has gone wrong: its batch has written
\* what it read of this attempt of it.
LEMMA NewlyDone ==
  ASSUME TypeInv, RequestInv, ToldInv, [Next]_vars, ~Wrong', NEW d \in Docs, Done(d)', ~Done(d)
  PROVE  /\ doc'[d].text = doc[d].text
         /\ \E w \in Workers : /\ DrainMapped(w)
                               /\ \E m \in batch[w].mapped : m.doc = d /\ Current(m)
<1>1. Moves(d)
  BY NextMoves
<1>2. /\ doc'[d].status = "completed" /\ doc'[d].text # "none" /\ doc'[d].text = doc[d].text
      /\ doc[d].status = "finalizing" /\ doc[d].text # "none"
  BY <1>1 DEF Moves, Done
<1>3. "older" \notin mishap' /\ "unwritten" \notin mishap' /\ "unread" \notin mishap
  BY MishapsGrow DEF Wrong, Excused
<1>4. PICK w \in Workers : DrainSkipped(w) \/ DrainMapped(w) \/ Requeue(w)
  BY <1>2, Completes
<1>5. ASSUME DrainSkipped(w) PROVE FALSE
  <2>1. PICK m \in batch[w].skipped : doc' = Released({m.doc}) /\ Note(NoteOlder({m}))
    BY <1>5, DrainSkippedFacts
  <2>2. m.doc = d
    BY <1>2, <2>1, ReleasedFacts
  <2>3. "older" \notin NoteOlder({m})
    BY <1>3, <2>1 DEF Note
  <2>4. m.attempt = doc[m.doc].attempt
    BY <1>2, <2>2, <2>3 DEF NoteOlder
  <2>5. Mute(m)
    BY <1>3 DEF ToldInv
  <2> QED BY <1>2, <2>2, <2>4, <2>5 DEF Mute, Gone
<1>6. ~Requeue(w)
  BY <1>2, <1>3, DeadIsUnwritten
<1>7. CASE DrainMapped(w)
  <2>1. doc' = Released({m.doc : m \in batch[w].mapped}) /\ Note(NoteOlder(batch[w].mapped))
    BY <1>7, DrainMappedFacts
  <2>2. PICK m \in batch[w].mapped : m.doc = d
    BY <1>2, <2>1, ReleasedFacts
  <2>3. "older" \notin NoteOlder(batch[w].mapped)
    BY <1>3, <2>1 DEF Note
  <2>4. m.attempt = doc[m.doc].attempt
    BY <1>2, <2>2, <2>3 DEF NoteOlder
  <2>5. Current(m)
    BY <1>2, <2>2, <2>4 DEF Current, Settled
  <2> QED BY <1>2, <1>7, <2>2, <2>5
<1> QED BY <1>4, <1>5, <1>6, <1>7

\* A reading that is current was current before, and of the same text.
LEMMA CurrentBack ==
  ASSUME TypeInv, TypeInv', NEW m \in Mapped, Moves(m.doc), Told(m), Current(m)'
  PROVE  Current(m) /\ (Mentions(m.doc)' <=> Mentions(m.doc))
<1> DEFINE d == m.doc
           old == doc[d].attempt
           new == doc'[d].attempt
<1>1. m.attempt \in Nat /\ old \in Nat /\ new \in Nat
  <2>1. d \in Docs /\ m.attempt \in Attempts \cup {0}
    BY DEF Mapped
  <2>2. doc \in [Docs -> DocSet] /\ doc' \in [Docs -> DocSet]
    BY TypeFacts DEF TypeInv, WikiTypeOK, DocSet
  <2>3. doc[d] \in DocSet /\ doc'[d] \in DocSet
    BY <2>1, <2>2
  <2>4. doc[d].attempt \in Attempts /\ doc'[d].attempt \in Attempts
    BY <2>3 DEF DocSet
  <2> QED BY <2>1, <2>4 DEF Attempts
<1>2. m.attempt = new /\ doc'[d].status \in {"finalizing", "completed"} /\ doc'[d].text # "none"
  BY DEF Current, Settled
<1>3. m.attempt <= old /\ (m.attempt = old => doc[d].status # "processing")
  BY DEF Told
<1>4. new = old /\ doc'[d].text = doc[d].text
  BY <1>1, <1>2, <1>3 DEF Moves
<1>5. doc[d].status \in {"finalizing", "completed"}
  BY <1>2, <1>3, <1>4 DEF Moves
<1> QED BY <1>2, <1>4, <1>5 DEF Current, Settled, Mentions

LEMMA DoneBack ==
  ASSUME TypeInv, TypeInv', NEW d \in Docs, Moves(d), Done(d), Done(d)'
  PROVE  doc'[d].text = doc[d].text /\ doc'[d].attempt = doc[d].attempt
<1>1. doc \in [Docs -> DocSet] /\ doc' \in [Docs -> DocSet]
  BY TypeFacts DEF TypeInv, WikiTypeOK, DocSet
<1> QED BY <1>1 DEF Moves, Done

\* A delete that has not lost an update takes its own document off the page, and no
\* other.
LEMMA StripKeeps ==
  ASSUME TypeInv, RequestInv, PageInv, NEW e \in Docs, DeleteStrip(e), "unwritten" \notin mishap'
  PROVE  /\ \A d \in Docs : doc[d].status # "gone" => (d \in page'.refs <=> d \in page.refs)
         /\ page'.live => page.live
<1> DEFINE remaining == user[e].copy \ {e}
           lost == page.refs \ (remaining \cup {e})
<1>1. doc[e].status = "gone"
  BY DEF DeleteStrip, RequestInv, Deletes
<1>2. \/ UNCHANGED page
      \/ /\ page.live
         /\ page' = IF remaining = {} THEN NoPage ELSE [page EXCEPT !.refs = remaining]
         /\ lost # {} \/ remaining \ page.refs # {} => "unwritten" \in mishap'
  BY DEF DeleteStrip, Note
<1> HIDE DEF remaining
<1>3. page \in Page
  BY TypeFacts
<1>4. CASE UNCHANGED page
  BY <1>4
<1>5. CASE /\ page.live
           /\ page' = IF remaining = {} THEN NoPage ELSE [page EXCEPT !.refs = remaining]
           /\ lost = {} /\ remaining \ page.refs = {}
  <2>1. page'.refs = remaining /\ page.live
    BY <1>3, <1>5 DEF Page, NoPage
  <2> QED BY <1>1, <1>5, <2>1
<1> QED BY <1>2, <1>4, <1>5

\* Only a batch that reduces writes of documents that are there.
LEMMA PageKept ==
  ASSUME TypeInv, RequestInv, PageInv, [Next]_vars, "unwritten" \notin mishap',
         \A w \in Workers : ~ReduceWrite(w)
  PROVE  /\ \A d \in Docs : doc[d].status # "gone" => (d \in page'.refs <=> d \in page.refs)
         /\ page'.live => page.live
  BY PageSteps, StripKeeps

\* Nobody else works while a batch does.
LEMMA OthersRest ==
  ASSUME TypeInv, Inv, "unlocked" \notin mishap, [Next]_vars, NEW w \in Workers,
         Inside(w), batch'[w] = batch[w]
  PROVE  /\ \A v \in Workers : ~ReduceWrite(v)
         /\ \A v \in Workers : ~DrainMapped(v)
<1>1. batch[w].pc # "idle"
  BY DEF Inside
<1>2. \A v \in Workers : batch[v].pc # "idle" => v = w
  BY <1>1, Alone
<1>3. ~ReduceWrite(w) /\ ~DrainMapped(w)
  BY ReduceWriteFacts, DrainMappedFacts
<1> QED BY <1>2, <1>3, ReduceWriteFacts, DrainMappedFacts

LEMMA NotWrong ==
  ASSUME [Next]_vars, ~Wrong'
  PROVE  /\ ~Wrong /\ "unlocked" \notin mishap /\ "unlocked" \notin mishap'
         /\ "unwritten" \notin mishap' /\ "older" \notin mishap'
         /\ "unread" \notin mishap /\ "unread" \notin mishap'
<1>1. mishap \subseteq mishap'
  BY MishapsGrow
<1> QED BY <1>1 DEF Wrong, Excused

LEMMA AllTyped ==
  ASSUME AllInv, [Next]_vars
  PROVE  TypeInv /\ TypeInv' /\ Inv /\ RequestInv /\ RetractInv /\ PageInv
         /\ \A d \in Docs : Moves(d)
  BY NextType, NextMoves DEF AllInv

\* What a batch has read and is current was current before, and told of a document
\* that is there.
LEMMA ReadBefore ==
  ASSUME AllInv, ToldInv, [Next]_vars, "unread" \notin mishap,
         NEW w \in Workers, NEW m \in batch[w].mapped, Current(m)'
  PROVE  /\ Current(m) /\ (Mentions(m.doc)' <=> Mentions(m.doc))
         /\ m.doc \in Docs /\ doc[m.doc].status # "gone"
<1>1. m \in Mapped /\ m.doc \in Docs
  BY TypeFacts DEF BatchSet, Mapped, AllInv
<1>2. Told(m)
  BY DEF ToldInv
<1>3. Current(m) /\ (Mentions(m.doc)' <=> Mentions(m.doc))
  BY <1>1, <1>2, AllTyped, CurrentBack
<1> QED BY <1>1, <1>3 DEF Current, Settled

\* A batch that is not at work in a step keeps what it had.
LEMMA BatchWaits ==
  ASSUME AllInv, ToldInv, WrittenInv, [Next]_vars, ~Wrong', NEW w \in Workers,
         batch'[w] = batch[w]
  PROVE  BatchInv(w)'
<1>1. CASE batch[w].pc \notin {"mapping", "reducing", "publishing"}
  BY <1>1 DEF BatchInv
<1>2. CASE batch[w].pc \in {"mapping", "reducing", "publishing"}
  <2>1. BatchInv(w)
    BY NotWrong DEF WrittenInv
  <2>2. (\A v \in Workers : ~ReduceWrite(v)) /\ (\A v \in Workers : ~DrainMapped(v))
    BY <1>2, NotWrong, OthersRest DEF Inside, AllInv
  <2>3. /\ \A d \in Docs : doc[d].status # "gone" => (d \in page'.refs <=> d \in page.refs)
        /\ page'.live => page.live
    BY <2>2, NotWrong, PageKept DEF AllInv
  <2>4. \A d \in Docs : Done(d)' => Done(d) /\ doc'[d].text = doc[d].text
                                    /\ doc'[d].attempt = doc[d].attempt
    <3> SUFFICES ASSUME NEW d \in Docs, Done(d)'
                 PROVE  Done(d) /\ doc'[d].text = doc[d].text /\ doc'[d].attempt = doc[d].attempt
      OBVIOUS
    <3>1. Done(d)
      BY <2>2, NewlyDone DEF AllInv
    <3> QED BY <3>1, AllTyped, DoneBack
  <2>5. \A m \in batch[w].mapped : Current(m)' =>
          /\ Current(m) /\ (Mentions(m.doc)' <=> Mentions(m.doc))
          /\ m.doc \in Docs /\ doc[m.doc].status # "gone"
    BY NotWrong, ReadBefore
  <2>6. batch[w] \in BatchSet /\ page \in Page /\ page' \in Page
    BY TypeFacts, AllTyped DEF TypeInv, WikiTypeOK
  <2>7. ASSUME batch[w].pc \in {"mapping", "reducing"} PROVE ToWrite(w)'
    <3> SUFFICES ASSUME NEW m \in batch[w].mapped, Current(m)'
                 PROVE  (IF Mentions(m.doc) THEN m.doc \in batch[w].adds
                         ELSE /\ m.doc \notin batch[w].adds
                              /\ m.doc \in batch[w].strips \/ m.doc \notin Base(batch[w]))'
      BY DEF ToWrite
    <3>1. IF Mentions(m.doc) THEN m.doc \in batch[w].adds
          ELSE /\ m.doc \notin batch[w].adds
               /\ m.doc \in batch[w].strips \/ m.doc \notin Base(batch[w])
      BY <2>1, <2>5, <2>7 DEF BatchInv, ToWrite
    <3>2. m.doc \in Base(batch[w]) <=> m.doc \in Base(batch[w])'
      BY <2>3, <2>5 DEF Base
    <3> QED BY <2>5, <3>1, <3>2
  <2>8. ASSUME batch[w].pc \in {"mapping", "reducing"} PROVE NoMore(w)'
    <3> SUFFICES ASSUME NEW d \in batch[w].adds \cup batch[w].strips, Done(d)'
                 PROVE  \E m \in batch[w].mapped : m.doc = d /\ Current(m)'
      BY DEF NoMore
    <3>1. d \in Docs
      BY <2>6 DEF BatchSet
    <3>2. Done(d) /\ doc'[d].text = doc[d].text /\ doc'[d].attempt = doc[d].attempt
      BY <2>4, <3>1
    <3>3. PICK m \in batch[w].mapped : m.doc = d /\ Current(m)
      BY <2>1, <2>8, <3>2 DEF BatchInv, NoMore
    <3> QED BY <3>2, <3>3 DEF Current, Settled, Done
  <2>9. ASSUME batch[w].pc = "reducing" PROVE FreshCopy(w)'
    <3> SUFFICES ASSUME batch[w].copy.live = page'.live, NEW d \in Docs, doc'[d].status # "gone"
                 PROVE  d \in batch[w].copy.refs <=> d \in page'.refs
      BY DEF FreshCopy
    <3>1. doc[d].status # "gone"
      BY AllTyped DEF Moves
    <3>2. page.live = page'.live
      <4>1. page.live \in BOOLEAN /\ page'.live \in BOOLEAN
        BY <2>6 DEF Page
      <4>2. ~batch[w].copy.live => ~page.live
        BY <2>9, NotWrong DEF AllInv, PageInv
      <4> QED BY <2>3, <4>1, <4>2
    <3>3. FreshCopy(w)
      BY <2>1, <2>9 DEF BatchInv
    <3> QED BY <2>3, <3>1, <3>2, <3>3 DEF FreshCopy
  <2>10. ASSUME batch[w].pc = "publishing" PROVE Written(w)'
    <3>1. Written(w)
      BY <2>1, <2>10 DEF BatchInv
    <3> SUFFICES ASSUME NEW m \in batch[w].mapped, Current(m)'
                 PROVE  m.doc \in page'.refs <=> Mentions(m.doc)'
      BY DEF Written
    <3> QED BY <2>3, <2>5, <3>1 DEF Written
  <2> QED BY <2>7, <2>8, <2>9, <2>10 DEF BatchInv
<1> QED BY <1>1, <1>2

\* Mapping a retract takes only a deleted document off.
LEMMA RetractWrites ==
  ASSUME AllInv, ToldInv, WrittenInv, [Next]_vars, ~Wrong', NEW w \in Workers, MapRetract(w)
  PROVE  BatchInv(w)'
<1>1. UNCHANGED <<doc, page>> /\ BatchInv(w)
  BY NotWrong DEF MapRetract, WrittenInv
<1>2. PICK r \in batch[w].todo :
         /\ r.op = "retract" /\ batch[w].pc = "mapping" /\ batch'[w].pc = "mapping"
         /\ batch'[w].adds = batch[w].adds /\ batch'[w].mapped = batch[w].mapped
         /\ batch'[w].strips \in {batch[w].strips, batch[w].strips \cup {r.doc}}
  BY MapRetractFacts DEF AllInv
<1>3. doc[r.doc].status = "gone"
  BY <1>2 DEF AllInv, RetractInv
<1>4. ToWrite(w) /\ NoMore(w)
  BY <1>1, <1>2 DEF BatchInv
<1>5. ToWrite(w)'
  <2> SUFFICES ASSUME NEW m \in batch[w].mapped, Current(m)
               PROVE  IF Mentions(m.doc) THEN m.doc \in batch[w].adds
                      ELSE /\ m.doc \notin batch[w].adds
                           /\ m.doc \in batch'[w].strips \/ m.doc \notin page.refs
    BY <1>1, <1>2 DEF ToWrite, Current, Settled, Mentions, Base
  <2> QED BY <1>2, <1>4 DEF ToWrite, Base
<1>6. NoMore(w)'
  <2> SUFFICES ASSUME NEW d \in batch[w].adds \cup batch'[w].strips, Done(d)
               PROVE  \E m \in batch[w].mapped : m.doc = d /\ Current(m)
    BY <1>1, <1>2 DEF NoMore, Current, Settled, Done
  <2>1. d # r.doc
    BY <1>3 DEF Done
  <2> QED BY <1>2, <1>4, <2>1 DEF NoMore
<1> QED BY <1>2, <1>5, <1>6 DEF BatchInv

\* Mapping a document puts down what its row says.
LEMMA IngestWrites ==
  ASSUME AllInv, OnceInv, ToldInv, WrittenInv, [Next]_vars, ~Wrong', NEW w \in Workers,
         MapIngest(w)
  PROVE  BatchInv(w)'
<1>1. UNCHANGED <<doc, page>> /\ BatchInv(w)
  BY NotWrong DEF MapIngest, WrittenInv
<1>2. PICK r, read :
         /\ r \in batch[w].todo
         /\ read \in Reads(r.doc) /\ batch[w].pc = "mapping" /\ batch'[w].pc = "mapping"
         /\ batch'[w].mapped = IF read.text # "none" THEN batch[w].mapped \cup {read.done}
                               ELSE batch[w].mapped
         /\ batch'[w].adds = IF read.text = "mentions" THEN batch[w].adds \cup {r.doc}
                             ELSE batch[w].adds
         /\ batch'[w].strips = IF read.text # "none" /\ page.live /\ r.doc \in page.refs
                               THEN batch[w].strips \cup {r.doc} ELSE batch[w].strips
  <2>1. "unread" \notin mishap' /\ TypeInv
    BY NotWrong DEF AllInv
  <2>2. PICK r \in batch[w].todo : \E read \in Reads(r.doc), listed \in BOOLEAN :
          /\ listed = (page.live /\ r.doc \in page.refs)
          /\ batch[w].pc = "mapping" /\ batch'[w].pc = "mapping"
          /\ batch'[w].mapped = IF read.text # "none" THEN batch[w].mapped \cup {read.done}
                                ELSE batch[w].mapped
          /\ batch'[w].adds = IF read.text = "mentions" THEN batch[w].adds \cup {r.doc}
                              ELSE batch[w].adds
          /\ batch'[w].strips = IF read.text # "none" /\ listed
                                THEN batch[w].strips \cup {r.doc} ELSE batch[w].strips
    BY <2>1, MapIngestFacts
  <2> QED BY <2>2
<1>3. r.doc \in Docs
  BY <1>2, TypeFacts DEF BatchSet, Key, AllInv
<1>4. /\ read.done.doc = r.doc
      /\ Settled(r.doc) => read.text = doc[r.doc].text /\ read.done.attempt = doc[r.doc].attempt
  BY <1>2, <1>3, ReadsTold DEF Settled, AllInv
<1>5. ToWrite(w) /\ NoMore(w)
  BY <1>1, <1>2 DEF BatchInv
<1>6. /\ r.doc \notin batch[w].adds \cup batch[w].strips
      /\ \A m \in batch[w].mapped : m.doc # r.doc
  BY <1>2 DEF OnceInv
<1>7. ~page.live => page.refs = {}
  BY DEF AllInv, PageInv
<1>8. ToWrite(w)'
  <2> SUFFICES ASSUME NEW m \in batch'[w].mapped, Current(m)
               PROVE  IF Mentions(m.doc) THEN m.doc \in batch'[w].adds
                      ELSE /\ m.doc \notin batch'[w].adds
                           /\ m.doc \in batch'[w].strips \/ m.doc \notin page.refs
    BY <1>1, <1>2 DEF ToWrite, Current, Settled, Mentions, Base
  <2>1. CASE m \in batch[w].mapped
    BY <1>2, <1>5, <1>6, <2>1 DEF ToWrite, Base
  <2>2. CASE m \notin batch[w].mapped
    <3>1. m = read.done /\ read.text # "none" /\ m.doc = r.doc
      BY <1>2, <1>4, <2>2
    <3>2. read.text = doc[r.doc].text
      BY <1>4, <3>1 DEF Current
    <3> QED BY <1>2, <1>6, <1>7, <3>1, <3>2 DEF Mentions
  <2> QED BY <2>1, <2>2
<1>9. NoMore(w)'
  <2> SUFFICES ASSUME NEW d \in batch'[w].adds \cup batch'[w].strips, Done(d)
               PROVE  \E m \in batch'[w].mapped : m.doc = d /\ Current(m)
    BY <1>1 DEF NoMore, Current, Settled, Done
  <2>1. CASE d \in batch[w].adds \cup batch[w].strips
    BY <1>2, <1>5, <2>1 DEF NoMore
  <2>2. CASE d \notin batch[w].adds \cup batch[w].strips
    <3>1. d = r.doc /\ read.text # "none"
      BY <1>2, <2>2
    <3>2. Settled(r.doc)
      BY <3>1 DEF Done, Settled
    <3>3. read.done \in batch'[w].mapped /\ read.done.doc = d /\ Current(read.done)
      BY <1>2, <1>4, <3>1, <3>2 DEF Current
    <3> QED BY <3>3
  <2> QED BY <2>1, <2>2
<1> QED BY <1>2, <1>8, <1>9 DEF BatchInv

\* Releasing a skipped document changes nothing of what is to be written.
LEMMA SkipWrites ==
  ASSUME AllInv, ToldInv, WrittenInv, [Next]_vars, ~Wrong', NEW w \in Workers, DrainSkipped(w)
  PROVE  BatchInv(w)'
<1>1. /\ UNCHANGED page /\ batch[w].pc = "mapping" /\ batch'[w].pc = "mapping"
      /\ batch'[w].adds = batch[w].adds /\ batch'[w].strips = batch[w].strips
      /\ batch'[w].mapped = batch[w].mapped
  BY DrainSkippedFacts DEF AllInv
<1>2. ToWrite(w) /\ NoMore(w)
  BY <1>1, NotWrong DEF WrittenInv, BatchInv
<1>3. ToWrite(w)'
  <2> SUFFICES ASSUME NEW m \in batch[w].mapped, Current(m)'
               PROVE  IF Mentions(m.doc)' THEN m.doc \in batch[w].adds
                      ELSE /\ m.doc \notin batch[w].adds
                           /\ m.doc \in batch[w].strips \/ m.doc \notin page.refs
    BY <1>1 DEF ToWrite, Base
  <2>1. Current(m) /\ (Mentions(m.doc)' <=> Mentions(m.doc))
    BY NotWrong, ReadBefore
  <2> QED BY <1>1, <1>2, <2>1 DEF ToWrite, Base
<1>4. NoMore(w)'
  <2> SUFFICES ASSUME NEW d \in batch[w].adds \cup batch[w].strips, Done(d)'
               PROVE  \E m \in batch[w].mapped : m.doc = d /\ Current(m)'
    BY <1>1 DEF NoMore
  <2>1. d \in Docs
    BY TypeFacts DEF BatchSet, AllInv
  <2>2. ~\E v \in Workers : DrainMapped(v)
    <3> SUFFICES ASSUME NEW v \in Workers, DrainMapped(v) PROVE FALSE
      OBVIOUS
    <3>1. batch[v].pc = "publishing"
      BY DrainMappedFacts DEF AllInv
    <3>2. v = w
      BY <1>1, <3>1, NotWrong, Alone DEF AllInv
    <3> QED BY <1>1, <3>1, <3>2
  <2>3. Done(d)
    BY <2>1, <2>2, NewlyDone DEF AllInv
  <2>4. doc'[d].text = doc[d].text /\ doc'[d].attempt = doc[d].attempt
    BY <2>1, <2>3, AllTyped, DoneBack
  <2>5. PICK m \in batch[w].mapped : m.doc = d /\ Current(m)
    BY <1>2, <2>3 DEF NoMore
  <2> QED BY <2>4, <2>5 DEF Current, Settled, Done
<1> QED BY <1>1, <1>3, <1>4 DEF BatchInv

\* The reduce keeps the updates of all documents that are there.
LEMMA ReduceReads ==
  ASSUME AllInv, ToldInv, WrittenInv, [Next]_vars, ~Wrong', NEW w \in Workers, ReduceRead(w)
  PROVE  BatchInv(w)'
<1> DEFINE live == {d \in batch[w].adds : ~Gone(d)}
<1>1. /\ UNCHANGED <<doc, page>> /\ batch[w].pc = "mapping"
      /\ batch'[w].strips = batch[w].strips /\ batch'[w].mapped = batch[w].mapped
      /\ \/ /\ batch'[w].pc = "publishing" /\ live = {} /\ (page.live => batch[w].strips = {})
         \/ /\ batch'[w].pc = "reducing" /\ batch'[w].adds = live /\ batch'[w].copy = page
  BY NotWrong, ReduceReadFacts DEF AllInv
<1>2. ToWrite(w) /\ NoMore(w)
  BY <1>1, NotWrong DEF WrittenInv, BatchInv
<1>3. ~page.live => page.refs = {}
  BY DEF AllInv, PageInv
<1>4. \A m : Current(m) /\ m.doc \in batch[w].adds => m.doc \in live
  BY DEF Current, Settled, Gone
<1> HIDE DEF live
<1>5. CASE batch'[w].pc = "publishing"
  <2>1. Written(w)'
    <3> SUFFICES ASSUME NEW m \in batch[w].mapped, Current(m)
                 PROVE  m.doc \in page.refs <=> Mentions(m.doc)
      BY <1>1 DEF Written, Current, Settled, Mentions
    <3> QED BY <1>1, <1>2, <1>3, <1>4, <1>5 DEF ToWrite, Base
  <2> QED BY <1>5, <2>1 DEF BatchInv
<1>6. CASE batch'[w].pc = "reducing"
  <2>1. batch'[w].adds = live /\ batch'[w].copy = page
    BY <1>1, <1>6
  <2>2. ToWrite(w)'
    <3> SUFFICES ASSUME NEW m \in batch[w].mapped, Current(m)
                 PROVE  IF Mentions(m.doc) THEN m.doc \in live
                        ELSE /\ m.doc \notin live
                             /\ m.doc \in batch[w].strips \/ m.doc \notin page.refs
      BY <1>1, <1>6, <2>1 DEF ToWrite, Current, Settled, Mentions, Base
    <3> QED BY <1>1, <1>2, <1>4 DEF ToWrite, Base, live
  <2>3. NoMore(w)'
    <3> SUFFICES ASSUME NEW d \in live \cup batch[w].strips, Done(d)
                 PROVE  \E m \in batch[w].mapped : m.doc = d /\ Current(m)
      BY <1>1, <2>1 DEF NoMore, Current, Settled, Done
    <3> QED BY <1>2 DEF NoMore, live
  <2>4. FreshCopy(w)'
    BY <1>1, <2>1 DEF FreshCopy
  <2> QED BY <1>6, <2>2, <2>3, <2>4 DEF BatchInv
<1> QED BY <1>1, <1>5, <1>6

\* What is written is what was to be written.
LEMMA ReduceWrites ==
  ASSUME AllInv, ToldInv, WrittenInv, [Next]_vars, ~Wrong', NEW w \in Workers, ReduceWrite(w)
  PROVE  BatchInv(w)'
<1>1. /\ UNCHANGED doc /\ batch[w].pc = "reducing" /\ batch'[w].pc = "publishing"
      /\ batch'[w].mapped = batch[w].mapped
  BY ReduceWriteFacts DEF AllInv, SameMapped
<1>2. ToWrite(w)
  BY <1>1, NotWrong DEF WrittenInv, BatchInv
<1>3. SUFFICES ASSUME NEW m \in batch[w].mapped, Current(m)
               PROVE  m.doc \in page'.refs <=> Mentions(m.doc)
  <2>1. Written(w)'
    BY <1>1, <1>3 DEF Written, Current, Settled, Mentions
  <2> QED BY <1>1, <2>1 DEF BatchInv
<1>4. IF Mentions(m.doc) THEN m.doc \in batch[w].adds
      ELSE /\ m.doc \notin batch[w].adds
           /\ m.doc \in batch[w].strips \/ m.doc \notin batch[w].copy.refs
  BY <1>1, <1>2, <1>3 DEF ToWrite, Base
<1>5. CASE page'.refs = (batch[w].copy.refs \ batch[w].strips) \cup batch[w].adds
  BY <1>4, <1>5
<1>6. CASE batch[w].copy.live # page.live /\ UNCHANGED page /\ batch[w].adds = {}
  <2>1. batch[w].copy.live \in BOOLEAN /\ page.live \in BOOLEAN
    BY TypeFacts DEF AllInv, BatchSet, Page
  <2>2. ~batch[w].copy.live => ~page.live
    BY <1>1, NotWrong DEF AllInv, PageInv
  <2>3. page.refs = {}
    BY <1>6, <2>1, <2>2 DEF AllInv, PageInv
  <2> QED BY <1>4, <1>6, <2>3
<1> QED BY <1>5, <1>6, NotWrong, ReduceWriteFacts DEF AllInv

LEMMA OwnBatch ==
  ASSUME AllInv, OnceInv, ToldInv, WrittenInv, [Next]_vars, ~Wrong', NEW w \in Workers
  PROVE  BatchInv(w)'
<1>0. TypeInv
  BY DEF AllInv
<1>1. CASE batch'[w] = batch[w]
  BY <1>1, BatchWaits
<1>2. CASE Unlock(w) \/ Crash(w) \/ \E n \in 0 .. MaxRetry : Take(w, n)
  BY <1>0, <1>2, FreshFacts DEF Fresh, BatchInv
<1>3. CASE Peek(w)
  <2>1. batch[w].pc = "locked" /\ batch'[w].pc \in {"mapping", "unlocking"} /\ SameMapped(w)
    BY <1>0, <1>3, PeekFacts DEF Peek
  <2>2. batch'[w].adds = {} /\ batch'[w].strips = {} /\ batch'[w].mapped = {}
    BY <2>1 DEF OnceInv, SameMapped
  <2> QED BY <2>1, <2>2 DEF BatchInv, ToWrite, NoMore
<1>4. CASE MapRetract(w)
  BY <1>4, RetractWrites
<1>5. CASE MapIngest(w)
  BY <1>5, IngestWrites
<1>6. CASE MapFails(w)
  <2>1. batch[w].pc = "mapping" /\ batch'[w].pc = "mapping" /\ SameMapped(w)
    BY <1>0, <1>6, MapFailsFacts
  <2>2. UNCHANGED <<doc, page>>
    BY <1>6 DEF MapFails
  <2>3. ToWrite(w) /\ NoMore(w)
    BY <2>1, NotWrong DEF WrittenInv, BatchInv
  <2>4. ToWrite(w)'
    BY <2>1, <2>2, <2>3 DEF ToWrite, SameMapped, Current, Settled, Mentions, Base
  <2>5. NoMore(w)'
    BY <2>1, <2>2, <2>3 DEF NoMore, SameMapped, Current, Settled, Done
  <2> QED BY <2>1, <2>4, <2>5 DEF BatchInv
<1>7. CASE DrainSkipped(w)
  BY <1>7, SkipWrites
<1>8. CASE ReduceRead(w)
  BY <1>8, ReduceReads
<1>9. CASE ReduceWrite(w)
  BY <1>9, ReduceWrites
<1>10. CASE DrainMapped(w) \/ Trim(w) \/ Requeue(w) \/ Follow(w) \/ Misconfigured(w)
  <2>1. batch'[w].pc \in {"trimming", "requeueing", "following", "unlocking"}
    BY <1>0, <1>10, DrainMappedFacts, AfterwardsFacts
  <2> QED BY <2>1 DEF BatchInv
<1>11. CASE Works(w)
  BY <1>2, <1>3, <1>4, <1>5, <1>6, <1>7, <1>8, <1>9, <1>10, <1>11 DEF Works, BatchStep
<1> QED BY <1>0, <1>1, <1>11, OwnSteps

\* A completed document stays as its text says, whoever saves the page.
LEMMA NextDone ==
  ASSUME AllInv, ToldInv, WrittenInv, [Next]_vars, ~Wrong'
  PROVE  DoneInv'
<1> SUFFICES ASSUME NEW d \in Docs, Done(d)'
             PROVE  d \in page'.refs <=> Mentions(d)'
  BY DEF DoneInv
<1>1. DoneInv /\ \A w \in Workers : BatchInv(w)
  BY NotWrong DEF WrittenInv
<1>2. CASE ~Done(d)
  <2>1. PICK w \in Workers : /\ DrainMapped(w) /\ doc'[d].text = doc[d].text
                             /\ \E m \in batch[w].mapped : m.doc = d /\ Current(m)
    BY <1>2, NewlyDone DEF AllInv
  <2>2. UNCHANGED page /\ batch[w].pc = "publishing"
    BY <2>1, DrainMappedFacts DEF AllInv
  <2> QED BY <1>1, <2>1, <2>2 DEF BatchInv, Written, Mentions
<1>3. CASE Done(d)
  <2>1. doc'[d].text = doc[d].text /\ (d \in page.refs <=> Mentions(d))
    BY <1>1, <1>3, AllTyped, DoneBack DEF DoneInv
  <2>2. CASE \A w \in Workers : ~ReduceWrite(w)
    <3>1. d \in page'.refs <=> d \in page.refs
      BY <1>3, <2>2, NotWrong, PageKept DEF AllInv, Done
    <3> QED BY <2>1, <3>1 DEF Mentions
  <2>3. CASE \E w \in Workers : ReduceWrite(w)
    <3> PICK w \in Workers : ReduceWrite(w)
      BY <2>3
    <3>1. batch[w].pc = "reducing"
      BY ReduceWriteFacts DEF AllInv
    <3>2. ToWrite(w) /\ NoMore(w) /\ FreshCopy(w)
      BY <1>1, <3>1 DEF BatchInv
    <3>3. CASE UNCHANGED page
      BY <2>1, <3>3 DEF Mentions
    <3>4. CASE /\ batch[w].copy.live = page.live
               /\ page'.refs = (batch[w].copy.refs \ batch[w].strips) \cup batch[w].adds
      <4>1. CASE d \in batch[w].adds \cup batch[w].strips
        <5>1. PICK m \in batch[w].mapped : m.doc = d /\ Current(m)
          BY <1>3, <3>2, <4>1 DEF NoMore
        <5>2. IF Mentions(d) THEN d \in batch[w].adds
              ELSE /\ d \notin batch[w].adds
                   /\ d \in batch[w].strips \/ d \notin batch[w].copy.refs
          BY <3>1, <3>2, <5>1 DEF ToWrite, Base
        <5> QED BY <2>1, <3>4, <5>2 DEF Mentions
      <4>2. CASE d \notin batch[w].adds \cup batch[w].strips
        <5>1. d \in batch[w].copy.refs <=> d \in page.refs
          BY <1>3, <3>2, <3>4 DEF FreshCopy, Done
        <5> QED BY <2>1, <3>4, <4>2, <5>1 DEF Mentions
      <4> QED BY <4>1, <4>2
    <3> QED BY <3>3, <3>4, ReduceWriteFacts DEF AllInv
  <2> QED BY <2>2, <2>3
<1> QED BY <1>2, <1>3

LEMMA InitWritten == Init => OnceInv /\ ToldInv /\ WrittenInv
<1> SUFFICES ASSUME Init PROVE OnceInv /\ ToldInv /\ WrittenInv
  OBVIOUS
<1>1. \A w \in Workers : /\ batch[w].pc = "idle" /\ batch[w].todo = {}
                         /\ batch[w].mapped = {} /\ batch[w].skipped = {}
  BY DEF Init, NoBatch
<1>2. \A d \in Docs : ~Done(d)
  <2> SUFFICES ASSUME NEW d \in Docs PROVE doc[d].status # "completed"
    BY DEF Done
  <2>1. PICK text \in [Docs -> Texts] :
          doc = [e \in Docs |-> [status |-> IF e \in setup.docs THEN "processing" ELSE "gone",
                                 attempt |-> 1, text |-> text[e]]]
    BY DEF Init
  <2>2. doc[d] = [status |-> IF d \in setup.docs THEN "processing" ELSE "gone",
                  attempt |-> 1, text |-> text[d]]
    BY <2>1
  <2> QED BY <2>2
<1> QED BY <1>1, <1>2 DEF OnceInv, ToldInv, WrittenInv, DoneInv, BatchInv

\* A completed document is on the page if its text mentions the subject, and else is
\* not, whatever batches, re-parses, deletes, crashes and failures did meanwhile,
\* unless a named mishap happened: for any number of documents and workers (the
\* drain after publish, and the replace of a re-parse).
THEOREM CompletedCorrect == Spec => []CompletedIsWritten
<1> DEFINE Everything == AllInv /\ OnceInv /\ ToldInv /\ WrittenInv
<1>1. Init => Everything
  BY InitType, InitInv, InitGhosts, InitWritten DEF AllInv
<1>2. Everything /\ [Next]_vars => Everything'
  <2> SUFFICES ASSUME Everything, [Next]_vars PROVE Everything'
    OBVIOUS
  <2>1. AllInv'
    BY NextAll
  <2>2. OnceInv' /\ ToldInv'
    BY NextOnce, NextTold DEF AllInv
  <2>3. WrittenInv'
    <3>1. CASE Wrong'
      BY <3>1 DEF WrittenInv
    <3>2. CASE ~Wrong'
      <4>1. DoneInv' /\ \A w \in Workers : BatchInv(w)'
        BY <3>2, NextDone, OwnBatch
      <4> QED BY <4>1 DEF WrittenInv
    <3> QED BY <3>1, <3>2
  <2> QED BY <2>1, <2>2, <2>3
<1>3. Everything => CompletedIsWritten
  BY DEF WrittenInv, Wrong, DoneInv, Done, Mentions, CompletedIsWritten
<1> QED BY <1>1, <1>2, <1>3, PTL DEF Spec
=============================================================================
