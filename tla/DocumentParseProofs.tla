--------------------------- MODULE DocumentParseProofs ---------------------------
(***************************************************************************)
(* For any images, retries, failures and requests: every variable keeps    *)
(* its type, only an indexed document is finished, a deleted one leaves    *)
(* nothing behind, and the images hand over once, at the end.              *)
(***************************************************************************)
EXTENDS DocumentParse, FiniteSetTheorems, TLAPS

Known == FaultKinds \cup Collisions
Pcs == AtRest \cup {"queued"} \cup ParseBefore \cup ParseAfter

UserType ==
  /\ canceller \in {"idle", "checked", "written", "over"}
  /\ deleter \in [pc : {"idle", "loaded", "marked", "clearing", "over"},
                  dequeues : BOOLEAN, left : SUBSET DataKinds, failed : BOOLEAN]
  /\ sweep \in {"idle", "stuck"}
DataType == text \in BOOLEAN /\ vectors \in BOOLEAN /\ captions \subseteq {"text", "vectors"}
ImageType == image \in [Deliveries -> [Images -> ImageTask]]
CountType == pending \in Int /\ posts \in Nat
StillType == latest \in 1 .. MaxAttempts /\ setup \in Setups
MishapType == mishap \subseteq Known

LEMMA TypeParts ==
  ParseTypeOK <=> /\ row \in Row /\ StillType /\ parse \in ParseTask /\ ImageType
                  /\ CountType /\ DataType /\ UserType /\ MishapType
BY DEF ParseTypeOK, StoreTypeOK, StillType, ImageType, CountType, DataType, UserType,
       MishapType, Known

-----------------------------------------------------------------------------
(* The inductive invariant                                                 *)

Fin == row.live /\ row.status \in {"finalizing", "completed"}
Shown == \E n \in Deliveries, i \in Images : image[n][i].pc # "none"
Handed == posts > 0 \/ Shown \/ Fin
Untouched == deleter.pc \in {"idle", "loaded"}

\* Only the delete's last step takes the row away.
LiveInv == ~row.live => deleter.pc = "over"

\* A mark once set stays, unless a write passes over it.
MarkedInv ==
  Calm({"overwritten", "database"})
    => (row.live /\ ~Untouched => row.status = "deleting")

\* Nothing is handed over before the parse has come to its end, and then it
\* does not begin again.
HandedInv ==
  Calm({"redeliver"})
    => (Handed => parse.pc \in {"enqueueing", "acking", "done", "lost", "removed"})

TextThere == {"created", "full", "indexing", "indexed", "finishing", "fanout",
              "enqueueing", "acking"}
VectorsThere == {"indexed", "finishing", "fanout", "enqueueing", "acking"}

\* What was written is there while no delete is at work.
DataInv ==
  Calm({"redeliver"}) /\ Untouched
    => /\ parse.pc \in TextThere => text
       /\ parse.pc \in VectorsThere => vectors
       /\ Handed => text /\ vectors

GoneCalm == {"cleanup", "interrupted", "crash", "redeliver", "quota", "overwritten",
             "database"}

\* The delete has passed over this kind of data.
Swept(kind) ==
  deleter.pc = "over" \/ (deleter.pc = "clearing" /\ kind \notin deleter.left)

\* The stages at which the parse will still look and take back what it wrote.
TextMayBe == {"created", "dropping", "indexing", "indexed", "undoing"}
VectorsMayBe == {"indexed", "undoing", "undoingVectors"}

GoneInv ==
  Calm(GoneCalm)
    => /\ Swept("text") /\ text => parse.pc \in TextMayBe
       /\ Swept("vectors") /\ vectors => parse.pc \in VectorsMayBe

\* Of what the images left nothing comes after the delete has passed.
LateCalm == GoneCalm \cup {"late"}
LateInv ==
  Calm(LateCalm) => \A kind \in {"text", "vectors"} : Swept(kind) => kind \notin captions

\* The images that have not counted yet, and those that hand over.
Uncounted == {i \in parse.found : ~Counted(image[Now][i])}
Delivers(task) == task.pc \in {"handing", "posting"}
Delivering == {i \in parse.found : Delivers(image[Now][i])}
HandCalm == {"redis", "redeliver", "interrupted"}

OnlyNow == \A n \in Deliveries, i \in Images :
             image[n][i].pc # "none" => n = Now /\ i \in parse.found
Covers == parse.pc = "enqueueing" \/ Shown => pending >= Cardinality(Uncounted)
NotYet == Uncounted # {} \/ Delivering # {} => posts = 0 /\ ~Fin
OneHands == /\ Uncounted # {} => Delivering = {}
            /\ \A i, j \in Delivering : i = j

\* The countdown covers every image that has not counted, so that only the
\* last one can hand over, alone.
HandInv == Calm(HandCalm) => OnlyNow /\ Covers /\ NotYet /\ OneHands

\* What a hand-over may ask.
Lawful ==
  posts' > posts /\ Calm(HandCalm)'
    => posts = 0 /\ ~Fin /\ \A i \in parse.found : Counted(image[Now][i])

IInv == /\ ParseTypeOK /\ LiveInv /\ MarkedInv /\ HandedInv
        /\ DataInv /\ GoneInv /\ LateInv /\ HandInv

-----------------------------------------------------------------------------
(* Steps of a kind                                                         *)

\* What happened is not forgotten.
Grows == mishap \subseteq mishap' /\ MishapType'

LEMMA MishapGrows ==
  ASSUME MishapType, NEW kind \in FaultKinds
  PROVE  /\ Smooth => Grows
         /\ Strikes(kind) => Grows /\ kind \in mishap'
         /\ RunsAgain => Grows /\ "redeliver" \in mishap'
         /\ \A task : Interrupted(task) => Grows /\ "interrupted" \in mishap'
BY DEF MishapType, Grows, Smooth, Strikes, RunsAgain, Interrupted, Known, FaultKinds, Collisions

LEMMA CalmBefore ==
  ASSUME Grows, NEW kinds, Calm(kinds)'
  PROVE  Calm(kinds)
BY DEF Grows, Calm

\* UpdateKnowledge either fails, or writes the status, and notes what it overwrote.
Stores(status) ==
  /\ row' \in Row /\ row'.live = row.live /\ Grows
  /\ \/ "database" \in mishap' /\ row' = row
     \/ ~row.live /\ row' = row
     \/ row'.status = status /\ (SeenAborted => "overwritten" \in mishap')

LEMMA SavedStores ==
  ASSUME row \in Row, MishapType, NEW status \in ParseStatus, Saved(status)
  PROVE  Stores(status)
<1>1. Grows
  BY DEF Saved, MishapType, Grows, Known, Collisions
<1>2. SeenAborted => "overwritten" \in mishap'
  BY DEF Saved
<1>3. row' \in Row /\ row'.live = row.live /\ (row.live => row'.status = status)
      /\ (~row.live => row' = row)
  BY DEF Saved, Save, Write, Row
<1> QED BY <1>1, <1>2, <1>3 DEF Stores

LEMMA FailStores ==
  ASSUME row \in Row, MishapType, NEW status, SaveFails
  PROVE  Stores(status)
BY MishapGrows DEF SaveFails, FaultKinds, Stores

LEMMA SaveStores ==
  ASSUME row \in Row, MishapType, NEW status \in ParseStatus, SaveStatus(status)
  PROVE  Stores(status)
BY SavedStores, FailStores DEF SaveStatus

RowKept == Grows /\ (row' = row \/ Stores("processing") \/ Stores("failed"))

\* The parse and the sweep neither finish a row nor unmark it unnoticed.
LEMMA RowKeeps ==
  ASSUME row \in Row, RowKept
  PROVE  /\ row' \in Row /\ row'.live = row.live /\ (Fin' => Fin)
         /\ row.live /\ row.status = "deleting"
              => row'.status = "deleting" \/ "overwritten" \in mishap'
<1>1. CASE row' = row
  BY <1>1 DEF Fin
<1>2. ASSUME NEW status \in {"processing", "failed"}, Stores(status)
      PROVE  /\ row' \in Row /\ row'.live = row.live /\ (Fin' => Fin)
             /\ row.live /\ row.status = "deleting"
                  => row'.status = "deleting" \/ "overwritten" \in mishap'
  BY <1>2 DEF Stores, Fin, SeenAborted
<1> QED BY <1>1, <1>2 DEF RowKept

-----------------------------------------------------------------------------
(* The parse before its hand-over                                          *)

Early == parse.pc \in ParseBefore \cup {"queued"}

\* What all of these steps have in common.
EarlyStep ==
  /\ Early
  /\ parse' \in ParseTask /\ parse'.pc # "enqueueing"
  /\ RowKept
  /\ DataType'
  /\ UNCHANGED <<still, image, pending, posts, userVars>>

\* How the stage and the data move together.
Flow ==
  /\ parse'.pc \in TextThere => text' \/ (parse.pc \in TextThere /\ text' = text)
  /\ parse'.pc \in VectorsThere
       => vectors' \/ (parse.pc \in VectorsThere /\ vectors' = vectors)
  /\ text' => \/ parse'.pc \in TextMayBe \/ (text /\ parse.pc \notin TextMayBe)
              \/ ~Calm(GoneCalm)' \/ (row.live /\ row.status # "deleting")
  /\ vectors' => \/ parse'.pc \in VectorsMayBe \/ (vectors /\ parse.pc \notin VectorsMayBe)
                 \/ ~Calm(GoneCalm)' \/ (row.live /\ row.status # "deleting")
  /\ captions' \subseteq captions

LEMMA EarlyNotHanded ==
  ASSUME HandedInv, Early, Calm({"redeliver"})
  PROVE  ~Handed
BY DEF HandedInv, Early, ParseBefore

LEMMA EarlyKeeps ==
  ASSUME IInv, EarlyStep, Flow
  PROVE  IInv' /\ Lawful
<1>1. Grows /\ row' \in Row /\ row'.live = row.live /\ (Fin' => Fin)
      /\ (row.live /\ row.status = "deleting"
            => row'.status = "deleting" \/ "overwritten" \in mishap')
  BY RowKeeps, TypeParts DEF IInv, EarlyStep, RowKept
<1>2. UNCHANGED <<latest, setup, image, pending, posts, canceller, deleter, sweep>>
  BY DEF EarlyStep, still, userVars
<1>3. ParseTypeOK'
  BY <1>1, <1>2, TypeParts DEF IInv, EarlyStep, Grows, ParseTypeOK, StoreTypeOK, DataType, MishapType,
     Known
<1>4. LiveInv'
  BY <1>1, <1>2 DEF IInv, LiveInv
<1>5. MarkedInv'
  BY <1>1, <1>2, CalmBefore DEF IInv, MarkedInv, Untouched, Calm
<1>6. Calm({"redeliver"})' => ~Handed /\ ~Handed'
  <2>1. Handed' => Handed
    BY <1>1, <1>2 DEF Handed, Shown
  <2> QED BY <1>1, <2>1, CalmBefore, EarlyNotHanded DEF IInv, EarlyStep
<1>7. HandedInv'
  BY <1>6 DEF HandedInv
<1>8. DataInv'
  <2> SUFFICES ASSUME Calm({"redeliver"})', Untouched'
               PROVE  /\ parse'.pc \in TextThere => text'
                      /\ parse'.pc \in VectorsThere => vectors'
    BY <1>6 DEF DataInv
  <2>1. Calm({"redeliver"}) /\ Untouched
    BY <1>1, <1>2, CalmBefore DEF Untouched
  <2> QED BY <2>1 DEF IInv, DataInv, Flow
<1>9. GoneInv'
  <2> SUFFICES ASSUME Calm(GoneCalm)'
               PROVE  /\ Swept("text")' /\ text' => parse'.pc \in TextMayBe
                      /\ Swept("vectors")' /\ vectors' => parse'.pc \in VectorsMayBe
    BY DEF GoneInv
  <2>1. Calm(GoneCalm) /\ Calm({"overwritten", "database"})
    BY <1>1, CalmBefore DEF Calm, GoneCalm
  <2>2. \A kind : Swept(kind)' => Swept(kind) /\ ~(row.live /\ row.status # "deleting")
    BY <1>2, <2>1 DEF IInv, MarkedInv, Swept, Untouched
  <2>3. /\ Swept("text") /\ text => parse.pc \in TextMayBe
        /\ Swept("vectors") /\ vectors => parse.pc \in VectorsMayBe
    BY <2>1 DEF IInv, GoneInv
  <2> QED BY <2>2, <2>3 DEF Flow
<1>10. HandInv'
  <2> SUFFICES ASSUME Calm(HandCalm)'
               PROVE  OnlyNow' /\ Covers' /\ NotYet' /\ OneHands'
    BY DEF HandInv
  <2>1. ~Handed /\ ~Handed'
    BY <1>6 DEF Calm, HandCalm
  <2>2. \A n \in Deliveries, i \in Images : image'[n][i].pc = "none"
    BY <1>2, <2>1 DEF Handed, Shown
  <2>3. OnlyNow' /\ Covers'
    BY <2>2 DEF OnlyNow, Covers, Shown, EarlyStep
  <2>4. Delivering' = {}
    BY <1>3, <2>2, TypeParts DEF Delivering, Delivers, Now, ParseTypeOK, ParseTask
  <2>5. posts' = 0 /\ ~Fin'
    BY <1>3, <2>1 DEF Handed, ParseTypeOK
  <2> QED BY <2>3, <2>4, <2>5 DEF NotYet, OneHands
<1>11. Lawful
  BY <1>2, TypeParts DEF IInv, CountType, Lawful
<1>12. LateInv'
  <2>1. Calm(LateCalm)' => Calm(LateCalm)
    BY <1>1, CalmBefore
  <2>2. \A kind : Swept(kind)' = Swept(kind)
    BY <1>2 DEF Swept
  <2> QED BY <2>1, <2>2 DEF IInv, LateInv, Flow
<1> QED BY <1>3, <1>4, <1>5, <1>7, <1>8, <1>9, <1>10, <1>11, <1>12 DEF IInv

-----------------------------------------------------------------------------
(* Every step of the parse before its hand-over is such a step             *)

LEMMA Goto ==
  ASSUME parse \in ParseTask
  PROVE  \A pc \in Pcs : ParseGoto(pc) => parse' \in ParseTask /\ parse'.pc = pc
BY DEF ParseGoto, ParseTask, Pcs

LEMMA AgainType ==
  ASSUME NEW task \in ParseTask \cup ImageTask, MayRetry(task)
  PROVE  /\ task \in ParseTask => Again(task) \in ParseTask
         /\ task \in ImageTask => Again(task) \in ImageTask
         /\ Again(task).pc = "queued"
<1>1. task.retried + 1 \in Deliveries
  BY ParseAssumption DEF MayRetry, ParseTask, ImageTask, Deliveries
<1> QED BY <1>1 DEF Again, ParseTask, ImageTask

LEMMA Drops ==
  ASSUME MishapType, DataType, NEW kind \in {"text", "vectors"}
  PROVE  /\ Smooth => Grows
         /\ Cleared(kind) => DataType' /\ (text' => text) /\ (vectors' => vectors)
                             /\ captions' \subseteq captions /\ kind \notin captions'
         /\ Cleared(kind) => /\ kind = "text" => ~text' /\ vectors' = vectors
                             /\ kind = "vectors" => ~vectors' /\ text' = text
         /\ Drop(kind) => /\ Grows /\ DataType' /\ captions' \subseteq captions
                          /\ text' => text /\ ("cleanup" \in mishap' \/ kind = "vectors")
                          /\ vectors' => vectors /\ ("cleanup" \in mishap' \/ kind = "text")
                          /\ kind = "text" => vectors' = vectors
                          /\ kind = "vectors" => text' = text
         /\ PartVectors => vectors' \in BOOLEAN /\ (parse.pc # "indexing" => vectors' = vectors)
<1>1. /\ Smooth => Grows
      /\ Strikes("cleanup") => Grows /\ "cleanup" \in mishap'
  BY MishapGrows DEF FaultKinds
<1>2. PartVectors => vectors' \in BOOLEAN
  BY DEF PartVectors, DataType
<1>3. PartVectors /\ parse.pc # "indexing" => vectors' = vectors
  BY DEF PartVectors, DataType
<1>4. Cleared(kind) =>
        /\ text' \in BOOLEAN /\ vectors' \in BOOLEAN
        /\ (text' => text) /\ (vectors' => vectors)
  BY DEF Cleared, DataType
<1>5. Cleared(kind) => captions' \subseteq captions /\ kind \notin captions'
  BY DEF Cleared
<1>6. Cleared(kind) => /\ kind = "text" => ~text' /\ vectors' = vectors
                       /\ kind = "vectors" => ~vectors' /\ text' = text
  BY DEF Cleared, DataType
<1>7. Cleared(kind) => DataType'
  BY <1>4, <1>5 DEF DataType
<1>8. Strikes("cleanup") /\ UNCHANGED dataVars
        => /\ Grows /\ DataType' /\ "cleanup" \in mishap'
           /\ text' = text /\ vectors' = vectors /\ captions' = captions
  BY <1>1 DEF dataVars, DataType
<1>9. ASSUME Drop(kind)
      PROVE  /\ Grows /\ DataType' /\ captions' \subseteq captions
             /\ text' => text /\ ("cleanup" \in mishap' \/ kind = "vectors")
             /\ vectors' => vectors /\ ("cleanup" \in mishap' \/ kind = "text")
             /\ kind = "text" => vectors' = vectors
             /\ kind = "vectors" => text' = text
  <2>1. CASE Cleared(kind) /\ Smooth
    BY <1>1, <1>4, <1>5, <1>6, <1>7, <2>1
  <2>2. CASE Strikes("cleanup") /\ UNCHANGED dataVars
    BY <1>8, <2>2
  <2> QED BY <1>9, <2>1, <2>2 DEF Drop
<1> QED BY <1>1, <1>2, <1>3, <1>4, <1>5, <1>6, <1>7, <1>9

\* The steps that only look.
LEMMA LooksEarly ==
  ASSUME ParseTypeOK,
         ParseLoad \/ ParseRecheck \/ ParseConvert \/ ParseCheckCleared \/ ParseFull
           \/ ParseCheckCreated \/ ParseCheckIndexed
  PROVE  EarlyStep /\ Flow
<1>a. row \in Row /\ parse \in ParseTask /\ MishapType /\ DataType
  BY TypeParts
<1>b. /\ Smooth => Grows
      /\ Strikes("quota") => Grows /\ "quota" \in mishap'
      /\ Strikes("unread") => Grows
  BY <1>a, MishapGrows DEF FaultKinds
<1>c. \A pc \in Pcs : ParseGoto(pc) => parse' \in ParseTask /\ parse'.pc = pc
  BY <1>a, Goto
<1> USE <1>a, <1>b, <1>c DEF Elsewhere, dataVars, EarlyStep, Early, RowKept, DataType,
        ParseBefore, Pcs, AtRest, ParseAfter
<1>1. CASE ParseLoad
  BY <1>1 DEF ParseLoad, Flow, TextThere, VectorsThere, TextMayBe, VectorsMayBe
<1>2. CASE ParseRecheck
  BY <1>2 DEF ParseRecheck, Check, Flow, TextThere, VectorsThere, TextMayBe, VectorsMayBe
<1>3. CASE ParseConvert
  <2>1. setup.images \subseteq Images
    BY ParseAssumption DEF ParseTypeOK
  <2>2. \A found \in SUBSET setup.images, pc \in {"done", "clearing"} :
          [parse EXCEPT !.pc = pc, !.found = found] \in ParseTask
    BY <2>1 DEF ParseTask
  <2>3. parse' \in ParseTask /\ parse'.pc \in {"done", "clearing"}
    <3>1. CASE \E found \in SUBSET setup.images :
                 parse' = [parse EXCEPT !.pc = IF Aborted THEN "done" ELSE "clearing", !.found = found]
      <4>1. PICK found \in SUBSET setup.images, pc \in {"done", "clearing"} :
              parse' = [parse EXCEPT !.pc = pc, !.found = found]
        BY <3>1
      <4>2. parse'.pc = pc
        BY <4>1 DEF ParseTask
      <4> QED BY <2>2, <4>1, <4>2
    <3>2. CASE ParseGoto("done")
      BY <3>2
    <3> QED BY <1>3, <3>1, <3>2 DEF ParseConvert
  <2> QED BY <1>3, <2>3 DEF ParseConvert, Flow, TextThere, VectorsThere, TextMayBe, VectorsMayBe
<1>4. CASE ParseCheckCleared
  BY <1>4 DEF ParseCheckCleared, Check, Flow, TextThere, VectorsThere, TextMayBe, VectorsMayBe
<1>5. CASE ParseFull
  BY <1>5 DEF ParseFull, Flow, TextThere, VectorsThere, TextMayBe, VectorsMayBe, FaultKinds,
     Calm, GoneCalm
<1>6. CASE ParseCheckCreated
  BY <1>6 DEF ParseCheckCreated, Check, Aborted, Flow, TextThere, VectorsThere, TextMayBe,
     VectorsMayBe
<1>7. CASE ParseCheckIndexed
  BY <1>7 DEF ParseCheckIndexed, Check, Aborted, Flow, TextThere, VectorsThere, TextMayBe,
     VectorsMayBe
<1> QED BY <1>1, <1>2, <1>3, <1>4, <1>5, <1>6, <1>7

\* The steps that write the row.
LEMMA WritesEarly ==
  ASSUME ParseTypeOK,
         ParseMark \/ ParseRefuse \/ ParseConvertFails \/ ParseFullFails \/ ParseFinish
  PROVE  EarlyStep /\ Flow
<1>a. row \in Row /\ parse \in ParseTask /\ MishapType /\ DataType
  BY TypeParts
<1>b. /\ Smooth => Grows
      /\ Strikes("quota") => Grows /\ "quota" \in mishap'
  BY <1>a, MishapGrows DEF FaultKinds
<1>c. \A pc \in Pcs : ParseGoto(pc) => parse' \in ParseTask /\ parse'.pc = pc
  BY <1>a, Goto
<1> USE <1>a, <1>b, <1>c DEF Elsewhere, dataVars, EarlyStep, Early, RowKept, DataType,
        ParseBefore, Pcs, AtRest, ParseAfter
<1>0. /\ \A status \in {"processing", "failed"} :
           (SaveStatus(status) \/ Saved(status) \/ SaveFails) => Stores(status)
      /\ \A status : Stores(status) => Grows
  BY SaveStores, SavedStores, FailStores DEF ParseStatus, Stores
<1>1. CASE ParseMark
  BY <1>0, <1>1 DEF ParseMark, Flow, TextThere, VectorsThere, TextMayBe, VectorsMayBe
<1>2. CASE ParseRefuse
  BY <1>0, <1>2 DEF ParseRefuse, Flow, TextThere, VectorsThere, TextMayBe, VectorsMayBe
<1>3. CASE ParseConvertFails
  <2>1. parse' \in ParseTask /\ parse'.pc \in {"done", "queued"}
    BY <1>3, AgainType DEF ParseConvertFails
  <2> QED BY <1>0, <1>3, <2>1 DEF ParseConvertFails, Flow, TextThere, VectorsThere, TextMayBe,
          VectorsMayBe
<1>4. CASE ParseFullFails
  BY <1>0, <1>4 DEF ParseFullFails, Flow, TextThere, VectorsThere, TextMayBe, VectorsMayBe
<1>5. CASE ParseFinish
  BY <1>0, <1>5 DEF ParseFinish, Flow, TextThere, VectorsThere, TextMayBe, VectorsMayBe
<1> QED BY <1>1, <1>2, <1>3, <1>4, <1>5

\* The steps that write or remove chunks or vectors.
LEMMA StoresEarly ==
  ASSUME ParseTypeOK,
         ParseClearText \/ ParseClearVectors \/ ParseCreate \/ ParseDrop \/ ParseIndex
           \/ ParseUndoText \/ ParseUndoVectors
  PROVE  EarlyStep /\ Flow
<1>a. row \in Row /\ parse \in ParseTask /\ MishapType /\ DataType
  BY TypeParts
<1>b. /\ Smooth => Grows
      /\ Drop("text") => /\ Grows /\ DataType' /\ captions' \subseteq captions
                         /\ (text' => text /\ "cleanup" \in mishap') /\ vectors' = vectors
      /\ Drop("vectors") => /\ Grows /\ DataType' /\ captions' \subseteq captions
                            /\ (vectors' => vectors /\ "cleanup" \in mishap') /\ text' = text
      /\ PartVectors => vectors' \in BOOLEAN /\ (parse.pc # "indexing" => vectors' = vectors)
  BY <1>a, Drops
<1>c. \A pc \in Pcs : ParseGoto(pc) => parse' \in ParseTask /\ parse'.pc = pc
  BY <1>a, Goto
<1> USE <1>a, <1>b, <1>c DEF Elsewhere, EarlyStep, Early, RowKept, DataType,
        ParseBefore, Pcs, AtRest, ParseAfter, Flow, TextThere, VectorsThere, TextMayBe, VectorsMayBe
<1>0. \A status \in {"processing", "failed"} : SaveStatus(status) => Stores(status) /\ Grows
  BY SaveStores DEF ParseStatus, Stores
<1>1. CASE ParseClearText
  BY <1>1 DEF ParseClearText, Calm, GoneCalm
<1>2. CASE ParseClearVectors
  BY <1>2 DEF ParseClearVectors, Calm, GoneCalm
<1>3. CASE ParseCreate
  <2>1. CASE text' = TRUE /\ ParseGoto("created") /\ Smooth /\ UNCHANGED row
    BY <1>3, <2>1 DEF ParseCreate
  <2>2. CASE SaveStatus("failed") /\ ParseGoto("done") /\ UNCHANGED text
    BY <1>0, <1>3, <2>2 DEF ParseCreate
  <2> QED BY <1>3, <2>1, <2>2 DEF ParseCreate
<1>4. CASE ParseDrop
  BY <1>4 DEF ParseDrop, Calm, GoneCalm
<1>5. CASE ParseIndex
  <2>1. CASE vectors' = TRUE /\ ParseGoto("indexed") /\ Smooth /\ UNCHANGED row
    BY <1>5, <2>1 DEF ParseIndex
  <2>2. CASE SaveStatus("failed") /\ ParseGoto("undoing") /\ PartVectors
    BY <1>0, <1>5, <2>2 DEF ParseIndex
  <2> QED BY <1>5, <2>1, <2>2 DEF ParseIndex, IndexFails
<1>6. CASE ParseUndoText
  BY <1>6 DEF ParseUndoText, Calm, GoneCalm
<1>7. CASE ParseUndoVectors
  BY <1>7 DEF ParseUndoVectors, Calm, GoneCalm
<1> QED BY <1>1, <1>2, <1>3, <1>4, <1>5, <1>6, <1>7

\* The worker stops or dies before the hand-over.
LEMMA StopsEarly ==
  ASSUME ParseTypeOK, ParseInterrupted \/ (ParseCrash /\ Early)
  PROVE  EarlyStep /\ Flow
<1>a. row \in Row /\ parse \in ParseTask /\ MishapType /\ DataType
  BY TypeParts
<1>b. /\ Strikes("crash") => Grows /\ "crash" \in mishap'
      /\ \A task : Interrupted(task) => Grows /\ "interrupted" \in mishap'
      /\ PartVectors => vectors' \in BOOLEAN /\ (parse.pc # "indexing" => vectors' = vectors)
  BY <1>a, MishapGrows, Drops DEF FaultKinds
<1> USE <1>a, <1>b DEF Elsewhere, EarlyStep, RowKept, DataType
<1>1. /\ "interrupted" \in mishap' \/ "crash" \in mishap'
      /\ Early /\ Grows
  BY DEF ParseInterrupted, ParseCrash, Early, ParseBefore, ParseAfter
<1>2. ~Calm(GoneCalm)'
  BY <1>1 DEF Calm, GoneCalm
<1>3. /\ parse' \in ParseTask
      /\ parse'.pc \in {"queued", "done", "lost"} \/ (parse.pc = "finishing" /\ parse'.pc = "fanout")
  <2>1. CASE ParseInterrupted
    <3>1. CASE parse' = [parse EXCEPT !.pc = IF @ = "finishing" THEN "fanout" ELSE "done"]
      BY <3>1 DEF ParseTask, AtRest, ParseBefore
    <3>2. CASE MayRetry(parse) /\ parse' = Again(parse)
      BY <3>2, AgainType
    <3> QED BY <2>1, <3>1, <3>2 DEF ParseInterrupted
  <2>2. CASE ParseCrash
    <3>1. CASE MayRetry(parse)
      BY <2>2, <3>1, AgainType DEF ParseCrash
    <3>2. CASE ~MayRetry(parse)
      BY <2>2, <3>2 DEF ParseCrash, ParseTask, AtRest
    <3> QED BY <3>1, <3>2
  <2> QED BY <2>1, <2>2
<1>4. UNCHANGED <<row, text, captions, still, image, pending, posts, userVars>> /\ vectors' \in BOOLEAN
      /\ (parse.pc # "indexing" => vectors' = vectors)
  BY DEF ParseInterrupted, ParseCrash
<1> QED BY <1>1, <1>2, <1>3, <1>4 DEF Flow, TextThere, VectorsThere

-----------------------------------------------------------------------------
(* Every other step: what the invariants ask of it                         *)

\* The stage moves on from the hand-over, or the task is removed from its queue.
MovesOn ==
  parse'.pc = parse.pc \/ <<parse.pc, parse'.pc>> \in
    {<<"fanout", "enqueueing">>, <<"fanout", "acking">>, <<"enqueueing", "acking">>,
     <<"acking", "done">>, <<"queued", "removed">>}

\* A hand-over begins only where one may.
Hands ==
  Handed' => \/ Handed \/ parse.pc = "enqueueing"
             \/ parse.pc = "fanout" /\ parse'.pc # "fanout"

LateStep ==
  /\ Grows /\ row' \in Row /\ parse' \in ParseTask
  /\ ImageType' /\ CountType' /\ DataType' /\ UserType'
  /\ UNCHANGED still
  /\ MovesOn /\ Hands

LEMMA LateKeeps ==
  ASSUME IInv, LateStep
  PROVE  ParseTypeOK' /\ HandedInv'
<1>1. ParseTypeOK'
  BY TypeParts DEF IInv, LateStep, Grows, still, ParseTypeOK, StoreTypeOK, DataType, UserType,
     ImageType, CountType, MishapType, Known
<1>2. HandedInv'
  BY CalmBefore DEF IInv, LateStep, HandedInv, MovesOn, Hands
<1> QED BY <1>1, <1>2

\* What an image leaves behind a delete is noticed.
Spills == \A kind \in captions' \ captions : ~Swept(kind) \/ ~Calm(LateCalm)'

\* The delete does not move, and the mark is not passed over unnoticed.
Aside ==
  /\ Spills
  /\ UNCHANGED <<deleter, text, vectors>> /\ row'.live = row.live
  /\ row.live /\ row.status = "deleting"
       => row'.status = "deleting" \/ "overwritten" \in mishap'

LEMMA AsideKeeps ==
  ASSUME IInv, LateStep, Aside
  PROVE  LiveInv' /\ MarkedInv' /\ DataInv' /\ GoneInv' /\ LateInv'
<1>1. LiveInv'
  BY DEF IInv, LiveInv, Aside
<1>2. MarkedInv'
  <2> SUFFICES ASSUME Calm({"overwritten", "database"})'
               PROVE  row'.live /\ ~Untouched' => row'.status = "deleting"
    BY DEF MarkedInv
  <2>1. Calm({"overwritten", "database"}) /\ "overwritten" \notin mishap'
    BY CalmBefore DEF LateStep, Calm
  <2> QED BY <2>1 DEF IInv, MarkedInv, Aside, Untouched
<1>3. DataInv'
  <2> SUFFICES ASSUME Calm({"redeliver"})', Untouched'
               PROVE  /\ parse'.pc \in TextThere => text'
                      /\ parse'.pc \in VectorsThere => vectors'
                      /\ Handed' => text' /\ vectors'
    BY DEF DataInv
  <2>1. Calm({"redeliver"}) /\ Untouched
    BY CalmBefore DEF LateStep, Aside, Untouched
  <2>2. /\ parse.pc \in TextThere => text'
        /\ parse.pc \in VectorsThere => vectors'
        /\ Handed => text' /\ vectors'
    BY <2>1 DEF IInv, DataInv, Aside
  <2>3. /\ parse'.pc \in TextThere => parse.pc \in TextThere
        /\ parse'.pc \in VectorsThere => parse.pc \in VectorsThere
    BY DEF LateStep, MovesOn, TextThere, VectorsThere
  <2>4. Handed' => Handed \/ (parse.pc \in TextThere /\ parse.pc \in VectorsThere)
    BY DEF LateStep, Hands, TextThere, VectorsThere
  <2> QED BY <2>2, <2>3, <2>4
<1>4. GoneInv'
  <2>1. Calm(GoneCalm)' => Calm(GoneCalm)
    BY CalmBefore DEF LateStep
  <2>2. /\ parse.pc \in TextMayBe => parse'.pc \in TextMayBe
        /\ parse.pc \in VectorsMayBe => parse'.pc \in VectorsMayBe
    BY DEF LateStep, MovesOn, TextMayBe, VectorsMayBe
  <2>3. \A kind : Swept(kind)' = Swept(kind)
    BY DEF Aside, Swept
  <2> QED BY <2>1, <2>2, <2>3 DEF IInv, GoneInv, Aside
<1>5. LateInv'
  <2>1. Calm(LateCalm)' => Calm(LateCalm)
    BY CalmBefore DEF LateStep
  <2>2. \A kind : Swept(kind)' = Swept(kind)
    BY DEF Aside, Swept
  <2> QED BY <2>1, <2>2 DEF IInv, LateInv, Aside, Spills
<1> QED BY <1>1, <1>2, <1>3, <1>4, <1>5

\* What one image's step leaves of the countdown.
Onward(old, new) == (Counted(old) => Counted(new)) /\ (Delivers(new) => Delivers(old))

Quiet ==
  /\ parse'.found = parse.found /\ parse'.retried = parse.retried
  /\ parse'.pc = "enqueueing" => parse.pc = "enqueueing"
  /\ \A n \in Deliveries, i \in Images :
       /\ Onward(image[n][i], image'[n][i])
       /\ image'[n][i].pc # "none"
            => image[n][i].pc # "none"
               \/ (parse.pc = "enqueueing" /\ n = Now /\ i \in parse.found)
  /\ posts' <= posts
  /\ Fin' => Fin \/ posts > 0
  /\ pending' >= pending \/ (Delivering # {} /\ pending' >= 0)

LEMMA Finite ==
  ASSUME ParseTypeOK
  PROVE  /\ parse.found \subseteq Images
         /\ IsFiniteSet(Uncounted) /\ Cardinality(Uncounted) \in Nat
         /\ IsFiniteSet(parse.found) /\ Cardinality(parse.found) \in Nat
<1>1. parse.found \subseteq Images
  BY DEF ParseTypeOK, ParseTask
<1>2. Uncounted \subseteq Images
  BY <1>1 DEF Uncounted
<1>3. IsFiniteSet(Uncounted) /\ IsFiniteSet(parse.found)
  BY <1>1, <1>2, FS_Subset, ParseAssumption
<1> QED BY <1>1, <1>3, FS_CardinalityType

LEMMA FewerLeft ==
  ASSUME ParseTypeOK, NEW S \in SUBSET Uncounted
  PROVE  Cardinality(S) \in Nat /\ Cardinality(S) <= Cardinality(Uncounted)
BY Finite, FS_Subset, FS_CardinalityType

LEMMA QuietKeeps ==
  ASSUME IInv, LateStep, Quiet
  PROVE  HandInv'
<1> SUFFICES ASSUME Calm(HandCalm)'
             PROVE  OnlyNow' /\ Covers' /\ NotYet' /\ OneHands'
  BY DEF HandInv
<1>1. OnlyNow /\ Covers /\ NotYet /\ OneHands /\ ParseTypeOK
  BY CalmBefore DEF IInv, HandInv, LateStep
<1>2. Now' = Now /\ parse'.found = parse.found /\ Now \in Deliveries
  BY <1>1 DEF Quiet, Now, ParseTypeOK, ParseTask
<1>3. Uncounted' \subseteq Uncounted /\ Delivering' \subseteq Delivering
  <2>1. \A i \in parse.found : Onward(image[Now][i], image'[Now][i])
    BY <1>1, <1>2, Finite DEF Quiet
  <2> QED BY <1>2, <2>1 DEF Uncounted, Delivering, Onward
<1>4. OnlyNow'
  BY <1>1, <1>2 DEF OnlyNow, Quiet
<1>5. Covers'
  <2> SUFFICES ASSUME parse'.pc = "enqueueing" \/ Shown'
               PROVE  pending' >= Cardinality(Uncounted')
    BY DEF Covers
  <2>1. parse.pc = "enqueueing" \/ Shown
    BY DEF Quiet, Shown
  <2>2. /\ Cardinality(Uncounted') \in Nat /\ Cardinality(Uncounted') <= Cardinality(Uncounted)
        /\ Cardinality(Uncounted) \in Nat
    BY <1>1, <1>3, FewerLeft, Finite
  <2>3. pending >= Cardinality(Uncounted)
    BY <1>1, <2>1 DEF Covers
  <2>4. pending \in Int /\ pending' \in Int
    BY <1>1 DEF ParseTypeOK, LateStep, CountType
  <2>5. CASE pending' >= pending
    BY <2>2, <2>3, <2>4, <2>5
  <2>6. CASE Delivering # {} /\ pending' >= 0
    <3>1. Uncounted' = {}
      BY <1>1, <1>3, <2>6 DEF OneHands
    <3> QED BY <2>6, <3>1, FS_EmptySet
  <2> QED BY <2>5, <2>6 DEF Quiet
<1>6. NotYet'
  <2>1. Uncounted' # {} \/ Delivering' # {} => posts = 0 /\ ~Fin
    BY <1>1, <1>3 DEF NotYet
  <2> QED BY <1>1, <2>1 DEF NotYet, Quiet, LateStep, CountType
<1>7. OneHands'
  BY <1>1, <1>3 DEF OneHands
<1> QED BY <1>4, <1>5, <1>6, <1>7

LEMMA QuietStep ==
  ASSUME IInv, LateStep, Aside, Quiet
  PROVE  IInv' /\ Lawful
<1>1. posts \in Nat /\ posts' \in Nat
  BY TypeParts DEF IInv, LateStep, CountType
<1>2. Lawful
  BY <1>1 DEF Quiet, Lawful
<1> QED BY <1>2, LateKeeps, AsideKeeps, QuietKeeps DEF IInv

\* Out of calm the countdown promises nothing.
LEMMA StormyStep ==
  ASSUME IInv, LateStep, Aside, ~Calm(HandCalm)'
  PROVE  IInv' /\ Lawful
BY LateKeeps, AsideKeeps DEF IInv, HandInv, Lawful

-----------------------------------------------------------------------------
(* The image tasks                                                         *)

Becomes(n, i, t) == image' = [image EXCEPT ![n][i] = t]
At(task, pc) == [task EXCEPT !.pc = pc]

LEMMA ImageSet ==
  ASSUME ImageType, NEW n \in Deliveries, NEW i \in Images, NEW t \in ImageTask,
         Becomes(n, i, t)
  PROVE  /\ ImageType' /\ image'[n][i] = t
         /\ \A m \in Deliveries, j \in Images : m # n \/ j # i => image'[m][j] = image[m][j]
BY DEF ImageType, Becomes

\* A task that is there becomes t, and all else that it touches keeps its type.
ImageMove(n, i, t) ==
  /\ t \in ImageTask /\ image[n][i].pc # "none"
  /\ Becomes(n, i, t)
  /\ Grows /\ CountType' /\ captions' \subseteq {"text", "vectors"} /\ Spills
  /\ UNCHANGED ImageElsewhere

LEMMA ImageMoves ==
  ASSUME IInv, NEW n \in Deliveries, NEW i \in Images, NEW t, ImageMove(n, i, t)
  PROVE  LateStep /\ Aside
<1>1. UNCHANGED <<row, latest, setup, parse, text, vectors, canceller, deleter, sweep>>
  BY DEF ImageMove, ImageElsewhere, still, userVars
<1>2. ImageType'
  BY TypeParts, ImageSet DEF IInv, ImageMove
<1>3. Hands
  BY DEF Hands, Handed, Shown, ImageMove
<1>4. row' \in Row /\ parse' \in ParseTask /\ DataType' /\ UserType'
  BY <1>1, TypeParts DEF IInv, DataType, UserType, ImageMove
<1> QED BY <1>1, <1>2, <1>3, <1>4 DEF LateStep, Aside, MovesOn, ImageMove, still

LEMMA ImageQuiet ==
  ASSUME IInv, NEW n \in Deliveries, NEW i \in Images, NEW t, ImageMove(n, i, t),
         Onward(image[n][i], t), posts' = posts,
         pending' = pending \/ (Delivers(image[n][i]) /\ pending' = 0) \/ ~Calm(HandCalm)'
  PROVE  IInv' /\ Lawful
<1>1. LateStep /\ Aside
  BY ImageMoves
<1>2. CASE ~Calm(HandCalm)'
  BY <1>1, <1>2, StormyStep
<1>3. CASE Calm(HandCalm)'
  <2>1. UNCHANGED <<row, parse, posts>>
    BY DEF ImageMove, ImageElsewhere
  <2>2. /\ image'[n][i] = t
        /\ \A m \in Deliveries, j \in Images : m # n \/ j # i => image'[m][j] = image[m][j]
    <3>1. ImageType
      BY TypeParts DEF IInv
    <3>2. t \in ImageTask /\ Becomes(n, i, t)
      BY DEF ImageMove
    <3> QED BY <3>1, <3>2, ImageSet
  <2>3. \A m \in Deliveries, j \in Images :
          /\ Onward(image[m][j], image'[m][j])
          /\ image'[m][j].pc # "none" => image[m][j].pc # "none"
    BY <2>2 DEF Onward, ImageMove
  <2>4. Delivers(image[n][i]) => Delivering # {}
    <3>1. OnlyNow
      BY <1>1, <1>3, CalmBefore DEF IInv, HandInv, LateStep
    <3> QED BY <3>1 DEF OnlyNow, ImageMove, Delivering
  <2>5. pending' >= pending \/ (Delivering # {} /\ pending' >= 0)
    BY <1>3, <2>4, TypeParts DEF IInv, CountType
  <2>6. posts' <= posts /\ (Fin' => Fin)
    BY <2>1, TypeParts DEF IInv, CountType, Fin
  <2>7. Quiet
    BY <2>1, <2>3, <2>5, <2>6 DEF Quiet
  <2> QED BY <1>1, <2>7, QuietStep
<1> QED BY <1>2, <1>3

LEMMA ImageTypes ==
  ASSUME ParseTypeOK, NEW n \in Deliveries, NEW i \in Images
  PROVE  /\ image[n][i] \in ImageTask /\ pending \in Int /\ posts \in Nat /\ captions \subseteq {"text", "vectors"}
         /\ MishapType
         /\ \A pc \in AtRest \cup {"queued"} \cup ImageBefore \cup ImageAfter :
              /\ At(image[n][i], pc) \in ImageTask
              /\ At(image[n][i], pc).pc = pc
              /\ ImageGoto(n, i, pc) => Becomes(n, i, At(image[n][i], pc))
<1>1. image[n][i] \in ImageTask /\ pending \in Int /\ posts \in Nat /\ captions \subseteq {"text", "vectors"} /\ MishapType
  BY DEF ParseTypeOK, MishapType, Known
<1>2. ASSUME NEW pc \in AtRest \cup {"queued"} \cup ImageBefore \cup ImageAfter
      PROVE  /\ At(image[n][i], pc) \in ImageTask
             /\ At(image[n][i], pc).pc = pc
  BY <1>1 DEF ImageTask, At
<1>3. \A pc : ImageGoto(n, i, pc) => Becomes(n, i, At(image[n][i], pc))
  BY <1>1 DEF ImageGoto, ParseTypeOK, Becomes, At
<1> QED BY <1>1, <1>2, <1>3

LEMMA StillSpills ==
  ASSUME UNCHANGED captions
  PROVE  Spills
BY DEF Spills

\* Before the delete's mark there is nothing to spill over; after it "late" is noted.
LEMMA LeaveSpills ==
  ASSUME IInv, NEW kind \in {"text", "vectors"}, Leave(kind)
  PROVE  Grows /\ captions' \subseteq {"text", "vectors"} /\ Spills
<1>1. Grows
  BY TypeParts DEF IInv, Leave, MishapType, Grows, Known, Collisions
<1>2. captions' \subseteq {"text", "vectors"}
  BY TypeParts DEF IInv, Leave, DataType
<1>3. ASSUME Swept(kind), Calm(LateCalm)'
      PROVE  FALSE
  <2>1. row.live /\ row.status # "deleting"
    BY <1>3 DEF Leave, Calm, LateCalm
  <2>2. Calm({"overwritten", "database"})
    BY <1>1, <1>3, CalmBefore DEF Calm, LateCalm, GoneCalm
  <2>3. Untouched
    BY <2>1, <2>2 DEF IInv, MarkedInv
  <2> QED BY <1>3, <2>3 DEF Swept, Untouched
<1>4. captions' \ captions \subseteq {kind}
  BY DEF Leave
<1> QED BY <1>1, <1>2, <1>3, <1>4 DEF Spills

\* The steps that neither count nor hand over.
LEMMA ImageQuietSteps ==
  ASSUME IInv, NEW n \in Deliveries, NEW i \in Images,
         \/ ImageStart(n, i) \/ ImageRead(n, i) \/ ImageIndex(n, i) \/ ImageFails(n, i)
         \/ ImageDelKey(n, i)
         \/ ImageAck(n, i) \/ ImageCrash(n, i)
  PROVE  IInv' /\ Lawful
<1> DEFINE old == image[n][i]
<1>1. ParseTypeOK /\ old \in ImageTask /\ pending \in Int /\ posts \in Nat /\ captions \subseteq {"text", "vectors"}
      /\ MishapType
  BY ImageTypes DEF IInv
<1>2. ASSUME NEW pc \in {"done", "working", "indexing", "counting", "posting", "lost"}
      PROVE  /\ At(old, pc) \in ImageTask /\ At(old, pc).pc = pc
             /\ ImageGoto(n, i, pc) => Becomes(n, i, At(old, pc))
  <2>1. pc \in AtRest \cup {"queued"} \cup ImageBefore \cup ImageAfter
    BY DEF AtRest, ImageBefore, ImageAfter
  <2> QED BY <1>1, <2>1, ImageTypes
<1>3. /\ Smooth => Grows
      /\ Strikes("redis") => Grows /\ ~Calm(HandCalm)'
      /\ Strikes("crash") => Grows
      /\ Strikes("unread") => Grows
      /\ RunsAgain => Grows /\ ~Calm(HandCalm)'
      /\ \A task : Interrupted(task) => Grows /\ ~Calm(HandCalm)'
  BY <1>1, MishapGrows DEF FaultKinds, Calm, HandCalm
<1>4. MayRetry(old) => Again(old) \in ImageTask /\ Again(old).pc = "queued"
  BY <1>1, AgainType
<1> HIDE DEF old
<1> USE <1>1, <1>2, <1>3, StillSpills DEF ImageMove, Onward, Counted, Delivers, ImageAfter, CountType
<1>5. CASE ImageStart(n, i)
  <2>1. PICK pc \in {"done", "working"} : ImageGoto(n, i, pc)
    BY <1>5 DEF ImageStart
  <2>2. ImageMove(n, i, At(old, pc))
    BY <1>5, <2>1 DEF ImageStart, old
  <2> QED BY <1>5, <2>1, <2>2, ImageQuiet DEF ImageStart, old
<1>6. CASE ImageRead(n, i)
  <2>1. Grows /\ captions' \subseteq {"text", "vectors"} /\ Spills
    BY <1>6, LeaveSpills, StillSpills DEF ImageRead
  <2>2. PICK pc \in {"counting", "indexing"} : ImageGoto(n, i, pc)
    BY <1>6 DEF ImageRead
  <2>3. ImageMove(n, i, At(old, pc))
    BY <1>6, <2>1, <2>2 DEF ImageRead, old
  <2> QED BY <1>6, <2>2, <2>3, ImageQuiet DEF ImageRead, old
<1>11. CASE ImageIndex(n, i)
  <2>1. Grows /\ captions' \subseteq {"text", "vectors"} /\ Spills
    BY <1>11, LeaveSpills, StillSpills DEF ImageIndex
  <2>2. ImageMove(n, i, At(old, "counting"))
    BY <1>11, <2>1 DEF ImageIndex, old
  <2> QED BY <1>11, <2>2, ImageQuiet DEF ImageIndex, old
<1>7. CASE ImageFails(n, i)
  <2> DEFINE t == IF MayRetry(old) THEN Again(old) ELSE At(old, "counting")
  <2>1. t \in ImageTask /\ t.pc \in {"queued", "counting"}
    BY <1>4
  <2>2. Becomes(n, i, t)
    BY <1>7 DEF ImageFails, ParseTypeOK, Becomes, At, old
  <2> HIDE DEF t
  <2>3. ImageMove(n, i, t)
    BY <1>7, <2>1, <2>2 DEF ImageFails, old
  <2> QED BY <1>7, <2>1, <2>3, ImageQuiet DEF ImageFails, old
<1>8. CASE ImageDelKey(n, i)
  <2>1. ImageMove(n, i, At(old, "posting"))
    BY <1>8 DEF ImageDelKey, old
  <2>2. pending' = 0 \/ (pending' = pending /\ ~Calm(HandCalm)')
    BY <1>8 DEF ImageDelKey
  <2> QED BY <1>8, <2>1, <2>2, ImageQuiet DEF ImageDelKey, old
<1>9. CASE ImageAck(n, i)
  <2>1. ImageMove(n, i, At(old, "done"))
    BY <1>9 DEF ImageAck, old
  <2> QED BY <1>9, <2>1, ImageQuiet DEF ImageAck, old
<1>10. CASE ImageCrash(n, i)
  <2> DEFINE t == IF MayRetry(old) THEN Again(old) ELSE At(old, "lost")
  <2>1. t \in ImageTask /\ t.pc \in {"queued", "lost"}
    BY <1>4
  <2>2. Becomes(n, i, t)
    BY <1>10 DEF ImageCrash, ParseTypeOK, Becomes, At, old
  <2> HIDE DEF t
  <2>3. ImageMove(n, i, t)
    BY <1>10, <2>1, <2>2 DEF ImageCrash, ImageBefore, old
  <2>4. CASE old.pc \in ImageBefore
    BY <1>10, <2>1, <2>3, <2>4, ImageQuiet DEF ImageCrash, ImageBefore, old
  <2>5. CASE RunsAgain
    BY <2>3, <2>5, ImageMoves, StormyStep
  <2> QED BY <1>10, <2>4, <2>5 DEF ImageCrash, old
<1> QED BY <1>5, <1>6, <1>7, <1>8, <1>9, <1>10, <1>11

\* A task counts: it was among those the countdown covers, and it is the one to
\* hand over only if none is left.
LEMMA CountKeeps ==
  ASSUME IInv, NEW n \in Deliveries, NEW i \in Images, ImageCount(n, i)
  PROVE  IInv' /\ Lawful
<1> DEFINE old == image[n][i]
<1>1. ParseTypeOK /\ old \in ImageTask /\ pending \in Int /\ posts \in Nat /\ captions \subseteq {"text", "vectors"}
      /\ MishapType
  BY ImageTypes DEF IInv
<1>2. ASSUME NEW pc \in {"handing", "posting", "acking"}
      PROVE  /\ At(old, pc) \in ImageTask /\ At(old, pc).pc = pc
             /\ ImageGoto(n, i, pc) => Becomes(n, i, At(old, pc))
  <2>1. pc \in AtRest \cup {"queued"} \cup ImageBefore \cup ImageAfter
    BY DEF ImageAfter
  <2> QED BY <1>1, <2>1, ImageTypes
<1>3. /\ Smooth => Grows
      /\ Strikes("redis") => Grows /\ ~Calm(HandCalm)'
      /\ \A task : Interrupted(task) => Grows /\ ~Calm(HandCalm)'
  BY <1>1, MishapGrows DEF FaultKinds, Calm, HandCalm
<1> HIDE DEF old
<1>4. CASE ImageGoto(n, i, "posting") /\ (Strikes("redis") \/ Interrupted(old)) /\ UNCHANGED pending
  <2>1. ImageMove(n, i, At(old, "posting"))
    BY <1>1, <1>2, <1>3, <1>4 DEF ImageCount, ImageMove, CountType, Spills, old
  <2> QED BY <1>3, <1>4, <2>1, ImageMoves, StormyStep
<1>5. ASSUME NEW pc \in {"handing", "acking"}, ImageGoto(n, i, pc), pending' = pending - 1,
             pc = "handing" => pending' <= 0, Smooth
      PROVE  IInv' /\ Lawful
  <2>1. ImageMove(n, i, At(old, pc)) /\ Grows
    BY <1>1, <1>2, <1>3, <1>5 DEF ImageCount, ImageMove, CountType, Spills, old
  <2>2. LateStep /\ Aside
    BY <2>1, ImageMoves
  <2>3. UNCHANGED <<row, parse, posts>>
    BY DEF ImageCount, ImageElsewhere
  <2>4. Lawful
    BY <1>1, <2>3 DEF Lawful
  <2>5. HandInv'
    <3> SUFFICES ASSUME Calm(HandCalm)'
                 PROVE  OnlyNow' /\ Covers' /\ NotYet' /\ OneHands'
      BY DEF HandInv
    <3>1. OnlyNow /\ Covers /\ NotYet /\ OneHands
      BY <2>1, CalmBefore DEF IInv, HandInv
    <3>2. n = Now /\ i \in parse.found /\ Shown /\ i \in Uncounted
      BY <3>1 DEF OnlyNow, ImageCount, Shown, Uncounted, Counted, ImageAfter
    <3>3. ImageType /\ At(old, pc) \in ImageTask /\ Becomes(n, i, At(old, pc)) /\ At(old, pc).pc = pc
      BY <1>1, <1>2, <1>5, TypeParts
    <3>4. /\ image'[n][i].pc = pc
          /\ \A m \in Deliveries, j \in Images : m # n \/ j # i => image'[m][j] = image[m][j]
      BY <3>3, ImageSet
    <3>5. parse.found \subseteq Images /\ Now' = Now /\ parse'.found = parse.found
      BY <1>1, <2>3, Finite DEF Now
    <3>6. Uncounted' = Uncounted \ {i}
      BY <3>2, <3>4, <3>5 DEF Uncounted, Counted, ImageAfter
    <3>7. /\ Cardinality(Uncounted') = Cardinality(Uncounted) - 1
          /\ IsFiniteSet(Uncounted')
          /\ Cardinality(Uncounted) \in Nat
      BY <1>1, <3>2, <3>6, Finite, FS_RemoveElement
    <3>8. pending' >= Cardinality(Uncounted')
      BY <1>1, <1>5, <3>1, <3>2, <3>7 DEF Covers
    <3>9. Delivering = {} /\ posts' = 0 /\ ~Fin'
      BY <2>3, <3>1, <3>2 DEF OneHands, NotYet, Fin
    <3>10. Delivering' \subseteq {i}
      BY <3>2, <3>4, <3>5, <3>9 DEF Delivering
    <3>11. Uncounted' # {} => Delivering' = {}
      <4> SUFFICES ASSUME Uncounted' # {}, Delivering' # {}
                   PROVE  FALSE
        OBVIOUS
      <4>1. pc # "acking"
        BY <3>2, <3>4, <3>5, <3>10 DEF Delivering, Delivers
      <4>2. Cardinality(Uncounted') \in Nat /\ Cardinality(Uncounted') # 0
        BY <3>7, FS_EmptySet, FS_CardinalityType
      <4>3. ~(pending' <= 0)
        BY <1>1, <1>5, <3>8, <4>2
      <4> QED BY <1>5, <4>1, <4>3
    <3>12. OnlyNow'
      BY <3>1, <3>2, <3>4, <3>5 DEF OnlyNow
    <3> QED BY <3>8, <3>9, <3>10, <3>11, <3>12 DEF Covers, NotYet, OneHands
  <2> QED BY <2>2, <2>4, <2>5, LateKeeps, AsideKeeps DEF IInv
<1> QED BY <1>4, <1>5 DEF ImageCount, old

\* Post-processing is asked for: by the only task that hands over, with no image left.
LEMMA HandOverKeeps ==
  ASSUME IInv, NEW n \in Deliveries, NEW i \in Images, ImageHandOver(n, i)
  PROVE  IInv' /\ Lawful
<1> DEFINE old == image[n][i]
<1>1. ParseTypeOK /\ old \in ImageTask /\ pending \in Int /\ posts \in Nat /\ captions \subseteq {"text", "vectors"}
      /\ MishapType
  BY ImageTypes DEF IInv
<1>2. /\ At(old, "acking") \in ImageTask /\ At(old, "acking").pc = "acking"
      /\ Becomes(n, i, At(old, "acking"))
  <2>1. "acking" \in AtRest \cup {"queued"} \cup ImageBefore \cup ImageAfter
    BY DEF ImageAfter
  <2> QED BY <1>1, <2>1, ImageTypes DEF ImageHandOver
<1>3. Grows /\ posts' \in {posts, posts + 1}
  BY <1>1, MishapGrows DEF ImageHandOver, HandOver, FaultKinds
<1>4. ImageMove(n, i, At(old, "acking"))
  BY <1>1, <1>2, <1>3 DEF ImageHandOver, ImageMove, CountType, Spills
<1>5. LateStep /\ Aside
  BY <1>4, ImageMoves
<1>6. CASE ~Calm(HandCalm)'
  BY <1>5, <1>6, StormyStep
<1>7. CASE Calm(HandCalm)'
  <2>1. UNCHANGED <<row, parse, pending>>
    BY DEF ImageHandOver, ImageElsewhere
  <2>2. OnlyNow /\ Covers /\ NotYet /\ OneHands
    BY <1>3, <1>7, CalmBefore DEF IInv, HandInv
  <2>3. n = Now /\ i \in parse.found /\ Shown /\ i \in Delivering
    BY <2>2 DEF OnlyNow, ImageHandOver, Shown, Delivering, Delivers
  <2>4. Uncounted = {} /\ Delivering = {i} /\ posts = 0 /\ ~Fin
    BY <2>2, <2>3 DEF OneHands, NotYet
  <2>5. /\ image'[n][i].pc = "acking"
        /\ \A m \in Deliveries, j \in Images : m # n \/ j # i => image'[m][j] = image[m][j]
    BY <1>1, <1>2, TypeParts, ImageSet
  <2>6. parse.found \subseteq Images /\ Now' = Now /\ parse'.found = parse.found /\ Now \in Deliveries
    BY <1>1, <2>1, Finite DEF Now, ParseTypeOK, ParseTask
  <2>7. Uncounted' = {}
    BY <2>3, <2>4, <2>5, <2>6 DEF Uncounted, Counted, ImageAfter
  <2>8. Delivering' = {}
    <3>1. \A j \in parse.found \ {i} : ~Delivers(image[Now][j])
      BY <2>4 DEF Delivering
    <3> QED BY <2>3, <2>5, <2>6, <3>1 DEF Delivering, Delivers
  <2>9. pending' >= Cardinality(Uncounted')
    <3>1. pending >= 0
      BY <2>2, <2>3, <2>4, FS_EmptySet DEF Covers
    <3> QED BY <2>1, <2>7, <3>1, FS_EmptySet
  <2>10. OnlyNow'
    BY <2>2, <2>3, <2>5, <2>6 DEF OnlyNow
  <2>11. Lawful
    BY <2>4 DEF Lawful, Uncounted
  <2>12. HandInv'
    BY <2>7, <2>8, <2>9, <2>10 DEF HandInv, Covers, NotYet, OneHands
  <2> QED BY <1>5, <2>11, <2>12, LateKeeps, AsideKeeps DEF IInv
<1> QED BY <1>6, <1>7

-----------------------------------------------------------------------------
(* The parse from its hand-over on                                         *)

\* The images before anything is enqueued, and the countdown that covers them all.
LEMMA FanoutKeeps ==
  ASSUME IInv, ParseFanout
  PROVE  IInv' /\ Lawful
<1>1. /\ parse \in ParseTask /\ parse.pc = "fanout" /\ row \in Row /\ MishapType
      /\ pending \in Int /\ posts \in Nat /\ ParseTypeOK
  BY TypeParts DEF IInv, ParseFanout, CountType
<1>2. UNCHANGED <<row, latest, setup, image, text, vectors, captions, canceller, deleter, sweep>>
  BY DEF ParseFanout, still, dataVars, userVars
<1>3. Cardinality(parse.found) \in Nat
  BY <1>1, Finite
<1>4. /\ parse' \in ParseTask /\ parse'.pc \in {"enqueueing", "acking"}
      /\ parse'.found = parse.found /\ parse'.retried = parse.retried
  BY <1>1 DEF ParseFanout, ParseGoto, ParseTask, ParseAfter
<1>5. Grows /\ posts' \in Nat /\ pending' \in Int
  BY <1>1, <1>3, MishapGrows DEF ParseFanout, HandOver, Countdown, FaultKinds
<1>6. ImageType' /\ CountType' /\ DataType' /\ UserType'
  BY <1>2, <1>5, TypeParts DEF IInv, ImageType, CountType, DataType, UserType
<1>7. LateStep /\ Aside
  BY <1>1, <1>2, <1>4, <1>5, <1>6 DEF LateStep, Aside, Spills, MovesOn, Hands, still
<1>8. CASE ~Calm(HandCalm)'
  BY <1>7, <1>8, StormyStep
<1>9. CASE Calm(HandCalm)'
  <2>1. ~Handed
    <3>1. Calm({"redeliver"})
      BY <1>5, <1>9, CalmBefore DEF Calm, HandCalm
    <3> QED BY <1>1, <3>1, EarlyNotHanded DEF IInv, Early, ParseBefore
  <2>2. \A m \in Deliveries, j \in Images : image'[m][j].pc = "none"
    BY <1>2, <2>1 DEF Handed, Shown
  <2>3. parse'.found \subseteq Images /\ Now' \in Deliveries
    BY <1>1, <1>4, Finite DEF Now, ParseTask
  <2>4. Delivering' = {} /\ OnlyNow' /\ ~Shown'
    BY <2>2, <2>3 DEF Delivering, Delivers, OnlyNow, Shown
  <2>5. posts = 0 /\ ~Fin /\ ~Fin'
    BY <1>1, <1>2, <2>1 DEF Handed, Fin
  <2>6. CASE parse.found = {}
    <3>1. Uncounted' = {} /\ parse'.pc = "acking"
      BY <1>1, <1>4, <2>6 DEF Uncounted, ParseFanout, ParseGoto, ParseTask
    <3> QED BY <1>7, <2>4, <2>5, <2>6, <3>1, LateKeeps, AsideKeeps
            DEF IInv, HandInv, Covers, NotYet, OneHands, Lawful
  <2>7. CASE parse.found # {}
    <3>1. posts' = 0 /\ pending' = Cardinality(parse.found)
      <4>1. Strikes("redis") \/ Interrupted(parse) => ~Calm(HandCalm)'
        BY <1>1, MishapGrows DEF FaultKinds, Calm, HandCalm
      <4> QED BY <1>9, <2>5, <2>7, <4>1 DEF ParseFanout, Countdown
    <3>2. Uncounted' = parse.found
      BY <1>4, <2>2, <2>3 DEF Uncounted, Counted, ImageAfter
    <3>3. Lawful
      BY <2>5, <3>1 DEF Lawful
    <3>4. HandInv'
      BY <1>3, <2>4, <2>5, <3>1, <3>2 DEF HandInv, Covers, NotYet, OneHands
    <3> QED BY <1>7, <3>3, <3>4, LateKeeps, AsideKeeps DEF IInv
  <2> QED BY <2>6, <2>7
<1> QED BY <1>8, <1>9

\* A step that leaves the images alone.
LEMMA StillImages ==
  ASSUME UNCHANGED image
  PROVE  /\ Shown' = Shown
         /\ \A n \in Deliveries, i \in Images :
              /\ Onward(image[n][i], image'[n][i])
              /\ image'[n][i].pc # "none" => image[n][i].pc # "none"
BY DEF Shown, Onward, Counted, Delivers

LEMMA EnqueueKeeps ==
  ASSUME IInv, NEW i \in Images, ParseEnqueue(i)
  PROVE  IInv' /\ Lawful
<1> DEFINE old == image[Now][i]
<1>1. ParseTypeOK /\ MishapType /\ ImageType /\ Now \in Deliveries
  BY TypeParts DEF IInv, ParseTypeOK, ParseTask, Now
<1>2. old \in ImageTask /\ pending \in Int /\ posts \in Nat
  BY <1>1, ImageTypes
<1>3. Grows
  BY <1>1, MishapGrows DEF ParseEnqueue, FaultKinds
<1>4. PICK t \in ImageTask : Becomes(Now, i, t) /\ t.pc \in {"queued", "lost"}
  <2>1. \A pc \in {"queued", "lost"} :
          /\ At(old, pc) \in ImageTask /\ At(old, pc).pc = pc
          /\ image' = [image EXCEPT ![Now][i].pc = pc] => Becomes(Now, i, At(old, pc))
    BY <1>1, <1>2 DEF At, ImageTask, AtRest, Becomes, ImageType
  <2>2. PICK pc \in {"queued", "lost"} : image' = [image EXCEPT ![Now][i].pc = pc]
    BY DEF ParseEnqueue
  <2> QED BY <2>1, <2>2
<1>5. /\ ImageType' /\ image'[Now][i] = t
      /\ \A m \in Deliveries, j \in Images : m # Now \/ j # i => image'[m][j] = image[m][j]
  BY <1>1, <1>4, ImageSet
<1>6. UNCHANGED <<row, latest, setup, parse, pending, posts, text, vectors, captions, canceller, deleter, sweep>>
      /\ parse.pc = "enqueueing" /\ i \in parse.found /\ old.pc = "none"
  BY DEF ParseEnqueue, still, dataVars, userVars
<1>7. CountType' /\ DataType' /\ UserType' /\ row' \in Row /\ parse' \in ParseTask
  BY <1>6, TypeParts DEF IInv, CountType, DataType, UserType
<1>8. LateStep /\ Aside
  BY <1>3, <1>5, <1>6, <1>7 DEF LateStep, Aside, Spills, MovesOn, Hands, still
<1>9. \A n \in Deliveries, j \in Images :
        /\ Onward(image[n][j], image'[n][j])
        /\ image'[n][j].pc # "none"
             => image[n][j].pc # "none" \/ (parse.pc = "enqueueing" /\ n = Now /\ j \in parse.found)
  BY <1>4, <1>5, <1>6 DEF Onward, Counted, Delivers, ImageAfter
<1>10. posts' <= posts /\ pending' >= pending /\ (Fin' => Fin)
  BY <1>2, <1>6 DEF Fin
<1>11. Quiet
  BY <1>6, <1>9, <1>10 DEF Quiet
<1> QED BY <1>8, <1>11, QuietStep

LEMMA ParseEndKeeps ==
  ASSUME IInv, ParseEnqueued \/ ParseAck
  PROVE  IInv' /\ Lawful
<1>1. parse \in ParseTask /\ MishapType /\ pending \in Int /\ posts \in Nat
  BY TypeParts DEF IInv, CountType
<1>2. UNCHANGED <<row, latest, setup, image, pending, posts, text, vectors, captions, canceller, deleter, sweep>>
      /\ Grows
  BY <1>1, MishapGrows DEF FaultKinds, ParseEnqueued, ParseAck, still, dataVars, userVars, Elsewhere
<1>3. /\ parse' \in ParseTask /\ parse'.found = parse.found /\ parse'.retried = parse.retried
      /\ \/ parse.pc = "enqueueing" /\ parse'.pc = "acking"
         \/ parse.pc = "acking" /\ parse'.pc = "done"
  BY <1>1 DEF ParseEnqueued, ParseAck, ParseGoto, ParseTask, AtRest, ParseAfter
<1>4. ImageType' /\ CountType' /\ DataType' /\ UserType' /\ row' \in Row
  BY <1>2, TypeParts DEF IInv, ImageType, CountType, DataType, UserType
<1>5. LateStep /\ Aside
  <2>1. Hands
    BY <1>2, StillImages DEF Hands, Handed, Fin
  <2> QED BY <1>2, <1>3, <1>4, <2>1 DEF LateStep, Aside, Spills, MovesOn, still
<1>6. posts' <= posts /\ pending' >= pending /\ (Fin' => Fin)
  BY <1>1, <1>2 DEF Fin
<1>7. Quiet
  BY <1>2, <1>3, <1>6, StillImages DEF Quiet
<1> QED BY <1>5, <1>7, QuietStep

\* A worker that dies after the hand-over has begun makes the run a redelivery.
LEMMA LateCrashKeeps ==
  ASSUME IInv, ParseCrash, ~Early
  PROVE  IInv' /\ Lawful
<1>1. parse \in ParseTask /\ MishapType /\ RunsAgain /\ parse.pc \in ParseAfter
  BY TypeParts DEF IInv, ParseCrash, Early
<1>2. Grows /\ ~Calm({"redeliver"})' /\ ~Calm(HandCalm)' /\ ~Calm(GoneCalm)' /\ ~Calm(LateCalm)'
  BY <1>1, MishapGrows DEF FaultKinds, Calm, HandCalm, GoneCalm, LateCalm
<1>3. UNCHANGED <<row, latest, setup, image, pending, posts, text, vectors, captions, canceller, deleter, sweep>>
  BY <1>1, TypeParts DEF IInv, DataType, ParseCrash, Elsewhere, still, userVars, PartVectors, ParseAfter
<1>4. parse' \in ParseTask
  BY <1>1, AgainType DEF ParseCrash, ParseTask, AtRest
<1>5. ParseTypeOK'
  BY <1>2, <1>3, <1>4, TypeParts DEF IInv, Grows, ParseTypeOK, StoreTypeOK, MishapType, Known
<1>6. LiveInv' /\ HandedInv' /\ DataInv' /\ GoneInv' /\ LateInv' /\ HandInv' /\ Lawful
  BY <1>2, <1>3 DEF IInv, LiveInv, HandedInv, DataInv, GoneInv, LateInv, HandInv, Lawful
<1>7. MarkedInv'
  BY <1>2, <1>3, CalmBefore DEF IInv, MarkedInv, Untouched
<1> QED BY <1>5, <1>6, <1>7 DEF IInv

-----------------------------------------------------------------------------
(* What comes after, the sweep and the user                                *)

\* A step that leaves the tasks and the data alone.
LEMMA RowStep ==
  ASSUME IInv, Grows, row' \in Row, row'.live = row.live, posts' \in Nat, posts' <= posts,
         UserType', Fin' => Fin \/ posts > 0,
         row.live /\ row.status = "deleting"
           => row'.status = "deleting" \/ "overwritten" \in mishap',
         UNCHANGED <<still, parse, image, pending, dataVars, deleter>>
  PROVE  IInv' /\ Lawful
<1>1. UNCHANGED <<latest, setup, parse, image, pending, text, vectors, captions, deleter>>
  BY DEF still, dataVars
<1>2. ImageType' /\ CountType' /\ DataType' /\ parse' \in ParseTask /\ posts \in Nat /\ pending' >= pending
  BY <1>1, TypeParts DEF IInv, ImageType, CountType, DataType
<1>3. Hands
  BY <1>1, <1>2, StillImages DEF Hands, Handed
<1>4. LateStep /\ Aside
  BY <1>1, <1>2, <1>3 DEF LateStep, Aside, Spills, MovesOn
<1>5. Quiet
  BY <1>1, <1>2, StillImages DEF Quiet
<1> QED BY <1>4, <1>5, QuietStep

LEMMA AfterKeeps ==
  ASSUME IInv, PostProcess \/ Enriched \/ SweepLook \/ SweepWrite \/ SweepFails
           \/ CancelCheck \/ CancelWrite
  PROVE  IInv' /\ Lawful
<1>1. row \in Row /\ MishapType /\ UserType /\ posts \in Nat
  BY TypeParts DEF IInv, CountType
<1>2. Smooth => Grows
  BY <1>1, MishapGrows DEF FaultKinds
<1>3. CASE PostProcess
  <2>1. /\ row' \in Row /\ row'.live = row.live
        /\ row.live /\ row.status = "deleting" => row'.status = "deleting"
    <3>1. CASE UNCHANGED row
      BY <1>1, <3>1
    <3>2. CASE CanFinalize /\ SetFinalizing(1)
      BY <1>1, <3>2 DEF CanFinalize, SetFinalizing, Row, ParseStatus
    <3>3. CASE CanFinalize /\ SetStatus("completed")
      BY <1>1, <3>3 DEF CanFinalize, SetStatus, Write, Row, ParseStatus
    <3> QED BY <1>3, <3>1, <3>2, <3>3 DEF PostProcess
  <2>2. posts > 0 /\ posts' = posts - 1 /\ Grows
        /\ UNCHANGED <<still, parse, image, pending, dataVars, canceller, deleter, sweep>>
    BY <1>2, <1>3 DEF PostProcess, userVars
  <2>3. UserType'
    BY <1>1, <2>2 DEF UserType
  <2> QED BY <1>1, <2>1, <2>2, <2>3, RowStep
<1>4. CASE Enriched
  <2>1. /\ row' \in Row /\ row'.live = row.live /\ (Fin' => Fin)
        /\ row.live /\ row.status = "deleting" => row'.status = "deleting"
    BY <1>1, <1>4 DEF Enriched, Row, ParseStatus, Fin
  <2>2. Grows /\ UNCHANGED <<still, parse, image, pending, posts, dataVars, canceller, deleter, sweep>>
    BY <1>2, <1>4 DEF Enriched, userVars
  <2>3. UserType'
    BY <1>1, <2>2 DEF UserType
  <2> QED BY <1>1, <2>1, <2>2, <2>3, RowStep
<1>5. CASE SweepLook \/ SweepWrite \/ SweepFails
  <2>1. Grows
    BY <1>1, <1>2, <1>5, MishapGrows DEF SweepLook, SweepWrite, SweepFails, SaveFails, FaultKinds
  <2>2. /\ UNCHANGED <<still, parse, image, pending, posts, dataVars, canceller, deleter>>
        /\ sweep' \in {"idle", "stuck"}
    BY <1>5 DEF SweepLook, SweepWrite, SweepFails, SweepGoto
  <2>3. UserType'
    BY <1>1, <2>2 DEF UserType
  <2>4. /\ row' \in Row /\ row'.live = row.live /\ (Fin' => Fin)
        /\ row.live /\ row.status = "deleting" => row'.status = "deleting"
    <3>1. CASE row' = row
      BY <1>1, <3>1 DEF Fin
    <3>2. CASE Stuck /\ MarkStuckFailed
      BY <1>1, <3>2 DEF Stuck, MarkStuckFailed, Row, ParseStatus, Fin
    <3> QED BY <1>5, <3>1, <3>2 DEF SweepLook, SweepWrite, SweepFails, SaveFails
  <2> QED BY <1>1, <2>1, <2>2, <2>3, <2>4, RowStep
<1>6. CASE CancelCheck
  <2>1. row' = row /\ Grows /\ UNCHANGED <<still, parse, image, pending, posts, dataVars, deleter, sweep>>
    BY <1>2, <1>6 DEF CancelCheck
  <2>2. UserType'
    BY <1>1, <1>6, <2>1 DEF CancelCheck, UserType
  <2>3. Fin' => Fin
    BY <2>1 DEF Fin
  <2> QED BY <1>1, <2>1, <2>2, <2>3, RowStep
<1>7. CASE CancelWrite
  <2>1. /\ Grows
        /\ row.live /\ row.status = "deleting"
             => row'.status = "deleting" \/ "overwritten" \in mishap'
    <3>1. CASE SaveFails
      BY <1>1, <3>1, MishapGrows DEF SaveFails, FaultKinds
    <3>2. CASE mishap' = IF row.status = "deleting" THEN mishap \cup {"overwritten"} ELSE mishap
      BY <1>1, <3>2 DEF MishapType, Grows, Known, Collisions
    <3> QED BY <1>7, <3>1, <3>2 DEF CancelWrite
  <2>2. row' \in Row /\ row'.live = row.live /\ (Fin' => Fin)
    <3>1. CASE UNCHANGED row
      BY <1>1, <3>1 DEF Fin
    <3>2. CASE MarkCancelled
      BY <1>1, <3>2 DEF MarkCancelled, Write, Row, ParseStatus, Fin
    <3> QED BY <1>7, <3>1, <3>2 DEF CancelWrite, SaveFails
  <2>3. UNCHANGED <<still, parse, image, pending, posts, dataVars, deleter, sweep>>
    BY <1>7 DEF CancelWrite
  <2>4. UserType'
    BY <1>1, <1>7, <2>3 DEF CancelWrite, UserType
  <2> QED BY <1>1, <2>1, <2>2, <2>3, <2>4, RowStep
<1> QED BY <1>3, <1>4, <1>5, <1>6, <1>7

\* What is queued is removed, what runs goes on.
LEMMA DequeueOnly ==
  ASSUME ParseTypeOK, Dequeue
  PROVE  /\ parse' \in ParseTask /\ ImageType' /\ posts' = 0
         /\ parse'.found = parse.found /\ parse'.retried = parse.retried
         /\ parse'.pc = parse.pc \/ (parse.pc = "queued" /\ parse'.pc = "removed")
         /\ \A n \in Deliveries, i \in Images :
              /\ Onward(image[n][i], image'[n][i])
              /\ image'[n][i].pc # "none" => image[n][i].pc # "none"
<1>1. parse \in ParseTask /\ \A n \in Deliveries, i \in Images : image[n][i] \in ImageTask
  BY ImageTypes DEF ParseTypeOK
<1>2. ASSUME NEW task \in ParseTask
      PROVE  /\ Dequeued(task) \in ParseTask
             /\ Dequeued(task).found = task.found /\ Dequeued(task).retried = task.retried
             /\ Dequeued(task).pc = task.pc \/ (task.pc = "queued" /\ Dequeued(task).pc = "removed")
  <2>1. Running(task) \in BOOLEAN
    BY DEF Running
  <2>2. task.signalled \/ Running(task) \in BOOLEAN
    BY <2>1 DEF ParseTask
  <2> QED BY <2>2 DEF Dequeued, ParseTask, AtRest
<1>3. ASSUME NEW task \in ImageTask
      PROVE  /\ Dequeued(task) \in ImageTask
             /\ Dequeued(task).pc = task.pc \/ (task.pc = "queued" /\ Dequeued(task).pc = "removed")
  <2>1. Running(task) \in BOOLEAN
    BY DEF Running
  <2>2. task.signalled \/ Running(task) \in BOOLEAN
    BY <2>1 DEF ImageTask
  <2> QED BY <2>2 DEF Dequeued, ImageTask, AtRest
<1>4. \A n \in Deliveries, i \in Images : image'[n][i] = Dequeued(image[n][i])
  BY DEF Dequeue
<1>5. ImageType'
  BY <1>1, <1>3 DEF Dequeue, ImageType
<1>6. ASSUME NEW n \in Deliveries, NEW i \in Images
      PROVE  /\ Onward(image[n][i], image'[n][i])
             /\ image'[n][i].pc # "none" => image[n][i].pc # "none"
  <2>1. \/ image'[n][i].pc = image[n][i].pc
        \/ image[n][i].pc = "queued" /\ image'[n][i].pc = "removed"
    BY <1>1, <1>3, <1>4
  <2> QED BY <2>1 DEF Onward, Counted, Delivers, ImageAfter
<1> QED BY <1>1, <1>2, <1>5, <1>6 DEF Dequeue

\* What the steps of both requests have in common.
UserStep ==
  /\ \/ UNCHANGED <<parse, image, posts>>
     \/ Dequeue
  /\ Grows /\ row' \in Row /\ (Fin' => Fin)
  /\ DataType' /\ UserType'
  /\ UNCHANGED <<still, pending>>

LEMMA UserSteps ==
  ASSUME IInv, UserStep
  PROVE  LateStep /\ Quiet
<1>1. ParseTypeOK /\ posts \in Nat /\ pending \in Int /\ parse \in ParseTask /\ ImageType
  BY TypeParts DEF IInv, CountType
<1>2. /\ parse' \in ParseTask /\ ImageType' /\ posts' \in Nat /\ posts' <= posts
      /\ parse'.found = parse.found /\ parse'.retried = parse.retried
      /\ parse'.pc = parse.pc \/ (parse.pc = "queued" /\ parse'.pc = "removed")
      /\ \A n \in Deliveries, i \in Images :
           /\ Onward(image[n][i], image'[n][i])
           /\ image'[n][i].pc # "none" => image[n][i].pc # "none"
  <2>1. CASE UNCHANGED <<parse, image, posts>>
    BY <1>1, <2>1, StillImages DEF ImageType
  <2>2. CASE Dequeue
    BY <1>1, <2>2, DequeueOnly
  <2> QED BY <2>1, <2>2 DEF UserStep
<1>3. Hands
  BY <1>1, <1>2 DEF UserStep, Hands, Handed, Shown
<1>4. LateStep
  BY <1>1, <1>2, <1>3 DEF UserStep, LateStep, MovesOn, CountType
<1>5. Quiet
  BY <1>1, <1>2 DEF UserStep, Quiet
<1> QED BY <1>4, <1>5

LEMMA CancelDequeueKeeps ==
  ASSUME IInv, CancelDequeue
  PROVE  IInv' /\ Lawful
<1>1. row \in Row /\ MishapType /\ UserType /\ DataType
  BY TypeParts DEF IInv
<1>2. Grows
  BY <1>1, MishapGrows DEF CancelDequeue, FaultKinds
<1>3. UNCHANGED <<row, text, vectors, captions, deleter, sweep, still, pending>>
  BY DEF CancelDequeue, dataVars
<1>4. UserType' /\ DataType'
  BY <1>1, <1>3 DEF CancelDequeue, UserType, DataType
<1>5. UserStep
  BY <1>1, <1>2, <1>3, <1>4 DEF UserStep, CancelDequeue, Fin
<1>6. Aside
  BY <1>3 DEF Aside, Spills
<1> QED BY <1>5, <1>6, UserSteps, QuietStep

\* The delete, until it begins to clear.
LEMMA DeleteBeginKeeps ==
  ASSUME IInv, DeleteLoad \/ DeleteMark \/ DeleteDequeue
  PROVE  IInv' /\ Lawful
<1>1. row \in Row /\ MishapType /\ UserType /\ DataType /\ posts \in Nat
  BY TypeParts DEF IInv, CountType
<1>2. UNCHANGED <<text, vectors, captions, canceller, sweep, still, pending>>
  BY DEF DeleteLoad, DeleteMark, DeleteDequeue, dataVars
<1>3. Grows
  BY <1>1, MishapGrows DEF DeleteLoad, DeleteMark, DeleteDequeue, SaveFails, FaultKinds
<1>4. row.live
  BY DEF IInv, LiveInv, DeleteLoad, DeleteMark, DeleteDequeue
<1>5. /\ row' \in Row /\ row'.live /\ (Fin' => Fin)
      /\ row' = row \/ (deleter.pc = "loaded" /\ row'.status = "deleting")
      /\ DeleteMark => row'.status = "deleting" \/ "database" \in mishap'
  <2>1. CASE UNCHANGED row /\ ~DeleteMark
    BY <1>1, <1>4, <2>1 DEF Fin
  <2>2. CASE DeleteMark
    <3>1. CASE Save([status |-> "deleting", summary |-> row.summary])
      BY <1>1, <1>4, <2>2, <3>1 DEF DeleteMark, Save, Write, Row, ParseStatus, Fin
    <3>2. CASE SaveFails
      BY <1>1, <1>4, <3>2, MishapGrows DEF SaveFails, FaultKinds, Fin
    <3> QED BY <2>2, <3>1, <3>2 DEF DeleteMark
  <2> QED BY <2>1, <2>2 DEF DeleteLoad, DeleteDequeue
<1>6. /\ UserType'
      /\ \/ DeleteLoad /\ Untouched /\ deleter'.pc = "loaded"
         \/ DeleteMark /\ deleter'.pc = "marked"
         \/ DeleteDequeue /\ ~Untouched /\ deleter'.pc = "clearing"
              /\ deleter'.left = DataKinds
  <2>1. CASE DeleteLoad
    <3>1. (row.status \in {"pending", "processing"}) \in BOOLEAN
      OBVIOUS
    <3> QED BY <1>1, <1>2, <2>1, <3>1 DEF DeleteLoad, UserType, Untouched
  <2>2. CASE DeleteMark
    BY <1>1, <1>2, <2>2 DEF DeleteMark, UserType
  <2>3. CASE DeleteDequeue
    BY <1>1, <1>2, <2>3 DEF DeleteDequeue, UserType, Untouched
  <2> QED BY <2>1, <2>2, <2>3
<1>7. DataType'
  BY <1>1, <1>2 DEF DataType
<1>8. UserStep
  BY <1>1, <1>2, <1>3, <1>5, <1>6, <1>7 DEF UserStep, DeleteLoad, DeleteMark, DeleteDequeue
<1>9. LateStep /\ Quiet
  BY <1>8, UserSteps
<1>10. LiveInv'
  BY <1>5 DEF LiveInv
<1>11. MarkedInv'
  <2> SUFFICES ASSUME Calm({"overwritten", "database"})', ~Untouched'
               PROVE  row'.status = "deleting"
    BY DEF MarkedInv
  <2>1. CASE DeleteMark
    BY <1>5, <2>1 DEF Calm
  <2>2. CASE DeleteDequeue /\ ~Untouched
    BY <1>3, <1>4, <1>5, <2>2, CalmBefore DEF IInv, MarkedInv, DeleteDequeue
  <2> QED BY <1>6, <2>1, <2>2 DEF Untouched
<1>12. DataInv'
  <2> SUFFICES ASSUME Calm({"redeliver"})', Untouched'
               PROVE  /\ parse'.pc \in TextThere => text'
                      /\ parse'.pc \in VectorsThere => vectors'
                      /\ Handed' => text' /\ vectors'
    BY DEF DataInv
  <2>1. DeleteLoad /\ Untouched
    BY <1>6 DEF Untouched
  <2>2. UNCHANGED <<row, parse, image, posts>>
    BY <2>1 DEF DeleteLoad
  <2>3. Handed' = Handed
    BY <2>2, StillImages DEF Handed, Fin
  <2> QED BY <1>2, <1>3, <2>1, <2>2, <2>3, CalmBefore DEF IInv, DataInv
<1>13. GoneInv' /\ LateInv'
  BY <1>6 DEF GoneInv, LateInv, Swept, DataKinds
<1>14. Lawful
  BY <1>1, <1>9 DEF Quiet, Lawful, LateStep, CountType
<1> QED BY <1>9, <1>10, <1>11, <1>12, <1>13, <1>14, LateKeeps, QuietKeeps DEF IInv

\* The delete clears, and drops the row unless that failed.
LEMMA DeleteEndKeeps ==
  ASSUME IInv, DeleteRow \/ \E kind \in DataKinds : DeleteData(kind)
  PROVE  IInv' /\ Lawful
<1>1. row \in Row /\ MishapType /\ UserType /\ DataType /\ posts \in Nat
  BY TypeParts DEF IInv, CountType
<1>2. UNCHANGED <<canceller, sweep, still, parse, image, pending, posts>>
  BY DEF DeleteRow, DeleteData
<1>3. row.live /\ deleter.pc = "clearing" /\ ~Untouched
  BY DEF IInv, LiveInv, DeleteRow, DeleteData, Untouched
<1>4. /\ Smooth => Grows
      /\ Strikes("cleanup") => Grows /\ "cleanup" \in mishap'
      /\ SaveFails => Grows /\ row' = row
  BY <1>1, MishapGrows DEF SaveFails, FaultKinds
\* What is cleared, and what "graph" clears: nothing here.
<1>a. ASSUME NEW kind \in DataKinds, Cleared(kind)
      PROVE  /\ DataType' /\ (text' => text) /\ (vectors' => vectors)
             /\ captions' \subseteq captions /\ kind \notin captions'
             /\ kind = "text" => ~text'
             /\ kind = "vectors" => ~vectors'
  <2>1. CASE kind \in {"text", "vectors"}
    BY <1>1, <1>a, <2>1, Drops
  <2>2. CASE kind = "graph"
    <3>1. captions' \subseteq captions /\ kind \notin captions'
      BY <1>a DEF Cleared
    <3>2. text' = text /\ vectors' = vectors
      BY <1>1, <1>a, <2>2 DEF Cleared, DataType
    <3> QED BY <1>1, <2>2, <3>1, <3>2 DEF DataType
  <2> QED BY <2>1, <2>2 DEF DataKinds
<1>5. ASSUME NEW kind \in DataKinds, DeleteData(kind)
      PROVE  /\ Grows /\ DataType' /\ UserType' /\ row' = row
             /\ deleter'.pc = "clearing" /\ deleter'.left = deleter.left \ {kind}
             /\ (text' => text) /\ (vectors' => vectors) /\ captions' \subseteq captions
             /\ \/ "cleanup" \in mishap'
                \/ /\ kind \notin captions'
                   /\ kind = "text" => ~text'
                   /\ kind = "vectors" => ~vectors'
  <2>1. CASE Cleared(kind) /\ deleter' = [deleter EXCEPT !.left = @ \ {kind}] /\ Smooth
    <3>1. UserType' /\ deleter'.pc = "clearing" /\ deleter'.left = deleter.left \ {kind}
      BY <1>1, <1>2, <1>3, <2>1 DEF UserType
    <3> QED BY <1>4, <1>5, <1>a, <2>1, <3>1 DEF DeleteData
  <2>2. CASE /\ Strikes("cleanup") /\ UNCHANGED dataVars
             /\ \E failed \in BOOLEAN :
                  deleter' = [deleter EXCEPT !.left = @ \ {kind}, !.failed = failed]
    <3>1. UserType' /\ deleter'.pc = "clearing" /\ deleter'.left = deleter.left \ {kind}
      BY <1>1, <1>2, <1>3, <2>2 DEF UserType
    <3>2. DataType' /\ UNCHANGED <<text, vectors, captions>>
      BY <1>1, <2>2 DEF DataType, dataVars
    <3> QED BY <1>4, <1>5, <2>2, <3>1, <3>2 DEF DeleteData
  <2>3. deleter.failed \in BOOLEAN
    BY <1>1 DEF UserType
  <2> QED BY <1>5, <2>1, <2>2, <2>3 DEF DeleteData
<1>6. ASSUME DeleteRow
      PROVE  /\ Grows /\ DataType' /\ UserType' /\ row' \in Row
             /\ row'.status = row.status /\ deleter'.pc = "over"
             /\ deleter.left = {} /\ UNCHANGED <<text, vectors, captions>>
  <2>1. UNCHANGED <<text, vectors, captions>> /\ Grows
    BY <1>4, <1>6 DEF DeleteRow, dataVars
  <2>2. DataType'
    BY <1>1, <2>1 DEF DataType
  <2>3. row' \in Row /\ row'.status = row.status
    <3>1. CASE row' = row
      BY <1>1, <3>1
    <3>2. CASE row' = [row EXCEPT !.live = deleter.failed]
      BY <1>1, <3>2 DEF Row, UserType
    <3> QED BY <1>4, <1>6, <3>1, <3>2 DEF DeleteRow
  <2>4. deleter'.pc = "over" /\ UserType'
    BY <1>1, <1>2, <1>6 DEF DeleteRow, UserType
  <2> QED BY <1>6, <2>1, <2>2, <2>3, <2>4 DEF DeleteRow
<1>7. /\ Grows /\ DataType' /\ UserType' /\ row' \in Row /\ row'.status = row.status
      /\ deleter'.pc \in {"clearing", "over"} /\ (row'.live \/ deleter'.pc = "over")
  BY <1>1, <1>3, <1>5, <1>6
<1>8. LateStep /\ Quiet
  <2>1. Fin' => Fin
    BY <1>3, <1>7 DEF Fin
  <2>2. UserStep
    BY <1>2, <1>7, <2>1 DEF UserStep
  <2> QED BY <2>2, UserSteps
<1>9. LiveInv' /\ DataInv'
  BY <1>7 DEF LiveInv, DataInv, Untouched
<1>10. MarkedInv'
  BY <1>3, <1>7, CalmBefore DEF IInv, MarkedInv
\* Whatever this step has passed over is no longer there.
<1>b. ASSUME NEW kind \in {"text", "vectors"}, Swept(kind)', "cleanup" \notin mishap'
      PROVE  /\ Swept(kind) \/ (kind \notin captions' /\ (kind = "text" => ~text')
                                /\ (kind = "vectors" => ~vectors'))
             /\ (text' => text) /\ (vectors' => vectors) /\ captions' \subseteq captions
  <2>1. CASE DeleteRow
    BY <1>3, <1>6, <2>1 DEF Swept
  <2>2. ASSUME NEW k \in DataKinds, DeleteData(k)
        PROVE  /\ Swept(kind) \/ (kind \notin captions' /\ (kind = "text" => ~text')
                                  /\ (kind = "vectors" => ~vectors'))
               /\ (text' => text) /\ (vectors' => vectors) /\ captions' \subseteq captions
    BY <1>3, <1>5, <1>b, <2>2 DEF Swept
  <2> QED BY <2>1, <2>2
<1>11. GoneInv'
  <2> SUFFICES ASSUME Calm(GoneCalm)'
               PROVE  /\ Swept("text")' /\ text' => parse'.pc \in TextMayBe
                      /\ Swept("vectors")' /\ vectors' => parse'.pc \in VectorsMayBe
    BY DEF GoneInv
  <2>1. /\ Swept("text") /\ text => parse'.pc \in TextMayBe
        /\ Swept("vectors") /\ vectors => parse'.pc \in VectorsMayBe
        /\ "cleanup" \notin mishap'
    BY <1>2, <1>7, CalmBefore DEF IInv, GoneInv, Calm, GoneCalm
  <2> QED BY <1>b, <2>1
<1>12. LateInv'
  <2> SUFFICES ASSUME Calm(LateCalm)', NEW kind \in {"text", "vectors"}, Swept(kind)'
               PROVE  kind \notin captions'
    BY DEF LateInv
  <2>1. Swept(kind) => kind \notin captions
    BY <1>7, CalmBefore DEF IInv, LateInv
  <2>2. "cleanup" \notin mishap'
    BY DEF Calm, LateCalm, GoneCalm
  <2> QED BY <1>b, <2>1, <2>2
<1>13. Lawful
  BY <1>1, <1>2 DEF Lawful
<1> QED BY <1>8, <1>9, <1>10, <1>11, <1>12, <1>13, LateKeeps, QuietKeeps DEF IInv

-----------------------------------------------------------------------------
(* The theorems                                                            *)

LEMMA InitEstablishes ==
  ASSUME Init
  PROVE  IInv
<1>1. 0 \in Deliveries
  BY ParseAssumption DEF Deliveries
<1>2. NoImage \in ImageTask /\ NoImage.pc = "none"
  BY <1>1 DEF NoImage, ImageTask, AtRest
<1>3. image \in [Deliveries -> [Images -> ImageTask]]
      /\ \A n \in Deliveries, i \in Images : image[n][i].pc = "none"
  BY <1>2 DEF Init
<1>4. parse \in ParseTask /\ parse.pc = "queued" /\ parse.found = {}
  BY <1>1 DEF Init, ParseTask
<1>5. StoreTypeOK
  BY MaxAttemptsAssumption DEF Init, StoreTypeOK, Row, ParseStatus, SummaryStatus
<1>6. deleter \in [pc : {"idle", "loaded", "marked", "clearing", "over"},
                   dequeues : BOOLEAN, left : SUBSET DataKinds, failed : BOOLEAN]
  BY DEF Init
<1>7. ParseTypeOK
  <2>1. pending = 0 /\ posts = 0 /\ canceller = "idle" /\ sweep = "idle" /\ mishap = {} /\ setup \in Setups
    BY DEF Init
  <2>2. text \in BOOLEAN /\ vectors \in BOOLEAN /\ captions \subseteq {"text", "vectors"}
    BY DEF Init
  <2> QED BY <1>3, <1>4, <1>5, <1>6, <2>1, <2>2 DEF ParseTypeOK
<1>8. LiveInv /\ MarkedInv /\ ~Handed
  BY <1>3 DEF Init, LiveInv, MarkedInv, Untouched, Handed, Shown, Fin
<1>9. HandedInv /\ DataInv /\ GoneInv /\ LateInv
  BY <1>4, <1>8 DEF Init, HandedInv, DataInv, GoneInv, LateInv, Swept, TextThere, VectorsThere
<1>10. HandInv
  BY <1>3, <1>4, <1>8 DEF HandInv, OnlyNow, Covers, NotYet, OneHands, Uncounted, Delivering, Handed, Shown
<1> QED BY <1>7, <1>8, <1>9, <1>10 DEF IInv

LEMMA NextKeeps ==
  ASSUME IInv, Next
  PROVE  IInv' /\ Lawful
<1>1. CASE ParseStep
  <2>1. ASSUME EarlyStep /\ Flow
        PROVE  IInv' /\ Lawful
    BY <2>1, EarlyKeeps
  <2> QED BY <1>1, <2>1, LooksEarly, WritesEarly, StoresEarly, FanoutKeeps, EnqueueKeeps, ParseEndKeeps
          DEF ParseStep, IInv
<1>2. CASE ParseInterrupted \/ ParseCrash
  BY <1>2, StopsEarly, EarlyKeeps, LateCrashKeeps DEF IInv
<1>3. ASSUME NEW n \in Deliveries, NEW i \in Images,
             ImageStep(n, i) \/ ImageFails(n, i) \/ ImageCrash(n, i)
      PROVE  IInv' /\ Lawful
  BY <1>3, ImageQuietSteps, CountKeeps, HandOverKeeps DEF ImageStep
<1>4. CASE PostProcess \/ Enriched \/ SweepLook \/ SweepWrite \/ SweepFails
           \/ CancelCheck \/ CancelStep
  BY <1>4, AfterKeeps, CancelDequeueKeeps DEF CancelStep
<1>5. CASE DeleteLoad \/ DeleteStep
  BY <1>5, DeleteBeginKeeps, DeleteEndKeeps DEF DeleteStep
<1> QED BY <1>1, <1>2, <1>3, <1>4, <1>5 DEF Next

LEMMA StutterKeeps ==
  ASSUME IInv, UNCHANGED vars
  PROVE  IInv' /\ Lawful
<1>1. /\ UNCHANGED <<row, latest, parse, image, pending, posts, text, vectors, captions>>
      /\ UNCHANGED <<canceller, deleter, sweep, mishap, setup>>
  BY DEF vars, storeVars, dataVars, userVars
<1>2. row \in Row /\ MishapType /\ UserType /\ posts \in Nat
  BY TypeParts DEF IInv, CountType
<1>3. Grows /\ UserType' /\ (Fin' => Fin)
  BY <1>1, <1>2 DEF Grows, MishapType, UserType, Fin
<1>4. UNCHANGED <<still, parse, image, pending, dataVars, deleter>>
  BY <1>1 DEF still, dataVars
<1> QED BY <1>1, <1>2, <1>3, <1>4, RowStep

\* The invariant above holds throughout.
THEOREM InvHolds == Spec => []IInv
<1>1. IInv /\ [Next]_vars => IInv'
  BY NextKeeps, StutterKeeps
<1> QED BY <1>1, InitEstablishes, PTL DEF Spec

\* Every variable keeps its type: tasks stay within their retries, the row and
\* the requests within their states (knowledge_process.go, image_multimodal.go).
THEOREM ParseTypeCorrect == Spec => []ParseTypeOK
<1>1. IInv => ParseTypeOK
  BY DEF IInv
<1> QED BY <1>1, InvHolds, PTL

\* A finalizing or completed document has its chunks and its vectors, whatever
\* ran beside the parse (processChunks, finalizeIndexedKnowledgeState).
THEOREM FinishedIndexed == Spec => []FinishedIsIndexed
<1>1. IInv => FinishedIsIndexed
  <2> SUFFICES ASSUME IInv, Fin, deleter.pc \in {"idle", "loaded", "over"},
                      Calm({"redeliver", "overwritten", "database"})
               PROVE  text /\ vectors
    BY DEF FinishedIsIndexed, Fin
  <2>1. Calm({"redeliver"}) /\ Calm({"overwritten", "database"})
    BY DEF Calm
  <2>2. Untouched
    BY <2>1 DEF IInv, MarkedInv, Fin, Untouched
  <2> QED BY <2>1, <2>2 DEF IInv, DataInv, Handed
<1> QED BY <1>1, InvHolds, PTL

\* A deleted document leaves no text chunk and no vector of its parse, wherever
\* the delete met it (processChunks' checks, DeleteKnowledge), and no chunk or
\* vector of its images unless one of their tasks wrote under the delete
\* (ImageMultimodalService.Handle, indexChunks), which is then on record.
THEOREM GoneClean == Spec => []GoneLeavesNothing
<1>1. IInv => GoneLeavesNothing
  <2> SUFFICES ASSUME IInv, ~row.live, ~AtWork(parse), Calm(GoneCalm)
               PROVE  ~text /\ ~vectors /\ (Calm({"late"}) => captions = {})
    BY DEF GoneLeavesNothing, GoneCalm
  <2>1. Swept("text") /\ Swept("vectors")
    BY DEF IInv, LiveInv, Swept
  <2>2. ~text /\ ~vectors
    BY <2>1 DEF IInv, GoneInv, TextMayBe, VectorsMayBe, AtWork, Running, ParseBefore
  <2>3. Calm({"late"}) => Calm(LateCalm)
    BY DEF Calm, LateCalm
  <2>4. captions \subseteq {"text", "vectors"}
    BY TypeParts DEF IInv, DataType
  <2> QED BY <2>1, <2>2, <2>3, <2>4 DEF IInv, LateInv
<1> QED BY <1>1, InvHolds, PTL

\* The images of a document hand over once, after the last of them has counted
\* (checkAndFinalizeAllImages and the countdown of enqueueImageMultimodalTasks).
THEOREM HandsOverAtTheEnd == Spec => HandsOverOnceAtTheEnd
<1>1. IInv /\ [Next]_vars =>
        [(posts' > posts /\ Calm({"redis", "redeliver", "interrupted"})')
          => /\ posts = 0 /\ ~(row.live /\ row.status \in {"finalizing", "completed"})
             /\ \A i \in parse.found : Counted(image[Now][i])]_vars
  BY NextKeeps, StutterKeeps DEF Lawful, HandCalm, Fin
<1> QED BY <1>1, InvHolds, PTL DEF Spec, HandsOverOnceAtTheEnd
=============================================================================
