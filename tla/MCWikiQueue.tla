------------------------------ MODULE MCWikiQueue ------------------------------
(* Instances of WikiQueue for TLC. *)
EXTENDS WikiQueue

OneDoc == {CHOOSE d \in Docs : TRUE}
OneWorker == {CHOOSE w \in Workers : TRUE}
AllWants == {"reparse", "cancel", "delete"}

\* Two documents, of which one is deleted; one with two requests; one with a
\* request and anything that can go wrong; one whose maps fail to the end.
MCSetups ==
  {[docs |-> Docs, workers |-> OneWorker, requests |-> 1, wants |-> {"delete"},
    faults |-> 0, kinds |-> {}],
   [docs |-> OneDoc, workers |-> OneWorker, requests |-> 2, wants |-> AllWants,
    faults |-> 0, kinds |-> {}],
   [docs |-> OneDoc, workers |-> Workers, requests |-> 1, wants |-> AllWants,
    faults |-> 1, kinds |-> FaultKinds],
   [docs |-> OneDoc, workers |-> Workers, requests |-> 0, wants |-> {},
    faults |-> 3, kinds |-> {"map", "crash", "config", "database"}]}
=============================================================================
