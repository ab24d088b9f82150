-------------------------------- MODULE MCQAQueue --------------------------------
(* Instances of QAQueue for TLC.  Requests, workers, users and replicas are
   symmetric. *)
EXTENDS QAQueue, TLC

Symmetry ==
  Permutations(Requests) \cup Permutations(Workers)
    \cup Permutations(Users) \cup Permutations(Instances)
=============================================================================
