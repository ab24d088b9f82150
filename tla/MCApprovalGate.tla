------------------------------ MODULE MCApprovalGate ------------------------------
(* Instances of ApprovalGate for TLC.  The Resolve calls are symmetric. *)
EXTENDS ApprovalGate, TLC

Symmetry == Permutations(Calls)
=============================================================================
