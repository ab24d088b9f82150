---------------------------- MODULE MCTenantMembers ----------------------------
(* Instances of TenantMembers for TLC.  Users and calls are symmetric. *)
EXTENDS TenantMembers, TLC

Symmetry == Permutations(Users) \cup Permutations(Calls)
=============================================================================
