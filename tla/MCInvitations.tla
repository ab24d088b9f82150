----------------------------- MODULE MCInvitations -----------------------------
(* Instances of Invitations, and of TenantMembers within it, for TLC. *)
EXTENDS Invitations
=============================================================================
