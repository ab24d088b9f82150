SPECIFICATION InviteSpec
CONSTANTS
  Users = {u1, u2}
  OtherRoles = {role1}
  Calls = {c1, c2, c3}
  Requests = {c1, c2}
  Invitees = {u1}
  InvitedRoles = {role1}
  MaxRows = 2
  InviteFaults = {"crash", "database"}
INVARIANTS
  InvitationTypeOK
  WriterHoldsOwner
  OwnerKept
  VerdictStands
  AcceptedIsMember
PROPERTIES
  EveryoneAnswered
CHECK_DEADLOCK FALSE
