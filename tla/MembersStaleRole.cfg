SPECIFICATION MembersSafety
CONSTANTS
  Users = {u1, u2}
  OtherRoles = {role1}
  Calls = {c1, c2, c3}
INVARIANTS
  HasOwner
CHECK_DEADLOCK FALSE
