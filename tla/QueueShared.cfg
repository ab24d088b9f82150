SPECIFICATION QueueSpec
CONSTANTS
  Instances = {i1, i2}
  Workers = {w1}
  Users = {u1, u2}
  Requests = {r1, r2, r3}
  MaxSize = 2
  MaxPerUser = 1
  GlobalMax = 1
  RedisModes = {TRUE}
  Faults = {"timeout", "stop", "cancel", "crash"}
SYMMETRY Symmetry
INVARIANTS
  UserCountExact
  UserWithinLimit
  GateHolds
CHECK_DEADLOCK FALSE
