SPECIFICATION QueueSpec
CONSTANTS
  Instances = {i1}
  Workers = {w1, w2}
  Users = {u1, u2}
  Requests = {r1, r2, r3}
  MaxSize = 2
  MaxPerUser = 1
  GlobalMax = 1
  RedisModes = {TRUE, FALSE}
  Faults = {"refuse", "cancel", "timeout", "crash", "stop"}
SYMMETRY Symmetry
INVARIANTS
  QueueTypeOK
  OneOwner
  LocalCountExact
CHECK_DEADLOCK FALSE
