SPECIFICATION QueueSpec
CONSTANTS
  Instances = {i1}
  Workers = {w1, w2}
  Users = {u1}
  Requests = {r1, r2, r3}
  MaxSize = 2
  MaxPerUser = 3
  GlobalMax = 1
  RedisModes = {TRUE}
  Faults = {"stop", "cancel"}
PROPERTIES
  EverySettled
  StoppedWorkersExit
CHECK_DEADLOCK FALSE
