SPECIFICATION Spec
CONSTANTS
  Setups <- MCSetups
  Instances = {n1, n2}
  Syncs = {s1, s2}
  Items = {e1}
  MaxChanges = 2
  MaxRetry = 1
  Faults = {"fetch", "ingest", "enqueue", "database", "url", "crash"}
  Requests = {"pause", "resume", "delete", "manual"}
INVARIANTS
  SyncTypeOK
  NoOverlap
  
  NoDuplicates

  
CHECK_DEADLOCK FALSE
