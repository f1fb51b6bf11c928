SPECIFICATION FairSpec
CONSTANTS
  s1 = s1 Server = Server Executor = Executor
  Sandboxes = {s1}
  Requests <- Mixed
  MaxTime = 1
  MaxRevision = 4
  Faults = {"refused", "lost", "watch", "gone", "restart"}
  MaxFaults = 1
INVARIANTS TypeOK CacheIsSnapshot CreateSettled
PROPERTIES ImplementsLife Converges
CHECK_DEADLOCK FALSE
