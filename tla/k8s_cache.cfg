SPECIFICATION Spec
CONSTANTS
  s1 = s1 Server = Server Executor = Executor
  Sandboxes = {s1}
  Requests <- Timed
  MaxTime = 1
  MaxRevision = 4
  Faults = {}
  MaxFaults = 0
INVARIANT CacheFresh
CHECK_DEADLOCK FALSE
