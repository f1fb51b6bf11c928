SPECIFICATION FairSpec
CONSTANTS
  s1 = s1 k1 = k1 t1 = t1 t2 = t2
  Loop = Loop NoSandbox = NoSandbox NoKey = NoKey
  Sandboxes = {s1}
  Keys = {k1}
  Timers = {t1, t2}
  MaxTime = 2
  Requests <- Timed1
  Faults <- AllFaults
  MaxFaults = 1
PROPERTIES Expires
CHECK_DEADLOCK FALSE
