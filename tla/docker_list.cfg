SPECIFICATION Spec
CONSTANTS
  s1 = s1 k1 = k1 t1 = t1
  Loop = Loop NoSandbox = NoSandbox NoKey = NoKey
  Sandboxes = {s1}
  Keys = {k1}
  Timers = {t1}
  MaxTime = 3
  Requests <- Timed1
  Faults = {"list"}
  MaxFaults = 1
INVARIANT NoneForgotten
CHECK_DEADLOCK FALSE
