SPECIFICATION Spec
CONSTANTS
  s1 = s1 k1 = k1 t1 = t1
  Loop = Loop NoSandbox = NoSandbox NoKey = NoKey
  Sandboxes = {s1}
  Keys = {k1}
  Timers = {t1}
  MaxTime = 2
  Requests <- Timed1
  Faults = {}
  MaxFaults = 1
PROPERTY RenewalExtends
CHECK_DEADLOCK FALSE
