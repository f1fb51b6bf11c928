SPECIFICATION Spec
CONSTANTS
  s1 = s1 s2 = s2 k1 = k1 t1 = t1
  Loop = Loop NoSandbox = NoSandbox NoKey = NoKey
  Sandboxes = {s1, s2}
  Keys = {k1}
  Timers = {t1}
  MaxTime = 2
  Requests <- Apart
  Faults <- AllFaults
  MaxFaults = 1
SYMMETRY Symmetry
INVARIANTS TypeOK ExpiryCovered InUseMounted CountsSettle SidecarFollows DeletedIsGone
PROPERTIES ImplementsLife
CHECK_DEADLOCK FALSE
