SPECIFICATION Spec
CONSTANTS
  p1 = p1 p2 = p2 s1 = s1 s2 = s2
  Unassigned = Unassigned
  Pods = {p1, p2}
  Sandboxes = {s1, s2}
  MaxReplicas = 1
  BufferMin = 0
  BufferMax = 1
  PoolMin = 0
  PoolMax = 2
  MaxRevision = 0
  Faults = {"earlyRelease"}
SYMMETRY Symmetry
INVARIANT Recorded
CHECK_DEADLOCK FALSE
