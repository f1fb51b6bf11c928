SPECIFICATION FairSpec
CONSTANTS
  p1 = p1 p2 = p2 s1 = s1
  Unassigned = Unassigned
  Pods = {p1, p2}
  Sandboxes = {s1}
  MaxReplicas = 1
  BufferMin = 0
  BufferMax = 1
  PoolMin = 0
  PoolMax = 2
  MaxRevision = 1
  Faults = {"release"}
PROPERTIES Served PodsReturn OldPodsRetire
CHECK_DEADLOCK FALSE
