SPECIFICATION Spec
CONSTANTS
  p1 = p1 p2 = p2 s1 = s1
  Unassigned = Unassigned
  Pods = {p1, p2}
  Sandboxes = {s1}
  MaxReplicas = 1
  BufferMin = 0
  BufferMax = 1
  PoolMin = 0
  PoolMax = 1
  MaxRevision = 0
  Faults = {"poolLag", "poolWrite", "podWrite", "podLoss", "restart",
            "resize"}
SYMMETRY Symmetry
INVARIANTS TypeOK PoolBounded
PROPERTY NoLostAllocation
CHECK_DEADLOCK FALSE
