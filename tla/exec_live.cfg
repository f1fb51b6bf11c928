SPECIFICATION FairSpec
CONSTANTS
  t1 = t1
  NoName = NoName
  Names = {t1}
  MaxProcs = 2
  Codes = {"ok", "failed"}
  Faults = {"storeWrite", "slowChild", "lateStop"}
INVARIANTS Tracked
PROPERTIES DeletionCompletes TimeoutEnforced
CHECK_DEADLOCK FALSE
