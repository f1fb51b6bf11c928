SPECIFICATION Spec
CONSTANTS
  Requests <- OneOfEach
  Runtimes = {"docker", "kubernetes"}
  Timeouts = {2}
  MaxTime = 3
  MaxCreate = 1
  MaxUnusual = 0
  Segments = {"", ".", "..", "..b", "a", "ab"}
  LastTimeout = 3
PROPERTY TimeoutWithoutReport
CHECK_DEADLOCK FALSE
