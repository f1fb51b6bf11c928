SPECIFICATION FairSpec
CONSTANTS
  Requests <- OneOfEach
  Runtimes = {"docker", "kubernetes"}
  Timeouts = {2}
  MaxTime = 3
  MaxCreate = 1
  MaxUnusual = 1
  Segments = {"", ".", "..", "..b", "a", "ab"}
  LastTimeout = 3
INVARIANTS TypeOK AnswerSound FilesReachScanners AdmittedMounts EndpointsPublished ListingComplete
PROPERTIES JobAnswered
CHECK_DEADLOCK FALSE
