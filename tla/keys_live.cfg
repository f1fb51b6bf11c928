SPECIFICATION FairSpec
CONSTANTS
  u1 = u1
  r1 = r1
  r2 = r2
  MaxKeys = 2
  Users = {u1}
  Replicas = {r1, r2}
  Quota = 1
  TTLs = {1}
  MaxTime = 2
  MaxFaults = 1
  Faults = {"call", "crash", "redisLoss"}
  UseRedis = TRUE
INVARIANTS
  TypeOK
  RejectionTrue
  QuotaBounded
  DeletionSettled
PROPERTIES
  ExpiredPurged
