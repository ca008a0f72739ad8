\* Two replicas, each started at most twice, two migrations, one request.
SPECIFICATION FairSpec
CONSTANTS
  Replicas = {r1, r2}
  Requests = {q1}
  None = None
  Versions = 2
  MaxStarts = 2
\* The deployment may stop for good.
CHECK_DEADLOCK FALSE
INVARIANTS
  TypeOK
  OnceInOrder
  ServesMigrated
PROPERTIES
  OrderlyExit
  GetsThrough
