\* A rotation that fails.
SPECIFICATION Spec
SYMMETRY Symmetry
CONSTANTS
  Secrets = {seed, g1}
  Seed = seed
  NoSeed = NoSeed
  None = None
  Never = Never
  Inputs <- OnlyGood
  Admins = {a1}
  Replicas = {i1}
  Clients = {}
  MaxKeys = 2
  MaxTime = 1
  MaxRestarts = 0
\* The service only answers requests: with none left it stops.
CHECK_DEADLOCK FALSE
INVARIANTS
  FailedRotationKeepsOldKey
