\* Two administrators rotate, revoke and create; the first key is generated.
SPECIFICATION Spec
SYMMETRY Symmetry
CONSTANTS
  Secrets = {g1, g2, g3, g4}
  Seed = NoSeed
  NoSeed = NoSeed
  None = None
  Never = Never
  Inputs <- OnlyGood
  Admins = {a1, a2}
  Replicas = {i1}
  Clients = {}
  MaxKeys = 4
  MaxTime = 1
  MaxRestarts = 0
\* The service only answers requests: with none left it stops.
CHECK_DEADLOCK FALSE
INVARIANTS
  ReplacementInPlace
