\* Two replicas with a fixed seed start and restart together; requests race
\* creation, revocation, rotation and expiry.
SPECIFICATION Spec
SYMMETRY Symmetry
CONSTANTS
  Secrets = {seed, g1}
  Seed = seed
  NoSeed = NoSeed
  None = None
  Never = Never
  Inputs <- MCInputs
  Admins = {a1}
  Replicas = {i1, i2}
  Clients = {c1, c2}
  MaxKeys = 2
  MaxTime = 1
  MaxRestarts = 1
\* The service only answers requests: with none left it stops.
CHECK_DEADLOCK FALSE
INVARIANTS
  TypeOK
  RevocationIsFinal
  UsesAreCounted
  BootstrapEstablishesSeed
