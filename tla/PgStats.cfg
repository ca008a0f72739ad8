\* Three workers, two vouchers, amounts that reach the BIGINT limit.
SPECIFICATION FairSpec
CONSTANTS
  Refs = {x, y}
  NoRef = NoRef
  Cents = {2}
  Workers = {w1, w2, w3}
  None = None
  MaxCents = 3
  MaxCalls = 5
INVARIANT
  AckedIsCounted
PROPERTIES
  ImplementsStats
  EveryCallEnds
