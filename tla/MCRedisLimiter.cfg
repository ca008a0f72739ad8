\* Two keys for one bucket, one request per window of 7/3 s (a TTL of 2 s), a
\* clock of thirds of a second.
SPECIFICATION Spec
CONSTANTS
  k1 = k1
  k2 = k2
  Keys = {k1, k2}
  None = None
  Processes = {p1}
  Max = 1
  Window = 7
  Second = 3
  MaxBuckets = 1
  MaxTime = 8
  LastCall <- MCLastCall
  MaxCalls = 3
  MaxFlushes = 1
\* A behaviour ends when the clock and the admissions reach their bounds.
CHECK_DEADLOCK FALSE
INVARIANTS
  DegradedBudget
  RetryAfterHonoured
