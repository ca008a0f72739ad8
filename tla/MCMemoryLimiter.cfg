\* Three keys, room for two: purges and evictions of running windows, and
\* enough calls to spend two windows and an evicted one within one Window.
SPECIFICATION Spec
SYMMETRY Symmetry
CONSTANTS
  Keys = {k1, k2, k3}
  None = None
  Max = 1
  Window = 2
  MaxBuckets = 2
  MaxTime = 4
  MaxCalls = 4
\* A behaviour ends when the clock and the calls reach their bounds.
CHECK_DEADLOCK FALSE
INVARIANTS
  MemoryBound
  RefusalIsEarned
  SlidingBudget
PROPERTIES
  RetryAfterHonoured
  EvictsSoonest
