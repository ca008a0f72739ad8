\* Two requests at a time from two clients, with four keys.
SPECIFICATION Spec
CONSTANTS
  Slots = {q1, q2}
  Requested = {"RedeemPost", "Create", "Rotate", "Stats"}
  Clients = {c1, c2}
  Proxy = Proxy
  Row <- MCRow
  None = None
  MaxRuns = 2
  Configs <- MCConfigs
SYMMETRY Symmetry
\* A process that refuses its configuration exits.
CHECK_DEADLOCK FALSE
INVARIANTS
  ClientBudget
  TierBudget
  Entitled
PROPERTIES
  RefusedForOwnTraffic
