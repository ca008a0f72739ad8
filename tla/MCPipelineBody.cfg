\* One client redeems with one key: what is answered 400.
SPECIFICATION Spec
CONSTANTS
  Slots = {q1}
  Requested = {"RedeemPost"}
  Clients = {c1}
  Proxy = Proxy
  Row <- MCRow
  None = None
  MaxRuns = 2
  Configs <- MCConfigs
CHECK_DEADLOCK FALSE
INVARIANTS
  RejectedBodyDoesNothing
