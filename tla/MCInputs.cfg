\* Every kind of gift; every amount around the boundary at 357 cents.
SPECIFICATION Spec
CONSTANTS
  Vouchers = {v1, v2}
  NoHash = NoHash
  MaxInt = 357
INVARIANTS
  ChecksAgree
  ParsedExactly
