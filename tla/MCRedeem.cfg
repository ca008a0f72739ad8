\* Three requests on two processes: bursts of duplicates, two phones.
SPECIFICATION Spec
SYMMETRY Symmetry
CONSTANTS
  v1 = v1
  id1 = id1
  Vouchers = {v1}
  NoHash = NoHash
  Refs = {id1}
  NoRef = NoRef
  None = None
  MaxInt = 160
  Cents <- MCCents
  Instances = {i1, i2}
  Requests = {r1, r2, r3}
  Phones = {p1, p2}
  ValidPhones = {p1, p2}
  Gifts <- TwoNames
  Amounts <- OneAmount
  VoucherID <- MCVoucherID
  InitStock <- OneShare
  Refusals = {"VOUCHER_OUT_OF_STOCK"}
  CallFaults = {"deadline"}
  MaxGone = 0
  MaxCrashes = 0
INVARIANTS
  SingleUpstreamCall
  PaidToCaller
  BooksAreTrue
PROPERTIES
  NoReplay
