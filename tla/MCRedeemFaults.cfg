\* Two requests on one process, under fairness: faults of the POST and of its answer,
\* a refusal, a disconnect and a crash.
SPECIFICATION FairSpec
CONSTANTS
  v1 = v1
  id1 = id1
  Vouchers = {v1}
  NoHash = NoHash
  Refs = {id1}
  NoRef = NoRef
  None = None
  MaxInt = 160
  Cents <- MCCents
  Instances = {i1}
  Requests = {r1, r2}
  Phones = {p1, bad}
  ValidPhones = {p1}
  Gifts <- MCGifts
  Amounts <- MCAmounts
  VoucherID <- MCVoucherID
  InitStock <- OneShare
  Refusals = {"OTHER"}
  CallFaults = {"request", "deadline", "read", "parse"}
  MaxGone = 1
  MaxCrashes = 1
INVARIANTS
  TypeOK
  RefusalIsFinal
  SpendReported
  BooksAreTrue
PROPERTIES
  EveryoneAnswered
