SPECIFICATION Spec
CONSTANTS
  User = {u1, u2}
  Seat = {s1, s2}
  Call = {c1, c2}
  KeysPerUser = 1
  LockTTL = 2
  MaxSelects = 1
  MaxResets = 1
CONSTRAINT OneSeatInReset
SYMMETRY Interchangeable
INVARIANTS
  SaleTypeOK
  IndexCoversLocks
  MoneyAccounted
  BookingIsPaid
  AnswerIsTrue
PROPERTIES
  ConflictMeansLapse
  OwnLocksOnly
  ImplementsSale
CHECK_DEADLOCK FALSE
