SPECIFICATION Spec
CONSTANTS
  User = {u1}
  Seat = {s1}
  Call = {c1, c2}
  KeysPerUser = 1
  LockTTL = 1
  MaxSelects = 1
  MaxResets = 0
PROPERTY
  RefundSparesWinner
CHECK_DEADLOCK FALSE
