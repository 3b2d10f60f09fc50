SPECIFICATION TimedSpec
CONSTANTS
  User = {1, 2, 3}
  MaxSessions = 1
  Batch = 1
  SessionTimeout = 2
  WaitingTimeout = 2
  ScanLimit = 1
  Skew = 1
  MaxClock = 3
  MaxPromoted = 2
  MaxResets = 1
  MaxOwed = 1
CONSTRAINT SmallAfterReset
INVARIANTS
  TimedTypeOK
  FoundUnlessOverlap
PROPERTIES
  NumberFalls
  PromotedInOrder
  SeatLastsLong
  WaiterKept
CHECK_DEADLOCK FALSE
