SPECIFICATION Spec
CONSTANTS
  User = {1, 2, 3, 4}
  MaxSessions = 2
  Batch = 2
  SessionTimeout = 2
  WaitingTimeout = 1
  ScanLimit = 1
  Skew = 1
  MaxClock = 2
  MaxPromoted = 2
  MaxOwed = 1
CONSTRAINT ShortJournal
INVARIANTS
  TypeOK
  CapacityHeld
  OnePlace
  SeenIffWaiting
  TrackedWhileBusy
  AdmitNoticeMatchesSeat
PROPERTIES
  SeatAgeFixed
  ImplementsContract
CHECK_DEADLOCK FALSE
