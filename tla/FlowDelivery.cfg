SPECIFICATION DeliverySpec
CONSTANTS
  User = {u1}
  MaxSessions = 1
  Worker = {w1}
  Booker = {u1}
  MaxGrants = 2
PROPERTIES
  CleanSeatReached
  LostSeatClosed
CHECK_DEADLOCK FALSE
