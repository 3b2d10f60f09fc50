SPECIFICATION LineSpec
CONSTANTS
  User = {u1, u2}
  MaxSessions = 1
  Worker = {w1}
  Booker = {}
  MaxGrants = 3
PROPERTIES
  LineMoves
CHECK_DEADLOCK FALSE
