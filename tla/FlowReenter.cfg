SPECIFICATION SafeSpec
CONSTANTS
  User = {u1}
  MaxSessions = 1
  Worker = {w1, w2}
  Booker = {}
  MaxGrants = 2
INVARIANT
  EverySeatCertified
CHECK_DEADLOCK FALSE
