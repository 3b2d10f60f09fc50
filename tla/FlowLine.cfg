SPECIFICATION SafeSpec
CONSTANTS
  User = {u1, u2}
  MaxSessions = 1
  Worker = {w1}
  Booker = {}
  MaxGrants = 2
INVARIANTS
  CleanSeatCertified
  CleanExitDecertified
CHECK_DEADLOCK FALSE
