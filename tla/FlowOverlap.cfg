SPECIFICATION SafeSpec
CONSTANTS
  User = {u1}
  MaxSessions = 1
  Worker = {w1, w2}
  Booker = {u1}
  MaxGrants = 2
INVARIANTS
  FlowTypeOK
  CleanSeatCertified
  CleanExitDecertified
CHECK_DEADLOCK FALSE
