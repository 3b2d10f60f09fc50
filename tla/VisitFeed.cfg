SPECIFICATION VisitSpec
CONSTANTS
  User = {u1, u2, u3}
  MaxVisits = 2
  MaxMessages = 2
  EventCap = 2
  FirstLoad = 1
  Poll = {p1, p2}
  MaxId = 3
  MaxResets = 1
CONSTRAINT Apart
SYMMETRY Interchangeable
INVARIANTS
  FeedTypeOK
  OneExitLine
  NothingSkipped
  NewestKept
  ShownOnce
  MissedOnlyLate
PROPERTY
  CursorRealigns
CHECK_DEADLOCK FALSE
