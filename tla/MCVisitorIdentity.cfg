SPECIFICATION Spec
CONSTANTS
  r1 = r1
  r2 = r2
  Requests = {r1, r2}
  DayLength = 3
  MaxTime = 6
  MaxSessions = 3
  MaxFailures = 1
  MaxStarts = 3
SYMMETRY Interchangeable
INVARIANTS OneSaltPerDay OldSaltsGone
PROPERTIES NoSessionComesBack ActiveVisitorKeepsSession
CHECK_DEADLOCK FALSE
