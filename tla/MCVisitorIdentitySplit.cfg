SPECIFICATION Spec
CONSTANTS
  r1 = r1
  r2 = r2
  Requests = {r1}
  DayLength = 3
  MaxTime = 6
  MaxSessions = 3
  MaxFailures = 0
  MaxStarts = 1
PROPERTIES SessionsEndByIdlenessOnly
CHECK_DEADLOCK FALSE
