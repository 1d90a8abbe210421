SPECIFICATION Spec
CONSTANTS
  t1 = t1
  t2 = t2
  Tasks = {t1, t2}
  MaxFlushErrors = 2
  MaxEvents = 2
  MaxTurns = 3
  MaxFaults = 2
PROPERTIES RevokedIsRespected
CHECK_DEADLOCK FALSE
