SPECIFICATION Spec
CONSTANTS
  Threshold = 1
  Recovery = 2
  QueueCapacity = 2
  AlertSettings = {TRUE}
  MayDelist = FALSE
  MaxIncidents = 2
  MaxStarts = 2
PROPERTIES ResolvedIsNeverReopened
CHECK_DEADLOCK FALSE
