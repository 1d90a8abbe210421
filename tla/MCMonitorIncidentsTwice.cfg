SPECIFICATION Spec
CONSTANTS
  Threshold = 1
  Recovery = 2
  QueueCapacity = 2
  AlertSettings = {TRUE}
  MayDelist = TRUE
  MaxIncidents = 1
  MaxStarts = 1
PROPERTIES ConfirmedIsNotRepeated
CHECK_DEADLOCK FALSE
