SPECIFICATION FairSpec
CONSTANTS
  Threshold = 1
  Recovery = 2
  QueueCapacity = 2
  AlertSettings = {TRUE}
  MayDelist = TRUE
  MaxIncidents = 2
  MaxStarts = 2
PROPERTIES RecoveryConfirmed ResolvedRowIsFinal DownAlertOncePerRun DownAlertEventually
CHECK_DEADLOCK FALSE
