SPECIFICATION FairSpec
CONSTANTS
  e1 = e1
  e2 = e2
  e4 = e4
  Event = {e1, e2, e4}
  UnknownType = {e4}
  ChannelCapacity = 2
  MaxRows = 2
  RejectedAttempts = 3
  DedupWindow = 2
  MaxStarts = 2
INVARIANTS AtMostOnce NoSilentLoss DrainContract
PROPERTIES EveryEventSettles ImplementsLedger
CHECK_DEADLOCK FALSE
