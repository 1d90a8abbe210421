SPECIFICATION Spec
CONSTANTS
  h1 = h1
  h2 = h2
  Handlers = {h1, h2}
  MaxSubs = 1
  MaxTwists = 2
INVARIANTS ConcurrentSyncsAreSafe
CHECK_DEADLOCK FALSE
