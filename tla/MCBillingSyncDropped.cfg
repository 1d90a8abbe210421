SPECIFICATION Spec
CONSTANTS
  h1 = h1
  h2 = h2
  Handlers = {h1}
  MaxSubs = 1
  MaxTwists = 2
INVARIANTS NoRetryWouldFix
CHECK_DEADLOCK FALSE
