SPECIFICATION Spec
CONSTANTS
  h1 = h1
  h2 = h2
  Handlers = {h1}
  MaxSubs = 2
  MaxTwists = 0
INVARIANTS RefundedIsNotProvisioned
CHECK_DEADLOCK FALSE
