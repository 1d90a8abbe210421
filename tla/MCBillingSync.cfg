SPECIFICATION Spec
CONSTANTS
  h1 = h1
  h2 = h2
  Handlers = {h1, h2}
  MaxSubs = 2
  MaxTwists = 2
SYMMETRY Interchangeable
INVARIANTS TypeOK EntitlementFollowsStripe RetentionFollowsTier OneLiveSubscription
CHECK_DEADLOCK FALSE
