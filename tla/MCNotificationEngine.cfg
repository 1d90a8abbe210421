SPECIFICATION EngineSpec
CONSTANTS
  Keys = {k1, k2}
  Integrations = {i1, i2}
  MaxRetries = 2
  HistoryCapacity = 1
  MaxStarts = 2
SYMMETRY Interchangeable
INVARIANTS NoLeakedClaim
PROPERTIES OncePerRun DurableIsFinal
CHECK_DEADLOCK FALSE
