SPECIFICATION Spec
CONSTANTS
  Recipients = {r1, r2}
  Workers = {w1, w2}
  None = None
  MaxBatches = 3
  Limit = 3
  BatchSize = 2
  MaxTries = 2
  Paced = FALSE
  ProviderErrors <- RefusedErrors
  Ambiguous = {}
  Events = {"provider error", "command", "guard", "suppression", "hold", "abort", "expiry"}
  MaxEvents = 3
SYMMETRY Symmetric
INVARIANTS TypeOK InFlightFrozen SuppressionRespected
  NoDuplicateDelivery DailyLimitHolds WakeupNotLost
PROPERTY ImplementsMailing
CHECK_DEADLOCK FALSE
