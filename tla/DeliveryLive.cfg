SPECIFICATION FairSpec
CONSTANTS
  Recipients = {r1, r2}
  Workers = {w1, w2}
  None = None
  MaxBatches = 3
  Limit = None
  BatchSize = 1
  MaxTries = 2
  Paced = TRUE
  ProviderErrors <- RefusedErrors
  Ambiguous = {}
  Events = {"provider error", "commit error", "suppression", "hold"}
  MaxEvents = 1
PROPERTIES DeliveryEnds
CHECK_DEADLOCK FALSE
