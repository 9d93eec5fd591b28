SPECIFICATION Spec
CONSTANTS
  Recipients = {r1, r2}
  Workers = {w1, w2}
  None = None
  MaxBatches = 3
  Limit = None
  BatchSize = 2
  MaxTries = 2
  Paced = TRUE
  ProviderErrors <- LostAnswer
  Ambiguous <- LostAnswer
  Events = {"provider error"}
  MaxEvents = 1
SYMMETRY Symmetric
INVARIANTS NoDuplicateDelivery
CHECK_DEADLOCK FALSE
