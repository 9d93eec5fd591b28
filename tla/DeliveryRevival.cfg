SPECIFICATION Spec
CONSTANTS
  Recipients = {r1, r2}
  Workers = {w1, w2}
  None = None
  MaxBatches = 3
  Limit = None
  BatchSize = 2
  MaxTries = 2
  Paced = TRUE
  ProviderErrors <- RefusedErrors
  Ambiguous = {}
  Events = {"command"}
  MaxEvents = 1
SYMMETRY Symmetric
PROPERTIES NeverRevived
CHECK_DEADLOCK FALSE
