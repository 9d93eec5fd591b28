SPECIFICATION Spec
CONSTANTS
  Recipients = {r1, r2}
  Workers = {w1, w2}
  None = None
  MaxBatches = 2
  Limit = None
  BatchSize = 2
  MaxTries = 2
  Paced = FALSE
  ProviderErrors <- Losses
  Ambiguous <- LostAnswer
  Events = {"provider error", "commit error", "stats error", "lease loss", "suppression", "expiry"}
  MaxEvents = 3
SYMMETRY Symmetric
INVARIANT SingleSubmitter
CHECK_DEADLOCK FALSE
