SPECIFICATION FairSpec
CONSTANTS
  Nobody = Nobody
  NoJob = NoJob
  Jobs = {j1, j2}
  Workers = {w1, w2}
  MaxAttempts = 2
  LockTicks = 3
  RenewEvery = 1
  Backoff <- MCBackoff
  MaxRearms = 2
  MaxStalls = 1
  MaxCrashes = 1
INVARIANT TypeOK
PROPERTIES NoTheft ImplementsOwnership EveryJobSettles
