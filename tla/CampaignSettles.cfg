SPECIFICATION LifecycleFairSpec
CONSTANTS
  k1 = k1
  k2 = k2
  w1 = w1
  w2 = w2
  c1 = c1
  c2 = c2
  a1 = a1
  a2 = a2
  None = None
  Keys = {k1}
  Workers = {w1, w2}
  Copies = {c1}
  Agents = {a1}
  Live = TRUE
  Audiences = {"none", "eligible"}
  MaxVersion = 2
  MaxAttempts = 2
  MaxTests = 1
  MaxRequests = 4
  MaxEvents = 1
  Events = {"listing", "asset", "sender", "audience", "lost lease", "database error", "crash"}
INVARIANT LifecycleTypeOK
PROPERTY SnapshotSettles
CHECK_DEADLOCK FALSE
