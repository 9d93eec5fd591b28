SPECIFICATION Spec
CONSTANTS
  Calls = {c1, c2}
  Settings = {on, unverified}
  Unverified = {unverified}
  None = None
  LEASE = 2
  TTL = 2
  ErrorTTL = 1
  MaxClock = 5
  MaxTakes = 3
  MaxChanges = 1
SYMMETRY Symmetric
INVARIANTS TypeOK NoOverlap KnownIsRecent
PROPERTY ImplementsFencedLease
CHECK_DEADLOCK FALSE
