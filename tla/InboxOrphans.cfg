SPECIFICATION FairSpec
CONSTANTS
  r1 = r1
  r2 = r2
  r3 = r3
  a1 = a1
  a2 = a2
  e1 = e1
  e2 = e2
  e3 = e3
  e4 = e4
  e5 = e5
  e6 = e6
  e7 = e7
  e8 = e8
  e9 = e9
  e10 = e10
  e11 = e11
  e12 = e12
  Nobody = Nobody
  Recipients = {r1, r2, r3}
  Addresses = {a1, a2}
  Webhooks = {e1, e2, e3}
  EmailOf <- TwoAddresses
  About <- Orphans
  Retries = 2
  MaxRepeats = 2
  MaxOperations = 0
PROPERTIES EveryEventSettles LateLinkIsEnough
CHECK_DEADLOCK FALSE
