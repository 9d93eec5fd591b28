SPECIFICATION Spec
CONSTANTS
  r1 = r1
  r2 = r2
  r3 = r3
  a1 = a1
  a2 = a2
  e1 = e1
  e2 = e2
  e3 = e3
  e4 = e4
  e5 = e5
  e6 = e6
  e7 = e7
  e8 = e8
  e9 = e9
  e10 = e10
  e11 = e11
  e12 = e12
  Nobody = Nobody
  Recipients = {r1, r2}
  Addresses = {a1}
  Webhooks = {e1, e2, e3, e4, e5, e6, e7, e8, e9, e10, e11, e12}
  EmailOf <- OneAddress
  About <- Stories
  Retries = 0
  MaxRepeats = 1
  MaxOperations = 1
CONSTRAINT OneStory
INVARIANTS TypeOK RowIsReduction StrictestReasonStands
PROPERTY ReleaseStands
CHECK_DEADLOCK FALSE
