SPECIFICATION Spec
CONSTANTS
  t1 = t1
  t2 = t2
  Tabs = {t1, t2}
  NoTab = NoTab
  Requests = {r1, r2}
  Visited <- StartAndSettings
  MaxGrants = 2
INVARIANTS
  VerdictsStayWithTheirToken
PROPERTIES
  NobodyWaitsForEver
  RejectionIsNoted
