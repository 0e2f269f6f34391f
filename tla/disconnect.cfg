SPECIFICATION HSpec
CONSTANTS
  t1 = t1
  t2 = t2
  Tabs = {t1, t2}
  NoTab = NoTab
  Requests = {r1, r2}
  Visited <- TwoSettings
  MaxGrants = 2
PROPERTIES
  DisconnectedStays
