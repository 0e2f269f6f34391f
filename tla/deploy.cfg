SPECIFICATION Spec
CONSTANTS
  old = old
  new = new
  Containers = {old, new}
  Files <- Images
  Requests = {r1, r2}
  NoOne = NoOne
  Grace = 2
  MaxFaults = 2
CHECK_DEADLOCK FALSE
INVARIANTS
  LedgerIsTrue
  ServesItsSchema
PROPERTIES
  ImplementsSchema
  ComesUp
  LetFinish
  RequestsEnd
