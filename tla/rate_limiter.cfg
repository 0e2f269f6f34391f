SPECIFICATION Spec
CONSTANTS
  Addresses = {a1, a2}
  Limit = 2
  Window = 2
  MaxCount = 3
  MaxLives = 2
  Horizon = 5
SYMMETRY AddressesAlike
CHECK_DEADLOCK FALSE
INVARIANTS
  AtMostTwice
PROPERTIES
  RefusedForAReason
