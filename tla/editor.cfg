SPECIFICATION Spec
CONSTANTS
  g1 = g1
  g2 = g2
  g3 = g3
  a = a
  b = b
  twin = twin
  late = late
  Groups = {g1, g2}
  Tiles = {a, b, twin, late}
  Slots = {s1, s2}
  None = None
  MaxActs = 2
  Kinds = {"move", "add", "delete", "deleteGroup", "load"}
  Stocked <- TwoOne
  LinkOf <- Links
SYMMETRY SlotsAlike
INVARIANTS
  TypeOK
  PageIsTrue
  KeyIsSpent
PROPERTIES
  DropsStay
