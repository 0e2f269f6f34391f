SPECIFICATION Spec
CONSTANTS
  g1 = g1
  g2 = g2
  g3 = g3
  a = a
  b = b
  twin = twin
  late = late
  Groups = {g1, g2, g3}
  Tiles = {a, twin}
  Slots = {s1, s2}
  None = None
  MaxActs = 2
  Kinds = {"move", "load"}
  Stocked <- OneEach
  LinkOf <- LinksOfTwo
SYMMETRY SlotsAlike
INVARIANT TruthComesBack
