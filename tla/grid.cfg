SPECIFICATION Spec
CONSTANTS
  MaxColumns = 2
  Names = {"", "a", "b", "c"}
  Urls = {"", "x", "ftp"}
  WebUrls = {"x"}
  Blank = ""
  Layouts <- GridLayouts
  AskedPositions <- MCPositions
  MaxUsers = 2
  MaxGroups = 3
  MaxItems = 1
  MaxVisits = 1
INVARIANTS
  NoGroupStranded
PROPERTIES
  OneGroupJumps
  TouchedColumnsAreNumbered
  OneOwnerPerStep
CHECK_DEADLOCK FALSE
