SPECIFICATION Spec
CONSTANTS
  MaxColumns = 2
  Names = {"a", "b"}
  Urls = {"x", "y", "z"}
  WebUrls = {"x", "y", "z"}
  Blank = ""
  Layouts <- TileLayouts
  AskedPositions <- MCPositions
  MaxUsers = 1
  MaxGroups = 3
  MaxItems = 3
  MaxVisits = 0
INVARIANTS
  GroupsCompacted
  ItemsCompacted
  NoDuplicates
  MovesAgree
PROPERTIES
  OneTileJumps
  ImplementsLists
CHECK_DEADLOCK FALSE
