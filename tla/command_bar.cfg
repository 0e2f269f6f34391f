SPECIFICATION Spec
CONSTANTS
  Queries = {"a", "b"}
  Tiles <- MCTiles
  Replies <- MCReplies
  Federations = {"off", "reconnect", "active"}
  MaxFetches = 2
INVARIANTS
  RowsOpenWhatTheySay
  NothingStaleIsShown
PROPERTIES
  AnswersPushNothingDown
  SearchingEnds
