SPECIFICATION Spec
CONSTANTS
  MaxColumns = 3
  Keys = {"1", "01", "2", "3", "7"}
  KeyNumber <- MCKeyNumber
  KeyOf <- MCKeyOf
  Names = {a, b, blank}
  BlankNames = {blank}
  Titles <- TitlesAndTag
  TaggedWords = {"<<"}
  Urls = {x, y, z}
  MaxGroups = 2
  MaxTiles = 3
  MaxEdits = 1
SYMMETRY NamesAndUrls
PROPERTIES
  ExportsImport
  RoundTrip
  TwinTitlesSurvive
  LossIsNoticed
