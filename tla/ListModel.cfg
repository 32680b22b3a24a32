SPECIFICATION Spec
CONSTANTS
  Ids = {"a", "b", "c", "d", "e"}
  Names = {1, 2, 3}
  Queries = {"x", "y"}
  NoQuery = NoQuery
  Folders = {"work"}
  NoFolder = NoFolder
  AnyFolder = AnyFolder
  Sources <- MCSources
INVARIANTS
  RowsAreFiltered
  RowsDistinct
  HasFavoritesExact
PROPERTIES
  SurvivorsStay
