SPECIFICATION Spec
CONSTANTS
  Registry <- LANGUAGES
  Table <- MCTable
  MaxFigure = 9
  SortBy = {"total", "name", "check", "build-rss", "size"}
  Rank <- MCRank
CHECK_DEADLOCK FALSE
INVARIANTS
  EveryFigureShown
  HighlightedIsLeast
  OrderMatchesShown
