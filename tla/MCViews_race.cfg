SPECIFICATION ViewsSpec
CONSTANTS
  MaxMessage = 3
  Stored = 2
  RootOf <- ThreadOf
  Queries = {"all"}
  Found <- Matches
  PageSize = 2
  HistoryLimit = 1
  ThreadLimit = 1
  Radius = 1
  MaxAnswers = 1
  MaxAsks = 4
  MaxEvents = 1
INVARIANTS
  NothingWaitsForever
  NoHoles
  DeletedStaysGoneInView
CHECK_DEADLOCK FALSE
