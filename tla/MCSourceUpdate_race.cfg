SPECIFICATION UpdateSpec
CONSTANTS
  MaxRemote = 3
  MaxLocal = 2
  MaxEdits = 2
  MaxRuns = 3
INVARIANTS
  UpdatedIsTheTarget
  CommittedWorkIsKept
CHECK_DEADLOCK FALSE
