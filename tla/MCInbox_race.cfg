SPECIFICATION Spec
CONSTANTS
    At <- TwoSeconds
    Mine = {}
    MaxDrops = 1
    MaxFaults = 1
    MaxMoves = 2
    MaxClaims = 1
    MaxOthers = 1
    MaxEvents = 2
INVARIANTS
  NothingMissed
  PendingIsOutstanding
  OnlyShownIsUploaded
CHECK_DEADLOCK FALSE
