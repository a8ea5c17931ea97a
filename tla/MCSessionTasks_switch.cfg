SPECIFICATION Spec
CONSTANTS
  Targets = {alice, bob}
  CommandCap = 1
  SubCap = 1
  FeedCap = 1
  EventCap = 1
  MaxSwitches = 1
  MaxSends = 2
  MaxInputs = 3
  MaxBatches = 1
  MaxNet = 2
SYMMETRY TargetSymmetry
INVARIANTS
  CommunitiesStayApart
  SendsInOrder
  NothingIsForgotten
CHECK_DEADLOCK FALSE
