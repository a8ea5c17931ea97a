SPECIFICATION Spec
CONSTANTS
  Stored = 1
  MaxWrites = 2
  MaxOthers = 2
  MaxFaults = 1
  MaxReopens = 1
  MaxDeeds = 4
INVARIANTS
  NoRowTwice
  ShowsTheRelay
  SendingIsOwed
CHECK_DEADLOCK FALSE
