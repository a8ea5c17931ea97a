SPECIFICATION Spec
CONSTANTS
  Existing = {general}
  NewIds = {fresh}
  Me = me
  Others = {bob}
  Labels = {old, new}
  MaxWrites = 2
  MaxReads = 3
  MaxFaults = 1
  MaxElsewhere = 1
  MaxEvents = 4
INVARIANTS
  NothingWaitsInVain
  CreationAccounted
PROPERTIES
  SettledByLaterRead
CHECK_DEADLOCK FALSE
