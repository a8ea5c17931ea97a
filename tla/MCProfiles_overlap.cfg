SPECIFICATION Spec
CONSTANTS
  Procs = {p1, p2}
  Relays = {local, remote}
  Default = local
  Fresh = {f1, f2}
  None = None
  MaxJobs = 2
  MaxTurns = 1
  MaxFaults = 2
INVARIANTS
  FileStaysUsable
  LoggedOutIsOut
PROPERTIES
  OnlyWhatItNames
CHECK_DEADLOCK FALSE
