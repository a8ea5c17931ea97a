SPECIFICATION Spec
CONSTANTS
  Tabs = {t1, t2}
  Cookie = cookie
  Channels = {c1, c2}
  MaxRequests = 3
  MaxSwitches = 1
  MaxLive = 1
SYMMETRY WebSymmetry
INVARIANTS
  AwaitedIsUnderWay
  SwitchesAreOrderly
  MarkedWasShown
CHECK_DEADLOCK FALSE
