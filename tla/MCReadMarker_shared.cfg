SPECIFICATION FairSpec
CONSTANTS
    t1 = t1
    t2 = t2
    k1 = k1
    k2 = k2
    Terminals = {t1, t2}
    Contexts = {k1, k2}
    Threads = {k2}
    Horizon = 1
    MaxFaults = 1
    MaxLate = 1
    MaxWeeks = 1
    MaxSessions = 2
INVARIANTS
  TypeOK
  NothingInvented
  NoReadIsDropped
PROPERTIES
  SessionsSettle
  ImplementsRegister
CHECK_DEADLOCK FALSE
