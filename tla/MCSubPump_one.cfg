SPECIFICATION FairSpec
CONSTANTS
    c1 = c1
    m1 = m1
    m2 = m2
    NoChannel = NoChannel
    Channels = {c1}
    Messages = {m1, m2}
    AuxChunk = 1
    Requests <- OneChannelRequests
    MaxRequests = 2
    MaxFailures = 2
    MaxRefusals = 2
INVARIANTS
  TypeOK
  RetainedIsRoutedOrTold
  FeedsAgree
PROPERTIES
  PumpEnds
  FeedsSettle
  ImplementsRegistry
CHECK_DEADLOCK FALSE
