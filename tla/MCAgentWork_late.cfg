SPECIFICATION Spec
CONSTANTS
  NumAgents = 2
  TurnAgent <- MCTurnAgent
  TurnChannel <- MCTurnChannel
  Unnamed = {3}
  Typers = {1}
  Fresh = 1
  TypingTTL = 1
  TurnsPerAgent = 2
  EndedPerAgent = 1
  AgentsKept = 1
  MaxTime = 4
  MaxInputs = 4
  MaxSeq = 1
INVARIANTS
  SaidOnEvidence
  FinishedStaysFinished
  LiveTurnIsShown
CHECK_DEADLOCK FALSE
