SPECIFICATION Spec
CONSTANTS
  NumChannels = 2
  MaxTexts = 1
  MaxEvents = 1
INVARIANTS
  DetoursComeHome
  KeptByKeys
PROPERTIES
  KeysFollowTheScreen
CHECK_DEADLOCK FALSE
