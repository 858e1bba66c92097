CONSTANTS
  MEMORY_SIZE = 3
  UINT16_MAX = 2
  UINT8_MAX = 1
  SIZE_T = 1
  DEFAULT_CAP = 6
  MaxLen = 5
  Sources <- MCSources

SPECIFICATION FairSpec

INVARIANTS
  ResourcesBalanced
  ExitStatusTruthful

PROPERTIES
  ImplementsLanguage
  HangsOnlyInLoops

CHECK_DEADLOCK FALSE
