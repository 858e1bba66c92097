CONSTANTS
  MEMORY_SIZE = 3
  UINT16_MAX = 2
  UINT8_MAX = 1
  SIZE_T = 1
  DEFAULT_CAP = 4
  MaxLen = 5
  Sources <- MCSources

SPECIFICATION FairSpec

INVARIANTS
  TypeOK
  CodeTiles
  JumpsPaired
  SuccessIsRunnable
  VerdictIsFirstFault
  LoopStackSound

PROPERTY Termination

CHECK_DEADLOCK FALSE
