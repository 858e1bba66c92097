CONSTANTS
  MEMORY_SIZE = 3
  UINT16_MAX = 2
  UINT8_MAX = 1
  SIZE_T = 8
  DEFAULT_CAP = 16
  PAGE_SIZE = 64
  INT8_MAX = 127
  INT32_MAX = 100
  MaxLen = 4
  Sources <- MCSources

SPECIFICATION Spec

INVARIANTS
  TypeOK
  DisplacementsRemembered
  LoopsPaired
  SuccessIsComplete
  CompleteUpToExit
  VerdictIsFirstFault
  BuffersSound

CHECK_DEADLOCK FALSE
