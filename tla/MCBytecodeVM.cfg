CONSTANTS
  MEMORY_SIZE = 3
  UINT16_MAX = 2
  UINT8_MAX = 2
  SIZE_T = 1
  MaxLen = 4

SPECIFICATION MCSpec

INVARIANTS
  TypeOK
  IpAtInstruction
  StopsAtCulprit

PROPERTY FailureIsClean

CHECK_DEADLOCK FALSE
