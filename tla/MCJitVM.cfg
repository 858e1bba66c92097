CONSTANTS
  MEMORY_SIZE = 3
  UINT16_MAX = 2
  UINT8_MAX = 1
  SIZE_T = 8
  MaxLen = 3

SPECIFICATION MCSpec

INVARIANTS
  TypeOK
  AbiKept
  AstrayOnlyAtFerror

PROPERTY ContextOnlyAtHandler

CHECK_DEADLOCK FALSE
