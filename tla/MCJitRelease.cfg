CONSTANTS
  MEMORY_SIZE = 3
  UINT16_MAX = 2
  UINT8_MAX = 1
  SIZE_T = 8
  DEFAULT_CAP = 16
  PAGE_SIZE = 64
  INT8_MAX = 127
  INT32_MAX = 2000000
  MaxLen = 3
  Sources <- MCSources

SPECIFICATION FairSpec

INVARIANT ReleasesOnlyItsPages

CHECK_DEADLOCK FALSE
