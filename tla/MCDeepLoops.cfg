CONSTANTS
  MEMORY_SIZE = 65536
  UINT16_MAX = 65535
  UINT8_MAX = 255
  SIZE_T = 8
  DEFAULT_CAP = 64
  MinDepth = 1
  MaxDepth = 15
  Sources <- DeepSources

SPECIFICATION Spec

INVARIANT WritesLandInStorage

CHECK_DEADLOCK FALSE
