CONSTANTS
  MaxLen = 3
  Texts <- MCTexts

SPECIFICATION Spec

INVARIANTS
  EndOfFileOnLastLine

CHECK_DEADLOCK FALSE
