CONSTANTS
  MaxLen = 5
  Texts <- MCTexts

SPECIFICATION Spec

INVARIANTS
  TypeOK
  TokensAreWords

CHECK_DEADLOCK FALSE
