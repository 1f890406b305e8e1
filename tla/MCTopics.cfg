CONSTANT MaxLen = 4
SPECIFICATION Spec
INVARIANTS
  LegalCharacters
  FrontEndsKeepApart
PROPERTY SecondPassIsIdle
CHECK_DEADLOCK FALSE
