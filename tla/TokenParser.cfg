SPECIFICATION Spec
CONSTANTS
  Texts <- MCTexts
  Keywords <- MCKeywords
  RangeDigits = 2
  MAX_DIGITS_IN_INTEGER = 3
INVARIANTS
  CoordinatesAgree
  RangesExtend
  StrExprBracketed
  WindowInOrder
PROPERTIES
  LexingEnds
CHECK_DEADLOCK FALSE
