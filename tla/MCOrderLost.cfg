CONSTANTS
  WordMax = 3
  ExponentMax = 3
  MaxBits = 8
  HashBits = 5
  DigitBits = 2
  Nesting = 3
SPECIFICATION EveryStatement
INVARIANT EvaluatesInOrder
CHECK_DEADLOCK FALSE
