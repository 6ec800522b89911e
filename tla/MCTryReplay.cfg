CONSTANTS
  e1 = e1
  e2 = e2
  RuntimeError = RuntimeError
  NoExc = NoExc
  Panicked = "panicked"
  MaxNesting = 2
  Programs <- MCReplaying
SPECIFICATION Spec
INVARIANTS RunsAsWritten
CHECK_DEADLOCK FALSE
