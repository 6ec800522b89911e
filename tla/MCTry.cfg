CONSTANTS
  e1 = e1
  e2 = e2
  RuntimeError = RuntimeError
  NoExc = NoExc
  Panicked = "panicked"
  MaxNesting = 3
  Programs <- MCPlain
SPECIFICATION Spec
INVARIANTS RunsAsWritten NothingLeftBehind
PROPERTIES Ends
CHECK_DEADLOCK FALSE
