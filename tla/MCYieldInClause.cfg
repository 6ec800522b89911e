CONSTANTS
  Gens = {g1}
  Excs = {e1}
  RuntimeError = err
  RecursionError = err
  ValueError = err
  NoExc = NoExc
  NoGen = NoGen
  Limit = 3
  YieldIn = {"clause"}
  MaxScope = 2
  MaxHandled = 6
SPECIFICATION Spec
INVARIANTS BareRaiseFindsClause
CHECK_DEADLOCK FALSE
