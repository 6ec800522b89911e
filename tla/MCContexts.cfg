CONSTANTS
  e1 = e1
  e2 = e2
  err = err
  g1 = g1
  Gens = {g1}
  Excs = {e1, e2}
  RuntimeError = err
  RecursionError = err
  ValueError = err
  NoExc = NoExc
  NoGen = NoGen
  Limit = 2
  YieldIn = {}
  MaxScope = 2
  MaxHandled = 4
SPECIFICATION ContextSpec
INVARIANTS NoRing RightAnswer
PROPERTIES CutsOnlyRings
SYMMETRY Interchangeable
CHECK_DEADLOCK FALSE
