CONSTANTS
  Gens = {g1}
  Excs = {e1}
  RuntimeError = err
  RecursionError = err
  ValueError = err
  NoExc = NoExc
  NoGen = NoGen
  Limit = 3
  YieldIn = {}
  MaxScope = 2
  MaxHandled = 6
SPECIFICATION Spec
INVARIANTS TypeOK HandledIsOpenClauses HandlersFollowScope RunningIsOnStack DepthIsFrames
PROPERTIES ExceptionsArrive
CHECK_DEADLOCK FALSE
