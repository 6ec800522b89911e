CONSTANTS
  sMain = sMain
  sA = sA
  sB = sB
  x = x
  y = y
  u1 = u1
  fa = fa
  v1 = v1
  Main = sMain
  Spaces <- MCSpaces
  Names <- MCNames
  Values <- MCValues
  Unbound = Unbound
  Panic = Panic
  Idle = Idle
  NoFile = NoFile
  NoSpace = NoSpace
  Scripts <- MCScriptTwice
  Files <- MCFiles
  Table <- MCTable
  Limit = 3
SPECIFICATION Spec
INVARIANTS TypeOK OwnTable OneHome NoHalfModule
PROPERTIES RefinesAbstract
CHECK_DEADLOCK FALSE
