CONSTANTS
  zero = zero
  forty = forty
  v1 = v1
  None = None
  Empty = Empty
  Dummy = Dummy
  Hole = Hole
  Minimum = 8
  Shifts = 2
  MaxBody = 3
  Keys <- MCKeys
  Values <- MCValues
  Same <- MCSame
  Hash <- MCHash
SPECIFICATION WalkSpec
INVARIANTS InOrderOnce CompleteUnlessMoved
CHECK_DEADLOCK FALSE
