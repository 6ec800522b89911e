CONSTANTS
  one = one
  true = true
  zero = zero
  eight = eight
  v1 = v1
  v2 = v2
  None = None
  Empty = Empty
  Dummy = Dummy
  Hole = Hole
  Minimum = 2
  Shifts = 2
  Keys <- MCKeys
  Values <- MCValues
  Same <- MCSame
  Hash <- MCHash
SYMMETRY MCSymmetry
SPECIFICATION Spec
INVARIANTS TypeOK SlotsAndEntries WalksEnd
PROPERTIES RefinesAbstract
CHECK_DEADLOCK FALSE
