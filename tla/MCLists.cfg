CONSTANTS
  low = low
  midA = midA
  midB = midB
  high = high
  w1 = w1
  Elems <- MCElems
  Rank <- MCRank
  Walks = {w1}
  MaxCalls = 2
  MaxSteps = 3
SPECIFICATION Spec
INVARIANTS NoElementTwice GrowingWalk
PROPERTIES SortAnswers
CHECK_DEADLOCK FALSE
