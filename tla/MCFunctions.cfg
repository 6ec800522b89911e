CONSTANTS
  WordMax = 3
  ExponentMax = 3
  MaxBits = 8
  HashBits = 5
  DigitBits = 2
  Nesting = 3
SPECIFICATION Spec
INVARIANTS IntsAreNumbers RangeCounts MapKeepsStep BindsAsWritten EvaluatesInOrder NamesFound LaidOut ComparesAsMeant ItemsAsMeant RefusesWhatIsWrong ReadsTheGrammar PathsAsMeant TextsAsMeant
CHECK_DEADLOCK FALSE
