CONSTANTS
  MaxRuns = 2
  Numbers = {1, 2}
  Bad = Bad
  MaxTokens = 3
  Percentages = {0, 50}
SPECIFICATION Spec
INVARIANT
  ConfirmedByReader
CHECK_DEADLOCK FALSE
