CONSTANTS
  MaxRuns = 3
  Numbers = {1, 2}
  Bad = Bad
  MaxTokens = 3
  Percentages = {0, 50}
SPECIFICATION FairSpec
PROPERTIES
  HandshakeCompletes
  WaitNotDisturbed
  LoaderReturns
CHECK_DEADLOCK FALSE
