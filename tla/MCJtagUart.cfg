CONSTANTS
  BufLen = 3
  Depth = 1
  Threshold = 0
  INT_MAX = 4
  timeout = 2
  Counts = {4}
  TxBytes = 4
  RxBytes = 3
SPECIFICATION Spec
CHECK_DEADLOCK FALSE
PROPERTIES
  WritesReachHostInOrder
  ReadsAreInOrder
  CallsReturn
  BytesReachHost
