SPECIFICATION Spec
CONSTANTS
  DQ <- MCDQ
  DelayMax = 5
  DqsInReserve = 1
  DqsOutReserve = 1
  PhaseMax = 3
  EnDelayMax = 4
  OpaTap = 5
  EnTap = 2
  VfifoSize = 4
  Boards <- MCLatencies
  LatencyMargin = 2
  LatencyMax = 7
  OutDelayMax = 0
INVARIANT
  LatencyAboveLeast
