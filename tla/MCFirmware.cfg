SPECIFICATION FairSpec
CONSTANTS
  LAST_7SEG = 1
  Size = 2
  MaxPresses = 3
  MaxCount = 3
INVARIANTS
  OneKey
  AtMostOncePerPress
  ShownNumberSelected
  TimerStopsAtTotal
PROPERTIES
  PressesServed
  AutomaticDecrypts
