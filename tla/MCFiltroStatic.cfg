CONSTANTS
  W = 2
  H = 1
  HpsStarts <- EverySplit
SPECIFICATION StaticSpec
INVARIANTS
  OneProcessorExact
  TornAtSamePosition
