CONSTANTS
  W = 2
  H = 1
  HpsStarts <- EverySplit
SPECIFICATION StaticSpec
INVARIANT
  OwnNeighbourhood
