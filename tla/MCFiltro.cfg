CONSTANTS
  W = 2
  H = 4
  HpsStarts <- EverySplit
SPECIFICATION WorkersFairSpec
INVARIANTS
  SavedImageComplete
  NoUseAfterFree
  BatchInsideHalf
PROPERTIES
  ImplementsJob
  PipelineProgress
  Terminates
