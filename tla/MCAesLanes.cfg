SPECIFICATION Spec
CONSTANTS
  NumLanes = 3
  Jobs = {j1, j2, j3}
  NULL = NULL
  WORD_MAX = 79
  MsgLens <- SomeLens
INVARIANTS
  StackIsFreeLanes
  LaneIsExact
  KernelStaysInBuffers
  ReturnedJobIsWhole
PROPERTIES
  NoJobStarves
  ImplementsOooMgr
