SPECIFICATION Spec
CONSTANTS
  NumLanes = 3
  Jobs = {j1, j2, j3}
  NULL = NULL
  MsgLens <- SomeLens
INVARIANTS
  KernelStaysInBuffers
  LanesAreSound
  TagIsHmac
PROPERTIES
  ImplementsOooMgr
  CallsReturn
  NoJobStarves
