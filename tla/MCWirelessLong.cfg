SPECIFICATION Spec
CONSTANTS
  NumLanes = 2
  Jobs = {j1, j2}
  NULL = NULL
  EEA3Lens <- None
  EIA3Lens <- SomeAndLong
  EEA3Batches <- None
  EIA3Batches <- None
  Snow3gBatches <- None
  KasumiBatches <- None
  BitLens <- None
  BitOffsets <- None
  SNOW3G_MAX_BITLEN = 1000
  F9Lens <- None
INVARIANT
  ReturnedJobIsWhole
