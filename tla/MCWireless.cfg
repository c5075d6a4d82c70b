SPECIFICATION Spec
SYMMETRY Symmetry
CONSTANTS
  NumLanes = 3
  Jobs = {j1, j2, j3}
  NULL = NULL
  EEA3Lens <- ThreeEEA3
  EIA3Lens <- ThreeEIA3
  EEA3Batches <- EEA3Bytes
  EIA3Batches <- EIA3Bits
  Snow3gBatches <- Snow3gBytes
  KasumiBatches <- KasumiBytes
  BitLens <- Bits
  BitOffsets <- Offsets
  SNOW3G_MAX_BITLEN = 1000
  F9Lens <- Snow3gF9Bits
INVARIANTS
  Eea3InStep
  Snow3gInStep
  KasumiInStep
  Eia3Holds
  BitsExact
  F9TakesMessage
  ReturnedJobIsWhole
  LanesAreSound
PROPERTY
  ImplementsOooMgr
