SPECIFICATION Spec
CONSTANTS
  Archs = {"AVX", "AVX512"}
  CipherModes <- AllCiphers
  HashAlgs <- AllHashes
  CipherLens <- AllCipherLens
  HashLens <- AllHashLens
INVARIANTS
  KindIsAdmissible
  RequestedStagesRun
  LaneLengthFits
  KernelFitsKey
