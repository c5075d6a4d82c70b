SPECIFICATION Spec
CONSTANTS
  Archs = {"AVX"}
  CipherModes = {"CBCS_1_9"}
  HashAlgs = {"NULL"}
  CipherLens = {0, 16}
  HashLens = {16}
INVARIANT
  CbcsKernelFits
