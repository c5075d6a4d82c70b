SPECIFICATION Spec
CONSTANTS
  Archs = {"AVX"}
  CipherModes = {"NULL"}
  HashAlgs = {"AES_CMAC", "AES_CMAC_256"}
  CipherLens = {0, 16}
  HashLens = {16}
INVARIANT
  MacKernelFits
