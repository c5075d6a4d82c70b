SPECIFICATION Spec
CONSTANTS
  aes = aes
  hmac = hmac
  l1 = l1
  l2 = l2
  l3 = l3
  MAX_JOBS = 3
  CipherManagers <- CipherOoo
  HashManagers <- HashOoo
  Lane <- ThreeLanes
  Kinds <- MixedKinds
INVARIANTS
  InductiveInv
PROPERTIES
  CallsReturn
