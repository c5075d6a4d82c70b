SPECIFICATION Spec
CONSTANTS
  aes = aes
  hmac = hmac
  l1 = l1
  l2 = l2
  l3 = l3
  MAX_JOBS = 4
  CipherManagers <- CipherOoo
  HashManagers <- HashOoo
  Lane <- TwoLanes
  Kinds <- QueuedKinds
INVARIANTS
  NoJobForgotten
  CompleteJobAdvances
  ReturnedJobIsCompleted
  ApplicationSlotsAreFree
  QueueSizeIsExact
PROPERTIES
  FinishedJobIsLeftAlone
  ImplementsFifo
