SPECIFICATION Spec
CONSTANTS
  Threads = {t1, t2}
  Workers = {t1}
  Cpus <- SomeCpus
  UsedOoos <- SomeOoos
  Lanes = {l1, l2}
SYMMETRY Sym
INVARIANTS
  LanesMatchKernels
  KernelsRunOnCpu
  AutoReportsWhatRuns
  ManagersAreSound
  OldJobsStayAway
