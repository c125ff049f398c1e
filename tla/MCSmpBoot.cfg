SPECIFICATION Spec
CONSTANTS
  NumCpu = 4
  MaxCpuOpts <- MCMaxCpuOpts
  SpinLimit = 4
INVARIANTS StackExclusive PageUndisturbed ReleaseExactlyOnce NoLostWakeup
PROPERTIES BootEnds ShutdownReachesAll
CHECK_DEADLOCK FALSE
