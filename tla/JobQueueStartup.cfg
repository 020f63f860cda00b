SPECIFICATION Spec
CONSTANTS
  s1 = s1
  s2 = s2
  Procs = {s1, s2}
  WorkerIds = {s1, s2}
  RunOnce = {}
  IdOf <- OwnId
  Jobs = {1}
  Cancellable = {}
  NoOne = NoOne
  NoJob = NoJob
  MaxAttempts = 2
  HeartbeatInterval = 1
  ShutdownGrace = 1
  ExitMargin = 0
  ZombieThreshold = 3
  BackoffBase = 1
  BackoffCap = 1
  MaxLag = 0
  MaxFaults = 0
SYMMETRY ServiceSymmetry
INVARIANTS
  NoConcurrentExecution
