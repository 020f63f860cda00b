SPECIFICATION FairSpec
CONSTANTS
  s1 = s1
  r1 = r1
  Procs = {s1, r1}
  WorkerIds = {s1, r1}
  RunOnce = {r1}
  IdOf <- OwnId
  Jobs = {1}
  Cancellable = {1}
  NoOne = NoOne
  NoJob = NoJob
  MaxAttempts = 2
  HeartbeatInterval = 1
  ShutdownGrace = 1
  ExitMargin = 0
  ZombieThreshold = 3
  BackoffBase = 1
  BackoffCap = 1
  MaxLag = 0
  MaxFaults = 1
PROPERTIES
  OnlyHolderWrites
  ImplementsLifecycle
  JobsEnd
  DeadHolderLosesJob
  ProcessesLeave
