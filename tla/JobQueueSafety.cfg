SPECIFICATION Spec
CONSTANTS
  s1 = s1
  s2 = s2
  Procs = {s1, s2}
  WorkerIds = {s1, s2}
  RunOnce = {}
  IdOf <- OwnId
  Jobs = {1, 2}
  Cancellable = {}
  NoOne = NoOne
  NoJob = NoJob
  MaxAttempts = 1
  HeartbeatInterval = 1
  ShutdownGrace = 1
  ExitMargin = 0
  ZombieThreshold = 3
  BackoffBase = 1
  BackoffCap = 2
  MaxLag = 1
  MaxFaults = 0
SYMMETRY ServiceSymmetry
INVARIANTS
  TypeOK
  HeartbeatStaysFresh
  AttemptsAccounted
  StrandedOnlyByFault
PROPERTIES
  NoTheft
  ImplementsLifecycle
