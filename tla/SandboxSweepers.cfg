SPECIFICATION CreatedSpec
CONSTANTS
  w1 = w1  w2 = w2  i1 = i1  i2 = i2  NoInstance = NoInstance
  Worker = {w1, w2}
  Instance = {i1, i2}
  InstanceOf <- TwoProcesses
  Operation = {"health", "reconcile", "sweep", "crash"}
  LeaseTTL = 1  ReclaimTTL = 1  CleanupTTL = 1  HardMaxAge = 1
  MaxTime = 1  MaxVersion = 10  PsFails = FALSE
INVARIANTS
  CleanupExclusive
  DockerAccounted
CHECK_DEADLOCK FALSE
