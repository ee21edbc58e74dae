SPECIFICATION ActiveSpec
CONSTANTS
  w1 = w1  w2 = w2  i1 = i1  i2 = i2  NoInstance = NoInstance
  Worker = {w1, w2}
  Instance = {i1, i2}
  InstanceOf <- TwoProcesses
  Operation = {"health", "reconcile", "reacquire", "delete"}
  LeaseTTL = 1  ReclaimTTL = 1  CleanupTTL = 1  HardMaxAge = 9
  MaxTime = 1  MaxVersion = 9  PsFails = TRUE
INVARIANTS
  HeldRecordsFenced
  NoLiveTeardown
  TerminalHasEvidence
PROPERTIES
  OwnershipByEpoch
CHECK_DEADLOCK FALSE
