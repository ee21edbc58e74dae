SPECIFICATION Spec
CONSTANTS
  w1 = w1  w2 = w2  w3 = w3  NoWorker = NoWorker
  Worker = {w1, w2}
  MaxLease = 1  MaxEpoch = 3  MaxFaults = 1  MaxCrashes = 1
SYMMETRY Symmetry
INVARIANTS
  EpochHasOneOwner
PROPERTIES
  LeaseNotStolen
