SPECIFICATION LiveSpec
CONSTANTS
  w1 = w1  w2 = w2  w3 = w3  NoWorker = NoWorker
  Worker = {w1, w2}
  MaxLease = 1  MaxEpoch = 2  MaxFaults = 0  MaxCrashes = 1
PROPERTY DeadWorkerIsResumed
