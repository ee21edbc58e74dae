SPECIFICATION LiveSpec
CONSTANTS
  c1 = c1
  MaxTurns = 1
  Client = {c1}
  BestEffortMax = 1  BoundedMax = 1  MaxBytes = 4
  TurnBudget = {0}
  MaxEmits = 2  MaxRequests = 2  MaxConnections = 1  MaxFaults = 1
INVARIANTS
  StreamLaw
  OneTerminal
  CommittedOnce
  FailClosed
PROPERTIES
  TurnSettles
CHECK_DEADLOCK FALSE
