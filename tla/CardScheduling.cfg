SPECIFICATION Spec
CONSTANTS
  c1 = c1  c2 = c2  NoCard = NoCard
  Card = {c1, c2}
  Graphs <- PairOrChain
  Verified = {c1, c2}  Targets = {c1, c2}
  BuilderAsks = {"done", "code_review"}
  GuardAsks = {"done", "guard_rejected"}
  MaxRetries = 1  Concurrency = 1  MaxIterations = 9  MaxCalls = 1
  MaxRuns = 2
SYMMETRY Symmetry
INVARIANTS
  BuildOrder
  DoneIsEarned
  NeverExhausts
CHECK_DEADLOCK FALSE
