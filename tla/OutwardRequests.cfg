SPECIFICATION LiveSpec
CONSTANTS
  h1 = h1  h2 = h2
  Handler = {h1, h2}
  StepTool <- ThreeSteps
  MaxTurns = 2  MaxCalls = 2  MaxRequests = 5  MaxRacing = 3  MaxStops = 1
CHECK_DEADLOCK FALSE
INVARIANTS
  ApprovedBeforeEffect
  DeniedNotInvoked
  CallMatchesApproval
  EffectOnce
  LedgerOrdered
PROPERTIES
  CompletedIsFinal
  RunSettles
