SPECIFICATION Spec
CONSTANTS
    Op = {o1, o2, o3}
    File <- Files
    Payload = {p}
    MaxRows = 3
    Outcome <- Outcomes
    MaxNeed = 2
    MaxInvocations = 4
    MaxRuns = 2
    MaxCrashes = 1
    MaxTears = 1
    MaxFaults = 1
INVARIANTS OnceInLog CallsPaired ReceiptsBacked WinnersAccounted OutcomeLogged OrphanNeedsFailure
PROPERTIES RecoveryNeverReopens
CHECK_DEADLOCK FALSE
SYMMETRY AnyOperation
