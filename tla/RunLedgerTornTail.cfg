SPECIFICATION Spec
CONSTANTS
    Op = {o1}
    File <- Files
    Payload = {p}
    MaxRows = 1
    Outcome <- Outcomes
    MaxNeed = 2
    MaxInvocations = 4
    MaxRuns = 2
    MaxCrashes = 2
    MaxTears = 1
    MaxFaults = 1
INVARIANT PartialTailIgnored
CHECK_DEADLOCK FALSE
