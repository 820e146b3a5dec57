SPECIFICATION Spec
CONSTANTS
    Patches = {p1, p2}
    Devices = {d1}
    MaxRequests = 2
    MaxTasks = 2
    MaxInputs = 7
    MaxLost = 1
INVARIANTS AuditExplains DeployedWasApproved RateExplained
CHECK_DEADLOCK FALSE
