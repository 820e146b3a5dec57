SPECIFICATION Spec
CONSTANTS
    Devices = {d1, d2}
    Strategy = "canary"
    WaveSize = 1
    CanaryPercentage = 5
    WaveDelayMinutes = 15
    MaxFailurePercentage = 40
    Orchestrators = {o1}
    Workers = {k1}
    Views = {v1, v2}
    Operations = {"approve", "execute", "pause", "resume", "rollback", "update", "cancel"}
    MaxRequests = 3
    Responders = {}
    Slow = {}
    RowLockNeedsTransaction = FALSE
    AcksLate = TRUE
    FaultKinds = {"broker"}
    MaxFaults = 1
INVARIANTS IInv
SYMMETRY Symmetry
CHECK_DEADLOCK FALSE
