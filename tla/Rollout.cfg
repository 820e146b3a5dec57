SPECIFICATION Spec
CONSTANTS
    Devices = {d1, d2, d3}
    Strategy = "canary"
    WaveSize = 2
    CanaryPercentage = 5
    WaveDelayMinutes = 15
    MaxFailurePercentage = 40
    Orchestrators = {o1}
    Workers = {k1}
    Views = {v1}
    Operations = {"execute"}
    MaxRequests = 1
    Responders = {d1, d2, d3}
    Slow = {}
    RowLockNeedsTransaction = FALSE
    AcksLate = TRUE
    FaultKinds = {"orchestrator", "reporter", "broker"}
    MaxFaults = 1
INVARIANTS AtMostOneStart CountersExact
SYMMETRY Symmetry
CHECK_DEADLOCK FALSE
