SPECIFICATION FairSpec
CONSTANTS
    Devices = {d1, d2}
    Strategy = "rolling"
    WaveSize = 1
    CanaryPercentage = 5
    WaveDelayMinutes = 15
    MaxFailurePercentage = 40
    Orchestrators = {o1}
    Workers = {k1, k2}
    Views = {v1}
    Operations = {"execute"}
    MaxRequests = 1
    Responders = {}
    Slow = {d1, d2}
    RowLockNeedsTransaction = FALSE
    AcksLate = TRUE
    FaultKinds = {"orchestrator", "reporter"}
    MaxFaults = 1
INVARIANTS NoLostIncrement
PROPERTIES CountersFollow NoTargetStuck
CHECK_DEADLOCK FALSE
