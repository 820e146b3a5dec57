SPECIFICATION Spec
CONSTANTS
    Devices = {d1, d2}
    Strategy = "canary"
    WaveSize = 1
    CanaryPercentage = 5
    WaveDelayMinutes = 15
    MaxFailurePercentage = 40
    Orchestrators = {o1, o2}
    Workers = {k1}
    Views = {v1}
    Operations = {"approve", "execute", "cancel"}
    MaxRequests = 3
    Responders = {}
    Slow = {}
    RowLockNeedsTransaction = FALSE
    AcksLate = TRUE
    FaultKinds = {}
    MaxFaults = 0
INVARIANTS WavesInOrder CompletedLeavesNoneQueued ResultsOfStarted
PROPERTIES ImplementsWaveGate NoLateStart TaskSettles
SYMMETRY Symmetry
CHECK_DEADLOCK FALSE
