SPECIFICATION Spec
CONSTANTS
    MaxAttempts = 2
    MaxRequests = 2
    MaxInputs = 4
    Numbers = {0, 2}
INVARIANTS LockoutArmed
PROPERTY PermanentLockHolds
CHECK_DEADLOCK FALSE
