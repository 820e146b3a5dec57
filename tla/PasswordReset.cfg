SPECIFICATION Spec
CONSTANTS
    MaxAttempts = 2
    MaxRequests = 1
    MaxInputs = 2
    Numbers = {0, 2}
PROPERTY ResetMustChange
CHECK_DEADLOCK FALSE
