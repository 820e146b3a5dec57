CONSTANTS
  Requests = {r1, r2}
  MaxWrites = 2
SPECIFICATION Spec
PROPERTY OwnFieldsOnly
PROPERTY DecommissionSticks
PROPERTY PresenceFollows
CHECK_DEADLOCK FALSE
