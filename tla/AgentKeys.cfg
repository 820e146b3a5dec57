CONSTANTS
  FirstKeys = {0, 1}
  MaxKeys = 3
  MaxKills = 1
  MaxDrops = 2
  MaxCommands = 2
SPECIFICATION FairSpec
INVARIANT HandOver
PROPERTY KeyNeverRegresses
PROPERTY RestartRecovers
PROPERTY HandlerAndHeartbeatEnd
CHECK_DEADLOCK FALSE
