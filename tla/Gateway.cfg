CONSTANTS
  Workers = {w1}
  MaxSockets = 2
  MaxDashboards = 2
  MaxActors = 3
  MaxEvents = 1
  MaxCommands = 1
SPECIFICATION FairSpec
INVARIANT RoutedIsServed
INVARIANT BroadcastReachesAll
PROPERTY HealthyKeepsRoute
PROPERTY DeadSocketsLeave
CHECK_DEADLOCK FALSE
