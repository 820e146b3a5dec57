CONSTANTS
  Users = {u1}
  Calls = {r1, r2}
  Limit = 2
  Window = 2
  MaxCalls = 3
  MaxTicks = 2
  MaxErrors = 1
  Widths = {1, 2}
  MaxChanges = 1
  MaxIlls = 2
  MaxUpdates = 2
  MaxDropped = 1
  MaxCommands = 1
  Fragile = {"dpkg", "passwd", "brew", "missing_updates"}
  Totals = {0, 1, 2, 3, 5, 7, 10, 20, 51}
  Sizes = {0, 1, 2, 3, 7, 60}
  Percentages = {0, 1, 5, 10, 20, 29, 50, 100, 150}
SPECIFICATION Spec
INVARIANT OwnWritesSeen
INVARIANT LimiterExact
INVARIANT CollectorsAgree
INVARIANT EveryDeviceOnce
INVARIANT WaveSizesRespected
PROPERTY RelaysEnd
PROPERTY DataConverges
PROPERTY SameWidthKeepsOrder
CHECK_DEADLOCK FALSE
