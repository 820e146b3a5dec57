CONSTANTS
  Workers = {w1, w2}
  ReadBatch = 1
  MaxLen = 1
  MaxEvents = 2
  MaxFaults = 2
SPECIFICATION Spec
INVARIANT AtLeastOnce
INVARIANT OnceUnlessClaimed
INVARIANT ReclaimThorough
PROPERTY EntriesDelivered
CHECK_DEADLOCK FALSE
