SPECIFICATION Spec
CONSTANTS
  NParts = 4
  Album = 3
  MaxAttempts = 3
  Collector = {stats}
  MaxAsks = 0
CHECK_DEADLOCK FALSE
INVARIANTS PublishedIsWhole
