SPECIFICATION Spec
CONSTANTS
  NParts = 4
  Album = 3
  MaxAttempts = 3
  Collector = {stats}
  MaxAsks = 2
CHECK_DEADLOCK FALSE
INVARIANTS NoPartTwice RetryableIsCertain PartsInOrder MissingIsGone
PROPERTIES CallsKeepPromise
