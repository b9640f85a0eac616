SPECIFICATION Spec
CONSTANTS
  Horizon = 15
  FirstTime = 3
  Times = {5, 9}
  Grace = 2
  Patience = 2
  RetryDelay <- Delays
  MaxAttempts = 3
  SiteDelay = 2
  Requests = {"operation", "admin", "site", "bot"}
  MaxAsks = 3
  Faults = {"job_lost", "queue_down", "job_throws", "dispatcher_dies"}
  MaxFaults = 1
  Prompt = TRUE
CHECK_DEADLOCK FALSE
INVARIANTS NoEarlyPublication
