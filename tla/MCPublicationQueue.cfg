SPECIFICATION Spec
CONSTANTS
  Horizon = 22
  FirstTime = 4
  Times = {3, 9, 12}
  Grace = 5
  Patience = 5
  RetryDelay <- Delays
  MaxAttempts = 3
  SiteDelay = 2
  Requests = {"operation", "site"}
  MaxAsks = 2
  Faults = {"job_lost", "dispatcher_dies"}
  MaxFaults = 2
  Prompt = TRUE
CHECK_DEADLOCK FALSE
INVARIANTS LossIsRepaired RetryIsPrompt
PROPERTIES DispatchArms
