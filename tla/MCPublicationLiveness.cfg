SPECIFICATION FairSpec
CONSTANTS
  p1 = p1
  w1 = w1

  k1 = k1
  Post = {p1}
  Vk = {p1}
  Worker = {w1}
  RetryKey = {k1}
  NoLease = NoLease
  NoPost = NoPost
  NoKey = NoKey
  MaxAttempts = 2
  MaxRevision = 3
  MaxRequests = 1

CHECK_DEADLOCK FALSE

PROPERTIES PublishingEnds ScheduledEnds
