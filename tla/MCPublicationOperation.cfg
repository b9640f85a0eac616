SPECIFICATION Spec
CONSTANTS
  p1 = p1
  w1 = w1
  p2 = p2
  k1 = k1
  Post = {p1, p2}
  Vk = {p1}
  Worker = {w1}
  RetryKey = {k1}
  NoLease = NoLease
  NoPost = NoPost
  NoKey = NoKey
  MaxAttempts = 2
  MaxRevision = 3
  MaxRequests = 0

CHECK_DEADLOCK FALSE

PROPERTIES KeepsPromise DeliveryFixesOperation
