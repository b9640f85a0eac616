SPECIFICATION Spec
CONSTANTS
  p1 = p1
  w1 = w1
  w2 = w2
  k1 = k1
  Post = {p1}
  Vk = {p1}
  Worker = {w1, w2}
  RetryKey = {k1}
  NoLease = NoLease
  NoPost = NoPost
  NoKey = NoKey
  MaxAttempts = 2
  MaxRevision = 3
  MaxRequests = 1
SYMMETRY Symmetry
CHECK_DEADLOCK FALSE
INVARIANTS IInv AtMostOneDelivery RetryableIsUnsent InFlightIsProtected PublishedIsReal CancelSticks
PROPERTIES SettledIsFinal
