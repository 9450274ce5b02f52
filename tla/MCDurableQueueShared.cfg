\* Two live consumers on one subscription.
SPECIFICATION Spec
CONSTANTS
  MaxRows = 1
  Instances = {i1, i2, i3}
  Shared = TRUE
  MaxAttempts = 2
  LeaseTime = 1
  Backoffs = {1}
  Prefetch = 1
  MaxFaults = 0
INVARIANTS
  OverrunBounded
PROPERTIES
  ResurrectedOnlyByNack
  EventuallySettled
