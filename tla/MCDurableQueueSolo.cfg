\* One consumer process, restarted up to twice: the deployed topology.
SPECIFICATION Spec
CONSTANTS
  MaxRows = 2
  Instances = {i1, i2}
  Shared = FALSE
  MaxAttempts = 3
  LeaseTime = 1
  Backoffs = {0, 1}
  Prefetch = 2
  MaxFaults = 1
INVARIANTS
  TypeOK
  RedeliveryBounded
  DeadLetterAccounted
  DuplicateFilingAccounted
PROPERTIES
  SettledIsFinal
  ImplementsAtLeastOnce
