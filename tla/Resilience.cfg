SPECIFICATION Spec
CONSTANTS
  r1 = r1
  r2 = r2
  r3 = r3
  Undefined = Undefined
  Request = {r1, r2, r3}
  Configuration <- MCConfiguration
  Capacity = 1
  QueueSize = 1
  Threshold = 2
  MaxRetries = 1
  RetryableCodes = {"unavailable", "resource_exhausted"}
  HandlerOutcome = {"ok", "unavailable", "not_found", "thrown"}
SYMMETRY Permutation
INVARIANTS
  HandlersWithinCapacity
  CountsRequests
PROPERTY
  ClosesOnSuccess
CHECK_DEADLOCK FALSE
