CONSTANTS
  Service = {"a", "b", "r"}
  Protocol = {"r"}
  FileOf <- MCFileOf
  MethodKinds <- MCMethodKinds
  Remote = {"r1", "r2"}
  Options <- MCOptions
  Value = {1, 2}
  MaxCalls = 2
  MaxTime = 1
  MaxTimeout = 2
  MaxInterceptors = 1
  Undefined = Undefined
SPECIFICATION Spec
INVARIANTS DeadlineInherited TransportParity BidiIsServable RouteStable InputDelivered CancelReaches
CHECK_DEADLOCK FALSE
