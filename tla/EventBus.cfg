CONSTANTS
  Undefined = Undefined
  Event = {1, 2}
  Message <- MCMessages
  Routing <- MCRouting
  Foreign <- MCForeign
  MaxRuns = 2
SPECIFICATION FairSpec
INVARIANTS DrainedBeforeDisconnect RoutedAsDeclared
PROPERTY LifecycleSpec
CHECK_DEADLOCK FALSE
