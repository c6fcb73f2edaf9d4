CONSTANTS
  Module = {m1, m2, m3}
  Handler = {h1, h2, h3}
SPECIFICATION FairSpec
INVARIANTS AcyclicTree DependencyOrder ResolvedIsQuiet
PROPERTIES ExecuteAllTerminates FailureIsContained
CHECK_DEADLOCK FALSE
