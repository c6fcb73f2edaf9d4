SPECIFICATION Spec
CONSTANTS
  p1 = p1
  p2 = p2
  Process = {p1, p2}
  MaxEvents = 2
  Count = 2
  ReclaimInterval = 2
  MaxDeliver = 2
  Patterns <- MCPatterns
  PatternOf <- MCPatternOf
  MaxBatch = 2
  Prefetch = 2
  MaxChannels = 2
  Adapters <- MCAdapters
INVARIANTS
  AtLeastOnce
  OnlyFailedOvertaken
  QuietWhenUnsubscribed
CHECK_DEADLOCK FALSE
