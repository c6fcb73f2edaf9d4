CONSTANTS
  Message = {m1}
  Sub = {s1, s2}
  MaxLinks = 2
SPECIFICATION Spec
INVARIANT ActiveAreConsumed
PROPERTY PublisherSpec
CHECK_DEADLOCK FALSE
