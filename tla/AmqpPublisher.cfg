CONSTANTS
  Message = {m1, m2}
  MaxLinks = 2
SPECIFICATION FairPublisherSpec
INVARIANTS ResolvedIsTaken NackIsFromBroker HeaderCorrelates NoConfirmLost
PROPERTY PublishSettles
CHECK_DEADLOCK FALSE
