CONSTANTS
  Delivery = {d1, d2}
  MaxRetries = 1
SPECIFICATION FairSpec
INVARIANTS NotLost SettledOnce
PROPERTY DlqSettles
CHECK_DEADLOCK FALSE
