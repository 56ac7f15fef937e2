SPECIFICATION FairSpec
CONSTANTS
  NULL = NULL
  Tasks = {1}
  PRNumbers = {1}
  MaxAttempts = 2
  MaxFaults = 1
CHECK_DEADLOCK FALSE
INVARIANTS TypeOK
PROPERTIES WorkIsKept ReleasedUnlessShippingFails
