SPECIFICATION Spec
CONSTANTS
  NULL = NULL
  PRNumbers = {1}
  Threshold = 1
  Recipes = 3
  DecomposeAfter = 3
  Chain = 2
  MaxRetries = 1
  MaxAttempts = 4
CHECK_DEADLOCK FALSE
INVARIANTS DecomposeFirstKicksIn
