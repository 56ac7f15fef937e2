SPECIFICATION FairSpec
CONSTANTS
  NULL = NULL
  PRNumbers = {1, 2}
  Threshold = 2
  Recipes = 2
  DecomposeAfter = 2
  Chain = 2
  MaxRetries = 1
  MaxAttempts = 5
CHECK_DEADLOCK FALSE
INVARIANTS TypeOK SessionsArePaidFor HumanIsLastResort DeadPRMeansEscalated
PROPERTIES StuckTaskIsEscalated
