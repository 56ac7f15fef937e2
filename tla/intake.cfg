SPECIFICATION FairSpec
CONSTANTS
  NULL = NULL
  cron = cron
  daemon = daemon
  Runners = {cron, daemon}
  Numbers = {1, 2}
  Kinds = {"worktree_drift_cluster"}
  Flaky = {}
  Threshold = 1
  Target = 1
  BatchSize = 1
  MaxProposals = 3
  MaxCrashes = 1
CHECK_DEADLOCK FALSE
INVARIANTS TypeOK QueueOvershootBounded SeededMeansTask PendingProposalsBounded AcceptedProposalIsInjected
PROPERTY FrontsReachTheQueue
