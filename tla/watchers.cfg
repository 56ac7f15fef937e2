SPECIFICATION FairSpec
CONSTANTS
  NULL = NULL
  cron1 = cron1
  cron2 = cron2
  Runners = {cron1, cron2}
  Jobs = {"deadman", "oauth", "ci", "external"}
  InfoAt = 1
  WarnAt = 2
  AlertAt = 2
  DeadAt = 2
  SoonAt = 2
  UrgentAt = 1
  CriticalAt = 1
  NoticeWindow = 1
  ProposalWindow = 2
  Tasks = {1, 2}
  Checks = {"tests"}
  Sources = {"org", "topic"}
  Repos = {"repo1", "repo2"}
  MinStarsPerDay = 1
  VelocityWindow = 2
  Wired = TRUE
  MaxFaults = 1
INVARIANTS TypeOK RepeatsAreBounded

PROPERTIES TroubleKeepsBeingAnnounced FailingCheckIsFiled
