SPECIFICATION FairSpec
CONSTANTS
  tick = tick
  tock = tock
  slotA = slotA
  slotB = slotB
  NULL = NULL
  Tasks = {1, 2}
  PRNumbers = {1}
  Ticks = {tick}
  RealClaude = {tick}
  Slots = {}
  SeedTarget = 2
  MaxRetries = 1
  MaxFaults = 2
INVARIANTS TypeOK SnapshotsAgree SessionOwnsRow PlannedRowsAreClean
PROPERTIES WatcherOwnsPRRows LifecycleSpec LandedPRIsRecorded UnshippedRowsAreReleased FailedPRIsRetried
