SPECIFICATION FairSpec
CONSTANTS
  tick = tick
  tock = tock
  slotA = slotA
  slotB = slotB
  NULL = NULL
  Tasks = {1}
  PRNumbers = {1}
  Ticks = {tick}
  RealClaude = {tick}
  Slots = {}
  SeedTarget = 1
  MaxRetries = 1
  MaxFaults = 0
PROPERTY StalledRowIsRetried
