SPECIFICATION Spec
CONSTANTS
  tick = tick
  tock = tock
  slotA = slotA
  slotB = slotB
  NULL = NULL
  Tasks = {1}
  PRNumbers = {1, 2}
  Ticks = {tick, tock}
  RealClaude = {tick, tock}
  Slots = {}
  SeedTarget = 2
  MaxRetries = 1
  MaxFaults = 0
INVARIANTS MergedMeansLanded RetriesBounded
SYMMETRY LikeTicks
