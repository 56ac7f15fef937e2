SPECIFICATION Spec
CONSTANTS
  tick = tick
  tock = tock
  slotA = slotA
  slotB = slotB
  NULL = NULL
  Tasks = {1, 2, 3}
  PRNumbers = {1}
  Ticks = {}
  RealClaude = {}
  Slots = {slotA, slotB}
  SeedTarget = 3
  MaxRetries = 1
  MaxFaults = 2
CHECK_DEADLOCK FALSE
INVARIANT AtMostOneSession
PROPERTY LifecycleSpec
