SPECIFICATION Spec
CONSTANTS
  tick = tick
  tock = tock
  slotA = slotA
  slotB = slotB
  NULL = NULL
  Tasks = {1}
  PRNumbers = {1}
  Ticks = {tick}
  RealClaude = {tick}
  Slots = {slotA}
  SeedTarget = 1
  MaxRetries = 1
  MaxFaults = 0
INVARIANT AtMostOneSession
