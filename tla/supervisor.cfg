SPECIFICATION FairSpec
CONSTANTS
  dawn = dawn
  Daemons = {dawn}
  Concurrency = 3
  Threshold = 2
  HardCap = 3
  DayCap = 2
  PerTask = 1
  NoCap = NoCap
  Nobody = Nobody
  MaxCarried = 1
  MaxFaults = 2
INVARIANTS TypeOK CapsHold FailureStreakBounded LateSessionsBounded
PROPERTY StopsWhenTold
