SPECIFICATION Spec
CONSTANTS
  dawn = dawn
  Daemons = {dawn}
  Concurrency = 2
  Threshold = 2
  HardCap = 2
  DayCap = NoCap
  PerTask = 1
  NoCap = NoCap
  Nobody = Nobody
  MaxCarried = 0
  MaxFaults = 1
PROPERTY InFlightWorkersAreAwaited
