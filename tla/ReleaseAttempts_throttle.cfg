SPECIFICATION AttemptsSpec
CONSTANTS
  Releases = 2
  Interval = 5
  CycleTime = 2
  FetchTimeout = 1
INVARIANTS
  AttemptsThrottled
