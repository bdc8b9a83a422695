SPECIFICATION Spec
CONSTANTS
  r1 = r1
  k1 = k1
  Runs = {r1}
  Runners = {k1}
  RunnerOf <- MCRunnerOf
  Unusable = {}
  MaxConcurrentRuns = 1
  RefreshFailureLimit = 1
  MaxTroubles = 1
  MaxChanges = 0
INVARIANT ExecutedOnce
CHECK_DEADLOCK FALSE
