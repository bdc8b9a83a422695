SPECIFICATION LiveSpec
CONSTANTS
  r1 = r1
  r2 = r2
  k1 = k1
  Runs = {r1, r2}
  Runners = {k1}
  RunnerOf <- MCRunnerOf
  Unusable = {r2}
  MaxConcurrentRuns = 1
  RefreshFailureLimit = 1
  MaxTroubles = 1
  MaxChanges = 0
PROPERTY AssignmentIsAnswered
\* The daemon exits.
CHECK_DEADLOCK FALSE
