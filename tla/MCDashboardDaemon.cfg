SPECIFICATION Spec
CONSTANTS
  r1 = r1
  r2 = r2
  k1 = k1
  Runs = {r1, r2}
  Runners = {k1}
  RunnerOf <- MCRunnerOf
  Unusable = {}
  MaxConcurrentRuns = 1
  RefreshFailureLimit = 1
  MaxTroubles = 1
  MaxChanges = 1
SYMMETRY Symmetry
INVARIANTS
  OneConnection
  TimelyMirrorIsCurrent
  AcceptedIsStarted
\* The daemon exits.
CHECK_DEADLOCK FALSE
