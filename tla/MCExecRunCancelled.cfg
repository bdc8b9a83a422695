SPECIFICATION ExecSpec
CONSTANT MaxIterations = 2
INVARIANT KilledOnceFailed
\* runExec returns.
CHECK_DEADLOCK FALSE
