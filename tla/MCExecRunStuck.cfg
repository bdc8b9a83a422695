SPECIFICATION ExecSpec
CONSTANT MaxIterations = 2
INVARIANT RowEnds
\* runExec returns.
CHECK_DEADLOCK FALSE
