\* Runs with and without a loop, with up to three iterations.
SPECIFICATION ExecSpec
CONSTANT MaxIterations = 3
INVARIANTS SuccessIsCompleted RowFitsReport ArtifactsOnlyOfSuccess
\* runExec returns.
CHECK_DEADLOCK FALSE
