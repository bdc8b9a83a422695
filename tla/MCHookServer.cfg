SPECIFICATION Spec
CONSTANTS
  p = p
  u = u
  x = x
  Requests = {p, u, x}
  Kindings <- MCKindings
  MaxDecisions = 1
INVARIANTS
  OneAnswer
  WaitingIsPrompted
  TimelyPromptIsWaiting
  DecisionIsRecorded
\* The process exits.
CHECK_DEADLOCK FALSE
