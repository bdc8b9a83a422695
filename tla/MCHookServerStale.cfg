SPECIFICATION Spec
CONSTANTS
  p = p
  u = u
  x = x
  Requests = {p, u, x}
  Kindings <- MCKindings
  MaxDecisions = 1
INVARIANT PromptIsWaiting
\* The process exits.
CHECK_DEADLOCK FALSE
