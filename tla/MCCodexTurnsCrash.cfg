\* A pending turn is rejected before turn/start is answered.
SPECIFICATION FairCodexSpec
CONSTANTS
  MaxCodexPrompts = 2
  MaxCodexInterrupts = 0
INVARIANT NeverCrashes
CHECK_DEADLOCK FALSE
