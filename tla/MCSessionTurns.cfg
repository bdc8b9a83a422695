\* Prompts, dispatches and an interrupt may all be used up.
SPECIFICATION FairSpec
CONSTANTS
  MaxPrompts = 2
  MaxDispatches = 2
  MaxInterrupts = 1
  MaxMessages = 2
INVARIANTS
  LatestIsKept
  UndisturbedAnswerIsOwn
  OrderlyOneProcess
  ShownRunIsUnderWay
PROPERTY PromptIsStarted
CHECK_DEADLOCK FALSE
