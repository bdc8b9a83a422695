\* Three dispatches and old messages: safety only.
SPECIFICATION Spec
CONSTANTS
  MaxPrompts = 1
  MaxDispatches = 3
  MaxInterrupts = 1
  MaxMessages = 3
INVARIANTS
  TypeOK
  LatestIsKept
  UndisturbedAnswerIsOwn
  OrderlyOneProcess
  ShownRunIsUnderWay
CHECK_DEADLOCK FALSE
