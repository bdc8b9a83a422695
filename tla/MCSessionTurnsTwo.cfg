\* Prompts only.
SPECIFICATION Spec
CONSTANTS
  MaxPrompts = 3
  MaxDispatches = 0
  MaxInterrupts = 0
  MaxMessages = 0
INVARIANT OneUnsignalled
CHECK_DEADLOCK FALSE
