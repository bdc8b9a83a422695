\* Prompts and interrupts may all be used up.
SPECIFICATION FairCodexSpec
CONSTANTS
  MaxCodexPrompts = 3
  MaxCodexInterrupts = 1
INVARIANTS
  OneTurnAtATime
  SuccessIsOwn
  InterruptIsOwn
PROPERTY ReplacementGoesOn
CHECK_DEADLOCK FALSE
