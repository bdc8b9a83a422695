\* A prompt replaces a run whose turn id is not known yet.
SPECIFICATION FairCodexSpec
CONSTANTS
  MaxCodexPrompts = 2
  MaxCodexInterrupts = 0
PROPERTY ReplacementNeverHangs
CHECK_DEADLOCK FALSE
