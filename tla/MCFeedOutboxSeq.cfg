SPECIFICATION Spec
CONSTANTS
  BatchLimit = 2
  MaxEvents = 4
  MaxRestarts = 1
  MaxBreaks = 0
  MaxFaults = 0
INVARIANT SequenceIsGlobal
CHECK_DEADLOCK FALSE
