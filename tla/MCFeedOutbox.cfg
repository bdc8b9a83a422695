SPECIFICATION LiveSpec
CONSTANTS
  BatchLimit = 2
  MaxEvents = 3
  MaxRestarts = 1
  MaxBreaks = 1
  MaxFaults = 1
INVARIANTS LostOnlyToUnstored FirstSendsInOrder
PROPERTY QueuedIsAcked
\* Everything may be acknowledged and no event left.
CHECK_DEADLOCK FALSE
