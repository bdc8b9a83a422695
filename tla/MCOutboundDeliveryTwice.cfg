\* A channel that takes no notice of the idempotency key, as telegram.
SPECIFICATION Spec
CONSTANTS
 m1 = m1
 m2 = m2
 m3 = m3
 t1 = t1
 t2 = t2
 Msgs = {m1}
 Ticks = {t1}
 Honoured = {}
 MaxAttempts = 2
 BatchSize = 1
 MaxCrashes = 0
INVARIANT ShownOnce
\* Once every message has ended there is nothing left to do.
CHECK_DEADLOCK FALSE
