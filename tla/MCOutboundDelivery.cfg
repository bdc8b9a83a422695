\* Two messages; the channel of the second honours idempotency keys; two ticks may
\* overlap; the daemon goes down twice.
SPECIFICATION FairSpec
CONSTANTS
 m1 = m1
 m2 = m2
 m3 = m3
 t1 = t1
 t2 = t2
 Msgs = {m1, m2}
 Ticks = {t1, t2}
 Honoured = {m2}
 MaxAttempts = 2
 BatchSize = 2
 MaxCrashes = 2
INVARIANTS DuplicateHasCause
PROPERTIES QueuedEnds ImplementsAtLeastOnce
\* Once every message has ended there is nothing left to do.
CHECK_DEADLOCK FALSE
