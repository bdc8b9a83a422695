\* Three events over a queue of two; the connection may break twice.
SPECIFICATION FairSpec
CONSTANTS
 MaxQueueSize = 2
 MaxEvents = 3
 MaxDrops = 2
 MaxInFlight = 4
INVARIANTS UnackedIsQueued GapOnlyAfterEviction
PROPERTY PublishedIsCounted
\* A run that has ended leaves nothing to do.
CHECK_DEADLOCK FALSE
