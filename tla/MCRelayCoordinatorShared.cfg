\* Three calls that share one id, shown on the console.
\* Every session may stop: the system is done.
SPECIFICATION FairSpec
CONSTANTS
 r1 = r1
 r2 = r2
 c1 = c1
 c2 = c2
 c3 = c3
 i1 = i1
 i2 = i2
 p1 = p1
 p2 = p2
 p3 = p3
 tg = tg
 con = con
 NoCall = NoCall
 Nobody = Nobody
 Runtimes = {r1, r2}
 Calls = {c1, c2, c3}
 Ids = {i1}
 Payloads = {p1, p2}
 Adapters = {con}
 SlowSend = {}
 RuntimeOf <- SharedOwner
 IdOf <- SharedId
 PayloadOf <- SharedPayload
 TtlOf <- SharedTtl
 CapableOf <- ConsoleOnly
 Grace = FALSE
 MaxBroadcasts = 2
 MaxDrops = 1
INVARIANTS WaitersHaveTheirBroadcast VerdictIsForTheQuestion
PROPERTY TimedCallEnds
CHECK_DEADLOCK FALSE
