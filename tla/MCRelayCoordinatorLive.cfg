\* Two calls alike of one session, one of them with a ttl.
\* Every session may stop: the system is done.
SPECIFICATION FairSpec
CONSTANTS
 r1 = r1
 r2 = r2
 c1 = c1
 c2 = c2
 c3 = c3
 i1 = i1
 i2 = i2
 p1 = p1
 p2 = p2
 p3 = p3
 tg = tg
 con = con
 NoCall = NoCall
 Nobody = Nobody
 Runtimes = {r1}
 Calls = {c1, c2}
 Ids = {i1}
 Payloads = {p1, p2}
 Adapters = {con}
 SlowSend = {}
 RuntimeOf <- PairOwner
 IdOf <- PairId
 PayloadOf <- PairPayload
 TtlOf <- PairTtl
 CapableOf <- ConsoleOnly
 Grace = TRUE
 MaxBroadcasts = 2
 MaxDrops = 1
PROPERTIES TimedCallEnds StoppedSessionIsForgotten
CHECK_DEADLOCK FALSE
