\* A prompt whose awaited send outlives its broadcast, answered when the id is used again.
\* Every session may stop: the system is done.
SPECIFICATION Spec
CONSTANTS
 r1 = r1
 r2 = r2
 c1 = c1
 c2 = c2
 c3 = c3
 i1 = i1
 i2 = i2
 p1 = p1
 p2 = p2
 p3 = p3
 tg = tg
 con = con
 NoCall = NoCall
 Nobody = Nobody
 Runtimes = {r1}
 Calls = {c1, c2, c3}
 Ids = {i1, i2}
 Payloads = {p1, p2, p3}
 Adapters = {tg, con}
 SlowSend = {tg}
 RuntimeOf <- OneOwner
 IdOf <- TwoShareId
 PayloadOf <- AllDiffer
 TtlOf <- FirstTimed
 CapableOf <- FirstOnBoth
 Grace = TRUE
 MaxBroadcasts = 2
 MaxDrops = 2
INVARIANT NoStrayVerdict
CHECK_DEADLOCK FALSE
