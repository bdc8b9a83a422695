\* Two sessions, one of which leaves.
\* Every session may stop: the system is done.
SPECIFICATION Spec
CONSTANTS
 r1 = r1
 r2 = r2
 c1 = c1
 c2 = c2
 c3 = c3
 i1 = i1
 i2 = i2
 p1 = p1
 p2 = p2
 p3 = p3
 tg = tg
 con = con
 NoCall = NoCall
 Nobody = Nobody
 Runtimes = {r1, r2}
 Calls = {c1, c2}
 Ids = {i1, i2}
 Payloads = {p1, p2}
 Adapters = {tg, con}
 SlowSend = {tg}
 RuntimeOf <- TwoSessions
 IdOf <- OwnIds
 PayloadOf <- OwnPayloads
 TtlOf <- SecondTimed
 CapableOf <- QuestionsOnConsole
 Grace = TRUE
 MaxBroadcasts = 3
 MaxDrops = 1
PROPERTY ConnectionLostIsItsOwn
CHECK_DEADLOCK FALSE
