\* Two slots with a grace period, a channel that moves between them, one restart.
\* No symmetry: a liveness property is checked.
SPECIFICATION FairSpec
CHECK_DEADLOCK FALSE
INVARIANTS
  AcceptedExactlyOnce
  DispatchedInArrivalOrder
  ReplyAnswersItsTurn
PROPERTY StaleSlotResolves
CONSTANTS
  m3 = m3
  r1 = r1  r2 = r2  k1 = k1  k2 = k2  m1 = m1  m2 = m2  c1 = c1  c2 = c2  c3 = c3
  NoRuntime = NoRuntime  NoConn = NoConn
  Runtimes = {r1, r2}
  Keys = {k1, k2}
  Conns = {c1, c2}
  Msgs = {m1, m2}
  AttachmentOf <- TwoSlotAttachmentOf
  KeysOf <- TwoSlotKeysOf
  Grace = TRUE
  MaxQueue = 2
  DedupMax = 1
  MaxArrivals = 2
  MaxRestarts = 1
