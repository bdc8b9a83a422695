\* One slot, three connections, three messages that overfill the queue.
SPECIFICATION Spec
CHECK_DEADLOCK FALSE
SYMMETRY OneSlotSymmetry
INVARIANTS
  ParkedOnlyWhileInactive
PROPERTY
  ActiveSlotLostForCause
CONSTANTS
  m3 = m3
  r1 = r1  r2 = r2  k1 = k1  k2 = k2  m1 = m1  m2 = m2  c1 = c1  c2 = c2  c3 = c3
  NoRuntime = NoRuntime  NoConn = NoConn
  Runtimes = {r1, r2}
  Keys = {k1}
  Conns = {c1, c2, c3}
  Msgs = {m1, m2, m3}
  AttachmentOf <- OneSlotAttachmentOf
  KeysOf <- OneSlotKeysOf
  Grace = TRUE
  MaxQueue = 2
  DedupMax = 1
  MaxArrivals = 3
  MaxRestarts = 0
