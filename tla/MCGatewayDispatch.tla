------------------------- MODULE MCGatewayDispatch -------------------------
(* Small instances of GatewayDispatch: two runtimes compete for one slot, a *)
(* second slot is reached by the channel of one message.                    *)
EXTENDS GatewayDispatch, TLC

CONSTANTS r1, r2, k1, k2, m1, m2, m3, c1, c2, c3

OneSlotAttachmentOf == [r \in Runtimes |-> k1]
OneSlotKeysOf == [m \in Msgs |-> {k1}]
OneSlotSymmetry == Permutations(Runtimes) \cup Permutations(Conns) \cup Permutations(Msgs)

TwoSlotAttachmentOf == [r \in Runtimes |-> IF r = r1 THEN k1 ELSE k2]
TwoSlotKeysOf == [m \in Msgs |-> IF m = m1 THEN {k1, k2} ELSE {k1}]
=============================================================================
