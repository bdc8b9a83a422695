------------------------- MODULE MCOutboundDelivery -------------------------
(* Small instances of OutboundDelivery for TLC. *)
EXTENDS OutboundDelivery

CONSTANTS m1, m2, m3, t1, t2
=============================================================================
