------------------------- MODULE MCOutboundDelivery -------------------------
(* OutboundDelivery with one delivery of any transport and two workers. *)
EXTENDS OutboundDelivery

CONSTANTS d1, w1, w2

OneDelivery == {d1}
Workers == {w1, w2}
=============================================================================
