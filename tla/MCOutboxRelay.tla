---------------------------- MODULE MCOutboxRelay ----------------------------
(* OutboxRelay with a few writers, entities and replicas. *)
EXTENDS OutboxRelay

CONSTANTS w1, w2, e1, e2, r1, r2

Writers == {w1, w2}
Entities == {e1, e2}
TwoRelays == {r1, r2}

=============================================================================
