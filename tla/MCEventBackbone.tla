--------------------------- MODULE MCEventBackbone ---------------------------
(* EventBackbone with one writer, two relays and two consumers. *)
EXTENDS EventBackbone

CONSTANTS w1, e1, r1, r2, c1, c2

Writers == {w1}
Entities == {e1}
Relays == {r1, r2}
OneConsumer == {c1}
Consumers == {c1, c2}

=============================================================================
