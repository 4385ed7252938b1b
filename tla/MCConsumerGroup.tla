--------------------------- MODULE MCConsumerGroup ---------------------------
(* ConsumerGroup with two replicas and a few events. *)
EXTENDS ConsumerGroup

CONSTANTS c1, c2, ev1, ev2, bad

Consumers == {c1, c2}
Events == {ev1, ev2}
EventsAndBad == {ev1, bad}
Bad == {bad}

=============================================================================
