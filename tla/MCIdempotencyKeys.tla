-------------------------- MODULE MCIdempotencyKeys --------------------------
(* IdempotencyKeys with two concurrent attempts at two requests. *)
EXTENDS IdempotencyKeys, TLC

CONSTANTS c1, c2, d1, d2

Attempts == {c1, c2}
Digests == {d1, d2}

=============================================================================
