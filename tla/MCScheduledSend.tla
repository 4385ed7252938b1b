--------------------------- MODULE MCScheduledSend ---------------------------
(* ScheduledSend with two alarms and two sessions. *)
EXTENDS ScheduledSend, TLC

CONSTANTS a1, a2, r1, r2

Alarms == {a1, a2}
Reps == {r1, r2}

=============================================================================
