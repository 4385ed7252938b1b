---------------------------- MODULE MCAgentRunner ----------------------------
(* AgentRunner with two occurrences and two workers. *)
EXTENDS AgentRunner, TLC

CONSTANTS j1, j2, w1, w2, x1, x2

OneJob == {j1}
Jobs == {j1, j2}
Workers == {w1, w2}
OneCall == (j1 :> x1)
SharedCall == (j1 :> x1) @@ (j2 :> x1)

WorkerSymmetry == Permutations(Workers)

=============================================================================
