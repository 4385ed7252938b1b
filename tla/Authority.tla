------------------------------ MODULE Authority ------------------------------
(***************************************************************************)
(* What an approval promises to the people and agents around it: it is     *)
(* asked, it is granted or it is closed, and a granted one authorises one  *)
(* effect, once.  Nothing ever leaves "closed" or "done", and nothing is   *)
(* ever "misused".                                                         *)
(***************************************************************************)
CONSTANT Id

VARIABLE life

Life == {"none", "open", "granted", "closed", "spent", "done", "misused"}

AuthorityInit == life = [a \in Id |-> "none"]

Move(S, from, to) ==
    /\ \A a \in S : life[a] = from
    /\ life' = [a \in Id |-> IF a \in S THEN to ELSE life[a]]

\* A new question replaces the open ones about the same thing.
Ask(a, replaced) ==
    /\ life[a] = "none"
    /\ \A b \in replaced : life[b] = "open"
    /\ life' = [b \in Id |->
                  IF b = a THEN "open" ELSE IF b \in replaced THEN "closed" ELSE life[b]]

\* Open questions are answered together (a bundle) or alone.
Grant(S) == Move(S, "open", "granted")

Close(S) == Move(S, "open", "closed")

\* The authority is used up, its effect still to come.
Spend(a) == Move({a}, "granted", "spent")

\* The effect of an authority already used up.
Perform(a) == Move({a}, "spent", "done")

\* Both at once.
SpendAndPerform(a) == Move({a}, "granted", "done")

AuthorityNext ==
    \/ \E a \in Id, replaced \in SUBSET Id : Ask(a, replaced)
    \/ \E S \in SUBSET Id : Grant(S) \/ Close(S)
    \/ \E a \in Id : Spend(a) \/ Perform(a) \/ SpendAndPerform(a)

AuthoritySpec == AuthorityInit /\ [][AuthorityNext]_life

=============================================================================
