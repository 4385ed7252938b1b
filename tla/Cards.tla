-------------------------------- MODULE Cards --------------------------------
(***************************************************************************)
(* What the approvals engine and those who wait on it agree about: a card  *)
(* is asked, it is decided or withdrawn, and an approved one is spent      *)
(* once.  A decision is told (approval.decided) in the step that takes it; *)
(* a withdrawal is told to nobody.                                         *)
(***************************************************************************)
CONSTANT Card

VARIABLES
    card,    \* where each card stands
    told     \* the cards whose decision was announced

cardVars == <<card, told>>

Decision == {"approved", "rejected", "expired"}

CardsInit ==
    /\ card = [c \in Card |-> "none"]
    /\ told = {}

\* A card is put up, and the open ones it replaces are withdrawn with it.
PutUp(c, replaced) ==
    /\ card[c] = "none"
    /\ \A b \in replaced : card[b] = "pending"
    /\ card' = [b \in Card |->
                  IF b = c THEN "pending" ELSE IF b \in replaced THEN "withdrawn" ELSE card[b]]
    /\ UNCHANGED told

Move(S, from, to) ==
    /\ \A c \in S : card[c] = from
    /\ card' = [c \in Card |-> IF c \in S THEN to ELSE card[c]]

\* Open cards are answered alone or together, or their time is up.
Answer(S, decision) ==
    /\ Move(S, "pending", decision)
    /\ told' = told \cup S

Retract(S) == Move(S, "pending", "withdrawn") /\ UNCHANGED told

Use(c) == Move({c}, "approved", "spent") /\ UNCHANGED told

CardsNext ==
    \/ \E c \in Card, replaced \in SUBSET Card : PutUp(c, replaced)
    \/ \E S \in SUBSET Card, decision \in Decision : Answer(S, decision)
    \/ \E S \in SUBSET Card : Retract(S)
    \/ \E c \in Card : Use(c)

CardsSpec == CardsInit /\ [][CardsNext]_cardVars

\* Who waits for a decision hears of every one, and of nothing else.
ToldIsDecided == told = {c \in Card : card[c] \in Decision \cup {"spent"}}

=============================================================================
