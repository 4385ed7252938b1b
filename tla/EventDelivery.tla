---------------------------- MODULE EventDelivery ----------------------------
(***************************************************************************)
(* What the event backbone promises a consumer group, with no outbox, no   *)
(* bus and no failure in sight: an event takes effect only once its        *)
(* transaction has committed, and every committed event takes effect.      *)
(***************************************************************************)
CONSTANT Event

VARIABLES
    committed,   \* events whose transaction committed
    effected     \* events whose effect has run at least once in the group

deliveryVars == <<committed, effected>>

DeliveryInit == committed = {} /\ effected = {}

\* One transaction commits all the events it emitted.
CommitEvents ==
    /\ \E S \in SUBSET (Event \ committed) : S # {} /\ committed' = committed \cup S
    /\ UNCHANGED effected

TakeEffect(e) ==
    /\ e \in committed \ effected
    /\ effected' = effected \cup {e}
    /\ UNCHANGED committed

DeliveryNext == CommitEvents \/ (\E e \in Event : TakeEffect(e))

DeliverySpec ==
    /\ DeliveryInit
    /\ [][DeliveryNext]_deliveryVars
    /\ \A e \in Event : WF_deliveryVars(TakeEffect(e))

=============================================================================
