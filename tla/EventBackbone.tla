---------------------------- MODULE EventBackbone ----------------------------
(***************************************************************************)
(* The write backbone end to end: domain transactions, outbox, relay       *)
(* replicas, the stream, and one consumer group with its dedupe marks.     *)
(* Groups share nothing but the stream, so one stands for all.  An event's *)
(* id is the seq of the outbox row that carries it.                        *)
(***************************************************************************)
EXTENDS OutboxRelay

CONSTANTS Consumer, ReadCount, MinIdle, HandlerTime, MaxFaults, MaxExpiries

VARIABLES lastId, idle, phase, queue, after, cursor, elapsed, held, marks, effects, faults, expiries

RowEvent == 1 .. MaxRows

\* Emit validates every envelope before the outbox insert, so every entry decodes.
Group == INSTANCE ConsumerGroup
           WITH Event <- RowEvent, Undecodable <- {},
                MaxEntries <- MaxRows + MaxCrashes * MaxRows + MaxOutages

ASSUME BackboneAssumption == Group!GroupAssumption

ownGroupVars ==
    <<lastId, idle, phase, queue, after, cursor, elapsed, held, marks, effects, faults, expiries>>
backboneVars == <<relayVars, ownGroupVars>>

BackboneInit == RelayInit /\ Group!GroupInit

RelaySide == RelayNext /\ UNCHANGED ownGroupVars

GroupSide == Group!GroupStep /\ UNCHANGED <<txVars, passVars, faultVars>>

BackboneNext == RelaySide \/ GroupSide

BackboneSpec ==
    /\ BackboneInit
    /\ [][BackboneNext]_backboneVars
    /\ RelayFairness
    /\ Group!GroupFairness

-----------------------------------------------------------------------------
(* The backbone implements EventDelivery. *)

CommittedRows == {i \in DOMAIN rows : rows[i].tx = Committed}

EffectedRows == {i \in RowEvent : effects[i] > 0}

Abstract == INSTANCE EventDelivery
              WITH Event <- RowEvent, committed <- CommittedRows, effected <- EffectedRows

\* Relay crashes, bus outages, unheard answers, failed handlers, failed marks, lost acks and
\* dead consumers neither lose a committed event nor run the effect of one
\* that rolled back, as long as MAXLEN evicts nothing.
DeliversEveryCommittedEvent == Abstract!DeliverySpec

\* A committed event is always somewhere, whichever processes die: unstamped
\* in the outbox, unread in the stream, pending in the group, evicted by MAXLEN,
\* or done (relayBatch stamps after XADD, deliver acks after the handler).
NothingIsLost ==
    \A i \in CommittedRows :
        \/ ~rows[i].published
        \/ effects[i] > 0
        \/ \E p \in Copies(i) : p <= trimmed \/ p > lastId \/ p \in Group!Pending

=============================================================================
