--------------------------- MODULE BackboneProofs ---------------------------
(***************************************************************************)
(* The write backbone end to end, for any number of writers, relays,       *)
(* replicas, rows and faults: what takes effect was committed, nothing     *)
(* committed is lost on the way, and no copy of an event runs its effect   *)
(* without a reason.  The group's own invariants are those of GroupProofs, *)
(* for the stream the relays write.                                        *)
(***************************************************************************)
EXTENDS EventBackbone, OutboxProofs

GP == INSTANCE GroupProofs
        WITH Event <- RowEvent, Undecodable <- {},
             MaxEntries <- MaxRows + MaxCrashes * MaxRows + MaxOutages

\* The outbox holds no more rows than its bound, so every seq is an event.
RowsAreEvents == DOMAIN rows \subseteq RowEvent

\* The inductive invariant: the outbox's, the group's, and what joins them.
BackboneInv ==
    /\ OutboxInv
    /\ RowsAreEvents
    /\ GP!AckInv
    /\ GP!RunsInv

-----------------------------------------------------------------------------
(* The group of EventBackbone is the group the proofs are about.           *)

\* Its constants are what EventBackbone instances the group with.
LEMMA SameAssumption == GP!GroupAssumption
  BY BackboneAssumption DEF Group!GroupAssumption, GP!GroupAssumption,
     Group!IsFiniteSet, GP!IsFiniteSet

\* Its start (the group is created before anything arrives).
LEMMA SameInit == ASSUME Group!GroupInit PROVE GP!GroupInit
  BY DEF Group!GroupInit, GP!GroupInit

\* The two fetches.
LEMMA SameFetch ==
    ASSUME NEW c \in Consumer, Group!Reclaim(c) \/ Group!Read(c)
    PROVE  GP!Reclaim(c) \/ GP!Read(c)
  <1>1. CASE Group!Reclaim(c)
    BY <1>1 DEF Group!Reclaim, GP!Reclaim, Group!Pending, GP!Pending, Group!Stale, GP!Stale,
       Group!FirstPage, GP!FirstPage, Group!Cardinality, GP!Cardinality, Group!Max, GP!Max,
       Group!Fetched, GP!Fetched, Group!arrivalVars, GP!arrivalVars,
       Group!effectVars, GP!effectVars, Group!budgetVars, GP!budgetVars
  <1>2. CASE Group!Read(c)
    BY <1>2 DEF Group!Read, GP!Read, Group!Fresh, GP!Fresh, Group!Pending, GP!Pending,
       Group!FirstPage, GP!FirstPage, Group!Cardinality, GP!Cardinality, Group!Max, GP!Max,
       Group!Reset, GP!Reset, Group!Fetched, GP!Fetched, Group!arrivalVars, GP!arrivalVars,
       Group!effectVars, GP!effectVars, Group!budgetVars, GP!budgetVars
  <1> QED
    BY <1>1, <1>2

\* A turn of one delivery.
LEMMA SameTurn ==
    ASSUME NEW c \in Consumer,
           \/ Group!ReadTimesOut(c) \/ Group!Skip(c) \/ Group!Start(c) \/ Group!Mark(c)
           \/ Group!Ack(c)
    PROVE  GP!ReadTimesOut(c) \/ GP!Skip(c) \/ GP!Start(c) \/ GP!Mark(c) \/ GP!Ack(c)
  <1> USE DEF Group!Goto, GP!Goto, Group!Current, GP!Current, Group!CurrentEvent,
          GP!CurrentEvent, Group!Min, GP!Min, Group!arrivalVars, GP!arrivalVars,
          Group!pelVars, GP!pelVars, Group!effectVars, GP!effectVars,
          Group!budgetVars, GP!budgetVars
  <1>1. Group!ReadTimesOut(c) => GP!ReadTimesOut(c)
    BY DEF Group!ReadTimesOut, GP!ReadTimesOut, Group!Fresh, GP!Fresh
  <1>2. Group!Skip(c) => GP!Skip(c)
    BY DEF Group!Skip, GP!Skip
  <1>3. Group!Start(c) => GP!Start(c)
    BY DEF Group!Start, GP!Start
  <1>4. Group!Mark(c) => GP!Mark(c)
    BY DEF Group!Mark, GP!Mark
  <1>5. Group!Ack(c) => GP!Ack(c)
    BY DEF Group!Ack, GP!Ack, Group!Forget, GP!Forget, Group!Pending, GP!Pending,
       Group!Advance, GP!Advance
  <1> QED
    BY <1>1, <1>2, <1>3, <1>4, <1>5

\* The handler's return.
LEMMA SameEffect == ASSUME NEW c \in Consumer, Group!Effect(c) PROVE GP!Effect(c)
  BY DEF Group!Effect, GP!Effect, Group!Goto, GP!Goto, Group!Current, GP!Current,
     Group!CurrentEvent, GP!CurrentEvent, Group!Min, GP!Min, Group!arrivalVars, GP!arrivalVars,
     Group!pelVars, GP!pelVars, Group!budgetVars, GP!budgetVars

\* The faults.
LEMMA SameFault == ASSUME NEW c \in Consumer, Group!ConsumerFault(c) PROVE GP!ConsumerFault(c)
  <1> USE DEF Group!Fails, GP!Fails, Group!arrivalVars, GP!arrivalVars, Group!pelVars, GP!pelVars,
          Group!effectVars, GP!effectVars
  <1>1. Group!ReclaimFails(c) => GP!ReclaimFails(c)
    BY DEF Group!ReclaimFails, GP!ReclaimFails
  <1>2. Group!ReadFails(c) => GP!ReadFails(c)
    BY DEF Group!ReadFails, GP!ReadFails, Group!Goto, GP!Goto
  <1>3. Group!DeliveryFails(c) => GP!DeliveryFails(c)
    BY DEF Group!DeliveryFails, GP!DeliveryFails, Group!Advance, GP!Advance,
       Group!Current, GP!Current, Group!Min, GP!Min
  <1>4. Group!AckFails(c) => GP!AckFails(c)
    BY DEF Group!AckFails, GP!AckFails, Group!Advance, GP!Advance,
       Group!Current, GP!Current, Group!Min, GP!Min
  <1>5. Group!ConsumerCrash(c) => GP!ConsumerCrash(c)
    BY DEF Group!ConsumerCrash, GP!ConsumerCrash, Group!Delivering, GP!Delivering
  <1> QED
    BY <1>1, <1>2, <1>3, <1>4, <1>5 DEF Group!ConsumerFault, GP!ConsumerFault

\* Time, and the marks' expiry.
LEMMA SameWorld ==
    ASSUME Group!Tick \/ \E e \in RowEvent : Group!MarkExpires(e)
    PROVE  GP!Tick \/ \E e \in RowEvent : GP!MarkExpires(e)
  <1> USE DEF Group!arrivalVars, GP!arrivalVars, Group!effectVars, GP!effectVars,
          Group!budgetVars, GP!budgetVars
  <1>1. Group!Tick => GP!Tick
    BY DEF Group!Tick, GP!Tick, Group!Delivering, GP!Delivering, Group!Pending, GP!Pending,
       Group!OneTickOlder, GP!OneTickOlder
  <1>2. \A e \in RowEvent : Group!MarkExpires(e) => GP!MarkExpires(e)
    BY DEF Group!MarkExpires, GP!MarkExpires, Group!pelVars, GP!pelVars,
       Group!loopVars, GP!loopVars
  <1> QED
    BY <1>1, <1>2

\* A step of the one is a step of the other, and leaves the stream alone.
LEMMA SameStep ==
    ASSUME Group!GroupStep
    PROVE  GP!GroupStep /\ GP!GroupNext /\ UNCHANGED <<stream, trimmed>>
  <1>1. ASSUME NEW c \in Consumer, Group!ConsumerStep(c) PROVE GP!ConsumerStep(c)
    BY <1>1, SameFetch, SameTurn, SameEffect DEF Group!ConsumerStep, GP!ConsumerStep
  <1>2. GP!GroupStep
    BY <1>1, SameFault, SameWorld DEF Group!GroupStep, GP!GroupStep
  <1>3. UNCHANGED <<stream, trimmed>>
    <2> USE DEF GP!arrivalVars
    <2>1. ASSUME NEW c \in Consumer, GP!ConsumerStep(c) PROVE UNCHANGED <<stream, trimmed>>
      BY <2>1 DEF GP!ConsumerStep, GP!Reclaim, GP!Read, GP!ReadTimesOut, GP!Skip, GP!Start,
         GP!Effect, GP!Mark, GP!Ack
    <2>2. ASSUME NEW c \in Consumer, GP!ConsumerFault(c) PROVE UNCHANGED <<stream, trimmed>>
      BY <2>2 DEF GP!ConsumerFault, GP!ReclaimFails, GP!ReadFails, GP!DeliveryFails, GP!AckFails,
         GP!ConsumerCrash
    <2>3. GP!Tick \/ (\E e \in RowEvent : GP!MarkExpires(e)) => UNCHANGED <<stream, trimmed>>
      BY DEF GP!Tick, GP!MarkExpires
    <2> QED
      BY <1>2, <2>1, <2>2, <2>3 DEF GP!GroupStep
  <1> QED
    BY <1>2, <1>3 DEF GP!GroupNext

-----------------------------------------------------------------------------
(* Steps of the relay's side. *)

\* The end of a transaction commits all of its rows or none, and no other.
LEMMA EndOfTx ==
    ASSUME OutboxInv, NEW w \in Writer, NEW outcome \in {Committed, Aborted}, EndTx(w, outcome)
    PROVE  /\ DOMAIN rows' = DOMAIN rows
           /\ OpenRows(w) # {} /\ OpenRows(w) \subseteq DOMAIN rows \ CommittedRows
           /\ CommittedRows' = IF outcome = Committed THEN CommittedRows \cup OpenRows(w)
                               ELSE CommittedRows
  <1>1. rows \in Seq(RowType)
    BY DEF OutboxInv, OutboxTypes
  <1>2. /\ OpenRows(w) # {}
        /\ rows' = [i \in DOMAIN rows |->
                      IF rows[i].tx = w THEN [rows[i] EXCEPT !.tx = outcome] ELSE rows[i]]
    BY DEF EndTx
  <1>3. DOMAIN rows' = DOMAIN rows
    BY <1>2
  <1>4. w # Committed /\ Committed # Aborted
    BY RelayAssumption DEF Committed, Aborted
  <1>5. OpenRows(w) \subseteq DOMAIN rows \ CommittedRows
    BY <1>4 DEF OpenRows, CommittedRows
  <1>6. \A i \in DOMAIN rows : rows[i] \in RowType
    BY <1>1, SeqDomain
  <1>7. \A i \in DOMAIN rows :
          rows'[i].tx = IF i \in OpenRows(w) THEN outcome ELSE rows[i].tx
    BY <1>2, <1>6 DEF OpenRows, RowType
  <1> QED
    BY <1>2, <1>3, <1>4, <1>5, <1>7 DEF CommittedRows, OpenRows

\* What a step of the relay's side does to the rows: it commits new events, or
\* it commits nothing (Emit, Commit, Rollback and the relay pass).
LEMMA RelaySideRows ==
    ASSUME OutboxInv, RowsAreEvents, RelayNext
    PROVE  /\ RowsAreEvents'
           /\ \/ CommittedRows' = CommittedRows
              \/ \E S \in SUBSET (RowEvent \ CommittedRows) :
                   S # {} /\ CommittedRows' = CommittedRows \cup S
  <1>1. rows \in Seq(RowType) /\ DOMAIN rows = 1 .. Len(rows) /\ Len(rows) \in Nat
    BY SeqDomain DEF OutboxInv, OutboxTypes
  <1>2. ASSUME NEW w \in Writer, Commit(w)
        PROVE  /\ RowsAreEvents'
               /\ \E S \in SUBSET (RowEvent \ CommittedRows) :
                    S # {} /\ CommittedRows' = CommittedRows \cup S
    <2>1. EndTx(w, Committed)
      BY <1>2 DEF Commit
    <2>2. /\ DOMAIN rows' = DOMAIN rows /\ OpenRows(w) # {}
          /\ OpenRows(w) \subseteq DOMAIN rows \ CommittedRows
          /\ CommittedRows' = CommittedRows \cup OpenRows(w)
      BY <2>1, EndOfTx
    <2> QED
      BY <2>2 DEF RowsAreEvents, RowEvent
  <1>3. ASSUME NEW w \in Writer, Rollback(w)
        PROVE  RowsAreEvents' /\ CommittedRows' = CommittedRows
    <2>1. EndTx(w, Aborted) /\ Aborted # Committed
      BY <1>3 DEF Rollback, Aborted, Committed
    <2>2. DOMAIN rows' = DOMAIN rows /\ CommittedRows' = CommittedRows
      BY <2>1, EndOfTx
    <2> QED
      BY <2>2 DEF RowsAreEvents, RowEvent
  <1>4. ASSUME NEW w \in Writer, NEW e \in Entity, Emit(w, e)
        PROVE  RowsAreEvents' /\ CommittedRows' = CommittedRows
    <2> DEFINE new == [entity |-> e, tx |-> w, published |-> FALSE]
    <2>1. Len(rows) < MaxRows /\ rows' = Append(rows, new)
      BY <1>4 DEF Emit
    <2>2. new \in RowType /\ new.tx = w /\ w # Committed
      BY RelayAssumption DEF RowType
    <2> HIDE DEF new
    <2>3. /\ DOMAIN rows' = 1 .. Len(rows) + 1
          /\ \A i \in DOMAIN rows : i \in DOMAIN rows' /\ rows'[i] = rows[i]
          /\ rows'[Len(rows) + 1] = new
      BY <1>1, <2>1, <2>2, AppendKeeps
    <2>4. \A i \in DOMAIN rows' : i \in DOMAIN rows \/ i = Len(rows) + 1
      BY <1>1, <2>3
    <2>5. CommittedRows' = CommittedRows
      BY <2>2, <2>3, <2>4 DEF CommittedRows
    <2>6. 1 .. Len(rows) + 1 \subseteq 1 .. MaxRows
      BY <1>1, <2>1, RelayAssumption
    <2> QED
      BY <2>3, <2>5, <2>6 DEF RowsAreEvents, RowEvent
  <1>5. ASSUME NEW r \in Relay, Stamp(r)
        PROVE  RowsAreEvents' /\ CommittedRows' = CommittedRows
    <2>1. rows' = [i \in DOMAIN rows |->
                     IF i \in shipped[r] THEN [rows[i] EXCEPT !.published = TRUE] ELSE rows[i]]
      BY <1>5 DEF Stamp, SetPublished
    <2>2. \A i \in DOMAIN rows : rows[i] \in RowType
      BY <1>1, SeqDomain
    <2>3. DOMAIN rows' = DOMAIN rows /\ \A i \in DOMAIN rows : rows'[i].tx = rows[i].tx
      BY <2>1, <2>2 DEF RowType
    <2> QED
      BY <2>3 DEF RowsAreEvents, RowEvent, CommittedRows
  <1>6. ASSUME NEW r \in Relay,
               Claim(r) \/ XAdd(r) \/ XAddFails(r) \/ XAddUnheard(r) \/ RelayCrash(r)
        PROVE  RowsAreEvents' /\ CommittedRows' = CommittedRows
    <2>1. rows' = rows
      BY <1>6 DEF Claim, XAdd, XAddFails, XAddUnheard, RelayCrash, txVars
    <2> QED
      BY <2>1 DEF RowsAreEvents, RowEvent, CommittedRows
  <1> QED
    BY <1>2, <1>3, <1>4, <1>5, <1>6 DEF RelayNext, WriterNext, RelayStep

\* The greater of two numbers is one of them (MAXLEN's bound).
LEMMA MaxOfTwo ==
    ASSUME NEW a \in Int, NEW b \in Int
    PROVE  Max({a, b}) \in {a, b}
  <1>1. \E x \in {a, b} : \A y \in {a, b} : x >= y
    OBVIOUS
  <1> QED
    BY <1>1 DEF Max

\* Seen from the group, a step of the relay's side adds one entry, evicts some,
\* or does nothing (XADD with MAXLEN ~).
LEMMA RelaySideGrows ==
    ASSUME BackboneInv, RelayNext, UNCHANGED ownGroupVars
    PROVE  GP!StreamGrows
  <1>1. /\ stream \in Seq(RowEvent) /\ trimmed \in 0 .. Len(stream) /\ Len(stream) \in Nat
    BY DEF BackboneInv, GP!AckInv, GP!GroupTypeOK
  <1>2. UNCHANGED <<GP!pelVars, GP!loopVars, GP!effectVars, GP!budgetVars>>
    BY DEF ownGroupVars, GP!pelVars, GP!loopVars, GP!effectVars, GP!budgetVars
  <1>3. CASE UNCHANGED <<stream, trimmed>>
    BY <1>1, <1>2, <1>3 DEF GP!StreamGrows
  <1>4. ASSUME NEW r \in Relay, XAdd(r) \/ XAddUnheard(r) PROVE GP!StreamGrows
    <2>1. PICK i \in Unsent(r) : stream' = Append(stream, i)
      BY <1>4 DEF XAdd, XAddUnheard, NextUnsent, AddEntry
    <2>2. i \in RowEvent
      BY <2>1 DEF BackboneInv, RowsAreEvents, OutboxInv, HeldWasCommitted, Unsent
    <2>3. /\ stream' \in Seq(RowEvent) /\ Len(stream') = Len(stream) + 1
          /\ \A p \in 1 .. Len(stream) : stream'[p] = stream[p]
      BY <1>1, <2>1, <2>2
    <2>4. trimmed' \in trimmed .. Max({trimmed, Len(stream) + 1 - MaxLen})
      BY <1>4 DEF XAdd, XAddUnheard, AddEntry
    <2>5. trimmed \in Int /\ Len(stream) + 1 - MaxLen \in Int
          /\ trimmed <= Len(stream) /\ Len(stream) + 1 - MaxLen <= Len(stream)
      BY <1>1, RelayAssumption
    <2>6. /\ Max({trimmed, Len(stream) + 1 - MaxLen}) \in Int
          /\ Max({trimmed, Len(stream) + 1 - MaxLen}) <= Len(stream)
      BY ONLY <2>5, MaxOfTwo
    <2>7. trimmed' \in trimmed .. Len(stream')
      BY <1>1, <2>3, <2>4, <2>5, <2>6
    <2> QED
      BY <1>1, <1>2, <2>3, <2>7 DEF GP!StreamGrows
  <1>5. ASSUME NEW w \in Writer, Commit(w) \/ Rollback(w) \/ \E e \in Entity : Emit(w, e)
        PROVE  UNCHANGED <<stream, trimmed>>
    BY <1>5 DEF Commit, Rollback, Emit, EndTx, busVars
  <1>6. ASSUME NEW r \in Relay, Claim(r) \/ Stamp(r) \/ XAddFails(r) \/ RelayCrash(r)
        PROVE  UNCHANGED <<stream, trimmed>>
    BY <1>6 DEF Claim, Stamp, XAddFails, RelayCrash, busVars
  <1> QED
    BY <1>3, <1>4, <1>5, <1>6 DEF RelayNext, WriterNext, RelayStep

-----------------------------------------------------------------------------
(* The invariant. *)

\* It holds of an empty outbox and a group that has read nothing.
LEMMA BackboneInvInit == BackboneInit => BackboneInv
  <1> SUFFICES ASSUME BackboneInit PROVE BackboneInv
    OBVIOUS
  <1>1. OutboxInv
    BY OutboxInvInit DEF BackboneInit
  <1>2. RowsAreEvents
    BY DEF BackboneInit, RelayInit, RowsAreEvents
  <1>3. GP!GroupInit
    BY SameInit DEF BackboneInit
  <1>4. GP!AckInv
    BY <1>3, SameAssumption, GP!AckInvInit
  <1>5. GP!RunsInv
    BY <1>3, SameAssumption, GP!RunsInvInit
  <1> QED
    BY <1>1, <1>2, <1>4, <1>5 DEF BackboneInv

\* Each side keeps its own invariant, and leaves the other's alone.
LEMMA BackboneInvNext == BackboneInv /\ [BackboneNext]_backboneVars => BackboneInv'
  <1> SUFFICES ASSUME BackboneInv, [BackboneNext]_backboneVars PROVE BackboneInv'
    OBVIOUS
  <1>1. OutboxInv /\ RowsAreEvents /\ GP!AckInv /\ GP!RunsInv
    BY DEF BackboneInv
  <1>2. CASE RelaySide
    <2>1. RelayNext /\ UNCHANGED ownGroupVars
      BY <1>2 DEF RelaySide
    <2>2. OutboxInv'
      BY <1>1, <2>1, OutboxInvNext
    <2>3. RowsAreEvents'
      BY <1>1, <2>1, RelaySideRows
    <2>4. GP!StreamGrows
      BY <2>1, RelaySideGrows
    <2>5. GP!AckInv'
      BY <1>1, <2>4, SameAssumption, GP!GrowthKeepsAcks
    <2>6. GP!RunsInv'
      BY <1>1, <2>4, SameAssumption, GP!GrowthKeepsRuns
    <2> QED
      BY <2>2, <2>3, <2>5, <2>6 DEF BackboneInv
  <1>3. CASE GroupSide
    <2>1. Group!GroupStep /\ UNCHANGED <<rows, batch, shipped>>
      BY <1>3 DEF GroupSide, txVars, passVars
    <2>2. GP!GroupNext /\ UNCHANGED stream
      BY <2>1, SameStep
    <2>3. OutboxInv'
      BY <1>1, <2>1, <2>2, SameKeepsInv
    <2>4. RowsAreEvents'
      BY <1>1, <2>1 DEF RowsAreEvents, RowEvent
    <2>5. GP!AckInv'
      BY <1>1, <2>2, SameAssumption, GP!AckInvNext
    <2>6. GP!RunsInv'
      BY <1>1, <2>2, SameAssumption, GP!RunsInvNext
    <2> QED
      BY <2>3, <2>4, <2>5, <2>6 DEF BackboneInv
  <1>4. CASE UNCHANGED backboneVars
    <2>1. UNCHANGED relayVars /\ UNCHANGED ownGroupVars
      BY <1>4 DEF backboneVars
    <2>2. OutboxInv'
      BY <1>1, <2>1, OutboxInvNext
    <2>3. RowsAreEvents'
      BY <1>1, <2>1 DEF RowsAreEvents, RowEvent, relayVars, txVars
    <2>4. UNCHANGED GP!groupVars
      BY <2>1 DEF GP!groupVars, GP!arrivalVars, GP!pelVars, GP!loopVars, GP!effectVars,
         GP!budgetVars, ownGroupVars, relayVars, busVars
    <2>5. GP!AckInv'
      BY <1>1, <2>4, SameAssumption, GP!AckInvNext
    <2>6. GP!RunsInv'
      BY <1>1, <2>4, SameAssumption, GP!RunsInvNext
    <2> QED
      BY <2>2, <2>3, <2>5, <2>6 DEF BackboneInv
  <1> QED
    BY <1>2, <1>3, <1>4 DEF BackboneNext

\* So it holds always, whoever moves and whatever fails.
LEMMA BackboneInvAlways == BackboneSpec => []BackboneInv
  BY BackboneInvInit, BackboneInvNext, PTL DEF BackboneSpec

-----------------------------------------------------------------------------
(* The abstract specification, step by step. *)

\* A step of the group runs the effect of one committed event, or none.
LEMMA GroupSideRefines ==
    ASSUME BackboneInv, GroupSide
    PROVE  Abstract!DeliveryNext \/ UNCHANGED <<CommittedRows, EffectedRows>>
  <1>1. Group!GroupStep /\ CommittedRows' = CommittedRows
    BY DEF GroupSide, txVars, CommittedRows
  <1>2. GP!GroupTypeOK /\ effects \in [RowEvent -> Nat]
    BY DEF BackboneInv, GP!AckInv, GP!GroupTypeOK
  <1>3. ASSUME NEW c \in Consumer, GP!Effect(c)
        PROVE  Abstract!DeliveryNext \/ EffectedRows' = EffectedRows
    <2> DEFINE e == GP!CurrentEvent(c)
    <2>1. phase[c] \in GP!Delivering
      BY <1>3 DEF GP!Effect, GP!Delivering
    <2>2. GP!Current(c) \in DOMAIN stream /\ e \in RowEvent
      <3>1. GP!Current(c) \in 1 .. lastId /\ e \in RowEvent
        BY <1>2, <2>1, SameAssumption, GP!CurrentIsHeld
      <3>2. stream \in Seq(RowEvent) /\ lastId \in 0 .. Len(stream)
        BY <1>2 DEF GP!GroupTypeOK
      <3> HIDE DEF e
      <3> QED
        BY <3>1, <3>2
    <2>3. e \in CommittedRows
      BY <2>2 DEF BackboneInv, OutboxInv, StreamIsCommitted, CommittedRows, GP!CurrentEvent
    <2>4. effects' = [effects EXCEPT ![e] = @ + 1]
      BY <1>3 DEF GP!Effect
    <2> HIDE DEF e
    <2>5. EffectedRows' = EffectedRows \cup {e}
      BY <1>2, <2>2, <2>4 DEF EffectedRows
    <2>6. CASE e \in EffectedRows
      BY <2>5, <2>6
    <2>7. CASE e \notin EffectedRows
      BY <1>1, <2>2, <2>3, <2>5, <2>7 DEF Abstract!DeliveryNext, Abstract!TakeEffect
    <2> QED
      BY <2>6, <2>7
  <1>4. CASE effects' = effects
    BY <1>1, <1>4 DEF EffectedRows
  <1>5. GP!GroupStep
    BY <1>1, SameStep
  <1>6. ASSUME NEW c \in Consumer, GP!ConsumerStep(c), ~GP!Effect(c) PROVE effects' = effects
    BY <1>6 DEF GP!ConsumerStep, GP!Reclaim, GP!Read, GP!ReadTimesOut, GP!Skip, GP!Start,
       GP!Mark, GP!Ack, GP!effectVars
  <1>7. ASSUME NEW c \in Consumer, GP!ConsumerFault(c) PROVE effects' = effects
    BY <1>7 DEF GP!ConsumerFault, GP!ReclaimFails, GP!ReadFails, GP!DeliveryFails, GP!AckFails,
       GP!ConsumerCrash, GP!effectVars
  <1>8. GP!Tick \/ (\E e \in RowEvent : GP!MarkExpires(e)) => effects' = effects
    BY DEF GP!Tick, GP!MarkExpires, GP!effectVars
  <1> QED
    BY <1>1, <1>3, <1>4, <1>5, <1>6, <1>7, <1>8 DEF GP!GroupStep

\* Relay crashes, bus outages, unheard answers, failed handlers, failed marks, lost acks and
\* dead replicas never run the effect of an event that did not commit, and
\* never take an effect back: the safety part of the abstract delivery.
THEOREM BackboneImplementsDelivery ==
    BackboneSpec => Abstract!DeliveryInit /\ [][Abstract!DeliveryNext]_(Abstract!deliveryVars)
  <1>1. BackboneInit => Abstract!DeliveryInit
    BY DEF BackboneInit, RelayInit, Group!GroupInit, Abstract!DeliveryInit, CommittedRows,
       EffectedRows
  <1>2. BackboneInv /\ [BackboneNext]_backboneVars => [Abstract!DeliveryNext]_(Abstract!deliveryVars)
    <2> SUFFICES ASSUME BackboneInv, [BackboneNext]_backboneVars
                 PROVE  Abstract!DeliveryNext \/ UNCHANGED <<CommittedRows, EffectedRows>>
      BY DEF Abstract!deliveryVars
    <2>1. CASE RelaySide
      <3>1. RelayNext /\ EffectedRows' = EffectedRows
        BY <2>1 DEF RelaySide, ownGroupVars, EffectedRows
      <3>2. \/ CommittedRows' = CommittedRows
            \/ \E S \in SUBSET (RowEvent \ CommittedRows) :
                 S # {} /\ CommittedRows' = CommittedRows \cup S
        BY <3>1, RelaySideRows DEF BackboneInv
      <3> QED
        BY <3>1, <3>2 DEF Abstract!DeliveryNext, Abstract!CommitEvents
    <2>2. CASE GroupSide
      BY <2>2, GroupSideRefines
    <2>3. CASE UNCHANGED backboneVars
      BY <2>3 DEF backboneVars, relayVars, txVars, ownGroupVars, CommittedRows, EffectedRows
    <2> QED
      BY <2>1, <2>2, <2>3 DEF BackboneNext
  <1> QED
    BY <1>1, <1>2, BackboneInvAlways, PTL DEF BackboneSpec

\* A committed event is always unstamped, unread, pending, evicted or done: a
\* stamp follows the XADD, an ack the effect (relayBatch, deliver).
THEOREM NothingIsLostOnTheWay == BackboneSpec => []NothingIsLost
  <1>1. BackboneInv => NothingIsLost
    <2> SUFFICES ASSUME BackboneInv, NEW i \in CommittedRows, rows[i].published, ~(effects[i] > 0)
                 PROVE  \E p \in Copies(i) : p <= trimmed \/ p > lastId \/ p \in Group!Pending
      BY DEF NothingIsLost
    <2>1. PICK p \in DOMAIN stream : stream[p] = i
      BY DEF BackboneInv, OutboxInv, PublishedIsInStream, InStream, CommittedRows
    <2>2. /\ GP!AckedMeansEffectRan /\ stream \in Seq(RowEvent)
          /\ trimmed \in Nat /\ lastId \in Nat
      BY DEF BackboneInv, GP!AckInv, GP!GroupTypeOK
    <2>3. p \in Nat /\ p \in Copies(i)
      BY <2>1, <2>2 DEF Copies
    <2>4. CASE p <= trimmed \/ p > lastId
      BY <2>3, <2>4
    <2>5. CASE p > trimmed /\ p <= lastId
      <3>1. p \in trimmed + 1 .. lastId
        BY <2>2, <2>3, <2>5
      <3>2. p \in GP!Pending
        BY <2>1, <2>2, <3>1 DEF GP!AckedMeansEffectRan
      <3> QED
        BY <2>3, <3>2 DEF GP!Pending, Group!Pending
    <2> QED
      BY <2>2, <2>3, <2>4, <2>5
  <1> QED
    BY <1>1, BackboneInvAlways, PTL

\* However often crashing relays copy a row, its effect runs at most once for
\* each replica, fault and expired mark: the marks absorb what the relay's
\* at-least-once shipping duplicates (Dedupe over relayBatch).
THEOREM CopiesAreAbsorbed == BackboneSpec => []Group!RerunsAreAccounted
  <1>1. BackboneInv => Group!RerunsAreAccounted
    <2> SUFFICES ASSUME BackboneInv PROVE Group!RerunsAreAccounted
      OBVIOUS
    <2>1. GP!RerunsAreAccounted
      BY SameAssumption, GP!CountBoundsRuns DEF BackboneInv
    <2> QED
      BY <2>1 DEF Group!RerunsAreAccounted, GP!RerunsAreAccounted, Group!Cardinality, GP!Cardinality
  <1> QED
    BY <1>1, BackboneInvAlways, PTL

=============================================================================
