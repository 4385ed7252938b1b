---------------------------- MODULE OutboxProofs ----------------------------
(***************************************************************************)
(* What the outbox never does, for any number of writers, replicas, rows   *)
(* and faults: stamp what it did not ship, ship what did not commit, copy  *)
(* a row for nothing, or draw seqs against   the order of the commits.   *)
(***************************************************************************)
EXTENDS OutboxRelay, FiniteSetTheorems, TLAPS

\* The types these proofs need; the commit history plays no part in them.
OutboxTypes ==
    /\ rows \in Seq(RowType)
    /\ batch \in [Relay -> SUBSET Nat]
    /\ shipped \in [Relay -> SUBSET Nat]
    /\ stream \in Seq(Nat)

InStream(i) == \E p \in DOMAIN stream : stream[p] = i

\* A row a relay holds is committed: SKIP LOCKED selects no other, and nothing
\* takes a commit back.
HeldWasCommitted ==
    \A r \in Relay : \A i \in batch[r] : i \in DOMAIN rows /\ rows[i].tx = Committed

\* What a relay believes it shipped, it holds and the stream has.
ShippedIsInStream ==
    \A r \in Relay : \A i \in shipped[r] : i \in batch[r] /\ InStream(i)

PublishedIsInStream == \A i \in DOMAIN rows : rows[i].published => InStream(i)

StreamIsCommitted ==
    \A p \in DOMAIN stream : stream[p] \in DOMAIN rows /\ rows[stream[p]].tx = Committed

\* The inductive invariant.
OutboxInv ==
    /\ OutboxTypes
    /\ HeldWasCommitted
    /\ ShippedIsInStream
    /\ PublishedIsInStream
    /\ StreamIsCommitted

-----------------------------------------------------------------------------
(* Sequences. *)

\* A sequence's elements, by index.
LEMMA SeqDomain ==
    ASSUME NEW S, NEW s \in Seq(S)
    PROVE  DOMAIN s = 1 .. Len(s) /\ Len(s) \in Nat /\ \A i \in DOMAIN s : s[i] \in S
  OBVIOUS

\* Appending keeps the earlier elements where they are.
LEMMA AppendKeeps ==
    ASSUME NEW S, NEW s \in Seq(S), NEW x \in S
    PROVE  /\ Append(s, x) \in Seq(S)
           /\ DOMAIN Append(s, x) = 1 .. Len(s) + 1
           /\ \A i \in DOMAIN s : i \in DOMAIN Append(s, x) /\ Append(s, x)[i] = s[i]
           /\ Append(s, x)[Len(s) + 1] = x
  OBVIOUS

\* Rewriting a sequence in place keeps it a sequence.
LEMMA RewriteKeeps ==
    ASSUME NEW S, NEW s \in Seq(S), NEW g \in [DOMAIN s -> S]
    PROVE  g \in Seq(S) /\ DOMAIN g = DOMAIN s
  OBVIOUS

-----------------------------------------------------------------------------
(* Steps that leave the bus and the passes alone. *)

\* Rows may be added, and rows in flight may settle, as long as a committed
\* row stays committed and nothing becomes published.
LEMMA WriterKeepsInv ==
    ASSUME OutboxInv,
           UNCHANGED <<passVars, busVars>>,
           rows' \in Seq(RowType),
           DOMAIN rows \subseteq DOMAIN rows',
           \A i \in DOMAIN rows : rows[i].tx = Committed => rows'[i].tx = Committed,
           \A i \in DOMAIN rows' : rows'[i].published => i \in DOMAIN rows /\ rows[i].published
    PROVE  OutboxInv'
  <1> USE DEF OutboxInv, passVars, busVars
  <1>1. OutboxTypes'
    BY DEF OutboxTypes
  <1>2. HeldWasCommitted'
    BY DEF HeldWasCommitted
  <1>3. ShippedIsInStream' /\ PublishedIsInStream'
    BY DEF ShippedIsInStream, PublishedIsInStream, InStream
  <1>4. StreamIsCommitted'
    BY DEF StreamIsCommitted
  <1> QED
    BY <1>1, <1>2, <1>3, <1>4

\* An outbox INSERT adds an open, unpublished row (storekit.Emit).
LEMMA EmitKeepsInv ==
    ASSUME OutboxInv, NEW w \in Writer, NEW e \in Entity, Emit(w, e)
    PROVE  OutboxInv'
  <1> DEFINE new == [entity |-> e, tx |-> w, published |-> FALSE]
  <1>1. rows \in Seq(RowType) /\ new \in RowType /\ rows' = Append(rows, new)
    BY DEF OutboxInv, OutboxTypes, Emit, RowType
  <1>2. new.published = FALSE
    OBVIOUS
  <1> HIDE DEF new
  <1>3. /\ rows' \in Seq(RowType)
        /\ DOMAIN rows' = 1 .. Len(rows) + 1
        /\ \A i \in DOMAIN rows : i \in DOMAIN rows' /\ rows'[i] = rows[i]
        /\ rows'[Len(rows) + 1] = new
    BY <1>1, AppendKeeps
  <1>4. DOMAIN rows = 1 .. Len(rows) /\ Len(rows) \in Nat
    BY <1>1, SeqDomain
  <1>5. \A i \in DOMAIN rows' : rows'[i].published => i \in DOMAIN rows /\ rows[i].published
    BY <1>2, <1>3, <1>4
  <1>6. UNCHANGED <<passVars, busVars>>
    BY DEF Emit
  <1> QED
    BY <1>3, <1>5, <1>6, WriterKeepsInv

\* Ending a transaction touches none of the committed rows (Commit, Rollback).
LEMMA EndTxKeepsInv ==
    ASSUME OutboxInv, NEW w \in Writer, NEW outcome \in {Committed, Aborted}, EndTx(w, outcome)
    PROVE  OutboxInv'
  <1>1. rows \in Seq(RowType)
    BY DEF OutboxInv, OutboxTypes
  <1>2. \A i \in DOMAIN rows : rows[i] \in RowType
    BY <1>1, SeqDomain
  <1>3. rows' = [i \in DOMAIN rows |->
                   IF rows[i].tx = w THEN [rows[i] EXCEPT !.tx = outcome] ELSE rows[i]]
    BY DEF EndTx
  <1>4. rows' \in [DOMAIN rows -> RowType]
    BY <1>2, <1>3 DEF RowType
  <1>5. rows' \in Seq(RowType) /\ DOMAIN rows' = DOMAIN rows
    BY <1>1, <1>4, RewriteKeeps
  <1>6. \A i \in DOMAIN rows : rows[i].tx = Committed => rows'[i].tx = Committed
    BY <1>3, RelayAssumption
  <1>7. \A i \in DOMAIN rows' : rows'[i].published => i \in DOMAIN rows /\ rows[i].published
    BY <1>2, <1>3, <1>5 DEF RowType
  <1>8. UNCHANGED <<passVars, busVars>>
    BY DEF EndTx
  <1> QED
    BY <1>5, <1>6, <1>7, <1>8, WriterKeepsInv

-----------------------------------------------------------------------------
(* The relay pass. *)

\* A pass claims committed rows only (the SELECT of relayBatch).
LEMMA ClaimKeepsInv ==
    ASSUME OutboxInv, NEW r \in Relay, Claim(r)
    PROVE  OutboxInv'
  <1>1. UNCHANGED <<rows, shipped, stream>> /\ batch' = [batch EXCEPT ![r] = FirstBatch(Claimable)]
    BY DEF Claim, txVars, busVars
  <1>2. \A i \in FirstBatch(Claimable) : i \in DOMAIN rows /\ rows[i].tx = Committed
    BY DEF FirstBatch, Claimable
  <1>3. rows \in Seq(RowType)
    BY DEF OutboxInv, OutboxTypes
  <1>4. FirstBatch(Claimable) \subseteq Nat
    BY <1>2, <1>3, SeqDomain
  <1>5. shipped[r] = {}
    BY DEF OutboxInv, ShippedIsInStream, Claim, Idle
  <1>6. OutboxTypes'
    BY <1>1, <1>4 DEF OutboxInv, OutboxTypes
  <1>7. HeldWasCommitted'
    BY <1>1, <1>2 DEF OutboxInv, OutboxTypes, HeldWasCommitted
  <1>8. ShippedIsInStream'
    BY <1>1, <1>5 DEF OutboxInv, OutboxTypes, ShippedIsInStream, InStream
  <1>9. PublishedIsInStream' /\ StreamIsCommitted'
    BY <1>1 DEF OutboxInv, PublishedIsInStream, StreamIsCommitted, InStream
  <1> QED
    BY <1>6, <1>7, <1>8, <1>9 DEF OutboxInv

\* A shipped row is in the stream from then on (the XADD loop), whether or not
\* the relay hears of it.
LEMMA XAddKeepsInv ==
    ASSUME OutboxInv, NEW r \in Relay, XAdd(r) \/ XAddUnheard(r)
    PROVE  OutboxInv'
  <1>1. PICK i \in Unsent(r) :
          /\ stream' = Append(stream, i)
          /\ shipped' \in {shipped, [shipped EXCEPT ![r] = @ \cup {i}]}
    BY DEF XAdd, XAddUnheard, NextUnsent, AddEntry
  <1>2. UNCHANGED <<rows, batch>>
    BY DEF XAdd, XAddUnheard, txVars
  <1>3. i \in batch[r] /\ i \in Nat /\ i \in DOMAIN rows /\ rows[i].tx = Committed
    BY DEF Unsent, OutboxInv, OutboxTypes, HeldWasCommitted
  <1>4. stream \in Seq(Nat)
    BY DEF OutboxInv, OutboxTypes
  <1>5. /\ stream' \in Seq(Nat)
        /\ DOMAIN stream' = 1 .. Len(stream) + 1
        /\ \A p \in DOMAIN stream : p \in DOMAIN stream' /\ stream'[p] = stream[p]
        /\ stream'[Len(stream) + 1] = i
    BY <1>1, <1>3, <1>4, AppendKeeps
  <1>6. DOMAIN stream = 1 .. Len(stream) /\ Len(stream) \in Nat
    BY <1>4, SeqDomain
  <1>7. InStream(i)' /\ \A j : InStream(j) => InStream(j)'
    BY <1>5, <1>6 DEF InStream
  <1>8. OutboxTypes'
    BY <1>1, <1>2, <1>3, <1>5 DEF OutboxInv, OutboxTypes
  <1>9. HeldWasCommitted'
    BY <1>2 DEF OutboxInv, HeldWasCommitted
  <1>10. ShippedIsInStream'
    BY <1>1, <1>2, <1>3, <1>7 DEF OutboxInv, OutboxTypes, ShippedIsInStream
  <1>11. PublishedIsInStream'
    BY <1>2, <1>7 DEF OutboxInv, PublishedIsInStream
  <1>12. StreamIsCommitted'
    BY <1>2, <1>3, <1>5, <1>6 DEF OutboxInv, StreamIsCommitted
  <1> QED
    BY <1>8, <1>9, <1>10, <1>11, <1>12 DEF OutboxInv

\* Only published changes, only to TRUE, and only on rows the stream has.
LEMMA StampKeepsInv ==
    ASSUME OutboxInv, NEW r \in Relay, Stamp(r)
    PROVE  OutboxInv'
  <1>1. /\ rows' = [i \in DOMAIN rows |->
                      IF i \in shipped[r] THEN [rows[i] EXCEPT !.published = TRUE] ELSE rows[i]]
        /\ batch' = [batch EXCEPT ![r] = {}]
        /\ shipped' = [shipped EXCEPT ![r] = {}]
        /\ stream' = stream
    BY DEF Stamp, SetPublished, EndPass, busVars
  <1>2. rows \in Seq(RowType)
    BY DEF OutboxInv, OutboxTypes
  <1>3. \A i \in DOMAIN rows : rows[i] \in RowType
    BY <1>2, SeqDomain
  <1>4. rows' \in [DOMAIN rows -> RowType]
    BY <1>1, <1>3 DEF RowType
  <1>5. rows' \in Seq(RowType) /\ DOMAIN rows' = DOMAIN rows
    BY <1>2, <1>4, RewriteKeeps
  <1>6. \A i \in DOMAIN rows : rows'[i].tx = rows[i].tx
    BY <1>1, <1>3 DEF RowType
  <1>7. \A i \in DOMAIN rows : rows'[i].published => rows[i].published \/ i \in shipped[r]
    BY <1>1
  <1>8. OutboxTypes'
    BY <1>1, <1>5 DEF OutboxInv, OutboxTypes
  <1>9. HeldWasCommitted'
    BY <1>1, <1>5, <1>6 DEF OutboxInv, OutboxTypes, HeldWasCommitted
  <1>10. ShippedIsInStream'
    BY <1>1 DEF OutboxInv, OutboxTypes, ShippedIsInStream, InStream
  <1>11. PublishedIsInStream'
    BY <1>1, <1>5, <1>7 DEF OutboxInv, PublishedIsInStream, ShippedIsInStream, InStream
  <1>12. StreamIsCommitted'
    BY <1>1, <1>5, <1>6 DEF OutboxInv, StreamIsCommitted
  <1> QED
    BY <1>8, <1>9, <1>10, <1>11, <1>12 DEF OutboxInv

\* A crash forgets what was shipped and stamps nothing.
LEMMA CrashKeepsInv ==
    ASSUME OutboxInv, NEW r \in Relay, RelayCrash(r)
    PROVE  OutboxInv'
  <1>1. /\ UNCHANGED <<rows, stream>>
        /\ batch' = [batch EXCEPT ![r] = {}]
        /\ shipped' = [shipped EXCEPT ![r] = {}]
    BY DEF RelayCrash, EndPass, txVars, busVars
  <1> QED
    BY <1>1 DEF OutboxInv, OutboxTypes, HeldWasCommitted, ShippedIsInStream,
                PublishedIsInStream, StreamIsCommitted, InStream

\* Nothing these proofs speak of changes.
LEMMA SameKeepsInv ==
    ASSUME OutboxInv, UNCHANGED <<rows, batch, shipped, stream>>
    PROVE  OutboxInv'
  BY DEF OutboxInv, OutboxTypes, HeldWasCommitted, ShippedIsInStream,
         PublishedIsInStream, StreamIsCommitted, InStream

-----------------------------------------------------------------------------

\* The empty outbox satisfies the invariant.
LEMMA OutboxInvInit == RelayInit => OutboxInv
  <1> SUFFICES ASSUME RelayInit PROVE OutboxInv
    OBVIOUS
  <1>1. rows = <<>> /\ stream = <<>> /\ DOMAIN rows = {} /\ DOMAIN stream = {}
    BY DEF RelayInit
  <1>2. \A r \in Relay : batch[r] = {} /\ shipped[r] = {}
    BY DEF RelayInit
  <1>3. OutboxTypes
    BY <1>1 DEF RelayInit, OutboxTypes
  <1> QED
    BY <1>1, <1>2, <1>3 DEF OutboxInv, HeldWasCommitted, ShippedIsInStream,
                            PublishedIsInStream, StreamIsCommitted

\* Every step keeps the invariant.
LEMMA OutboxInvNext == OutboxInv /\ [RelayNext]_relayVars => OutboxInv'
  <1> SUFFICES ASSUME OutboxInv, [RelayNext]_relayVars PROVE OutboxInv'
    OBVIOUS
  <1>1. ASSUME NEW w \in Writer, Commit(w) \/ Rollback(w) PROVE OutboxInv'
    <2>1. EndTx(w, Committed) \/ EndTx(w, Aborted)
      BY <1>1 DEF Commit, Rollback
    <2> QED
      BY <2>1, EndTxKeepsInv
  <1>2. ASSUME NEW w \in Writer, NEW e \in Entity, Emit(w, e) PROVE OutboxInv'
    BY <1>2, EmitKeepsInv
  <1>3. ASSUME NEW r \in Relay, RelayStep(r) PROVE OutboxInv'
    BY <1>3, ClaimKeepsInv, XAddKeepsInv, StampKeepsInv DEF RelayStep
  <1>4. ASSUME NEW r \in Relay, XAddFails(r) PROVE OutboxInv'
    BY <1>4, SameKeepsInv DEF XAddFails, txVars, busVars
  <1>5. ASSUME NEW r \in Relay, RelayCrash(r) PROVE OutboxInv'
    BY <1>5, CrashKeepsInv
  <1>6. ASSUME NEW r \in Relay, XAddUnheard(r) PROVE OutboxInv'
    BY <1>6, XAddKeepsInv
  <1>7. CASE UNCHANGED relayVars
    BY <1>7, SameKeepsInv DEF relayVars, txVars, passVars, busVars
  <1> QED
    BY <1>1, <1>2, <1>3, <1>4, <1>5, <1>6, <1>7 DEF RelayNext, WriterNext

\* The invariant holds throughout.
LEMMA OutboxInvAlways == RelaySpec => []OutboxInv
  BY OutboxInvInit, OutboxInvNext, PTL DEF RelaySpec

\* A row in the stream has a copy there.
LEMMA InStreamHasCopies == ASSUME NEW i, InStream(i) PROVE Copies(i) # {}
  BY DEF InStream, Copies

\* A row is stamped published only when the stream has it, whatever breaks,
\* dies or races (relayBatch stamps exactly the shipped prefix).
THEOREM StampsOnlyWhatItShipped == RelaySpec => []StampedWasShipped
  <1>1. OutboxInv => StampedWasShipped
    BY InStreamHasCopies DEF OutboxInv, PublishedIsInStream, StampedWasShipped
  <1> QED
    BY <1>1, OutboxInvAlways, PTL

\* Nothing reaches the bus that a transaction did not commit.
THEOREM ShipsOnlyWhatCommitted == RelaySpec => []ShippedWasCommitted
  <1>1. OutboxInv => ShippedWasCommitted
    BY DEF OutboxInv, StreamIsCommitted, ShippedWasCommitted
  <1> QED
    BY <1>1, OutboxInvAlways, PTL

-----------------------------------------------------------------------------
(* Duplicates: how many copies of a row the stream can hold. *)

\* FOR UPDATE SKIP LOCKED: no row is in two open passes.
PassesApart == \A r, q \in Relay : r # q => batch[r] \cap batch[q] = {}

\* WHERE published_at IS NULL, and only the pass that holds a row stamps it.
HeldIsUnpublished == \A r \in Relay : \A i \in batch[r] : ~rows[i].published

\* A row nobody has stamped and no open pass has shipped.
AtRest(i) == ~rows[i].published /\ \A r \in Relay : i \notin shipped[r]

\* Each copy of a row at rest was paid for by a crash or an unheard answer; one
\* that is stamped, or shipped by an open pass, has one copy more.
CopiesArePaidFor ==
    \A i \in DOMAIN rows :
        /\ Cardinality(Copies(i)) <= 1 + crashes + unheard
        /\ AtRest(i) => Cardinality(Copies(i)) <= crashes + unheard

\* The inductive invariant of the duplicates.
CopiesInv ==
    /\ OutboxInv
    /\ crashes \in Nat /\ unheard \in Nat
    /\ PassesApart
    /\ HeldIsUnpublished
    /\ CopiesArePaidFor

\* A row's copies are finitely many positions of the stream.
LEMMA CopiesAreFinite ==
    ASSUME stream \in Seq(Nat), NEW i
    PROVE  IsFiniteSet(Copies(i)) /\ Cardinality(Copies(i)) \in Nat
  <1>1. DOMAIN stream = 1 .. Len(stream) /\ Len(stream) \in Nat
    BY SeqDomain
  <1>2. IsFiniteSet(1 .. Len(stream)) /\ Copies(i) \subseteq 1 .. Len(stream)
    BY <1>1, FS_Interval DEF Copies
  <1> QED
    BY <1>2, FS_Subset, FS_CardinalityType

\* Appending an entry adds one copy of it and none of any other row.
LEMMA AppendAddsOneCopy ==
    ASSUME stream \in Seq(Nat), NEW i \in Nat, stream' = Append(stream, i)
    PROVE  /\ Cardinality(Copies(i)') = Cardinality(Copies(i)) + 1
           /\ \A j : j # i => Copies(j)' = Copies(j)
  <1>1. DOMAIN stream = 1 .. Len(stream) /\ Len(stream) \in Nat
    BY SeqDomain
  <1>2. /\ DOMAIN stream' = 1 .. Len(stream) + 1
        /\ \A p \in DOMAIN stream : stream'[p] = stream[p]
        /\ stream'[Len(stream) + 1] = i
    BY AppendKeeps
  <1>3. Copies(i)' = Copies(i) \cup {Len(stream) + 1} /\ Len(stream) + 1 \notin Copies(i)
    BY <1>1, <1>2 DEF Copies
  <1>4. IsFiniteSet(Copies(i))
    BY CopiesAreFinite
  <1>5. Cardinality(Copies(i) \cup {Len(stream) + 1}) = Cardinality(Copies(i)) + 1
    BY <1>3, <1>4, FS_AddElement
  <1>6. \A j : j # i => Copies(j)' = Copies(j)
    BY <1>1, <1>2 DEF Copies
  <1> QED
    BY <1>3, <1>5, <1>6

\* Domain transactions: a row is born unpublished and without copies, and no
\* row becomes published or loses a copy (storekit.Emit, and the commit).
LEMMA WriterKeepsCopies ==
    ASSUME CopiesInv, OutboxInv', UNCHANGED <<passVars, busVars, faultVars>>,
           DOMAIN rows \subseteq DOMAIN rows',
           \A i \in DOMAIN rows : rows'[i].published = rows[i].published
    PROVE  CopiesInv'
  <1>1. UNCHANGED <<batch, shipped, stream, crashes, unheard>>
    BY DEF passVars, busVars, faultVars
  <1>2. \A i : Copies(i)' = Copies(i)
    BY <1>1 DEF Copies
  <1>3. PassesApart'
    BY <1>1 DEF CopiesInv, PassesApart
  <1>4. HeldIsUnpublished'
    BY <1>1 DEF CopiesInv, OutboxInv, HeldWasCommitted, HeldIsUnpublished
  <1>5. ASSUME NEW i \in DOMAIN rows'
        PROVE  /\ Cardinality(Copies(i)) <= 1 + crashes + unheard
               /\ AtRest(i)' => Cardinality(Copies(i)) <= crashes + unheard
    <2>1. CASE i \in DOMAIN rows
      <3>1. AtRest(i)' => AtRest(i)
        BY <1>1, <2>1 DEF AtRest
      <3> QED
        BY <2>1, <3>1 DEF CopiesInv, CopiesArePaidFor
    <2>2. CASE i \notin DOMAIN rows
      <3>1. Copies(i) = {}
        BY <2>2 DEF Copies, CopiesInv, OutboxInv, StreamIsCommitted
      <3>2. Cardinality(Copies(i)) = 0
        BY <3>1, FS_EmptySet
      <3> QED
        BY <3>2 DEF CopiesInv
    <2> QED
      BY <2>1, <2>2
  <1>6. CopiesArePaidFor'
    BY <1>1, <1>2, <1>5 DEF CopiesArePaidFor
  <1> QED
    BY <1>1, <1>3, <1>4, <1>6 DEF CopiesInv

\* A pass claims only rows that no other pass holds (SKIP LOCKED).
LEMMA ClaimKeepsCopies ==
    ASSUME CopiesInv, OutboxInv', NEW r \in Relay, Claim(r)
    PROVE  CopiesInv'
  <1>1. /\ UNCHANGED <<rows, shipped, stream, crashes, unheard>>
        /\ batch' = [batch EXCEPT ![r] = FirstBatch(Claimable)]
    BY DEF Claim, txVars, busVars, faultVars
  <1>2. \A i \in FirstBatch(Claimable) : ~rows[i].published /\ \A q \in Relay : i \notin batch[q]
    BY DEF FirstBatch, Claimable, Locked
  <1>3. batch \in [Relay -> SUBSET Nat]
    BY DEF CopiesInv, OutboxInv, OutboxTypes
  <1>4. PassesApart'
    BY <1>1, <1>2, <1>3 DEF CopiesInv, PassesApart
  <1>5. HeldIsUnpublished'
    BY <1>1, <1>2, <1>3 DEF CopiesInv, HeldIsUnpublished
  <1>6. CopiesArePaidFor'
    BY <1>1 DEF CopiesInv, CopiesArePaidFor, Copies, AtRest
  <1> QED
    BY <1>1, <1>4, <1>5, <1>6 DEF CopiesInv

\* The row a pass ships was at rest: it is in no other batch and not stamped.
LEMMA UnsentIsAtRest ==
    ASSUME CopiesInv, NEW r \in Relay, NEW i \in Unsent(r)
    PROVE  /\ i \in Nat /\ i \in batch[r] /\ i \notin shipped[r] /\ i \in DOMAIN rows
           /\ AtRest(i)
           /\ Cardinality(Copies(i)) \in Nat /\ Cardinality(Copies(i)) <= crashes + unheard
  <1>1. i \in Nat /\ i \in batch[r] /\ i \notin shipped[r] /\ i \in DOMAIN rows
    BY DEF Unsent, CopiesInv, OutboxInv, OutboxTypes, HeldWasCommitted
  <1>2. ~rows[i].published
    BY <1>1 DEF CopiesInv, HeldIsUnpublished
  <1>3. \A q \in Relay : i \notin shipped[q]
    BY <1>1 DEF CopiesInv, PassesApart, OutboxInv, ShippedIsInStream
  <1>4. AtRest(i)
    BY <1>2, <1>3 DEF AtRest
  <1>5. Cardinality(Copies(i)) \in Nat
    BY CopiesAreFinite DEF CopiesInv, OutboxInv, OutboxTypes
  <1> QED
    BY <1>1, <1>4, <1>5 DEF CopiesInv, CopiesArePaidFor

\* A heard XADD: the row's one copy more.
LEMMA XAddKeepsCopies ==
    ASSUME CopiesInv, OutboxInv', NEW r \in Relay, XAdd(r)
    PROVE  CopiesInv'
  <1>1. PICK i \in Unsent(r) :
          /\ stream' = Append(stream, i)
          /\ shipped' = [shipped EXCEPT ![r] = @ \cup {i}]
    BY DEF XAdd, NextUnsent, AddEntry
  <1>2. UNCHANGED <<rows, batch, crashes, unheard>>
    BY DEF XAdd, txVars, faultVars
  <1>3. stream \in Seq(Nat) /\ shipped \in [Relay -> SUBSET Nat]
    BY DEF CopiesInv, OutboxInv, OutboxTypes
  <1>4. /\ i \in Nat /\ i \in batch[r] /\ i \notin shipped[r] /\ i \in DOMAIN rows
        /\ AtRest(i)
        /\ Cardinality(Copies(i)) \in Nat /\ Cardinality(Copies(i)) <= crashes + unheard
    BY UnsentIsAtRest
  <1>5. /\ Cardinality(Copies(i)') = Cardinality(Copies(i)) + 1
        /\ \A j : j # i => Copies(j)' = Copies(j)
    BY <1>1, <1>3, <1>4, AppendAddsOneCopy
  <1>6. crashes \in Nat /\ unheard \in Nat
    BY DEF CopiesInv
  <1>7. ~AtRest(i)'
    BY <1>1, <1>3 DEF AtRest
  <1>8. \A j \in DOMAIN rows : AtRest(j)' => AtRest(j)
    BY <1>1, <1>2, <1>3 DEF AtRest
  <1>9. CopiesArePaidFor'
    <2> SUFFICES ASSUME NEW j \in DOMAIN rows
                 PROVE  /\ Cardinality(Copies(j)') <= 1 + crashes + unheard
                        /\ AtRest(j)' => Cardinality(Copies(j)') <= crashes + unheard
      BY <1>2 DEF CopiesArePaidFor
    <2>1. CASE j = i
      BY <1>4, <1>5, <1>6, <1>7, <2>1
    <2>2. CASE j # i
      BY <1>5, <1>8, <2>2 DEF CopiesInv, CopiesArePaidFor
    <2> QED
      BY <2>1, <2>2
  <1> QED
    BY <1>2, <1>9 DEF CopiesInv, PassesApart, HeldIsUnpublished

\* An unheard XADD: the row's copy is paid for by the answer that was lost.
LEMMA XAddUnheardKeepsCopies ==
    ASSUME CopiesInv, OutboxInv', NEW r \in Relay, XAddUnheard(r)
    PROVE  CopiesInv'
  <1>1. PICK i \in Unsent(r) : stream' = Append(stream, i)
    BY DEF XAddUnheard, NextUnsent, AddEntry
  <1>2. UNCHANGED <<rows, batch, shipped, crashes>> /\ unheard' = unheard + 1
    BY DEF XAddUnheard, txVars
  <1>3. /\ i \in Nat /\ AtRest(i)
        /\ Cardinality(Copies(i)) \in Nat /\ Cardinality(Copies(i)) <= crashes + unheard
    BY UnsentIsAtRest
  <1>4. stream \in Seq(Nat) /\ crashes \in Nat /\ unheard \in Nat
    BY DEF CopiesInv, OutboxInv, OutboxTypes
  <1>5. /\ Cardinality(Copies(i)') = Cardinality(Copies(i)) + 1
        /\ \A j : j # i => Copies(j)' = Copies(j)
    BY <1>1, <1>3, <1>4, AppendAddsOneCopy
  <1>6. CopiesArePaidFor'
    <2> SUFFICES ASSUME NEW j \in DOMAIN rows
                 PROVE  /\ Cardinality(Copies(j)') <= 1 + crashes + (unheard + 1)
                        /\ AtRest(j) => Cardinality(Copies(j)') <= crashes + (unheard + 1)
      BY <1>2 DEF CopiesArePaidFor, AtRest
    <2>1. CASE j = i
      BY <1>3, <1>4, <1>5, <2>1
    <2>2. CASE j # i
      <3>1. Copies(j)' = Copies(j) /\ Cardinality(Copies(j)) \in Nat
        BY <1>4, <1>5, <2>2, CopiesAreFinite
      <3> QED
        BY <1>4, <3>1 DEF CopiesInv, CopiesArePaidFor
    <2> QED
      BY <2>1, <2>2
  <1> QED
    BY <1>2, <1>4, <1>6 DEF CopiesInv, PassesApart, HeldIsUnpublished

\* A stamped row keeps its one copy more; nobody else holds it.
LEMMA StampKeepsCopies ==
    ASSUME CopiesInv, OutboxInv', NEW r \in Relay, Stamp(r)
    PROVE  CopiesInv'
  <1>1. /\ rows' = [i \in DOMAIN rows |->
                      IF i \in shipped[r] THEN [rows[i] EXCEPT !.published = TRUE] ELSE rows[i]]
        /\ batch' = [batch EXCEPT ![r] = {}]
        /\ shipped' = [shipped EXCEPT ![r] = {}]
        /\ UNCHANGED <<stream, crashes, unheard>>
    BY DEF Stamp, SetPublished, EndPass, busVars, faultVars
  <1>2. /\ rows \in Seq(RowType)
        /\ batch \in [Relay -> SUBSET Nat] /\ shipped \in [Relay -> SUBSET Nat]
    BY DEF CopiesInv, OutboxInv, OutboxTypes
  <1>3. \A i \in DOMAIN rows : rows[i] \in RowType
    BY <1>2, SeqDomain
  <1>4. /\ DOMAIN rows' = DOMAIN rows
        /\ \A i \in shipped[r] : i \in DOMAIN rows => rows'[i].published
        /\ \A i \in DOMAIN rows : i \notin shipped[r] => rows'[i] = rows[i]
    BY <1>1, <1>3 DEF RowType
  <1>5. shipped[r] \subseteq batch[r]
    BY DEF CopiesInv, OutboxInv, ShippedIsInStream
  <1>6. PassesApart'
    BY <1>1, <1>2 DEF CopiesInv, PassesApart
  <1>7. HeldIsUnpublished'
    <2> SUFFICES ASSUME NEW q \in Relay, NEW i \in batch'[q] PROVE ~rows'[i].published
      BY DEF HeldIsUnpublished
    <2>1. q # r /\ i \in batch[q]
      BY <1>1, <1>2
    <2>2. i \notin shipped[r] /\ i \in DOMAIN rows
      BY <1>5, <2>1 DEF CopiesInv, PassesApart, OutboxInv, HeldWasCommitted
    <2> QED
      BY <1>4, <2>1, <2>2 DEF CopiesInv, HeldIsUnpublished
  <1>8. ASSUME NEW i \in DOMAIN rows, AtRest(i)' PROVE AtRest(i)
    <2>1. i \notin shipped[r]
      BY <1>4, <1>8 DEF AtRest
    <2> QED
      BY <1>1, <1>2, <1>4, <1>8, <2>1 DEF AtRest
  <1>9. CopiesArePaidFor'
    BY <1>1, <1>4, <1>8 DEF CopiesInv, CopiesArePaidFor, Copies
  <1> QED
    BY <1>1, <1>6, <1>7, <1>9 DEF CopiesInv

\* A crash puts what the pass had shipped at rest again, and pays for it.
LEMMA CrashKeepsCopies ==
    ASSUME CopiesInv, OutboxInv', NEW r \in Relay, RelayCrash(r)
    PROVE  CopiesInv'
  <1>1. /\ UNCHANGED <<rows, stream, unheard>> /\ crashes' = crashes + 1
        /\ batch' = [batch EXCEPT ![r] = {}]
    BY DEF RelayCrash, EndPass, txVars, busVars
  <1>2. batch \in [Relay -> SUBSET Nat] /\ stream \in Seq(Nat) /\ crashes \in Nat /\ unheard \in Nat
    BY DEF CopiesInv, OutboxInv, OutboxTypes
  <1>3. \A i : Copies(i)' = Copies(i) /\ Cardinality(Copies(i)) \in Nat
    BY <1>1, <1>2, CopiesAreFinite DEF Copies
  <1>4. CopiesArePaidFor'
    BY <1>1, <1>2, <1>3 DEF CopiesInv, CopiesArePaidFor
  <1>5. PassesApart' /\ HeldIsUnpublished'
    BY <1>1, <1>2 DEF CopiesInv, PassesApart, HeldIsUnpublished
  <1> QED
    BY <1>1, <1>2, <1>4, <1>5 DEF CopiesInv

\* Every step keeps the count.
LEMMA CopiesInvNext == CopiesInv /\ [RelayNext]_relayVars => CopiesInv'
  <1> SUFFICES ASSUME CopiesInv, [RelayNext]_relayVars PROVE CopiesInv'
    OBVIOUS
  <1>0. OutboxInv /\ OutboxInv'
    BY OutboxInvNext DEF CopiesInv
  <1>1. ASSUME NEW w \in Writer, NEW outcome \in {Committed, Aborted}, EndTx(w, outcome)
        PROVE  CopiesInv'
    <2>1. \A i \in DOMAIN rows : rows[i] \in RowType
      BY <1>0, SeqDomain DEF OutboxInv, OutboxTypes
    <2>2. /\ DOMAIN rows' = DOMAIN rows
          /\ \A i \in DOMAIN rows : rows'[i].published = rows[i].published
      BY <1>1, <2>1 DEF EndTx, RowType
    <2>3. UNCHANGED <<passVars, busVars, faultVars>>
      BY <1>1 DEF EndTx
    <2> QED
      BY <1>0, <2>2, <2>3, WriterKeepsCopies
  <1>2. ASSUME NEW w \in Writer, NEW e \in Entity, Emit(w, e) PROVE CopiesInv'
    <2>1. rows \in Seq(RowType) /\ [entity |-> e, tx |-> w, published |-> FALSE] \in RowType
      BY <1>0 DEF OutboxInv, OutboxTypes, RowType
    <2>2. \A i \in DOMAIN rows : i \in DOMAIN rows' /\ rows'[i] = rows[i]
      BY <1>2, <2>1, AppendKeeps DEF Emit
    <2>3. UNCHANGED <<passVars, busVars, faultVars>>
      BY <1>2 DEF Emit
    <2> QED
      BY <1>0, <2>2, <2>3, WriterKeepsCopies
  <1>3. ASSUME NEW r \in Relay, RelayStep(r) PROVE CopiesInv'
    BY <1>0, <1>3, ClaimKeepsCopies, XAddKeepsCopies, StampKeepsCopies DEF RelayStep
  <1>4. ASSUME NEW r \in Relay, XAddFails(r) PROVE CopiesInv'
    BY <1>0, <1>4 DEF XAddFails, txVars, busVars, CopiesInv, PassesApart, HeldIsUnpublished,
                      CopiesArePaidFor, Copies, AtRest
  <1>5. ASSUME NEW r \in Relay, RelayCrash(r) PROVE CopiesInv'
    BY <1>0, <1>5, CrashKeepsCopies
  <1>6. ASSUME NEW r \in Relay, XAddUnheard(r) PROVE CopiesInv'
    BY <1>0, <1>6, XAddUnheardKeepsCopies
  <1>7. CASE UNCHANGED relayVars
    BY <1>0, <1>7 DEF relayVars, txVars, passVars, busVars, faultVars, CopiesInv, PassesApart,
                      HeldIsUnpublished, CopiesArePaidFor, Copies, AtRest
  <1> QED
    BY <1>1, <1>2, <1>3, <1>4, <1>5, <1>6, <1>7 DEF RelayNext, WriterNext, Commit, Rollback

\* The empty outbox has no copies.
LEMMA CopiesInvInit == RelayInit => CopiesInv
  <1> SUFFICES ASSUME RelayInit PROVE CopiesInv
    OBVIOUS
  <1>1. DOMAIN rows = {} /\ crashes = 0 /\ unheard = 0 /\ \A r \in Relay : batch[r] = {}
    BY DEF RelayInit
  <1> QED
    BY <1>1, OutboxInvInit DEF CopiesInv, PassesApart, HeldIsUnpublished, CopiesArePaidFor

\* A row has at most one copy per lost pass and per unheard answer, plus one,
\* however many replicas divide the backlog and however often a batch breaks
\* half way (relayBatch).
THEOREM EveryDuplicateHasAFault == RelaySpec => []DuplicatesAreAccountedFor
  <1>1. CopiesInv => DuplicatesAreAccountedFor
    BY DEF CopiesInv, CopiesArePaidFor, DuplicatesAreAccountedFor
  <1> QED
    BY <1>1, CopiesInvInit, CopiesInvNext, PTL DEF RelaySpec

-----------------------------------------------------------------------------
(* Order: seq is drawn at the INSERT, the commit comes later. *)

\* The types the order proofs add.
HistoryTypes ==
    /\ lock \in [Entity -> Writer \cup {NoWriter}]
    /\ commits \in Seq(SUBSET Nat)

\* Whoever has an open row about an entity holds that entity's lock (LockRow
\* before Emit, and row locks last as long as their transaction).
OpenRowsAreLocked ==
    \A i \in DOMAIN rows : rows[i].tx \in Writer => lock[rows[i].entity] = rows[i].tx

\* So behind an open row about an entity come only rows of the same transaction.
OpenRowsAreLast ==
    \A i, j \in DOMAIN rows :
        /\ i < j
        /\ rows[i].entity = rows[j].entity
        /\ rows[i].tx \in Writer
        => rows[j].tx = rows[i].tx

\* What the history holds has committed.
HistoryIsCommitted ==
    \A m \in DOMAIN commits : \A i \in commits[m] : i \in DOMAIN rows /\ rows[i].tx = Committed

\* The inductive invariant of the order.
OrderInv ==
    /\ OutboxInv
    /\ HistoryTypes
    /\ OpenRowsAreLocked
    /\ OpenRowsAreLast
    /\ HistoryIsCommitted
    /\ SeqOrderIsCommitOrder

\* Steps that change neither who owns a row nor what it is about.
LEMMA SameOwnersKeepOrder ==
    ASSUME OrderInv, OutboxInv', UNCHANGED <<lock, commits>>,
           DOMAIN rows' = DOMAIN rows,
           \A i \in DOMAIN rows : rows'[i].tx = rows[i].tx /\ rows'[i].entity = rows[i].entity
    PROVE  OrderInv'
  <1>1. OpenRowsAreLocked' /\ OpenRowsAreLast' /\ HistoryIsCommitted'
    BY DEF OrderInv, OpenRowsAreLocked, OpenRowsAreLast, HistoryIsCommitted
  <1>2. SeqOrderIsCommitOrder'
    BY DEF OrderInv, HistoryIsCommitted, SeqOrderIsCommitOrder
  <1> QED
    BY <1>1, <1>2 DEF OrderInv, HistoryTypes

\* An INSERT comes behind every row about its entity that is still open, and
\* those belong to the transaction that inserts (storekit.Emit under LockRow).
LEMMA EmitKeepsOrder ==
    ASSUME OrderInv, OutboxInv', NEW w \in Writer, NEW e \in Entity, Emit(w, e)
    PROVE  OrderInv'
  <1> DEFINE new == [entity |-> e, tx |-> w, published |-> FALSE]
  <1>1. /\ lock[e] \in {NoWriter, w} /\ lock' = [lock EXCEPT ![e] = w]
        /\ rows' = Append(rows, new) /\ commits' = commits
    BY DEF Emit
  <1>2. /\ rows \in Seq(RowType) /\ new \in RowType /\ new.entity = e /\ new.tx = w
        /\ lock \in [Entity -> Writer \cup {NoWriter}]
    BY DEF OrderInv, OutboxInv, OutboxTypes, HistoryTypes, RowType
  <1> HIDE DEF new
  <1>3. /\ DOMAIN rows = 1 .. Len(rows) /\ Len(rows) \in Nat
        /\ \A i \in DOMAIN rows : rows[i] \in RowType
    BY <1>2, SeqDomain
  <1>4. /\ DOMAIN rows' = 1 .. Len(rows) + 1
        /\ \A i \in DOMAIN rows : i \in DOMAIN rows' /\ rows'[i] = rows[i]
        /\ rows'[Len(rows) + 1] = new
    BY <1>1, <1>2, AppendKeeps
  <1>5. \A i \in DOMAIN rows' : i \in DOMAIN rows \/ i = Len(rows) + 1
    BY <1>3, <1>4
  <1>6. \A i \in DOMAIN rows : rows[i].tx \in Writer /\ rows[i].entity = e => rows[i].tx = w
    BY <1>1, RelayAssumption DEF OrderInv, OpenRowsAreLocked
  <1>7. OpenRowsAreLocked'
    <2> SUFFICES ASSUME NEW i \in DOMAIN rows', rows'[i].tx \in Writer
                 PROVE  lock'[rows'[i].entity] = rows'[i].tx
      BY DEF OpenRowsAreLocked
    <2>1. CASE i \in DOMAIN rows
      <3>1. rows'[i] = rows[i] /\ rows[i].entity \in Entity
        BY <1>3, <1>4, <2>1 DEF RowType
      <3> QED
        BY <1>1, <1>2, <1>6, <2>1, <3>1 DEF OrderInv, OpenRowsAreLocked
    <2>2. CASE i = Len(rows) + 1
      BY <1>1, <1>2, <1>4, <2>2
    <2> QED
      BY <1>5, <2>1, <2>2
  <1>8. OpenRowsAreLast'
    <2> SUFFICES ASSUME NEW i \in DOMAIN rows', NEW j \in DOMAIN rows', i < j,
                        rows'[i].entity = rows'[j].entity, rows'[i].tx \in Writer
                 PROVE  rows'[j].tx = rows'[i].tx
      BY DEF OpenRowsAreLast
    <2>1. i \in DOMAIN rows
      BY <1>3, <1>4
    <2>2. CASE j \in DOMAIN rows
      BY <1>4, <2>1, <2>2 DEF OrderInv, OpenRowsAreLast
    <2>3. CASE j = Len(rows) + 1
      BY <1>2, <1>4, <1>6, <2>1, <2>3
    <2> QED
      BY <1>5, <2>2, <2>3
  <1>9. HistoryIsCommitted'
    BY <1>1, <1>4 DEF OrderInv, HistoryIsCommitted
  <1>10. SeqOrderIsCommitOrder'
    BY <1>1, <1>4 DEF OrderInv, HistoryIsCommitted, SeqOrderIsCommitOrder
  <1> QED
    BY <1>1, <1>2, <1>7, <1>8, <1>9, <1>10 DEF OrderInv, HistoryTypes

\* The end of a transaction closes exactly its own rows and releases its locks.
LEMMA EndTxRows ==
    ASSUME OrderInv, NEW w \in Writer, NEW outcome \in {Committed, Aborted}, EndTx(w, outcome)
    PROVE  /\ DOMAIN rows' = DOMAIN rows
           /\ \A i \in DOMAIN rows :
                /\ rows'[i].entity = rows[i].entity
                /\ rows'[i].tx = IF rows[i].tx = w THEN outcome ELSE rows[i].tx
           /\ outcome \notin Writer
           /\ lock' \in [Entity -> Writer \cup {NoWriter}]
           /\ OpenRowsAreLocked'
           /\ OpenRowsAreLast'
  <1>1. \A i \in DOMAIN rows : rows[i] \in RowType
    BY SeqDomain DEF OrderInv, OutboxInv, OutboxTypes
  <1>2. /\ DOMAIN rows' = DOMAIN rows
        /\ \A i \in DOMAIN rows :
             /\ rows'[i].entity = rows[i].entity
             /\ rows'[i].tx = IF rows[i].tx = w THEN outcome ELSE rows[i].tx
    BY <1>1 DEF EndTx, RowType
  <1>3. outcome \notin Writer
    BY RelayAssumption
  <1>4. /\ lock \in [Entity -> Writer \cup {NoWriter}]
        /\ lock' = [e \in Entity |-> IF lock[e] = w THEN NoWriter ELSE lock[e]]
    BY DEF EndTx, OrderInv, HistoryTypes
  <1>5. lock' \in [Entity -> Writer \cup {NoWriter}]
    BY <1>4
  <1>6. \A i \in DOMAIN rows : rows[i].entity \in Entity
    BY <1>1 DEF RowType
  <1>7. OpenRowsAreLocked'
    BY <1>2, <1>3, <1>4, <1>6 DEF OrderInv, OpenRowsAreLocked
  <1>8. OpenRowsAreLast'
    BY <1>2, <1>3 DEF OrderInv, OpenRowsAreLast
  <1> QED
    BY <1>2, <1>3, <1>5, <1>7, <1>8

\* Nothing committed lies behind what commits now, on the same entity.
LEMMA CommitKeepsOrder ==
    ASSUME OrderInv, OutboxInv', NEW w \in Writer, Commit(w)
    PROVE  OrderInv'
  <1>1. EndTx(w, Committed) /\ commits' = Append(commits, OpenRows(w))
    BY DEF Commit
  <1>2. /\ DOMAIN rows' = DOMAIN rows
        /\ \A i \in DOMAIN rows :
             /\ rows'[i].entity = rows[i].entity
             /\ rows'[i].tx = IF rows[i].tx = w THEN Committed ELSE rows[i].tx
        /\ Committed \notin Writer
        /\ lock' \in [Entity -> Writer \cup {NoWriter}]
        /\ OpenRowsAreLocked'
        /\ OpenRowsAreLast'
    BY <1>1, EndTxRows
  <1>3. DOMAIN rows = 1 .. Len(rows) /\ Len(rows) \in Nat
    BY SeqDomain DEF OrderInv, OutboxInv, OutboxTypes
  <1>4. /\ OpenRows(w) \in SUBSET Nat /\ OpenRows(w) \subseteq DOMAIN rows
        /\ \A i \in OpenRows(w) : rows[i].tx = w
    BY <1>3 DEF OpenRows
  <1>5. commits \in Seq(SUBSET Nat)
    BY DEF OrderInv, HistoryTypes
  <1>6. DOMAIN commits = 1 .. Len(commits) /\ Len(commits) \in Nat
    BY <1>5, SeqDomain
  <1>7. /\ commits' \in Seq(SUBSET Nat)
        /\ DOMAIN commits' = 1 .. Len(commits) + 1
        /\ \A m \in DOMAIN commits : commits'[m] = commits[m]
        /\ commits'[Len(commits) + 1] = OpenRows(w)
    BY <1>1, <1>4, <1>5, AppendKeeps
  <1>8. \A m \in DOMAIN commits' : m \in DOMAIN commits \/ m = Len(commits) + 1
    BY <1>6, <1>7
  <1>9. HistoryIsCommitted'
    <2> SUFFICES ASSUME NEW m \in DOMAIN commits', NEW i \in commits'[m]
                 PROVE  i \in DOMAIN rows /\ rows'[i].tx = Committed
      BY <1>2 DEF HistoryIsCommitted
    <2>1. CASE m \in DOMAIN commits
      BY <1>2, <1>7, <2>1 DEF OrderInv, HistoryIsCommitted
    <2>2. CASE m = Len(commits) + 1
      BY <1>2, <1>4, <1>7, <2>2
    <2> QED
      BY <1>8, <2>1, <2>2
  <1>10. SeqOrderIsCommitOrder'
    <2> SUFFICES ASSUME NEW m \in DOMAIN commits', NEW n \in DOMAIN commits',
                        NEW i \in commits'[m], NEW j \in commits'[n],
                        m < n, rows'[i].entity = rows'[j].entity
                 PROVE  i < j
      BY DEF SeqOrderIsCommitOrder
    <2>1. m \in DOMAIN commits /\ commits'[m] = commits[m]
      BY <1>6, <1>7
    <2>2. i \in DOMAIN rows /\ rows[i].tx = Committed
      BY <2>1 DEF OrderInv, HistoryIsCommitted
    <2>3. CASE n \in DOMAIN commits
      <3>1. j \in commits[n] /\ j \in DOMAIN rows
        BY <1>7, <2>3 DEF OrderInv, HistoryIsCommitted
      <3> QED
        BY <1>2, <2>1, <2>2, <2>3, <3>1 DEF OrderInv, SeqOrderIsCommitOrder
    <2>4. CASE n = Len(commits) + 1
      <3>1. j \in DOMAIN rows /\ rows[j].tx = w
        BY <1>4, <1>7, <2>4
      <3>2. rows[i].entity = rows[j].entity /\ rows[i].tx # rows[j].tx
        BY <1>2, <2>2, <3>1
      <3>3. ~(j < i)
        BY <2>2, <3>1, <3>2 DEF OrderInv, OpenRowsAreLast
      <3> QED
        BY <1>3, <2>2, <3>1, <3>2, <3>3
    <2> QED
      BY <1>8, <2>3, <2>4
  <1> QED
    BY <1>2, <1>7, <1>9, <1>10 DEF OrderInv, HistoryTypes

\* A rollback leaves the history as it was.
LEMMA RollbackKeepsOrder ==
    ASSUME OrderInv, OutboxInv', NEW w \in Writer, Rollback(w)
    PROVE  OrderInv'
  <1>1. EndTx(w, Aborted) /\ commits' = commits
    BY DEF Rollback
  <1>2. /\ DOMAIN rows' = DOMAIN rows
        /\ \A i \in DOMAIN rows :
             /\ rows'[i].entity = rows[i].entity
             /\ rows'[i].tx = IF rows[i].tx = w THEN Aborted ELSE rows[i].tx
        /\ lock' \in [Entity -> Writer \cup {NoWriter}]
        /\ OpenRowsAreLocked'
        /\ OpenRowsAreLast'
    BY <1>1, EndTxRows
  <1>3. HistoryIsCommitted'
    BY <1>1, <1>2, RelayAssumption DEF OrderInv, HistoryIsCommitted
  <1>4. SeqOrderIsCommitOrder'
    BY <1>1, <1>2 DEF OrderInv, HistoryIsCommitted, SeqOrderIsCommitOrder
  <1> QED
    BY <1>1, <1>2, <1>3, <1>4 DEF OrderInv, HistoryTypes

\* Every step keeps the order.
LEMMA OrderInvNext == OrderInv /\ [RelayNext]_relayVars => OrderInv'
  <1> SUFFICES ASSUME OrderInv, [RelayNext]_relayVars PROVE OrderInv'
    OBVIOUS
  <1>0. OutboxInv /\ OutboxInv'
    BY OutboxInvNext DEF OrderInv
  <1>1. ASSUME NEW w \in Writer, Commit(w) \/ Rollback(w) \/ (\E e \in Entity : Emit(w, e))
        PROVE  OrderInv'
    BY <1>0, <1>1, CommitKeepsOrder, RollbackKeepsOrder, EmitKeepsOrder
  <1>2. UNCHANGED txVars => OrderInv'
    BY <1>0, SameOwnersKeepOrder DEF txVars
  <1>3. ASSUME NEW r \in Relay, Stamp(r) PROVE OrderInv'
    <2>1. \A i \in DOMAIN rows : rows[i] \in RowType
      BY <1>0, SeqDomain DEF OutboxInv, OutboxTypes
    <2>2. /\ DOMAIN rows' = DOMAIN rows
          /\ \A i \in DOMAIN rows : rows'[i].tx = rows[i].tx /\ rows'[i].entity = rows[i].entity
      BY <1>3, <2>1 DEF Stamp, SetPublished, RowType
    <2>3. UNCHANGED <<lock, commits>>
      BY <1>3 DEF Stamp
    <2> QED
      BY <1>0, <2>2, <2>3, SameOwnersKeepOrder
  <1>4. ASSUME NEW r \in Relay,
               Claim(r) \/ XAdd(r) \/ XAddFails(r) \/ XAddUnheard(r) \/ RelayCrash(r)
        PROVE  UNCHANGED txVars
    BY <1>4 DEF Claim, XAdd, XAddFails, XAddUnheard, RelayCrash
  <1>5. UNCHANGED relayVars => UNCHANGED txVars
    BY DEF relayVars
  <1> QED
    BY <1>1, <1>2, <1>3, <1>4, <1>5 DEF RelayNext, WriterNext, RelayStep

\* The empty outbox is in order.
LEMMA OrderInvInit == RelayInit => OrderInv
  <1> SUFFICES ASSUME RelayInit PROVE OrderInv
    OBVIOUS
  <1>1. DOMAIN rows = {} /\ DOMAIN commits = {}
    BY DEF RelayInit
  <1>2. HistoryTypes
    BY DEF RelayInit, HistoryTypes
  <1> QED
    BY <1>1, <1>2, OutboxInvInit
       DEF OrderInv, OpenRowsAreLocked, OpenRowsAreLast, HistoryIsCommitted, SeqOrderIsCommitOrder

\* Of two transactions about one entity, the one that commits first drew the
\* smaller seqs: only the entity's row lock makes that true (LockRow, Emit).
THEOREM RowLocksOrderTheOutbox == RelaySpec => []SeqOrderIsCommitOrder
  <1>1. OrderInv => SeqOrderIsCommitOrder
    BY DEF OrderInv
  <1> QED
    BY <1>1, OrderInvInit, OrderInvNext, PTL DEF RelaySpec

-----------------------------------------------------------------------------

\* The type invariant of the module: a relay ships only rows of the batch it
\* holds (relayBatch's locals live as long as its transaction).
THEOREM RelayTyped == RelaySpec => []RelayTypeOK
  <1> DEFINE Counters == broken \in [Relay -> BOOLEAN] /\ trimmed \in Nat
                     /\ outages \in Nat /\ unheard \in Nat
  <1>1. RelayInit => Counters
    BY DEF RelayInit
  <1>2. Counters /\ [RelayNext]_relayVars => Counters'
    <2> SUFFICES ASSUME Counters, [RelayNext]_relayVars PROVE Counters'
      OBVIOUS
    <2>1. ASSUME NEW w \in Writer, Commit(w) \/ Rollback(w) \/ (\E e \in Entity : Emit(w, e))
          PROVE  UNCHANGED <<broken, trimmed, outages, unheard>>
      BY <2>1 DEF Commit, Rollback, Emit, EndTx, passVars, busVars, faultVars
    <2>2. ASSUME NEW r \in Relay, XAdd(r) \/ XAddUnheard(r) PROVE Counters'
      <3>1. trimmed' \in trimmed .. Max({trimmed, Len(stream) + 1 - MaxLen})
        BY <2>2 DEF XAdd, XAddUnheard, AddEntry
      <3>2. trimmed' \in Nat
        BY <3>1
      <3>3. XAdd(r) => Counters'
        BY <3>2 DEF XAdd, faultVars
      <3>4. XAddUnheard(r) => Counters'
        BY <3>2 DEF XAddUnheard
      <3> QED
        BY <2>2, <3>3, <3>4
    <2>3. ASSUME NEW r \in Relay, Claim(r) \/ Stamp(r) \/ XAddFails(r) \/ RelayCrash(r)
          PROVE  Counters'
      <3>1. Claim(r) => Counters'
        BY DEF Claim, busVars, faultVars
      <3>2. Stamp(r) => Counters'
        BY DEF Stamp, EndPass, busVars, faultVars
      <3>3. XAddFails(r) => Counters'
        BY DEF XAddFails, busVars
      <3>4. RelayCrash(r) => Counters'
        BY DEF RelayCrash, EndPass, busVars
      <3> QED
        BY <2>3, <3>1, <3>2, <3>3, <3>4
    <2>4. UNCHANGED relayVars => Counters'
      BY DEF relayVars, passVars, busVars, faultVars
    <2> QED
      BY <2>1, <2>2, <2>3, <2>4 DEF RelayNext, WriterNext, RelayStep
  <1>3. CopiesInv /\ OrderInv /\ Counters => RelayTypeOK
    BY DEF CopiesInv, OrderInv, HistoryTypes, OutboxInv, OutboxTypes, ShippedIsInStream, RelayTypeOK
  <1> QED
    BY <1>1, <1>2, <1>3, CopiesInvInit, CopiesInvNext, OrderInvInit, OrderInvNext, PTL DEF RelaySpec

-----------------------------------------------------------------------------
(* The order of the stream, with a single replica.                         *)

\* Every committed row is in the history.
HistoryIsComplete ==
    \A i \in DOMAIN rows : rows[i].tx = Committed => \E m \in DOMAIN commits : i \in commits[m]

\* Row k comes before row i on the same entity and has committed.
Precedes(k, i) ==
    /\ k \in DOMAIN rows
    /\ k < i
    /\ rows[k].entity = rows[i].entity
    /\ rows[k].tx = Committed

\* A pass holds, or finds stamped, whatever precedes a row it holds.
BatchesFollowOrder ==
    \A r \in Relay : \A i \in batch[r] : \A k : Precedes(k, i) => rows[k].published \/ k \in batch[r]

\* What precedes a row in the outbox precedes each of its copies in the stream.
StreamFollowsOrder ==
    \A p \in DOMAIN stream : \A k :
        Precedes(k, stream[p]) => \E q \in DOMAIN stream : q < p /\ stream[q] = k

\* The inductive invariant of the stream's order.
StreamInv ==
    /\ OrderInv
    /\ HistoryIsComplete
    /\ BatchesFollowOrder
    /\ StreamFollowsOrder

\* Nothing newly precedes a committed row: domain transactions commit behind
\* what has committed on their entity.
LEMMA WriterAddsNoPredecessor ==
    ASSUME OrderInv, NEW w \in Writer,
           Commit(w) \/ Rollback(w) \/ (\E e \in Entity : Emit(w, e)),
           NEW i \in DOMAIN rows, rows[i].tx = Committed, NEW k, Precedes(k, i)'
    PROVE  Precedes(k, i)
  <1>0. /\ rows \in Seq(RowType) /\ \A j \in DOMAIN rows : rows[j] \in RowType
        /\ DOMAIN rows = 1 .. Len(rows) /\ Len(rows) \in Nat
    BY SeqDomain DEF OrderInv, OutboxInv, OutboxTypes
  <1>1. ASSUME NEW outcome \in {Committed, Aborted}, EndTx(w, outcome) PROVE Precedes(k, i)
    <2>1. /\ DOMAIN rows' = DOMAIN rows
          /\ \A j \in DOMAIN rows :
               /\ rows'[j].entity = rows[j].entity
               /\ rows'[j].tx = IF rows[j].tx = w THEN outcome ELSE rows[j].tx
      BY <1>1, EndTxRows
    <2>2. k \in DOMAIN rows /\ k < i /\ rows[k].entity = rows[i].entity
      BY <2>1 DEF Precedes
    <2>3. rows[k].tx # w
      BY <2>2, RelayAssumption DEF OrderInv, OpenRowsAreLast
    <2> QED
      BY <2>1, <2>2, <2>3 DEF Precedes
  <1>2. ASSUME NEW e \in Entity, Emit(w, e) PROVE Precedes(k, i)
    <2> DEFINE new == [entity |-> e, tx |-> w, published |-> FALSE]
    <2>1. rows' = Append(rows, new) /\ new \in RowType
      BY <1>2 DEF Emit, RowType
    <2> HIDE DEF new
    <2>2. /\ DOMAIN rows' = 1 .. Len(rows) + 1
          /\ \A j \in DOMAIN rows : rows'[j] = rows[j]
      BY <1>0, <2>1, AppendKeeps
    <2>3. k \in DOMAIN rows
      BY <1>0, <2>2 DEF Precedes
    <2> QED
      BY <2>2, <2>3 DEF Precedes
  <1> QED
    BY <1>1, <1>2 DEF Commit, Rollback

\* The history misses no committed row.
LEMMA WriterKeepsHistory ==
    ASSUME OrderInv, HistoryIsComplete, NEW w \in Writer,
           Commit(w) \/ Rollback(w) \/ (\E e \in Entity : Emit(w, e))
    PROVE  HistoryIsComplete'
  <1>0. /\ rows \in Seq(RowType) /\ commits \in Seq(SUBSET Nat)
        /\ DOMAIN rows = 1 .. Len(rows) /\ Len(rows) \in Nat
    BY SeqDomain DEF OrderInv, OutboxInv, OutboxTypes, HistoryTypes
  <1>1. CASE Commit(w)
    <2>1. EndTx(w, Committed) /\ commits' = Append(commits, OpenRows(w))
      BY <1>1 DEF Commit
    <2>2. /\ DOMAIN rows' = DOMAIN rows
          /\ \A j \in DOMAIN rows :
               rows'[j].tx = IF rows[j].tx = w THEN Committed ELSE rows[j].tx
      BY <2>1, EndTxRows
    <2>3. OpenRows(w) \in SUBSET Nat
      BY <1>0 DEF OpenRows
    <2>4. /\ DOMAIN commits' = 1 .. Len(commits) + 1
          /\ \A m \in DOMAIN commits : m \in DOMAIN commits' /\ commits'[m] = commits[m]
          /\ commits'[Len(commits) + 1] = OpenRows(w)
      BY <1>0, <2>1, <2>3, AppendKeeps
    <2>5. Len(commits) + 1 \in DOMAIN commits'
      BY <1>0, <2>4, SeqDomain
    <2> QED
      BY <2>2, <2>4, <2>5 DEF HistoryIsComplete, OpenRows
  <1>2. CASE Rollback(w)
    <2>1. EndTx(w, Aborted) /\ commits' = commits
      BY <1>2 DEF Rollback
    <2>2. /\ DOMAIN rows' = DOMAIN rows
          /\ \A j \in DOMAIN rows :
               rows'[j].tx = IF rows[j].tx = w THEN Aborted ELSE rows[j].tx
      BY <2>1, EndTxRows
    <2>3. Aborted # Committed
      BY DEF Aborted, Committed
    <2> QED
      BY <2>1, <2>2, <2>3 DEF HistoryIsComplete
  <1>3. ASSUME NEW e \in Entity, Emit(w, e) PROVE HistoryIsComplete'
    <2> DEFINE new == [entity |-> e, tx |-> w, published |-> FALSE]
    <2>1. rows' = Append(rows, new) /\ new \in RowType /\ new.tx = w /\ commits' = commits
      BY <1>3 DEF Emit, RowType
    <2> HIDE DEF new
    <2>2. /\ DOMAIN rows' = 1 .. Len(rows) + 1
          /\ \A j \in DOMAIN rows : rows'[j] = rows[j]
          /\ rows'[Len(rows) + 1] = new
      BY <1>0, <2>1, AppendKeeps
    <2>3. \A i \in DOMAIN rows' : rows'[i].tx = Committed => i \in DOMAIN rows
      BY <1>0, <2>1, <2>2, RelayAssumption
    <2> QED
      BY <2>1, <2>2, <2>3 DEF HistoryIsComplete
  <1> QED
    BY <1>1, <1>2, <1>3

\* Writers leave both orders as they are.
LEMMA WriterKeepsStream ==
    ASSUME StreamInv, OrderInv', NEW w \in Writer,
           Commit(w) \/ Rollback(w) \/ (\E e \in Entity : Emit(w, e))
    PROVE  StreamInv'
  <1>1. UNCHANGED <<batch, shipped, stream>>
    BY DEF Commit, Rollback, Emit, EndTx, passVars, busVars
  <1>2. HistoryIsComplete'
    BY WriterKeepsHistory DEF StreamInv
  <1>3. \A i \in DOMAIN rows : rows[i].tx = Committed => \A k : Precedes(k, i)' => Precedes(k, i)
    BY WriterAddsNoPredecessor DEF StreamInv
  <1>4. \A i \in DOMAIN rows : rows[i].published => rows'[i].published
    <2>1. rows \in Seq(RowType) /\ \A j \in DOMAIN rows : rows[j] \in RowType
      BY SeqDomain DEF StreamInv, OrderInv, OutboxInv, OutboxTypes
    <2>2. ASSUME NEW outcome, EndTx(w, outcome), NEW i \in DOMAIN rows
          PROVE  rows'[i].published = rows[i].published
      BY <2>1, <2>2 DEF EndTx, RowType
    <2>3. ASSUME NEW e \in Entity, Emit(w, e), NEW i \in DOMAIN rows PROVE rows'[i] = rows[i]
      <3>1. [entity |-> e, tx |-> w, published |-> FALSE] \in RowType
        BY DEF RowType
      <3> QED
        BY <2>1, <2>3, <3>1, AppendKeeps DEF Emit
    <2> QED
      BY <2>2, <2>3 DEF Commit, Rollback
  <1>5. BatchesFollowOrder'
    <2> SUFFICES ASSUME NEW r \in Relay, NEW i \in batch[r], NEW k, Precedes(k, i)'
                 PROVE  rows'[k].published \/ k \in batch[r]
      BY <1>1 DEF BatchesFollowOrder
    <2>1. i \in DOMAIN rows /\ rows[i].tx = Committed
      BY DEF StreamInv, OrderInv, OutboxInv, HeldWasCommitted
    <2>2. Precedes(k, i)
      BY <1>3, <2>1
    <2> QED
      BY <1>4, <2>2 DEF StreamInv, BatchesFollowOrder, Precedes
  <1>6. StreamFollowsOrder'
    <2> SUFFICES ASSUME NEW p \in DOMAIN stream, NEW k, Precedes(k, stream[p])'
                 PROVE  \E q \in DOMAIN stream : q < p /\ stream[q] = k
      BY <1>1 DEF StreamFollowsOrder, Precedes
    <2>1. stream[p] \in DOMAIN rows /\ rows[stream[p]].tx = Committed
      BY DEF StreamInv, OrderInv, OutboxInv, StreamIsCommitted
    <2>2. Precedes(k, stream[p])'
      OBVIOUS
    <2>3. Precedes(k, stream[p])
      BY <1>1, <1>3, <2>1, <2>2 DEF Precedes
    <2> QED
      BY <2>3 DEF StreamInv, StreamFollowsOrder
  <1> QED
    BY <1>2, <1>5, <1>6 DEF StreamInv

\* The n first of a finite set are closed downwards (ORDER BY seq LIMIT n).
LEMMA FirstBatchIsFirst ==
    ASSUME NEW S \in SUBSET Nat, IsFiniteSet(S), NEW i \in FirstBatch(S), NEW k \in S, k < i
    PROVE  k \in FirstBatch(S)
  <1> DEFINE Below(x) == {j \in S : j < x}
  <1>1. i \in S /\ Cardinality(Below(i)) < BatchSize
    BY DEF FirstBatch
  <1>2. Below(k) \subseteq Below(i) /\ Below(i) \subseteq S
    <2>1. \A j \in S : j < k => j < i
      BY <1>1
    <2> QED
      BY <2>1
  <1>3. IsFiniteSet(Below(i)) /\ IsFiniteSet(Below(k))
    BY <1>2, FS_Subset
  <1>4. Cardinality(Below(k)) <= Cardinality(Below(i))
    BY <1>2, <1>3, FS_Subset
  <1>5. Cardinality(Below(k)) \in Nat /\ Cardinality(Below(i)) \in Nat /\ BatchSize \in Nat
    BY <1>3, FS_CardinalityType, RelayAssumption
  <1>6. Cardinality(Below(k)) < BatchSize
    BY <1>1, <1>4, <1>5
  <1> QED
    BY <1>6 DEF FirstBatch

\* The only replica claims whatever precedes what it claims: nobody else holds
\* it (with a second replica, SKIP LOCKED passes over what that one holds).
LEMMA ClaimFollowsOrder ==
    ASSUME StreamInv, NEW r \in Relay, Relay = {r}, Claim(r), OrderInv'
    PROVE  StreamInv'
  <1>1. /\ UNCHANGED <<rows, commits, stream>>
        /\ batch' = [batch EXCEPT ![r] = FirstBatch(Claimable)]
        /\ batch[r] = {}
    BY DEF Claim, Idle, txVars, busVars
  <1>2. /\ batch \in [Relay -> SUBSET Nat]
        /\ DOMAIN rows = 1 .. Len(rows) /\ Len(rows) \in Nat
    BY SeqDomain DEF StreamInv, OrderInv, OutboxInv, OutboxTypes
  <1>3. Claimable = {i \in DOMAIN rows : rows[i].tx = Committed /\ ~rows[i].published}
    BY <1>1 DEF Claimable, Locked
  <1>4. Claimable \in SUBSET Nat /\ IsFiniteSet(Claimable)
    <2>1. Claimable \subseteq 1 .. Len(rows) /\ IsFiniteSet(1 .. Len(rows))
      BY <1>2, <1>3, FS_Interval
    <2>2. IsFiniteSet(Claimable)
      BY <2>1, FS_Subset
    <2>3. Claimable \in SUBSET Nat
      BY <1>2, <2>1
    <2> QED
      BY <2>2, <2>3
  <1>5. BatchesFollowOrder'
    <2> SUFFICES ASSUME NEW i \in FirstBatch(Claimable), NEW k, Precedes(k, i), ~rows[k].published
                 PROVE  k \in FirstBatch(Claimable)
      BY <1>1, <1>2 DEF BatchesFollowOrder, Precedes
    <2>1. k \in Claimable /\ k < i
      BY <1>3 DEF Precedes
    <2> QED
      BY <1>4, <2>1, FirstBatchIsFirst
  <1> QED
    BY <1>1, <1>5 DEF StreamInv, HistoryIsComplete, StreamFollowsOrder, Precedes

\* The row it ships is the least it has left, so what precedes it was shipped.
LEMMA XAddFollowsOrder ==
    ASSUME StreamInv, NEW r \in Relay, XAdd(r) \/ XAddUnheard(r), OrderInv'
    PROVE  StreamInv'
  <1>1. PICK i \in Unsent(r) :
          /\ \A j \in Unsent(r) : i <= j
          /\ stream' = Append(stream, i)
    BY DEF XAdd, XAddUnheard, NextUnsent, AddEntry
  <1>2. UNCHANGED <<rows, commits, batch>>
    BY DEF XAdd, XAddUnheard, txVars
  <1>3. /\ stream \in Seq(Nat) /\ batch[r] \subseteq Nat
        /\ i \in Nat /\ i \in batch[r]
    BY DEF Unsent, StreamInv, OrderInv, OutboxInv, OutboxTypes
  <1>4. /\ DOMAIN stream' = 1 .. Len(stream) + 1
        /\ \A p \in DOMAIN stream : p \in DOMAIN stream' /\ stream'[p] = stream[p]
        /\ stream'[Len(stream) + 1] = i
        /\ DOMAIN stream = 1 .. Len(stream) /\ Len(stream) \in Nat
    BY <1>1, <1>3, AppendKeeps, SeqDomain
  <1>5. ASSUME NEW k, Precedes(k, i) PROVE InStream(k)
    <2>1. CASE rows[k].published
      BY <1>5, <2>1 DEF Precedes, StreamInv, OrderInv, OutboxInv, PublishedIsInStream
    <2>2. CASE k \in batch[r]
      <3>1. k < i /\ k \in Nat
        BY <1>3, <1>5, <2>2 DEF Precedes
      <3>2. k \notin Unsent(r)
        BY <1>1, <1>3, <3>1
      <3>3. k \in shipped[r]
        BY <2>2, <3>2 DEF Unsent
      <3> QED
        BY <3>3 DEF StreamInv, OrderInv, OutboxInv, ShippedIsInStream
    <2> QED
      BY <1>3, <1>5, <2>1, <2>2 DEF StreamInv, BatchesFollowOrder
  <1>6. StreamFollowsOrder'
    <2> SUFFICES ASSUME NEW p \in DOMAIN stream', NEW k, Precedes(k, stream'[p])
                 PROVE  \E q \in DOMAIN stream' : q < p /\ stream'[q] = k
      BY <1>2 DEF StreamFollowsOrder, Precedes
    <2>1. CASE p \in DOMAIN stream
      <3>1. Precedes(k, stream[p])
        BY <1>4, <2>1
      <3> QED
        BY <1>4, <2>1, <3>1 DEF StreamInv, StreamFollowsOrder
    <2>2. CASE p = Len(stream) + 1
      <3>1. InStream(k)
        BY <1>4, <1>5, <2>2
      <3> QED
        BY <1>4, <2>2, <3>1 DEF InStream
    <2> QED
      BY <1>4, <2>1, <2>2
  <1> QED
    BY <1>2, <1>6 DEF StreamInv, HistoryIsComplete, BatchesFollowOrder, Precedes

\* A single replica's steps keep the order of the stream.
LEMMA StreamInvNext ==
    ASSUME NEW r, Relay = {r}
    PROVE  StreamInv /\ [RelayNext]_relayVars => StreamInv'
  <1> SUFFICES ASSUME StreamInv, [RelayNext]_relayVars PROVE StreamInv'
    OBVIOUS
  <1>0. OrderInv /\ OrderInv' /\ OutboxInv
    BY OrderInvNext DEF StreamInv, OrderInv
  <1>1. ASSUME NEW w \in Writer, Commit(w) \/ Rollback(w) \/ (\E e \in Entity : Emit(w, e))
        PROVE  StreamInv'
    BY <1>0, <1>1, WriterKeepsStream
  <1>2. Claim(r) \/ XAdd(r) \/ XAddUnheard(r) => StreamInv'
    BY <1>0, ClaimFollowsOrder, XAddFollowsOrder
  <1>3. CASE Stamp(r)
    <2>1. \A i \in DOMAIN rows : rows[i] \in RowType
      BY <1>0, SeqDomain DEF OutboxInv, OutboxTypes
    <2>2. /\ DOMAIN rows' = DOMAIN rows
          /\ \A i \in DOMAIN rows : rows'[i].tx = rows[i].tx /\ rows'[i].entity = rows[i].entity
          /\ batch' = [batch EXCEPT ![r] = {}]
          /\ UNCHANGED <<commits, stream>>
      BY <1>3, <2>1 DEF Stamp, SetPublished, EndPass, busVars, RowType
    <2>3. batch'[r] = {}
      BY <1>0, <2>2 DEF OutboxInv, OutboxTypes
    <2>4. HistoryIsComplete' /\ BatchesFollowOrder'
      BY <2>2, <2>3 DEF StreamInv, HistoryIsComplete, BatchesFollowOrder
    <2>5. \A p \in DOMAIN stream : stream[p] \in DOMAIN rows
      BY <1>0 DEF OutboxInv, StreamIsCommitted
    <2>6. StreamFollowsOrder'
      BY <2>2, <2>5 DEF StreamInv, StreamFollowsOrder, Precedes
    <2> QED
      BY <1>0, <2>4, <2>6 DEF StreamInv
  <1>4. CASE XAddFails(r)
    BY <1>0, <1>4 DEF XAddFails, txVars, busVars, StreamInv, HistoryIsComplete, BatchesFollowOrder,
                      StreamFollowsOrder, Precedes
  <1>5. CASE RelayCrash(r)
    <2>1. UNCHANGED <<rows, commits, stream>> /\ batch' = [batch EXCEPT ![r] = {}]
      BY <1>5 DEF RelayCrash, EndPass, txVars, busVars
    <2>2. batch'[r] = {}
      BY <1>0, <2>1 DEF OutboxInv, OutboxTypes
    <2> QED
      BY <1>0, <2>1, <2>2 DEF StreamInv, HistoryIsComplete, BatchesFollowOrder,
                              StreamFollowsOrder, Precedes
  <1>6. CASE UNCHANGED relayVars
    BY <1>0, <1>6 DEF relayVars, txVars, passVars, busVars, StreamInv, HistoryIsComplete,
                      BatchesFollowOrder, StreamFollowsOrder, Precedes
  <1> QED
    BY <1>1, <1>2, <1>3, <1>4, <1>5, <1>6 DEF RelayNext, WriterNext, RelayStep

\* What the two orders say together.
LEMMA StreamInvOrdersFirstCopies == StreamInv => PerEntityCommitOrder
  <1> SUFFICES ASSUME StreamInv,
                      NEW p \in DOMAIN stream, NEW q \in DOMAIN stream, p < q,
                      FirstCopy(p), FirstCopy(q),
                      rows[stream[p]].entity = rows[stream[q]].entity
               PROVE  \E m, n \in DOMAIN commits :
                        /\ stream[p] \in commits[m] /\ stream[q] \in commits[n]
                        /\ m < n \/ (m = n /\ stream[p] < stream[q])
    BY DEF PerEntityCommitOrder
  <1> DEFINE i == stream[p]
             j == stream[q]
  <1>1. /\ i \in DOMAIN rows /\ rows[i].tx = Committed
        /\ j \in DOMAIN rows /\ rows[j].tx = Committed
    BY DEF StreamInv, OrderInv, OutboxInv, StreamIsCommitted
  <1>2. /\ DOMAIN rows = 1 .. Len(rows) /\ Len(rows) \in Nat
        /\ DOMAIN stream = 1 .. Len(stream) /\ Len(stream) \in Nat
        /\ DOMAIN commits = 1 .. Len(commits) /\ Len(commits) \in Nat
    BY SeqDomain DEF StreamInv, OrderInv, OutboxInv, OutboxTypes, HistoryTypes
  <1>3. i # j
    BY <1>2 DEF FirstCopy
  <1>4. ~(j < i)
    <2> SUFFICES ASSUME j < i PROVE FALSE
      OBVIOUS
    <2>1. Precedes(j, i)
      BY <1>1 DEF Precedes
    <2>2. PICK x \in DOMAIN stream : x < p /\ stream[x] = j
      BY <2>1 DEF StreamInv, StreamFollowsOrder
    <2> QED
      BY <1>2, <2>2 DEF FirstCopy
  <1>5. i < j
    BY <1>1, <1>2, <1>3, <1>4
  <1>6. PICK m \in DOMAIN commits, n \in DOMAIN commits : i \in commits[m] /\ j \in commits[n]
    BY <1>1 DEF StreamInv, HistoryIsComplete
  <1>7. ~(n < m)
    <2> SUFFICES ASSUME n < m PROVE FALSE
      OBVIOUS
    <2>1. j < i
      BY <1>6 DEF StreamInv, OrderInv, SeqOrderIsCommitOrder
    <2> QED
      BY <1>1, <1>2, <1>5, <2>1
  <1> QED
    BY <1>2, <1>5, <1>6, <1>7

\* With a single replica the order relay.go promises does hold: first copies of
\* one entity's events enter the stream in commit order, through crashes, bus
\* outages and half-shipped batches (ORDER BY seq).  A second replica breaks
\* it: SKIP LOCKED passes over the rows the first one holds.
THEOREM OneReplicaKeepsCommitOrder ==
    ASSUME NEW r, Relay = {r}
    PROVE  RelaySpec => []PerEntityCommitOrder
  <1>1. RelayInit => StreamInv
    <2> SUFFICES ASSUME RelayInit PROVE StreamInv
      OBVIOUS
    <2>1. DOMAIN rows = {} /\ DOMAIN stream = {} /\ \A x \in Relay : batch[x] = {}
      BY DEF RelayInit
    <2> QED
      BY <2>1, OrderInvInit DEF StreamInv, HistoryIsComplete, BatchesFollowOrder, StreamFollowsOrder
  <1>2. StreamInv /\ [RelayNext]_relayVars => StreamInv'
    BY StreamInvNext
  <1> QED
    BY <1>1, <1>2, StreamInvOrdersFirstCopies, PTL DEF RelaySpec

=============================================================================
