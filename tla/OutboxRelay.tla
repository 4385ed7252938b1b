----------------------------- MODULE OutboxRelay -----------------------------
(***************************************************************************)
(* The transactional outbox and its relay                                  *)
(* (platform/database/storekit, platform/events/relay.go).                 *)
(*                                                                         *)
(* A domain transaction locks the entity it changes, appends event_outbox  *)
(* rows and commits or rolls back.  Every relay replica repeats one pass:  *)
(* claim a batch FOR UPDATE SKIP LOCKED, XADD each row, stamp published_at *)
(* on the shipped prefix and commit.  A replica may die anywhere between.  *)
(*                                                                         *)
(* A row is named by its seq, which is its index in rows.  The envelope is *)
(* abstracted to the entity it is about, all streams to one.               *)
(***************************************************************************)
EXTENDS Integers, Sequences, FiniteSets, SequencesExt

CONSTANTS
    Entity,       \* entities whose rows domain transactions lock
    Writer,       \* concurrent domain transactions
    Relay,        \* relay replicas
    NoWriter,     \* the value of a lock nobody holds
    BatchSize,    \* Relay.batchSize
    MaxLen,       \* Relay.maxLen: the stream keeps at least this many entries
    MaxRows,      \* bound: outbox rows
    MaxCrashes,   \* bound: relay passes that die before their commit
    MaxOutages    \* bound: XADD commands that fail, or that Redis runs unheard

Committed == "committed"
Aborted == "aborted"

ASSUME RelayAssumption ==
    /\ NoWriter \notin Writer
    /\ Writer \cap {Committed, Aborted} = {}
    /\ BatchSize \in Nat \ {0}
    /\ MaxLen \in Nat \ {0}
    /\ {MaxRows, MaxCrashes, MaxOutages} \subseteq Nat

VARIABLES
    rows,      \* event_outbox in seq order: entity, owning transaction, published_at
    lock,      \* the writer that holds each entity's row lock
    commits,   \* history: the rows each transaction committed, in commit order
    batch,     \* the rows each relay's open transaction holds locked
    shipped,   \* the rows of its batch each relay has XADDed
    broken,    \* relays whose XADD loop broke on a bus failure
    stream,    \* every entry ever added to the Redis stream: the seq it carries
    trimmed,   \* entries 1..trimmed have been evicted by MAXLEN
    crashes,   \* relay passes lost so far
    outages,   \* XADD failures so far
    unheard    \* history: XADD commands so far that Redis ran unheard

passVars == <<batch, shipped, broken>>
txVars == <<rows, lock, commits>>
busVars == <<stream, trimmed>>
faultVars == <<crashes, outages, unheard>>
relayVars == <<txVars, passVars, busVars, faultVars>>

RowType == [entity : Entity, tx : Writer \cup {Committed, Aborted}, published : BOOLEAN]

\* Types; a relay ships only rows of the batch it holds, and only while it
\* holds one (relayBatch's locals live as long as its transaction).
RelayTypeOK ==
    /\ rows \in Seq(RowType)
    /\ lock \in [Entity -> Writer \cup {NoWriter}]
    /\ commits \in Seq(SUBSET Nat)
    /\ batch \in [Relay -> SUBSET Nat]
    /\ shipped \in [Relay -> SUBSET Nat]
    /\ \A r \in Relay : shipped[r] \subseteq batch[r]
    /\ broken \in [Relay -> BOOLEAN]
    /\ stream \in Seq(Nat)
    /\ trimmed \in Nat
    /\ crashes \in Nat
    /\ outages \in Nat
    /\ unheard \in Nat

RelayInit ==
    /\ rows = <<>>
    /\ lock = [e \in Entity |-> NoWriter]
    /\ commits = <<>>
    /\ batch = [r \in Relay |-> {}]
    /\ shipped = [r \in Relay |-> {}]
    /\ broken = [r \in Relay |-> FALSE]
    /\ stream = <<>>
    /\ trimmed = 0
    /\ crashes = 0
    /\ outages = 0
    /\ unheard = 0

-----------------------------------------------------------------------------
(* Domain transactions: storekit's LockRow and Emit, and the commit around. *)

\* The same INSERT by a writer that never took the row lock.
EmitUnlocked(w, e) ==
    /\ Len(rows) < MaxRows
    /\ rows' = Append(rows, [entity |-> e, tx |-> w, published |-> FALSE])
    /\ UNCHANGED <<lock, commits, passVars, busVars, faultVars>>

\* storekit.Emit inside the transaction that changes entity e.  The domain
\* UPDATE takes e's row lock first and keeps it until the transaction ends.
Emit(w, e) ==
    /\ Len(rows) < MaxRows
    /\ lock[e] \in {NoWriter, w}
    /\ lock' = [lock EXCEPT ![e] = w]
    /\ rows' = Append(rows, [entity |-> e, tx |-> w, published |-> FALSE])
    /\ UNCHANGED <<commits, passVars, busVars, faultVars>>

OpenRows(w) == {i \in DOMAIN rows : rows[i].tx = w}

EndTx(w, outcome) ==
    /\ OpenRows(w) # {}
    /\ rows' = [i \in DOMAIN rows |->
                  IF rows[i].tx = w THEN [rows[i] EXCEPT !.tx = outcome] ELSE rows[i]]
    /\ lock' = [e \in Entity |-> IF lock[e] = w THEN NoWriter ELSE lock[e]]
    /\ UNCHANGED <<passVars, busVars, faultVars>>

Commit(w) ==
    /\ EndTx(w, Committed)
    /\ commits' = Append(commits, OpenRows(w))

Rollback(w) ==
    /\ EndTx(w, Aborted)
    /\ UNCHANGED commits

-----------------------------------------------------------------------------
(* The relay pass: relayBatch. *)

Locked == UNION {batch[r] : r \in Relay}

\* Reading rows whose transaction is still open or was rolled back.
ClaimableUncommitted == {i \in DOMAIN rows : ~rows[i].published} \ Locked

\* WHERE published_at IS NULL, under SKIP LOCKED.
Claimable ==
    {i \in DOMAIN rows : rows[i].tx = Committed /\ ~rows[i].published} \ Locked

\* ORDER BY seq LIMIT batchSize.
FirstBatch(S) == {i \in S : Cardinality({j \in S : j < i}) < BatchSize}

Idle(r) == batch[r] = {}

\* The SELECT ... FOR UPDATE SKIP LOCKED that opens a pass.
Claim(r) ==
    /\ Idle(r)
    /\ Claimable # {}
    /\ batch' = [batch EXCEPT ![r] = FirstBatch(Claimable)]
    /\ UNCHANGED <<txVars, shipped, broken, busVars, faultVars>>

Unsent(r) == batch[r] \ shipped[r]

Shipping(r) == Unsent(r) # {} /\ ~broken[r]

\* The row the loop is at: the batch is shipped in seq order.
NextUnsent(r) == {i \in Unsent(r) : \A j \in Unsent(r) : i <= j}

\* What Redis does with XADD.  MAXLEN ~ evicts the oldest entries lazily and
\* never below MaxLen.
AddEntry(i) ==
    /\ stream' = Append(stream, i)
    /\ trimmed' \in trimmed .. Max({trimmed, Len(stream) + 1 - MaxLen})

\* XADD of the next row, answered.
XAdd(r) ==
    /\ Shipping(r)
    /\ \E i \in NextUnsent(r) :
         /\ AddEntry(i)
         /\ shipped' = [shipped EXCEPT ![r] = @ \cup {i}]
    /\ UNCHANGED <<txVars, batch, broken, faultVars>>

\* A bus failure breaks the loop; the prefix that shipped is still stamped.
XAddFails(r) ==
    /\ Shipping(r)
    /\ outages + unheard < MaxOutages
    /\ outages' = outages + 1
    /\ broken' = [broken EXCEPT ![r] = TRUE]
    /\ UNCHANGED <<txVars, batch, shipped, busVars, crashes, unheard>>

\* Redis adds the entry and the answer is lost (a timeout, a reset): either the
\* client sends the command again, or it gives up and the loop breaks as on any
\* error.  The row is not in the shipped prefix and ships again.
XAddUnheard(r) ==
    /\ Shipping(r)
    /\ outages + unheard < MaxOutages
    /\ unheard' = unheard + 1
    /\ \E i \in NextUnsent(r) : AddEntry(i)
    /\ \E gaveUp \in BOOLEAN : broken' = [broken EXCEPT ![r] = gaveUp]
    /\ UNCHANGED <<txVars, batch, shipped, crashes, outages>>

\* A pass that leaves the next one broken.
EndPassStillBroken(r) ==
    /\ batch' = [batch EXCEPT ![r] = {}]
    /\ shipped' = [shipped EXCEPT ![r] = {}]
    /\ UNCHANGED broken

EndPass(r) ==
    /\ batch' = [batch EXCEPT ![r] = {}]
    /\ shipped' = [shipped EXCEPT ![r] = {}]
    /\ broken' = [broken EXCEPT ![r] = FALSE]

\* published_at is set on exactly the given rows.
SetPublished(S) ==
    rows' = [i \in DOMAIN rows |->
               IF i \in S THEN [rows[i] EXCEPT !.published = TRUE] ELSE rows[i]]

\* Stamping the whole batch although the XADD loop broke half way.
StampWholeBatch(r) ==
    /\ ~Idle(r)
    /\ ~Shipping(r)
    /\ SetPublished(batch[r])
    /\ EndPass(r)
    /\ UNCHANGED <<lock, commits, busVars, faultVars>>

\* Rolling the stamps back when the XADD loop broke half way.
StampAllOrNothing(r) ==
    /\ ~Idle(r)
    /\ ~Shipping(r)
    /\ SetPublished(IF broken[r] THEN {} ELSE shipped[r])
    /\ EndPass(r)
    /\ UNCHANGED <<lock, commits, busVars, faultVars>>

\* UPDATE published_at for the shipped prefix, then COMMIT; with nothing
\* shipped the transaction rolls back and the pass reports the bus error.
Stamp(r) ==
    /\ ~Idle(r)
    /\ ~Shipping(r)
    /\ SetPublished(shipped[r])
    /\ EndPass(r)
    /\ UNCHANGED <<lock, commits, busVars, faultVars>>

\* The process dies, or the UPDATE or the COMMIT fails: Postgres rolls back
\* and releases the row locks, Redis keeps what was added.
RelayCrash(r) ==
    /\ ~Idle(r)
    /\ crashes < MaxCrashes
    /\ crashes' = crashes + 1
    /\ EndPass(r)
    /\ UNCHANGED <<txVars, busVars, outages, unheard>>

RelayStep(r) == Claim(r) \/ XAdd(r) \/ Stamp(r)

WriterNext == \E w \in Writer : Commit(w) \/ Rollback(w) \/ (\E e \in Entity : Emit(w, e))

RelayNext ==
    \/ WriterNext
    \/ \E r \in Relay : RelayStep(r) \/ XAddFails(r) \/ XAddUnheard(r) \/ RelayCrash(r)

\* Relay.Run loops until its process is stopped and retries every error, so
\* each replica keeps taking steps; a transaction is ended by its caller or
\* by the connection's end.
RelayFairness ==
    /\ \A r \in Relay : WF_relayVars(RelayStep(r))
    /\ \A w \in Writer : WF_relayVars(Commit(w) \/ Rollback(w))

RelaySpec == RelayInit /\ [][RelayNext]_relayVars /\ RelayFairness

-----------------------------------------------------------------------------
(* Properties. *)

Copies(i) == {p \in DOMAIN stream : stream[p] = i}

FirstCopy(p) == \A q \in 1 .. p - 1 : stream[q] # stream[p]

\* A row is stamped published only when it is in the stream: nothing the
\* relay forgets was never shipped (relayBatch stamps the shipped prefix).
StampedWasShipped == \A i \in DOMAIN rows : rows[i].published => Copies(i) # {}

\* Only committed rows ever reach the bus (the outbox is transactional).
ShippedWasCommitted == \A p \in DOMAIN stream : rows[stream[p]].tx = Committed

\* A row has at most one copy per lost pass and one per answer the relay did
\* not hear, plus one: replicas that divide the backlog add none, and neither
\* does a batch that breaks half way (FOR UPDATE SKIP LOCKED, and relayBatch
\* stamps the shipped prefix whatever broke the loop).
DuplicatesAreAccountedFor ==
    \A i \in DOMAIN rows : Cardinality(Copies(i)) <= 1 + crashes + unheard

\* "Per-entity seq order IS commit order": seq is drawn at the INSERT, long
\* before the commit, and only the entity's row lock keeps the two orders
\* together (storekit.Emit under LockRow; relayBatch ships by seq).
SeqOrderIsCommitOrder ==
    \A m, n \in DOMAIN commits : \A i \in commits[m], j \in commits[n] :
        m < n /\ rows[i].entity = rows[j].entity => i < j

\* Events of one entity enter the stream in the order their transactions
\* committed, and in seq order within a transaction (relay.go's ORDER BY seq, TestRelayPreservesCommitOrderPerEntity).
PerEntityCommitOrder ==
    \A p, q \in DOMAIN stream :
        /\ p < q
        /\ FirstCopy(p) /\ FirstCopy(q)
        /\ rows[stream[p]].entity = rows[stream[q]].entity
        => \E m, n \in DOMAIN commits :
             /\ stream[p] \in commits[m] /\ stream[q] \in commits[n]
             /\ m < n \/ (m = n /\ stream[p] < stream[q])

\* Every committed row is eventually stamped, through bus outages and crashes.
CommittedIsEventuallyPublished ==
    \A i \in 1 .. MaxRows :
        (i \in DOMAIN rows /\ rows[i].tx = Committed)
            ~> (i \in DOMAIN rows /\ rows[i].published)

=============================================================================
