---------------------------- MODULE ConsumerGroup ----------------------------
(***************************************************************************)
(* One consumer group of the event bus: platform/events/subscriber.go with *)
(* every handler wrapped by platform/events/dedupe.go.                     *)
(*                                                                         *)
(* Replicas of one group loop: an XAUTOCLAIM scan adopts entries pending   *)
(* for MinIdle, XREADGROUP fetches up to ReadCount fresh ones, and each    *)
(* entry fetched is delivered in turn: check the mark, run the effect,     *)
(* mark, ack.  Redis (streams, pending list, marks) is external; the       *)
(* handler is abstracted to "its effect happened once more".               *)
(*                                                                         *)
(* Time is a tick: it ages the pending list and the delivery in progress.  *)
(* A delivery takes at most HandlerTime ticks, the "honest runtime" that   *)
(* Subscriber.minIdle has to exceed.                                       *)
(***************************************************************************)
EXTENDS Integers, Sequences, FiniteSets, SequencesExt

CONSTANTS
    Consumer,      \* replicas of the group (host-pid consumer names)
    Event,         \* event ids
    Undecodable,   \* events whose envelope does not decode or validate
    ReadCount,     \* Subscriber.batch
    MinIdle,       \* Subscriber.minIdle, in ticks
    HandlerTime,   \* the slowest delivery, in ticks
    MaxEntries,    \* bound: entries that arrive
    MaxFaults,     \* bound: handler, mark and ack failures and crashes
    MaxExpiries    \* bound: marks that outlive DedupeTTL

ASSUME GroupAssumption ==
    /\ IsFiniteSet(Consumer)
    /\ Undecodable \subseteq Event
    /\ {ReadCount, MinIdle, HandlerTime} \subseteq Nat \ {0}
    /\ HandlerTime < MinIdle
    /\ {MaxEntries, MaxFaults, MaxExpiries} \subseteq Nat

VARIABLES
    stream,    \* the entries ever added: the event each one carries
    trimmed,   \* entries 1..trimmed are evicted
    lastId,    \* the group's last-delivered entry
    idle,      \* the pending entries list: ticks since each was last delivered
    phase,     \* where each consumer's loop stands
    queue,     \* the entries a consumer has fetched and not finished: it takes
               \* them in id order, as Redis returned them
    after,     \* what a consumer does once its queue is empty
    cursor,    \* how far a consumer's XAUTOCLAIM scan has come
    elapsed,   \* ticks spent on the delivery in progress
    held,      \* history: ticks since the page in hand was fetched, up to MinIdle
    marks,     \* dedupe keys present
    effects,   \* history: how often each event's effect ran
    faults,    \* failures so far
    expiries   \* marks expired so far

arrivalVars == <<stream, trimmed>>
pelVars == <<lastId, idle>>
loopVars == <<phase, queue, after, cursor, elapsed, held>>
effectVars == <<marks, effects>>
budgetVars == <<faults, expiries>>
groupVars == <<arrivalVars, pelVars, loopVars, effectVars, budgetVars>>

Delivering == {"check", "run", "mark", "ack"}
Position == 1 .. MaxEntries
Pending == DOMAIN idle

\* Types; everything a consumer holds has been delivered to the group.
GroupTypeOK ==
    /\ stream \in Seq(Event)
    /\ trimmed \in 0 .. Len(stream)
    /\ lastId \in 0 .. Len(stream)
    /\ Pending \subseteq 1 .. lastId
    /\ idle \in [Pending -> 0 .. MinIdle]
    /\ phase \in [Consumer -> {"reclaim", "read"} \cup Delivering]
    /\ queue \in [Consumer -> SUBSET (1 .. lastId)]
    /\ \A c \in Consumer : queue[c] # {} <=> phase[c] \in Delivering
    /\ after \in [Consumer -> {"reclaim", "read"}]
    /\ cursor \in [Consumer -> 0 .. Len(stream)]
    /\ elapsed \in [Consumer -> 0 .. HandlerTime]
    /\ held \in [Consumer -> 0 .. MinIdle]
    /\ marks \subseteq Event
    /\ effects \in [Event -> Nat]
    /\ faults \in 0 .. MaxFaults
    /\ expiries \in 0 .. MaxExpiries

GroupInit ==
    /\ stream = <<>>
    /\ trimmed = 0
    /\ lastId = 0
    /\ idle = <<>>
    /\ phase = [c \in Consumer |-> "reclaim"]
    /\ queue = [c \in Consumer |-> {}]
    /\ after = [c \in Consumer |-> "read"]
    /\ cursor = [c \in Consumer |-> 0]
    /\ elapsed = [c \in Consumer |-> 0]
    /\ held = [c \in Consumer |-> 0]
    /\ marks = {}
    /\ effects = [e \in Event |-> 0]
    /\ faults = 0
    /\ expiries = 0

-----------------------------------------------------------------------------
(* Fetching: Run's loop, reclaim and XREADGROUP. *)

Current(c) == Min(queue[c])
CurrentEvent(c) == stream[Current(c)]

\* The smallest n members of S.
FirstPage(S, n) == {p \in S : Cardinality({q \in S : q < p}) < n}

\* Reclaiming without the idle window.
StaleAtOnce(p) == TRUE

\* XAUTOCLAIM's MinIdle condition.
Stale(p) == idle[p] >= MinIdle

Goto(c, next) ==
    /\ phase' = [phase EXCEPT ![c] = next]
    /\ UNCHANGED <<queue, after, cursor, elapsed, held>>

Fails == faults < MaxFaults /\ faults' = faults + 1

Fetched(c, page) ==
    /\ queue' = [queue EXCEPT ![c] = page]
    /\ phase' = [phase EXCEPT ![c] = "check"]
    /\ elapsed' = [elapsed EXCEPT ![c] = 0]
    /\ held' = [held EXCEPT ![c] = 0]

Reset(S, age) == [p \in Pending \cup S |-> IF p \in S THEN age ELSE idle[p]]

Forget(S) == [p \in Pending \ S |-> idle[p]]

\* One XAUTOCLAIM page.  Entries evicted from the stream leave the pending
\* list unhandled; the others restart their idle clock and are delivered
\* next.  The scan goes on until it wraps, then the loop reads.
Reclaim(c) ==
    /\ phase[c] = "reclaim"
    /\ LET stale == {p \in Pending : p > cursor[c] /\ Stale(p)}
           page  == FirstPage(stale, ReadCount)
           live  == {p \in page : p > trimmed}
           wraps == Cardinality(stale) <= ReadCount
       IN  /\ idle' = [p \in Pending \ (page \ live) |-> IF p \in live THEN 0 ELSE idle[p]]
           /\ cursor' = [cursor EXCEPT ![c] = IF wraps THEN 0 ELSE Max(page)]
           /\ after' = [after EXCEPT ![c] = IF wraps THEN "read" ELSE "reclaim"]
           /\ IF live = {}
              THEN /\ phase' = [phase EXCEPT ![c] = IF wraps THEN "read" ELSE "reclaim"]
                   /\ UNCHANGED <<queue, elapsed, held>>
              ELSE Fetched(c, live)
    /\ UNCHANGED <<arrivalVars, lastId, effectVars, budgetVars>>

\* XAUTOCLAIM failed: log, give up this scan, read.
ReclaimFails(c) ==
    /\ phase[c] = "reclaim"
    /\ Fails
    /\ phase' = [phase EXCEPT ![c] = "read"]
    /\ cursor' = [cursor EXCEPT ![c] = 0]
    /\ UNCHANGED <<arrivalVars, pelVars, queue, after, elapsed, held, effectVars, expiries>>

Fresh == {p \in DOMAIN stream : p > lastId /\ p > trimmed}

\* XREADGROUP ">": the page becomes pending and the group moves past it.
Read(c) ==
    /\ phase[c] = "read"
    /\ Fresh # {}
    /\ LET page == FirstPage(Fresh, ReadCount)
       IN  /\ lastId' = Max(page)
           /\ idle' = Reset(page, 0)
           /\ Fetched(c, page)
    /\ after' = [after EXCEPT ![c] = "reclaim"]
    /\ UNCHANGED <<arrivalVars, cursor, effectVars, budgetVars>>

\* The blocking read timed out with nothing new: loop.
ReadTimesOut(c) ==
    /\ phase[c] = "read"
    /\ Fresh = {}
    /\ Goto(c, "reclaim")
    /\ UNCHANGED <<arrivalVars, pelVars, effectVars, budgetVars>>

\* The read failed: log, back off, loop.
ReadFails(c) ==
    /\ phase[c] = "read"
    /\ Fails
    /\ Goto(c, "reclaim")
    /\ UNCHANGED <<arrivalVars, pelVars, effectVars, expiries>>

-----------------------------------------------------------------------------
(* Delivering one entry: deliver, Dedupe and ack. *)

\* Done with the head of the queue, acked or left pending.
Advance(c) ==
    /\ queue' = [queue EXCEPT ![c] = @ \ {Current(c)}]
    /\ phase' = [phase EXCEPT ![c] = IF queue[c] # {Current(c)} THEN "check" ELSE after[c]]
    /\ elapsed' = [elapsed EXCEPT ![c] = 0]
    /\ held' = [held EXCEPT ![c] = IF queue[c] # {Current(c)} THEN @ ELSE 0]
    /\ UNCHANGED <<after, cursor>>

\* decodeEnvelope failed, or the mark says another delivery finished: ack.
Skip(c) ==
    /\ phase[c] = "check"
    /\ CurrentEvent(c) \in Undecodable \cup marks
    /\ Goto(c, "ack")
    /\ UNCHANGED <<arrivalVars, pelVars, effectVars, budgetVars>>

\* Dedupe in the other order: the mark is written before the effect.
StartMarked(c) ==
    /\ phase[c] = "check"
    /\ CurrentEvent(c) \notin Undecodable \cup marks
    /\ Goto(c, "run")
    /\ marks' = marks \cup {CurrentEvent(c)}
    /\ UNCHANGED <<arrivalVars, pelVars, effects, budgetVars>>

\* The mark is absent: the handler starts.
Start(c) ==
    /\ phase[c] = "check"
    /\ CurrentEvent(c) \notin Undecodable \cup marks
    /\ Goto(c, "run")
    /\ UNCHANGED <<arrivalVars, pelVars, effectVars, budgetVars>>

\* The wrapped handler returned nil.
Effect(c) ==
    /\ phase[c] = "run"
    /\ effects' = [effects EXCEPT ![CurrentEvent(c)] = @ + 1]
    /\ Goto(c, "mark")
    /\ UNCHANGED <<arrivalVars, pelVars, marks, budgetVars>>

\* A successful delivery that never writes its mark.
MarkForgotten(c) ==
    /\ phase[c] = "mark"
    /\ Goto(c, "ack")
    /\ UNCHANGED <<arrivalVars, pelVars, marks, effects, budgetVars>>

\* SET key with DedupeTTL.
Mark(c) ==
    /\ phase[c] = "mark"
    /\ marks' = marks \cup {CurrentEvent(c)}
    /\ Goto(c, "ack")
    /\ UNCHANGED <<arrivalVars, pelVars, effects, budgetVars>>

\* Acking an entry whose handler failed.
DeliveryFailsAcked(c) ==
    /\ phase[c] \in {"check", "run", "mark"}
    /\ Fails
    /\ idle' = Forget({Current(c)})
    /\ Advance(c)
    /\ UNCHANGED <<arrivalVars, lastId, effectVars, expiries>>

\* The mark check, the handler or the mark write returned an error: no ack,
\* the entry stays pending for a later reclaim.
DeliveryFails(c) ==
    /\ phase[c] \in {"check", "run", "mark"}
    /\ Fails
    /\ Advance(c)
    /\ UNCHANGED <<arrivalVars, pelVars, effectVars, expiries>>

Ack(c) ==
    /\ phase[c] = "ack"
    /\ idle' = Forget({Current(c)})
    /\ Advance(c)
    /\ UNCHANGED <<arrivalVars, lastId, effectVars, budgetVars>>

AckFails(c) ==
    /\ phase[c] = "ack"
    /\ Fails
    /\ Advance(c)
    /\ UNCHANGED <<arrivalVars, pelVars, effectVars, expiries>>

\* The process dies and a replacement starts its loop from the top.
ConsumerCrash(c) ==
    /\ phase[c] \in Delivering
    /\ Fails
    /\ queue' = [queue EXCEPT ![c] = {}]
    /\ phase' = [phase EXCEPT ![c] = "reclaim"]
    /\ cursor' = [cursor EXCEPT ![c] = 0]
    /\ elapsed' = [elapsed EXCEPT ![c] = 0]
    /\ held' = [held EXCEPT ![c] = 0]
    /\ UNCHANGED <<arrivalVars, pelVars, after, effectVars, expiries>>

-----------------------------------------------------------------------------
(* Time and the environment. *)

\* Ages are told apart up to the reclaim window.
OneTickOlder(age) == IF age < MinIdle THEN age + 1 ELSE MinIdle

\* A tick never makes a delivery longer than HandlerTime.
Tick ==
    /\ \A c \in Consumer : phase[c] \in Delivering => elapsed[c] < HandlerTime
    /\ idle' = [p \in Pending |-> OneTickOlder(idle[p])]
    /\ held' = [c \in Consumer |->
                  IF phase[c] \in Delivering THEN OneTickOlder(held[c]) ELSE held[c]]
    /\ elapsed' = [c \in Consumer |->
                     IF phase[c] \in Delivering THEN elapsed[c] + 1 ELSE elapsed[c]]
    /\ UNCHANGED <<arrivalVars, lastId, phase, queue, after, cursor, effectVars, budgetVars>>

\* DedupeTTL has passed since the mark was written: days, so no delivery of
\* that event is in progress any more.
MarkExpires(e) ==
    /\ e \in marks
    /\ \A c \in Consumer : \A p \in queue[c] : stream[p] # e
    /\ expiries < MaxExpiries
    /\ expiries' = expiries + 1
    /\ marks' = marks \ {e}
    /\ UNCHANGED <<arrivalVars, pelVars, loopVars, effects, faults>>

\* The relay adds an entry, perhaps for an event it has already added.
Arrive(e) ==
    /\ Len(stream) < MaxEntries
    /\ stream' = Append(stream, e)
    /\ UNCHANGED <<trimmed, pelVars, loopVars, effectVars, budgetVars>>

\* MAXLEN evicts the oldest entry.
Trim ==
    /\ trimmed < Len(stream)
    /\ trimmed' = trimmed + 1
    /\ UNCHANGED <<stream, pelVars, loopVars, effectVars, budgetVars>>

ConsumerStep(c) ==
    \/ Reclaim(c) \/ Read(c) \/ ReadTimesOut(c)
    \/ Skip(c) \/ Start(c) \/ Effect(c) \/ Mark(c) \/ Ack(c)

ConsumerFault(c) ==
    ReclaimFails(c) \/ ReadFails(c) \/ DeliveryFails(c) \/ AckFails(c) \/ ConsumerCrash(c)

\* The group's own steps; entries arrive from outside.
GroupStep ==
    \/ \E c \in Consumer : ConsumerStep(c) \/ ConsumerFault(c)
    \/ \E e \in Event : MarkExpires(e)
    \/ Tick

GroupNext == GroupStep \/ Trim \/ (\E e \in Event : Arrive(e))

\* Subscriber.Run loops for the life of its process, a crashed replica is
\* restarted, and handlers return; time passes.
GroupFairness ==
    /\ \A c \in Consumer : WF_groupVars(ConsumerStep(c))
    /\ WF_groupVars(Tick)

GroupSpec == GroupInit /\ [][GroupNext]_groupVars /\ GroupFairness

-----------------------------------------------------------------------------
(* Properties. *)

\* An entry leaves the pending list only after the effect of its event has
\* run, unless it cannot be decoded or MAXLEN evicted it: run-THEN-mark and
\* ack-after-success lose nothing to a crash, a failed mark or a lost ack.
AckedMeansEffectRan ==
    \A p \in trimmed + 1 .. lastId :
        p \notin Pending /\ stream[p] \notin Undecodable => effects[stream[p]] > 0

\* "Keeping the window above the handler's honest runtime means the bus stops
\* producing the duplicate" (cmd/worker/main.go): it does for the entry a replica
\* took up when it fetched its page.  Two replicas run one entry at once only if
\* one of them has held its page for the whole window and let the entry wait
\* behind an earlier one of it (Subscriber.reclaim and deliver: a page is run in
\* turn, XAUTOCLAIM's clock has started for all of it).
OverlapNeedsALongPage ==
    \A c, d \in Consumer :
        c # d /\ phase[c] = "run" /\ phase[d] = "run" /\ Current(c) = Current(d)
            => \E x \in {c, d} : held[x] >= MinIdle /\ elapsed[x] < held[x]

\* Read without its condition the sentence is false of a page longer than the
\* window (ConsumerGroupBatch.cfg): no entry is ever run by two replicas at once.
OneRunnerPerEntry ==
    \A c, d \in Consumer :
        c # d /\ phase[c] = "run" /\ phase[d] = "run" => Current(c) # Current(d)

\* However many copies of an event arrive, its effect re-runs only because
\* replicas ran it at the same time, a fault hid that it had run, or its mark
\* expired: the mark absorbs every other redelivery.
RerunsAreAccounted ==
    \A e \in Event : effects[e] <= Cardinality(Consumer) * (1 + faults + expiries)

\* Every decodable entry takes effect in the group unless MAXLEN evicts it
\* first, through failed reads, handlers, marks and acks and dead replicas.
ArrivedEventuallyTakesEffect ==
    \A p \in Position :
        (p \in DOMAIN stream /\ stream[p] \notin Undecodable)
            ~> (p <= trimmed \/ (p \in DOMAIN stream /\ effects[stream[p]] > 0))

=============================================================================
