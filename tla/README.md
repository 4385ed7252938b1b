# Margince: a verification project

TLA+ models of the parts of Margince in which concurrency and failure decide what
the program does, the TLC runs that check them on small instances, and TLAPS
proofs of the properties that matter most for every instance. Paths below are
relative to `src/backend/` unless they start with `src/`.

Margince is a governed CRM: a Go API and worker over PostgreSQL, with Redis
streams as its event bus. Most of its code is record keeping. What is hard is
the machinery that lets agents act for people and lets processes react to one
another: a transactional outbox, an at-least-once bus, an approvals engine that
turns a human's "yes" into one call executed once, and a runner whose agents park
on those approvals for hours and are woken by the bus; then the ways a message
leaves the house: the idempotency keys that make a retry safe, the alarms that
send a scheduled message, and the dispatcher that hands it to a provider once.

## 1. Inventory

| Component | State | Operations | Hard behaviour | What makes it correct |
|---|---|---|---|---|
| Outbox and relay: `platform/events/relay.go`, `storekit.Emit` | `event_outbox` rows (seq, published_at), row locks, the stream | emit in a domain transaction; claim a batch, XADD each row, stamp, commit | crash between XADD and stamp; bus failure mid-batch; an XADD whose answer is lost; two relays; seq drawn before commit | stamped ⇒ shipped ⇒ committed; every duplicate has a crash or a lost answer behind it; seq order is commit order per entity; everything committed is published |
| Bus subscriber: `platform/events/subscriber.go` | pending entries and idle clocks, per-replica page and reclaim cursor | reclaim, read, deliver, ack | crash anywhere; slow replicas reclaimed by peers; failed handler, ack, read, reclaim; trimming | an entry leaves the pending list only after its effect; two runners of one entry only behind a page held too long; every entry takes effect |
| Dedupe marks: `platform/events/dedupe.go` | Redis keys with a TTL | check, run, mark | the crash between effect and mark; two copies at once; expiry | every re-run has a reason |
| Approvals, staging: `modules/approvals/staging.go`, `stagingidentity.go`, `stageagentcall.go` | `approval` rows, advisory locks, row locks | stage, join, supersede, rebundle, stage-unless-declined, stage an agent's call, withdraw | two stagings of one question; a decision between probe and write | one live question; a refusal is remembered; no decided proposal is joined |
| Approvals, deciding: `decide.go`, `bundle.go`, `decidingactor.go`, `expiresweep.go`, `expiry.go` | status, payload, decided_at, `approval.decided` events | approve, reject, edit and approve, decide a bundle, expire, erase | decision against sweep, withdrawal, bundle decision, erasure; two clocks | one verdict, announced once, never revised, its text gone only with an erasure; everything expires |
| Approvals, redemption: `redeem.go` | consumed_at, target version | validate, consume, apply in the same or a later transaction | two redemptions; the target moves; the caller dies after consuming | one effect, of the approved call, at the approved version where the write carries it |
| Agent runner: `modules/agents/runner/store.go`, `runner.go`, `compose/runnerservice.go` | `runner_job`, `agent_run`, in-memory loops | seed, claim, start, loop, suspend, land, finish, sweep, resume on a decision | crash at every point; redelivered decisions; late terminal writes; two runs parked on one approval | one loop per run; nothing in flight for ever; what will wake or end a parked run is never used up while it stays parked |
| Idempotency keys: `compose/idempotency.go`, `compose/agentidempotency.go`, `compose/idempotencyretention.go`, `modules/agents/idempotency.go`, `registry.go` | `idempotency_key` rows (digest, response, created_at) | claim, reclaim past the window, replay, redeem an asserted approval, run, settle, release, sweep | concurrent attempts; retries after a lost answer; the sweep inside a claim; a claim or settlement that fails; two doors with different rules | one run per window; a replay is the request's own; a retry reaches its result; no key held for ever |
| Scheduled sending: `compose/commsscheduled.go`, `scheduledsendheld.go`, `scheduledsendrecovery.go`, `modules/activities/scheduledsend*.go` | `scheduled_send` rows with a version, River alarms, held cards | schedule, fire, hold, re-arm, move, cancel, accept or reject a card, erase | several alarms for one message; lost alarms; two surfaces that lock in opposite orders; an erasure | one send, as the row stands; a hold has its card, or lost it to a fault or an erasure; the newer choice stands; nothing waits for ever |
| Outbound delivery: `modules/comms/*.go`, `compose/commsjobs.go`, `modules/capture/{gmail,telegram}/send.go` | `comms_outbound` rows (status, attempts, in-flight marker), River jobs | stage, load, gates, pacing, transmit, record, park, postpone, retry, scrub | a crash between the provider and the receipt; answers that are lost; a lookup that lags; two ladders; overlapping attempts | one copy, but for what the lookup missed; the row tells the truth; every attempt asks the gates; every delivery ends |
| Agent gate, quota, webhook retries, automation, capture, records, identity, AI runtime, search, front ends | see `PROJECT.json` | | | not modelled yet, or out of reach (section 8) |

Interactions. Every handler of every component writes its events through
`storekit.Emit` in its own transaction, so approvals and the runner are producers
of the outbox; the relay ships to streams; each consumer group is a set of
subscriber replicas whose handler is wrapped by the dedupe marks. The runner is
one such handler: its group `cg:overnight-agent` consumes `approval.decided`. The
agent gate calls the approvals engine to stage a call and to redeem it, under the
idempotency key the caller presents. A scheduled message that is released becomes
an outbound delivery; one that is held becomes a proposal in the approvals inbox.
A subject's erasure reaches into all of them: it withdraws cards and ends the runs
parked on them, stops scheduled messages and closes deliveries.

The hazards, with the lines where they bite and the properties that catch them,
are in `PROJECT.json`.

## 2. Modules

| Module | Role |
|---|---|
| `OutboxRelay` | domain transactions, the outbox, relay replicas, the stream |
| `OutboxProofs` | TLAPS: stamped ⇒ shipped ⇒ committed; duplicates are accounted for; seq order is commit order, and one replica keeps it |
| `ConsumerGroup` | replicas of one group with their dedupe marks |
| `GroupProofs` | TLAPS: acked ⇒ effect ran; marks absorb redeliveries; only long pages overlap |
| `EventDelivery` | abstract: exactly the committed events take effect, and all do |
| `EventBackbone` | `OutboxRelay` and `ConsumerGroup` over one stream; refines `EventDelivery` |
| `BackboneProofs` | TLAPS: the backbone implements the safety of `EventDelivery`; nothing is lost, copies are absorbed |
| `Approvals` | the approvals engine |
| `Authority` | abstract: an approval is asked, settled, spent and performed once each |
| `Cards` | abstract: what the engine and those who wait on it agree about, a card put up, decided and told, withdrawn, spent |
| `ApprovalsProofs` | TLAPS: every safety property of `Approvals`, and that it implements `Authority` and `Cards` |
| `AgentRunner` | the runner with its job queue and the decisions it waits for |
| `RunnerProofs` | TLAPS: one loop per run; parked runs stay owed; its cards move as `Cards` says |
| `OutboundDelivery` | a staged message, its job, and the dispatcher's attempts |
| `OutboundProofs` | TLAPS: one copy; the row accounts for it; gates, ladders and final rows; no open row is forgotten |
| `ScheduledSend` | a scheduled message, its alarms, its card and the reps who answer it |
| `ScheduledProofs` | TLAPS: one release, as it stands; holds and cards; newer choices |
| `IdempotencyKeys` | one key and the attempts made under it, through either door |
| `IdempotencyProofs` | TLAPS: once per window, own replays, results reached |
| `MC*` | the constants and request sets the configurations choose from |

Operators whose comment describes a faulty variant (`StampWholeBatch`,
`SweepUnguarded`, ...) stand just before the operator they vary. No specification
uses them: they are the mutants `PROJECT.json` lists, and each breaks the
property it is listed for.

### 2.1 OutboxRelay

A row is its position in `rows` (its `seq`), with the entity it is about, the
transaction that wrote it and its stamp. `Emit` takes the entity's lock and
appends; `Commit` and `Rollback` end a transaction. `commits` is the history of
commits, each the set of rows it made visible. A relay pass is `Claim`
(the locked SELECT), one `XAdd` per row, or an `XAddFails` that breaks the loop, or
an `XAddUnheard`, which Redis runs and whose answer is lost: the entry is in the
stream, the relay does not know it and ships the row again, at once or in a later
pass; and `Stamp` (UPDATE and COMMIT; with nothing shipped the pass rolls back, which
leaves the same state). `RelayCrash` is a dead process or a failed commit: the
row locks go, the stream keeps what was added. `MAXLEN ~` is lazy: a trim may
evict any number of entries beyond `MaxLen`.
Abstracted: all streams are one, the envelope is its entity, and the poll
interval is the absence of a guard.

### 2.2 ConsumerGroup

`phase` is the program counter of `Subscriber.Run`: `reclaim`, `read`, and the four
points of a delivery, `check`, `run`, `mark`, `ack`. A page fetched by `Reclaim` or
`Read` is delivered entry by entry; `after` says where the loop goes then, `cursor`
how far the XAUTOCLAIM scan has come, `held` how long the page has been in hand. Every
Redis or handler call may fail (`ReclaimFails`, `ReadFails`, `DeliveryFails`,
`AckFails`) and a replica may die. `Tick` ages the pending entries and the delivery
under way, and never lets one delivery exceed `HandlerTime`: that is the assumption
`Subscriber.minIdle` documents. Redis itself (`Arrive`, `Trim`, the pending list's
bookkeeping) is external. Groups share nothing but the stream, so one group stands for
all. `queue[c]` is the part of a page a replica has not finished, taken in id order.
Purging a group and re-creating it is not modelled.

### 2.3 EventBackbone

The two models over one `stream` and `trimmed`; an event's id is its row's seq.
`Emit` validates an envelope before it inserts, so nothing is undecodable here.
The instance keeps `MaxLen` above everything that can be added, since a trimmed
entry is lost by design. `BackboneAssumption` is the group's assumption for the
constants it is instanced with. `NothingIsLost` says where a committed event can be
between its commit and its effect, trimming included.

### 2.4 Approvals

A row has a status, the request it was staged for, its payload, its pinned target
version, its deadline, the time of its decision, whether it is consumed, and its
bundle. `proposed_change` is a model value that equals its `diff_hash`;
`Identity` maps it to the logical identity its stager declares.

A handler that takes its row lock first and runs in one transaction is one
action (`Decide`, `DecideBundle`, `Sweep`, `Withdraw`). `Redact` is a subject's
erasure: it expires and blanks what is pending, and blanks what is settled, which
keeps its verdict and its hash. A blanked refusal is no longer recognised, so its
offer may be made again. `erased` marks the rows it reached, `Personal` the changes
it finds its subject in. Two handlers are not atomic and
are split where others interleave:

* staging: `Probe` takes the advisory lock of the proposal's identity and the
  row locks of what it reads, and fixes the transaction's `now()`; `StageNothing`,
  `StageRow` or `StageAborts` ends it. `op` says which entry point it is:
  `create` (`StageInTx`), `join` (`StageOrJoinPendingInTx` without an identity),
  `identity` (with one: it also supersedes), `unless` (`StageUnlessDeclined` with
  an identity), `call` (`StageAgentCall`);
* redemption: `Validate` reads without a lock, `Consume` or `ConsumeAndApply` is
  the conditional UPDATE, `Apply` the write a released caller makes later, and
  `RedemptionEnds` every way to stop. Executors differ in what they do with the pin
  `Redeem` hands them, so a kind says it: those in `PinnedWrite` condition the write
  on it (an agent's call through `pinForWrite`, `closedate`, `assign_owner`), the
  others drop it (`scrapeaccept.go:29`, and likewise the reconcile, sitelead,
  coldstart and linkedin executors). `SameTxKind` are those that use
  `RedeemAndApply`, whose effect may also stand down and leave the target alone.

`clock` is PostgreSQL's `now()`; an application process reads any value within
`MaxSkew` of it (`AppNow`). The never-expiring kinds get the placeholder deadline
`MaxTime`. A forced expiry back-dates the deadline by one tick, where the code
uses a day.

Abstracted: grants, scopes and visibility (they only refuse), prechecks, the
decline and expiry effects of other modules, the quota release, the per-item TTL
override, the size cap of a bundle, and the variant of `StageUnlessDeclined`
keyed by hash. A handler takes all its row locks in one step, so the model says
nothing about lock-order deadlocks.

### 2.5 AgentRunner

An occurrence is one `runner_job` and at most one `agent_run`. A worker is one
goroutine: a scheduling pass (`BeginTick` sweeps, `Seed`, `ClaimDueJobs`, then each
job of its batch in turn) or a delivery of a decision. Every transaction of the store
is one action; what a worker remembers between two is lost in a `Crash`. `Land` is
`landOutcome` (`SaveOutcome`, or `MarkFailed` for a fault), `LandIsLost` and
`FinishIsLost` are the writes that fail and are only logged. `aged` are the rows older
than `stuckRunGrace`: a row nobody holds may age, one in a live loop may not (the wall
clock is half the grace), and `AgeStalled` is the terminal write that takes longer
than the rest of the grace. The approvals engine appears as the calls the loop makes
(`Propose`, `ProposeApproved`) and the decisions it gets. `Decide` answers a set of
cards, as a bundle decision does. `Propose` may stage a call anew while a pending card
for it exists, because a card past its deadline no longer counts and stays `pending`
until a sweep reaches it. A withdrawn approval is never announced:
`RedactStagedApproval` is the erasure that withdraws it, and `EndsParked` what it does
to the runs parked on that card or on one withdrawn before. All faults draw on one
bound, `MaxFaults`. A retry that is refused only feeds the model's window, and is a
stutter here. A duplicate trigger cannot reach `StartRun` twice, because `EnqueueJob`
makes one job per occurrence. A failing `MarkFailed` in a refused resume has the same
effect as a crash there. `Cards` ties the two views of an approval together:
`Approvals` implements it (`KeepsTheCards`; a withdrawn card is an expired row that
announced nothing) and so does `AgentRunner` (`StaysWithinTheCards`). It says which
moves a card can make and that a decision is told in the step that takes it; it does
not say that the runner takes every move the engine can make. The withdrawals it
leaves out are those of an agent that replaces or cancels its own proposal: a call
replaces nothing (`stageagentcall.go`), and `tasks/cancel` needs a handle minted on
the MCP surface, which the runner's loop does not use.

### 2.6 OutboundDelivery

A delivery is its row and its job, which commit together (`Stage`). `work` is the
program counter of one `DispatchWithWait` with what it read at `Load`: the
attempt it counted and the in-flight marker it saw. Every store or provider call
is a step; the dispositions (`Park`, `Retry`, `Postpone`, `Throttled`) are the
writes they make and the verdict they report, and each may find the row closed
(`Skip`) or fail. `Report` and `Spent` are River: a verdict counts only from the
attempt River believes is running, a snooze gives the rung back, the last failed
rung discards the job. `Rescue` takes a job back from a dead worker or, at most
`MaxStale` times, from one that is only slow. A row is one of three kinds: mail
whose provider keeps the message id it is given, mail whose provider replaces it,
and a channel, which has no prior-send lookup and relies on the marker. The lookup
of a retry reads a search index that may lag behind a send
(`gmail/send.go:69-73`, `253-259`), so where there is a copy to find, `Transmit` may
still miss it and send another; `misses` counts these per delivery.
Abstracted: the gates are one conjunction of live facts, the policies one free
choice to wait, and a reason is its class.

### 2.7 ScheduledSend

One message. `alarm` are the River jobs alive for it, each at a point of
`scheduledSendWorker.Work`: waiting, about to hold for a refused sender, about to
fire, or about to hold because its ladder is exhausted. A transaction of the alarm or
the recovery pass locks the row alone and is one action. A rep's answer is two:
`Reschedule` and `Cancel` hold the row and then want the card, `Reject` holds the card
and then wants the row (`RowLocked`, `CardLocked`), and `DeadlockAborts` is PostgreSQL
choosing a victim. `Accept` commits the decision before its effect runs, so the effect
may be lost (`EffectFails`, and `Apply` on a row that moved). An erasure has two ways
in: `Erase` is the redaction of a message that is addressed to the subject, with the
row's CHECK, and `EraseNamed` takes the card of one that is not, because its text
contains an address of theirs. A hold is named by the version it gave the row: a
session remembers the one it accepted, and `gone` says that the hold in force lost its
card to an erasure or a lost effect. Abstracted: the message and its gates, which
answer freely, and the zone a moment is given in. A moment leaves the recovery pass
room to see it before `MaxTime`, so the bounded clock does not decide a liveness
question.

### 2.8 IdempotencyKeys

One key, whose `door` is chosen at the start: REST, a tool call, or a tool call
that asserts an approval. `claimKey` is three actions (`InsertClaim`,
`ResolveExistingClaim`, `Reinsert`) because the sweep may take the row between
them. `Run` is the handler, which fails or not, and `Settle` what the door makes of
it: REST frees a failed key, a tool does not. `Recorded` and `Released` address
the row by key alone, as the code does, so a degraded REST attempt can settle a
row it never claimed. A call ends within `MaxRun`, which is shorter than
`Window`: the handlers' timeouts are minutes, the window is a day.

## 3. Runs

| Run | What it shows | Bounds |
|---|---|---|
| `outbox_relay` | `StampedWasShipped`, `ShippedWasCommitted`, `DuplicatesAreAccountedFor`, `SeqOrderIsCommitOrder`, `CommittedIsEventuallyPublished` | 2 writers, 2 entities, 2 relays, 3 rows, batches of 2, 1 crash, 1 outage or lost answer, a stream of 5 |
| `consumer_group` | `AckedMeansEffectRan`, `OverlapNeedsALongPage`, `RerunsAreAccounted`, `ArrivedEventuallyTakesEffect` | 2 replicas, 3 entries of a good and an undecodable event, pages of 2, window 2, handler 1, 1 fault, 1 expired mark |
| `event_backbone` | `DeliversEveryCommittedEvent` (refinement, liveness included) | 1 writer, 2 relays, 1 consumer, 2 rows, 1 crash, 1 outage or lost answer, 1 fault |
| `approvals_staging` | `OneVerdictAnnounced`, `OneLiveQuestion`, `DecisionIsFinal`, `DeclinedIsRemembered` | 2 stagers, 3 requests of one identity, a bundle, 2 rows, both of which an erasure may reach |
| `approvals_live` | `PendingIsEventuallySettled`, `DecidedWithinItsWindow` | 2 stagers, 2 rows, an expiring and a never-expiring kind, skew 1 |
| `approvals_redeem` | `SingleUse`, `OnlyTheApprovedCall`, `OnlyUncheckedWritesDrift`, `ImplementsAuthority`, `KeepsTheCards` | 2 callers, 2 rows, 2 payloads, 3 target versions, four kinds: an agent's call whose write carries its pin, a pinned server proposal spent and applied in one transaction, one whose executor drops the pin, and a call that pins nothing |
| `agent_runner` | `OneLoopPerRun`, `ParkedStayOwed`, `InFlightComesToRest`, `UndeliveredDecisionWakes` | 2 occurrences of one call, 1 approval, 2 workers, 1 fault of any kind |
| `outbound_delivery` | `OneCopy`, `RowAccountsForCopies`, `WithdrawnStopsTheNextAttempt`, `OpenHasItsJob`, `ClosedIsFinal`, `EveryDeliveryEnds` | 1 delivery of any kind, 2 workers, 3 rungs, 2 slips (store faults or deaths), 1 lookup that misses a copy, 1 rescue of a live attempt |
| `scheduled_send` | `OneRelease`, `CardMeetsHold`, `NewerChoiceStands`, `GoesOnlyAsItStands`, `NothingWaitsForEver` | 2 alarms, 2 reps, 2 attempts, clock to 4, 3 versions, 3 faults |
| `idempotency_keys` | `ReplayIsTheRequestsOwn`, `RetryReachesItsResult`, `RunsOncePerWindow`, `HeldKeyComesBack` | 2 attempts at a time, 4 in all, 2 requests, window 2, 2 faults, each door |

Why the bounds are enough: each hazard needs two actors and one object they
contend for, one fault between two of their steps, and one step more to see the
damage. Two relays, replicas, stagers, callers, workers or reps give every
pairwise interleaving; one fault of a kind may strike at every point; three outbox rows
let a row overtake another while a third is in a batch; three entries are two
copies of an event and one behind them. Three rungs are a first attempt, a retry
and a last one, with two slips to fail a receipt and then its park; a lookup that
misses needs a copy before it and a rung after it, so one is all that fits before
the last rung, and the theorem covers longer ladders. A window of two ticks with
a handler of one and pages of two is the case where a page outlasts the window.
Two approvals are all a race over one identity needs. Two alarms are
the one a message was given and the one a move or the recovery pass adds; three
versions are a choice, its replacement and a hold. Four calls under a key are two
that race, a retry, and one past the window. The instances where a bound matters
to the answer are the ones below.

The two message models and the keys are about one message and one key each: rows
of different messages share no state (the policies' meters only add waits, which
are chosen freely).

`CHECK_DEADLOCK FALSE` is set for the models that stop when their bounded rows,
time, versions or rungs are used up. The consumer group and the runner loop for
ever and are checked for deadlock.

### Runs that end in a violation

Two runs check a sentence of the repository's comments and find it untrue of the
code. `PROJECT.json` quotes the sentences.

* `scheduled_erasure`: a subject who is addressed by a held message cannot be
  erased. The redaction clears `held_reason` and keeps the status, the table's
  CHECK refuses that row, and the erasure transaction rolls back.
* `outbound_stranded`: the gates come before the exhaustion guard. On the last
  rung a gate that cannot learn its answer asks for a retry the runner no longer
  has; the job is discarded and the row stays pending. `EveryDeliveryEnds` is what
  does hold.

### Documented deviations

More comments that the models contradict. The first six have a configuration
that shows the trace (they are not part of the list of runs); the others were
met while modelling.

* `OutboxOrderTwoRelays.cfg` (`PerEntityCommitOrder`): with two relays, which the
  API (`cmd/api/relay.go:48`) and the worker (`cmd/worker/boot.go:472`) start, the
  stream does not hold an entity's events in commit order. One relay holds the
  earlier row locked while the other skips it and ships the later one
  (`relay.go:59-60`, "polls unpublished event_outbox rows in commit order"; `:145`).
  `SeqOrderIsCommitOrder` holds: the order is lost in publication only.
* `ConsumerGroupBatch.cfg` (`OneRunnerPerEntry`): a reclaim window longer than the
  slowest handler (`subscriber.go:45-48`) does not prevent two replicas from
  running one entry, nor does it mean that "the bus stops producing the duplicate"
  (`cmd/worker/main.go:268-271`): entries wait behind the rest of their page with
  their idle clocks running, and nothing bounds a page of 64 by the window.
  `OverlapNeedsALongPage` is what does hold under the window the code asks for.
* `ApprovalsPinnedSameTx.cfg` (`AppliedAtTheApprovedVersion`): `RedeemAndApply` on
  a pinned kind is said to have "no window at all" (`redeem.go:40-41`;
  `deepreadaccept.go:49`, `signalproposals.go:258`). The version is read without a
  lock, and another transaction may commit before the effect writes. Some executors
  re-check the field they write, the pin is not re-checked. Executors that drop the
  pin `Redeem` returns have the window `redeem.go:33-39` describes.
  `OnlyUncheckedWritesDrift` says that nothing else drifts.
* `AgentRunnerCrash.cfg` (`ClaimedJobIsAccountedFor`): a worker that dies with
  claimed jobs leaves them `running` for ever, although "a brief that never ran
  must say why, not vanish" (`runnerservice.go:203-204`). `InFlightComesToRest` is
  what does hold.
* `OutboundUnsent.cfg` (`AcceptedNeverRecordedUnsent`): "a message the provider
  accepted may never end up recorded as unsent" (`comms/store.go:315-316`). An erasure
  may scrub the row while the message is in transmission, and mail whose receipt
  fails may be parked on a later rung.
* `ScheduledHeldSilently.cfg` (`HeldStillAsks`): "a failed move leaves the card
  unconsumed and retryable" (`scheduledsendheld.go:210-214`). The decision is
  committed before the effect runs (`decide.go:106`, `160-178`) and a second one is
  refused (`decide.go:237`), so the message stays held with no card. An erasure
  of somebody the message only mentions withdraws the card too
  (`erasure_approvals.go:71-72`, `175-182`) and leaves the row held: a "silent stop"
  the card exists to prevent. `CardMeetsHold` allows these, hold by hold, and
  nothing else.
* The relay's "crash window is the only duplicate source" (`relay.go:67`): an XADD
  that Redis ran and whose answer was lost (`relay.go:167-176`) leaves the row
  unstamped and ships it again without any crash. `DuplicatesAreAccountedFor`
  counts both.
* A proposal that was declined may be offered again after an erasure reached it:
  the blanked row contains no identity to recognise it by. `DeclinedIsRemembered`
  says so.
* An accepted card's effect reads the row's version after the decision, so it
  overwrites a move made on the other surface just before, against
  `scheduledsendstore.go:144-145` ("two surfaces moving one message must not
  silently resolve to whichever wrote last").
* A REST attempt whose claim fails executes without one and then settles the row
  by key (`idempotency.go:106-128`): it can overwrite another attempt's response or
  delete its claim, so two attempts can both execute, against `idempotency.go:8-13`.
  `ReplayIsTheRequestsOwn` and `RunsOncePerWindow` exempt these histories and no
  others.
* A provider may discard the message id it is given (`comms/store.go:302-304`), and
  the prior-send lookup then finds nothing: `OneCopy` exempts that kind. Where it
  keeps the id, the index the lookup reads may lag (`gmail/send.go:69-73`), and
  each time it does a retry may send once more: `OneCopy` counts these. Two
  attempts that overlap may both transmit; `OneCopy` exempts a rescue of a live
  attempt.
* The decision path compares `expires_at` with the application's clock although
  `staging.go:391-396` says every reader compares against PostgreSQL's;
  `DecidedWithinItsWindow` allows the skew.
* A decision delivered, or a card withdrawn, between the staging of a call and the
  parking of its run wakes or ends nobody (`runnerservice.go:315`); no catalogued
  agent owns a confirm-first tool today. `UndeliveredDecisionWakes` and
  `ParkedStayOwed` state what the code does guarantee, of a run once it is parked.
  A run woken by a decision may also be moved to `running` and closed by the sweep.

## 4. Fairness

* Relays: weak fairness of each replica's pass. `Relay.Run` loops until its
  process stops and retries every error. Transactions end: the caller ends them,
  or the connection does.
* Consumers: weak fairness of each replica's loop, and of time. `Subscriber.Run`
  loops for the life of its process, a crashed replica is restarted, and handlers
  return (they are bounded by contexts).
* Approvals: the sweep is a periodic job, stagings end, time passes. Nobody has
  to decide anything.
* Runner: a worker goes on with what it does (`Work`; the wall clock ends every
  loop, and a loop can propose only finitely often); rows nobody holds age. Strong
  fairness for the start of a pass and for a delivery: both need an idle worker,
  which is so only now and then in the model, while in the code the scheduler has
  a ticker and the consumer a goroutine of its own.

* Outbound delivery: River keeps fetching available jobs, a worker that runs goes
  on, the rescuer collects the jobs of dead workers, a delivery grows old.
* Scheduled sending: time passes, River runs due alarms, the recovery pass is a
  periodic job, a rep's open transaction ends (PostgreSQL ends a deadlock).
* Idempotency keys: calls end, time passes, the retention sweep is a periodic job.

No fault and no human decision is ever assumed to happen.

## 5. Proofs

The theorems hold for every value of the constants that satisfies the `ASSUME` of the
module (`RelayAssumption`, `GroupAssumption`, `BackboneAssumption`,
`ApprovalsAssumption`, `RunnerAssumption`, `OutboundAssumption`, `ScheduleAssumption`,
`KeyAssumption`): sets of any size, any bounds. Two theorems
(`OneReplicaKeepsCommitOrder`, `RefusalsAreRemembered`) have a hypothesis more, and
each is one a configuration or the code speaks to; they are marked below. Every safety
invariant and every action property that a passing run checks is stated by a theorem.

**`OutboxProofs`**, with one lemma per action.

* `StampedWasShipped`, `ShippedWasCommitted`: a stamp is only as good as what the
  relay remembers to have shipped, and a shipped row only as committed as the batch
  it came from. `OutboxInv` adds that what a relay holds is committed
  (`HeldWasCommitted`), that what it believes shipped is in the stream
  (`ShippedIsInStream`), and the two properties in the form a step needs.
* `DuplicatesAreAccountedFor` counts. `CopiesInv` says that no row is in two passes
  (`PassesApart`), that a held row is unstamped, and that a row at rest, unstamped and
  shipped by no open pass, has at most one copy for each crash and each answer the
  relay did not hear (`CopiesArePaidFor`); any other row may have one more.
* `SeqOrderIsCommitOrder`: `OrderInv` says that an uncommitted row is covered by its
  entity's lock (`OpenRowsAreLocked`), that it is therefore behind every other row of
  its entity (`OpenRowsAreLast`), and that `commits` lists nothing uncommitted.
* `PerEntityCommitOrder` under the hypothesis `Relay = {r}`: a pass holds, or finds
  stamped, whatever precedes a row it holds (`BatchesFollowOrder`), so what precedes a
  row precedes its first copy (`StreamFollowsOrder`). With two relays the first of
  these fails, and `OutboxOrderTwoRelays.cfg` shows it.

**`GroupProofs`**.

* `AckedMeansEffectRan`: an ack comes two steps after the effect, possibly from a
  replica that found a mark. `AckInv` adds that a mark lies behind an effect
  (`MarksHaveRun`), and before a delivery that is about to mark or ack
  (`DeliveriesHaveRun`).
* `RerunsAreAccounted`: `RunsAreCounted` bounds the effects of an unmarked event by
  what the faults and expired marks allow and the deliveries that ran it and have not
  marked it; a marked one must leave room for the deliveries that found no mark and
  still run (`AtWork`).
* `OverlapNeedsALongPage`, for every window longer than one delivery: an entry in hand
  has been pending no longer than its page has been held (`ClocksFollowHands`), so of
  two replicas with an entry in common one has held its page for the whole window
  (`SharedWasHeldLong`); and a delivery alone ends before the window does, so that
  entry had waited behind another.

**`BackboneProofs`**. `GroupProofs` is instanced for the group of `EventBackbone`, and
`OutboxProofs` extended. A step of one side keeps its own invariant by the lemmas
there; for the group, all that a relay's step does is to let the stream grow
(`StreamGrows`, proved harmless in `GroupProofs`), and to the outbox the group does
nothing. Then every step is one of `EventDelivery` or a stutter
(`BackboneImplementsDelivery`): an effect is of an entry in the stream, which is of a
committed row. `NothingIsLost` and, across both components, `RerunsAreAccounted`
follow from the joint invariant.

**`ApprovalsProofs`**.

* Types: one lemma per group of actions over lemmas about the row constructors.
* Redemption. `SingleUse` is not inductive: two callers may have validated the same
  approval. `RedemptionInv` adds `SpentBeforeApplied`: an effect lies behind a consumed
  approval, a released caller holds one that is consumed and not applied, and no two
  released callers hold the same. The other half is that nothing but redemption touches
  an approved row (`StagingSparesApproved`, `DecidingSparesApproved`), which is also
  what makes `OnlyTheApprovedCall` stable.
* Finality. A staging decides to join at its probe and writes later. `StagingInv` says
  that what it is about to join is pending and in its locks, and that no two
  transactions hold one row; `DecisionIsFinal` and `JoinsWhatItHolds` follow. An
  erasure is the one step that reaches a settled row, and takes its text alone.
* Verdicts and windows. `OneVerdictAnnounced` ties the announcements of a row to its
  status; `DecidedWithinItsWindow` is proved step by step: only a decision
  gives a verdict, and it refuses a row that has lapsed by its own clock (`InItsWindow`).
* `OneLiveQuestion`. `QuestionInv` adds that a probe lies in the past, that two
  stagings of one identity are never both past their probe (the advisory lock,
  `IdentitiesApart`), that a pending row asks what it was staged for, and that a call
  about to be staged anew is asked by no live row (`NewCallsAreNew`). Where the probe
  picks the least of its candidates the proof takes a minimum by well-founded
  induction over the naturals.
* `DeclinedIsRemembered` under the hypothesis `OffersGoByIdentity`: a kind that
  `StageUnlessDeclined` stages is staged in no way that ignores its identity. Each such
  kind has one stager in the code. `RefusalsWait`: until a staging that found no refusal
  ends, nobody can refuse an offer of its identity, since it holds those there are.
* `OnlyUncheckedWritesDrift`, for any kinds and executors: `PinInv` says that only rows
  of pinned kinds carry a pin, and that an effect that missed its pin is of an executor
  that dropped it or that shared its transaction with the redemption.
* `ImplementsAuthority`: under the mapping `LifeOf` every step is a step of `Authority`
  or leaves it unchanged, from `RedemptionInv` and `StagingInv`.
* `KeepsTheCards`: the same for `Cards` under `CardOf`, where a bundle decision answers
  a set of cards and a superseding staging withdraws the ones it replaces. `CardsInv`
  is those two invariants with `OneVerdictAnnounced`. From it follows
  `WaitersHearOfEveryDecision`: the announced cards are the decided ones, spent
  included, and no others.

**`RunnerProofs`**. `RunnerInv` adds to the types that a worker past its claim knows its
job (`KnowsItsJob`), that a run in a worker's memory has begun and is not parked, so that
no decision resumes it under the worker (`HeldIsUnderWay`), and that one worker holds
it (`OneHolder`). `ParkedStayOwed` is proved action by action: a card stops being owed
when an erasure withdraws it, and then the parked runs end with it, or when a worker
takes its decision, and then it takes every run parked on the card; that an
acknowledgement uses nothing up rests on `TakenIsAnnounced` and on a worker keeping
the decision it was handed (`KeepsItsEvent`). `RunnerKeepsTheCards` needs the types
only: a staging puts a card up, a decision answers a set, an erasure
retracts one, a redemption spends an approved one, and nothing else touches a card.

**`OutboundProofs`**. `OutboundInv` has three parts.

* `CopyInv`, per delivery: unless a live attempt was rescued the one worker at work is
  the job's runner (`Sole`) and counts the attempt on the row (`Counted`); once a copy
  of mail that keeps its id is out, every later attempt knows it is not the first and
  looks, and a further copy is one the lookup missed the others for (`MailLooks`); a
  channel's marker stands from before the call until a definite answer
  (`MarkerStands`); and a receipt is of a copy (`Receipted`). `OneCopy` and
  `RowAccountsForCopies` follow.
* `LateInv`: an attempt that began after a withdrawal is still before its gates.
* `LadderInv` compares the two counters: River's is behind the row's but for slips,
  rescues, and attempts that are about to count.

`ClosedIsFinal` is proved step by step: every write is conditioned on a pending row.
`OpenHasItsJob` rests on `JobInv`: whatever an attempt reports, its job runs again, has
used up its ladder, or completes behind a row that is closed (`JobAnswered`). What a
discarded job has counted is then bounded by `LadderInv`.

**`ScheduledProofs`**. Nothing here is inductive alone. `ScheduleInv` adds what each
job remembers of the row (`JobOK`: the version a failed attempt claimed is never
ahead of the row, and behind it once a rep has moved the message), that one
transaction at a time holds the row and finds it as it left it (`OneHolder`), that
an accepted hold is remembered until its effect ended (`SessionOK`), is never ahead of
the row, and has no card while it is the row's own (`AcceptedOnce`), and that an
erased message is at rest (`ErasedRests`). `OneRelease`, `CardMeetsHold` and
`NewerChoiceStands` are conjuncts; `GoesOnlyAsItStands` follows step by step.

**`IdempotencyProofs`**. `KeyInv` says that, as long as nobody degraded, whoever holds
the key made the claim that stands there and is the only one (`OneClaimant`), and
that the claim a handler ran under is still there or its window is over
(`RunsAreCovered`). The latter needs `CallsAreShort`: a call that outlived the
window could settle another's claim.

Only model-checked: the liveness properties (`CommittedIsEventuallyPublished`,
`ArrivedEventuallyTakesEffect`, `PendingIsEventuallySettled`, `InFlightComesToRest`,
`UndeliveredDecisionWakes`, `EveryDeliveryEnds`, `NothingWaitsForEver`,
`HeldKeyComesBack`) and the fairness half of `DeliversEveryCommittedEvent`: fairness
and ENABLED are beyond the prover.

Some theorems state a property no run lists. `JoinsWhatItHolds` and `LadderKeepsUp` are
the invariants on which `DecisionIsFinal` and `OpenHasItsJob` rest; TLC checked them on
the constants of `ApprovalsStaging.cfg` and `OutboundDelivery.cfg`. `KeepsTheCards` was
checked on those of `ApprovalsStaging.cfg` too, where bundles and replacements occur,
and `StaysWithinTheCards` on those of `AgentRunner.cfg` with two approvals.

## 6. Plan

Done: the backbone, the approvals engine, the runner, idempotency keys, scheduled
sending, outbound delivery, and the proofs above. Next, in this order:

1. Extend: webhook retries, the agent quota with its release on approval, the
   automation engine's run bookkeeping, the bus purge.
2. Compose: `ScheduledSend` with `OutboundDelivery`, whose interface is the staged
   row. The proofs of both sides are there to be instanced, as `BackboneProofs` does.
   `AgentRunner` and `Approvals` meet in `Cards`; a joint module would add the event
   bus between them.

Runs are kept few: a new module brings one run, and takes over the place of a run
whose question it answers as well.

## 7. Running it

    tlc -workers 2 -config OutboxRelay.cfg MCOutboxRelay     # likewise the others
    tlapm OutboxProofs.tla       # likewise GroupProofs, BackboneProofs, ApprovalsProofs,
                                 # RunnerProofs, OutboundProofs, ScheduledProofs,
                                 # IdempotencyProofs

## 8. Not modelled, and why

`PROJECT.json` lists every component. Left out for good: the AI runtime, capture
and the connectors (external services and parsing), search and the projections
(derived data), the record stores (single statements under a version check, which
appears in `Approvals` as the target's version), the River job runtime (third
party), the front ends and the packaging. Left for later: section 6.
