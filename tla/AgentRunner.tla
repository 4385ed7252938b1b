----------------------------- MODULE AgentRunner -----------------------------
(***************************************************************************)
(* The overnight-agent runner (compose.RunnerService over runner.Store):   *)
(* a scheduling pass seeds and claims trigger occurrences, a run loops     *)
(* over tools, suspends on a staged approval, and is resumed by the        *)
(* approval.decided event of the at-least-once bus.                        *)
(*                                                                         *)
(* A worker is one goroutine: it is in a scheduling pass or in a delivery. *)
(* Each transaction of the store is one action; what a worker remembers    *)
(* between two of them is lost when it crashes.  The approvals engine      *)
(* appears as the calls the runner makes to it and the events it gets.     *)
(***************************************************************************)
EXTENDS Naturals, FiniteSets

CONSTANTS
    Job,            \* trigger occurrences: one runner_job and one agent_run each
    Worker,
    Call,           \* [Job -> the tool call this occurrence proposes]
    ClaimBatch,     \* claimBatch
    MaxApprovals,   \* bound: approvals staged
    MaxFaults       \* bound: worker crashes, terminal writes that fail or are slower than
                    \* stuckRunGrace, and decisions delivered again after they were acked

ASSUME RunnerAssumption ==
    /\ DOMAIN Call = Job
    /\ ClaimBatch \in Nat \ {0}
    /\ MaxApprovals \in Nat /\ MaxFaults \in Nat

Approval == 1 .. MaxApprovals
None == 0

VARIABLES
    job,       \* runner_job.status
    run,       \* agent_run: status, approval_id, attempt
    worker,    \* what each goroutine is doing
    approval,  \* the approval table: status and call
    acked,     \* decisions the consumer group has acknowledged
    aged,      \* runs whose updated_at is older than stuckRunGrace
    faults     \* faults so far, by kind

runnerVars == <<job, run, worker, approval, acked, aged, faults>>

JobStatus == {"none", "queued", "running", "done", "failed"}
RunStatus == {"none", "running", "awaiting_approval", "completed", "degraded", "failed"}
SettledRun == {"completed", "degraded", "failed"}
ApprovalStatus == {"none", "pending", "approved", "rejected", "expired", "withdrawn", "spent"}
Pc == {"idle", "ticking", "seeded", "ready", "claimed", "looping", "landing", "finishing"}

Idle == [pc |-> "idle", batch |-> {}, job |-> None, event |-> None, outcome |-> "none", wait |-> None]

\* Types; every run ends in a status the store's status map names (SaveOutcome).
RunnerTypeOK ==
    /\ job \in [Job -> JobStatus]
    /\ run \in [Job -> [status : RunStatus, approval : Approval \cup {None}, attempt : Nat]]
    /\ worker \in [Worker -> [pc : Pc, batch : SUBSET Job, job : Job \cup {None},
                              event : Approval \cup {None}, outcome : RunStatus,
                              wait : Approval \cup {None}]]
    /\ approval \in [Approval -> [status : ApprovalStatus,
                                  call : {Call[j] : j \in Job} \cup {None}]]
    /\ acked \subseteq Approval
    /\ aged \subseteq Job
    /\ faults \in [crash : Nat, lost : Nat, stall : Nat, duplicate : Nat]

RunnerInit ==
    /\ job = [j \in Job |-> "none"]
    /\ run = [j \in Job |-> [status |-> "none", approval |-> None, attempt |-> 0]]
    /\ worker = [w \in Worker |-> Idle]
    /\ approval = [a \in Approval |-> [status |-> "none", call |-> None]]
    /\ acked = {}
    /\ aged = {}
    /\ faults = [crash |-> 0, lost |-> 0, stall |-> 0, duplicate |-> 0]

Goes(w, pc) == worker' = [worker EXCEPT ![w].pc = pc]

Spend(kind) ==
    /\ faults.crash + faults.lost + faults.stall + faults.duplicate < MaxFaults
    /\ faults' = [faults EXCEPT ![kind] = @ + 1]

\* A worker holding a run in memory.
Holds(w, j) == worker[w].pc \in {"claimed", "looping", "landing"} /\ worker[w].job = j

-----------------------------------------------------------------------------
(* The scheduling pass: Tick. *)

\* FailStuckRuns' WHERE clause.
Stuck == {j \in aged : run[j].status = "running"}

\* reapAbandonedRuns opens every pass.
BeginTick(w) ==
    /\ worker[w].pc = "idle"
    /\ run' = [j \in Job |-> IF j \in Stuck THEN [run[j] EXCEPT !.status = "failed"] ELSE run[j]]
    /\ aged' = aged \ Stuck
    /\ Goes(w, "ticking")
    /\ UNCHANGED <<job, approval, acked, faults>>

\* EnqueueJob for each catalog entry that is due; re-seeding is a no-op.
Seed(w) ==
    /\ worker[w].pc = "ticking"
    /\ \E due \in SUBSET Job :
         job' = [j \in Job |-> IF j \in due /\ job[j] = "none" THEN "queued" ELSE job[j]]
    /\ Goes(w, "seeded")
    /\ UNCHANGED <<run, approval, acked, aged, faults>>

Smaller(n, m) == IF n < m THEN n ELSE m

\* ClaimDueJobs: up to claimBatch queued jobs, in one statement.
ClaimDueJobs(w) ==
    /\ worker[w].pc = "seeded"
    /\ LET queued == {j \in Job : job[j] = "queued"}
       IN  \E mine \in SUBSET queued :
             /\ Cardinality(mine) = Smaller(ClaimBatch, Cardinality(queued))
             /\ job' = [j \in Job |-> IF j \in mine THEN "running" ELSE job[j]]
             /\ worker' = [worker EXCEPT ![w] =
                  [Idle EXCEPT !.pc = IF mine = {} THEN "idle" ELSE "ready", !.batch = mine]]
    /\ UNCHANGED <<run, approval, acked, aged, faults>>

\* A pass that stops after its first job.
NextInBatchDropped(w, j) == worker' = [worker EXCEPT ![w] = Idle]

\* The batch goes on, or the pass is over.
NextInBatch(w, j) ==
    LET rest == worker[w].batch \ {j}
    IN  worker' = [worker EXCEPT ![w] =
          [Idle EXCEPT !.pc = IF rest = {} THEN "idle" ELSE "ready", !.batch = rest]]

\* executeJob refuses: no passport, an unknown spec, no run row.
RefuseJob(w, j) ==
    /\ worker[w].pc = "ready"
    /\ j \in worker[w].batch
    /\ job' = [job EXCEPT ![j] = "failed"]
    /\ NextInBatch(w, j)
    /\ UNCHANGED <<run, approval, acked, aged, faults>>

\* StartRun: the first and only run of this occurrence.
StartRun(w, j) ==
    /\ worker[w].pc = "ready"
    /\ j \in worker[w].batch
    /\ run[j].status = "none"
    /\ run' = [run EXCEPT ![j] = [status |-> "running", approval |-> None, attempt |-> 1]]
    /\ worker' = [worker EXCEPT ![w] = [@ EXCEPT !.pc = "looping", !.job = j]]
    /\ UNCHANGED <<job, approval, acked, aged, faults>>

-----------------------------------------------------------------------------
(* The loop: Run and Resume. *)

OfCall(j, status) == {a \in Approval : approval[a].call = Call[j] /\ approval[a].status = status}

FreshApproval == {a \in Approval : approval[a].status = "none"
                                   /\ \A b \in Approval : approval[b].status = "none" => a <= b}

Suspend(w, a) ==
    worker' = [worker EXCEPT ![w] =
                 [@ EXCEPT !.pc = "landing", !.outcome = "awaiting_approval", !.wait = a]]

\* The gate answers that a human already approved this call: spend it now.
ProposeApproved(w) ==
    /\ worker[w].pc = "looping"
    /\ \E a \in OfCall(worker[w].job, "approved") :
         approval' = [approval EXCEPT ![a].status = "spent"]
    /\ UNCHANGED <<job, run, worker, acked, aged, faults>>

\* The gate found the call already staged, or staged it: suspend on it.  An
\* approved one whose redemption window closed does not count any more, nor an
\* undecided one whose deadline passed and that no sweep has closed yet.
Propose(w) ==
    /\ worker[w].pc = "looping"
    /\ LET j == worker[w].job
       IN  \/ \E a \in OfCall(j, "pending") : Suspend(w, a) /\ UNCHANGED approval
           \/ \E a \in FreshApproval :
                /\ approval' = [approval EXCEPT ![a] = [status |-> "pending", call |-> Call[j]]]
                /\ Suspend(w, a)
    /\ UNCHANGED <<job, run, acked, aged, faults>>

\* A final answer, a degradation (budget, wall clock, model), or a fault.
LoopEnds(w) ==
    /\ worker[w].pc = "looping"
    /\ \E outcome \in SettledRun :
         worker' = [worker EXCEPT ![w] = [@ EXCEPT !.pc = "landing", !.outcome = outcome]]
    /\ UNCHANGED <<job, run, approval, acked, aged, faults>>

\* SaveOutcome: guarded by id only; correcting a settled run is a new attempt.
Saved(r, outcome, wait) ==
    [status |-> outcome, approval |-> wait,
     attempt |-> IF r.status \in SettledRun THEN r.attempt + 1 ELSE r.attempt]

\* MarkFailed keeps approval_id and attempt.
Failed(r) == [r EXCEPT !.status = "failed"]

\* What follows the terminal write: the delivery is acked, or the job closed.
AfterLanding(w) ==
    IF worker[w].event # None
    THEN /\ acked' = acked \cup {worker[w].event}
         /\ worker' = [worker EXCEPT ![w] = Idle]
    ELSE /\ acked' = acked
         /\ Goes(w, "finishing")

\* landOutcome.
Land(w) ==
    /\ worker[w].pc = "landing"
    /\ LET j == worker[w].job
           o == worker[w].outcome
       IN  /\ run' = [run EXCEPT ![j] = IF o = "failed" THEN Failed(@) ELSE Saved(@, o, worker[w].wait)]
           /\ aged' = aged \ {j}
    /\ AfterLanding(w)
    /\ UNCHANGED <<job, approval, faults>>

\* landOutcome's write fails: it is logged and nothing else happens.
LandIsLost(w) ==
    /\ worker[w].pc = "landing"
    /\ Spend("lost")
    /\ AfterLanding(w)
    /\ UNCHANGED <<job, run, approval, aged>>

FinishJob(w) ==
    /\ worker[w].pc = "finishing"
    /\ job' = [job EXCEPT ![worker[w].job] = "done"]
    /\ NextInBatch(w, worker[w].job)
    /\ UNCHANGED <<run, approval, acked, aged, faults>>

\* finishJob's write fails, for a refused or an executed job: it is logged and
\* the pass goes on.
FinishIsLost(w) ==
    /\ Spend("lost")
    /\ \/ worker[w].pc = "finishing" /\ NextInBatch(w, worker[w].job)
       \/ worker[w].pc = "ready" /\ \E j \in worker[w].batch : NextInBatch(w, j)
    /\ UNCHANGED <<job, run, approval, acked, aged>>

-----------------------------------------------------------------------------
(* The consumer: HandleEvent. *)

\* approval.decided was emitted: a withdrawal emits nothing.
Announced(a) == approval[a].status \in {"approved", "rejected", "expired", "spent"}

Parked(a) == {j \in Job : run[j].status = "awaiting_approval" /\ run[j].approval = a}

\* A consumer that reads the parked run without claiming it.
ReadsOnly(a) == run

\* A consumer that claims the one run it is about to resume.
ClaimsOne(a) ==
    LET first == CHOOSE j \in Parked(a) : TRUE
    IN  [run EXCEPT ![first].status = "running"]

\* ClaimSuspendedByApproval's UPDATE: every run that waits on the approval.
Claims(a) == [j \in Job |-> IF j \in Parked(a) THEN [run[j] EXCEPT !.status = "running"] ELSE run[j]]

\* A consumer for which a refusal wakes nobody.
ApprovedOnly(w, a) ==
    worker[w].pc = "idle" /\ approval[a].status \in {"approved", "spent"} /\ a \notin acked

Deliverable(w, a) == worker[w].pc = "idle" /\ Announced(a) /\ a \notin acked

\* Nobody waits on this decision, or somebody else already resumed it.
IgnoreDecision(w, a) ==
    /\ Deliverable(w, a)
    /\ Parked(a) = {}
    /\ acked' = acked \cup {a}
    /\ UNCHANGED <<job, run, worker, approval, aged, faults>>

\* Every matching row is claimed; the one the driver returns is resumed.
ClaimSuspended(w, a) ==
    /\ Deliverable(w, a)
    /\ \E j \in Parked(a) :
         worker' = [worker EXCEPT ![w] = [Idle EXCEPT !.pc = "claimed", !.job = j, !.event = a]]
    /\ run' = Claims(a)
    /\ aged' = aged \ Parked(a)
    /\ UNCHANGED <<job, approval, acked, faults>>

\* The passport died, the spec left the catalog, or the edit carried no change.
ResumeRefused(w) ==
    /\ worker[w].pc = "claimed"
    /\ run' = [run EXCEPT ![worker[w].job] = Failed(@)]
    /\ acked' = acked \cup {worker[w].event}
    /\ worker' = [worker EXCEPT ![w] = Idle]
    /\ UNCHANGED <<job, approval, aged, faults>>

\* Resume: the approved call is redeemed (or refused), then the loop goes on.
Resume(w) ==
    /\ worker[w].pc = "claimed"
    /\ LET a == worker[w].event
       IN  \/ UNCHANGED approval
           \/ /\ approval[a].status = "approved"
              /\ approval' = [approval EXCEPT ![a].status = "spent"]
    /\ Goes(w, "looping")
    /\ UNCHANGED <<job, run, acked, aged, faults>>

-----------------------------------------------------------------------------
(* The rest: the approvals engine, time, and faults. *)

\* decideInTx and expireOne emit approval.decided; a bundle is decided at once.
Decide(S, verdict) ==
    /\ S # {}
    /\ \A a \in S : approval[a].status = "pending"
    /\ approval' = [a \in Approval |->
                      IF a \in S THEN [approval[a] EXCEPT !.status = verdict] ELSE approval[a]]
    /\ UNCHANGED <<job, run, worker, acked, aged, faults>>

\* What redactStagedApprovals does to the runs parked on a card it withdraws,
\* or on one an earlier erasure withdrew.
EndsParked(a) ==
    LET gone == {a} \cup {b \in Approval : approval[b].status = "withdrawn"}
    IN  [j \in Job |-> IF \E b \in gone : j \in Parked(b) THEN Failed(run[j]) ELSE run[j]]

\* A subject's erasure withdraws the card, silently.
RedactStagedApproval(a) ==
    /\ approval[a].status = "pending"
    /\ approval' = [approval EXCEPT ![a].status = "withdrawn"]
    /\ run' = EndsParked(a)
    /\ UNCHANGED <<job, worker, acked, aged, faults>>

\* A run's row ages past the grace.  A live run is done within its wall clock,
\* so only one whose terminal write stalls can be caught by the sweep.
Age(j) ==
    /\ run[j].status = "running"
    /\ j \notin aged
    /\ \A w \in Worker : ~Holds(w, j)
    /\ aged' = aged \cup {j}
    /\ UNCHANGED <<job, run, worker, approval, acked, faults>>

AgeStalled(w) ==
    /\ worker[w].pc = "landing"
    /\ run[worker[w].job].status = "running"
    /\ worker[w].job \notin aged
    /\ Spend("stall")
    /\ aged' = aged \cup {worker[w].job}
    /\ UNCHANGED <<job, run, worker, approval, acked>>

Crash(w) ==
    /\ worker[w].pc # "idle"
    /\ Spend("crash")
    /\ worker' = [worker EXCEPT ![w] = Idle]
    /\ UNCHANGED <<job, run, approval, acked, aged>>

\* The relay shipped the decision twice.
Redeliver(a) ==
    /\ a \in acked
    /\ Spend("duplicate")
    /\ acked' = acked \ {a}
    /\ UNCHANGED <<job, run, worker, approval, aged>>

PassStep(w) ==
    BeginTick(w) \/ Seed(w) \/ ClaimDueJobs(w)
    \/ \E j \in Job : RefuseJob(w, j) \/ StartRun(w, j)

LoopStep(w) ==
    ProposeApproved(w) \/ Propose(w) \/ LoopEnds(w) \/ Land(w) \/ FinishJob(w)

Deliver(w, a) == IgnoreDecision(w, a) \/ ClaimSuspended(w, a)

RunnerNext ==
    \/ \E w \in Worker : \/ PassStep(w) \/ LoopStep(w)
                         \/ ResumeRefused(w) \/ Resume(w)
                         \/ LandIsLost(w) \/ FinishIsLost(w) \/ AgeStalled(w) \/ Crash(w)
    \/ \E w \in Worker, a \in Approval : Deliver(w, a)
    \/ \E S \in SUBSET Approval, verdict \in {"approved", "rejected", "expired"} : Decide(S, verdict)
    \/ \E a \in Approval : RedactStagedApproval(a)
    \/ \E j \in Job : Age(j)
    \/ \E a \in Approval : Redeliver(a)

RunnerSpec == RunnerInit /\ [][RunnerNext]_runnerVars

\* What a worker does next in the pass or the delivery it has begun.
Work(w) ==
    Seed(w) \/ ClaimDueJobs(w) \/ LoopStep(w) \/ ResumeRefused(w) \/ Resume(w)
    \/ \E j \in Job : RefuseJob(w, j) \/ StartRun(w, j)

\* A worker goes on with what it is doing (the wall clock ends every loop), the
\* scheduler keeps passing, the bus keeps delivering and time passes.  Nobody
\* has to decide, and no fault has to happen.
RunnerFairness ==
    /\ \A w \in Worker : WF_runnerVars(Work(w)) /\ SF_runnerVars(BeginTick(w))
    /\ \A a \in Approval : SF_runnerVars(\E w \in Worker : Deliver(w, a))
    /\ \A j \in Job : WF_runnerVars(Age(j))

FairRunnerSpec == RunnerSpec /\ RunnerFairness

-----------------------------------------------------------------------------
(* The cards as the runner sees them. *)

cards == [a \in Approval |-> approval[a].status]

Inbox == INSTANCE Cards
           WITH Card <- Approval, card <- cards, told <- {a \in Approval : Announced(a)}

\* The runner's cards move only as the approvals engine moves cards.
StaysWithinTheCards == Inbox!CardsSpec

-----------------------------------------------------------------------------
(* Properties. *)

\* "Exactly one delivery of a given decision can resume it": no run has two
\* loops, whatever is redelivered, and a parked run has none
\* (ClaimSuspendedByApproval, StartRun).
OneLoopPerRun ==
    \A j \in Job :
        /\ \A v, w \in Worker : Holds(v, j) /\ Holds(w, j) => v = w
        /\ run[j].status = "awaiting_approval" => \A w \in Worker : ~Holds(w, j)

\* Every claimed job ends with a status: "a brief that never ran must say why,
\* not vanish" (executeJob).
ClaimedJobIsAccountedFor ==
    \A j \in Job : (job[j] = "running") ~> (job[j] \in {"done", "failed"})

Undelivered(a) == Announced(a) /\ a \notin acked /\ \A w \in Worker : worker[w].event # a

\* Somebody still has to wake the runs parked on this card.
Owed(a) == approval[a].status = "pending" \/ Undelivered(a)

StaysOwed ==
    \A a \in Approval :
        Owed(a) /\ ~Owed(a)' => \A j \in Job : ~(j \in Parked(a) /\ j \in Parked(a)')

\* Nobody uses up the last thing that would wake a parked run and leaves it
\* parked: not the erasure that withdraws its card and announces nothing, not a
\* delivery that takes the decision for another run parked on the same card, not
\* an acknowledgement (redactStagedApprovals, ClaimSuspendedByApproval).
ParkedStayOwed == [][StaysOwed]_runnerVars

\* A run parked before its decision is delivered is woken by it, however many
\* runs wait on one approval and whichever worker dies (HandleEvent).
UndeliveredDecisionWakes ==
    \A j \in Job, a \in Approval :
        (run[j].status = "awaiting_approval" /\ run[j].approval = a /\ Undelivered(a))
            ~> (run[j].status # "awaiting_approval" \/ run[j].approval # a)

\* In flight: the run is running, or its job is claimed and nothing happened
\* that is known to strand a job (a crash, a finishing write that failed).
InFlight(j) ==
    \/ run[j].status = "running"
    \/ job[j] = "running" /\ faults.crash = 0 /\ faults.lost = 0

\* Nothing is in flight for ever: a run is finished, parked or swept whoever
\* crashes, and a claimed job is closed (FailStuckRuns, Tick, executeJob).
InFlightComesToRest == \A j \in Job : InFlight(j) ~> ~InFlight(j)

=============================================================================
