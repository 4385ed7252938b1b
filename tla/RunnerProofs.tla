---------------------------- MODULE RunnerProofs ----------------------------
(***************************************************************************)
(* What the overnight-agent runner never does, for any number of           *)
(* occurrences, workers, approvals and faults: loop twice over one run,    *)
(* loop over a parked one, or use up what would wake a parked run and      *)
(* leave it parked.                                                        *)
(***************************************************************************)
EXTENDS AgentRunner, TLAPS

RunType == [status : RunStatus, approval : Approval \cup {None}, attempt : Nat]
WorkerType == [pc : Pc, batch : SUBSET Job, job : Job \cup {None},
               event : Approval \cup {None}, outcome : RunStatus, wait : Approval \cup {None}]
ApprovalType == [status : ApprovalStatus, call : {Call[j] : j \in Job} \cup {None}]

\* A worker that has taken an occurrence up knows which, and by which decision
\* it was resumed.
KnowsItsJob ==
    \A w \in Worker :
        /\ worker[w].pc \in {"claimed", "looping", "landing", "finishing"} => worker[w].job \in Job
        /\ worker[w].pc = "claimed" => worker[w].event \in Approval

\* A run in a worker's memory has begun, and is not parked.
HeldIsUnderWay ==
    \A w \in Worker, j \in Job :
        Holds(w, j) => run[j].status \notin {"none", "awaiting_approval"}

OneHolder == \A v, w \in Worker, j \in Job : Holds(v, j) /\ Holds(w, j) => v = w

\* The inductive invariant.
RunnerInv == RunnerTypeOK /\ KnowsItsJob /\ HeldIsUnderWay /\ OneHolder

-----------------------------------------------------------------------------
(* One worker changes, or none. *)

\* The shape of a worker that does nothing, or goes on with a batch.
LEMMA IdleWorker ==
    ASSUME NEW pc \in Pc, NEW batch \in SUBSET Job
    PROVE  LET k == [Idle EXCEPT !.pc = pc, !.batch = batch]
           IN  k \in WorkerType /\ k.pc = pc /\ Idle \in WorkerType /\ Idle.pc = "idle"
BY DEF Idle, WorkerType, Pc, RunStatus

\* A run is parked or taken back to the start only from the hands of the worker
\* whose turn it is, and a worker takes up only a run nobody holds.
LEMMA WorkerChanges ==
    ASSUME RunnerInv, NEW w \in Worker, NEW k \in WorkerType, worker' = [worker EXCEPT ![w] = k],
           k.pc \in {"claimed", "looping", "landing", "finishing"} => k.job \in Job,
           k.pc = "claimed" => k.event \in Approval,
           \A j \in Job : k.pc \in {"claimed", "looping", "landing"} /\ k.job = j =>
               /\ run'[j].status \notin {"none", "awaiting_approval"}
               /\ \A v \in Worker : v # w => ~Holds(v, j),
           \A j \in Job : run'[j].status \in {"none", "awaiting_approval"} =>
               \/ run[j].status \in {"none", "awaiting_approval"}
               \/ Holds(w, j)
    PROVE  /\ KnowsItsJob' /\ HeldIsUnderWay' /\ OneHolder'
           /\ worker' \in [Worker -> WorkerType]
<1>1. /\ worker \in [Worker -> WorkerType]
      /\ KnowsItsJob /\ HeldIsUnderWay /\ OneHolder
  BY DEF RunnerInv, RunnerTypeOK, WorkerType
<1>2. worker' \in [Worker -> WorkerType] /\ worker'[w] = k
      /\ \A v \in Worker : v # w => worker'[v] = worker[v]
  BY <1>1
<1>3. KnowsItsJob'
  BY <1>1, <1>2 DEF KnowsItsJob
<1>4. ASSUME NEW v \in Worker, NEW j \in Job, v # w
      PROVE  Holds(v, j)' <=> Holds(v, j)
  BY <1>2, <1>4 DEF Holds
<1>5. ASSUME NEW j \in Job
      PROVE  Holds(w, j)' <=> k.pc \in {"claimed", "looping", "landing"} /\ k.job = j
  BY <1>2 DEF Holds
<1>6. HeldIsUnderWay'
  <2> SUFFICES ASSUME NEW v \in Worker, NEW j \in Job, Holds(v, j)'
               PROVE  run'[j].status \notin {"none", "awaiting_approval"}
    BY DEF HeldIsUnderWay
  <2>1. CASE v = w
    BY <1>5, <2>1
  <2>2. CASE v # w
    BY <1>1, <1>4, <2>2 DEF HeldIsUnderWay, OneHolder
  <2> QED
    BY <2>1, <2>2
<1>7. OneHolder'
  BY <1>1, <1>4, <1>5 DEF OneHolder
<1> QED
  BY <1>2, <1>3, <1>6, <1>7

\* Nobody takes up or lets go of a run, and none is parked or taken back.
LEMMA WorkersStay ==
    ASSUME RunnerInv, worker' = worker,
           \A j \in Job : run'[j].status \in {"none", "awaiting_approval"} =>
               run[j].status \in {"none", "awaiting_approval"}
    PROVE  KnowsItsJob' /\ HeldIsUnderWay' /\ OneHolder'
BY DEF RunnerInv, KnowsItsJob, HeldIsUnderWay, OneHolder, Holds

\* A worker that only moves to another step.
LEMMA GoesHand ==
    ASSUME RunnerInv, NEW w \in Worker, NEW pc \in Pc
    PROVE  LET k == [worker[w] EXCEPT !.pc = pc]
           IN  k \in WorkerType /\ k.pc = pc /\ k.job = worker[w].job
<1>1. worker[w] \in WorkerType
  BY DEF RunnerInv, RunnerTypeOK, WorkerType
<1> QED
  BY <1>1 DEF WorkerType

\* The types, as the proofs cite them.
LEMMA RunnerTypes ==
    ASSUME RunnerInv
    PROVE  /\ job \in [Job -> JobStatus] /\ run \in [Job -> RunType]
           /\ worker \in [Worker -> WorkerType] /\ approval \in [Approval -> ApprovalType]
           /\ acked \subseteq Approval /\ aged \subseteq Job
           /\ faults \in [crash : Nat, lost : Nat, stall : Nat, duplicate : Nat]
BY DEF RunnerInv, RunnerTypeOK, RunType, WorkerType, ApprovalType

\* A fault is counted.
LEMMA SpendTyped ==
    ASSUME RunnerInv, NEW kind \in {"crash", "lost", "stall", "duplicate"}, Spend(kind)
    PROVE  faults' \in [crash : Nat, lost : Nat, stall : Nat, duplicate : Nat]
BY RunnerTypes DEF Spend

\* The types again, from the parts a step may change.
LEMMA TypedAgain ==
    ASSUME job' \in [Job -> JobStatus], run' \in [Job -> RunType],
           worker' \in [Worker -> WorkerType], approval' \in [Approval -> ApprovalType],
           acked' \subseteq Approval, aged' \subseteq Job,
           faults' \in [crash : Nat, lost : Nat, stall : Nat, duplicate : Nat]
    PROVE  RunnerTypeOK'
BY DEF RunnerTypeOK, RunType, WorkerType, ApprovalType

-----------------------------------------------------------------------------
(* The scheduling pass.                                                    *)

\* Tick opens with the sweep of the stuck runs.
LEMMA BeginTickKeeps ==
    ASSUME RunnerInv, NEW w \in Worker, BeginTick(w)
    PROVE  RunnerInv'
<1> DEFINE k == [worker[w] EXCEPT !.pc = "ticking"]
<1>1. k \in WorkerType /\ k.pc = "ticking"
  BY GoesHand DEF Pc
<1>2. worker' = [worker EXCEPT ![w] = k] /\ UNCHANGED <<job, approval, acked, faults>>
      /\ aged' \subseteq aged
      /\ run' = [j \in Job |-> IF j \in Stuck THEN [run[j] EXCEPT !.status = "failed"] ELSE run[j]]
  BY DEF BeginTick, Goes
<1> HIDE DEF k
<1>3. \A j \in Job : /\ [run[j] EXCEPT !.status = "failed"] \in RunType
                     /\ [run[j] EXCEPT !.status = "failed"].status = "failed"
  BY RunnerTypes DEF RunType, RunStatus
<1>4. /\ run' \in [Job -> RunType]
      /\ \A j \in Job : run'[j].status = run[j].status \/ run'[j].status = "failed"
  BY <1>2, <1>3, RunnerTypes
<1>5. /\ KnowsItsJob' /\ HeldIsUnderWay' /\ OneHolder' /\ worker' \in [Worker -> WorkerType]
  BY <1>1, <1>2, <1>4, WorkerChanges
<1>6. RunnerTypeOK'
  BY <1>2, <1>4, <1>5, RunnerTypes, TypedAgain
<1> QED
  BY <1>5, <1>6 DEF RunnerInv

\* EnqueueJob.
LEMMA SeedKeeps ==
    ASSUME RunnerInv, NEW w \in Worker, Seed(w)
    PROVE  RunnerInv'
<1> DEFINE k == [worker[w] EXCEPT !.pc = "seeded"]
<1>1. k \in WorkerType /\ k.pc = "seeded"
  BY GoesHand DEF Pc
<1>2. worker' = [worker EXCEPT ![w] = k] /\ UNCHANGED <<run, approval, acked, aged, faults>>
  BY DEF Seed, Goes
<1>3. job' \in [Job -> JobStatus]
  BY RunnerTypes DEF Seed, JobStatus
<1> HIDE DEF k
<1>4. /\ KnowsItsJob' /\ HeldIsUnderWay' /\ OneHolder' /\ worker' \in [Worker -> WorkerType]
  BY <1>1, <1>2, WorkerChanges
<1>5. RunnerTypeOK'
  BY <1>2, <1>3, <1>4, RunnerTypes, TypedAgain
<1> QED
  BY <1>4, <1>5 DEF RunnerInv

\* ClaimDueJobs.
LEMMA ClaimDueKeeps ==
    ASSUME RunnerInv, NEW w \in Worker, ClaimDueJobs(w)
    PROVE  RunnerInv'
<1>1. PICK mine \in SUBSET {j \in Job : job[j] = "queued"} :
        /\ job' = [j \in Job |-> IF j \in mine THEN "running" ELSE job[j]]
        /\ worker' = [worker EXCEPT ![w] =
             [Idle EXCEPT !.pc = IF mine = {} THEN "idle" ELSE "ready", !.batch = mine]]
  BY DEF ClaimDueJobs
<1>2. UNCHANGED <<run, approval, acked, aged, faults>>
  BY DEF ClaimDueJobs
<1> DEFINE pc == IF mine = {} THEN "idle" ELSE "ready"
           k == [Idle EXCEPT !.pc = pc, !.batch = mine]
<1>3. mine \in SUBSET Job /\ pc \in Pc /\ pc \in {"idle", "ready"}
  BY DEF Pc
<1>4. k \in WorkerType /\ k.pc = pc
  <2> HIDE DEF pc
  <2> QED
    BY <1>3, IdleWorker
<1>5. worker' = [worker EXCEPT ![w] = k]
  BY <1>1
<1>6. job' \in [Job -> JobStatus]
  BY <1>1, RunnerTypes DEF JobStatus
<1> HIDE DEF pc, k
<1>7. /\ KnowsItsJob' /\ HeldIsUnderWay' /\ OneHolder' /\ worker' \in [Worker -> WorkerType]
  BY <1>2, <1>3, <1>4, <1>5, WorkerChanges
<1>8. RunnerTypeOK'
  BY <1>2, <1>6, <1>7, RunnerTypes, TypedAgain
<1> QED
  BY <1>7, <1>8 DEF RunnerInv

\* The batch goes on, or the pass is over, and its run is in nobody's hands.
LEMMA NextInBatchHand ==
    ASSUME RunnerInv, NEW w \in Worker, NEW j, NextInBatch(w, j), run' = run
    PROVE  KnowsItsJob' /\ HeldIsUnderWay' /\ OneHolder' /\ worker' \in [Worker -> WorkerType]
<1> DEFINE rest == worker[w].batch \ {j}
           pc == IF rest = {} THEN "idle" ELSE "ready"
           k == [Idle EXCEPT !.pc = pc, !.batch = rest]
<1>1. rest \in SUBSET Job /\ pc \in Pc /\ pc \in {"idle", "ready"}
  BY RunnerTypes DEF Pc, WorkerType
<1>2. k \in WorkerType /\ k.pc = pc
  <2> HIDE DEF pc, rest
  <2> QED
    BY <1>1, IdleWorker
<1>3. worker' = [worker EXCEPT ![w] = k]
  BY DEF NextInBatch
<1> HIDE DEF rest, pc, k
<1> QED
  BY <1>1, <1>2, <1>3, WorkerChanges

\* A refused job, an executed one, and a finishing write that is lost.
LEMMA BatchKeeps ==
    ASSUME RunnerInv, NEW w \in Worker,
           (\E j \in Job : RefuseJob(w, j)) \/ FinishJob(w) \/ FinishIsLost(w)
    PROVE  RunnerInv'
<1>1. /\ UNCHANGED <<run, approval, acked, aged>>
      /\ \E j : NextInBatch(w, j)
  BY DEF RefuseJob, FinishJob, FinishIsLost
<1>2. job' \in [Job -> JobStatus]
  BY RunnerTypes DEF RefuseJob, FinishJob, FinishIsLost, JobStatus
<1>3. faults' \in [crash : Nat, lost : Nat, stall : Nat, duplicate : Nat]
  BY RunnerTypes, SpendTyped DEF RefuseJob, FinishJob, FinishIsLost
<1>4. /\ KnowsItsJob' /\ HeldIsUnderWay' /\ OneHolder' /\ worker' \in [Worker -> WorkerType]
  BY <1>1, NextInBatchHand
<1>5. RunnerTypeOK'
  BY <1>1, <1>2, <1>3, <1>4, RunnerTypes, TypedAgain
<1> QED
  BY <1>4, <1>5 DEF RunnerInv

\* StartRun inserts the one run of an occurrence: nobody can hold it yet.
LEMMA StartRunKeeps ==
    ASSUME RunnerInv, NEW w \in Worker, NEW j \in Job, StartRun(w, j)
    PROVE  RunnerInv'
<1> DEFINE k == [worker[w] EXCEPT !.pc = "looping", !.job = j]
           r == [status |-> "running", approval |-> None, attempt |-> 1]
<1>1. /\ run[j].status = "none" /\ run' = [run EXCEPT ![j] = r]
      /\ worker' = [worker EXCEPT ![w] = k] /\ UNCHANGED <<job, approval, acked, aged, faults>>
  BY DEF StartRun
<1>2. k \in WorkerType /\ k.pc = "looping" /\ k.job = j
  BY RunnerTypes DEF WorkerType, Pc
<1>3. r \in RunType /\ r.status = "running"
  BY DEF RunType, RunStatus
<1> HIDE DEF k, r
<1>4. run' \in [Job -> RunType] /\ run'[j] = r /\ \A i \in Job : i # j => run'[i] = run[i]
  BY <1>1, <1>3, RunnerTypes
<1>5. \A v \in Worker : ~Holds(v, j)
  BY <1>1 DEF RunnerInv, HeldIsUnderWay
<1>6. /\ KnowsItsJob' /\ HeldIsUnderWay' /\ OneHolder' /\ worker' \in [Worker -> WorkerType]
  <2>1. \A i \in Job : k.job = i => /\ run'[i].status \notin {"none", "awaiting_approval"}
                                    /\ \A v \in Worker : v # w => ~Holds(v, i)
    BY <1>2, <1>3, <1>4, <1>5
  <2>2. \A i \in Job : run'[i].status \in {"none", "awaiting_approval"} =>
                         run[i].status \in {"none", "awaiting_approval"}
    BY <1>3, <1>4
  <2> QED
    BY <1>1, <1>2, <2>1, <2>2, WorkerChanges
<1>7. RunnerTypeOK'
  BY <1>1, <1>4, <1>6, RunnerTypes, TypedAgain
<1> QED
  BY <1>6, <1>7 DEF RunnerInv

-----------------------------------------------------------------------------
(* The loop and the landing.                                               *)

\* One approval is spent, and nobody moves.
LEMMA SpentTyped ==
    ASSUME RunnerInv, NEW a \in Approval, NEW status \in ApprovalStatus
    PROVE  [approval EXCEPT ![a].status = status] \in [Approval -> ApprovalType]
<1>1. approval \in [Approval -> ApprovalType] /\ approval[a] \in ApprovalType
  BY RunnerTypes
<1>2. [approval[a] EXCEPT !.status = status] \in ApprovalType
  BY <1>1 DEF ApprovalType
<1> QED
  BY <1>1, <1>2

\* A step that moves no worker and no run.
LEMMA QuietKeeps ==
    ASSUME RunnerInv, UNCHANGED <<run, worker>>, job' \in [Job -> JobStatus],
           approval' \in [Approval -> ApprovalType], acked' \subseteq Approval, aged' \subseteq Job,
           faults' \in [crash : Nat, lost : Nat, stall : Nat, duplicate : Nat]
    PROVE  RunnerInv'
<1>1. KnowsItsJob' /\ HeldIsUnderWay' /\ OneHolder'
  BY WorkersStay
<1>2. RunnerTypeOK'
  BY RunnerTypes, TypedAgain
<1> QED
  BY <1>1, <1>2 DEF RunnerInv

\* A worker goes on with the run it holds.
LEMMA HoldsOn ==
    ASSUME RunnerInv, NEW w \in Worker, worker[w].pc \in {"claimed", "looping", "landing"},
           NEW k \in WorkerType, worker' = [worker EXCEPT ![w] = k], k.job = worker[w].job,
           k.pc \in {"looping", "landing"}, run' = run
    PROVE  /\ KnowsItsJob' /\ HeldIsUnderWay' /\ OneHolder'
           /\ worker' \in [Worker -> WorkerType]
<1>1. worker[w].job \in Job /\ Holds(w, worker[w].job)
  BY DEF RunnerInv, KnowsItsJob, Holds
<1>2. \A j \in Job : k.job = j => /\ run'[j].status \notin {"none", "awaiting_approval"}
                                  /\ \A v \in Worker : v # w => ~Holds(v, j)
  BY <1>1 DEF RunnerInv, HeldIsUnderWay, OneHolder
<1> QED
  BY <1>1, <1>2, WorkerChanges

\* Suspending remembers the outcome and the approval it waits for.
LEMMA SuspendHand ==
    ASSUME RunnerInv, NEW w \in Worker, NEW a \in Approval, worker[w].pc = "looping", Suspend(w, a),
           run' = run
    PROVE  KnowsItsJob' /\ HeldIsUnderWay' /\ OneHolder' /\ worker' \in [Worker -> WorkerType]
<1> DEFINE k == [worker[w] EXCEPT !.pc = "landing", !.outcome = "awaiting_approval", !.wait = a]
<1>1. worker[w] \in WorkerType
  BY RunnerTypes
<1>2. k \in WorkerType /\ k.pc = "landing" /\ k.job = worker[w].job
  BY <1>1 DEF WorkerType, Pc, RunStatus
<1>3. worker' = [worker EXCEPT ![w] = k]
  BY DEF Suspend
<1> HIDE DEF k
<1> QED
  BY <1>2, <1>3, HoldsOn

\* The gate stages the call, finds it staged, or spends an approved one.
LEMMA ProposeKeeps ==
    ASSUME RunnerInv, NEW w \in Worker, Propose(w) \/ ProposeApproved(w)
    PROVE  RunnerInv'
<1>0. worker[w].pc = "looping" /\ UNCHANGED <<job, run, acked, aged, faults>>
  BY DEF Propose, ProposeApproved
<1>1. CASE ProposeApproved(w)
  <2>1. PICK a \in Approval : approval' = [approval EXCEPT ![a].status = "spent"]
    BY <1>1 DEF ProposeApproved, OfCall
  <2>2. worker' = worker
    BY <1>1 DEF ProposeApproved
  <2> QED
    BY <1>0, <2>1, <2>2, SpentTyped, RunnerTypes, QuietKeeps DEF ApprovalStatus
<1>2. CASE Propose(w)
  <2>1. PICK a \in Approval : Suspend(w, a)
    BY <1>2 DEF Propose, OfCall, FreshApproval
  <2>2. approval' \in [Approval -> ApprovalType]
    <3>1. worker[w].job \in Job
      BY <1>0 DEF RunnerInv, KnowsItsJob
    <3>2. [status |-> "pending", call |-> Call[worker[w].job]] \in ApprovalType
      BY <3>1 DEF ApprovalType, ApprovalStatus
    <3> QED
      BY <1>2, <3>2, RunnerTypes DEF Propose
  <2>3. KnowsItsJob' /\ HeldIsUnderWay' /\ OneHolder' /\ worker' \in [Worker -> WorkerType]
    BY <1>0, <2>1, SuspendHand
  <2>4. RunnerTypeOK'
    BY <1>0, <2>2, <2>3, RunnerTypes, TypedAgain
  <2> QED
    BY <2>3, <2>4 DEF RunnerInv
<1> QED
  BY <1>1, <1>2

\* The loop comes to an answer.
LEMMA LoopEndsKeeps ==
    ASSUME RunnerInv, NEW w \in Worker, LoopEnds(w)
    PROVE  RunnerInv'
<1>1. PICK outcome \in SettledRun :
        worker' = [worker EXCEPT ![w] = [worker[w] EXCEPT !.pc = "landing", !.outcome = outcome]]
  BY DEF LoopEnds
<1>2. worker[w].pc = "looping" /\ UNCHANGED <<job, run, approval, acked, aged, faults>>
  BY DEF LoopEnds
<1> DEFINE k == [worker[w] EXCEPT !.pc = "landing", !.outcome = outcome]
<1>3. worker[w] \in WorkerType
  BY RunnerTypes
<1>4. k \in WorkerType /\ k.pc = "landing" /\ k.job = worker[w].job
  BY <1>3 DEF WorkerType, Pc, RunStatus, SettledRun
<1> HIDE DEF k
<1>5. KnowsItsJob' /\ HeldIsUnderWay' /\ OneHolder' /\ worker' \in [Worker -> WorkerType]
  BY <1>1, <1>2, <1>4, HoldsOn DEF k
<1>6. RunnerTypeOK'
  BY <1>2, <1>5, RunnerTypes, TypedAgain
<1> QED
  BY <1>5, <1>6 DEF RunnerInv

\* Whatever is written for the run it held, the worker lets go of it.
LEMMA LetsGo ==
    ASSUME RunnerInv, NEW w \in Worker, NEW k \in WorkerType, worker' = [worker EXCEPT ![w] = k],
           worker[w].pc \in {"claimed", "looping", "landing", "finishing"},
           k.pc \notin {"claimed", "looping", "landing"}, k.pc = "finishing" => k.job \in Job,
           worker[w].pc = "finishing" => run' = run,
           \A j \in Job : j # worker[w].job => run'[j] = run[j]
    PROVE  KnowsItsJob' /\ HeldIsUnderWay' /\ OneHolder' /\ worker' \in [Worker -> WorkerType]
<1>1. \A j \in Job : j = worker[w].job /\ worker[w].pc # "finishing" => Holds(w, j)
  BY DEF Holds
<1> QED
  BY <1>1, WorkerChanges

\* A delivery's worker is done, a pass's worker has the job to close.
LEMMA AfterLandingHand ==
    ASSUME RunnerInv, NEW w \in Worker, worker[w].pc = "landing", AfterLanding(w),
           \A j \in Job : j # worker[w].job => run'[j] = run[j]
    PROVE  /\ KnowsItsJob' /\ HeldIsUnderWay' /\ OneHolder' /\ worker' \in [Worker -> WorkerType]
           /\ acked' \subseteq Approval
<1>1. worker[w] \in WorkerType /\ worker[w].job \in Job
  BY RunnerTypes DEF RunnerInv, KnowsItsJob
<1>2. CASE worker[w].event # None
  <2>1. acked' \subseteq Approval
    BY <1>1, <1>2, RunnerTypes DEF AfterLanding, WorkerType
  <2>2. Idle \in WorkerType /\ Idle.pc = "idle" /\ worker' = [worker EXCEPT ![w] = Idle]
    BY <1>2, IdleWorker DEF AfterLanding, Pc
  <2> QED
    BY <2>1, <2>2, LetsGo
<1>3. CASE worker[w].event = None
  <2> DEFINE k == [worker[w] EXCEPT !.pc = "finishing"]
  <2>1. k \in WorkerType /\ k.pc = "finishing" /\ k.job \in Job
    BY <1>1, GoesHand DEF Pc
  <2>2. worker' = [worker EXCEPT ![w] = k] /\ acked' = acked
    BY <1>3 DEF AfterLanding, Goes
  <2> HIDE DEF k
  <2> QED
    BY <2>1, <2>2, LetsGo, RunnerTypes
<1> QED
  BY <1>2, <1>3

\* A run, saved or failed.
LEMMA SavedTyped ==
    ASSUME NEW r \in RunType, NEW outcome \in RunStatus, NEW wait \in Approval \cup {None}
    PROVE  /\ Saved(r, outcome, wait) \in RunType
           /\ Failed(r) \in RunType /\ Failed(r).status = "failed"
BY DEF Saved, Failed, RunType, RunStatus

\* landOutcome, whether its write succeeds or is lost.
LEMMA LandKeeps ==
    ASSUME RunnerInv, NEW w \in Worker, Land(w) \/ LandIsLost(w)
    PROVE  RunnerInv'
<1>0. worker[w].pc = "landing" /\ AfterLanding(w) /\ UNCHANGED <<job, approval>>
  BY DEF Land, LandIsLost
<1>1. worker[w] \in WorkerType /\ worker[w].job \in Job
  BY <1>0, RunnerTypes DEF RunnerInv, KnowsItsJob
<1>2. /\ run' \in [Job -> RunType] /\ \A j \in Job : j # worker[w].job => run'[j] = run[j]
      /\ aged' \subseteq Job
      /\ faults' \in [crash : Nat, lost : Nat, stall : Nat, duplicate : Nat]
  <2>1. CASE Land(w)
    <3> DEFINE j == worker[w].job
               o == worker[w].outcome
               r == IF o = "failed" THEN Failed(run[j]) ELSE Saved(run[j], o, worker[w].wait)
    <3>1. r \in RunType
      BY <1>1, SavedTyped, RunnerTypes DEF WorkerType
    <3>2. run' = [run EXCEPT ![j] = r] /\ aged' = aged \ {j} /\ faults' = faults
      BY <2>1 DEF Land
    <3> HIDE DEF r
    <3> QED
      BY <1>1, <3>1, <3>2, RunnerTypes
  <2>2. CASE LandIsLost(w)
    BY <2>2, SpendTyped, RunnerTypes DEF LandIsLost
  <2> QED
    BY <2>1, <2>2
<1>3. /\ KnowsItsJob' /\ HeldIsUnderWay' /\ OneHolder' /\ worker' \in [Worker -> WorkerType]
      /\ acked' \subseteq Approval
  BY <1>0, <1>2, AfterLandingHand
<1>4. RunnerTypeOK'
  BY <1>0, <1>2, <1>3, RunnerTypes, TypedAgain
<1> QED
  BY <1>3, <1>4 DEF RunnerInv

-----------------------------------------------------------------------------
(* The consumer, the approvals engine, time and faults.                    *)

\* ClaimSuspendedByApproval: a parked run is in nobody's hands, so the one that
\* claims it is alone with it.
LEMMA ClaimSuspendedKeeps ==
    ASSUME RunnerInv, NEW w \in Worker, NEW a \in Approval, ClaimSuspended(w, a)
    PROVE  RunnerInv'
<1>1. PICK j \in Parked(a) :
        worker' = [worker EXCEPT ![w] = [Idle EXCEPT !.pc = "claimed", !.job = j, !.event = a]]
  BY DEF ClaimSuspended
<1>2. run' = Claims(a) /\ aged' \subseteq aged /\ UNCHANGED <<job, approval, acked, faults>>
  BY DEF ClaimSuspended
<1> DEFINE k == [Idle EXCEPT !.pc = "claimed", !.job = j, !.event = a]
<1>3. j \in Job /\ run[j].status = "awaiting_approval"
  BY DEF Parked
<1>4. k \in WorkerType /\ k.pc = "claimed" /\ k.job = j /\ k.event = a
  BY <1>3 DEF WorkerType, Idle, Pc, RunStatus
<1> HIDE DEF k
<1>5. \A i \in Job : /\ [run[i] EXCEPT !.status = "running"] \in RunType
                     /\ [run[i] EXCEPT !.status = "running"].status = "running"
  BY RunnerTypes DEF RunType, RunStatus
<1>6. /\ run' \in [Job -> RunType] /\ run'[j].status = "running"
      /\ \A i \in Job : run'[i].status = run[i].status \/ run'[i].status = "running"
  BY <1>2, <1>3, <1>5, RunnerTypes DEF Claims
<1>7. \A v \in Worker : ~Holds(v, j)
  BY <1>3 DEF RunnerInv, HeldIsUnderWay
<1>8. /\ KnowsItsJob' /\ HeldIsUnderWay' /\ OneHolder' /\ worker' \in [Worker -> WorkerType]
  <2>1. \A i \in Job : k.job = i => /\ run'[i].status \notin {"none", "awaiting_approval"}
                                    /\ \A v \in Worker : v # w => ~Holds(v, i)
    BY <1>4, <1>6, <1>7
  <2>2. \A i \in Job : run'[i].status \in {"none", "awaiting_approval"} =>
                         run[i].status \in {"none", "awaiting_approval"}
    BY <1>6
  <2> QED
    BY <1>1, <1>3, <1>4, <2>1, <2>2, WorkerChanges DEF k
<1>9. RunnerTypeOK'
  BY <1>2, <1>6, <1>8, RunnerTypes, TypedAgain
<1> QED
  BY <1>8, <1>9 DEF RunnerInv

\* The resume is refused, or goes on to its loop.
LEMMA ResumeKeeps ==
    ASSUME RunnerInv, NEW w \in Worker, ResumeRefused(w) \/ Resume(w)
    PROVE  RunnerInv'
<1>0. worker[w].pc = "claimed" /\ UNCHANGED <<job, aged, faults>>
  BY DEF ResumeRefused, Resume
<1>1. worker[w] \in WorkerType /\ worker[w].job \in Job /\ worker[w].event \in Approval
  BY <1>0, RunnerTypes DEF RunnerInv, KnowsItsJob
<1>2. CASE ResumeRefused(w)
  <2>1. /\ run' = [run EXCEPT ![worker[w].job] = Failed(run[worker[w].job])]
        /\ acked' = acked \cup {worker[w].event} /\ worker' = [worker EXCEPT ![w] = Idle]
        /\ approval' = approval
    BY <1>2 DEF ResumeRefused
  <2>2. Failed(run[worker[w].job]) \in RunType
    BY <1>1, RunnerTypes DEF Failed, RunType, RunStatus
  <2>3. /\ run' \in [Job -> RunType] /\ \A j \in Job : j # worker[w].job => run'[j] = run[j]
    BY <1>1, <2>1, <2>2, RunnerTypes
  <2>4. Idle \in WorkerType /\ Idle.pc = "idle"
    BY IdleWorker DEF Pc
  <2>5. /\ KnowsItsJob' /\ HeldIsUnderWay' /\ OneHolder' /\ worker' \in [Worker -> WorkerType]
    BY <1>0, <2>1, <2>3, <2>4, LetsGo
  <2>6. acked' \subseteq Approval
    BY <1>1, <2>1, RunnerTypes
  <2>7. RunnerTypeOK'
    BY <1>0, <2>1, <2>3, <2>5, <2>6, RunnerTypes, TypedAgain
  <2> QED
    BY <2>5, <2>7 DEF RunnerInv
<1>3. CASE Resume(w)
  <2> DEFINE k == [worker[w] EXCEPT !.pc = "looping"]
  <2>1. worker' = [worker EXCEPT ![w] = k] /\ UNCHANGED <<run, acked>>
    BY <1>3 DEF Resume, Goes
  <2>2. k \in WorkerType /\ k.pc = "looping" /\ k.job = worker[w].job
    BY GoesHand DEF Pc
  <2> HIDE DEF k
  <2>3. KnowsItsJob' /\ HeldIsUnderWay' /\ OneHolder' /\ worker' \in [Worker -> WorkerType]
    BY <1>0, <2>1, <2>2, HoldsOn
  <2>4. approval' \in [Approval -> ApprovalType]
    <3>1. \/ approval' = approval
          \/ approval' = [approval EXCEPT ![worker[w].event].status = "spent"]
      BY <1>3 DEF Resume
    <3>2. "spent" \in ApprovalStatus
      BY DEF ApprovalStatus
    <3> QED
      BY <1>1, <3>1, <3>2, RunnerTypes, SpentTyped
  <2>5. RunnerTypeOK'
    BY <1>0, <2>1, <2>3, <2>4, RunnerTypes, TypedAgain
  <2> QED
    BY <2>3, <2>5 DEF RunnerInv
<1> QED
  BY <1>2, <1>3

\* A worker's process dies with what it remembers.
LEMMA CrashKeeps ==
    ASSUME RunnerInv, NEW w \in Worker, Crash(w)
    PROVE  RunnerInv'
<1>1. worker' = [worker EXCEPT ![w] = Idle] /\ UNCHANGED <<job, run, approval, acked, aged>>
  BY DEF Crash
<1>2. faults' \in [crash : Nat, lost : Nat, stall : Nat, duplicate : Nat]
  BY SpendTyped DEF Crash
<1>3. Idle \in WorkerType /\ Idle.pc = "idle"
  BY IdleWorker DEF Pc
<1>4. /\ KnowsItsJob' /\ HeldIsUnderWay' /\ OneHolder' /\ worker' \in [Worker -> WorkerType]
  BY <1>1, <1>3, WorkerChanges
<1>5. RunnerTypeOK'
  BY <1>1, <1>2, <1>4, RunnerTypes, TypedAgain
<1> QED
  BY <1>4, <1>5 DEF RunnerInv

\* An erasure withdraws a card and ends the runs parked on it.
LEMMA RedactKeeps ==
    ASSUME RunnerInv, NEW a \in Approval, RedactStagedApproval(a)
    PROVE  RunnerInv'
<1>1. /\ approval' = [approval EXCEPT ![a].status = "withdrawn"] /\ run' = EndsParked(a)
      /\ UNCHANGED <<job, worker, acked, aged, faults>>
  BY DEF RedactStagedApproval
<1>2. \A i \in Job : Failed(run[i]) \in RunType /\ Failed(run[i]).status = "failed"
  BY RunnerTypes DEF Failed, RunType, RunStatus
<1>3. /\ run' \in [Job -> RunType]
      /\ \A i \in Job : run'[i].status = run[i].status \/ run'[i].status = "failed"
  BY <1>1, <1>2, RunnerTypes DEF EndsParked
<1>4. KnowsItsJob' /\ HeldIsUnderWay' /\ OneHolder'
  BY <1>1, <1>3, WorkersStay
<1>5. RunnerTypeOK'
  BY <1>1, <1>3, SpentTyped, RunnerTypes, TypedAgain DEF ApprovalStatus
<1> QED
  BY <1>4, <1>5 DEF RunnerInv

\* A decision moves the cards it names to the verdict, and no other card.
LEMMA DecideFields ==
    ASSUME RunnerInv, NEW S \in SUBSET Approval, NEW verdict \in {"approved", "rejected", "expired"},
           Decide(S, verdict)
    PROVE  /\ approval' \in [Approval -> ApprovalType]
           /\ \A a \in S : approval[a].status = "pending" /\ approval'[a].status = verdict
           /\ \A a \in Approval \ S : approval'[a] = approval[a]
<1>1. \A a \in Approval : approval[a] \in ApprovalType
  BY RunnerTypes
<1>2. ASSUME NEW a \in Approval
      PROVE  /\ [approval[a] EXCEPT !.status = verdict] \in ApprovalType
             /\ [approval[a] EXCEPT !.status = verdict].status = verdict
  BY <1>1 DEF ApprovalType, ApprovalStatus
<1>3. approval' = [a \in Approval |->
                    IF a \in S THEN [approval[a] EXCEPT !.status = verdict] ELSE approval[a]]
  BY DEF Decide
<1> QED
  BY <1>1, <1>2, <1>3 DEF Decide

\* The steps that move no worker and no run.
LEMMA RestKeeps ==
    ASSUME RunnerInv,
           \/ \E w \in Worker, a \in Approval : IgnoreDecision(w, a)
           \/ \E S \in SUBSET Approval, verdict \in {"approved", "rejected", "expired"} : Decide(S, verdict)
           \/ \E j \in Job : Age(j)
           \/ \E w \in Worker : AgeStalled(w)
           \/ \E a \in Approval : Redeliver(a)
    PROVE  RunnerInv'
<1>1. CASE \E w \in Worker, a \in Approval : IgnoreDecision(w, a)
  BY <1>1, RunnerTypes, QuietKeeps DEF IgnoreDecision
<1>2. ASSUME NEW S \in SUBSET Approval, NEW verdict \in {"approved", "rejected", "expired"},
             Decide(S, verdict)
      PROVE  RunnerInv'
  <2>1. UNCHANGED <<job, run, worker, acked, aged, faults>>
    BY <1>2 DEF Decide
  <2>2. approval' \in [Approval -> ApprovalType]
    BY <1>2, DecideFields
  <2> QED
    BY <2>1, <2>2, RunnerTypes, QuietKeeps
<1>3. CASE \E j \in Job : Age(j)
  BY <1>3, RunnerTypes, QuietKeeps DEF Age
<1>4. ASSUME NEW w \in Worker, AgeStalled(w) PROVE RunnerInv'
  <2>1. worker[w].job \in Job
    BY <1>4 DEF AgeStalled, RunnerInv, KnowsItsJob
  <2>2. faults' \in [crash : Nat, lost : Nat, stall : Nat, duplicate : Nat]
    BY <1>4, SpendTyped DEF AgeStalled
  <2> QED
    BY <1>4, <2>1, <2>2, RunnerTypes, QuietKeeps DEF AgeStalled
<1>5. ASSUME NEW a \in Approval, Redeliver(a) PROVE RunnerInv'
  <2>1. faults' \in [crash : Nat, lost : Nat, stall : Nat, duplicate : Nat]
    BY <1>5, SpendTyped DEF Redeliver
  <2> QED
    BY <1>5, <2>1, RunnerTypes, QuietKeeps DEF Redeliver
<1> QED
  BY <1>1, <1>2, <1>3, <1>4, <1>5

-----------------------------------------------------------------------------
(* What moves a card: the loop's calls to the gate, a decision, an erasure. *)

\* One card moves to a status, the others stay.
LEMMA CardFields ==
    ASSUME RunnerInv, NEW a \in Approval, NEW status \in ApprovalStatus,
           approval' = [approval EXCEPT ![a].status = status]
    PROVE  /\ approval'[a].status = status
           /\ \A b \in Approval : b # a => approval'[b] = approval[b]
<1>1. approval \in [Approval -> ApprovalType] /\ approval[a] \in ApprovalType
  BY RunnerTypes
<1> QED
  BY <1>1 DEF ApprovalType

\* The gate put a new card up, or found one.
LEMMA ProposeFields ==
    ASSUME RunnerInv, NEW w \in Worker, Propose(w), approval' # approval
    PROVE  \E a \in Approval : /\ approval[a].status = "none"
                               /\ approval'[a].status = "pending"
                               /\ \A b \in Approval : b # a => approval'[b] = approval[b]
<1>1. approval \in [Approval -> ApprovalType]
  BY RunnerTypes
<1> QED
  BY <1>1 DEF Propose, FreshApproval

\* A card is spent by the worker that proposes its call or is resumed by it.
LEMMA SpendFields ==
    ASSUME RunnerInv, NEW w \in Worker, ProposeApproved(w) \/ Resume(w), approval' # approval
    PROVE  \E a \in Approval : /\ approval[a].status = "approved"
                               /\ approval'[a].status = "spent"
                               /\ \A b \in Approval : b # a => approval'[b] = approval[b]
<1>1. PICK a \in Approval : /\ approval[a].status = "approved"
                            /\ approval' = [approval EXCEPT ![a].status = "spent"]
  <2>1. CASE ProposeApproved(w)
    BY <2>1 DEF ProposeApproved, OfCall
  <2>2. CASE Resume(w)
    <3>1. worker[w].event \in Approval
      BY <2>2 DEF Resume, RunnerInv, KnowsItsJob
    <3> QED
      BY <2>2, <3>1 DEF Resume
  <2> QED
    BY <2>1, <2>2
<1>2. "spent" \in ApprovalStatus
  BY DEF ApprovalStatus
<1> QED
  BY <1>1, <1>2, CardFields

\* Nothing else touches a card.
LEMMA CardSteps ==
    ASSUME RunnerInv, [RunnerNext]_runnerVars, approval' # approval
    PROVE  \/ \E w \in Worker : Propose(w) \/ ProposeApproved(w) \/ Resume(w)
           \/ \E S \in SUBSET Approval, verdict \in {"approved", "rejected", "expired"} :
                Decide(S, verdict)
           \/ \E a \in Approval : RedactStagedApproval(a)
<1>0. RunnerNext
  BY DEF runnerVars
<1>1. ASSUME NEW w \in Worker, PassStep(w) PROVE approval' = approval
  BY <1>1 DEF PassStep, BeginTick, Seed, ClaimDueJobs, RefuseJob, StartRun
<1>2. ASSUME NEW w \in Worker, LoopEnds(w) \/ Land(w) \/ FinishJob(w) PROVE approval' = approval
  BY <1>2 DEF LoopEnds, Land, FinishJob
<1>3. ASSUME NEW w \in Worker,
             ResumeRefused(w) \/ LandIsLost(w) \/ FinishIsLost(w) \/ AgeStalled(w) \/ Crash(w)
      PROVE  approval' = approval
  BY <1>3 DEF ResumeRefused, LandIsLost, FinishIsLost, AgeStalled, Crash
<1>4. ASSUME NEW w \in Worker, NEW b \in Approval, Deliver(w, b) PROVE approval' = approval
  BY <1>4 DEF Deliver, IgnoreDecision, ClaimSuspended
<1>5. (\E j \in Job : Age(j)) \/ (\E b \in Approval : Redeliver(b)) => approval' = approval
  BY DEF Age, Redeliver
<1> QED
  BY <1>0, <1>1, <1>2, <1>3, <1>4, <1>5 DEF RunnerNext, LoopStep

\* The cards after one of them moved.
LEMMA OneCardMoves ==
    ASSUME NEW a \in Approval, NEW from, NEW to, approval[a].status = from, approval'[a].status = to,
           \A b \in Approval : b # a => approval'[b] = approval[b]
    PROVE  /\ Inbox!Move({a}, from, to)
           /\ cards' = [b \in Approval |-> IF b = a THEN to ELSE cards[b]]
  BY DEF cards, Inbox!Move

\* A step of the runner is one of the approvals engine on its cards, or none.
LEMMA RunnerKeepsCards ==
    ASSUME RunnerInv, [RunnerNext]_runnerVars
    PROVE  [Inbox!CardsNext]_(Inbox!cardVars)
<1> DEFINE Told == {a \in Approval : Announced(a)}
<1>0. approval' = approval => UNCHANGED Inbox!cardVars
  BY DEF cards, Announced, Inbox!cardVars
<1>1. ASSUME NEW w \in Worker, Propose(w), approval' # approval PROVE Inbox!CardsNext
  <2>1. PICK a \in Approval : /\ approval[a].status = "none" /\ approval'[a].status = "pending"
                              /\ \A b \in Approval : b # a => approval'[b] = approval[b]
    BY <1>1, ProposeFields
  <2>2. cards' = [b \in Approval |-> IF b = a THEN "pending" ELSE cards[b]] /\ cards[a] = "none"
    BY <2>1, OneCardMoves DEF cards
  <2>3. Told' = Told
    BY <2>1 DEF Announced
  <2>4. Inbox!PutUp(a, {})
    BY <2>2, <2>3 DEF Inbox!PutUp
  <2> QED
    BY <2>4 DEF Inbox!CardsNext
<1>2. ASSUME NEW w \in Worker, ProposeApproved(w) \/ Resume(w), approval' # approval
      PROVE  Inbox!CardsNext
  <2>1. PICK a \in Approval : /\ approval[a].status = "approved" /\ approval'[a].status = "spent"
                              /\ \A b \in Approval : b # a => approval'[b] = approval[b]
    BY <1>2, SpendFields
  <2>2. Inbox!Move({a}, "approved", "spent")
    BY <2>1, OneCardMoves
  <2>3. Told' = Told
    BY <2>1 DEF Announced
  <2> QED
    BY <2>2, <2>3 DEF Inbox!CardsNext, Inbox!Use
<1>3. ASSUME NEW S \in SUBSET Approval, NEW verdict \in {"approved", "rejected", "expired"},
             Decide(S, verdict)
      PROVE  Inbox!CardsNext
  <2>1. /\ \A a \in S : approval[a].status = "pending" /\ approval'[a].status = verdict
        /\ \A a \in Approval \ S : approval'[a] = approval[a]
    BY <1>3, DecideFields
  <2>2. Inbox!Move(S, "pending", verdict)
    BY <2>1 DEF cards, Inbox!Move
  <2>3. Told' = Told \cup S
    BY <2>1 DEF Announced
  <2>4. verdict \in Inbox!Decision
    BY DEF Inbox!Decision
  <2> QED
    BY <2>2, <2>3, <2>4 DEF Inbox!CardsNext, Inbox!Answer
<1>4. ASSUME NEW a \in Approval, RedactStagedApproval(a) PROVE Inbox!CardsNext
  <2>1. approval[a].status = "pending" /\ approval' = [approval EXCEPT ![a].status = "withdrawn"]
    BY <1>4 DEF RedactStagedApproval
  <2>2. /\ approval'[a].status = "withdrawn"
        /\ \A b \in Approval : b # a => approval'[b] = approval[b]
    BY <2>1, CardFields DEF ApprovalStatus
  <2>3. Inbox!Move({a}, "pending", "withdrawn")
    BY <2>1, <2>2, OneCardMoves
  <2>4. Told' = Told
    BY <2>1, <2>2 DEF Announced
  <2> QED
    BY <2>3, <2>4 DEF Inbox!CardsNext, Inbox!Retract
<1> QED
  BY <1>0, <1>1, <1>2, <1>3, <1>4, CardSteps

-----------------------------------------------------------------------------
(* The results.                                                            *)

\* Nothing has been claimed, staged or decided at the start.
LEMMA RunnerInitially == RunnerInit => RunnerInv
<1> SUFFICES ASSUME RunnerInit PROVE RunnerInv
  OBVIOUS
<1>1. Idle \in WorkerType /\ Idle.pc = "idle"
  BY IdleWorker DEF Pc
<1>2. worker \in [Worker -> WorkerType] /\ \A w \in Worker : worker[w].pc = "idle"
  BY <1>1 DEF RunnerInit
<1>3. [status |-> "none", approval |-> None, attempt |-> 0] \in RunType
  BY DEF RunType, RunStatus
<1>4. [status |-> "none", call |-> None] \in ApprovalType
  BY DEF ApprovalType, ApprovalStatus
<1>5. job \in [Job -> JobStatus]
  BY DEF RunnerInit, JobStatus
<1>6. run \in [Job -> RunType] /\ approval \in [Approval -> ApprovalType]
  BY <1>3, <1>4 DEF RunnerInit
<1>7. acked \subseteq Approval /\ aged \subseteq Job
      /\ faults \in [crash : Nat, lost : Nat, stall : Nat, duplicate : Nat]
  BY DEF RunnerInit
<1>8. RunnerTypeOK
  BY <1>2, <1>5, <1>6, <1>7 DEF RunnerTypeOK, RunType, WorkerType, ApprovalType
<1>9. KnowsItsJob /\ HeldIsUnderWay /\ OneHolder
  BY <1>2 DEF KnowsItsJob, HeldIsUnderWay, OneHolder, Holds
<1> QED
  BY <1>8, <1>9 DEF RunnerInv

\* Every step keeps the invariant.
LEMMA RunnerSteps ==
    ASSUME RunnerInv, [RunnerNext]_runnerVars
    PROVE  RunnerInv'
<1>1. CASE \E w \in Worker : PassStep(w)
  BY <1>1, BeginTickKeeps, SeedKeeps, ClaimDueKeeps, BatchKeeps, StartRunKeeps DEF PassStep
<1>2. CASE \E w \in Worker : LoopStep(w)
  BY <1>2, ProposeKeeps, LoopEndsKeeps, LandKeeps, BatchKeeps DEF LoopStep
<1>3. CASE \E w \in Worker : ResumeRefused(w) \/ Resume(w) \/ LandIsLost(w) \/ FinishIsLost(w)
                              \/ Crash(w)
  BY <1>3, ResumeKeeps, LandKeeps, BatchKeeps, CrashKeeps
<1>4. CASE \E w \in Worker, a \in Approval : ClaimSuspended(w, a)
  BY <1>4, ClaimSuspendedKeeps
<1>5. CASE \E a \in Approval : RedactStagedApproval(a)
  BY <1>5, RedactKeeps
<1>6. CASE \/ \E w \in Worker, a \in Approval : IgnoreDecision(w, a)
           \/ \E S \in SUBSET Approval, verdict \in {"approved", "rejected", "expired"} : Decide(S, verdict)
           \/ \E j \in Job : Age(j)
           \/ \E w \in Worker : AgeStalled(w)
           \/ \E a \in Approval : Redeliver(a)
  BY <1>6, RestKeeps
<1>7. CASE UNCHANGED runnerVars
  BY <1>7, RunnerTypes, QuietKeeps DEF runnerVars
<1> QED
  BY <1>1, <1>2, <1>3, <1>4, <1>5, <1>6, <1>7 DEF RunnerNext, Deliver

\* The inductive invariant holds throughout.
THEOREM RunnerInvariant == RunnerSpec => []RunnerInv
<1>1. RunnerInit => RunnerInv
  BY RunnerInitially
<1>2. RunnerInv /\ [RunnerNext]_runnerVars => RunnerInv'
  BY RunnerSteps
<1> QED
  BY <1>1, <1>2, PTL DEF RunnerSpec

\* Every run has a status the store's map names, every worker knows what it
\* holds (SaveOutcome).
THEOREM RunnerTyped == RunnerSpec => []RunnerTypeOK
<1>1. RunnerInv => RunnerTypeOK
  BY DEF RunnerInv
<1> QED
  BY <1>1, RunnerInvariant, PTL

\* Exactly one delivery of a decision resumes a run, a run has one loop and a
\* parked run none (ClaimSuspendedByApproval, StartRun).
THEOREM NoSecondLoop == RunnerSpec => []OneLoopPerRun
<1>1. RunnerInv => OneLoopPerRun
  BY DEF RunnerInv, OneHolder, HeldIsUnderWay, OneLoopPerRun
<1> QED
  BY <1>1, RunnerInvariant, PTL

\* A decision that was handed to a worker, or acknowledged.
Taken(a) == a \in acked \/ \E w \in Worker : worker[w].event = a

\* Nobody handles a decision that nobody announced.
TakenIsAnnounced == \A a \in Approval : Taken(a) => Announced(a)

\* A worker keeps the decision it was handed or forgets it, and acknowledges no
\* other.
KeepsItsEvent ==
    /\ \A v \in Worker : worker'[v].event \in {worker[v].event, None}
    /\ \A a \in acked' : a \in acked \/ \E v \in Worker : worker[v].event = a

\* What follows a terminal write acknowledges the worker's own decision.
LEMMA LandingKeepsItsEvent ==
    ASSUME RunnerInv, NEW w \in Worker, AfterLanding(w)
    PROVE  KeepsItsEvent
<1>1. worker \in [Worker -> WorkerType] /\ Idle.event = None
  BY RunnerTypes DEF Idle
<1>2. \A v \in Worker : worker[v] \in WorkerType
  BY <1>1
<1>3. \A v \in Worker : worker'[v].event \in {worker[v].event, None}
  BY <1>1, <1>2 DEF AfterLanding, Goes, WorkerType
<1> QED
  BY <1>3 DEF KeepsItsEvent, AfterLanding

\* Only a delivery hands a worker a decision or acknowledges one it was not
\* handed (HandleEvent).
LEMMA OnlyDeliveriesTake ==
    ASSUME RunnerInv, [RunnerNext]_runnerVars, NEW a \in Approval, Taken(a)'
    PROVE  Taken(a) \/ \E w \in Worker : Deliver(w, a)
<1>0. /\ worker \in [Worker -> WorkerType]
      /\ \A v \in Worker : worker[v] \in WorkerType
      /\ Idle.event = None /\ None \notin Approval
  BY RunnerTypes DEF Idle, Approval, None
<1>1. ASSUME KeepsItsEvent PROVE Taken(a)
  BY <1>0, <1>1 DEF KeepsItsEvent, Taken
<1>2. ASSUME NEW w \in Worker, BeginTick(w) \/ Seed(w) PROVE KeepsItsEvent
  BY <1>0, <1>2 DEF BeginTick, Seed, Goes, KeepsItsEvent, WorkerType
<1>3. ASSUME NEW w \in Worker, ClaimDueJobs(w) PROVE KeepsItsEvent
  BY <1>0, <1>3 DEF ClaimDueJobs, Idle, KeepsItsEvent
<1>4. ASSUME NEW w \in Worker, NEW j, NextInBatch(w, j), acked' = acked PROVE KeepsItsEvent
  BY <1>0, <1>4 DEF NextInBatch, Idle, KeepsItsEvent
<1>5. ASSUME NEW w \in Worker, NEW j \in Job, RefuseJob(w, j) \/ StartRun(w, j) PROVE KeepsItsEvent
  <2>1. CASE RefuseJob(w, j)
    BY <1>4, <2>1 DEF RefuseJob
  <2>2. CASE StartRun(w, j)
    BY <1>0, <2>2 DEF StartRun, KeepsItsEvent, WorkerType
  <2> QED
    BY <1>5, <2>1, <2>2
<1>6. ASSUME NEW w \in Worker, ProposeApproved(w) \/ Propose(w) \/ LoopEnds(w) PROVE KeepsItsEvent
  <2>1. CASE ProposeApproved(w)
    BY <1>0, <2>1 DEF ProposeApproved, KeepsItsEvent
  <2>2. CASE Propose(w)
    <3>1. PICK b \in Approval : Suspend(w, b)
      BY <2>2 DEF Propose, OfCall, FreshApproval
    <3>2. acked' = acked
      BY <2>2 DEF Propose
    <3>3. worker' = [worker EXCEPT ![w] =
                       [worker[w] EXCEPT !.pc = "landing", !.outcome = "awaiting_approval", !.wait = b]]
      BY <3>1 DEF Suspend
    <3> QED
      BY <1>0, <3>2, <3>3 DEF KeepsItsEvent, WorkerType
  <2>3. CASE LoopEnds(w)
    BY <1>0, <2>3 DEF LoopEnds, KeepsItsEvent, WorkerType
  <2> QED
    BY <1>6, <2>1, <2>2, <2>3
<1>7. ASSUME NEW w \in Worker, Land(w) \/ LandIsLost(w) PROVE KeepsItsEvent
  BY <1>7, LandingKeepsItsEvent DEF Land, LandIsLost
<1>8. ASSUME NEW w \in Worker, FinishJob(w) \/ FinishIsLost(w) PROVE KeepsItsEvent
  BY <1>4, <1>8 DEF FinishJob, FinishIsLost
<1>9. ASSUME NEW w \in Worker, ResumeRefused(w) \/ Resume(w) PROVE KeepsItsEvent
  BY <1>0, <1>9 DEF ResumeRefused, Resume, Goes, KeepsItsEvent, WorkerType
<1>10. ASSUME NEW w \in Worker, AgeStalled(w) \/ Crash(w) PROVE KeepsItsEvent
  BY <1>0, <1>10 DEF AgeStalled, Crash, KeepsItsEvent
<1>11. ASSUME NEW w \in Worker, NEW b \in Approval, Deliver(w, b), b # a PROVE Taken(a)
  <2>1. CASE IgnoreDecision(w, b)
    BY <1>11, <2>1 DEF IgnoreDecision, Taken
  <2>2. CASE ClaimSuspended(w, b)
    BY <1>0, <1>11, <2>2 DEF ClaimSuspended, Idle, Taken
  <2> QED
    BY <1>11, <2>1, <2>2 DEF Deliver
<1>12. ASSUME \/ \E S \in SUBSET Approval, verdict \in {"approved", "rejected", "expired"} :
                   Decide(S, verdict)
              \/ \E b \in Approval : RedactStagedApproval(b)
              \/ \E j \in Job : Age(j)
              \/ \E b \in Approval : Redeliver(b)
              \/ UNCHANGED runnerVars
       PROVE  KeepsItsEvent
  BY <1>12 DEF Decide, RedactStagedApproval, Age, Redeliver, runnerVars, KeepsItsEvent
<1>13. ASSUME NEW w \in Worker, PassStep(w) \/ LoopStep(w) PROVE KeepsItsEvent
  BY <1>2, <1>3, <1>5, <1>6, <1>7, <1>8, <1>13 DEF PassStep, LoopStep
<1> QED
  BY <1>1, <1>7, <1>8, <1>9, <1>10, <1>11, <1>12, <1>13 DEF RunnerNext

\* What was announced stays announced, and a card that leaves the inbox was
\* decided in that step or withdrawn by an erasure.
LEMMA HowCardsMove ==
    ASSUME RunnerInv, [RunnerNext]_runnerVars, NEW a \in Approval
    PROVE  /\ Announced(a) => Announced(a)'
           /\ approval[a].status = "pending" =>
                \/ approval'[a].status = "pending"
                \/ Announced(a)' /\ UNCHANGED <<worker, acked>>
                \/ RedactStagedApproval(a)
<1>1. CASE approval' = approval
  BY <1>1 DEF Announced
<1>2. ASSUME NEW w \in Worker, Propose(w), approval' # approval
      PROVE  approval'[a] = approval[a] \/ approval[a].status = "none"
  BY <1>2, ProposeFields
<1>3. ASSUME NEW w \in Worker, ProposeApproved(w) \/ Resume(w), approval' # approval
      PROVE  \/ approval'[a] = approval[a]
             \/ approval[a].status = "approved" /\ approval'[a].status = "spent"
  <2>1. PICK b \in Approval : /\ approval[b].status = "approved" /\ approval'[b].status = "spent"
                              /\ \A c \in Approval : c # b => approval'[c] = approval[c]
    BY <1>3, SpendFields
  <2> QED
    BY <2>1
<1>4. ASSUME NEW S \in SUBSET Approval, NEW verdict \in {"approved", "rejected", "expired"},
             Decide(S, verdict)
      PROVE  /\ UNCHANGED <<worker, acked>>
             /\ \/ approval'[a] = approval[a]
                \/ approval[a].status = "pending" /\ approval'[a].status = verdict
  BY <1>4, DecideFields DEF Decide
<1>5. ASSUME NEW b \in Approval, RedactStagedApproval(b)
      PROVE  approval[b].status = "pending" /\ (a # b => approval'[a] = approval[a])
  <2>1. /\ approval[b].status = "pending" /\ "withdrawn" \in ApprovalStatus
        /\ approval' = [approval EXCEPT ![b].status = "withdrawn"]
    BY <1>5 DEF RedactStagedApproval, ApprovalStatus
  <2> QED
    BY <2>1, CardFields
<1>6. Announced(a) <=> approval[a].status \in {"approved", "rejected", "expired", "spent"}
  BY DEF Announced
<1>7. Announced(a)' <=> approval'[a].status \in {"approved", "rejected", "expired", "spent"}
  BY DEF Announced
<1>8. CASE approval' # approval
  <2>1. ASSUME NEW w \in Worker, Propose(w) \/ ProposeApproved(w) \/ Resume(w)
        PROVE  /\ Announced(a) => Announced(a)'
               /\ approval[a].status = "pending" => approval'[a].status = "pending"
    BY <1>2, <1>3, <1>6, <1>7, <1>8, <2>1
  <2>2. ASSUME NEW S \in SUBSET Approval, NEW verdict \in {"approved", "rejected", "expired"},
               Decide(S, verdict)
        PROVE  /\ Announced(a) => Announced(a)'
               /\ approval[a].status = "pending" =>
                    \/ approval'[a].status = "pending"
                    \/ Announced(a)' /\ UNCHANGED <<worker, acked>>
    BY <1>4, <1>6, <1>7, <2>2
  <2>3. ASSUME NEW b \in Approval, RedactStagedApproval(b)
        PROVE  /\ Announced(a) => Announced(a)'
               /\ approval[a].status = "pending" =>
                    approval'[a].status = "pending" \/ RedactStagedApproval(a)
    BY <1>5, <1>6, <1>7, <2>3
  <2> QED
    BY <1>8, <2>1, <2>2, <2>3, CardSteps
<1> QED
  BY <1>1, <1>8

\* Nobody handles a decision before it is announced.
LEMMA TakenStaysAnnounced ==
    ASSUME RunnerInv, TakenIsAnnounced, [RunnerNext]_runnerVars
    PROVE  TakenIsAnnounced'
<1> SUFFICES ASSUME NEW a \in Approval, Taken(a)' PROVE Announced(a)'
  BY DEF TakenIsAnnounced
<1>1. Taken(a) \/ \E w \in Worker : Deliver(w, a)
  BY OnlyDeliveriesTake
<1>2. Announced(a)
  BY <1>1 DEF TakenIsAnnounced, Deliver, IgnoreDecision, ClaimSuspended, Deliverable
<1> QED
  BY <1>2, HowCardsMove

\* The erasure that withdraws a card unparks every run on it.
LEMMA ErasureUnparks ==
    ASSUME RunnerInv, NEW a \in Approval, RedactStagedApproval(a), NEW j \in Job, j \in Parked(a)
    PROVE  j \notin Parked(a)'
<1>1. run \in [Job -> RunType] /\ run[j] \in RunType
  BY RunnerTypes
<1>2. run'[j] = Failed(run[j])
  BY DEF RedactStagedApproval, EndsParked
<1>3. run'[j].status = "failed"
  BY <1>1, <1>2 DEF Failed, RunType
<1> QED
  BY <1>3 DEF Parked

\* The delivery of a decision unparks every run on its card, or finds none.
LEMMA DeliveryUnparks ==
    ASSUME RunnerInv, NEW w \in Worker, NEW a \in Approval, Deliver(w, a),
           NEW j \in Job, j \in Parked(a)
    PROVE  j \notin Parked(a)'
<1>1. run \in [Job -> RunType] /\ run[j] \in RunType
  BY RunnerTypes
<1>2. run' = Claims(a)
  BY DEF Deliver, IgnoreDecision, ClaimSuspended
<1>3. run'[j] = [run[j] EXCEPT !.status = "running"]
  BY <1>2 DEF Claims
<1>4. run'[j].status = "running"
  BY <1>1, <1>3 DEF RunType
<1> QED
  BY <1>4 DEF Parked

\* A run parked on a card stays owed its end: the card is open, or its decision
\* is on its way, until a step that unparks the run, whatever is erased,
\* delivered twice, acknowledged or lost with a worker, and however many runs
\* share the card (redactStagedApprovals, ClaimSuspendedByApproval).
THEOREM ParkedRunsStayOwed == RunnerSpec => ParkedStayOwed
<1>1. RunnerInit => TakenIsAnnounced
  <2> SUFFICES ASSUME RunnerInit, NEW a \in Approval PROVE ~Taken(a)
    BY DEF TakenIsAnnounced
  <2>1. a # None /\ acked = {}
    BY DEF RunnerInit, Approval, None
  <2>2. \A w \in Worker : worker[w].event = None
    BY DEF RunnerInit, Idle
  <2> QED
    BY <2>1, <2>2 DEF Taken
<1>2. RunnerInv /\ TakenIsAnnounced /\ [RunnerNext]_runnerVars => TakenIsAnnounced'
  BY TakenStaysAnnounced
<1>3. ASSUME RunnerInv, TakenIsAnnounced, [RunnerNext]_runnerVars
      PROVE  StaysOwed
  <2> SUFFICES ASSUME NEW a \in Approval, Owed(a), ~Owed(a)', NEW j \in Job,
                      j \in Parked(a), j \in Parked(a)'
               PROVE  FALSE
    BY DEF StaysOwed
  <2>1. Undelivered(a) <=> Announced(a) /\ ~Taken(a)
    BY DEF Undelivered, Taken
  <2>2. Announced(a)' => Taken(a)'
    BY DEF Owed, Undelivered, Taken
  <2>3. CASE approval[a].status = "pending"
    <3>1. ~Announced(a) /\ ~Taken(a)
      BY <1>3, <2>3 DEF TakenIsAnnounced, Announced
    <3>2. approval'[a].status # "pending"
      BY DEF Owed
    <3>3. ~RedactStagedApproval(a)
      BY <1>3, ErasureUnparks
    <3>4. Announced(a)' /\ UNCHANGED <<worker, acked>>
      BY <1>3, <2>3, <3>2, <3>3, HowCardsMove
    <3> QED
      BY <2>2, <3>1, <3>4 DEF Taken
  <2>4. CASE Undelivered(a)
    <3>1. Announced(a)'
      BY <1>3, <2>1, <2>4, HowCardsMove
    <3>2. \E w \in Worker : Deliver(w, a)
      BY <1>3, <2>1, <2>2, <2>4, <3>1, OnlyDeliveriesTake
    <3> QED
      BY <1>3, <3>2, DeliveryUnparks
  <2> QED
    BY <2>3, <2>4 DEF Owed
<1>4. RunnerInv /\ TakenIsAnnounced /\ [RunnerNext]_runnerVars => [StaysOwed]_runnerVars
  BY <1>3
<1> QED
  BY <1>1, <1>2, <1>4, RunnerInvariant, PTL DEF RunnerSpec, ParkedStayOwed

\* The runner's own steps and what it lets happen to its cards are what the
\* approvals engine does with cards: nothing in the runner rests on a decision,
\* an expiry or a redemption that the engine would not perform.
THEOREM RunnerKeepsTheCards == RunnerSpec => StaysWithinTheCards
<1>1. RunnerInit => Inbox!CardsInit
  BY DEF RunnerInit, cards, Announced, Inbox!CardsInit
<1>2. RunnerInv /\ [RunnerNext]_runnerVars => [Inbox!CardsNext]_(Inbox!cardVars)
  BY RunnerKeepsCards
<1> QED
  BY <1>1, <1>2, RunnerInvariant, PTL DEF RunnerSpec, StaysWithinTheCards, Inbox!CardsSpec

=============================================================================
