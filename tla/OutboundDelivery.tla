-------------------------- MODULE OutboundDelivery --------------------------
(***************************************************************************)
(* One staged outbound message on its way to a provider: the row of        *)
(* comms_outbound, the River job staged with it, and the attempts of       *)
(* comms.Dispatcher that the job's worker drives.                          *)
(*                                                                         *)
(* Every store call is a transaction of its own, so each is a step; what   *)
(* an attempt decides from what it already holds is folded into the write  *)
(* the decision leads to.  A message's text, its addressees and the        *)
(* wording of a reason are left out; of a reason only its class is kept.   *)
(* The gates read live facts about the deployment (connection, scope,      *)
(* seat, consent, files); the model keeps their conjunction, "allowed".    *)
(***************************************************************************)
EXTENDS Integers, FiniteSets

CONSTANTS Delivery, Worker, NoDelivery, NoWorker,
          MaxAttempts,  \* sendMaxAttempts: River's ladder and the guard's bound
          MaxSlips,     \* bound: store faults and worker deaths per delivery
          MaxStale,     \* bound: jobs rescued from a worker that still runs
          MaxMisses     \* bound: copies sent after a lookup missed one

ASSUME OutboundAssumption ==
    /\ MaxAttempts \in Nat /\ MaxAttempts >= 2
    /\ MaxSlips \in Nat /\ MaxStale \in Nat /\ MaxMisses \in Nat
    /\ NoDelivery \notin Delivery
    /\ NoWorker \notin Worker

VARIABLES
    row,      \* comms_outbound: status, reason, attempts, inflight, kind
    job,      \* river_job: state, attempt, and the worker that runs it
    work,     \* one dispatch attempt per busy worker
    facts,    \* what the gates and the pacing read about a delivery
    copies,   \* how many copies of the message the provider accepted
    misses,   \* those of them sent because a lookup missed an earlier one
    slips,    \* store faults and worker deaths met so far
    stale     \* jobs rescued while their worker was still running

vars == <<row, job, work, facts, copies, misses, slips, stale>>

-----------------------------------------------------------------------------
(* The shapes of a row: mail whose provider keeps the message identity it  *)
(* is given, mail whose provider stamps its own, and a messaging channel.  *)
Kind == {"honours", "rewrites", "channel"}
Status == {"none", "pending", "sent", "parked"}
Reason == {"", "refused", "tooOld", "exhausted", "unknown", "rejected",
           "throttled", "transmitted", "scrubbed"}
Step == {"idle", "load", "gates", "pace", "guard", "send", "record",
         "parkSent", "clear", "dispose"}
Failure == {"", "permanent", "throttled", "transient"}

Idle == [pc |-> "idle", d |-> NoDelivery, att |-> 0, seen |-> FALSE,
         late |-> FALSE, err |-> ""]

Init ==
    /\ row = [d \in Delivery |-> [status |-> "none", reason |-> "",
                                  attempts |-> 0, inflight |-> FALSE,
                                  kind |-> "honours"]]
    /\ job = [d \in Delivery |-> [state |-> "none", attempt |-> 0,
                                  runner |-> NoWorker]]
    /\ work = [w \in Worker |-> Idle]
    /\ facts = [d \in Delivery |-> [allowed |-> TRUE, aged |-> FALSE]]
    /\ copies = [d \in Delivery |-> 0]
    /\ misses = [d \in Delivery |-> 0]
    /\ slips = [d \in Delivery |-> 0]
    /\ stale = [d \in Delivery |-> 0]

Pending(d) == row[d].status = "pending"
On(w) == work[w].d
DetectsPriorSend(d) == row[d].kind # "channel"

(* commsStager.StageTx, StageChannelTx: the row and the job that carries   *)
(* it commit together.                                                     *)
Stage(d, k) ==
    /\ row[d].status = "none"
    /\ row' = [row EXCEPT ![d].status = "pending", ![d].kind = k]
    /\ job' = [job EXCEPT ![d].state = "available"]
    /\ UNCHANGED <<work, facts, copies, misses, slips, stale>>

-----------------------------------------------------------------------------
(* River, as commsSendWorker.Work uses it.  A verdict counts only from the *)
(* attempt River holds to be the running one.                              *)

Report(w, j) ==
    /\ job' = IF job[On(w)].runner = w THEN [job EXCEPT ![On(w)] = j] ELSE job
    /\ work' = [work EXCEPT ![w] = Idle]

(* sent, parked, skipped: the job completes.                               *)
Done(w) == Report(w, [job[On(w)] EXCEPT !.state = "done", !.runner = NoWorker])

(* A wait implemented as a failed attempt.                                 *)
SnoozeSpendsARung(w) == Report(w, [state |-> "available", runner |-> NoWorker,
                                   attempt |-> job[On(w)].attempt])

(* postponed: a snooze, which restores the job's attempt.                  *)
Snooze(w) == Report(w, [state |-> "available", runner |-> NoWorker,
                        attempt |-> job[On(w)].attempt - 1])

(* An attempt that ended without a verdict keeps its rung; on the last one *)
(* the runner discards the job.                                            *)
Spent(j) == [j EXCEPT !.runner = NoWorker,
                      !.state = IF j.attempt < MaxAttempts THEN "available"
                                                           ELSE "discarded"]

(* retry: the job fails with its cause.                                    *)
Fail(w) == Report(w, Spent(job[On(w)]))

Slip(d) ==
    /\ slips[d] < MaxSlips
    /\ slips' = [slips EXCEPT ![d] = @ + 1]

Fetch(w, d) ==
    /\ work[w].pc = "idle"
    /\ job[d].state = "available"
    /\ job' = [job EXCEPT ![d] = [state |-> "running", runner |-> w,
                                  attempt |-> job[d].attempt + 1]]
    /\ work' = [work EXCEPT ![w] = [Idle EXCEPT !.pc = "load", !.d = d]]
    /\ UNCHANGED <<row, facts, copies, misses, slips, stale>>

(* The worker's process dies in the middle of an attempt.                  *)
Crash(w) ==
    /\ work[w].pc # "idle"
    /\ Slip(On(w))
    /\ work' = [work EXCEPT ![w] = Idle]
    /\ UNCHANGED <<row, job, facts, copies, misses, stale>>

(* The rescuer takes back a job that has run for too long; its worker may  *)
(* be dead or, after a pause or a partition, still at work.                *)
Rescue(d) ==
    /\ job[d].state = "running"
    /\ LET alive == On(job[d].runner) = d
       IN  /\ alive => stale[d] < MaxStale
           /\ stale' = [stale EXCEPT ![d] = IF alive THEN @ + 1 ELSE @]
    /\ job' = [job EXCEPT ![d] = Spent(job[d])]
    /\ UNCHANGED <<row, work, facts, copies, misses, slips>>

-----------------------------------------------------------------------------
(* The dispositions: every transition of the row is guarded on             *)
(* status = 'pending', and an attempt that finds it closed is skipped.     *)

Skip(w) ==
    /\ ~Pending(On(w))
    /\ Done(w)
    /\ UNCHANGED <<row, slips>>

(* A close that does not ask whether the row is still open.                *)
CloseAnyway(w, r) ==
    /\ row' = [row EXCEPT ![On(w)] = r]
    /\ Done(w)
    /\ UNCHANGED slips

Close(w, r) ==
    /\ Pending(On(w))
    /\ row' = [row EXCEPT ![On(w)] = r]
    /\ Done(w)
    /\ UNCHANGED slips

Park(w, why) ==
    \/ Close(w, [row[On(w)] EXCEPT !.status = "parked", !.reason = why])
    \/ Skip(w)
    \/ Slip(On(w)) /\ Fail(w) /\ UNCHANGED row

(* retry: RecordFailure writes a reason and nothing the model keeps.       *)
Retry(w) ==
    \/ Pending(On(w)) /\ Fail(w) /\ UNCHANGED <<row, slips>>
    \/ Skip(w)
    \/ Slip(On(w)) /\ Fail(w) /\ UNCHANGED row

(* postpone: RecordDeferral gives back the attempt Load counted.           *)
Postpone(w) ==
    \/ /\ Pending(On(w))
       /\ row' = [row EXCEPT ![On(w)].attempts = IF @ > 0 THEN @ - 1 ELSE 0]
       /\ Snooze(w)
       /\ UNCHANGED slips
    \/ Skip(w)
    \/ Slip(On(w)) /\ Fail(w) /\ UNCHANGED row

(* A throttle treated like our own pacing, which never counts a rung.      *)
ThrottledAsPacing(w) == Postpone(w)

(* throttled: the provider answered, so the rung is kept and the last one  *)
(* parks.                                                                  *)
Throttled(w) ==
    IF work[w].att >= MaxAttempts - 1
    THEN Park(w, "throttled")
    ELSE \/ Pending(On(w)) /\ Snooze(w) /\ UNCHANGED <<row, slips>>
         \/ Skip(w)
         \/ Slip(On(w)) /\ Fail(w) /\ UNCHANGED row

Goto(w, step) == work' = [work EXCEPT ![w].pc = step]

-----------------------------------------------------------------------------
(* Dispatcher.DispatchWithWait, one store call or provider call at a time. *)

(* Load counts the attempt durably before anything can reach the provider. *)
Load(w) ==
    /\ work[w].pc = "load"
    /\ LET d == On(w) IN
       \/ /\ Pending(d)
          /\ row' = [row EXCEPT ![d].attempts = @ + 1]
          /\ work' = [work EXCEPT ![w].pc = "gates",
                                  ![w].att = row[d].attempts + 1,
                                  ![w].seen = row[d].inflight,
                                  ![w].late = ~facts[d].allowed]
          /\ UNCHANGED <<job, slips>>
       \/ Skip(w)
       \/ Slip(d) /\ Fail(w) /\ UNCHANGED row
    /\ UNCHANGED <<facts, copies, misses, stale>>

(* Gates that trust the answer the first attempt got.                      *)
ClearedOnce(w) == facts[On(w)].allowed \/ work[w].att > 1

Cleared(w) == facts[On(w)].allowed

(* The connection, authority, seat, consent, carriage and integrity gates: *)
(* a refusal parks, a failure to learn the answer retries.                 *)
Gates(w) ==
    /\ work[w].pc = "gates"
    /\ \/ /\ Cleared(w)
          /\ Goto(w, "pace")
          /\ UNCHANGED <<row, job, slips>>
       \/ ~Cleared(w) /\ Park(w, "refused")
       \/ Retry(w)
    /\ UNCHANGED <<facts, copies, misses, stale>>

(* pace, then the exhaustion guard: a policy that holds the message back   *)
(* answers before the ladder is looked at.                                 *)
Pace(w) ==
    /\ work[w].pc = "pace"
    /\ \/ IF facts[On(w)].aged THEN Park(w, "tooOld") ELSE Postpone(w)
       \/ /\ work[w].att >= MaxAttempts
          /\ Park(w, "exhausted")
       \/ /\ work[w].att < MaxAttempts
          /\ Goto(w, "guard")
          /\ UNCHANGED <<row, job, slips>>
    /\ UNCHANGED <<facts, copies, misses, stale>>

(* attachedFiles, which may fail before anything is marked, then           *)
(* guardAtMostOnce: a seam that cannot discover a prior send refuses a     *)
(* standing marker and commits its own before the call.                    *)
Guard(w) ==
    /\ work[w].pc = "guard"
    /\ LET d == On(w) IN
       \/ Retry(w)
       \/ /\ DetectsPriorSend(d)
          /\ Goto(w, "send")
          /\ UNCHANGED <<row, job, slips>>
       \/ /\ ~DetectsPriorSend(d)
          /\ work[w].seen
          /\ Park(w, "unknown")
       \/ /\ ~DetectsPriorSend(d)
          /\ ~work[w].seen
          /\ \/ /\ Pending(d)
                /\ row' = [row EXCEPT ![d].inflight = TRUE]
                /\ Goto(w, "send")
                /\ UNCHANGED <<job, slips>>
             \/ Skip(w)
    /\ UNCHANGED <<facts, copies, misses, stale>>

(* A lookup that starts one rung late.                                     *)
FoundOneRungLate(w) ==
    /\ work[w].att > 2
    /\ row[On(w)].kind = "honours"
    /\ copies[On(w)] > 0

(* The prior-send lookup of a retry (SendEmail, FindByMessageID): there is *)
(* a copy to find only at a provider that kept the identity it was given.  *)
FoundAtProvider(w) ==
    /\ work[w].att > 1
    /\ row[On(w)].kind = "honours"
    /\ copies[On(w)] > 0

(* A transmission: the lookup had nothing to find, or the search index has *)
(* not caught up with a copy that was just sent.                           *)
Transmit(w) ==
    /\ copies' = [copies EXCEPT ![On(w)] = @ + 1]
    /\ \/ ~FoundAtProvider(w) /\ UNCHANGED misses
       \/ /\ FoundAtProvider(w)
          /\ misses[On(w)] < MaxMisses
          /\ misses' = [misses EXCEPT ![On(w)] = @ + 1]

Refuse(w, class) == work' = [work EXCEPT ![w].pc = "clear", ![w].err = class]

(* An answer that never came taken for a refusal.                          *)
SilenceIsRefusal(w) == Refuse(w, "transient") /\ UNCHANGED <<row, job, slips>>

(* The provider's answer is lost: mail reports an outage, a channel an     *)
(* outcome nobody learned (ErrSendOutcomeUnknown), whose marker stays.     *)
AnswerLost(w) ==
    IF DetectsPriorSend(On(w))
    THEN Refuse(w, "transient") /\ UNCHANGED <<row, job, slips>>
    ELSE Park(w, "unknown")

(* seam.transmit.  The provider accepts the message or refuses it, and its *)
(* answer may be lost either way.                                          *)
Send(w) ==
    /\ work[w].pc = "send"
    /\ \/ /\ FoundAtProvider(w)
          /\ Goto(w, "record")
          /\ UNCHANGED <<row, job, copies, misses, slips>>
       \/ /\ Transmit(w)
          /\ Goto(w, "record")
          /\ UNCHANGED <<row, job, slips>>
       \/ Transmit(w) /\ AnswerLost(w)
       \/ UNCHANGED <<copies, misses>> /\ AnswerLost(w)
       \/ /\ \E class \in Failure \ {""} : Refuse(w, class)
          /\ UNCHANGED <<row, job, copies, misses, slips>>
    /\ UNCHANGED <<facts, stale>>

(* classifySendFailure: a definite answer proves nothing was sent, so the  *)
(* marker is retracted first; if that fails it stands.                     *)
ClearInFlight(w) ==
    /\ work[w].pc = "clear"
    /\ \/ /\ row' = IF Pending(On(w))
                    THEN [row EXCEPT ![On(w)].inflight = FALSE] ELSE row
          /\ Goto(w, "dispose")
          /\ UNCHANGED <<job, slips>>
       \/ Retry(w)
    /\ UNCHANGED <<facts, copies, misses, stale>>

Dispose(w) ==
    /\ work[w].pc = "dispose"
    /\ CASE work[w].err = "permanent" -> Park(w, "rejected")
         [] work[w].err = "throttled" -> Throttled(w)
         [] OTHER -> Retry(w)
    /\ UNCHANGED <<facts, copies, misses, stale>>

(* RecordSent: the receipt alone, in its own transaction.  When it cannot  *)
(* be written mail goes back on the ladder and a channel is parked against *)
(* the receipt.                                                            *)
RecordSent(w) ==
    /\ work[w].pc = "record"
    /\ LET d == On(w) IN
       \/ Close(w, [row[d] EXCEPT !.status = "sent", !.inflight = FALSE])
       \/ Skip(w)
       \/ /\ Slip(d)
          /\ IF DetectsPriorSend(d)
             THEN Fail(w)
             ELSE Goto(w, "parkSent") /\ UNCHANGED job
          /\ UNCHANGED row
    /\ UNCHANGED <<facts, copies, misses, stale>>

ParkTransmitted(w) ==
    /\ work[w].pc = "parkSent"
    /\ Park(w, "transmitted")
    /\ UNCHANGED <<facts, copies, misses, stale>>

-----------------------------------------------------------------------------
(* The world around the dispatcher. *)

(* A consent is withdrawn, a seat deactivated, a file archived, a grant    *)
(* revoked.                                                                *)
Withdraw(d) ==
    /\ facts[d].allowed
    /\ facts' = [facts EXCEPT ![d].allowed = FALSE]
    /\ UNCHANGED <<row, job, work, copies, misses, slips, stale>>

(* The delivery grows older than the maximum age.                          *)
Age(d) ==
    /\ Pending(d) /\ ~facts[d].aged
    /\ facts' = [facts EXCEPT ![d].aged = TRUE]
    /\ UNCHANGED <<row, job, work, copies, misses, slips, stale>>

(* privacy.redactDeliveries, redactDeliveryAddressing: an erasure closes   *)
(* the rows that are still pending and takes the reason of the others.     *)
Scrub(d) ==
    /\ row[d].status # "none"
    /\ row' = [row EXCEPT ![d].status = IF @ = "pending" THEN "parked" ELSE @,
                          ![d].reason = IF Pending(d) THEN "scrubbed" ELSE ""]
    /\ UNCHANGED <<job, work, facts, copies, misses, slips, stale>>

-----------------------------------------------------------------------------
Attempt(w) ==
    \/ Load(w) \/ Gates(w) \/ Pace(w) \/ Guard(w) \/ Send(w)
    \/ ClearInFlight(w) \/ Dispose(w) \/ RecordSent(w) \/ ParkTransmitted(w)

Next ==
    \/ \E d \in Delivery : \/ \E k \in Kind : Stage(d, k)
                           \/ Rescue(d) \/ Withdraw(d) \/ Age(d) \/ Scrub(d)
    \/ \E w \in Worker : \/ \E d \in Delivery : Fetch(w, d)
                         \/ Crash(w) \/ Attempt(w)

OutboundSpec == Init /\ [][Next]_vars

(* River keeps fetching available jobs, a running worker keeps going, the  *)
(* rescuer keeps collecting the jobs of dead workers, and time passes.     *)
RescueDead(d) == On(job[d].runner) # d /\ Rescue(d)

FairOutboundSpec ==
    /\ OutboundSpec
    /\ \A w \in Worker : WF_vars(Attempt(w))
    /\ \A d \in Delivery : /\ WF_vars(\E w \in Worker : Fetch(w, d))
                           /\ WF_vars(Age(d))
                           /\ WF_vars(job[d].state = "running" /\ RescueDead(d))
-----------------------------------------------------------------------------
OutboundTypeOK ==
    /\ row \in [Delivery -> [status : Status, reason : Reason, attempts : Nat,
                              inflight : BOOLEAN, kind : Kind]]
    /\ job \in [Delivery -> [state : {"none", "available", "running", "done",
                                       "discarded"},
                              attempt : Int, runner : Worker \cup {NoWorker}]]
    /\ work \in [Worker -> [pc : Step, d : Delivery \cup {NoDelivery},
                             att : Nat, seen : BOOLEAN, late : BOOLEAN,
                             err : Failure]]
    /\ facts \in [Delivery -> [allowed : BOOLEAN, aged : BOOLEAN]]
    /\ copies \in [Delivery -> Nat]
    /\ misses \in [Delivery -> Nat]
    /\ slips \in [Delivery -> Nat]
    /\ stale \in [Delivery -> Nat]

(* At most once, while no two attempts overlap: a channel accepts one copy *)
(* of a message, and mail that keeps its identity is sent once more only   *)
(* for each time the prior-send lookup missed a copy that was there.       *)
(* Crashes, failed receipts, lost answers, throttling and pacing never     *)
(* make one (Dispatcher.transmit, guardAtMostOnce, Store.Load, SendEmail). *)
OneCopy ==
    \A d \in Delivery : stale[d] = 0 =>
        /\ row[d].kind = "channel" => copies[d] <= 1
        /\ row[d].kind = "honours" => copies[d] <= 1 + misses[d]

(* The row tells the truth about the provider: 'sent' and a park against a *)
(* receipt only for a message the provider accepted, and a channel message *)
(* the provider accepted is never without a trace on its row, be it the    *)
(* receipt, the park against it or the marker (RecordSent,                 *)
(* ParkTransmitted, MarkInFlight, ClearInFlight).                          *)
RowAccountsForCopies ==
    \A d \in Delivery :
        LET accounted == row[d].status = "sent" \/ row[d].reason = "transmitted"
        IN  /\ accounted => copies[d] > 0
            /\ (row[d].kind = "channel" /\ copies[d] > 0 /\ stale[d] = 0)
               => accounted \/ row[d].inflight

(* Every attempt asks again: once a consent is withdrawn or a seat is      *)
(* closed, no attempt that starts later gets as far as the provider, on    *)
(* whichever rung it runs (DispatchWithWait, the gates).                   *)
WithdrawnStopsTheNextAttempt ==
    \A w \in Worker :
        work[w].late => work[w].pc \notin {"pace", "guard", "send", "record"}

(* The two ladders stay in step: for a pending row River never counts more *)
(* rungs than the row does, but for the ones a store fault, a worker's     *)
(* death or a rescue cost it.  This is what lets the exhaustion guard park *)
(* before the runner gives up: pacing restores both counters, throttling   *)
(* only River's (Load, RecordDeferral, postpone, sendMaxAttempts).         *)
LadderKeepsUp ==
    \A d \in Delivery :
        LET loading == {w \in Worker : On(w) = d /\ work[w].pc = "load"}
        IN  Pending(d) => job[d].attempt <= row[d].attempts + slips[d]
                                            + stale[d] + Cardinality(loading)

(* A closed row is never reopened or overwritten, whatever a stale attempt *)
(* still has to say about it; only an erasure may take its reason (the     *)
(* status = 'pending' guards).                                             *)
ClosedIsFinal ==
    [][\A d \in Delivery : row[d].status \in {"sent", "parked"} =>
            /\ row'[d].status = row[d].status
            /\ row'[d].reason \in {row[d].reason, ""}]_vars

(* Pacing, throttling, outages and refusals all end: every staged delivery *)
(* is sent or parked, unless its job was discarded under it (pace's        *)
(* maximum age, throttled, the exhaustion guard).                          *)
EveryDeliveryEnds ==
    \A d \in Delivery :
        Pending(d) ~> (~Pending(d) \/ job[d].state = "discarded")

(* No open row is forgotten: its job is alive, or it was discarded with the *)
(* ladder used up, every rung of it counted on the row or excused by a     *)
(* fault or a rescue (Spent, Load, the verdicts of Work).                  *)
OpenHasItsJob ==
    \A d \in Delivery :
        Pending(d) =>
            \/ job[d].state \in {"available", "running"}
            \/ /\ job[d].state = "discarded"
               /\ row[d].attempts + slips[d] + stale[d] >= MaxAttempts

(* dispatcher.go on NewDispatcher: "the dispatcher parks on the last rung  *)
(* rather than leaving a row the runner will never deliver again looking   *)
(* pending forever".                                                       *)
PendingHasARunner ==
    \A d \in Delivery : Pending(d) => job[d].state # "discarded"

(* store.go on RecordSent: "a message the provider accepted may never end  *)
(* up recorded as unsent".                                                 *)
AcceptedNeverRecordedUnsent ==
    \A d \in Delivery :
        row[d].status = "parked" /\ copies[d] > 0 =>
            row[d].reason \in {"unknown", "transmitted"}
=============================================================================
