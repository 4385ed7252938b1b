--------------------------- MODULE ScheduledSend ---------------------------
(***************************************************************************)
(* One message a rep chose to send later: its scheduled_send row, the      *)
(* River alarms that wake it, the inbox card a hold raises, and everybody  *)
(* who acts on them: the alarm worker, the recovery pass, reps on two      *)
(* surfaces (the message and the card) and a subject's erasure.            *)
(*                                                                         *)
(* A transaction that takes its locks on the row alone is one step.  A     *)
(* rep's answer locks the row and the card, in an order that depends on    *)
(* the surface it comes from, and is two steps with the lock held between  *)
(* them.  The message itself, its zone and the wording of a reason are     *)
(* left out; the gates and the sender's authority answer freely.           *)
(***************************************************************************)
EXTENDS Integers, FiniteSets

CONSTANTS Alarm,         \* slots for River jobs; a bound on alarms alive at once
          Rep,           \* sessions that answer for the message
          MaxAttempts,   \* scheduledSendMaxAttempts
          Grace,         \* how late the message may still go
          RecoveryGrace, \* how overdue it is when the recovery pass looks
          RetryDelay,    \* heldRetryDelay
          MaxTime,       \* bound: moments of the clock
          MaxVersion,    \* bound: writes of the row by reps
          MaxFaults      \* bound: faults and worker deaths

ASSUME ScheduleAssumption ==
    /\ MaxAttempts \in Nat \ {0}
    /\ RetryDelay \in Nat \ {0}
    /\ Grace \in Nat /\ RecoveryGrace \in Nat /\ RecoveryGrace < Grace
    /\ MaxTime \in Nat /\ MaxVersion \in Nat /\ MaxFaults \in Nat

VARIABLES
    row,      \* scheduled_send: status, at (scheduled_at), version
    alarm,    \* river_job: pc, due, attempt, and the version its attempt claimed
    card,     \* a held card is pending in the inbox
    rep,      \* what each session is in the middle of
    sweep,    \* the recovery pass has listed the message
    erased,   \* the erasure of an addressee: "no", "refused", "done"
    sent,     \* deliveries staged for this message
    gone,     \* the hold in force lost its card unanswered: the accepted effect
              \* did not happen, or an erasure took the card
    overruled,\* a hold stopped a choice newer than the attempt it is about
    clock,
    faults

vars == <<row, alarm, card, rep, sweep, erased, sent, gone, overruled, clock, faults>>

-----------------------------------------------------------------------------
Status == {"none", "scheduled", "released", "cancelled", "held"}
Time == 0..MaxTime

\* Moments that can be chosen: the recovery pass still gets to see them.
Moment == {t \in Time : t > clock /\ t + RecoveryGrace < MaxTime}

RowType == [status : Status, at : Time, version : Nat]

JobType ==
    [pc : {"free", "waiting", "fire", "refuse", "exhaust"}, due : Time,
     attempt : 0..MaxAttempts, seen : Nat, stale : BOOLEAN]

SessionType ==
    [pc : {"idle", "viewing", "moving", "cancelling", "rejecting", "accepted", "applying"},
     seen : Nat, at : Time, hold : Nat]

Free == [pc |-> "free", due |-> 0, attempt |-> 0, seen |-> 0, stale |-> FALSE]
Idle == [pc |-> "idle", seen |-> 0, at |-> 0, hold |-> 0]

Init ==
    /\ row = [status |-> "none", at |-> 0, version |-> 0]
    /\ alarm = [a \in Alarm |-> Free]
    /\ card = FALSE
    /\ rep = [r \in Rep |-> Idle]
    /\ sweep = FALSE
    /\ erased = "no"
    /\ sent = 0 /\ gone = FALSE /\ overruled = FALSE
    /\ clock = 0 /\ faults = 0

Waiting == row.status = "scheduled"
Answerable == row.status \in {"scheduled", "held"}

\* A rep's transaction that has updated the row holds it until it commits.
RowLocked == \E r \in Rep : rep[r].pc \in {"moving", "cancelling"}
CardLocked == \E r \in Rep : rep[r].pc = "rejecting"

\* Every write of the row moves its version.
Written(status) == [row EXCEPT !.status = status, !.version = @ + 1]

\* Slots are interchangeable: a job takes the first that is free.
FreeSlot(alarms) == CHOOSE a \in Alarm : alarms[a].pc = "free"

\* scheduleTimer.ScheduleTx.
Armed(due) == [Free EXCEPT !.pc = "waiting", !.due = due]
Arm(alarms, due) ==
    \E a \in Alarm : /\ alarms[a].pc = "free" /\ a = FreeSlot(alarms)
                     /\ alarm' = [alarms EXCEPT ![a] = Armed(due)]
HasSlot == \E a \in Alarm : alarm[a].pc = "free"

\* scheduleSend: the row and its alarm commit together.
Schedule(t) ==
    /\ row.status = "none"
    /\ t \in Moment
    /\ row' = [Written("scheduled") EXCEPT !.at = t]
    /\ Arm(alarm, t)
    /\ UNCHANGED <<card, rep, sweep, erased, sent, gone, overruled, clock, faults>>

-----------------------------------------------------------------------------
(* The alarm: scheduledSendWorker.Work. *)

Fault == faults < MaxFaults /\ faults' = faults + 1

\* What River and the worker make of a job.
Begun(j, pc) == [j EXCEPT !.pc = pc, !.due = 0, !.attempt = @ + 1]
Again(j) == [j EXCEPT !.pc = "waiting", !.due = clock, !.seen = 0, !.stale = FALSE]
Snoozed(j) == [j EXCEPT !.pc = "waiting", !.due = row.at, !.attempt = @ - 1]
Exhausted(j, seen) == [j EXCEPT !.pc = "exhaust", !.seen = seen]

\* An attempt that fails is retried, and the job is discarded with the last one.
AgainOrNever(j) == IF j.attempt < MaxAttempts THEN Again(j) ELSE Free

Failed(a) == alarm' = [alarm EXCEPT ![a] = AgainOrNever(alarm[a])]

Done(a) == alarm' = [alarm EXCEPT ![a] = Free]
At(a, pc) == alarm[a].pc = pc

\* Work up to the fire: the attempt is counted, scheduler reads a row that is
\* still waiting, and fireAs re-derives the sender's authority.
Wake(a) ==
    /\ At(a, "waiting") /\ alarm[a].due <= clock
    /\ \/ /\ ~Waiting
          /\ Done(a)
       \/ /\ Waiting
          /\ \E pc \in {"fire", "refuse"} :
               alarm' = [alarm EXCEPT ![a] = Begun(alarm[a], pc)]
    /\ UNCHANGED <<row, card, rep, sweep, erased, sent, gone, overruled, clock, faults>>

\* Neither read answers, or the worker dies: nothing holds the message here.
WakeFails(a) ==
    /\ At(a, "waiting") /\ alarm[a].due <= clock
    /\ Fault
    /\ alarm' = [alarm EXCEPT ![a] = AgainOrNever(Begun(alarm[a], "waiting"))]
    /\ UNCHANGED <<row, card, rep, sweep, erased, sent, gone, overruled, clock>>

\* holdInTx, notifyHeld: the hold and the card it raises are one commit.  A
\* held row is not written before it is answered, so its version names the hold.
Hold ==
    /\ row' = Written("held")
    /\ card' = TRUE

Refuse(a) ==
    /\ At(a, "refuse") /\ ~RowLocked
    /\ IF Waiting THEN Hold ELSE UNCHANGED <<row, card>>
    /\ Done(a)
    /\ UNCHANGED <<rep, sweep, erased, sent, gone, overruled, clock, faults>>

RefuseFails(a) ==
    /\ At(a, "refuse")
    /\ Fault
    /\ Failed(a)
    /\ UNCHANGED <<row, card, rep, sweep, erased, sent, gone, overruled, clock>>

Early == row.at > clock
Late == clock - row.at > Grace

\* The fire transaction that does not ask whether the message still waits.
Unclaimed == row.status # "none"

\* claimForFire.
Claimed == Waiting

Claims(a) == At(a, "fire") /\ ~RowLocked /\ Claimed

FireNothing(a) ==
    /\ At(a, "fire") /\ ~RowLocked /\ ~Claimed
    /\ Done(a)
    /\ UNCHANGED <<row, card, rep, sweep, erased, sent, gone, overruled, clock, faults>>

\* The moment moved later: River gives the attempt back.
FireSnoozes(a) ==
    /\ Claims(a) /\ Early
    /\ alarm' = [alarm EXCEPT ![a] = Snoozed(alarm[a])]
    /\ UNCHANGED <<row, card, rep, sweep, erased, sent, gone, overruled, clock, faults>>

\* The window was missed, or a gate of PrepareSend refuses.
FireHolds(a) ==
    /\ Claims(a) /\ ~Early
    /\ Hold
    /\ Done(a)
    /\ UNCHANGED <<rep, sweep, erased, sent, gone, overruled, clock, faults>>

\* SendPreparedTx and releaseInTx.
FireSends(a) ==
    /\ Claims(a) /\ ~Early /\ ~Late
    /\ row' = Written("released")
    /\ sent' = sent + 1
    /\ Done(a)
    /\ UNCHANGED <<card, rep, sweep, erased, gone, overruled, clock, faults>>

\* The transaction rolls back.  What it claimed survives it in "observed",
\* which is zero when it died before the claim.
FireFails(a) ==
    /\ At(a, "fire")
    /\ Fault
    /\ IF alarm[a].attempt < MaxAttempts
       THEN Failed(a)
       ELSE \E seen \in {0} \cup (IF ~RowLocked /\ Waiting THEN {row.version} ELSE {}) :
              alarm' = [alarm EXCEPT ![a] = Exhausted(alarm[a], seen)]
    /\ UNCHANGED <<row, card, rep, sweep, erased, sent, gone, overruled, clock>>

\* HoldScheduledSend(timer_exhausted) that takes "never claimed" for
\* UnobservedVersion.
SharesTheSentinel(a) == Waiting /\ alarm[a].seen \in {0, row.version}

\* HoldScheduledSend(timer_exhausted): only the row the attempt claimed.
SameRow(a) == Waiting /\ alarm[a].seen = row.version

Exhaust(a) ==
    /\ At(a, "exhaust") /\ ~RowLocked
    /\ IF SameRow(a)
       THEN Hold /\ overruled' = (overruled \/ alarm[a].stale)
       ELSE UNCHANGED <<row, card, overruled>>
    /\ Done(a)
    /\ UNCHANGED <<rep, sweep, erased, sent, gone, clock, faults>>

\* The last rung's own hold fails: the job is gone, the message still waits.
ExhaustFails(a) ==
    /\ At(a, "exhaust")
    /\ Fault
    /\ Done(a)
    /\ UNCHANGED <<row, card, rep, sweep, erased, sent, gone, overruled, clock>>

-----------------------------------------------------------------------------
(* The recovery pass: scheduledSendRecoveryWorker.Work. *)

\* OverdueScheduledSends.
ListOverdue ==
    /\ ~sweep
    /\ Waiting /\ clock - row.at > RecoveryGrace
    /\ sweep' = TRUE
    /\ UNCHANGED <<row, alarm, card, rep, erased, sent, gone, overruled, clock, faults>>

\* A pass that arms the moment the row still holds only when it is to come.
RearmsTheFuture ==
    /\ sweep /\ ~RowLocked
    /\ sweep' = FALSE
    /\ IF Waiting /\ Early THEN Arm(alarm, row.at) ELSE UNCHANGED alarm
    /\ UNCHANGED <<row, card, rep, erased, sent, gone, overruled, clock, faults>>

\* RearmScheduledSend: claims what still waits, whatever its moment is by now.
Rearm ==
    /\ sweep /\ ~RowLocked
    /\ sweep' = FALSE
    /\ IF Waiting THEN Arm(alarm, clock) ELSE UNCHANGED alarm
    /\ UNCHANGED <<row, card, rep, erased, sent, gone, overruled, clock, faults>>

\* One rearm fails; the pass goes on and the next one lists the message again.
RearmFails ==
    /\ sweep /\ Fault
    /\ sweep' = FALSE
    /\ UNCHANGED <<row, alarm, card, rep, erased, sent, gone, overruled, clock>>

-----------------------------------------------------------------------------
(* The reps. *)

In(r, pc) == rep[r].pc = pc
Becomes(r, s) == rep' = [rep EXCEPT ![r] = s]

\* A surface shows the message, with the version a move will be bound to.
View(r) ==
    /\ In(r, "idle") /\ Answerable
    /\ Becomes(r, [Idle EXCEPT !.pc = "viewing", !.seen = row.version])
    /\ UNCHANGED <<row, alarm, card, sweep, erased, sent, gone, overruled, clock, faults>>

\* RescheduleInTx's update, for the version the caller saw; anything else is
\* ErrVersionSkew.
Moving(s, t) == [s EXCEPT !.pc = "moving", !.at = t]
Matches(r) == Answerable /\ row.version = rep[r].seen

Reschedule(r, t) ==
    /\ In(r, "viewing") /\ ~RowLocked
    /\ row.version < MaxVersion /\ HasSlot
    /\ t \in Moment
    /\ Becomes(r, IF Matches(r) THEN Moving(rep[r], t) ELSE Idle)
    /\ UNCHANGED <<row, alarm, card, sweep, erased, sent, gone, overruled, clock, faults>>

\* CancelInTx's update.
Cancel(r) ==
    /\ In(r, "viewing") /\ ~RowLocked
    /\ Becomes(r, IF Answerable THEN [Idle EXCEPT !.pc = "cancelling"] ELSE Idle)
    /\ UNCHANGED <<row, alarm, card, sweep, erased, sent, gone, overruled, clock, faults>>

\* An attempt that has failed is about an older choice now.
Outdated(j) == [j EXCEPT !.stale = @ \/ j.pc = "exhaust"]

\* The rest of RescheduleInTx: the card is withdrawn with the answer, a fresh
\* alarm is armed.
CommitMove(r) ==
    /\ In(r, "moving") /\ ~(card /\ CardLocked)
    /\ row' = [Written("scheduled") EXCEPT !.at = rep[r].at]
    /\ card' = FALSE /\ gone' = FALSE
    /\ Arm([a \in Alarm |-> Outdated(alarm[a])], rep[r].at)
    /\ Becomes(r, Idle)
    /\ UNCHANGED <<sweep, erased, sent, overruled, clock, faults>>

\* A cancel that forgets the card.
KeepsTheCard == card

\* resolveHeld.
Resolved == FALSE

CommitCancel(r) ==
    /\ In(r, "cancelling") /\ ~(card /\ CardLocked)
    /\ row' = Written("cancelled")
    /\ card' = Resolved /\ gone' = FALSE
    /\ Becomes(r, Idle)
    /\ UNCHANGED <<alarm, sweep, erased, sent, overruled, clock, faults>>

\* decideInTx locks the card; heldDeclineEffect then cancels the message in
\* the same transaction, and takes the rejection down with it when it cannot.
Reject(r) ==
    /\ In(r, "idle") /\ card /\ ~CardLocked
    /\ Becomes(r, [Idle EXCEPT !.pc = "rejecting"])
    /\ UNCHANGED <<row, alarm, card, sweep, erased, sent, gone, overruled, clock, faults>>

CommitReject(r) ==
    /\ In(r, "rejecting") /\ ~RowLocked
    /\ IF Answerable
       THEN row' = Written("cancelled") /\ card' = FALSE /\ gone' = FALSE
       ELSE UNCHANGED <<row, card, gone>>
    /\ Becomes(r, Idle)
    /\ UNCHANGED <<alarm, sweep, erased, sent, overruled, clock, faults>>

\* Approving commits first; heldAcceptEffect runs after it.
Accept(r) ==
    /\ In(r, "idle") /\ card /\ ~CardLocked
    /\ row.version < MaxVersion
    /\ card' = FALSE
    /\ Becomes(r, [Idle EXCEPT !.pc = "accepted", !.hold = row.version])
    /\ UNCHANGED <<row, alarm, sweep, erased, sent, gone, overruled, clock, faults>>

\* The answer to a card that is gone did not come about.
Lose(r) == gone' = (gone \/ rep[r].hold = row.version)

\* The effect reads the row for its version ...
ReadForEffect(r) ==
    /\ In(r, "accepted")
    /\ Becomes(r, [rep[r] EXCEPT !.pc = "applying", !.seen = row.version])
    /\ UNCHANGED <<row, alarm, card, sweep, erased, sent, gone, overruled, clock, faults>>

\* ... and RedeemAndApply moves the message shortly ahead, or fails.
Apply(r) ==
    /\ In(r, "applying") /\ ~RowLocked
    /\ IF Matches(r)
       THEN /\ clock + RetryDelay \in Moment /\ HasSlot
            /\ Becomes(r, Moving(rep[r], clock + RetryDelay))
            /\ UNCHANGED gone
       ELSE Becomes(r, Idle) /\ Lose(r)
    /\ UNCHANGED <<row, alarm, card, sweep, erased, sent, overruled, clock, faults>>

\* The process dies or the effect faults after the approval was committed.
EffectFails(r) ==
    /\ rep[r].pc \in {"accepted", "applying"}
    /\ Fault
    /\ Lose(r)
    /\ Becomes(r, Idle)
    /\ UNCHANGED <<row, alarm, card, sweep, erased, sent, overruled, clock>>

\* One answer holds the row and wants the card, the other holds the card and
\* wants the row: PostgreSQL aborts either.
Deadlocked(r, q) ==
    rep[r].pc \in {"moving", "cancelling"} /\ card /\ rep[q].pc = "rejecting"

DeadlockAborts(r, q) ==
    /\ Deadlocked(r, q)
    /\ \/ Becomes(r, Idle) /\ Lose(r)
       \/ Becomes(q, Idle) /\ UNCHANGED gone
    /\ UNCHANGED <<row, alarm, card, sweep, erased, sent, overruled, clock, faults>>

-----------------------------------------------------------------------------
\* An erasure that empties the payload and leaves the alarm a live row.
EraseKeepsStatus == row.status

\* redactScheduledSends empties the row and stops a waiting one, which has no
\* card.  It clears held_reason too, and the scheduled_send_held_shape CHECK
\* refuses a held row without a reason, and the whole erasure with it.
ErasedStatus == IF Waiting THEN "cancelled" ELSE row.status

Erase ==
    /\ row.status # "none" /\ erased # "done" /\ ~RowLocked
    /\ IF row.status = "held"
       THEN erased' = "refused" /\ UNCHANGED row
       ELSE /\ erased' = "done"
            /\ row' = Written(ErasedStatus)
    /\ UNCHANGED <<alarm, card, rep, sweep, sent, gone, overruled, clock, faults>>

\* redactStagedApprovals: a card whose summary or payload contains an address of
\* the subject is withdrawn.  It quotes the message's subject line, and the row
\* stays as it is unless the message is addressed to them.
EraseNamed ==
    /\ card /\ ~CardLocked
    /\ card' = FALSE
    /\ gone' = TRUE
    /\ UNCHANGED <<row, alarm, rep, sweep, erased, sent, overruled, clock, faults>>

Tick ==
    /\ clock < MaxTime
    /\ clock' = clock + 1
    /\ UNCHANGED <<row, alarm, card, rep, sweep, erased, sent, gone, overruled, faults>>

-----------------------------------------------------------------------------
AlarmStep(a) ==
    Wake(a) \/ Refuse(a) \/ FireNothing(a) \/ FireSnoozes(a) \/ FireHolds(a)
    \/ FireSends(a) \/ Exhaust(a)
AlarmFault(a) == WakeFails(a) \/ RefuseFails(a) \/ FireFails(a) \/ ExhaustFails(a)

\* What a transaction or an effect in progress does next.
AnswerStep(r) ==
    CommitMove(r) \/ CommitCancel(r) \/ CommitReject(r) \/ ReadForEffect(r) \/ Apply(r)
    \/ \E q \in Rep : DeadlockAborts(r, q) \/ DeadlockAborts(q, r)

ScheduleNext ==
    \/ \E t \in Time : Schedule(t)
    \/ \E a \in Alarm : AlarmStep(a) \/ AlarmFault(a)
    \/ ListOverdue \/ Rearm \/ RearmFails
    \/ \E r \in Rep : \/ View(r) \/ Cancel(r) \/ Reject(r) \/ Accept(r)
                      \/ AnswerStep(r) \/ EffectFails(r)
                      \/ \E t \in Time : Reschedule(r, t)
    \/ Erase \/ EraseNamed
    \/ Tick

ScheduleSpec == Init /\ [][ScheduleNext]_vars

\* Time passes, River runs its jobs, the recovery pass keeps coming and a
\* transaction in progress ends.  No rep has to act and no fault has to happen.
ScheduleFairness ==
    /\ WF_vars(Tick)
    /\ \A a \in Alarm : WF_vars(AlarmStep(a))
    /\ WF_vars(ListOverdue) /\ WF_vars(Rearm)
    /\ \A r \in Rep : WF_vars(AnswerStep(r))

FairScheduleSpec == ScheduleSpec /\ ScheduleFairness

-----------------------------------------------------------------------------
(* Properties. *)

\* Types, and no job has been attempted more often than River allows
\* (scheduledSendMaxAttempts).
ScheduleTypeOK ==
    /\ row \in RowType
    /\ alarm \in [Alarm -> JobType]
    /\ rep \in [Rep -> SessionType]
    /\ card \in BOOLEAN /\ sweep \in BOOLEAN /\ overruled \in BOOLEAN
    /\ erased \in {"no", "refused", "done"}
    /\ sent \in Nat /\ gone \in BOOLEAN /\ clock \in Time /\ faults \in Nat

\* "Two timers waking for the same message produce one send": however many
\* alarms the moves and the recovery pass arm, the message is staged once, and
\* exactly the released row was (FireScheduledSend).
OneRelease == sent = IF row.status = "released" THEN 1 ELSE 0

\* A pending card is about a held message, and a held message has somebody to
\* answer it: its card, or an acceptance of this very hold under way.  Only a
\* hold whose accepted effect was lost or whose card an erasure took has nobody,
\* and that ends with the hold: the next one asks again (holdInTx, resolveHeld,
\* heldDeclineEffect, redactStagedApprovals).
CardMeetsHold ==
    /\ card \/ gone => row.status = "held"
    /\ row.status = "held" => card \/ gone \/ \E r \in Rep : rep[r].hold = row.version
    /\ ~(card /\ gone)

\* "A rep who rescheduled in between is not held under a decision made about
\* the older intention": the exhausted ladder holds only the choice it tried
\* (HoldScheduledSend).
NewerChoiceStands == ~overruled

\* A message goes out only at the moment its row says, within the grace, and
\* never once an erasure has answered its addressee, whichever alarm rings
\* (FireScheduledSend, redactScheduledSends).
GoesOnlyAsItStands ==
    [][sent' # sent =>
         /\ row.at <= clock /\ clock <= row.at + Grace
         /\ erased # "done"]_vars

\* Every waiting message is sent, held or cancelled in the end, whatever
\* alarms are lost: "a message nobody will ever see fail" does not exist
\* (scheduledSendRecoveryWorker, the last rung of Work).
NothingWaitsForEver == Waiting ~> ~Waiting

\* "Cancelled and held rows are worse": an erasure reaches the message in
\* every state it can be in (redactScheduledSends).
ErasureIsHonoured == erased # "refused"

\* "A failed move leaves the card unconsumed and retryable": a held message
\* always asks somebody (heldAcceptEffect).
HeldStillAsks ==
    row.status = "held" => card \/ \E r \in Rep : rep[r].hold = row.version

=============================================================================
