-------------------------- MODULE ScheduledProofs --------------------------
(***************************************************************************)
(* What a scheduled message never does, for any number of alarms, reps,    *)
(* attempts and moments: go out twice or as it no longer stands, lose the  *)
(* card of a hold but to an erasure or a lost effect, or be held for a     *)
(* choice its rep has replaced.                                            *)
(***************************************************************************)
EXTENDS ScheduledSend, TLAPS

\* A job as River and the worker leave it, beside a row of this version.  One
\* that waits has an attempt left, one that is worked has begun one; what it
\* remembers of the row is not ahead of it, and a choice that was replaced
\* since is behind it.
JobOK(j, version) ==
    /\ j \in JobType
    /\ j.pc = "waiting" => j.attempt < MaxAttempts
    /\ j.pc \in {"fire", "refuse", "exhaust"} => j.attempt > 0
    /\ j.seen <= version
    /\ j.stale => j.pc = "exhaust" /\ j.seen < version

JobsOK == alarm \in [Alarm -> JobType] /\ \A a \in Alarm : JobOK(alarm[a], row.version)

\* A session: the accepted hold is remembered until its effect has ended.
SessionOK(s) ==
    /\ s \in SessionType
    /\ s.hold > 0 => s.pc \in {"accepted", "applying", "moving"}
    /\ s.pc \in {"accepted", "applying"} => s.hold > 0

SessionsOK == rep \in [Rep -> SessionType] /\ \A r \in Rep : SessionOK(rep[r])

HoldsRow(r) == rep[r].pc \in {"moving", "cancelling"}

\* The row lock: one holder, and the row stays as the holder found it.
OneHolder ==
    \A r \in Rep : HoldsRow(r) => Answerable /\ \A q \in Rep : HoldsRow(q) => q = r

\* An accepted hold is one the row has had, and while it is the row's own the
\* card it was accepted at is gone.
AcceptedOnce ==
    /\ row.status # "none" => row.version > 0
    /\ \A r \in Rep : /\ rep[r].hold <= row.version
                      /\ rep[r].hold > 0 /\ rep[r].hold = row.version =>
                           row.status = "held" /\ ~card

\* An erased message is at rest.
ErasedRests == erased = "done" => row.status \in {"released", "cancelled"}

Numbers == clock \in Time /\ sent \in Nat

\* The inductive invariant.
ScheduleInv ==
    /\ row \in RowType
    /\ Numbers
    /\ JobsOK
    /\ SessionsOK
    /\ OneHolder
    /\ AcceptedOnce
    /\ ErasedRests
    /\ OneRelease
    /\ CardMeetsHold
    /\ NewerChoiceStands

-----------------------------------------------------------------------------
(* Jobs and sessions, one update at a time. *)

\* An empty slot and a fresh alarm.
LEMMA FreshJobs ==
    ASSUME NEW v \in Nat, NEW due \in Time
    PROVE  JobOK(Free, v) /\ JobOK(Armed(due), v)
<1>1. /\ Free \in JobType /\ Free.pc = "free" /\ Free.attempt = 0
      /\ Free.seen = 0 /\ Free.stale = FALSE
  BY ScheduleAssumption DEF Free, JobType, Time
<1>2. /\ Armed(due) \in JobType /\ Armed(due).pc = "waiting" /\ Armed(due).attempt = 0
      /\ Armed(due).seen = 0 /\ Armed(due).stale = FALSE
  BY <1>1, ScheduleAssumption DEF Armed, JobType
<1> QED
  BY <1>1, <1>2, ScheduleAssumption DEF JobOK

\* A later row leaves a job as it is.
LEMMA JobsAge ==
    ASSUME NEW v \in Nat, NEW w \in Nat, v <= w, NEW j, JobOK(j, v)
    PROVE  JobOK(j, w)
<1>1. j.seen \in Nat
  BY DEF JobOK, JobType
<1> QED
  BY <1>1 DEF JobOK

\* Wake begins an attempt, of a kind that has still to end or of none.
LEMMA BegunJob ==
    ASSUME NEW v \in Nat, NEW j, JobOK(j, v), j.pc = "waiting", NEW pc \in {"fire", "refuse"}
    PROVE  JobOK(Begun(j, pc), v)
<1>1. j \in JobType /\ j.attempt < MaxAttempts /\ j.seen <= v /\ ~j.stale
  BY DEF JobOK
<1>2. j.attempt + 1 \in 0..MaxAttempts /\ j.attempt + 1 > 0 /\ 0 \in Time
  BY <1>1, ScheduleAssumption DEF JobType, Time
<1>3. /\ Begun(j, pc).pc = pc /\ Begun(j, pc).attempt = j.attempt + 1
      /\ Begun(j, pc).seen = j.seen /\ Begun(j, pc).stale = j.stale
      /\ Begun(j, pc) \in JobType
  BY <1>1, <1>2 DEF JobType, Begun
<1> QED
  BY <1>1, <1>2, <1>3 DEF JobOK

\* River retries a failed attempt, as long as one is left.
LEMMA RetriedJob ==
    ASSUME NEW v \in Nat, NEW j \in JobType, clock \in Time
    PROVE  JobOK(AgainOrNever(j), v)
<1>1. CASE j.attempt < MaxAttempts
  <2>1. /\ Again(j).pc = "waiting" /\ Again(j).attempt = j.attempt
        /\ Again(j).seen = 0 /\ Again(j).stale = FALSE /\ Again(j) \in JobType
    BY DEF JobType, Again
  <2> QED
    BY <1>1, <2>1 DEF JobOK, AgainOrNever
<1>2. CASE ~(j.attempt < MaxAttempts)
  BY <1>2, FreshJobs DEF AgainOrNever
<1> QED
  BY <1>1, <1>2

\* A snoozed attempt is given back.
LEMMA SnoozedJob ==
    ASSUME NEW v \in Nat, NEW j, JobOK(j, v), j.pc = "fire", row.at \in Time
    PROVE  JobOK(Snoozed(j), v)
<1>1. j \in JobType /\ j.attempt > 0 /\ j.seen <= v /\ ~j.stale
  BY DEF JobOK
<1>2. j.attempt - 1 \in 0..MaxAttempts /\ j.attempt - 1 < MaxAttempts
  BY <1>1, ScheduleAssumption DEF JobType
<1>3. /\ Snoozed(j).pc = "waiting" /\ Snoozed(j).attempt = j.attempt - 1
      /\ Snoozed(j).seen = j.seen /\ Snoozed(j).stale = j.stale /\ Snoozed(j) \in JobType
  BY <1>1, <1>2 DEF JobType, Snoozed
<1> QED
  BY <1>1, <1>2, <1>3 DEF JobOK

\* The last attempt remembers what it claimed.
LEMMA ExhaustedJob ==
    ASSUME NEW v \in Nat, NEW j, JobOK(j, v), j.pc = "fire", NEW seen \in Nat, seen <= v
    PROVE  JobOK(Exhausted(j, seen), v)
<1>1. j \in JobType /\ j.attempt > 0 /\ ~j.stale
  BY DEF JobOK
<1>2. /\ Exhausted(j, seen).pc = "exhaust" /\ Exhausted(j, seen).attempt = j.attempt
      /\ Exhausted(j, seen).seen = seen /\ Exhausted(j, seen).stale = j.stale
      /\ Exhausted(j, seen) \in JobType
  BY <1>1 DEF JobType, Exhausted
<1> QED
  BY <1>1, <1>2 DEF JobOK

\* A move makes an exhausted attempt stale, and the row is past it.
LEMMA OutdatedJob ==
    ASSUME NEW v \in Nat, NEW j, JobOK(j, v)
    PROVE  JobOK(Outdated(j), v + 1)
<1>1. j \in JobType /\ j.seen \in Nat
  BY DEF JobOK, JobType
<1>2. /\ Outdated(j).pc = j.pc /\ Outdated(j).attempt = j.attempt /\ Outdated(j).seen = j.seen
      /\ (Outdated(j).stale <=> j.stale \/ j.pc = "exhaust") /\ Outdated(j) \in JobType
  BY <1>1 DEF JobType, Outdated
<1> QED
  BY <1>1, <1>2 DEF JobOK

\* One job changes beside a row that did not go back.
LEMMA OneJobChanges ==
    ASSUME JobsOK, NEW a \in Alarm, row.version \in Nat, row'.version \in Nat,
           row.version <= row'.version,
           NEW j, JobOK(j, row'.version), alarm' = [alarm EXCEPT ![a] = j]
    PROVE  JobsOK'
<1>1. j \in JobType
  BY DEF JobOK
<1>2. alarm' \in [Alarm -> JobType]
  BY <1>1 DEF JobsOK
<1>3. ASSUME NEW b \in Alarm PROVE JobOK(alarm'[b], row'.version)
  <2>1. CASE b = a
    BY <2>1 DEF JobsOK
  <2>2. CASE b # a
    BY <2>2, JobsAge DEF JobsOK
  <2> QED
    BY <2>1, <2>2
<1> QED
  BY <1>2, <1>3 DEF JobsOK

\* No job changes beside a row that did not go back.
LEMMA NoJobChanges ==
    ASSUME JobsOK, row.version \in Nat, row'.version \in Nat, row.version <= row'.version,
           alarm' = alarm
    PROVE  JobsOK'
  BY JobsAge DEF JobsOK

\* The session that does nothing.
LEMMA IdleSession == SessionOK(Idle) /\ Idle.pc = "idle" /\ Idle.hold = 0
<1>1. Idle \in SessionType /\ Idle.pc = "idle" /\ Idle.hold = 0
  BY ScheduleAssumption DEF Idle, SessionType, Time
<1> QED
  BY <1>1 DEF SessionOK

\* A session that begins to do something other than answer a card with yes.
LEMMA BusySession ==
    /\ \A n \in Nat : LET s == [Idle EXCEPT !.pc = "viewing", !.seen = n]
                      IN  SessionOK(s) /\ s.pc = "viewing" /\ s.hold = 0
    /\ \A pc \in {"cancelling", "rejecting"} :
          LET s == [Idle EXCEPT !.pc = pc] IN SessionOK(s) /\ s.pc = pc /\ s.hold = 0
<1>1. Idle \in SessionType /\ Idle.hold = 0
  BY IdleSession DEF SessionOK
<1>2. ASSUME NEW n \in Nat
      PROVE  LET s == [Idle EXCEPT !.pc = "viewing", !.seen = n]
             IN  SessionOK(s) /\ s.pc = "viewing" /\ s.hold = 0
  <2>1. LET s == [Idle EXCEPT !.pc = "viewing", !.seen = n]
        IN  s \in SessionType /\ s.pc = "viewing" /\ s.hold = 0
    BY <1>1 DEF SessionType
  <2> QED
    BY <2>1 DEF SessionOK
<1>3. ASSUME NEW pc \in {"cancelling", "rejecting"}
      PROVE  LET s == [Idle EXCEPT !.pc = pc] IN SessionOK(s) /\ s.pc = pc /\ s.hold = 0
  <2>1. LET s == [Idle EXCEPT !.pc = pc] IN s \in SessionType /\ s.pc = pc /\ s.hold = 0
    BY <1>1 DEF SessionType
  <2> QED
    BY <2>1 DEF SessionOK
<1> QED
  BY <1>2, <1>3

\* A session that accepts the hold a card asks about.
LEMMA AcceptedSession ==
    ASSUME NEW n \in Nat, n > 0
    PROVE  LET s == [Idle EXCEPT !.pc = "accepted", !.hold = n]
           IN  SessionOK(s) /\ s.pc = "accepted" /\ s.hold = n
<1>1. Idle \in SessionType
  BY IdleSession DEF SessionOK
<1>2. LET s == [Idle EXCEPT !.pc = "accepted", !.hold = n]
      IN  s \in SessionType /\ s.pc = "accepted" /\ s.hold = n
  BY <1>1 DEF SessionType
<1> QED
  BY <1>2 DEF SessionOK

\* A session that begins to move the message.
LEMMA MovingSession ==
    ASSUME NEW s, SessionOK(s), NEW t \in Time
    PROVE  SessionOK(Moving(s, t)) /\ Moving(s, t).pc = "moving" /\ Moving(s, t).hold = s.hold
<1>1. /\ Moving(s, t) \in SessionType /\ Moving(s, t).pc = "moving"
      /\ Moving(s, t).hold = s.hold
  BY DEF SessionOK, SessionType, Moving
<1> QED
  BY <1>1 DEF SessionOK

\* An effect that reads the message.
LEMMA ReadingSession ==
    ASSUME NEW s, SessionOK(s), s.pc = "accepted", NEW n \in Nat
    PROVE  LET m == [s EXCEPT !.pc = "applying", !.seen = n]
           IN  SessionOK(m) /\ m.pc = "applying" /\ m.hold = s.hold
<1>1. LET m == [s EXCEPT !.pc = "applying", !.seen = n]
      IN  m \in SessionType /\ m.pc = "applying" /\ m.hold = s.hold
  BY DEF SessionOK, SessionType
<1> QED
  BY <1>1 DEF SessionOK

\* One session changes.
LEMMA OneSessionChanges ==
    ASSUME SessionsOK, NEW r \in Rep, NEW s, SessionOK(s), rep' = [rep EXCEPT ![r] = s]
    PROVE  /\ SessionsOK'
           /\ rep'[r] = s
           /\ \A q \in Rep : q # r => rep'[q] = rep[q]
<1>1. s \in SessionType
  BY DEF SessionOK
<1> QED
  BY <1>1 DEF SessionsOK

-----------------------------------------------------------------------------
(* The parts of the invariant that relate the row to who acts on it. *)

Related ==
    OneHolder /\ AcceptedOnce /\ ErasedRests /\ OneRelease /\ CardMeetsHold /\ NewerChoiceStands

\* A write of the row leaves every accepted hold behind it.
LEMMA WritesOutdateHolds ==
    ASSUME AcceptedOnce, row \in RowType, row'.version = row.version + 1,
           SessionsOK, \A r \in Rep : rep'[r].hold = rep[r].hold \/ rep'[r].hold = 0
    PROVE  AcceptedOnce'
<1>1. row.version \in Nat
  BY DEF RowType
<1>2. \A r \in Rep : rep[r].hold \in Nat /\ rep[r].hold <= row.version
  BY DEF AcceptedOnce, SessionsOK, SessionOK, SessionType
<1>3. \A r \in Rep : rep'[r].hold < row'.version
  BY <1>1, <1>2
<1>4. \A r \in Rep : rep'[r].hold \in Nat
  BY <1>2
<1> QED
  BY <1>1, <1>3, <1>4 DEF AcceptedOnce

\* A write of the row's status.
LEMMA RowWritten ==
    ASSUME row \in RowType, NEW status \in Status
    PROVE  /\ Written(status) \in RowType /\ Written(status).status = status
           /\ row.version \in Nat /\ Written(status).version = row.version + 1
           /\ Written(status).version \in Nat /\ row.version <= Written(status).version
           /\ Written(status).at = row.at
<1>1. row.version \in Nat /\ row.version + 1 \in Nat
  BY DEF RowType
<1>2. /\ Written(status).status = status /\ Written(status).version = row.version + 1
      /\ Written(status).at = row.at /\ Written(status) \in RowType
  BY <1>1 DEF RowType, Written
<1> QED
  BY <1>1, <1>2

\* A write that schedules the message for another moment.
LEMMA RowMoved ==
    ASSUME row \in RowType, NEW t \in Time, row' = [Written("scheduled") EXCEPT !.at = t]
    PROVE  /\ row' \in RowType /\ row'.status = "scheduled"
           /\ row.version \in Nat /\ row'.version = row.version + 1
           /\ row'.version \in Nat /\ row.version <= row'.version
<1>1. "scheduled" \in Status
  BY DEF Status
<1>2. /\ Written("scheduled") \in RowType /\ Written("scheduled").status = "scheduled"
      /\ row.version \in Nat /\ Written("scheduled").version = row.version + 1
  BY <1>1, RowWritten
<1>3. row' \in RowType /\ row'.status = "scheduled" /\ row'.version = row.version + 1
  BY <1>2 DEF RowType
<1> QED
  BY <1>2, <1>3

\* A step that touches jobs, the sweep, the clock and the faults alone.
LEMMA NothingRelatedChanges ==
    ASSUME Related, UNCHANGED <<row, card, rep, erased, sent, gone, overruled>>
    PROVE  Related'
  BY DEF Related, OneHolder, HoldsRow, Answerable, AcceptedOnce, ErasedRests, OneRelease,
         CardMeetsHold, NewerChoiceStands

\* The hold and its card, for a waiting row nobody has locked (holdInTx).
LEMMA HoldKeepsRelated ==
    ASSUME ScheduleInv, Waiting, ~RowLocked, Hold, UNCHANGED <<rep, erased, sent, gone>>,
           NewerChoiceStands'
    PROVE  /\ row' \in RowType /\ row.version \in Nat /\ row'.version \in Nat
           /\ row.version <= row'.version
           /\ Related'
<1>1. "held" \in Status
  BY DEF Status
<1>2. /\ row' \in RowType /\ row'.status = "held" /\ row.version \in Nat
      /\ row'.version \in Nat /\ row.version <= row'.version
      /\ row'.version = row.version + 1
  BY <1>1, RowWritten DEF ScheduleInv, Hold
<1>3. \A r \in Rep : ~HoldsRow(r)
  BY DEF RowLocked, HoldsRow
<1>4. OneHolder'
  BY <1>3 DEF OneHolder, HoldsRow
<1>5. ErasedRests' /\ OneRelease' /\ CardMeetsHold'
  BY <1>2 DEF ScheduleInv, Waiting, Hold, ErasedRests, OneRelease, CardMeetsHold
<1>6. AcceptedOnce'
  BY <1>2, WritesOutdateHolds DEF ScheduleInv
<1> QED
  BY <1>2, <1>4, <1>5, <1>6 DEF Related

\* The invariant, from its parts.
LEMMA Assemble ==
    ASSUME row' \in RowType, Numbers', JobsOK', SessionsOK', Related'
    PROVE  ScheduleInv'
  BY DEF ScheduleInv, Related

-----------------------------------------------------------------------------
(* The steps. *)

\* A job ends, or its failed attempt is retried.
LEMMA DoneKeepsJobs ==
    ASSUME JobsOK, NEW a \in Alarm, row.version \in Nat, row'.version \in Nat,
           row.version <= row'.version, Done(a)
    PROVE  JobsOK'
<1>1. JobOK(Free, row'.version)
  BY FreshJobs, ScheduleAssumption DEF Time
<1> QED
  BY <1>1, OneJobChanges DEF Done

\* What each job remembers stays true when an attempt fails and its ladder goes on.
LEMMA FailedKeepsJobs ==
    ASSUME JobsOK, NEW a \in Alarm, row.version \in Nat, row' = row, clock \in Time, Failed(a)
    PROVE  JobsOK'
<1>1. alarm[a] \in JobType
  BY DEF JobsOK
<1>2. JobOK(AgainOrNever(alarm[a]), row.version)
  BY <1>1, RetriedJob
<1>3. row.version <= row'.version /\ row'.version \in Nat
  OBVIOUS
<1>4. JobOK(AgainOrNever(alarm[a]), row'.version)
  BY <1>2
<1> QED
  BY <1>3, <1>4, OneJobChanges DEF Failed

\* One job changes and nothing else does.
LEMMA OnlyAJobChanges ==
    ASSUME ScheduleInv, NEW a \in Alarm, NEW j, JobOK(j, row.version),
           alarm' = [alarm EXCEPT ![a] = j],
           UNCHANGED <<row, card, rep, erased, sent, gone, overruled, clock>>
    PROVE  ScheduleInv'
<1>1. JobsOK /\ row.version \in Nat /\ Related /\ SessionsOK /\ Numbers /\ row \in RowType
  BY DEF ScheduleInv, Related, RowType
<1>2. row.version <= row'.version /\ row'.version \in Nat /\ JobOK(j, row'.version)
  BY <1>1
<1>3. JobsOK'
  BY <1>1, <1>2, OneJobChanges
<1> QED
  BY <1>1, <1>3, NothingRelatedChanges, Assemble DEF Numbers, SessionsOK

\* The alarm worker (scheduledSendWorker.Work).
LEMMA AlarmsKeep ==
    ASSUME ScheduleInv, NEW a \in Alarm, AlarmStep(a) \/ AlarmFault(a)
    PROVE  ScheduleInv'
<1>1. /\ row \in RowType /\ row.version \in Nat /\ clock \in Time /\ row.at \in Time
      /\ JobsOK /\ SessionsOK /\ Related /\ JobOK(alarm[a], row.version) /\ Numbers
  BY DEF ScheduleInv, RowType, Numbers, Related, JobsOK
<1>2. ASSUME UNCHANGED <<row, card, rep, erased, sent, gone, overruled, clock>>, JobsOK'
      PROVE  ScheduleInv'
  BY <1>1, <1>2, NothingRelatedChanges, Assemble DEF Numbers, SessionsOK
<1>3. ASSUME Waiting, ~RowLocked, Hold, Done(a),
             UNCHANGED <<rep, erased, sent, gone, clock>>, NewerChoiceStands'
      PROVE  ScheduleInv'
  <2>1. /\ row' \in RowType /\ row.version \in Nat /\ row'.version \in Nat
        /\ row.version <= row'.version /\ Related'
    BY <1>3, HoldKeepsRelated
  <2>2. JobsOK'
    BY <1>1, <1>3, <2>1, DoneKeepsJobs
  <2> QED
    BY <1>1, <1>3, <2>1, <2>2, Assemble DEF Numbers, SessionsOK
<1>4. CASE Wake(a)
  <2>1. CASE Done(a)
    BY <1>1, <1>2, <1>4, <2>1, DoneKeepsJobs DEF Wake
  <2>2. CASE \E pc \in {"fire", "refuse"} : alarm' = [alarm EXCEPT ![a] = Begun(alarm[a], pc)]
    <3>1. PICK pc \in {"fire", "refuse"} : alarm' = [alarm EXCEPT ![a] = Begun(alarm[a], pc)]
      BY <2>2
    <3>2. JobOK(Begun(alarm[a], pc), row.version)
      BY <1>1, <1>4, BegunJob DEF Wake, At
    <3> QED
      BY <1>4, <3>1, <3>2, OnlyAJobChanges DEF Wake
  <2> QED
    BY <1>4, <2>1, <2>2 DEF Wake
<1>5. CASE WakeFails(a)
  <2>1. Begun(alarm[a], "waiting") \in JobType
    <3>1. alarm[a] \in JobType /\ alarm[a].attempt < MaxAttempts
      BY <1>1, <1>5 DEF JobOK, WakeFails, At
    <3>2. alarm[a].attempt + 1 \in 0..MaxAttempts /\ 0 \in Time
      BY <3>1, ScheduleAssumption DEF JobType, Time
    <3> QED
      BY <3>1, <3>2 DEF JobType, Begun
  <2>2. JobOK(AgainOrNever(Begun(alarm[a], "waiting")), row.version)
    BY <1>1, <2>1, RetriedJob
  <2> QED
    BY <1>5, <2>2, OnlyAJobChanges DEF WakeFails
<1>6. CASE Refuse(a)
  <2>1. CASE Waiting
    BY <1>1, <1>3, <1>6, <2>1 DEF Refuse, Related, NewerChoiceStands
  <2>2. CASE ~Waiting
    BY <1>1, <1>2, <1>6, <2>2, DoneKeepsJobs DEF Refuse
  <2> QED
    BY <2>1, <2>2
<1>7. CASE RefuseFails(a)
  BY <1>1, <1>2, <1>7, FailedKeepsJobs DEF RefuseFails
<1>8. CASE FireNothing(a)
  BY <1>1, <1>2, <1>8, DoneKeepsJobs DEF FireNothing
<1>9. CASE FireSnoozes(a)
  <2>1. JobOK(Snoozed(alarm[a]), row.version)
    BY <1>1, <1>9, SnoozedJob DEF FireSnoozes, Claims, At
  <2> QED
    BY <1>9, <2>1, OnlyAJobChanges DEF FireSnoozes
<1>10. CASE FireHolds(a)
  BY <1>1, <1>3, <1>10 DEF FireHolds, Claims, Claimed, Related, NewerChoiceStands
<1>11. CASE FireSends(a)
  <2>1. "released" \in Status
    BY DEF Status
  <2>2. /\ row' \in RowType /\ row'.status = "released"
        /\ row'.version \in Nat /\ row.version <= row'.version
        /\ row'.version = row.version + 1
    BY <1>1, <1>11, <2>1, RowWritten DEF FireSends
  <2>3. \A r \in Rep : ~HoldsRow(r)
    BY <1>11 DEF FireSends, Claims, RowLocked, HoldsRow
  <2>4. OneHolder'
    BY <1>11, <2>3 DEF FireSends, OneHolder, HoldsRow
  <2>5. sent = 0 /\ ~card /\ ~gone
    BY <1>1, <1>11 DEF FireSends, Claims, Claimed, Waiting, Related, OneRelease, CardMeetsHold
  <2>6. ErasedRests' /\ OneRelease' /\ CardMeetsHold' /\ NewerChoiceStands'
    BY <1>1, <1>11, <2>2, <2>5
       DEF FireSends, Related, ErasedRests, OneRelease, CardMeetsHold, NewerChoiceStands
  <2>9. AcceptedOnce'
    BY <1>1, <1>11, <2>2, WritesOutdateHolds DEF FireSends, Related
  <2>7. JobsOK'
    BY <1>1, <1>11, <2>2, DoneKeepsJobs DEF FireSends
  <2>8. Numbers' /\ SessionsOK'
    BY <1>1, <1>11, <2>5 DEF FireSends, Numbers, SessionsOK
  <2> QED
    BY <2>2, <2>4, <2>6, <2>7, <2>8, <2>9, Assemble DEF Related
<1>12. CASE FireFails(a)
  <2>1. CASE alarm[a].attempt < MaxAttempts
    BY <1>1, <1>2, <1>12, <2>1, FailedKeepsJobs DEF FireFails
  <2>2. CASE ~(alarm[a].attempt < MaxAttempts)
    <3>1. PICK seen \in {0} \cup {row.version} :
            alarm' = [alarm EXCEPT ![a] = Exhausted(alarm[a], seen)]
      BY <1>12, <2>2 DEF FireFails
    <3>2. seen \in Nat /\ seen <= row.version
      BY <1>1, <3>1
    <3>3. JobOK(Exhausted(alarm[a], seen), row.version)
      BY <1>1, <1>12, <3>2, ExhaustedJob DEF FireFails, At
    <3> QED
      BY <1>12, <3>1, <3>3, OnlyAJobChanges DEF FireFails
  <2> QED
    BY <2>1, <2>2
<1>13. CASE Exhaust(a)
  <2>1. CASE SameRow(a)
    <3>1. ~alarm[a].stale
      BY <1>1, <2>1 DEF JobOK, SameRow
    <3>2. NewerChoiceStands'
      BY <1>1, <1>13, <2>1, <3>1 DEF Exhaust, Related, NewerChoiceStands
    <3> QED
      BY <1>3, <1>13, <2>1, <3>2 DEF Exhaust, SameRow
  <2>2. CASE ~SameRow(a)
    BY <1>1, <1>2, <1>13, <2>2, DoneKeepsJobs DEF Exhaust
  <2> QED
    BY <2>1, <2>2
<1>14. CASE ExhaustFails(a)
  BY <1>1, <1>2, <1>14, DoneKeepsJobs DEF ExhaustFails
<1> QED
  BY <1>4, <1>5, <1>6, <1>7, <1>8, <1>9, <1>10, <1>11, <1>12, <1>13, <1>14 DEF AlarmStep, AlarmFault

\* A session changes and the message does not.  Its accepted hold stays with it,
\* or is lost, or is the one whose card it answers.
LEMMA OnlyASessionChanges ==
    ASSUME ScheduleInv, NEW r \in Rep, NEW s, SessionOK(s), rep' = [rep EXCEPT ![r] = s],
           UNCHANGED <<row, alarm, erased, sent, overruled, clock>>,
           s.pc \in {"moving", "cancelling"} => Answerable /\ ~RowLocked,
           \/ UNCHANGED <<card, gone>> /\ s.hold = rep[r].hold
           \/ UNCHANGED card /\ Lose(r) /\ s.hold = 0 /\ row.version > 0
           \/ card /\ card' = FALSE /\ UNCHANGED gone /\ s.hold = row.version
    PROVE  ScheduleInv'
<1>1. JobsOK /\ row.version \in Nat /\ Related /\ SessionsOK /\ Numbers /\ row \in RowType
  BY DEF ScheduleInv, Related, RowType
<1>2. SessionsOK' /\ rep'[r] = s /\ \A q \in Rep : q # r => rep'[q] = rep[q]
  BY <1>1, OneSessionChanges
<1>3. OneHolder'
  <2>1. CASE s.pc \in {"moving", "cancelling"}
    <3>1. Answerable' /\ \A q \in Rep : ~HoldsRow(q)
      BY <2>1 DEF RowLocked, HoldsRow, Answerable
    <3> QED
      BY <1>2, <3>1 DEF OneHolder, HoldsRow
  <2>2. CASE s.pc \notin {"moving", "cancelling"}
    BY <1>1, <1>2, <2>2 DEF Related, OneHolder, HoldsRow, Answerable
  <2> QED
    BY <2>1, <2>2
<1>4. ErasedRests' /\ OneRelease' /\ NewerChoiceStands'
  BY <1>1 DEF Related, ErasedRests, OneRelease, NewerChoiceStands
<1>7. rep[r].hold \in Nat
  BY <1>1 DEF SessionsOK, SessionOK, SessionType
<1>5. CASE UNCHANGED <<card, gone>> /\ s.hold = rep[r].hold
  <2>1. \A q \in Rep : rep'[q].hold = rep[q].hold
    BY <1>2, <1>5
  <2> QED
    BY <1>1, <1>2, <1>3, <1>4, <1>5, <2>1, Assemble
       DEF Related, CardMeetsHold, AcceptedOnce, JobsOK, Numbers
<1>6. CASE UNCHANGED card /\ Lose(r) /\ s.hold = 0 /\ row.version > 0
  <2>1. AcceptedOnce'
    BY <1>1, <1>2, <1>6 DEF Related, AcceptedOnce
  <2>2. CASE rep[r].hold = row.version
    <3>1. gone' /\ row.status = "held" /\ ~card
      BY <1>1, <1>6, <2>2 DEF Lose, Related, AcceptedOnce
    <3>2. CardMeetsHold'
      BY <1>6, <3>1 DEF CardMeetsHold
    <3> QED
      BY <1>1, <1>2, <1>3, <1>4, <2>1, <3>2, Assemble DEF Related, JobsOK, Numbers
  <2>3. CASE rep[r].hold # row.version
    <3>1. gone' <=> gone
      BY <1>6, <2>3 DEF Lose
    <3>2. \A q \in Rep : rep[q].hold = row.version => rep'[q].hold = row.version
      BY <1>2, <2>3
    <3>3. CardMeetsHold'
      BY <1>1, <1>6, <3>1, <3>2 DEF Related, CardMeetsHold
    <3> QED
      BY <1>1, <1>2, <1>3, <1>4, <2>1, <3>3, Assemble DEF Related, JobsOK, Numbers
  <2> QED
    BY <2>2, <2>3
<1>8. CASE card /\ card' = FALSE /\ UNCHANGED gone /\ s.hold = row.version
  <2>1. row.status = "held" /\ ~gone
    BY <1>1, <1>8 DEF Related, CardMeetsHold
  <2>2. AcceptedOnce'
    BY <1>1, <1>2, <1>8, <2>1 DEF Related, AcceptedOnce
  <2>3. CardMeetsHold'
    BY <1>2, <1>8, <2>1 DEF CardMeetsHold
  <2> QED
    BY <1>1, <1>2, <1>3, <1>4, <2>2, <2>3, Assemble DEF Related, JobsOK, Numbers
<1> QED
  BY <1>5, <1>6, <1>8

\* What the session that holds the row knows.
LEMMA HolderKnows ==
    ASSUME ScheduleInv, NEW r \in Rep, HoldsRow(r)
    PROVE  /\ Answerable /\ sent = 0 /\ erased # "done"
           /\ \A q \in Rep : HoldsRow(q) => q = r
  BY DEF ScheduleInv, OneHolder, Answerable, OneRelease, ErasedRests

\* The session that holds the row, or finds it unlocked, ends with the card
\* and the message both answered.
LEMMA AnswerKeepsRelated ==
    ASSUME ScheduleInv, NEW r \in Rep, Answerable, ~RowLocked \/ HoldsRow(r),
           row'.status \in {"scheduled", "cancelled"}, row'.version = row.version + 1,
           card' = FALSE, gone' = FALSE,
           rep' = [rep EXCEPT ![r] = Idle], UNCHANGED <<erased, sent, overruled>>
    PROVE  Related' /\ SessionsOK'
<1>1. SessionsOK' /\ rep'[r] = Idle /\ \A q \in Rep : q # r => rep'[q] = rep[q]
  BY OneSessionChanges, IdleSession DEF ScheduleInv
<1>2. \A q \in Rep : q # r => ~HoldsRow(q)
  BY HolderKnows DEF RowLocked, HoldsRow
<1>3. \A q \in Rep : ~HoldsRow(q)'
  BY <1>1, <1>2, IdleSession DEF HoldsRow
<1>4. sent = 0 /\ erased # "done"
  BY DEF ScheduleInv, Answerable, OneRelease, ErasedRests
<1>5. \A q \in Rep : rep'[q].hold = rep[q].hold \/ rep'[q].hold = 0
  BY <1>1, IdleSession
<1>6. AcceptedOnce'
  BY <1>5, WritesOutdateHolds DEF ScheduleInv
<1> QED
  BY <1>1, <1>3, <1>4, <1>6
     DEF Related, OneHolder, ErasedRests, OneRelease, CardMeetsHold, NewerChoiceStands, ScheduleInv

\* The reps, at the message and at the card.
LEMMA RepsKeep ==
    ASSUME ScheduleInv, NEW r \in Rep,
           \/ View(r) \/ Cancel(r) \/ Reject(r) \/ Accept(r) \/ AnswerStep(r) \/ EffectFails(r)
           \/ \E t \in Time : Reschedule(r, t)
    PROVE  ScheduleInv'
<1>1. /\ row \in RowType /\ row.version \in Nat /\ clock \in Time
      /\ JobsOK /\ SessionsOK /\ Related /\ Numbers
      /\ \A q \in Rep : SessionOK(rep[q])
  BY DEF ScheduleInv, RowType, Numbers, Related, SessionsOK
<1>2. \A q \in Rep : /\ rep[q].hold \in Nat
                     /\ rep[q].pc \notin {"accepted", "applying", "moving"} => rep[q].hold = 0
  BY <1>1 DEF SessionOK, SessionType
<1>16. \A q \in Rep : /\ rep[q].pc \in {"accepted", "applying"} => row.version > 0
                      /\ HoldsRow(q) => row.version > 0
  BY <1>1, <1>2 DEF Related, AcceptedOnce, SessionOK, OneHolder, Answerable
<1>17. ASSUME NEW s, SessionOK(s), s.hold = 0, rep' = [rep EXCEPT ![r] = s],
              rep[r].pc \notin {"accepted", "applying", "moving"},
              UNCHANGED <<row, alarm, card, gone, erased, sent, overruled, clock>>,
              s.pc \in {"moving", "cancelling"} => Answerable /\ ~RowLocked
       PROVE  ScheduleInv'
  BY <1>2, <1>17, OnlyASessionChanges
<1>3. CASE View(r)
  <2> DEFINE s == [Idle EXCEPT !.pc = "viewing", !.seen = row.version]
  <2>1. SessionOK(s) /\ s.pc = "viewing" /\ s.hold = 0
    BY <1>1, BusySession
  <2>2. rep' = [rep EXCEPT ![r] = s]
    BY <1>3 DEF View, Becomes
  <2> HIDE DEF s
  <2> QED
    BY <1>3, <1>17, <2>1, <2>2 DEF View, In
<1>4. CASE Cancel(r)
  <2>1. CASE Answerable
    <3> DEFINE s == [Idle EXCEPT !.pc = "cancelling"]
    <3>1. SessionOK(s) /\ s.pc = "cancelling" /\ s.hold = 0
      BY BusySession
    <3>2. rep' = [rep EXCEPT ![r] = s]
      BY <1>4, <2>1 DEF Cancel, Becomes
    <3> HIDE DEF s
    <3> QED
      BY <1>4, <1>17, <2>1, <3>1, <3>2 DEF Cancel, In
  <2>2. CASE ~Answerable
    BY <1>4, <1>17, <2>2, IdleSession DEF Cancel, In, Becomes
  <2> QED
    BY <2>1, <2>2
<1>5. CASE Reject(r)
  <2> DEFINE s == [Idle EXCEPT !.pc = "rejecting"]
  <2>1. SessionOK(s) /\ s.pc = "rejecting" /\ s.hold = 0
    BY BusySession
  <2>2. rep' = [rep EXCEPT ![r] = s]
    BY <1>5 DEF Reject, Becomes
  <2> HIDE DEF s
  <2> QED
    BY <1>5, <1>17, <2>1, <2>2 DEF Reject, In
<1>6. CASE Accept(r)
  <2> DEFINE s == [Idle EXCEPT !.pc = "accepted", !.hold = row.version]
  <2>1. row.version \in Nat /\ row.version > 0
    BY <1>1, <1>6 DEF Accept, Related, CardMeetsHold, AcceptedOnce
  <2>2. SessionOK(s) /\ s.pc = "accepted" /\ s.hold = row.version
    BY <2>1, AcceptedSession
  <2>3. rep' = [rep EXCEPT ![r] = s]
    BY <1>6 DEF Accept, Becomes
  <2> HIDE DEF s
  <2> QED
    BY <1>6, <2>2, <2>3, OnlyASessionChanges DEF Accept
<1>7. CASE \E t \in Time : Reschedule(r, t)
  <2>1. PICK t \in Time : Reschedule(r, t)
    BY <1>7
  <2>2. CASE Matches(r)
    <3>1. SessionOK(Moving(rep[r], t)) /\ Moving(rep[r], t).hold = rep[r].hold
      BY <1>1, MovingSession
    <3> QED
      BY <1>1, <2>1, <2>2, <3>1, OnlyASessionChanges DEF Reschedule, Becomes, Matches
  <2>3. CASE ~Matches(r)
    BY <1>17, <2>1, <2>3, IdleSession DEF Reschedule, In, Becomes
  <2> QED
    BY <2>2, <2>3
<1>8. CASE ReadForEffect(r)
  <2> DEFINE s == [rep[r] EXCEPT !.pc = "applying", !.seen = row.version]
  <2>1. SessionOK(s) /\ s.pc = "applying" /\ s.hold = rep[r].hold
    BY <1>1, <1>8, ReadingSession DEF ReadForEffect, In
  <2>2. rep' = [rep EXCEPT ![r] = s]
    BY <1>8 DEF ReadForEffect, Becomes
  <2> HIDE DEF s
  <2> QED
    BY <1>1, <1>8, <2>1, <2>2, OnlyASessionChanges DEF ReadForEffect
<1>9. CASE Apply(r)
  <2>1. CASE Matches(r)
    <3>1. clock + RetryDelay \in Time
      BY <1>9, <2>1 DEF Apply, Moment
    <3>2. /\ SessionOK(Moving(rep[r], clock + RetryDelay))
          /\ Moving(rep[r], clock + RetryDelay).hold = rep[r].hold
      BY <1>1, <3>1, MovingSession
    <3> QED
      BY <1>1, <1>9, <2>1, <3>2, OnlyASessionChanges DEF Apply, Becomes, Matches
  <2>2. CASE ~Matches(r)
    BY <1>9, <1>16, <2>2, IdleSession, OnlyASessionChanges DEF Apply, In, Becomes
  <2> QED
    BY <2>1, <2>2
<1>10. CASE EffectFails(r)
  BY <1>10, <1>16, IdleSession, OnlyASessionChanges DEF EffectFails, Becomes
<1>11. ASSUME NEW p \in Rep, NEW q \in Rep, DeadlockAborts(p, q) PROVE ScheduleInv'
  <2>1. CASE Becomes(p, Idle) /\ Lose(p)
    BY <1>11, <1>16, <2>1, IdleSession, OnlyASessionChanges
       DEF DeadlockAborts, Deadlocked, HoldsRow, Becomes
  <2>2. CASE Becomes(q, Idle) /\ UNCHANGED gone
    BY <1>1, <1>2, <1>11, <2>2, IdleSession, OnlyASessionChanges
       DEF DeadlockAborts, Deadlocked, Becomes
  <2> QED
    BY <1>11, <2>1, <2>2 DEF DeadlockAborts
<1>12. CASE CommitMove(r)
  <2>1. HoldsRow(r)
    BY <1>12 DEF CommitMove, In, HoldsRow
  <2>2. rep[r].at \in Time
    BY <1>1 DEF SessionOK, SessionType
  <2>3. row' \in RowType /\ row'.status = "scheduled" /\ row'.version = row.version + 1
    BY <1>1, <1>12, <2>2, RowMoved DEF CommitMove
  <2>4. Related' /\ SessionsOK'
    BY <1>12, <2>1, <2>3, HolderKnows, AnswerKeepsRelated DEF CommitMove, Becomes
  <2>5. JobsOK'
    <3> DEFINE alarms == [b \in Alarm |-> Outdated(alarm[b])]
    <3>1. PICK a \in Alarm : alarm' = [alarms EXCEPT ![a] = Armed(rep[r].at)]
      BY <1>12 DEF CommitMove, Arm
    <3>2. \A b \in Alarm : JobOK(Outdated(alarm[b]), row'.version)
      BY <1>1, <2>3, OutdatedJob DEF JobsOK
    <3>3. JobOK(Armed(rep[r].at), row'.version)
      BY <1>1, <2>2, <2>3, FreshJobs
    <3>4. \A b \in Alarm : JobOK(alarm'[b], row'.version)
      BY <3>1, <3>2, <3>3
    <3>5. alarm' \in [Alarm -> JobType]
      BY <3>1, <3>2, <3>3 DEF JobOK
    <3> QED
      BY <3>4, <3>5 DEF JobsOK
  <2>6. Numbers'
    BY <1>1, <1>12 DEF CommitMove, Numbers
  <2> QED
    BY <2>3, <2>4, <2>5, <2>6, Assemble
<1>13. ASSUME Answerable, ~RowLocked \/ HoldsRow(r), row' = Written("cancelled"),
              card' = FALSE, gone' = FALSE, Becomes(r, Idle),
              UNCHANGED <<alarm, erased, sent, overruled, clock>>
       PROVE  ScheduleInv'
  <2>1. "cancelled" \in Status
    BY DEF Status
  <2>2. /\ row' \in RowType /\ row'.status = "cancelled"
        /\ row'.version \in Nat /\ row.version <= row'.version
        /\ row'.version = row.version + 1
    BY <1>1, <1>13, <2>1, RowWritten
  <2>3. Related' /\ SessionsOK'
    BY <1>13, <2>2, AnswerKeepsRelated DEF Becomes
  <2>4. JobsOK' /\ Numbers'
    BY <1>1, <1>13, <2>2, NoJobChanges DEF Numbers
  <2> QED
    BY <2>2, <2>3, <2>4, Assemble
<1>14. CASE CommitCancel(r)
  <2>1. HoldsRow(r)
    BY <1>14 DEF CommitCancel, In, HoldsRow
  <2> QED
    BY <1>13, <1>14, <2>1, HolderKnows DEF CommitCancel, Resolved
<1>15. CASE CommitReject(r)
  <2>1. CASE Answerable
    BY <1>13, <1>15, <2>1 DEF CommitReject
  <2>2. CASE ~Answerable
    BY <1>1, <1>2, <1>15, <2>2, IdleSession, OnlyASessionChanges DEF CommitReject, In, Becomes
  <2> QED
    BY <2>1, <2>2
<1> QED
  BY <1>3, <1>4, <1>5, <1>6, <1>7, <1>8, <1>9, <1>10, <1>11, <1>12, <1>14, <1>15 DEF AnswerStep

\* A fresh alarm beside a row that did not go back.
LEMMA ArmKeepsJobs ==
    ASSUME JobsOK, row.version \in Nat, row'.version \in Nat, row.version <= row'.version,
           NEW due \in Time, Arm(alarm, due)
    PROVE  JobsOK'
<1>1. PICK a \in Alarm : alarm' = [alarm EXCEPT ![a] = Armed(due)]
  BY DEF Arm
<1>2. JobOK(Armed(due), row'.version)
  BY FreshJobs
<1> QED
  BY <1>1, <1>2, OneJobChanges

\* Scheduling, the recovery pass, the erasure and the clock.
LEMMA OthersKeep ==
    ASSUME ScheduleInv,
           \/ (\E t \in Time : Schedule(t)) \/ ListOverdue \/ Rearm \/ RearmFails
           \/ Erase \/ EraseNamed \/ Tick
    PROVE  ScheduleInv'
<1>1. /\ row \in RowType /\ row.version \in Nat /\ clock \in Time
      /\ JobsOK /\ SessionsOK /\ Related /\ Numbers
  BY DEF ScheduleInv, RowType, Numbers, Related
<1>2. ASSUME UNCHANGED <<row, card, rep, erased, sent, gone, overruled>>, clock' \in Time, JobsOK'
      PROVE  ScheduleInv'
  BY <1>1, <1>2, NothingRelatedChanges, Assemble DEF Numbers, SessionsOK
<1>3. ASSUME alarm' = alarm, row' = row PROVE JobsOK'
  BY <1>1, <1>3 DEF JobsOK
<1>4. ASSUME ~RowLocked PROVE \A r \in Rep : ~HoldsRow(r)
  BY <1>4 DEF RowLocked, HoldsRow
<1>5. CASE \E t \in Time : Schedule(t)
  <2>1. PICK t \in Time : Schedule(t)
    BY <1>5
  <2>2. /\ row.status = "none" /\ row' \in RowType /\ row'.status = "scheduled"
        /\ row'.version \in Nat /\ row.version <= row'.version
        /\ row'.version = row.version + 1
    BY <1>1, <2>1, RowMoved DEF Schedule
  <2>3. JobsOK'
    BY <1>1, <2>1, <2>2, ArmKeepsJobs DEF Schedule
  <2>4. \A r \in Rep : ~HoldsRow(r)
    BY <1>1, <2>2 DEF Related, OneHolder, Answerable
  <2>6. AcceptedOnce'
    BY <1>1, <2>1, <2>2, WritesOutdateHolds DEF Schedule, Related
  <2>5. Related'
    BY <1>1, <2>1, <2>2, <2>4, <2>6
       DEF Schedule, Related, OneHolder, HoldsRow, ErasedRests, OneRelease, CardMeetsHold,
           NewerChoiceStands
  <2> QED
    BY <1>1, <2>1, <2>2, <2>3, <2>5, Assemble DEF Schedule, Numbers, SessionsOK
<1>6. CASE ListOverdue
  BY <1>1, <1>2, <1>3, <1>6 DEF ListOverdue
<1>7. CASE Rearm
  <2>1. row'.version \in Nat /\ row.version <= row'.version
    BY <1>1, <1>7 DEF Rearm
  <2> QED
    BY <1>1, <1>2, <1>3, <1>7, <2>1, ArmKeepsJobs DEF Rearm
<1>8. CASE RearmFails
  BY <1>1, <1>2, <1>3, <1>8 DEF RearmFails
<1>9. CASE Erase
  <2>1. CASE row.status = "held"
    <3>1. Related'
      BY <1>1, <1>9, <2>1
         DEF Erase, Related, OneHolder, HoldsRow, Answerable, AcceptedOnce, ErasedRests, OneRelease,
             CardMeetsHold, NewerChoiceStands
    <3> QED
      BY <1>1, <1>3, <1>9, <2>1, <3>1, Assemble DEF Erase, Numbers, SessionsOK
  <2>2. CASE row.status # "held"
    <3>1. row.status \in {"scheduled", "released", "cancelled"}
      BY <1>1, <1>9, <2>2 DEF Erase, RowType, Status
    <3>2. ErasedStatus \in Status
      BY <3>1 DEF ErasedStatus, Status, Waiting
    <3>3. /\ row' \in RowType /\ row'.status = ErasedStatus
          /\ row'.version \in Nat /\ row.version <= row'.version
          /\ row'.version = row.version + 1
      BY <1>1, <1>9, <2>2, <3>2, RowWritten DEF Erase
    <3>4. row'.status \in {"released", "cancelled"} /\ (row'.status = "released" <=> row.status = "released")
      BY <3>1, <3>3 DEF ErasedStatus, Waiting
    <3>7. AcceptedOnce'
      BY <1>1, <1>9, <2>2, <3>3, WritesOutdateHolds DEF Erase, Related
    <3>5. Related'
      BY <1>1, <1>4, <1>9, <2>2, <3>4, <3>7
         DEF Erase, Related, OneHolder, HoldsRow, ErasedRests, OneRelease, CardMeetsHold,
             NewerChoiceStands
    <3>6. JobsOK'
      BY <1>1, <1>9, <3>3, NoJobChanges DEF Erase
    <3> QED
      BY <1>1, <1>9, <3>3, <3>5, <3>6, Assemble DEF Erase, Numbers, SessionsOK
  <2> QED
    BY <2>1, <2>2
<1>10. CASE Tick
  <2>1. clock' \in Time
    BY <1>1, <1>10, ScheduleAssumption DEF Tick, Time
  <2> QED
    BY <1>2, <1>3, <1>10, <2>1 DEF Tick
<1>11. CASE EraseNamed
  <2>1. row.status = "held"
    BY <1>1, <1>11 DEF EraseNamed, Related, CardMeetsHold
  <2>2. OneHolder' /\ AcceptedOnce' /\ ErasedRests' /\ OneRelease' /\ NewerChoiceStands'
    BY <1>1, <1>11
       DEF EraseNamed, Related, OneHolder, HoldsRow, Answerable, AcceptedOnce, ErasedRests,
           OneRelease, NewerChoiceStands
  <2>3. CardMeetsHold'
    BY <1>11, <2>1 DEF EraseNamed, CardMeetsHold
  <2> QED
    BY <1>1, <1>3, <1>11, <2>2, <2>3, Assemble DEF EraseNamed, Related, Numbers, SessionsOK
<1> QED
  BY <1>5, <1>6, <1>7, <1>8, <1>9, <1>10, <1>11

\* A message that nobody has scheduled yet satisfies the invariant.
LEMMA InitHolds == Init => ScheduleInv
<1> SUFFICES ASSUME Init PROVE ScheduleInv
  OBVIOUS
<1>1. row \in RowType /\ Numbers
  BY ScheduleAssumption DEF Init, RowType, Status, Time, Numbers
<1>2. JobsOK
  <2>1. 0 \in Time /\ row.version = 0
    BY ScheduleAssumption DEF Init, Time
  <2>2. JobOK(Free, 0)
    BY <2>1, FreshJobs
  <2> QED
    BY <2>1, <2>2 DEF Init, JobsOK, JobOK
<1>3. SessionsOK
  BY IdleSession DEF Init, SessionsOK, SessionOK
<1>4. \A r \in Rep : rep[r].pc = "idle"
  BY IdleSession DEF Init
<1>5. OneHolder
  BY <1>4 DEF OneHolder, HoldsRow
<1>6. ErasedRests /\ OneRelease /\ CardMeetsHold /\ NewerChoiceStands
  BY DEF Init, ErasedRests, OneRelease, CardMeetsHold, NewerChoiceStands
<1>7. AcceptedOnce
  BY IdleSession DEF Init, AcceptedOnce
<1> QED
  BY <1>1, <1>2, <1>3, <1>5, <1>6, <1>7 DEF ScheduleInv

\* Every alarm, rep, recovery pass, erasure and fault keeps it.
LEMMA StepsKeep == ScheduleInv /\ [ScheduleNext]_vars => ScheduleInv'
<1> SUFFICES ASSUME ScheduleInv, [ScheduleNext]_vars PROVE ScheduleInv'
  OBVIOUS
<1>1. CASE ScheduleNext
  BY <1>1, AlarmsKeep, RepsKeep, OthersKeep DEF ScheduleNext
<1>2. CASE UNCHANGED vars
  BY <1>2 DEF vars, ScheduleInv, Numbers, JobsOK, SessionsOK, OneHolder, HoldsRow, Answerable,
              AcceptedOnce, ErasedRests, OneRelease, CardMeetsHold, NewerChoiceStands
<1> QED
  BY <1>1, <1>2

-----------------------------------------------------------------------------
\* The inductive invariant of scheduled sending: one holder of the row, no
\* attempt ahead of it, an erased message at rest (FireScheduledSend,
\* RescheduleInTx, redactScheduledSends).
THEOREM SchedulingIsSafe == ScheduleSpec => []ScheduleInv
  BY InitHolds, StepsKeep, PTL DEF ScheduleSpec

\* However many alarms and reps there are, a message is staged at most once,
\* and exactly when its row is released (FireScheduledSend).
THEOREM MessagesGoOnce == ScheduleSpec => []OneRelease
<1>1. ScheduleInv => OneRelease
  BY DEF ScheduleInv
<1> QED
  BY <1>1, SchedulingIsSafe, PTL

\* A card is pending only for a held message, and a held message has its card or
\* an acceptance of this hold under way, unless this hold's card was taken by an
\* erasure or its accepted effect was lost (holdInTx, resolveHeld,
\* redactStagedApprovals).
THEOREM HoldsHaveTheirCard == ScheduleSpec => []CardMeetsHold
<1>1. ScheduleInv => CardMeetsHold
  BY DEF ScheduleInv
<1> QED
  BY <1>1, SchedulingIsSafe, PTL

\* No exhausted ladder holds a choice made after its last attempt
\* (HoldScheduledSend).
THEOREM NewerChoicesStand == ScheduleSpec => []NewerChoiceStands
<1>1. ScheduleInv => NewerChoiceStands
  BY DEF ScheduleInv
<1> QED
  BY <1>1, SchedulingIsSafe, PTL

\* Only the fire transaction stages a delivery.
LEMMA OnlyFiringSends ==
    ASSUME ScheduleInv, ScheduleNext, sent' # sent
    PROVE  \E a \in Alarm : FireSends(a)
  BY DEF ScheduleNext, Schedule, AlarmStep, AlarmFault, Wake, WakeFails, Refuse, RefuseFails,
         FireNothing, FireSnoozes, FireHolds, FireFails, Exhaust, ExhaustFails, ListOverdue, Rearm,
         RearmFails, View, Cancel, Reject, Accept, AnswerStep, CommitMove, CommitCancel,
         CommitReject, ReadForEffect, Apply, DeadlockAborts, EffectFails, Reschedule, Erase,
         EraseNamed, Tick

\* A message goes out only at its moment, within the grace, and never after an
\* erasure answered its addressee (FireScheduledSend, redactScheduledSends).
THEOREM MessagesGoAsTheyStand == ScheduleSpec => GoesOnlyAsItStands
<1>1. ScheduleInv /\ [ScheduleNext]_vars =>
        [sent' # sent => /\ row.at <= clock /\ clock <= row.at + Grace
                         /\ erased # "done"]_vars
  <2> SUFFICES ASSUME ScheduleInv, ScheduleNext, sent' # sent
               PROVE  row.at <= clock /\ clock <= row.at + Grace /\ erased # "done"
    BY DEF vars
  <2>1. PICK a \in Alarm : FireSends(a)
    BY OnlyFiringSends
  <2>2. row.at \in Nat /\ clock \in Nat
    BY ScheduleAssumption DEF ScheduleInv, RowType, Numbers, Time
  <2>3. erased # "done"
    BY <2>1 DEF FireSends, Claims, Claimed, Waiting, ScheduleInv, ErasedRests
  <2> QED
    BY <2>1, <2>2, <2>3, ScheduleAssumption DEF FireSends, Early, Late
<1> QED
  BY <1>1, SchedulingIsSafe, PTL DEF ScheduleSpec, GoesOnlyAsItStands

=============================================================================
