--------------------------- MODULE OutboundProofs ---------------------------
(***************************************************************************)
(* What an outbound delivery never does, for any number of deliveries,     *)
(* workers, rungs, store faults and rescued attempts: send a further copy  *)
(* but where the lookup missed one, deny or invent a copy on its row, use  *)
(* a clearance that was withdrawn, reopen a closed row, or let the         *)
(* runner's ladder run ahead of its own.                                   *)
(***************************************************************************)
EXTENDS OutboundDelivery, FiniteSetTheorems, TLAPS

RowType == [status : Status, reason : Reason, attempts : Nat, inflight : BOOLEAN, kind : Kind]
JobType == [state : {"none", "available", "running", "done", "discarded"},
            attempt : Int, runner : Worker \cup {NoWorker}]
WorkType == [pc : Step, d : Delivery \cup {NoDelivery}, att : Nat, seen : BOOLEAN,
             late : BOOLEAN, err : Failure]

\* The types, and that a worker has a delivery in hand exactly while it works.
OutboundTypes ==
    /\ row \in [Delivery -> RowType]
    /\ job \in [Delivery -> JobType]
    /\ work \in [Worker -> WorkType]
    /\ facts \in [Delivery -> [allowed : BOOLEAN, aged : BOOLEAN]]
    /\ copies \in [Delivery -> Nat]
    /\ misses \in [Delivery -> Nat]
    /\ slips \in [Delivery -> Nat]
    /\ stale \in [Delivery -> Nat]
    /\ \A w \in Worker : work[w].pc # "idle" <=> On(w) \in Delivery

\* The workers with an attempt at d in hand.
Crew(d) == {w \in Worker : On(w) = d}

Before(w) == work[w].pc \in {"gates", "pace", "guard", "send"}

\* Nothing has happened to a message that is not staged.
Unstaged(d) ==
    row[d].status = "none" =>
        /\ copies[d] = 0 /\ Crew(d) = {}
        /\ job[d].state = "none" /\ job[d].attempt = 0

\* Unless a job was taken from a live worker, the one at work is its runner.
Sole(d) ==
    stale[d] = 0 =>
        \A w \in Crew(d) : job[d].state = "running" /\ job[d].runner = w

\* The attempt a worker counts is the one on the row.
Counted(d) ==
    stale[d] = 0 =>
        \A w \in Crew(d) :
            work[w].pc # "load" => work[w].att >= 1 /\ (Pending(d) => work[w].att = row[d].attempts)

\* Mail that keeps its identity: once a copy is out, every later attempt knows
\* it is not the first, and so looks before it sends; a further copy is one the
\* lookup missed the others for.
MailLooks(d) ==
    stale[d] = 0 /\ row[d].kind = "honours" =>
        /\ copies[d] <= 1 + misses[d]
        /\ copies[d] > 0 => /\ Pending(d) => row[d].attempts >= 1
                            /\ \A w \in Crew(d) : Before(w) => work[w].att > 1

\* A channel: the marker stands from before the call until a definite answer,
\* and an attempt that could send found no marker and no copy.
MarkerStands(d) ==
    stale[d] = 0 /\ row[d].kind = "channel" =>
        /\ copies[d] <= 1
        /\ copies[d] > 0 => row[d].status = "sent" \/ row[d].inflight
        /\ \A w \in Crew(d) :
             /\ work[w].pc \in {"send", "record", "parkSent"} => row[d].inflight
             /\ work[w].pc \in {"send", "clear", "dispose"} => copies[d] = 0
             /\ work[w].pc \in {"gates", "pace", "guard"} /\ copies[d] > 0 => work[w].seen

\* A receipt, on the row or in a worker's hand, is of a copy; an open row has
\* no reason yet.
Receipted(d) ==
    /\ row[d].status \in {"none", "pending"} => row[d].reason = ""
    /\ row[d].status = "sent" \/ row[d].reason = "transmitted" => copies[d] > 0
    /\ \A w \in Crew(d) : work[w].pc \in {"record", "parkSent"} => copies[d] > 0
    /\ \A w \in Crew(d) : work[w].pc = "parkSent" => row[d].kind = "channel"
    /\ row[d].kind = "channel" /\ stale[d] = 0 /\ row[d].reason = "transmitted" => row[d].inflight

\* The part of the inductive invariant that is about one delivery.
Safe(d) ==
    /\ Unstaged(d) /\ Sole(d) /\ Counted(d)
    /\ MailLooks(d) /\ MarkerStands(d) /\ Receipted(d)

CopyInv == OutboundTypes /\ \A d \in Delivery : Safe(d)

\* An attempt that started after the withdrawal is still before the gates.
LateInv ==
    \A w \in Worker :
        work[w].late => work[w].pc = "gates" /\ ~facts[On(w)].allowed

\* Workers whose job was taken from them, and workers about to count.
Stale(d) == {w \in Crew(d) : job[d].runner # w}
Loading(d) == {w \in Crew(d) : work[w].pc = "load"}

\* River counts no more rungs than the row, but for what a fault or a rescue
\* cost; a stale worker may still take back the rung it counted.
Ladder(d) ==
    /\ IsFiniteSet(Crew(d))
    /\ job[d].state = "running" <=> job[d].runner # NoWorker
    /\ Pending(d) => job[d].attempt + Cardinality(Stale(d))
                       <= row[d].attempts + slips[d] + stale[d] + Cardinality(Loading(d))

LadderInv == \A d \in Delivery : Ladder(d)

-----------------------------------------------------------------------------
(* One step of one worker: what it leaves alone, and how an attempt ends.  *)

\* A worker's step is about the delivery it has in hand.
Apart(w) ==
    /\ \A e \in Delivery : e # On(w) => /\ row'[e] = row[e] /\ job'[e] = job[e]
                                         /\ copies'[e] = copies[e] /\ misses'[e] = misses[e]
                                         /\ slips'[e] = slips[e]
    /\ \A v \in Worker : v # w => work'[v] = work[v]
    /\ work'[w].d \in {On(w), NoDelivery}
    /\ facts' = facts /\ stale' = stale

\* The worker lets go of its delivery; only the attempt River holds to be the
\* running one moves the job, and it keeps its rung or gives it back.  A worker
\* that dies moves nothing.
Ended(w) ==
    /\ work' = [work EXCEPT ![w] = Idle]
    /\ job' \in [Delivery -> JobType]
    /\ \A e \in Delivery : e # On(w) => job'[e] = job[e]
    /\ job[On(w)].runner # w => job' = job
    /\ job' # job =>
         /\ job'[On(w)].runner = NoWorker /\ job'[On(w)].state \notin {"none", "running"}
         /\ job'[On(w)].attempt \in {job[On(w)].attempt, job[On(w)].attempt - 1}

\* A store fault or nothing happened to the delivery's count of slips.
Slipped(w) ==
    \/ slips' = slips
    \/ slips' = [slips EXCEPT ![On(w)] = @ + 1]

\* The row stays, or it was open and is parked.
Parked(w, why) ==
    /\ Pending(On(w))
    /\ row' = [row EXCEPT ![On(w)] = [row[On(w)] EXCEPT !.status = "parked", !.reason = why]]

\* The empty record of a worker.
LEMMA IdleType == Idle \in WorkType /\ Idle.pc = "idle" /\ Idle.d = NoDelivery /\ Idle.late = FALSE
BY DEF Idle, WorkType, Step, Failure

\* A worker that is at work has a delivery in hand, and the row is staged.
LEMMA Working ==
    ASSUME OutboundTypes, NEW w \in Worker, work[w].pc # "idle"
    PROVE  On(w) \in Delivery /\ w \in Crew(On(w))
BY DEF OutboundTypes, On, Crew

\* Report: a verdict on a job, from its runner or from a worker that lost it.
LEMMA ReportEnds ==
    ASSUME OutboundTypes, NEW w \in Worker, On(w) \in Delivery, NEW j \in JobType,
           j.runner = NoWorker, j.state \notin {"none", "running"},
           j.attempt \in {job[On(w)].attempt, job[On(w)].attempt - 1},
           Report(w, j)
    PROVE  Ended(w)
<1>1. CASE job[On(w)].runner = w
  <2>1. job' = [job EXCEPT ![On(w)] = j] /\ work' = [work EXCEPT ![w] = Idle]
    BY <1>1 DEF Report
  <2>2. job \in [Delivery -> JobType]
    BY DEF OutboundTypes
  <2> QED
    BY <1>1, <2>1, <2>2 DEF Ended
<1>2. CASE job[On(w)].runner # w
  <2>1. job' = job /\ work' = [work EXCEPT ![w] = Idle]
    BY <1>2 DEF Report
  <2> QED
    BY <1>2, <2>1 DEF Ended, OutboundTypes
<1> QED
  BY <1>1, <1>2

\* A completed job.
LEMMA DoneEnds ==
    ASSUME OutboundTypes, NEW w \in Worker, On(w) \in Delivery, Done(w)
    PROVE  Ended(w)
<1> DEFINE j == [job[On(w)] EXCEPT !.state = "done", !.runner = NoWorker]
<1>1. job[On(w)] \in JobType
  BY DEF OutboundTypes
<1>2. j \in JobType /\ j.runner = NoWorker /\ j.state = "done" /\ j.attempt = job[On(w)].attempt
  BY <1>1 DEF JobType
<1>3. Report(w, j)
  BY DEF Done
<1> HIDE DEF j
<1> QED
  BY <1>2, <1>3, ReportEnds

\* A snoozed job, whose attempt River restores.
LEMMA SnoozeEnds ==
    ASSUME OutboundTypes, NEW w \in Worker, On(w) \in Delivery, Snooze(w)
    PROVE  /\ Ended(w)
           /\ job[On(w)].runner = w => job'[On(w)].attempt = job[On(w)].attempt - 1
<1> DEFINE j == [state |-> "available", runner |-> NoWorker, attempt |-> job[On(w)].attempt - 1]
<1>1. job \in [Delivery -> JobType] /\ job[On(w)] \in JobType
  BY DEF OutboundTypes
<1>2. /\ j \in JobType /\ j.runner = NoWorker /\ j.state = "available"
      /\ j.attempt = job[On(w)].attempt - 1
  BY <1>1 DEF JobType
<1>3. Report(w, j)
  BY DEF Snooze
<1>4. job[On(w)].runner = w => job'[On(w)] = j
  BY <1>1, <1>3 DEF Report
<1> HIDE DEF j
<1> QED
  BY <1>2, <1>3, <1>4, ReportEnds

\* What an attempt without a verdict leaves of its job.
LEMMA SpentJob ==
    ASSUME NEW j \in JobType
    PROVE  /\ Spent(j) \in JobType /\ Spent(j).runner = NoWorker
           /\ Spent(j).state \in {"available", "discarded"} /\ Spent(j).attempt = j.attempt
BY DEF Spent, JobType

\* A failed job keeps its rung, or is discarded on the last one.
LEMMA FailEnds ==
    ASSUME OutboundTypes, NEW w \in Worker, On(w) \in Delivery, Fail(w)
    PROVE  Ended(w)
<1>1. job[On(w)] \in JobType
  BY DEF OutboundTypes
<1>2. Report(w, Spent(job[On(w)]))
  BY DEF Fail
<1> QED
  BY <1>1, <1>2, SpentJob, ReportEnds

\* One attempt to write that met a store fault.
LEMMA SlipCounts ==
    ASSUME NEW w \in Worker, Slip(On(w))
    PROVE  slips' = [slips EXCEPT ![On(w)] = @ + 1]
BY DEF Slip

\* The row was closed: the attempt is skipped.
LEMMA SkipEnds ==
    ASSUME OutboundTypes, NEW w \in Worker, On(w) \in Delivery, Skip(w)
    PROVE  Ended(w) /\ ~Pending(On(w)) /\ row' = row /\ slips' = slips
BY DoneEnds DEF Skip

\* Park: the open row is closed with its reason, or nothing is written.
LEMMA ParkEnds ==
    ASSUME OutboundTypes, NEW w \in Worker, On(w) \in Delivery, NEW why, Park(w, why)
    PROVE  Ended(w) /\ Slipped(w) /\ (row' = row \/ Parked(w, why))
<1>1. CASE Close(w, [row[On(w)] EXCEPT !.status = "parked", !.reason = why])
  BY <1>1, DoneEnds DEF Close, Slipped, Parked
<1>2. CASE Skip(w)
  BY <1>2, SkipEnds DEF Slipped
<1>3. CASE Slip(On(w)) /\ Fail(w) /\ UNCHANGED row
  BY <1>3, FailEnds, SlipCounts DEF Slipped
<1> QED
  BY <1>1, <1>2, <1>3 DEF Park

\* Retry writes nothing the row keeps.
LEMMA RetryEnds ==
    ASSUME OutboundTypes, NEW w \in Worker, On(w) \in Delivery, Retry(w)
    PROVE  Ended(w) /\ Slipped(w) /\ row' = row
<1>1. CASE Pending(On(w)) /\ Fail(w) /\ UNCHANGED <<row, slips>>
  BY <1>1, FailEnds DEF Slipped
<1>2. CASE Skip(w)
  BY <1>2, SkipEnds DEF Slipped
<1>3. CASE Slip(On(w)) /\ Fail(w) /\ UNCHANGED row
  BY <1>3, FailEnds, SlipCounts DEF Slipped
<1> QED
  BY <1>1, <1>2, <1>3 DEF Retry

\* A throttle keeps the row's rung, on the last one it parks.
LEMMA ThrottledEnds ==
    ASSUME OutboundTypes, NEW w \in Worker, On(w) \in Delivery, Throttled(w)
    PROVE  Ended(w) /\ Slipped(w) /\ (row' = row \/ Parked(w, "throttled"))
<1>1. CASE Park(w, "throttled")
  BY <1>1, ParkEnds
<1>2. CASE Pending(On(w)) /\ Snooze(w) /\ UNCHANGED <<row, slips>>
  BY <1>2, SnoozeEnds DEF Slipped
<1>3. CASE Skip(w)
  BY <1>3, SkipEnds DEF Slipped
<1>4. CASE Slip(On(w)) /\ Fail(w) /\ UNCHANGED row
  BY <1>4, FailEnds, SlipCounts DEF Slipped
<1> QED
  BY <1>1, <1>2, <1>3, <1>4 DEF Throttled

-----------------------------------------------------------------------------
(* The copy invariant, one delivery at a time: the deliveries a worker's   *)
(* step is not about, the one it is about when the attempt ends, and when  *)
(* the attempt goes on.                                                    *)

\* The crew of another delivery stays at what it does.
LEMMA OtherCrew ==
    ASSUME OutboundTypes, NEW w \in Worker, NEW d \in Delivery, On(w) = d, Apart(w),
           NEW e \in Delivery, e # d
    PROVE  /\ Crew(e)' = Crew(e)
           /\ \A v \in Crew(e) : v \in Worker /\ v # w /\ work'[v] = work[v]
<1>1. e # NoDelivery
  BY OutboundAssumption
<1>2. \A v \in Worker : work'[v].d = e <=> work[v].d = e
  BY <1>1 DEF Apart, On
<1> QED
  BY <1>2 DEF Crew, On, Apart

\* A worker's step is safe for every other delivery.
LEMMA OthersSafe ==
    ASSUME CopyInv, NEW w \in Worker, NEW d \in Delivery, On(w) = d, Apart(w),
           NEW e \in Delivery, e # d
    PROVE  Safe(e)'
<1>1. Safe(e) /\ OutboundTypes
  BY DEF CopyInv
<1>2. /\ Crew(e)' = Crew(e)
      /\ \A v \in Crew(e) : work'[v] = work[v]
  BY <1>1, OtherCrew
<1>3. /\ row'[e] = row[e] /\ job'[e] = job[e] /\ copies'[e] = copies[e] /\ misses'[e] = misses[e]
      /\ stale'[e] = stale[e]
  BY DEF Apart
<1>4. Unstaged(e)' /\ Sole(e)' /\ Counted(e)'
  BY <1>1, <1>2, <1>3 DEF Safe, Unstaged, Sole, Counted, Pending
<1>5. MailLooks(e)' /\ MarkerStands(e)' /\ Receipted(e)'
  BY <1>1, <1>2, <1>3 DEF Safe, MailLooks, MarkerStands, Receipted, Pending, Before
<1> QED
  BY <1>4, <1>5 DEF Safe

\* The one at work on a delivery nobody took from its worker is alone.
LEMMA Alone ==
    ASSUME CopyInv, NEW d \in Delivery, stale[d] = 0, NEW w \in Crew(d)
    PROVE  Crew(d) = {w} /\ job[d].state = "running" /\ job[d].runner = w
BY DEF CopyInv, Safe, Sole

\* What the row of a delivery must say when an attempt at it ends.
RowStands(d) ==
    /\ row'[d].kind = row[d].kind /\ row'[d].status # "none"
    /\ row'[d].status = "pending" => row'[d].reason = ""
    /\ row'[d].status = "sent" \/ row'[d].reason = "transmitted" => copies'[d] > 0
    /\ copies'[d] >= copies[d]
    /\ row[d].kind = "channel" /\ stale[d] = 0 /\ row'[d].reason = "transmitted" => row'[d].inflight
    /\ row[d].kind = "channel" /\ stale[d] = 0 =>
         copies'[d] <= 1 /\ (copies'[d] > 0 => row'[d].status = "sent" \/ row'[d].inflight)
    /\ row[d].kind = "honours" /\ stale[d] = 0 =>
         copies'[d] <= 1 + misses'[d] /\ (copies'[d] > 0 /\ row'[d].status = "pending" => row'[d].attempts >= 1)

\* An attempt that ends leaves its delivery safe if its row stands.
LEMMA EndKeepsSafe ==
    ASSUME CopyInv, OutboundTypes', NEW w \in Worker, NEW d \in Delivery, On(w) = d, Apart(w),
           Ended(w), RowStands(d)
    PROVE  CopyInv'
<1>1. w \in Crew(d) /\ Safe(d) /\ d \in Delivery
  BY DEF CopyInv, Crew
<1>2. work'[w] = Idle /\ stale' = stale
  BY DEF Ended, OutboundTypes, CopyInv, Apart
<1>3. Crew(d)' = Crew(d) \ {w}
  <2>1. \A v \in Worker : v # w => (work'[v].d = d <=> work[v].d = d)
    BY DEF Apart
  <2>2. work'[w].d # d
    BY <1>2, <1>1, IdleType, OutboundAssumption
  <2> QED
    BY <2>1, <2>2 DEF Crew, On
<1>4. \A v \in Crew(d)' : v \in Crew(d) /\ v # w /\ work'[v] = work[v]
  BY <1>3 DEF Crew, Apart
<1>5. stale[d] = 0 => Crew(d)' = {}
  BY <1>1, <1>3, Alone
<1>6. Unstaged(d)' /\ Sole(d)' /\ Counted(d)'
  BY <1>2, <1>5 DEF RowStands, Unstaged, Sole, Counted
<1>7. MailLooks(d)' /\ MarkerStands(d)'
  BY <1>2, <1>5 DEF RowStands, MailLooks, MarkerStands, Pending
<1>8. Receipted(d)'
  <2>0. copies[d] \in Nat /\ copies'[d] \in Nat
    BY <1>1 DEF CopyInv, OutboundTypes
  <2>1. copies[d] > 0 => copies'[d] > 0
    <3>1. copies'[d] >= copies[d]
      BY DEF RowStands
    <3> QED
      BY <2>0, <3>1
  <2>2. \A v \in Crew(d)' : work'[v].pc \in {"record", "parkSent"} => copies'[d] > 0
    BY <1>1, <1>3, <1>4, <2>1 DEF Safe, Receipted, RowStands
  <2>3. \A v \in Crew(d)' : work'[v].pc = "parkSent" => row'[d].kind = "channel"
    BY <1>1, <1>3, <1>4 DEF Safe, Receipted, RowStands
  <2> QED
    BY <1>2, <2>2, <2>3 DEF Receipted, RowStands
<1>9. Safe(d)'
  BY <1>6, <1>7, <1>8 DEF Safe
<1>10. ASSUME NEW e \in Delivery PROVE Safe(e)'
  <2>1. CASE e = d
    BY <2>1, <1>9
  <2>2. CASE e # d
    BY <2>2, OthersSafe
  <2> QED
    BY <2>1, <2>2
<1> QED
  BY <1>10 DEF CopyInv

\* What a worker that goes on must hold.
HandFits(w, d) ==
    LET k == work'[w] IN
    /\ k.d = d /\ k.pc # "idle"
    /\ k.pc \in {"record", "parkSent"} => copies'[d] > 0
    /\ k.pc = "parkSent" => row[d].kind = "channel"
    /\ stale[d] = 0 =>
         /\ k.pc # "load" => k.att >= 1 /\ (row'[d].status = "pending" => k.att = row'[d].attempts)
         /\ row[d].kind = "honours" /\ copies'[d] > 0 /\ k.pc \in {"gates", "pace", "guard", "send"}
              => k.att > 1
         /\ row[d].kind = "channel" =>
              /\ k.pc \in {"send", "record", "parkSent"} => row'[d].inflight
              /\ k.pc \in {"send", "clear", "dispose"} => copies'[d] = 0
              /\ k.pc \in {"gates", "pace", "guard"} /\ copies'[d] > 0 => k.seen

\* An attempt that goes on leaves its delivery safe if its row stands and its
\* worker's hand fits it.
LEMMA GoKeepsSafe ==
    ASSUME CopyInv, OutboundTypes', NEW w \in Worker, NEW d \in Delivery, On(w) = d, Apart(w),
           RowStands(d), HandFits(w, d), job' = job
    PROVE  CopyInv'
<1>1. w \in Crew(d) /\ Safe(d) /\ d \in Delivery
  BY DEF CopyInv, Crew
<1>2. stale' = stale /\ work'[w].d = d
  BY DEF Apart, HandFits
<1>3. Crew(d)' = Crew(d)
  <2>1. \A v \in Worker : work'[v].d = d <=> work[v].d = d
    BY <1>2 DEF Apart, On
  <2> QED
    BY <2>1 DEF Crew, On
<1>4. \A v \in Crew(d) : v # w => work'[v] = work[v]
  BY DEF Crew, Apart
<1>5. stale[d] = 0 => Crew(d) = {w} /\ job[d].state = "running" /\ job[d].runner = w
  BY <1>1, Alone
<1>6. Unstaged(d)' /\ Sole(d)' /\ Counted(d)'
  BY <1>2, <1>3, <1>5 DEF RowStands, HandFits, Unstaged, Sole, Counted, Pending
<1>7. MailLooks(d)'
  BY <1>2, <1>3, <1>5 DEF RowStands, HandFits, MailLooks, Pending, Before
<1>8. MarkerStands(d)'
  BY <1>2, <1>3, <1>5 DEF RowStands, HandFits, MarkerStands
<1>9. Receipted(d)'
  <2>0. copies[d] \in Nat /\ copies'[d] \in Nat
    BY <1>1 DEF CopyInv, OutboundTypes
  <2>1. copies[d] > 0 => copies'[d] > 0
    <3>1. copies'[d] >= copies[d]
      BY DEF RowStands
    <3> QED
      BY <2>0, <3>1
  <2>2. \A v \in Crew(d) : work'[v].pc \in {"record", "parkSent"} => copies'[d] > 0
    BY <1>1, <1>3, <1>4, <2>1 DEF Safe, Receipted, RowStands, HandFits
  <2>3. \A v \in Crew(d) : work'[v].pc = "parkSent" => row'[d].kind = "channel"
    BY <1>1, <1>3, <1>4 DEF Safe, Receipted, RowStands, HandFits
  <2> QED
    BY <1>2, <1>3, <2>2, <2>3 DEF Receipted, RowStands
<1>10. Safe(d)'
  BY <1>6, <1>7, <1>8, <1>9 DEF Safe
<1>11. ASSUME NEW e \in Delivery PROVE Safe(e)'
  <2>1. CASE e = d
    BY <2>1, <1>10
  <2>2. CASE e # d
    BY <2>2, OthersSafe
  <2> QED
    BY <2>1, <2>2
<1> QED
  BY <1>11 DEF CopyInv

-----------------------------------------------------------------------------
(* The ladder, the same way.                                               *)

\* A crew that is finite, and so are its parts.
LEMMA CrewCounts ==
    ASSUME NEW d \in Delivery, IsFiniteSet(Crew(d))
    PROVE  /\ IsFiniteSet(Stale(d)) /\ Cardinality(Stale(d)) \in Nat
           /\ IsFiniteSet(Loading(d)) /\ Cardinality(Loading(d)) \in Nat
<1>1. Stale(d) \subseteq Crew(d) /\ Loading(d) \subseteq Crew(d)
  BY DEF Stale, Loading
<1> QED
  BY <1>1, FS_Subset, FS_CardinalityType

\* A worker that leaves a count was in it or not (one worker's step).
LEMMA CountWithout ==
    ASSUME NEW S, IsFiniteSet(S), NEW w
    PROVE  /\ w \in S => Cardinality(S \ {w}) = Cardinality(S) - 1
           /\ w \notin S => Cardinality(S \ {w}) = Cardinality(S)
<1>1. ASSUME w \in S PROVE Cardinality(S \ {w}) = Cardinality(S) - 1
  BY <1>1, FS_RemoveElement
<1>2. ASSUME w \notin S PROVE S \ {w} = S
  BY <1>2
<1> QED
  BY <1>1, <1>2

\* A worker's step leaves the ladders of every other delivery alone.
LEMMA OtherLadders ==
    ASSUME OutboundTypes, LadderInv, NEW w \in Worker, NEW d \in Delivery, On(w) = d, Apart(w),
           NEW e \in Delivery, e # d
    PROVE  Ladder(e)'
<1>1. /\ Crew(e)' = Crew(e)
      /\ \A v \in Crew(e) : work'[v] = work[v]
  BY OtherCrew
<1>2. /\ row'[e] = row[e] /\ job'[e] = job[e] /\ slips'[e] = slips[e] /\ stale'[e] = stale[e]
  BY DEF Apart
<1>3. Stale(e)' = Stale(e) /\ Loading(e)' = Loading(e)
  BY <1>1, <1>2 DEF Stale, Loading
<1> QED
  BY <1>1, <1>2, <1>3 DEF LadderInv, Ladder, Pending

\* What the two counters must keep when an attempt ends.
EndCounts(w, d) ==
    /\ slips'[d] >= slips[d]
    /\ row'[d].status = "pending" =>
         /\ row[d].status = "pending"
         /\ work[w].pc = "load" => slips'[d] = slips[d] + 1
         /\ \/ row'[d].attempts >= row[d].attempts
            \/ /\ row'[d].attempts >= row[d].attempts - 1
               /\ job[d].runner = w => job'[d].attempt = job[d].attempt - 1

\* An attempt that ends leaves the ladders in step.
LEMMA EndKeepsLadder ==
    ASSUME OutboundTypes, OutboundTypes', LadderInv, NEW w \in Worker, NEW d \in Delivery,
           On(w) = d, Apart(w), Ended(w), EndCounts(w, d)
    PROVE  LadderInv'
<1>1. Ladder(d) /\ w \in Crew(d)
  BY DEF LadderInv, Crew
<1>2. work'[w] = Idle /\ stale'[d] = stale[d]
  BY DEF Ended, OutboundTypes, Apart
<1>3. Crew(d)' = Crew(d) \ {w}
  <2>1. \A v \in Worker : v # w => (work'[v].d = d <=> work[v].d = d)
    BY DEF Apart
  <2>2. work'[w].d # d
    BY <1>2, IdleType, OutboundAssumption
  <2> QED
    BY <2>1, <2>2 DEF Crew, On
<1>4. \A v \in Crew(d) \ {w} : v \in Worker /\ work'[v] = work[v]
  BY DEF Crew, Apart
<1>5. IsFiniteSet(Crew(d)) /\ IsFiniteSet(Crew(d)')
  BY <1>1, <1>3, FS_RemoveElement DEF Ladder
<1> DEFINE S == Cardinality(Stale(d))
           L == Cardinality(Loading(d))
           S1 == Cardinality(Stale(d)')
           L1 == Cardinality(Loading(d)')
<1>6. S \in Nat /\ L \in Nat /\ IsFiniteSet(Stale(d)) /\ IsFiniteSet(Loading(d))
  BY <1>5, CrewCounts
<1>7. L1 = IF work[w].pc = "load" THEN L - 1 ELSE L
  <2>1. Loading(d)' = Loading(d) \ {w}
    BY <1>3, <1>4 DEF Loading
  <2>2. w \in Loading(d) <=> work[w].pc = "load"
    BY <1>1 DEF Loading
  <2> QED
    BY <1>6, <2>1, <2>2, CountWithout
<1>8. /\ job'[d].state = "running" <=> job'[d].runner # NoWorker
      /\ job[d].runner = w => S1 = S /\ job'[d].attempt \in {job[d].attempt, job[d].attempt - 1}
      /\ job[d].runner # w => S1 = S - 1 /\ job'[d].attempt = job[d].attempt
  <2>0. CASE job' = job /\ job[d].runner = w
    <3>1. Stale(d)' = Stale(d)
      BY <1>3, <1>4, <2>0 DEF Stale
    <3> QED
      BY <1>1, <2>0, <3>1 DEF Ladder
  <2>1. CASE job' # job
    <3>1. job[d].runner = w /\ job'[d].runner = NoWorker /\ job'[d].state # "running"
      BY <2>1 DEF Ended
    <3>2. Stale(d)' = Stale(d)
      BY <1>3, <1>4, <3>1, OutboundAssumption DEF Stale
    <3> QED
      BY <2>1, <3>1, <3>2 DEF Ended
  <2>2. CASE job[d].runner # w
    <3>1. job' = job
      BY <2>2 DEF Ended
    <3>2. Stale(d)' = Stale(d) \ {w} /\ w \in Stale(d)
      BY <1>1, <1>3, <2>2, <3>1 DEF Stale
    <3> QED
      <4>1. S1 = S - 1
        BY <1>6, <3>2, CountWithout
      <4>2. job[d].state = "running" <=> job[d].runner # NoWorker
        BY <1>1 DEF Ladder
      <4> QED
        BY <2>2, <3>1, <4>1, <4>2
  <2> QED
    BY <2>0, <2>1, <2>2
<1>9. Ladder(d)'
  <2>1. /\ job[d].attempt \in Int /\ job'[d].attempt \in Int
        /\ row[d].attempts \in Nat /\ row'[d].attempts \in Nat
        /\ slips[d] \in Nat /\ slips'[d] \in Nat /\ stale[d] \in Nat
    BY DEF OutboundTypes, JobType, RowType
  <2>2. row[d].status = "pending" => job[d].attempt + S <= row[d].attempts + slips[d] + stale[d] + L
    BY <1>1 DEF Ladder, Pending
  <2> HIDE DEF S, L, S1, L1
  <2>3. row'[d].status = "pending" =>
          job'[d].attempt + S1 <= row'[d].attempts + slips'[d] + stale[d] + L1
    BY <1>6, <1>7, <1>8, <2>1, <2>2 DEF EndCounts
  <2> QED
    BY <1>2, <1>5, <1>8, <2>3 DEF Ladder, Pending, S1, L1
<1>10. ASSUME NEW e \in Delivery PROVE Ladder(e)'
  <2>1. CASE e = d
    BY <2>1, <1>9
  <2>2. CASE e # d
    BY <2>2, OtherLadders
  <2> QED
    BY <2>1, <2>2
<1> QED
  BY <1>10 DEF LadderInv

\* What they must keep when it goes on.
GoCounts(w, d) ==
    /\ work'[w].d = d /\ work'[w].pc # "load"
    /\ slips'[d] >= slips[d]
    /\ row'[d].status = "pending" =>
         /\ row[d].status = "pending"
         /\ row'[d].attempts >= row[d].attempts
         /\ work[w].pc = "load" => row'[d].attempts >= row[d].attempts + 1

\* An attempt that goes on leaves the ladders in step.
LEMMA GoKeepsLadder ==
    ASSUME OutboundTypes, OutboundTypes', LadderInv, NEW w \in Worker, NEW d \in Delivery,
           On(w) = d, Apart(w), job' = job, GoCounts(w, d)
    PROVE  LadderInv'
<1>1. Ladder(d) /\ w \in Crew(d)
  BY DEF LadderInv, Crew
<1>2. stale'[d] = stale[d] /\ work'[w].d = d /\ work'[w].pc # "load"
  BY DEF Apart, GoCounts
<1>3. Crew(d)' = Crew(d)
  <2>1. \A v \in Worker : work'[v].d = d <=> work[v].d = d
    BY <1>2 DEF Apart, On
  <2> QED
    BY <2>1 DEF Crew, On
<1>4. Stale(d)' = Stale(d)
  BY <1>3 DEF Stale
<1>5. Loading(d)' = Loading(d) \ {w}
  BY <1>2, <1>3 DEF Loading, Crew, Apart
<1> DEFINE S == Cardinality(Stale(d))
           L == Cardinality(Loading(d))
           L1 == Cardinality(Loading(d)')
<1>6. S \in Nat /\ L \in Nat /\ IsFiniteSet(Loading(d))
  BY <1>1, CrewCounts DEF Ladder
<1>7. L1 = IF work[w].pc = "load" THEN L - 1 ELSE L
  <2>1. w \in Loading(d) <=> work[w].pc = "load"
    BY <1>1 DEF Loading
  <2> QED
    BY <1>5, <1>6, <2>1, CountWithout
<1>8. Ladder(d)'
  <2>1. /\ job[d].attempt \in Int
        /\ row[d].attempts \in Nat /\ row'[d].attempts \in Nat
        /\ slips[d] \in Nat /\ slips'[d] \in Nat /\ stale[d] \in Nat
    BY DEF OutboundTypes, JobType, RowType
  <2>2. row[d].status = "pending" => job[d].attempt + S <= row[d].attempts + slips[d] + stale[d] + L
    BY <1>1 DEF Ladder, Pending
  <2> HIDE DEF S, L, L1
  <2>3. row'[d].status = "pending" =>
          job[d].attempt + S <= row'[d].attempts + slips'[d] + stale[d] + L1
    BY <1>6, <1>7, <2>1, <2>2 DEF GoCounts
  <2> QED
    BY <1>1, <1>2, <1>3, <1>4, <2>3 DEF Ladder, Pending, S, L1
<1>9. ASSUME NEW e \in Delivery PROVE Ladder(e)'
  <2>1. CASE e = d
    BY <2>1, <1>8
  <2>2. CASE e # d
    BY <2>2, OtherLadders
  <2> QED
    BY <2>1, <2>2
<1> QED
  BY <1>9 DEF LadderInv

-----------------------------------------------------------------------------
(* The inductive invariant, and the two ways a worker's step keeps it.     *)

OutboundInv == CopyInv /\ LateInv /\ LadderInv

\* The rows and copies of other deliveries stay as they are.
Frame(d) ==
    /\ row' \in [Delivery -> RowType] /\ copies' \in [Delivery -> Nat] /\ misses' \in [Delivery -> Nat]
    /\ \A e \in Delivery : e # d =>
         row'[e] = row[e] /\ copies'[e] = copies[e] /\ misses'[e] = misses[e]
    /\ facts' = facts /\ stale' = stale

\* What Slipped does to the counters.
LEMMA SlipsCount ==
    ASSUME slips \in [Delivery -> Nat], NEW w \in Worker, NEW d \in Delivery, On(w) = d, Slipped(w)
    PROVE  /\ slips' \in [Delivery -> Nat] /\ slips'[d] >= slips[d]
           /\ \A e \in Delivery : e # d => slips'[e] = slips[e]
           /\ slips' # slips => slips'[d] = slips[d] + 1
BY DEF Slipped

\* An attempt ends.
LEMMA EndStep ==
    ASSUME OutboundInv, NEW w \in Worker, NEW d \in Delivery, On(w) = d, Ended(w), Slipped(w),
           Frame(d), RowStands(d),
           row'[d].status = "pending" =>
             /\ row[d].status = "pending"
             /\ work[w].pc = "load" => slips' # slips
             /\ \/ row'[d].attempts >= row[d].attempts
                \/ /\ row'[d].attempts >= row[d].attempts - 1
                   /\ job[d].runner = w => job'[d].attempt = job[d].attempt - 1
    PROVE  OutboundInv'
<1>1. /\ slips' \in [Delivery -> Nat] /\ slips'[d] >= slips[d]
      /\ \A e \in Delivery : e # d => slips'[e] = slips[e]
      /\ slips' # slips => slips'[d] = slips[d] + 1
  BY SlipsCount DEF OutboundInv, CopyInv, OutboundTypes
<1>2. work' \in [Worker -> WorkType] /\ work'[w] = Idle
      /\ \A v \in Worker : v # w => work'[v] = work[v]
  BY IdleType DEF OutboundInv, CopyInv, OutboundTypes, Ended
<1>3. Apart(w)
  BY <1>1, <1>2, IdleType DEF Apart, Frame, Ended
<1>4. OutboundTypes'
  <2>1. \A v \in Worker : (work[v].pc # "idle" <=> On(v) \in Delivery)'
    BY <1>2, IdleType, OutboundAssumption DEF OutboundInv, CopyInv, OutboundTypes, On
  <2> QED
    BY <1>1, <1>2, <2>1 DEF OutboundInv, CopyInv, OutboundTypes, Frame, Ended
<1>5. CopyInv'
  BY <1>3, <1>4, EndKeepsSafe DEF OutboundInv
<1>6. LadderInv'
  BY <1>1, <1>3, <1>4, EndKeepsLadder DEF OutboundInv, CopyInv, EndCounts
<1>7. LateInv'
  BY <1>2, <1>3, IdleType DEF OutboundInv, LateInv, Apart, On
<1> QED
  BY <1>5, <1>6, <1>7 DEF OutboundInv

\* A worker goes on to another step, holding what fits its delivery.
LEMMA GoStep ==
    ASSUME OutboundInv, NEW w \in Worker, NEW d \in Delivery, On(w) = d, Slipped(w), job' = job,
           Frame(d), RowStands(d), HandFits(w, d),
           work' \in [Worker -> WorkType], \A v \in Worker : v # w => work'[v] = work[v],
           work'[w].pc # "load",
           work'[w].late => work'[w].pc = "gates" /\ ~facts[d].allowed,
           row'[d].status = "pending" =>
             /\ row[d].status = "pending" /\ row'[d].attempts >= row[d].attempts
             /\ work[w].pc = "load" => row'[d].attempts >= row[d].attempts + 1
    PROVE  OutboundInv'
<1>1. /\ slips' \in [Delivery -> Nat] /\ slips'[d] >= slips[d]
      /\ \A e \in Delivery : e # d => slips'[e] = slips[e]
  BY SlipsCount DEF OutboundInv, CopyInv, OutboundTypes
<1>2. work'[w].d = d /\ work'[w].pc # "idle"
  BY DEF HandFits
<1>3. Apart(w)
  BY <1>1, <1>2 DEF Apart, Frame
<1>4. OutboundTypes'
  <2>1. \A v \in Worker : (work[v].pc # "idle" <=> On(v) \in Delivery)'
    BY <1>2 DEF OutboundInv, CopyInv, OutboundTypes, On
  <2> QED
    BY <1>1, <2>1 DEF OutboundInv, CopyInv, OutboundTypes, Frame
<1>5. CopyInv'
  BY <1>3, <1>4, GoKeepsSafe DEF OutboundInv
<1>6. GoCounts(w, d)
  BY <1>1, <1>2 DEF GoCounts
<1>7. LadderInv'
  BY <1>3, <1>4, <1>6, GoKeepsLadder DEF OutboundInv, CopyInv
<1>8. LateInv'
  BY <1>2, <1>3 DEF OutboundInv, LateInv, Apart, On
<1> QED
  BY <1>5, <1>7, <1>8 DEF OutboundInv

\* The row of a delivery in hand stands as long as nothing is written to it.
LEMMA RowStandsStill ==
    ASSUME OutboundInv, NEW w \in Worker, NEW d \in Delivery, On(w) = d,
           row' = row, copies' = copies, misses' = misses
    PROVE  RowStands(d) /\ row[d].status # "none"
<1>1. Safe(d) /\ w \in Crew(d) /\ copies[d] \in Nat
  BY DEF OutboundInv, CopyInv, OutboundTypes, Crew
<1>2. row[d].status # "none"
  BY <1>1 DEF Safe, Unstaged
<1>3. copies'[d] >= copies[d]
  BY <1>1
<1>4. /\ row[d].status = "pending" => row[d].reason = ""
      /\ row[d].status = "sent" \/ row[d].reason = "transmitted" => copies[d] > 0
      /\ row[d].kind = "channel" /\ stale[d] = 0 /\ row[d].reason = "transmitted" => row[d].inflight
  BY <1>1 DEF Safe, Receipted
<1>5. /\ row[d].kind = "channel" /\ stale[d] = 0 =>
           copies[d] <= 1 /\ (copies[d] > 0 => row[d].status = "sent" \/ row[d].inflight)
      /\ row[d].kind = "honours" /\ stale[d] = 0 =>
           copies[d] <= 1 + misses[d] /\ (copies[d] > 0 /\ row[d].status = "pending" => row[d].attempts >= 1)
  BY <1>1 DEF Safe, MailLooks, MarkerStands, Pending
<1> QED
  BY <1>2, <1>3, <1>4, <1>5 DEF RowStands

\* A delivery in hand is parked: the row stands, against a receipt only if the
\* worker holds one.
LEMMA ParkedStands ==
    ASSUME OutboundInv, NEW w \in Worker, NEW d \in Delivery, On(w) = d,
           NEW why \in Reason, Parked(w, why), copies' = copies, misses' = misses,
           why = "transmitted" => work[w].pc = "parkSent"
    PROVE  /\ RowStands(d) /\ row'[d].status = "parked"
           /\ row' \in [Delivery -> RowType] /\ \A e \in Delivery : e # d => row'[e] = row[e]
<1>1. Safe(d) /\ w \in Crew(d) /\ copies[d] \in Nat /\ row \in [Delivery -> RowType]
  BY DEF OutboundInv, CopyInv, OutboundTypes, Crew
<1>2. /\ row[d].status = "pending"
      /\ row' = [row EXCEPT ![d] = [row[d] EXCEPT !.status = "parked", !.reason = why]]
  BY DEF Parked, Pending
<1>3. row[d] \in RowType
  BY <1>1
<1>4. /\ row'[d].status = "parked" /\ row'[d].reason = why /\ row'[d].kind = row[d].kind
      /\ row'[d].inflight = row[d].inflight /\ row'[d].attempts = row[d].attempts
      /\ row'[d] \in RowType
  BY <1>1, <1>2, <1>3 DEF RowType, Status
<1>5. row' \in [Delivery -> RowType] /\ \A e \in Delivery : e # d => row'[e] = row[e]
  BY <1>1, <1>2, <1>4
<1>6. /\ why = "transmitted" => copies[d] > 0
      /\ why = "transmitted" /\ stale[d] = 0 /\ row[d].kind = "channel" => row[d].inflight
  BY <1>1 DEF Safe, Receipted, MarkerStands
<1>7. RowStands(d)
  BY <1>1, <1>2, <1>4, <1>6 DEF Safe, MailLooks, MarkerStands, RowStands, Pending
<1> QED
  BY <1>4, <1>5, <1>7

\* An attempt ends and at most parks its row.
LEMMA QuietEnd ==
    ASSUME OutboundInv, NEW w \in Worker, NEW d \in Delivery, On(w) = d, Ended(w), Slipped(w),
           UNCHANGED <<facts, copies, misses, stale>>, NEW why \in Reason,
           \/ row' = row /\ (work[w].pc = "load" /\ Pending(d) => slips' # slips)
           \/ Parked(w, why),
           why = "transmitted" => work[w].pc = "parkSent"
    PROVE  OutboundInv'
<1>1. OutboundTypes /\ row[d].attempts \in Nat
  BY DEF OutboundInv, CopyInv, OutboundTypes, RowType
<1>2. CASE row' = row /\ (work[w].pc = "load" /\ Pending(d) => slips' # slips)
  <2>1. RowStands(d)
    BY <1>2, RowStandsStill
  <2>2. Frame(d)
    BY <1>1, <1>2 DEF Frame, OutboundTypes
  <2> QED
    BY <1>1, <1>2, <2>1, <2>2, EndStep DEF Pending
<1>3. CASE Parked(w, why)
  <2>1. /\ RowStands(d) /\ row'[d].status = "parked"
        /\ row' \in [Delivery -> RowType] /\ \A e \in Delivery : e # d => row'[e] = row[e]
    BY <1>3, ParkedStands
  <2>2. Frame(d)
    BY <1>1, <2>1 DEF Frame, OutboundTypes
  <2> QED
    BY <2>1, <2>2, EndStep
<1> QED
  BY <1>2, <1>3

-----------------------------------------------------------------------------
(* The steps of an attempt, one lemma per action.                          *)

\* Park, wherever an attempt ends with it.
LEMMA ParkKeeps ==
    ASSUME OutboundInv, NEW w \in Worker, NEW d \in Delivery, On(w) = d, work[w].pc # "load",
           NEW why \in Reason, why = "transmitted" => work[w].pc = "parkSent",
           Park(w, why), UNCHANGED <<facts, copies, misses, stale>>
    PROVE  OutboundInv'
<1>1. Ended(w) /\ Slipped(w) /\ (row' = row \/ Parked(w, why))
  BY ParkEnds DEF OutboundInv, CopyInv
<1> QED
  BY <1>1, QuietEnd

\* Retry, wherever an attempt ends with it.
LEMMA RetryKeeps ==
    ASSUME OutboundInv, NEW w \in Worker, NEW d \in Delivery, On(w) = d, work[w].pc # "load",
           Retry(w), UNCHANGED <<facts, copies, misses, stale>>
    PROVE  OutboundInv'
<1>1. Ended(w) /\ Slipped(w) /\ row' = row
  BY RetryEnds DEF OutboundInv, CopyInv
<1> QED
  BY <1>1, QuietEnd DEF Reason

\* A skip: the row was closed by someone else.
LEMMA SkipKeeps ==
    ASSUME OutboundInv, NEW w \in Worker, NEW d \in Delivery, On(w) = d,
           Skip(w), UNCHANGED <<facts, copies, misses, stale>>
    PROVE  OutboundInv'
<1>1. Ended(w) /\ Slipped(w) /\ row' = row /\ ~Pending(d)
  BY SkipEnds DEF OutboundInv, CopyInv, Slipped
<1> QED
  BY <1>1, QuietEnd DEF Reason

\* A store fault ends the attempt on the ladder.
LEMMA FaultKeeps ==
    ASSUME OutboundInv, NEW w \in Worker, NEW d \in Delivery, On(w) = d,
           Slip(d), Fail(w), UNCHANGED <<row, facts, copies, misses, stale>>
    PROVE  OutboundInv'
<1>1. Ended(w) /\ Slipped(w) /\ slips' # slips
  <2>1. slips' = [slips EXCEPT ![d] = @ + 1] /\ slips[d] \in Nat /\ slips \in [Delivery -> Nat]
    BY SlipCounts DEF OutboundInv, CopyInv, OutboundTypes
  <2>2. slips'[d] = slips[d] + 1 /\ slips'[d] # slips[d]
    BY <2>1
  <2> QED
    BY <2>1, <2>2, FailEnds DEF OutboundInv, CopyInv, Slipped
<1> QED
  BY <1>1, QuietEnd DEF Reason

\* Postpone gives the row its attempt back, and River the job's: whoever held
\* a copy had counted two.
LEMMA PostponeKeeps ==
    ASSUME OutboundInv, NEW w \in Worker, NEW d \in Delivery, On(w) = d, work[w].pc = "pace",
           Postpone(w), UNCHANGED <<facts, copies, misses, stale>>
    PROVE  OutboundInv'
<1> DEFINE r == [row[d] EXCEPT !.attempts = IF @ > 0 THEN @ - 1 ELSE 0]
<1>1. CASE Pending(d) /\ row' = [row EXCEPT ![d] = r] /\ Snooze(w) /\ UNCHANGED slips
  <2>1. /\ OutboundTypes /\ Safe(d) /\ w \in Crew(d) /\ row \in [Delivery -> RowType]
        /\ row[d] \in RowType /\ copies[d] \in Nat /\ copies \in [Delivery -> Nat]
        /\ misses \in [Delivery -> Nat]
    BY DEF OutboundInv, CopyInv, OutboundTypes, Crew
  <2>2. /\ r \in RowType /\ r.status = row[d].status /\ r.reason = row[d].reason
        /\ r.kind = row[d].kind /\ r.inflight = row[d].inflight /\ r.attempts \in Nat
        /\ row[d].attempts \in Nat /\ r.attempts >= row[d].attempts - 1
    BY <2>1 DEF RowType
  <2> HIDE DEF r
  <2>3. row' \in [Delivery -> RowType] /\ row'[d] = r /\ \A e \in Delivery : e # d => row'[e] = row[e]
    BY <1>1, <2>1, <2>2
  <2>4. Frame(d)
    BY <2>1, <2>3 DEF Frame
  <2>5. row[d].kind = "honours" /\ stale[d] = 0 /\ copies[d] > 0 => r.attempts >= 1
    <3>1. row[d].kind = "honours" /\ stale[d] = 0 /\ copies[d] > 0 => work[w].att > 1
      BY <2>1 DEF Safe, MailLooks, Before
    <3>2. stale[d] = 0 => work[w].att = row[d].attempts
      BY <1>1, <2>1 DEF Safe, Counted
    <3> QED
      BY <2>2, <3>1, <3>2
  <2>6. copies'[d] >= copies[d] /\ copies' = copies /\ misses' = misses
    BY <2>1
  <2>7. row[d].status = "pending" /\ row[d].reason = ""
    BY <1>1, <2>1 DEF Safe, Receipted, Pending
  <2>8. RowStands(d)
    BY <2>1, <2>2, <2>3, <2>5, <2>6, <2>7 DEF RowStands, Safe, MailLooks, MarkerStands
  <2>9. Ended(w) /\ (job[d].runner = w => job'[d].attempt = job[d].attempt - 1)
    BY <1>1, <2>1, SnoozeEnds
  <2> QED
    BY <1>1, <2>2, <2>3, <2>4, <2>7, <2>8, <2>9, EndStep DEF Slipped
<1>2. CASE Skip(w)
  BY <1>2, SkipKeeps
<1>3. CASE Slip(d) /\ Fail(w) /\ UNCHANGED row
  BY <1>3, FaultKeeps
<1> QED
  BY <1>1, <1>2, <1>3 DEF Postpone

\* The hand of a worker that only moves to another step.
LEMMA GotoHand ==
    ASSUME OutboundInv, NEW w \in Worker, NEW step \in Step, Goto(w, step)
    PROVE  /\ work' \in [Worker -> WorkType]
           /\ \A v \in Worker : v # w => work'[v] = work[v]
           /\ work'[w].pc = step /\ work'[w].d = On(w) /\ work'[w].att = work[w].att
           /\ work'[w].seen = work[w].seen /\ work'[w].late = work[w].late
<1>1. work \in [Worker -> WorkType] /\ work[w] \in WorkType
  BY DEF OutboundInv, CopyInv, OutboundTypes
<1>2. [work[w] EXCEPT !.pc = step] \in WorkType
  BY <1>1 DEF WorkType
<1>3. work' = [work EXCEPT ![w] = [work[w] EXCEPT !.pc = step]]
  BY DEF Goto
<1> QED
  BY <1>1, <1>2, <1>3 DEF WorkType, On

\* A worker moves on and writes nothing.
LEMMA GotoKeeps ==
    ASSUME OutboundInv, NEW w \in Worker, NEW d \in Delivery, On(w) = d,
           NEW step \in Step \ {"idle", "load", "gates"}, work[w].pc # "load",
           work[w].pc = "gates" => ~work[w].late,
           Goto(w, step), Slipped(w), UNCHANGED <<row, job, facts, copies, misses, stale>>,
           HandFits(w, d)
    PROVE  OutboundInv'
<1>1. /\ work' \in [Worker -> WorkType]
      /\ \A v \in Worker : v # w => work'[v] = work[v]
      /\ work'[w].pc = step /\ work'[w].late = work[w].late
  BY GotoHand
<1>2. ~work'[w].late
  BY <1>1 DEF OutboundInv, LateInv
<1>3. Frame(d) /\ RowStands(d) /\ row[d].attempts \in Nat
  BY RowStandsStill DEF Frame, OutboundInv, CopyInv, OutboundTypes, RowType
<1> QED
  BY <1>1, <1>2, <1>3, GoStep

\* Load counts the attempt on the row and takes what it read into its hand.
LEMMA LoadKeeps ==
    ASSUME OutboundInv, NEW w \in Worker, NEW d \in Delivery, On(w) = d, Load(w)
    PROVE  OutboundInv'
<1> DEFINE r == [row[d] EXCEPT !.attempts = @ + 1]
           k == [work[w] EXCEPT !.pc = "gates", !.att = row[d].attempts + 1,
                                !.seen = row[d].inflight, !.late = ~facts[d].allowed]
<1>0. work[w].pc = "load" /\ UNCHANGED <<facts, copies, misses, stale>>
  BY DEF Load
<1>1. CASE /\ Pending(d) /\ row' = [row EXCEPT ![d] = r] /\ work' = [work EXCEPT ![w] = k]
           /\ UNCHANGED <<job, slips>>
  <2>1. /\ OutboundTypes /\ Safe(d) /\ w \in Crew(d) /\ row \in [Delivery -> RowType]
        /\ row[d] \in RowType /\ copies[d] \in Nat /\ copies \in [Delivery -> Nat]
        /\ misses \in [Delivery -> Nat]
        /\ work \in [Worker -> WorkType] /\ work[w] \in WorkType /\ facts[d].allowed \in BOOLEAN
    BY DEF OutboundInv, CopyInv, OutboundTypes, Crew
  <2>2. /\ r \in RowType /\ r.status = row[d].status /\ r.reason = row[d].reason
        /\ r.kind = row[d].kind /\ r.inflight = row[d].inflight
        /\ row[d].attempts \in Nat /\ r.attempts = row[d].attempts + 1
    BY <2>1 DEF RowType
  <2>3. /\ k \in WorkType /\ k.pc = "gates" /\ k.d = d /\ k.att = row[d].attempts + 1
        /\ k.seen = row[d].inflight /\ (k.late => ~facts[d].allowed)
    <3>1. k.pc = "gates" /\ k.att = row[d].attempts + 1 /\ k.seen = row[d].inflight
      BY <2>1 DEF WorkType
    <3>2. k.late = ~facts[d].allowed
      BY <2>1 DEF WorkType
    <3>3. k.d = d
      BY <2>1 DEF WorkType, On
    <3>4. row[d].inflight \in BOOLEAN /\ row[d].attempts + 1 \in Nat /\ (~facts[d].allowed) \in BOOLEAN
      BY <2>1 DEF RowType
    <3>5. k \in WorkType
      BY <2>1, <3>4 DEF WorkType, Step
    <3> QED
      BY <3>1, <3>2, <3>3, <3>5
  <2> HIDE DEF r, k
  <2>4. row' \in [Delivery -> RowType] /\ row'[d] = r /\ \A e \in Delivery : e # d => row'[e] = row[e]
    BY <1>1, <2>1, <2>2
  <2>5. /\ work' \in [Worker -> WorkType] /\ work'[w] = k
        /\ \A v \in Worker : v # w => work'[v] = work[v]
    BY <1>1, <2>1, <2>3
  <2>6. Frame(d)
    BY <1>0, <2>1, <2>4 DEF Frame
  <2>7. row[d].status = "pending" /\ row[d].reason = "" /\ copies'[d] >= copies[d] /\ copies' = copies /\ misses' = misses
    <3>1. copies'[d] >= copies[d] /\ copies' = copies /\ misses' = misses
      BY <1>0, <2>1
    <3> QED
      BY <1>1, <2>1, <3>1 DEF Safe, Receipted, Pending
  <2>8. r.attempts >= 1 /\ r.attempts >= row[d].attempts /\ r.attempts >= row[d].attempts + 1
    BY <2>2
  <2>9. RowStands(d)
    BY <2>1, <2>2, <2>4, <2>7, <2>8 DEF RowStands, Safe, MailLooks, MarkerStands
  <2>10. row[d].kind = "honours" /\ stale[d] = 0 /\ copies[d] > 0 => k.att > 1
    <3>1. row[d].kind = "honours" /\ stale[d] = 0 /\ copies[d] > 0 => row[d].attempts >= 1
      BY <2>1, <2>7 DEF Safe, MailLooks, Pending
    <3> QED
      BY <2>2, <2>3, <3>1
  <2>11. row[d].kind = "channel" /\ stale[d] = 0 /\ copies[d] > 0 => k.seen
    BY <2>1, <2>3, <2>7 DEF Safe, MarkerStands
  <2>12. HandFits(w, d)
    BY <2>2, <2>3, <2>4, <2>5, <2>7, <2>8, <2>10, <2>11 DEF HandFits
  <2> QED
    BY <1>1, <2>3, <2>4, <2>5, <2>6, <2>7, <2>8, <2>9, <2>12, GoStep DEF Slipped
<1>2. CASE Skip(w)
  BY <1>0, <1>2, SkipKeeps
<1>3. CASE Slip(d) /\ Fail(w) /\ UNCHANGED row
  BY <1>0, <1>3, FaultKeeps
<1> QED
  BY <1>1, <1>2, <1>3 DEF Load

\* What the invariant says of the delivery in a worker's hand.
LEMMA InHand ==
    ASSUME OutboundInv, NEW w \in Worker, NEW d \in Delivery, On(w) = d
    PROVE  /\ Safe(d) /\ w \in Crew(d) /\ OutboundTypes
           /\ row[d] \in RowType /\ row \in [Delivery -> RowType]
           /\ copies[d] \in Nat /\ copies \in [Delivery -> Nat]
           /\ misses[d] \in Nat /\ misses \in [Delivery -> Nat]
           /\ row[d].attempts \in Nat /\ row[d].status # "none"
           /\ work[w] \in WorkType
           /\ stale[d] = 0 /\ work[w].pc \notin {"idle", "load"} =>
                work[w].att >= 1 /\ (row[d].status = "pending" => work[w].att = row[d].attempts)
<1>1. Safe(d) /\ w \in Crew(d) /\ OutboundTypes
  BY DEF OutboundInv, CopyInv, Crew
<1>2. /\ row[d] \in RowType /\ row \in [Delivery -> RowType] /\ copies[d] \in Nat
      /\ copies \in [Delivery -> Nat] /\ row[d].attempts \in Nat /\ work[w] \in WorkType
      /\ misses[d] \in Nat /\ misses \in [Delivery -> Nat]
  BY <1>1 DEF OutboundTypes, RowType
<1> QED
  BY <1>1, <1>2 DEF Safe, Unstaged, Counted, Pending

\* The gates: only a clearance of now lets an attempt through.
LEMMA GatesKeeps ==
    ASSUME OutboundInv, NEW w \in Worker, NEW d \in Delivery, On(w) = d, Gates(w)
    PROVE  OutboundInv'
<1>0. work[w].pc = "gates" /\ UNCHANGED <<facts, copies, misses, stale>>
  BY DEF Gates
<1>1. CASE Cleared(w) /\ Goto(w, "pace") /\ UNCHANGED <<row, job, slips>>
  <2>1. ~work[w].late
    BY <1>1 DEF OutboundInv, LateInv, Cleared
  <2>2. HandFits(w, d)
    BY <1>0, <1>1, InHand, GotoHand DEF HandFits, Safe, MailLooks, MarkerStands, Before, Step
  <2> QED
    BY <1>0, <1>1, <2>1, <2>2, GotoKeeps DEF Slipped, Step
<1>2. CASE Park(w, "refused")
  BY <1>0, <1>2, ParkKeeps DEF Reason
<1>3. CASE Retry(w)
  BY <1>0, <1>3, RetryKeeps
<1> QED
  BY <1>1, <1>2, <1>3 DEF Gates

\* Pacing, the maximum age and the exhaustion guard.
LEMMA PaceKeeps ==
    ASSUME OutboundInv, NEW w \in Worker, NEW d \in Delivery, On(w) = d, Pace(w)
    PROVE  OutboundInv'
<1>0. work[w].pc = "pace" /\ UNCHANGED <<facts, copies, misses, stale>>
  BY DEF Pace
<1>1. CASE Park(w, "tooOld") \/ Park(w, "exhausted")
  BY <1>0, <1>1, ParkKeeps DEF Reason
<1>2. CASE Postpone(w)
  BY <1>0, <1>2, PostponeKeeps
<1>3. CASE Goto(w, "guard") /\ UNCHANGED <<row, job, slips>>
  <2>1. HandFits(w, d)
    BY <1>0, <1>3, InHand, GotoHand DEF HandFits, Safe, MailLooks, MarkerStands, Before, Step
  <2> QED
    BY <1>0, <1>3, <2>1, GotoKeeps DEF Slipped, Step
<1> QED
  BY <1>1, <1>2, <1>3 DEF Pace

\* The at-most-once guard: a channel sends only behind a marker of its own.
LEMMA GuardKeeps ==
    ASSUME OutboundInv, NEW w \in Worker, NEW d \in Delivery, On(w) = d, Guard(w)
    PROVE  OutboundInv'
<1> DEFINE r == [row[d] EXCEPT !.inflight = TRUE]
<1>0. work[w].pc = "guard" /\ UNCHANGED <<facts, copies, misses, stale>>
  BY DEF Guard
<1>1. CASE Retry(w)
  BY <1>0, <1>1, RetryKeeps
<1>2. CASE DetectsPriorSend(d) /\ Goto(w, "send") /\ UNCHANGED <<row, job, slips>>
  <2>1. HandFits(w, d)
    BY <1>0, <1>2, InHand, GotoHand DEF HandFits, Safe, MailLooks, Before, Step, DetectsPriorSend
  <2> QED
    BY <1>0, <1>2, <2>1, GotoKeeps DEF Slipped, Step
<1>3. CASE Park(w, "unknown")
  BY <1>0, <1>3, ParkKeeps DEF Reason
<1>4. CASE Skip(w)
  BY <1>0, <1>4, SkipKeeps
<1>5. CASE /\ ~DetectsPriorSend(d) /\ ~work[w].seen /\ Pending(d)
           /\ row' = [row EXCEPT ![d] = r] /\ Goto(w, "send") /\ UNCHANGED <<job, slips>>
  <2>1. /\ r \in RowType /\ r.status = row[d].status /\ r.reason = row[d].reason
        /\ r.kind = row[d].kind /\ r.inflight = TRUE /\ r.attempts = row[d].attempts
    BY InHand DEF RowType
  <2> HIDE DEF r
  <2>2. row' \in [Delivery -> RowType] /\ row'[d] = r /\ \A e \in Delivery : e # d => row'[e] = row[e]
    BY <1>5, <2>1, InHand
  <2>3. row[d].kind = "channel" /\ row[d].status = "pending" /\ row[d].reason = ""
    BY <1>5, InHand DEF DetectsPriorSend, Pending, Safe, Receipted
  <2>4. stale[d] = 0 => copies[d] <= 1 /\ ~(copies[d] > 0)
    BY <1>0, <1>5, <2>3, InHand DEF Safe, MarkerStands
  <2>5. copies' = copies /\ misses' = misses /\ copies'[d] >= copies[d]
    BY <1>0, InHand
  <2>6. RowStands(d)
    BY <2>1, <2>2, <2>3, <2>4, <2>5 DEF RowStands
  <2>7. stale[d] = 0 => copies[d] = 0
    BY <2>4, InHand
  <2>8. HandFits(w, d)
    <3>1. /\ work'[w].pc = "send" /\ work'[w].d = d /\ work'[w].att = work[w].att
      BY <1>5, GotoHand DEF Step
    <3>2. stale[d] = 0 => work[w].att >= 1 /\ work[w].att = row[d].attempts
      BY <1>0, <2>3, InHand
    <3>3. row'[d].attempts = row[d].attempts /\ row'[d].inflight
      BY <2>1, <2>2
    <3>4. row[d].kind = "channel" /\ copies' = copies
      BY <2>3, <2>5
    <3> QED
      BY ONLY <2>7, <3>1, <3>2, <3>3, <3>4 DEF HandFits
  <2>9. Frame(d)
    BY <1>0, <2>2, <2>5, InHand DEF Frame
  <2>10. ~work'[w].late
    BY <1>0, <1>5, GotoHand DEF OutboundInv, LateInv, Step
  <2>11. /\ work' \in [Worker -> WorkType] /\ work'[w].pc = "send"
         /\ \A v \in Worker : v # w => work'[v] = work[v]
    BY <1>5, GotoHand DEF Step
  <2>12. row'[d].attempts >= row[d].attempts
    BY <2>1, <2>2, InHand
  <2> QED
    BY <1>0, <1>5, <2>3, <2>6, <2>8, <2>9, <2>10, <2>11, <2>12, GoStep DEF Slipped
<1> QED
  BY <1>1, <1>2, <1>3, <1>4, <1>5 DEF Guard

\* The hand of a worker that carries a failure on to its disposition.
LEMMA RefuseHand ==
    ASSUME OutboundInv, NEW w \in Worker, NEW class \in Failure, Refuse(w, class)
    PROVE  /\ work' \in [Worker -> WorkType]
           /\ \A v \in Worker : v # w => work'[v] = work[v]
           /\ work'[w].pc = "clear" /\ work'[w].d = On(w) /\ work'[w].att = work[w].att
           /\ work'[w].seen = work[w].seen /\ work'[w].late = work[w].late
<1> DEFINE k == [work[w] EXCEPT !.pc = "clear", !.err = class]
<1>1. work \in [Worker -> WorkType] /\ work[w] \in WorkType
  BY DEF OutboundInv, CopyInv, OutboundTypes
<1>2. /\ k \in WorkType /\ k.pc = "clear" /\ k.d = work[w].d /\ k.att = work[w].att
      /\ k.seen = work[w].seen /\ k.late = work[w].late
  BY <1>1 DEF WorkType, Step
<1>3. work' = [work EXCEPT ![w] = k]
  BY DEF Refuse
<1> HIDE DEF k
<1> QED
  BY <1>1, <1>2, <1>3 DEF On

\* One more copy or none.
Copied(w) == UNCHANGED <<copies, misses>> \/ Transmit(w)

\* What the call does to the counts of one delivery: one copy more is the
\* first, or one more for which the lookup missed those that were there.
LEMMA CopiedCounts ==
    ASSUME OutboundInv, NEW w \in Worker, NEW d \in Delivery, On(w) = d, work[w].pc = "send",
           Copied(w)
    PROVE  /\ copies'[d] \in Nat /\ copies'[d] >= copies[d] /\ copies' \in [Delivery -> Nat]
           /\ misses'[d] \in Nat /\ misses' \in [Delivery -> Nat]
           /\ \A e \in Delivery : e # d => copies'[e] = copies[e] /\ misses'[e] = misses[e]
           /\ copies' # copies => copies'[d] = copies[d] + 1 /\ copies'[d] > 0
           /\ copies' = copies => misses' = misses
           /\ stale[d] = 0 /\ row[d].kind = "honours" => copies'[d] <= 1 + misses'[d]
<1>1. /\ copies[d] \in Nat /\ copies \in [Delivery -> Nat]
      /\ misses[d] \in Nat /\ misses \in [Delivery -> Nat]
  BY InHand
<1>2. stale[d] = 0 /\ row[d].kind = "honours" =>
        copies[d] <= 1 + misses[d] /\ (copies[d] > 0 => work[w].att > 1)
  BY InHand DEF Safe, MailLooks, Before
<1>3. CASE UNCHANGED <<copies, misses>>
  BY <1>1, <1>2, <1>3
<1>4. CASE Transmit(w)
  <2>1. copies' = [copies EXCEPT ![d] = @ + 1]
    BY <1>4 DEF Transmit
  <2>2. /\ copies'[d] = copies[d] + 1 /\ copies' \in [Delivery -> Nat] /\ copies'[d] # copies[d]
        /\ \A e \in Delivery : e # d => copies'[e] = copies[e]
    BY <1>1, <2>1
  <2>3. CASE ~FoundAtProvider(w) /\ UNCHANGED misses
    <3>1. stale[d] = 0 /\ row[d].kind = "honours" => ~(copies[d] > 0)
      BY <1>2, <2>3 DEF FoundAtProvider
    <3> QED
      BY <1>1, <2>2, <2>3, <3>1
  <2>4. CASE misses' = [misses EXCEPT ![d] = @ + 1]
    <3>1. /\ misses'[d] = misses[d] + 1 /\ misses' \in [Delivery -> Nat]
          /\ \A e \in Delivery : e # d => misses'[e] = misses[e]
      BY <1>1, <2>4
    <3> QED
      BY <1>1, <1>2, <2>2, <3>1
  <2> QED
    BY <1>4, <2>3, <2>4 DEF Transmit
<1> QED
  BY <1>3, <1>4 DEF Copied

\* The row and the copies around a call whose answer is known or lost.
LEMMA CopiedStands ==
    ASSUME OutboundInv, NEW w \in Worker, NEW d \in Delivery, On(w) = d, work[w].pc = "send",
           row' = row, Copied(w), facts' = facts, stale' = stale
    PROVE  /\ RowStands(d) /\ Frame(d) /\ copies'[d] >= copies[d] /\ copies'[d] \in Nat
           /\ copies' # copies => copies'[d] > 0
           /\ stale[d] = 0 /\ row[d].kind = "channel" => row[d].inflight /\ copies[d] = 0
<1>1. /\ copies'[d] \in Nat /\ copies'[d] >= copies[d] /\ copies' \in [Delivery -> Nat]
      /\ misses' \in [Delivery -> Nat]
      /\ \A e \in Delivery : e # d => copies'[e] = copies[e] /\ misses'[e] = misses[e]
      /\ copies' # copies => copies'[d] = copies[d] + 1 /\ copies'[d] > 0
      /\ copies' = copies => misses' = misses
      /\ stale[d] = 0 /\ row[d].kind = "honours" => copies'[d] <= 1 + misses'[d]
  BY CopiedCounts
<1>2. stale[d] = 0 /\ row[d].kind = "channel" => row[d].inflight /\ copies[d] = 0
  BY InHand DEF Safe, MarkerStands
<1>3. Frame(d)
  BY <1>1, InHand DEF Frame
<1>4. CASE copies' = copies
  BY <1>1, <1>2, <1>3, <1>4, RowStandsStill
<1>5. CASE copies' # copies
  <2>1. /\ stale[d] = 0 /\ row[d].kind = "channel" => copies'[d] <= 1
        /\ copies'[d] > 0
    BY <1>1, <1>2, <1>5, InHand
  <2>2. stale[d] = 0 /\ row[d].status = "pending" => row[d].attempts >= 1
    BY InHand
  <2>3. /\ row[d].status = "pending" => row[d].reason = ""
        /\ row[d].kind = "channel" /\ stale[d] = 0 /\ row[d].reason = "transmitted" => row[d].inflight
        /\ row[d].status # "none"
    BY InHand DEF Safe, Receipted
  <2>4. RowStands(d)
    BY <1>1, <1>2, <2>1, <2>2, <2>3 DEF RowStands
  <2> QED
    BY <1>1, <1>2, <1>3, <2>4
<1> QED
  BY <1>4, <1>5

\* The provider call.
LEMMA SendKeeps ==
    ASSUME OutboundInv, NEW w \in Worker, NEW d \in Delivery, On(w) = d, Send(w)
    PROVE  OutboundInv'
<1>0. work[w].pc = "send" /\ UNCHANGED <<facts, stale>> /\ ~work[w].late
  BY DEF Send, OutboundInv, LateInv
<1>1. ASSUME Goto(w, "record"), UNCHANGED <<row, job, slips>>, Copied(w), copies'[d] > 0
      PROVE  OutboundInv'
  <2>1. /\ RowStands(d) /\ Frame(d)
        /\ stale[d] = 0 /\ row[d].kind = "channel" => row[d].inflight
    BY <1>0, <1>1, CopiedStands
  <2>2. /\ work' \in [Worker -> WorkType] /\ \A v \in Worker : v # w => work'[v] = work[v]
        /\ work'[w].pc = "record" /\ work'[w].d = d /\ work'[w].att = work[w].att
        /\ ~work'[w].late
    BY <1>0, <1>1, GotoHand DEF Step
  <2>3. HandFits(w, d)
    BY <1>0, <1>1, <2>1, <2>2, InHand DEF HandFits
  <2> QED
    BY <1>0, <1>1, <2>1, <2>2, <2>3, InHand, GoStep DEF Slipped
<1>2. ASSUME NEW class \in Failure, Refuse(w, class), UNCHANGED <<row, job, slips>>, Copied(w),
             copies' # copies => row[d].kind # "channel"
      PROVE  OutboundInv'
  <2>1. /\ RowStands(d) /\ Frame(d)
        /\ stale[d] = 0 /\ row[d].kind = "channel" => copies'[d] = 0
    BY <1>0, <1>2, CopiedStands
  <2>2. /\ work' \in [Worker -> WorkType] /\ \A v \in Worker : v # w => work'[v] = work[v]
        /\ work'[w].pc = "clear" /\ work'[w].d = d /\ work'[w].att = work[w].att
        /\ ~work'[w].late
    BY <1>0, <1>2, RefuseHand
  <2>3. HandFits(w, d)
    BY <1>0, <1>2, <2>1, <2>2, InHand DEF HandFits
  <2> QED
    BY <1>0, <1>2, <2>1, <2>2, <2>3, InHand, GoStep DEF Slipped
<1>3. ASSUME Park(w, "unknown"), Copied(w)
      PROVE  OutboundInv'
  <2>1. Ended(w) /\ Slipped(w) /\ (row' = row \/ Parked(w, "unknown"))
    BY <1>3, ParkEnds, InHand
  <2>2. CASE row' = row
    <3>1. RowStands(d) /\ Frame(d)
      BY <1>0, <1>3, <2>2, CopiedStands
    <3> QED
      BY <1>0, <2>1, <2>2, <3>1, InHand, EndStep
  <2>3. CASE Parked(w, "unknown")
    <3> DEFINE r == [row[d] EXCEPT !.status = "parked", !.reason = "unknown"]
    <3>1. /\ r \in RowType /\ r.status = "parked" /\ r.reason = "unknown"
          /\ r.kind = row[d].kind /\ r.inflight = row[d].inflight
      BY InHand DEF RowType, Status, Reason
    <3>2. row[d].status = "pending" /\ row' = [row EXCEPT ![d] = r]
      BY <2>3 DEF Parked, Pending
    <3> HIDE DEF r
    <3>3. row' \in [Delivery -> RowType] /\ row'[d] = r /\ \A e \in Delivery : e # d => row'[e] = row[e]
      BY <3>1, <3>2, InHand
    <3>4. /\ copies'[d] \in Nat /\ copies'[d] >= copies[d] /\ copies' \in [Delivery -> Nat]
          /\ misses' \in [Delivery -> Nat]
          /\ \A e \in Delivery : e # d => copies'[e] = copies[e] /\ misses'[e] = misses[e]
          /\ copies' # copies => copies'[d] = copies[d] + 1
      BY <1>0, <1>3, CopiedCounts
    <3>5. stale[d] = 0 /\ row[d].kind = "channel" => row[d].inflight /\ copies'[d] <= 1
      BY <1>0, <3>4, InHand DEF Safe, MarkerStands
    <3>6. stale[d] = 0 /\ row[d].kind = "honours" => copies'[d] <= 1 + misses'[d]
      BY <1>0, <1>3, CopiedCounts
    <3>7. RowStands(d)
      BY <3>1, <3>3, <3>4, <3>5, <3>6 DEF RowStands
    <3>8. Frame(d)
      BY <1>0, <3>3, <3>4 DEF Frame
    <3> QED
      BY <2>1, <3>1, <3>3, <3>7, <3>8, EndStep
  <2> QED
    BY <2>1, <2>2, <2>3
<1>4. CASE FoundAtProvider(w) /\ Goto(w, "record") /\ UNCHANGED <<row, job, copies, misses, slips>>
  BY <1>1, <1>4 DEF FoundAtProvider, Copied
<1>5. CASE Transmit(w) /\ Goto(w, "record") /\ UNCHANGED <<row, job, slips>>
  <2>1. copies'[d] > 0
    BY <1>5, InHand DEF Transmit
  <2> QED
    BY <1>1, <1>5, <2>1 DEF Copied
<1>6. CASE Copied(w) /\ AnswerLost(w)
  BY <1>2, <1>3, <1>6 DEF AnswerLost, DetectsPriorSend, Failure
<1>7. CASE /\ \E class \in Failure \ {""} : Refuse(w, class)
           /\ UNCHANGED <<row, job, copies, misses, slips>>
  BY <1>2, <1>7 DEF Copied
<1> QED
  BY <1>4, <1>5, <1>6, <1>7 DEF Send, Copied

\* A definite failure: a channel that was refused holds no copy, so its marker
\* may go.
LEMMA ClearKeeps ==
    ASSUME OutboundInv, NEW w \in Worker, NEW d \in Delivery, On(w) = d, ClearInFlight(w)
    PROVE  OutboundInv'
<1> DEFINE r == [row[d] EXCEPT !.inflight = FALSE]
<1>0. work[w].pc = "clear" /\ UNCHANGED <<facts, copies, misses, stale>> /\ ~work[w].late
  BY DEF ClearInFlight, OutboundInv, LateInv
<1>1. CASE Retry(w)
  BY <1>0, <1>1, RetryKeeps
<1>2. CASE /\ row' = IF Pending(d) THEN [row EXCEPT ![d] = r] ELSE row
           /\ Goto(w, "dispose") /\ UNCHANGED <<job, slips>>
  <2>1. /\ work' \in [Worker -> WorkType] /\ \A v \in Worker : v # w => work'[v] = work[v]
        /\ work'[w].pc = "dispose" /\ work'[w].d = d /\ work'[w].att = work[w].att
        /\ ~work'[w].late
    BY <1>0, <1>2, GotoHand DEF Step
  <2>2. stale[d] = 0 /\ row[d].kind = "channel" => copies[d] = 0
    BY <1>0, InHand DEF Safe, MarkerStands
  <2>3. CASE ~Pending(d)
    <3>1. HandFits(w, d)
      BY <1>0, <1>2, <2>1, <2>2, <2>3, InHand DEF HandFits, Pending
    <3> QED
      BY <1>0, <1>2, <2>3, <3>1, GotoKeeps DEF Slipped, Step
  <2>4. CASE Pending(d)
    <3>1. /\ r \in RowType /\ r.status = row[d].status /\ r.reason = row[d].reason
          /\ r.kind = row[d].kind /\ r.attempts = row[d].attempts
      BY InHand DEF RowType
    <3> HIDE DEF r
    <3>2. row' \in [Delivery -> RowType] /\ row'[d] = r /\ \A e \in Delivery : e # d => row'[e] = row[e]
      BY <1>2, <2>4, <3>1, InHand
    <3>3. row[d].status = "pending" /\ row[d].reason = ""
      BY <2>4, InHand DEF Pending, Safe, Receipted
    <3>4. copies' = copies /\ misses' = misses /\ copies'[d] >= copies[d] /\ row'[d].attempts >= row[d].attempts
      BY <1>0, <3>1, <3>2, InHand
    <3>5. RowStands(d)
      <4>1. row[d].kind = "honours" /\ stale[d] = 0 =>
              copies[d] <= 1 + misses[d] /\ (copies[d] > 0 => row[d].attempts >= 1)
        BY <2>4, InHand DEF Safe, MailLooks
      <4>2. stale[d] = 0 /\ row[d].kind = "channel" => copies[d] <= 1 /\ ~(copies[d] > 0)
        BY <2>2, InHand
      <4> QED
        BY <3>1, <3>2, <3>3, <3>4, <4>1, <4>2 DEF RowStands
    <3>6. HandFits(w, d)
      BY <1>0, <2>1, <2>2, <3>1, <3>2, <3>3, <3>4, InHand DEF HandFits
    <3>7. Frame(d)
      BY <1>0, <3>2, InHand DEF Frame
    <3> QED
      BY <1>0, <1>2, <2>1, <3>3, <3>4, <3>5, <3>6, <3>7, GoStep DEF Slipped
  <2> QED
    BY <2>3, <2>4
<1> QED
  BY <1>1, <1>2 DEF ClearInFlight

\* The three dispositions of a failure.
LEMMA DisposeKeeps ==
    ASSUME OutboundInv, NEW w \in Worker, NEW d \in Delivery, On(w) = d, Dispose(w)
    PROVE  OutboundInv'
<1>0. work[w].pc = "dispose" /\ UNCHANGED <<facts, copies, misses, stale>>
  BY DEF Dispose
<1>1. CASE Park(w, "rejected")
  BY <1>0, <1>1, ParkKeeps DEF Reason
<1>2. CASE Throttled(w)
  <2>1. Ended(w) /\ Slipped(w) /\ (row' = row \/ Parked(w, "throttled"))
    BY <1>2, ThrottledEnds, InHand
  <2> QED
    BY <1>0, <2>1, QuietEnd DEF Reason
<1>3. CASE Retry(w)
  BY <1>0, <1>3, RetryKeeps
<1> QED
  BY <1>1, <1>2, <1>3 DEF Dispose

\* The receipt: the worker that writes it holds a copy.
LEMMA RecordKeeps ==
    ASSUME OutboundInv, NEW w \in Worker, NEW d \in Delivery, On(w) = d, RecordSent(w)
    PROVE  OutboundInv'
<1> DEFINE r == [row[d] EXCEPT !.status = "sent", !.inflight = FALSE]
<1>0. work[w].pc = "record" /\ UNCHANGED <<facts, copies, misses, stale>> /\ ~work[w].late
  BY DEF RecordSent, OutboundInv, LateInv
<1>1. /\ copies[d] > 0
      /\ stale[d] = 0 /\ row[d].kind = "channel" => row[d].inflight
  BY <1>0, InHand DEF Safe, Receipted, MarkerStands
<1>2. CASE Close(w, r)
  <2>1. /\ r \in RowType /\ r.status = "sent" /\ r.reason = row[d].reason /\ r.kind = row[d].kind
    BY InHand DEF RowType, Status
  <2>2. row[d].status = "pending" /\ row' = [row EXCEPT ![d] = r] /\ Done(w) /\ slips' = slips
    BY <1>2 DEF Close, Pending
  <2> HIDE DEF r
  <2>3. row' \in [Delivery -> RowType] /\ row'[d] = r /\ \A e \in Delivery : e # d => row'[e] = row[e]
    BY <2>1, <2>2, InHand
  <2>4. row[d].reason = ""
    BY <2>2, InHand DEF Safe, Receipted
  <2>5. copies' = copies /\ misses' = misses /\ copies'[d] >= copies[d]
    BY <1>0, InHand
  <2>6. RowStands(d)
    BY <1>1, <2>1, <2>3, <2>4, <2>5, InHand DEF RowStands, Safe, MailLooks, MarkerStands
  <2>7. Frame(d)
    BY <1>0, <2>3, InHand DEF Frame
  <2>8. Ended(w)
    BY <2>2, DoneEnds, InHand
  <2> QED
    BY <1>0, <2>1, <2>2, <2>3, <2>6, <2>7, <2>8, EndStep DEF Slipped
<1>3. CASE Skip(w)
  BY <1>0, <1>3, SkipKeeps
<1>4. CASE Slip(d) /\ Fail(w) /\ UNCHANGED row
  BY <1>0, <1>4, FaultKeeps
<1>5. CASE Slip(d) /\ ~DetectsPriorSend(d) /\ Goto(w, "parkSent") /\ UNCHANGED <<row, job>>
  <2>1. HandFits(w, d)
    BY <1>0, <1>1, <1>5, InHand, GotoHand DEF HandFits, DetectsPriorSend, Step
  <2>2. Slipped(w)
    BY <1>5, SlipCounts DEF Slipped
  <2> QED
    BY <1>0, <1>5, <2>1, <2>2, GotoKeeps DEF Step
<1> QED
  BY <1>2, <1>3, <1>4, <1>5 DEF RecordSent

\* The park against a receipt that could not be written.
LEMMA ParkTransmittedKeeps ==
    ASSUME OutboundInv, NEW w \in Worker, NEW d \in Delivery, On(w) = d, ParkTransmitted(w)
    PROVE  OutboundInv'
BY ParkKeeps DEF ParkTransmitted, Reason

\* A worker's process dies: its job stays as it is.
LEMMA CrashKeeps ==
    ASSUME OutboundInv, NEW w \in Worker, NEW d \in Delivery, On(w) = d, Crash(w)
    PROVE  OutboundInv'
<1>1. Ended(w) /\ Slipped(w) /\ slips' # slips /\ UNCHANGED <<row, facts, copies, misses, stale>>
  <2>1. slips' = [slips EXCEPT ![d] = @ + 1] /\ slips[d] \in Nat /\ slips \in [Delivery -> Nat]
    BY SlipCounts, InHand DEF Crash, OutboundTypes
  <2>2. slips'[d] = slips[d] + 1 /\ slips'[d] # slips[d]
    BY <2>1
  <2> QED
    BY <2>1, <2>2, InHand DEF Crash, Slipped, Ended, OutboundTypes
<1> QED
  BY <1>1, QuietEnd DEF Reason

-----------------------------------------------------------------------------
(* The runner, the composer and the world.                                 *)

\* Fetch: the job is a new runner's, which has counted nothing yet.
LEMMA FetchKeeps ==
    ASSUME OutboundInv, NEW w \in Worker, NEW d \in Delivery, Fetch(w, d)
    PROVE  OutboundInv'
<1> DEFINE j == [state |-> "running", runner |-> w, attempt |-> job[d].attempt + 1]
           k == [Idle EXCEPT !.pc = "load", !.d = d]
<1>1. /\ OutboundTypes /\ Safe(d) /\ Ladder(d)
      /\ work[w].pc = "idle" /\ job[d].state = "available"
      /\ job' = [job EXCEPT ![d] = j] /\ work' = [work EXCEPT ![w] = k]
      /\ UNCHANGED <<row, facts, copies, misses, slips, stale>>
  BY DEF Fetch, OutboundInv, CopyInv, LadderInv
<1>2. /\ On(w) = NoDelivery /\ job[d] \in JobType /\ job \in [Delivery -> JobType]
      /\ work \in [Worker -> WorkType] /\ job[d].attempt \in Int
  BY <1>1 DEF OutboundTypes, On, WorkType, JobType
<1>3. /\ j \in JobType /\ j.state = "running" /\ j.runner = w /\ j.attempt = job[d].attempt + 1
  BY <1>2 DEF JobType
<1>4. k \in WorkType /\ k.pc = "load" /\ k.d = d /\ k.late = FALSE
  BY IdleType DEF WorkType, Step
<1> HIDE DEF j, k
<1>5. /\ job' \in [Delivery -> JobType] /\ job'[d] = j /\ \A e \in Delivery : e # d => job'[e] = job[e]
      /\ work' \in [Worker -> WorkType] /\ work'[w] = k
      /\ \A v \in Worker : v # w => work'[v] = work[v]
  BY <1>1, <1>2, <1>3, <1>4
<1>6. OutboundTypes'
  <2>1. \A v \in Worker : (work[v].pc # "idle" <=> On(v) \in Delivery)'
    BY <1>1, <1>4, <1>5 DEF OutboundTypes, On
  <2> QED
    BY <1>1, <1>5, <2>1 DEF OutboundTypes
<1>7. Crew(d)' = Crew(d) \cup {w} /\ w \notin Crew(d)
  BY <1>2, <1>4, <1>5, OutboundAssumption DEF Crew, On
<1>8. \A v \in Crew(d) : v \in Worker /\ v # w /\ work'[v] = work[v]
  BY <1>5, <1>7 DEF Crew
<1>9. stale[d] = 0 => Crew(d) = {}
  BY <1>1 DEF Safe, Sole
<1>10. Safe(d)'
  <2>1. Unstaged(d)' /\ Sole(d)' /\ Counted(d)'
    BY <1>1, <1>3, <1>4, <1>5, <1>7, <1>9 DEF Safe, Unstaged, Sole, Counted
  <2>2. MailLooks(d)' /\ MarkerStands(d)'
    BY <1>1, <1>4, <1>5, <1>7, <1>9 DEF Safe, MailLooks, MarkerStands, Before, Pending
  <2>3. Receipted(d)'
    BY <1>1, <1>4, <1>5, <1>7, <1>8 DEF Safe, Receipted
  <2> QED
    BY <2>1, <2>2, <2>3 DEF Safe
<1>11. ASSUME NEW e \in Delivery, e # d
       PROVE  /\ Crew(e)' = Crew(e)
              /\ \A v \in Crew(e) : work'[v] = work[v]
  <2>1. e # NoDelivery
    BY OutboundAssumption
  <2>2. \A v \in Worker : work'[v].d = e <=> work[v].d = e
    BY <1>2, <1>4, <1>5, <1>11, <2>1 DEF On
  <2>3. Crew(e)' = Crew(e)
    BY <2>2 DEF Crew, On
  <2>4. w \notin Crew(e)
    BY <1>2, <2>1 DEF Crew
  <2> QED
    BY <1>5, <2>3, <2>4 DEF Crew
<1>12. ASSUME NEW e \in Delivery, e # d PROVE Safe(e)'
  <2>1. Safe(e) /\ job'[e] = job[e]
    BY <1>5, <1>12 DEF OutboundInv, CopyInv
  <2>2. Unstaged(e)' /\ Sole(e)' /\ Counted(e)'
    BY <1>1, <1>11, <1>12, <2>1 DEF Safe, Unstaged, Sole, Counted, Pending
  <2>3. MailLooks(e)'
    BY <1>1, <1>11, <1>12, <2>1 DEF Safe, MailLooks, Before, Pending
  <2>4. MarkerStands(e)'
    BY <1>1, <1>11, <1>12, <2>1 DEF Safe, MarkerStands
  <2>5. Receipted(e)'
    BY <1>1, <1>11, <1>12, <2>1 DEF Safe, Receipted
  <2> QED
    BY <2>2, <2>3, <2>4, <2>5 DEF Safe
<1>13. ASSUME NEW e \in Delivery, e # d PROVE Ladder(e)'
  <2>1. Ladder(e) /\ job'[e] = job[e]
    BY <1>5, <1>13 DEF OutboundInv, LadderInv
  <2>2. Stale(e)' = Stale(e) /\ Loading(e)' = Loading(e)
    BY <1>11, <1>13, <2>1 DEF Stale, Loading
  <2> QED
    BY <1>1, <1>11, <1>13, <2>1, <2>2 DEF Ladder, Pending
<1>14. Ladder(d)'
  <2>1. Stale(d)' = Crew(d) /\ Stale(d) = Crew(d)
    BY <1>1, <1>3, <1>5, <1>7, <1>8, OutboundAssumption DEF Ladder, Stale, Crew
  <2>2. Loading(d)' = Loading(d) \cup {w} /\ w \notin Loading(d)
    BY <1>4, <1>5, <1>7, <1>8 DEF Loading
  <2>3. /\ IsFiniteSet(Crew(d)) /\ IsFiniteSet(Crew(d)') /\ Cardinality(Crew(d)) \in Nat
        /\ IsFiniteSet(Loading(d)) /\ Cardinality(Loading(d)) \in Nat
    BY <1>1, <1>7, CrewCounts, FS_AddElement, FS_CardinalityType DEF Ladder
  <2>4. Cardinality(Loading(d)') = Cardinality(Loading(d)) + 1
    BY <2>2, <2>3, FS_AddElement
  <2>5. Pending(d)' <=> Pending(d)
    BY <1>1 DEF Pending
  <2>6. row[d].attempts \in Nat /\ slips[d] \in Nat /\ stale[d] \in Nat
    BY <1>1 DEF OutboundTypes, RowType
  <2>7. Pending(d) => job[d].attempt + Cardinality(Crew(d))
                        <= row[d].attempts + slips[d] + stale[d] + Cardinality(Loading(d))
    BY <1>1, <2>1 DEF Ladder
  <2>8. Pending(d) => job'[d].attempt + Cardinality(Stale(d)')
                        <= row[d].attempts + slips[d] + stale[d] + Cardinality(Loading(d)')
    BY <1>2, <1>3, <1>5, <2>1, <2>3, <2>4, <2>6, <2>7
  <2>9. job'[d].state = "running" <=> job'[d].runner # NoWorker
    BY <1>3, <1>5, OutboundAssumption
  <2> QED
    BY <1>1, <2>3, <2>5, <2>8, <2>9 DEF Ladder
<1>15. LateInv'
  BY <1>1, <1>4, <1>5 DEF OutboundInv, LateInv, On
<1> QED
  BY <1>6, <1>10, <1>12, <1>13, <1>14, <1>15 DEF OutboundInv, CopyInv, LadderInv

\* A step that leaves every worker as it is leaves every crew as it is.
LEMMA SameCrews ==
    ASSUME work' = work, NEW d
    PROVE  Crew(d)' = Crew(d) /\ Loading(d)' = Loading(d)
BY DEF Crew, Loading, On

\* The rescuer: a job whose worker is gone has no crew, and one whose worker is
\* alive makes it stale.
LEMMA RescueKeeps ==
    ASSUME OutboundInv, NEW d \in Delivery, Rescue(d)
    PROVE  OutboundInv'
<1> DEFINE j == Spent(job[d])
           alive == On(job[d].runner) = d
<1>1. /\ OutboundTypes /\ Safe(d) /\ Ladder(d) /\ job[d].state = "running"
      /\ job' = [job EXCEPT ![d] = j] /\ UNCHANGED <<row, work, facts, copies, misses, slips>>
      /\ stale' = [stale EXCEPT ![d] = IF alive THEN @ + 1 ELSE @]
  BY DEF Rescue, OutboundInv, CopyInv, LadderInv
<1>2. /\ job[d] \in JobType /\ job \in [Delivery -> JobType] /\ stale[d] \in Nat
      /\ stale \in [Delivery -> Nat] /\ job[d].runner \in Worker
  BY <1>1 DEF OutboundTypes, JobType, Ladder
<1>3. /\ j \in JobType /\ j.runner = NoWorker /\ j.attempt = job[d].attempt
      /\ j.state \in {"available", "discarded"}
  BY <1>2, SpentJob
<1> HIDE DEF j
<1>4. /\ job' \in [Delivery -> JobType] /\ job'[d] = j /\ \A e \in Delivery : e # d => job'[e] = job[e]
      /\ stale' \in [Delivery -> Nat] /\ \A e \in Delivery : e # d => stale'[e] = stale[e]
      /\ stale'[d] = IF alive THEN stale[d] + 1 ELSE stale[d]
  BY <1>1, <1>2, <1>3
<1>5. OutboundTypes'
  BY <1>1, <1>4 DEF OutboundTypes, On
<1>6. stale'[d] = 0 => stale[d] = 0 /\ Crew(d) = {}
  <2>1. stale'[d] = 0 => stale[d] = 0 /\ ~alive
    BY <1>2, <1>4
  <2>2. stale[d] = 0 /\ ~alive => Crew(d) = {}
    BY <1>1 DEF Safe, Sole, Crew
  <2> QED
    BY <2>1, <2>2
<1>7. Safe(d)'
  <2>1. Unstaged(d)' /\ Sole(d)' /\ Counted(d)'
    BY <1>1, <1>6, SameCrews DEF Safe, Unstaged, Sole, Counted
  <2>2. MailLooks(d)' /\ MarkerStands(d)' /\ Receipted(d)'
    BY <1>1, <1>6, SameCrews DEF Safe, MailLooks, MarkerStands, Receipted, Pending
  <2> QED
    BY <2>1, <2>2 DEF Safe
<1>8. ASSUME NEW e \in Delivery, e # d PROVE Safe(e)' /\ Ladder(e)'
  <2>1. Safe(e) /\ Ladder(e) /\ job'[e] = job[e] /\ stale'[e] = stale[e]
    BY <1>4, <1>8 DEF OutboundInv, CopyInv, LadderInv
  <2>2. Unstaged(e)' /\ Sole(e)' /\ Counted(e)'
    BY <1>1, <2>1, SameCrews DEF Safe, Unstaged, Sole, Counted, Pending
  <2>3. MailLooks(e)' /\ MarkerStands(e)' /\ Receipted(e)'
    BY <1>1, <2>1, SameCrews DEF Safe, MailLooks, MarkerStands, Receipted, Before, Pending
  <2>4. Stale(e)' = Stale(e)
    BY <2>1, <1>1, SameCrews DEF Stale
  <2>5. Ladder(e)'
    BY <1>1, <2>1, <2>4, SameCrews DEF Ladder, Pending
  <2> QED
    BY <2>2, <2>3, <2>5 DEF Safe
<1>9. Ladder(d)'
  <2> DEFINE x == job[d].runner
  <2>1. /\ Stale(d)' = IF alive THEN Stale(d) \cup {x} ELSE Stale(d)
        /\ x \notin Stale(d)
    BY <1>1, <1>2, <1>3, <1>4, SameCrews, OutboundAssumption DEF Stale, Crew
  <2>2. /\ IsFiniteSet(Stale(d)) /\ Cardinality(Stale(d)) \in Nat /\ Cardinality(Loading(d)) \in Nat
    BY <1>1, CrewCounts DEF Ladder
  <2>3. Cardinality(Stale(d)') = IF alive THEN Cardinality(Stale(d)) + 1 ELSE Cardinality(Stale(d))
    BY <2>1, <2>2, FS_AddElement
  <2>4. row[d].attempts \in Nat /\ slips[d] \in Nat /\ job[d].attempt \in Int
    BY <1>1, <1>2 DEF OutboundTypes, RowType, JobType
  <2>5. Pending(d) => job[d].attempt + Cardinality(Stale(d))
                        <= row[d].attempts + slips[d] + stale[d] + Cardinality(Loading(d))
    BY <1>1 DEF Ladder
  <2>6. Pending(d) => job[d].attempt + Cardinality(Stale(d)')
                        <= row[d].attempts + slips[d] + stale'[d] + Cardinality(Loading(d))
    <3> HIDE DEF alive
    <3> QED
      BY <1>2, <1>4, <2>2, <2>3, <2>4, <2>5
  <2> QED
    BY <1>1, <1>3, <1>4, <2>6, SameCrews DEF Ladder, Pending
<1>10. LateInv'
  BY <1>1 DEF OutboundInv, LateInv, On
<1> QED
  BY <1>5, <1>7, <1>8, <1>9, <1>10 DEF OutboundInv, CopyInv, LadderInv

\* A step of the world changes one row and at most its job: every other
\* delivery stays safe.
LEMMA WorldOthers ==
    ASSUME OutboundInv, NEW d \in Delivery, UNCHANGED <<work, copies, misses, slips, stale>>,
           NEW e \in Delivery, row'[e] = row[e], job'[e] = job[e]
    PROVE  Safe(e)' /\ Ladder(e)'
<1>1. Safe(e) /\ Ladder(e)
  BY DEF OutboundInv, CopyInv, LadderInv
<1>2. Unstaged(e)' /\ Sole(e)' /\ Counted(e)'
  BY <1>1, SameCrews DEF Safe, Unstaged, Sole, Counted, Pending
<1>3. MailLooks(e)' /\ MarkerStands(e)' /\ Receipted(e)'
  BY <1>1, SameCrews DEF Safe, MailLooks, MarkerStands, Receipted, Before, Pending
<1>4. Stale(e)' = Stale(e)
  BY SameCrews DEF Stale
<1> QED
  BY <1>1, <1>2, <1>3, <1>4, SameCrews DEF Safe, Ladder, Pending

\* The composer stages a message that nobody has touched yet.
LEMMA StageKeeps ==
    ASSUME OutboundInv, NEW d \in Delivery, NEW kd \in Kind, Stage(d, kd)
    PROVE  OutboundInv'
<1> DEFINE r == [row[d] EXCEPT !.status = "pending", !.kind = kd]
           j == [job[d] EXCEPT !.state = "available"]
<1>1. /\ OutboundTypes /\ Safe(d) /\ Ladder(d) /\ row[d].status = "none"
      /\ row' = [row EXCEPT ![d] = r] /\ job' = [job EXCEPT ![d] = j]
      /\ UNCHANGED <<work, facts, copies, misses, slips, stale>>
  BY DEF Stage, OutboundInv, CopyInv, LadderInv
<1>2. /\ row[d] \in RowType /\ row \in [Delivery -> RowType]
      /\ job[d] \in JobType /\ job \in [Delivery -> JobType]
  BY <1>1 DEF OutboundTypes
<1>3. /\ copies[d] = 0 /\ Crew(d) = {} /\ job[d].state = "none" /\ job[d].attempt = 0
      /\ row[d].reason = "" /\ job[d].runner = NoWorker
  BY <1>1 DEF Safe, Unstaged, Receipted, Ladder
<1>4. /\ r \in RowType /\ r.status = "pending" /\ r.kind = kd /\ r.reason = "" /\ r.attempts \in Nat
  BY <1>2, <1>3 DEF RowType, Status
<1>5. /\ j \in JobType /\ j.state = "available" /\ j.attempt = 0 /\ j.runner = NoWorker
  BY <1>2, <1>3 DEF JobType
<1> HIDE DEF r, j
<1>6. /\ row' \in [Delivery -> RowType] /\ row'[d] = r /\ \A e \in Delivery : e # d => row'[e] = row[e]
      /\ job' \in [Delivery -> JobType] /\ job'[d] = j /\ \A e \in Delivery : e # d => job'[e] = job[e]
  BY <1>1, <1>2, <1>4, <1>5
<1>7. OutboundTypes'
  BY <1>1, <1>6 DEF OutboundTypes, On
<1>8. /\ Crew(d)' = {} /\ copies'[d] = 0 /\ copies'[d] <= 1 /\ ~(copies'[d] > 0)
      /\ copies'[d] <= 1 + misses'[d]
  <2>1. Crew(d)' = {} /\ copies'[d] = 0 /\ misses'[d] \in Nat
    BY <1>1, <1>3, <1>7, SameCrews DEF OutboundTypes
  <2> QED
    BY <2>1
<1>9. Safe(d)'
  <2>1. Unstaged(d)' /\ Sole(d)' /\ Counted(d)'
    BY <1>4, <1>6, <1>8 DEF Unstaged, Sole, Counted
  <2>2. MailLooks(d)' /\ MarkerStands(d)'
    <3>1. MailLooks(d)'
      BY <1>8 DEF MailLooks
    <3> QED
      BY <1>8, <3>1 DEF MarkerStands
  <2>3. Receipted(d)'
    BY <1>4, <1>6, <1>8 DEF Receipted
  <2> QED
    BY <2>1, <2>2, <2>3 DEF Safe
<1>10. Ladder(d)'
  <2>1. /\ Stale(d)' = {} /\ Loading(d)' = {}
    BY <1>8 DEF Stale, Loading
  <2>2. slips'[d] \in Nat /\ stale'[d] \in Nat
    BY <1>7 DEF OutboundTypes
  <2>3. job'[d].attempt + 0 <= row'[d].attempts + slips'[d] + stale'[d] + 0
    <3>1. job'[d].attempt = 0 /\ row'[d].attempts \in Nat
      BY <1>4, <1>5, <1>6
    <3> QED
      BY <2>2, <3>1
  <2> QED
    BY <1>5, <1>6, <1>8, <2>1, <2>3, FS_EmptySet DEF Ladder
<1>11. ASSUME NEW e \in Delivery PROVE Safe(e)' /\ Ladder(e)'
  <2>1. CASE e = d
    BY <2>1, <1>9, <1>10
  <2>2. CASE e # d
    BY <2>2, <1>1, <1>6, WorldOthers
  <2> QED
    BY <2>1, <2>2
<1>12. LateInv'
  BY <1>1 DEF OutboundInv, LateInv, On
<1> QED
  BY <1>7, <1>11, <1>12 DEF OutboundInv, CopyInv, LadderInv

\* An erasure closes the row and leaves its marker.
LEMMA ScrubKeeps ==
    ASSUME OutboundInv, NEW d \in Delivery, Scrub(d)
    PROVE  OutboundInv'
<1> DEFINE r == [row[d] EXCEPT !.status = IF @ = "pending" THEN "parked" ELSE @,
                               !.reason = IF Pending(d) THEN "scrubbed" ELSE ""]
<1>1. /\ OutboundTypes /\ Safe(d) /\ Ladder(d) /\ row[d].status # "none"
      /\ row' = [row EXCEPT ![d] = r] /\ UNCHANGED <<job, work, facts, copies, misses, slips, stale>>
  BY DEF Scrub, OutboundInv, CopyInv, LadderInv
<1>2. row[d] \in RowType /\ row \in [Delivery -> RowType]
  BY <1>1 DEF OutboundTypes
<1>3. /\ r \in RowType /\ r.status \in {"sent", "parked"} /\ r.reason \in {"scrubbed", ""}
      /\ r.status = "sent" <=> row[d].status = "sent"
      /\ r.inflight = row[d].inflight /\ r.kind = row[d].kind
  BY <1>1, <1>2 DEF RowType, Status, Reason
<1> HIDE DEF r
<1>4. row' \in [Delivery -> RowType] /\ row'[d] = r /\ \A e \in Delivery : e # d => row'[e] = row[e]
  BY <1>1, <1>2, <1>3
<1>5. OutboundTypes'
  BY <1>1, <1>4 DEF OutboundTypes, On
<1>6. Safe(d)'
  <2>1. Unstaged(d)' /\ Sole(d)'
    BY <1>1, <1>3, <1>4, SameCrews DEF Safe, Unstaged, Sole
  <2>2. Counted(d)'
    <3>1. Counted(d) /\ stale' = stale
      BY <1>1 DEF Safe
    <3>2. Crew(d)' = Crew(d) /\ work' = work
      BY <1>1, SameCrews
    <3>3. row'[d].status # "pending"
      BY <1>3, <1>4
    <3> QED
      BY ONLY <3>1, <3>2, <3>3 DEF Counted, Pending
  <2>3. MailLooks(d)' /\ MarkerStands(d)' /\ Receipted(d)'
    BY <1>1, <1>3, <1>4, SameCrews DEF Safe, MailLooks, MarkerStands, Receipted, Pending, Before
  <2> QED
    BY <2>1, <2>2, <2>3 DEF Safe
<1>7. Ladder(d)'
  BY <1>1, <1>3, <1>4, SameCrews DEF Ladder, Pending
<1>8. ASSUME NEW e \in Delivery PROVE Safe(e)' /\ Ladder(e)'
  <2>1. CASE e = d
    BY <2>1, <1>6, <1>7
  <2>2. CASE e # d
    BY <2>2, <1>1, <1>4, WorldOthers
  <2> QED
    BY <2>1, <2>2
<1>9. LateInv'
  BY <1>1 DEF OutboundInv, LateInv, On
<1> QED
  BY <1>5, <1>8, <1>9 DEF OutboundInv, CopyInv, LadderInv

\* A clearance only goes, and age is read by nobody the invariant knows.
LEMMA FactsKeep ==
    ASSUME OutboundInv, NEW d \in Delivery, Withdraw(d) \/ Age(d)
    PROVE  OutboundInv'
<1>1. /\ OutboundTypes /\ UNCHANGED <<row, job, work, copies, misses, slips, stale>>
      /\ \/ facts' = [facts EXCEPT ![d].allowed = FALSE]
         \/ facts' = [facts EXCEPT ![d].aged = TRUE]
  BY DEF Withdraw, Age, OutboundInv, CopyInv
<1>2. /\ facts' \in [Delivery -> [allowed : BOOLEAN, aged : BOOLEAN]]
      /\ \A e \in Delivery : ~facts[e].allowed => ~facts'[e].allowed
  <2>1. facts \in [Delivery -> [allowed : BOOLEAN, aged : BOOLEAN]]
    BY <1>1 DEF OutboundTypes
  <2>2. CASE facts' = [facts EXCEPT ![d].allowed = FALSE]
    BY <2>1, <2>2
  <2>3. CASE facts' = [facts EXCEPT ![d].aged = TRUE]
    BY <2>1, <2>3
  <2> QED
    BY <1>1, <2>2, <2>3
<1>3. OutboundTypes'
  BY <1>1, <1>2 DEF OutboundTypes, On
<1>4. \A e \in Delivery : Safe(e)' /\ Ladder(e)'
  BY <1>1, WorldOthers
<1>5. LateInv'
  BY <1>1, <1>2 DEF OutboundInv, LateInv, On, CopyInv, OutboundTypes
<1> QED
  BY <1>3, <1>4, <1>5 DEF OutboundInv, CopyInv, LadderInv

-----------------------------------------------------------------------------
(* The results.                                                            *)

\* A worker that takes a step of an attempt has a delivery in hand.
LEMMA AttemptKeeps ==
    ASSUME OutboundInv, NEW w \in Worker, Attempt(w) \/ Crash(w)
    PROVE  OutboundInv'
<1>1. work[w].pc # "idle"
  BY DEF Attempt, Crash, Load, Gates, Pace, Guard, Send, ClearInFlight, Dispose, RecordSent,
         ParkTransmitted
<1>2. On(w) \in Delivery
  BY <1>1, Working DEF OutboundInv, CopyInv
<1>3. PICK d \in Delivery : On(w) = d
  BY <1>2
<1>4. CASE Load(w) \/ Gates(w) \/ Pace(w) \/ Guard(w)
  BY <1>3, <1>4, LoadKeeps, GatesKeeps, PaceKeeps, GuardKeeps
<1>5. CASE Send(w) \/ ClearInFlight(w) \/ Dispose(w)
  BY <1>3, <1>5, SendKeeps, ClearKeeps, DisposeKeeps
<1>6. CASE RecordSent(w) \/ ParkTransmitted(w) \/ Crash(w)
  BY <1>3, <1>6, RecordKeeps, ParkTransmittedKeeps, CrashKeeps
<1> QED
  BY <1>4, <1>5, <1>6 DEF Attempt

\* At the start nothing is staged and nobody works.
LEMMA OutboundInit ==
    Init => OutboundInv
<1> SUFFICES ASSUME Init PROVE OutboundInv
  OBVIOUS
<1>1. OutboundTypes
  <2>1. row \in [Delivery -> RowType]
    BY DEF Init, RowType, Status, Reason, Kind
  <2>2. job \in [Delivery -> JobType]
    <3>1. [state |-> "none", attempt |-> 0, runner |-> NoWorker] \in JobType
      BY DEF JobType
    <3> QED
      BY <3>1 DEF Init
  <2>3. work \in [Worker -> WorkType] /\ \A w \in Worker : work[w] = Idle
    BY IdleType DEF Init
  <2>4. \A w \in Worker : work[w].pc # "idle" <=> On(w) \in Delivery
    BY <2>3, IdleType, OutboundAssumption DEF On
  <2> QED
    BY <2>1, <2>2, <2>3, <2>4 DEF Init, OutboundTypes
<1>2. \A w \in Worker : work[w] = Idle
  BY DEF Init
<1>3. \A d \in Delivery : Crew(d) = {}
  BY <1>2, IdleType, OutboundAssumption DEF Crew, On
<1>4. ASSUME NEW d \in Delivery PROVE Safe(d)
  <2>1. /\ row[d].status = "none" /\ row[d].reason = "" /\ row[d].kind = "honours"
        /\ job[d].state = "none" /\ job[d].attempt = 0 /\ copies[d] = 0
    BY DEF Init
  <2>2. copies[d] <= 1 /\ ~(copies[d] > 0) /\ copies[d] <= 1 + misses[d]
    <3>1. copies[d] = 0 /\ misses[d] = 0
      BY <2>1 DEF Init
    <3> QED
      BY <3>1
  <2>3. MailLooks(d) /\ MarkerStands(d)
    BY <2>1, <2>2 DEF MailLooks, MarkerStands
  <2> QED
    BY <1>3, <2>1, <2>3 DEF Safe, Unstaged, Sole, Counted, Receipted
<1>5. ASSUME NEW d \in Delivery PROVE Ladder(d)
  <2>1. row[d].status = "none" /\ job[d].state = "none" /\ job[d].runner = NoWorker
    BY DEF Init
  <2> QED
    BY <1>3, <2>1, FS_EmptySet DEF Ladder, Pending
<1>6. LateInv
  BY <1>2, IdleType DEF LateInv
<1> QED
  BY <1>1, <1>4, <1>5, <1>6 DEF OutboundInv, CopyInv, LadderInv

\* Every step keeps the invariant.
LEMMA OutboundStep ==
    ASSUME OutboundInv, [Next]_vars
    PROVE  OutboundInv'
<1>1. CASE \E d \in Delivery, kd \in Kind : Stage(d, kd)
  BY <1>1, StageKeeps
<1>2. CASE \E d \in Delivery : Rescue(d) \/ Withdraw(d) \/ Age(d) \/ Scrub(d)
  BY <1>2, RescueKeeps, FactsKeep, ScrubKeeps
<1>3. CASE \E w \in Worker, d \in Delivery : Fetch(w, d)
  BY <1>3, FetchKeeps
<1>4. CASE \E w \in Worker : Crash(w) \/ Attempt(w)
  BY <1>4, AttemptKeeps
<1>5. CASE UNCHANGED vars
  <2>1. \A d \in Delivery : Safe(d)' /\ Ladder(d)'
    BY <1>5, WorldOthers DEF vars
  <2>2. OutboundTypes' /\ LateInv'
    BY <1>5 DEF vars, OutboundInv, CopyInv, OutboundTypes, LateInv, On
  <2> QED
    BY <2>1, <2>2 DEF OutboundInv, CopyInv, LadderInv
<1> QED
  BY <1>1, <1>2, <1>3, <1>4, <1>5 DEF Next

\* The inductive invariant holds throughout.
THEOREM OutboundInvariant == OutboundSpec => []OutboundInv
<1>1. Init => OutboundInv
  BY OutboundInit
<1>2. OutboundInv /\ [Next]_vars => OutboundInv'
  BY OutboundStep
<1> QED
  BY <1>1, <1>2, PTL DEF OutboundSpec

\* The shapes of the rows, the jobs and the attempts.
THEOREM OutboundTyped == OutboundSpec => []OutboundTypeOK
<1>1. OutboundInv => OutboundTypeOK
  BY DEF OutboundInv, CopyInv, OutboundTypes, OutboundTypeOK, RowType, JobType, WorkType
<1> QED
  BY <1>1, OutboundInvariant, PTL

\* At most once, while no two attempts overlap: a channel accepts one copy, and
\* mail that keeps its identity is sent once more only for each lookup that
\* missed a copy that was there; store faults, worker deaths, lost answers,
\* throttling and pacing make none (Dispatcher.transmit, guardAtMostOnce,
\* SendEmail).
THEOREM AtMostOneCopy == OutboundSpec => []OneCopy
<1>1. OutboundInv => OneCopy
  BY DEF OutboundInv, CopyInv, Safe, MailLooks, MarkerStands, OneCopy
<1> QED
  BY <1>1, OutboundInvariant, PTL

\* A receipt is of a copy, and a channel message the provider accepted is never
\* without a trace on its row (RecordSent, ParkTransmitted, ClearInFlight).
THEOREM RowsAccountForCopies == OutboundSpec => []RowAccountsForCopies
<1>1. OutboundInv => RowAccountsForCopies
  BY DEF OutboundInv, CopyInv, Safe, MarkerStands, Receipted, RowAccountsForCopies
<1> QED
  BY <1>1, OutboundInvariant, PTL

\* No attempt that starts after a withdrawal reaches the provider, whatever
\* its rung (DispatchWithWait, the gates).
THEOREM WithdrawnStops == OutboundSpec => []WithdrawnStopsTheNextAttempt
<1>1. OutboundInv => WithdrawnStopsTheNextAttempt
  BY DEF OutboundInv, LateInv, WithdrawnStopsTheNextAttempt
<1> QED
  BY <1>1, OutboundInvariant, PTL

\* River's rungs never run ahead of the row's, but for what a fault or a rescue
\* cost (Load, RecordDeferral, postpone, throttled).
THEOREM LaddersInStep == OutboundSpec => []LadderKeepsUp
<1>1. OutboundInv => LadderKeepsUp
  <2> SUFFICES ASSUME OutboundInv, NEW d \in Delivery, Pending(d)
               PROVE  job[d].attempt <= row[d].attempts + slips[d] + stale[d]
                        + Cardinality({w \in Worker : On(w) = d /\ work[w].pc = "load"})
    BY DEF LadderKeepsUp
  <2>1. Loading(d) = {w \in Worker : On(w) = d /\ work[w].pc = "load"}
    BY DEF Loading, Crew
  <2>2. Ladder(d) /\ Cardinality(Stale(d)) \in Nat /\ Cardinality(Loading(d)) \in Nat
    BY CrewCounts DEF OutboundInv, LadderInv, Ladder
  <2>3. /\ job[d].attempt \in Int /\ row[d].attempts \in Nat
        /\ slips[d] \in Nat /\ stale[d] \in Nat
    BY DEF OutboundInv, CopyInv, OutboundTypes, RowType, JobType
  <2>4. job[d].attempt <= row[d].attempts + slips[d] + stale[d] + Cardinality(Loading(d))
    BY <2>2, <2>3 DEF Ladder
  <2> QED
    BY <2>1, <2>4
<1> QED
  BY <1>1, OutboundInvariant, PTL

\* What a worker may write to the rows: one that is still open, or none.
OpenOnly ==
    \/ row' = row
    \/ \E d \in Delivery : Pending(d) /\ \A e \in Delivery : e # d => row'[e] = row[e]

\* Every write of an attempt is guarded on status = 'pending'.
LEMMA AttemptWritesOpen ==
    ASSUME OutboundInv, NEW w \in Worker, Attempt(w) \/ Crash(w)
    PROVE  OpenOnly
<1>1. work[w].pc # "idle"
  BY DEF Attempt, Crash, Load, Gates, Pace, Guard, Send, ClearInFlight, Dispose, RecordSent,
         ParkTransmitted
<1>2. On(w) \in Delivery /\ OutboundTypes /\ row \in [Delivery -> RowType]
  BY <1>1, Working DEF OutboundInv, CopyInv, OutboundTypes
<1>3. ASSUME Pending(On(w)), NEW r, row' = [row EXCEPT ![On(w)] = r] PROVE OpenOnly
  BY <1>2, <1>3 DEF OpenOnly
<1>4. ASSUME NEW why, Park(w, why) PROVE OpenOnly
  BY <1>2, <1>3, <1>4, ParkEnds DEF Parked, OpenOnly
<1>5. ASSUME Retry(w) \/ Skip(w) PROVE OpenOnly
  BY <1>2, <1>5, RetryEnds, SkipEnds DEF OpenOnly
<1>6. ASSUME Throttled(w) PROVE OpenOnly
  BY <1>2, <1>3, <1>6, ThrottledEnds DEF Parked, OpenOnly
<1>7. ASSUME NEW r, Close(w, r) PROVE OpenOnly
  BY <1>3, <1>7 DEF Close
<1>8. CASE Load(w)
  BY <1>3, <1>5, <1>8 DEF Load, OpenOnly
<1>9. CASE Gates(w)
  BY <1>4, <1>5, <1>9 DEF Gates, OpenOnly
<1>10. CASE Pace(w)
  BY <1>3, <1>4, <1>5, <1>10 DEF Pace, Postpone, OpenOnly
<1>11. CASE Guard(w)
  BY <1>3, <1>4, <1>5, <1>11 DEF Guard, OpenOnly
<1>12. CASE Send(w)
  BY <1>4, <1>12 DEF Send, AnswerLost, OpenOnly
<1>13. CASE ClearInFlight(w)
  BY <1>3, <1>5, <1>13 DEF ClearInFlight, OpenOnly
<1>14. CASE Dispose(w)
  BY <1>4, <1>5, <1>6, <1>14 DEF Dispose
<1>15. CASE RecordSent(w)
  BY <1>5, <1>7, <1>15 DEF RecordSent, OpenOnly
<1>16. CASE ParkTransmitted(w)
  BY <1>4, <1>16 DEF ParkTransmitted
<1>17. CASE Crash(w)
  BY <1>17 DEF Crash, OpenOnly
<1> QED
  BY <1>8, <1>9, <1>10, <1>11, <1>12, <1>13, <1>14, <1>15, <1>16, <1>17 DEF Attempt

\* A closed row is never reopened or overwritten; an erasure only blanks its
\* reason (the status = 'pending' guards, redactDeliveries).
THEOREM ClosedStaysClosed == OutboundSpec => ClosedIsFinal
<1> DEFINE Final(d) == row[d].status \in {"sent", "parked"} =>
                         /\ row'[d].status = row[d].status
                         /\ row'[d].reason \in {row[d].reason, ""}
<1>1. ASSUME OutboundInv, [Next]_vars, NEW d \in Delivery, row[d].status \in {"sent", "parked"}
      PROVE  row'[d].status = row[d].status /\ row'[d].reason \in {row[d].reason, ""}
  <2>1. row \in [Delivery -> RowType] /\ row[d] \in RowType
    BY <1>1 DEF OutboundInv, CopyInv, OutboundTypes
  <2>2. CASE OpenOnly
    BY <1>1, <2>2 DEF OpenOnly, Pending
  <2>3. CASE UNCHANGED row
    BY <2>3
  <2>4. ASSUME NEW e \in Delivery, NEW kd \in Kind, Stage(e, kd)
        PROVE  row'[d] = row[d]
    BY <1>1, <2>1, <2>4 DEF Stage
  <2>5. ASSUME NEW e \in Delivery, Scrub(e)
        PROVE  row'[d].status = row[d].status /\ row'[d].reason \in {row[d].reason, ""}
    <3>1. CASE e = d
      BY <1>1, <2>1, <2>5, <3>1 DEF Scrub, RowType, Pending
    <3>2. CASE e # d
      BY <2>1, <2>5, <3>2 DEF Scrub
    <3> QED
      BY <3>1, <3>2
  <2>6. CASE Next
    <3>1. CASE \E w \in Worker : Crash(w) \/ Attempt(w)
      BY <1>1, <2>2, <3>1, AttemptWritesOpen
    <3>2. CASE \E e \in Delivery : Rescue(e) \/ Withdraw(e) \/ Age(e)
      BY <2>3, <3>2 DEF Rescue, Withdraw, Age
    <3>3. CASE \E w \in Worker, e \in Delivery : Fetch(w, e)
      BY <2>3, <3>3 DEF Fetch
    <3> QED
      BY <2>4, <2>5, <2>6, <3>1, <3>2, <3>3 DEF Next
  <2> QED
    BY <1>1, <2>3, <2>6 DEF vars
<1>2. OutboundInv /\ [Next]_vars => [\A d \in Delivery : Final(d)]_vars
  BY <1>1
<1> QED
  BY <1>2, OutboundInvariant, PTL DEF OutboundSpec, ClosedIsFinal

-----------------------------------------------------------------------------
(* No open row is forgotten.  Whatever verdict an attempt comes to, its job *)
(* runs again, has used up its ladder, or completes behind a closed row.    *)

JobAnswered(w) ==
    /\ \A e \in Delivery : e # On(w) => job'[e] = job[e]
    /\ \/ job'[On(w)] = job[On(w)]
       \/ job'[On(w)].state = "available"
       \/ job'[On(w)].state = "discarded" /\ job'[On(w)].attempt >= MaxAttempts
       \/ job'[On(w)].state = "done" /\ row'[On(w)].status # "pending"

\* What must be true of every delivery and its job for that to last.
HasJob(d) ==
    /\ row[d].status # "none" => job[d].state # "none"
    /\ job[d].state = "done" => row[d].status # "pending"
    /\ job[d].state = "discarded" => job[d].attempt >= MaxAttempts

JobInv == \A d \in Delivery : HasJob(d)

\* A verdict moves the job of its own delivery, if it moves one.
LEMMA ReportsItsJob ==
    ASSUME OutboundTypes, NEW w \in Worker, On(w) \in Delivery, NEW j, Report(w, j)
    PROVE  /\ \A e \in Delivery : e # On(w) => job'[e] = job[e]
           /\ job'[On(w)] \in {job[On(w)], j}
<1>1. job \in [Delivery -> JobType]
  BY DEF OutboundTypes
<1> QED
  BY <1>1 DEF Report

\* A completed job leaves a row that is closed.
LEMMA DoneAnswers ==
    ASSUME OutboundTypes, NEW w \in Worker, On(w) \in Delivery, Done(w),
           row'[On(w)].status # "pending"
    PROVE  JobAnswered(w)
<1> DEFINE j == [job[On(w)] EXCEPT !.state = "done", !.runner = NoWorker]
<1>1. job[On(w)] \in JobType
  BY DEF OutboundTypes
<1>2. j.state = "done"
  BY <1>1 DEF JobType
<1>3. Report(w, j)
  BY DEF Done
<1> HIDE DEF j
<1> QED
  BY <1>2, <1>3, ReportsItsJob DEF JobAnswered

\* A snoozed job runs again.
LEMMA SnoozeAnswers ==
    ASSUME OutboundTypes, NEW w \in Worker, On(w) \in Delivery, Snooze(w)
    PROVE  JobAnswered(w)
<1> DEFINE j == [state |-> "available", runner |-> NoWorker, attempt |-> job[On(w)].attempt - 1]
<1>1. j.state = "available" /\ Report(w, j)
  BY DEF Snooze
<1> HIDE DEF j
<1> QED
  BY <1>1, ReportsItsJob DEF JobAnswered

\* A spent job runs again, or its ladder is used up.
LEMMA SpentAnswers ==
    ASSUME NEW j \in JobType
    PROVE  \/ Spent(j).state = "available"
           \/ Spent(j).state = "discarded" /\ Spent(j).attempt >= MaxAttempts
<1>1. MaxAttempts \in Int /\ j.attempt \in Int
  BY OutboundAssumption DEF JobType
<1>2. Spent(j).attempt = j.attempt
  BY SpentJob
<1>3. Spent(j).state = IF j.attempt < MaxAttempts THEN "available" ELSE "discarded"
  BY DEF Spent, JobType
<1> QED
  BY <1>1, <1>2, <1>3

\* A failed job likewise.
LEMMA FailAnswers ==
    ASSUME OutboundTypes, NEW w \in Worker, On(w) \in Delivery, Fail(w)
    PROVE  JobAnswered(w)
<1>1. job[On(w)] \in JobType
  BY DEF OutboundTypes
<1>2. Report(w, Spent(job[On(w)]))
  BY DEF Fail
<1> QED
  BY <1>1, <1>2, SpentAnswers, ReportsItsJob DEF JobAnswered

\* Closing, skipping, parking, retrying, pacing and throttling.
LEMMA DispositionAnswers ==
    ASSUME OutboundTypes, NEW w \in Worker, On(w) \in Delivery
    PROVE  /\ \A r : Close(w, r) /\ r.status # "pending" => JobAnswered(w)
           /\ Skip(w) => JobAnswered(w)
           /\ \A why : Park(w, why) => JobAnswered(w)
           /\ Retry(w) => JobAnswered(w)
           /\ Postpone(w) => JobAnswered(w)
           /\ Throttled(w) => JobAnswered(w)
<1>0. row \in [Delivery -> RowType] /\ row[On(w)] \in RowType
  BY DEF OutboundTypes
<1>1. ASSUME NEW r, Close(w, r), r.status # "pending" PROVE JobAnswered(w)
  <2>1. row'[On(w)].status # "pending" /\ Done(w)
    BY <1>0, <1>1 DEF Close
  <2> QED
    BY <2>1, DoneAnswers
<1>2. ASSUME Skip(w) PROVE JobAnswered(w)
  <2>1. row'[On(w)].status # "pending" /\ Done(w)
    BY <1>2 DEF Skip, Pending
  <2> QED
    BY <2>1, DoneAnswers
<1>3. ASSUME NEW why, Park(w, why) PROVE JobAnswered(w)
  <2> DEFINE r == [row[On(w)] EXCEPT !.status = "parked", !.reason = why]
  <2>1. r.status # "pending"
    BY <1>0 DEF RowType
  <2>2. Close(w, r) \/ Skip(w) \/ Fail(w)
    BY <1>3 DEF Park
  <2> HIDE DEF r
  <2> QED
    BY <1>1, <1>2, <2>1, <2>2, FailAnswers
<1>4. Retry(w) => JobAnswered(w)
  BY <1>2, FailAnswers DEF Retry
<1>5. Postpone(w) => JobAnswered(w)
  BY <1>2, FailAnswers, SnoozeAnswers DEF Postpone
<1>6. Throttled(w) => JobAnswered(w)
  BY <1>2, <1>3, FailAnswers, SnoozeAnswers DEF Throttled
<1> QED
  BY <1>1, <1>2, <1>3, <1>4, <1>5, <1>6

\* Every step of an attempt, and the death of its worker.
LEMMA AttemptAnswers ==
    ASSUME OutboundInv, NEW w \in Worker, Attempt(w) \/ Crash(w)
    PROVE  JobAnswered(w) /\ On(w) \in Delivery
<1>1. work[w].pc # "idle"
  BY DEF Attempt, Crash, Load, Gates, Pace, Guard, Send, ClearInFlight, Dispose, RecordSent,
         ParkTransmitted
<1>2. On(w) \in Delivery /\ OutboundTypes /\ row[On(w)] \in RowType
  BY <1>1, Working DEF OutboundInv, CopyInv, OutboundTypes
<1> SUFFICES JobAnswered(w)
  BY <1>2
<1>3. job' = job => JobAnswered(w)
  BY DEF JobAnswered
<1>4. ASSUME NEW r, Close(w, r), r.status # "pending" PROVE JobAnswered(w)
  BY <1>2, <1>4, DispositionAnswers
<1>5. ASSUME NEW why, Park(w, why) PROVE JobAnswered(w)
  BY <1>2, <1>5, DispositionAnswers
<1>6. Skip(w) \/ Retry(w) \/ Postpone(w) \/ Throttled(w) \/ Fail(w) => JobAnswered(w)
  BY <1>2, DispositionAnswers, FailAnswers
<1>7. CASE Load(w)
  BY <1>3, <1>6, <1>7 DEF Load
<1>8. CASE Gates(w)
  BY <1>3, <1>5, <1>6, <1>8 DEF Gates
<1>9. CASE Pace(w)
  BY <1>3, <1>5, <1>6, <1>9 DEF Pace
<1>10. CASE Guard(w)
  BY <1>3, <1>5, <1>6, <1>10 DEF Guard
<1>11. CASE Send(w)
  BY <1>3, <1>5, <1>11 DEF Send, AnswerLost
<1>12. CASE ClearInFlight(w)
  BY <1>3, <1>6, <1>12 DEF ClearInFlight
<1>13. CASE Dispose(w)
  BY <1>5, <1>6, <1>13 DEF Dispose
<1>14. CASE RecordSent(w)
  <2> DEFINE r == [row[On(w)] EXCEPT !.status = "sent", !.inflight = FALSE]
  <2>1. r.status # "pending"
    BY <1>2 DEF RowType
  <2>2. Close(w, r) \/ Skip(w) \/ Fail(w) \/ job' = job
    BY <1>14 DEF RecordSent
  <2> HIDE DEF r
  <2> QED
    BY <1>3, <1>4, <1>6, <2>1, <2>2
<1>15. CASE ParkTransmitted(w)
  BY <1>5, <1>15 DEF ParkTransmitted
<1>16. CASE Crash(w)
  BY <1>3, <1>16 DEF Crash
<1> QED
  BY <1>2, <1>7, <1>8, <1>9, <1>10, <1>11, <1>12, <1>13, <1>14, <1>15, <1>16 DEF Attempt

\* Every step keeps every delivery with its job.
LEMMA JobStep ==
    ASSUME OutboundInv, JobInv, [Next]_vars
    PROVE  JobInv'
<1>0. /\ row \in [Delivery -> RowType] /\ job \in [Delivery -> JobType]
      /\ \A d \in Delivery : HasJob(d) /\ Unstaged(d)
  BY DEF OutboundInv, CopyInv, OutboundTypes, Safe, JobInv
<1>1. ASSUME NEW w \in Worker, Crash(w) \/ Attempt(w) PROVE JobInv'
  <2>1. JobAnswered(w) /\ On(w) \in Delivery /\ OpenOnly
    BY <1>1, AttemptAnswers, AttemptWritesOpen
  <2> SUFFICES ASSUME NEW d \in Delivery PROVE HasJob(d)'
    BY DEF JobInv
  <2>2. row'[d] = row[d] \/ row[d].status = "pending"
    BY <2>1 DEF OpenOnly, Pending
  <2>3. \/ job'[d] = job[d]
        \/ job'[d].state = "available"
        \/ job'[d].state = "discarded" /\ job'[d].attempt >= MaxAttempts
        \/ job'[d].state = "done" /\ row'[d].status # "pending"
    BY <2>1 DEF JobAnswered
  <2> QED
    BY <1>0, <2>2, <2>3 DEF HasJob
<1>2. ASSUME NEW w \in Worker, NEW d \in Delivery, Fetch(w, d) PROVE JobInv'
  <2>1. row' = row /\ job'[d].state = "running" /\ \A e \in Delivery : e # d => job'[e] = job[e]
    BY <1>0, <1>2 DEF Fetch
  <2> QED
    BY <1>0, <2>1 DEF JobInv, HasJob
<1>3. ASSUME NEW d \in Delivery, Rescue(d) PROVE JobInv'
  <2>1. job[d] \in JobType
    BY <1>0
  <2>2. row' = row /\ job'[d] = Spent(job[d]) /\ \A e \in Delivery : e # d => job'[e] = job[e]
    BY <1>0, <1>3 DEF Rescue
  <2> QED
    BY <1>0, <2>1, <2>2, SpentAnswers DEF JobInv, HasJob
<1>4. ASSUME NEW d \in Delivery, NEW kd \in Kind, Stage(d, kd) PROVE JobInv'
  <2>1. job[d] \in JobType /\ job[d].state = "none"
    BY <1>0, <1>4 DEF Stage, Unstaged
  <2>2. job'[d].state = "available"
    BY <1>0, <1>4, <2>1 DEF Stage, JobType
  <2>3. \A e \in Delivery : e # d => row'[e] = row[e] /\ job'[e] = job[e]
    BY <1>0, <1>4 DEF Stage
  <2> QED
    BY <1>0, <2>2, <2>3 DEF JobInv, HasJob
<1>5. ASSUME NEW d \in Delivery, Scrub(d) PROVE JobInv'
  <2>1. row[d] \in RowType /\ row[d].status # "none"
    BY <1>0, <1>5 DEF Scrub
  <2>2. job' = job /\ \A e \in Delivery : e # d => row'[e] = row[e]
    BY <1>0, <1>5 DEF Scrub
  <2>3. row'[d].status # "pending"
    BY <1>0, <1>5, <2>1 DEF Scrub, RowType, Pending
  <2> QED
    BY <1>0, <2>1, <2>2, <2>3 DEF JobInv, HasJob
<1>6. CASE (\E d \in Delivery : Withdraw(d) \/ Age(d)) \/ UNCHANGED vars
  BY <1>0, <1>6 DEF Withdraw, Age, vars, JobInv, HasJob
<1> QED
  BY <1>1, <1>2, <1>3, <1>4, <1>5, <1>6 DEF Next

\* No open delivery is forgotten: a pending row has a job that runs or will
\* run, or one that was discarded with every rung of the ladder counted on the
\* row or excused by a store fault, a worker's death or a rescue (Spent, Load,
\* RecordDeferral, the 'pending' guards of the dispositions).
THEOREM OpenRowsHaveTheirJob == OutboundSpec => []OpenHasItsJob
<1>1. Init => JobInv
  <2> SUFFICES ASSUME Init, NEW d \in Delivery PROVE HasJob(d)
    BY DEF JobInv
  <2> QED
    BY DEF Init, HasJob
<1>2. OutboundInv /\ JobInv /\ [Next]_vars => JobInv'
  BY JobStep
<1>3. OutboundInv /\ JobInv => OpenHasItsJob
  <2> SUFFICES ASSUME OutboundInv, JobInv, NEW d \in Delivery, Pending(d),
                      job[d].state \notin {"available", "running"}
               PROVE  /\ job[d].state = "discarded"
                      /\ row[d].attempts + slips[d] + stale[d] >= MaxAttempts
    BY DEF OpenHasItsJob
  <2>1. HasJob(d) /\ Ladder(d) /\ job[d] \in JobType /\ row[d] \in RowType
        /\ slips[d] \in Nat /\ stale[d] \in Nat
    BY DEF JobInv, OutboundInv, LadderInv, CopyInv, OutboundTypes
  <2>2. job[d].state = "discarded" /\ job[d].attempt >= MaxAttempts
    BY <2>1 DEF HasJob, JobType, Pending
  <2>3. Loading(d) \subseteq Stale(d)
    <3>1. job[d].runner = NoWorker
      BY <2>1, <2>2 DEF Ladder
    <3>2. \A w \in Worker : w # NoWorker
      BY OutboundAssumption
    <3> QED
      BY <3>1, <3>2 DEF Loading, Stale, Crew
  <2>4. Cardinality(Loading(d)) <= Cardinality(Stale(d))
        /\ Cardinality(Loading(d)) \in Nat /\ Cardinality(Stale(d)) \in Nat
    <3>1. IsFiniteSet(Stale(d)) /\ IsFiniteSet(Loading(d))
      BY <2>1, FS_Subset DEF Ladder, Stale, Loading
    <3> QED
      BY <2>3, <3>1, FS_Subset, FS_CardinalityType
  <2>5. job[d].attempt + Cardinality(Stale(d))
           <= row[d].attempts + slips[d] + stale[d] + Cardinality(Loading(d))
    BY <2>1 DEF Ladder
  <2>6. MaxAttempts \in Int /\ job[d].attempt \in Int /\ row[d].attempts \in Int
    BY <2>1, OutboundAssumption DEF JobType, RowType
  <2> QED
    BY <2>1, <2>2, <2>4, <2>5, <2>6
<1> QED
  BY <1>1, <1>2, <1>3, OutboundInvariant, PTL DEF OutboundSpec

=============================================================================
