------------------------- MODULE IdempotencyProofs -------------------------
(***************************************************************************)
(* What an idempotency key promises, for any number of concurrent calls,   *)
(* requests, retries and faults: the effect once per window, a replay of   *)
(* one's own answer, and a recorded answer that is reached by its retry.   *)
(***************************************************************************)
EXTENDS IdempotencyKeys, TLAPS

Pc == {"idle", "claim", "resolve", "reinsert", "redeem", "run", "ok", "error"}
Asking == Digest \cup {NoDigest}
CallType == [pc : Pc, digest : Asking, since : Nat]
RowType == [state : {"none", "open", "ok", "failed"}, digest : Asking, from : Asking, created : Nat]

\* The types these proofs need.
KeyTypes ==
    /\ door \in {"rest", "tool", "approved"}
    /\ row \in RowType
    /\ call \in [Attempt -> CallType]
    /\ clock \in Nat /\ freed \in Nat
    /\ runs \in [count : Nat, under : Nat]

\* A call that holds the key, and one that holds it and has run nothing yet.
Holding(a) == call[a].pc \in {"redeem", "run", "ok", "error"}
Unrun(a) == call[a].pc \in {"redeem", "run"}

\* No call outlives MaxRun.
CallsAreShort ==
    \A a \in Attempt :
        call[a].pc # "idle" => call[a].since <= clock /\ clock - call[a].since <= MaxRun

\* Only the middleware degrades or frees a failed key, and only an asserted
\* approval is redeemed.
Doors ==
    /\ degraded => door = "rest"
    /\ freed # 0 => door = "rest"
    /\ \A a \in Attempt : call[a].pc = "redeem" => door = "approved"

\* The holder's claim: open, of its own request, and no older than the call.
Claimant(a) ==
    /\ row.state = "open" /\ row.digest = call[a].digest
    /\ call[a].since <= row.created /\ row.created <= clock

\* As long as nobody ran without a claim, whoever holds the key has claimed it,
\* is the only one, and what is recorded answers the request it is filed under.
OneClaimant ==
    ~degraded =>
        /\ \A a \in Attempt : Holding(a) => Claimant(a) /\ \A b \in Attempt : Holding(b) => b = a
        /\ row.state = "ok" => row.from = row.digest

\* As long as no failed run gave the key back either, the claim a handler ran
\* under is still there or its window is over, and a claim that has run nothing
\* was made after that window.
RunsAreCovered ==
    ~degraded /\ freed = 0 /\ runs.count > 0 =>
        /\ \/ clock - runs.under > Window
           \/ row.state # "none" /\ row.created = runs.under
        /\ \A a \in Attempt : Unrun(a) => row.created - runs.under > Window

\* The inductive invariant.
KeyInv ==
    /\ KeyTypes
    /\ CallsAreShort
    /\ Doors
    /\ OneClaimant
    /\ RunsAreCovered
    /\ ReplayIsTheRequestsOwn
    /\ RetryReachesItsResult

-----------------------------------------------------------------------------
(* Calls and rows. *)

\* A call goes to its next step and keeps its request.
LEMMA GotoFields ==
    ASSUME call \in [Attempt -> CallType], NEW a \in Attempt, NEW pc \in Pc, Goto(a, pc)
    PROVE  /\ call' \in [Attempt -> CallType]
           /\ call'[a].pc = pc /\ call'[a].digest = call[a].digest /\ call'[a].since = call[a].since
           /\ \A b \in Attempt : b # a => call'[b] = call[b]
  BY DEF Goto, CallType

\* A call ends.
LEMMA EndFields ==
    ASSUME call \in [Attempt -> CallType], NEW a \in Attempt, End(a)
    PROVE  /\ call' \in [Attempt -> CallType]
           /\ call'[a].pc = "idle"
           /\ \A b \in Attempt : b # a => call'[b] = call[b]
<1>1. Idle \in CallType /\ Idle.pc = "idle"
  BY DEF Idle, CallType, Pc, Asking
<1> QED
  BY <1>1 DEF End

\* The rows the statements write.
LEMMA Rows ==
    ASSUME KeyTypes
    PROVE  /\ NoRow \in RowType /\ NoRow.state = "none"
           /\ \A d \in Asking : /\ Claim(d) \in RowType /\ Claim(d).state = "open"
                                /\ Claim(d).digest = d /\ Claim(d).created = clock
           /\ Released \in RowType
           /\ \A d \in Asking, st \in {"ok", "failed"} :
                /\ Recorded(st, d) \in RowType
                /\ row.state # "none" =>
                     /\ Recorded(st, d).state = st /\ Recorded(st, d).from = d
                     /\ Recorded(st, d).digest = row.digest
                     /\ Recorded(st, d).created = row.created
                /\ row.state = "none" => Recorded(st, d) = row
<1>1. NoRow \in RowType /\ NoRow.state = "none"
  BY DEF NoRow, RowType, Asking
<1>2. ASSUME NEW d \in Asking
      PROVE  /\ Claim(d) \in RowType /\ Claim(d).state = "open"
             /\ Claim(d).digest = d /\ Claim(d).created = clock
  BY DEF Claim, RowType, Asking, KeyTypes
<1>3. Released \in RowType
  BY <1>1 DEF Released, KeyTypes
<1>4. ASSUME NEW d \in Asking, NEW st \in {"ok", "failed"}, row.state # "none"
      PROVE  /\ Recorded(st, d) \in RowType
             /\ Recorded(st, d).state = st /\ Recorded(st, d).from = d
             /\ Recorded(st, d).digest = row.digest /\ Recorded(st, d).created = row.created
  BY <1>4 DEF Recorded, RowType, KeyTypes
<1>5. ASSUME NEW d \in Asking, NEW st \in {"ok", "failed"}, row.state = "none"
      PROVE  Recorded(st, d) \in RowType /\ Recorded(st, d) = row
  BY <1>5 DEF Recorded, KeyTypes
<1> QED
  BY <1>1, <1>2, <1>3, <1>4, <1>5

\* A claimed row is not past its window.
LEMMA ClaimantIsNotExpired ==
    ASSUME KeyInv, NEW a \in Attempt, Holding(a), ~degraded
    PROVE  ~Expired
<1>1. /\ row.created \in Nat /\ call[a].since \in Nat /\ clock \in Nat
      /\ call[a].since <= row.created /\ clock - call[a].since <= MaxRun
  BY DEF KeyInv, KeyTypes, RowType, CallType, OneClaimant, Claimant, CallsAreShort, Holding
<1> QED
  BY <1>1, KeyAssumption DEF Expired

\* A call starts its window and holds nothing.
LEMMA InitHolds == Init => KeyInv
<1> SUFFICES ASSUME Init PROVE KeyInv
  OBVIOUS
<1>1. Idle \in CallType /\ Idle.pc = "idle"
  BY DEF Idle, CallType, Pc, Asking
<1>2. NoRow \in RowType /\ NoRow.state = "none"
  BY DEF NoRow, RowType, Asking
<1>3. KeyTypes
  BY <1>1, <1>2 DEF Init, KeyTypes
<1>4. \A a \in Attempt : call[a].pc = "idle"
  BY <1>1 DEF Init
<1>5. CallsAreShort /\ Doors
  BY <1>4 DEF Init, CallsAreShort, Doors
<1>6. OneClaimant /\ RunsAreCovered
  BY <1>2, <1>4 DEF Init, OneClaimant, Holding, RunsAreCovered
<1>7. ReplayIsTheRequestsOwn /\ RetryReachesItsResult
  BY DEF Init, ReplayIsTheRequestsOwn, RetryReachesItsResult
<1> QED
  BY <1>3, <1>5, <1>6, <1>7 DEF KeyInv

-----------------------------------------------------------------------------
(* The steps. *)

\* A call that does not hold the key any more, or not yet, leaves the row alone.
LEMMA CallLeavesTheRow ==
    ASSUME KeyInv, NEW a \in Attempt, call' \in [Attempt -> CallType],
           \A b \in Attempt : b # a => call'[b] = call[b],
           call'[a].pc \in {"idle", "claim", "resolve", "reinsert"},
           call'[a].pc # "idle" =>
               call'[a].since <= clock /\ clock - call'[a].since <= MaxRun,
           UNCHANGED <<door, row, clock, runs, degraded, freed, burned>>,
           ReplayIsTheRequestsOwn'
    PROVE  KeyInv'
<1>1. KeyTypes'
  BY DEF KeyInv, KeyTypes
<1>2. CallsAreShort' /\ Doors'
  BY DEF KeyInv, CallsAreShort, Doors
<1>3. \A b \in Attempt : (Holding(b))' => Holding(b) /\ b # a
  BY DEF Holding
<1>4. \A b \in Attempt : (Unrun(b))' => Unrun(b)
  BY DEF Unrun
<1>5. OneClaimant'
  BY <1>3 DEF KeyInv, OneClaimant, Claimant
<1>6. RunsAreCovered'
  BY <1>4 DEF KeyInv, RunsAreCovered
<1>7. RetryReachesItsResult'
  BY DEF KeyInv, RetryReachesItsResult
<1> QED
  BY <1>1, <1>2, <1>5, <1>6, <1>7 DEF KeyInv

\* The key is free, or past its window, and a call takes it.
LEMMA CallClaims ==
    ASSUME KeyInv, NEW a \in Attempt, call[a].pc # "idle", row.state = "none" \/ Expired,
           row' = Claim(Asked(a)), Goto(a, Fresh),
           UNCHANGED <<door, clock, runs, degraded, freed, misread, burned>>
    PROVE  KeyInv'
<1>1. KeyTypes /\ clock \in Nat /\ runs.under \in Nat /\ row.created \in Nat
  BY DEF KeyInv, KeyTypes, RowType
<1>2. Fresh \in {"redeem", "run"} /\ (Fresh = "redeem" => door = "approved")
  BY DEF Fresh, After
<1>3. /\ call' \in [Attempt -> CallType]
      /\ call'[a].pc = Fresh /\ call'[a].digest = call[a].digest /\ call'[a].since = call[a].since
      /\ \A b \in Attempt : b # a => call'[b] = call[b]
  BY <1>1, <1>2, GotoFields DEF Pc, KeyTypes
<1>4. call[a].digest \in Asking /\ call[a].since \in Nat
  BY <1>1 DEF KeyTypes, CallType
<1>5. row' \in RowType /\ row'.state = "open" /\ row'.digest = call[a].digest /\ row'.created = clock
  BY <1>1, <1>4, Rows DEF Asked
<1>6. KeyTypes'
  BY <1>1, <1>3, <1>5 DEF KeyTypes
<1>7. CallsAreShort' /\ Doors'
  BY <1>2, <1>3 DEF KeyInv, CallsAreShort, Doors
<1>8. ~degraded => \A b \in Attempt : ~Holding(b)
  BY ClaimantIsNotExpired DEF KeyInv, OneClaimant, Claimant
<1>9. ~degraded => \A b \in Attempt : (Holding(b))' => b = a
  BY <1>3, <1>8 DEF Holding
<1>10. OneClaimant'
  <2>1. ASSUME ~degraded PROVE (Claimant(a))'
    BY <1>1, <1>3, <1>4, <1>5 DEF KeyInv, CallsAreShort, Claimant
  <2> QED
    BY <1>5, <1>9, <2>1 DEF OneClaimant
<1>11. RunsAreCovered'
  <2> SUFFICES ASSUME ~degraded, freed = 0, runs.count > 0
               PROVE  clock - runs.under > Window
    BY <1>5 DEF RunsAreCovered
  <2>1. \/ clock - runs.under > Window
        \/ row.state # "none" /\ row.created = runs.under
    BY DEF KeyInv, RunsAreCovered
  <2> QED
    BY <2>1 DEF Expired
<1>12. ReplayIsTheRequestsOwn' /\ RetryReachesItsResult'
  BY DEF KeyInv, ReplayIsTheRequestsOwn, RetryReachesItsResult
<1> QED
  BY <1>6, <1>7, <1>10, <1>11, <1>12 DEF KeyInv

\* The claim: claimKey and what it falls back to.
LEMMA ClaimingKeeps ==
    ASSUME KeyInv, NEW a \in Attempt,
           \/ InsertClaim(a) \/ ResolveExistingClaim(a) \/ Reinsert(a) \/ ClaimFails(a)
           \/ \E d \in Digest : Begin(a, d)
    PROVE  KeyInv'
<1>1. KeyTypes /\ call \in [Attempt -> CallType] /\ clock \in Nat /\ call[a] \in CallType
  BY DEF KeyInv, KeyTypes
<1>2. ASSUME Goto(a, "resolve") \/ Goto(a, "reinsert") \/ End(a), call[a].pc # "idle",
             UNCHANGED <<door, row, clock, runs, degraded, freed, burned>>, ReplayIsTheRequestsOwn'
      PROVE  KeyInv'
  <2>1. CASE End(a)
    BY <1>1, <1>2, <2>1, EndFields, CallLeavesTheRow
  <2>2. CASE Goto(a, "resolve")
    <3>1. /\ call' \in [Attempt -> CallType] /\ call'[a].pc = "resolve"
          /\ call'[a].since = call[a].since
          /\ \A b \in Attempt : b # a => call'[b] = call[b]
      BY <1>1, <2>2, GotoFields DEF Pc
    <3> QED
      BY <1>2, <3>1, CallLeavesTheRow DEF KeyInv, CallsAreShort
  <2>3. CASE Goto(a, "reinsert")
    <3>1. /\ call' \in [Attempt -> CallType] /\ call'[a].pc = "reinsert"
          /\ call'[a].since = call[a].since
          /\ \A b \in Attempt : b # a => call'[b] = call[b]
      BY <1>1, <2>3, GotoFields DEF Pc
    <3> QED
      BY <1>2, <3>1, CallLeavesTheRow DEF KeyInv, CallsAreShort
  <2> QED
    BY <1>2, <2>1, <2>2, <2>3
<1>3. CASE \E d \in Digest : Begin(a, d)
  <2>1. PICK d \in Digest : Begin(a, d)
    BY <1>3
  <2> DEFINE c == [pc |-> After("begin"), digest |-> d, since |-> clock]
  <2>2. c \in CallType /\ c.pc = "claim" /\ c.since = clock
    BY <1>1 DEF After, CallType, Pc, Asking
  <2>3. call' = [call EXCEPT ![a] = c]
    BY <2>1 DEF Begin
  <2> HIDE DEF c
  <2>4. /\ call' \in [Attempt -> CallType] /\ call'[a] = c
        /\ \A b \in Attempt : b # a => call'[b] = call[b]
    BY <1>1, <2>2, <2>3
  <2>5. c.since <= clock /\ clock - c.since <= MaxRun
    BY <1>1, <2>2, KeyAssumption
  <2> QED
    BY <2>1, <2>2, <2>4, <2>5, CallLeavesTheRow DEF Begin, KeyInv, ReplayIsTheRequestsOwn
<1>4. CASE InsertClaim(a)
  <2>1. CASE row.state = "none"
    BY <1>4, <2>1, CallClaims DEF InsertClaim, In
  <2>2. CASE row.state # "none"
    BY <1>2, <1>4, <2>2 DEF InsertClaim, In, KeyInv, ReplayIsTheRequestsOwn
  <2> QED
    BY <2>1, <2>2
<1>5. CASE Reinsert(a)
  <2>1. CASE row.state = "none"
    BY <1>5, <2>1, CallClaims DEF Reinsert, In
  <2>2. CASE row.state # "none"
    BY <1>2, <1>5, <2>2 DEF Reinsert, In, KeyInv, ReplayIsTheRequestsOwn
  <2> QED
    BY <2>1, <2>2
<1>6. CASE ResolveExistingClaim(a)
  <2>1. CASE row.state = "none"
    BY <1>2, <1>6, <2>1 DEF ResolveExistingClaim, In, KeyInv, ReplayIsTheRequestsOwn
  <2>2. CASE row.state # "none" /\ Reclaimable
    BY <1>6, <2>2, CallClaims DEF ResolveExistingClaim, In, Reclaimable
  <2>3. CASE row.state # "none" /\ ~Reclaimable
    <3>1. ~degraded => ~(Replays(a) /\ row.from # Asked(a))
      BY DEF KeyInv, OneClaimant, Replays
    <3>2. ReplayIsTheRequestsOwn'
      BY <1>6, <2>3, <3>1 DEF ResolveExistingClaim, KeyInv, ReplayIsTheRequestsOwn
    <3> QED
      BY <1>2, <1>6, <2>3, <3>2 DEF ResolveExistingClaim, In
  <2> QED
    BY <2>1, <2>2, <2>3
<1>7. CASE ClaimFails(a)
  <2>1. CASE ~Degrades
    BY <1>2, <1>7, <2>1 DEF ClaimFails, KeyInv, ReplayIsTheRequestsOwn
  <2>2. CASE Degrades
    <3>1. /\ call' \in [Attempt -> CallType] /\ call'[a].pc = "run"
          /\ call'[a].since = call[a].since
          /\ \A b \in Attempt : b # a => call'[b] = call[b]
      BY <1>1, <1>7, <2>2, GotoFields DEF ClaimFails, Pc
    <3>2. degraded' /\ door = "rest" /\ call[a].pc # "idle"
      BY <1>7, <2>2 DEF ClaimFails, Degrades
    <3>3. KeyTypes'
      BY <1>1, <1>7, <3>1 DEF ClaimFails, KeyTypes
    <3>4. CallsAreShort' /\ Doors'
      BY <1>7, <3>1, <3>2 DEF ClaimFails, KeyInv, CallsAreShort, Doors
    <3>5. OneClaimant' /\ RunsAreCovered' /\ ReplayIsTheRequestsOwn'
      BY <3>2 DEF OneClaimant, RunsAreCovered, ReplayIsTheRequestsOwn
    <3>6. RetryReachesItsResult'
      BY <1>7 DEF ClaimFails, KeyInv, RetryReachesItsResult
    <3> QED
      BY <3>3, <3>4, <3>5, <3>6 DEF KeyInv
  <2> QED
    BY <2>1, <2>2
<1> QED
  BY <1>3, <1>4, <1>5, <1>6, <1>7

\* The holder ends, leaving a row that keeps what it must.
LEMMA HolderEnds ==
    ASSUME KeyInv, NEW a \in Attempt, Holding(a), End(a), row' \in RowType,
           freed' \in Nat, freed' = 0 => freed = 0, freed' # 0 => door = "rest",
           UNCHANGED <<door, clock, runs, degraded, misread>>, RetryReachesItsResult',
           ~degraded /\ row'.state = "ok" => row'.from = row'.digest,
           ~degraded /\ freed' = 0 /\ runs.count > 0 =>
               \/ clock - runs.under > Window
               \/ row'.state # "none" /\ row'.created = runs.under
    PROVE  KeyInv'
<1>1. /\ call' \in [Attempt -> CallType] /\ call'[a].pc = "idle"
      /\ \A b \in Attempt : b # a => call'[b] = call[b]
  BY EndFields DEF KeyInv, KeyTypes
<1>2. KeyTypes'
  BY <1>1 DEF KeyInv, KeyTypes
<1>3. CallsAreShort' /\ Doors'
  BY <1>1 DEF KeyInv, CallsAreShort, Doors
<1>4. ~degraded => \A b \in Attempt : ~(Holding(b))'
  BY <1>1 DEF KeyInv, OneClaimant, Holding
<1>5. ~degraded => \A b \in Attempt : ~(Unrun(b))'
  BY <1>4 DEF Unrun, Holding
<1>6. OneClaimant' /\ RunsAreCovered'
  BY <1>4, <1>5 DEF OneClaimant, RunsAreCovered
<1>7. ReplayIsTheRequestsOwn'
  BY DEF KeyInv, ReplayIsTheRequestsOwn
<1> QED
  BY <1>2, <1>3, <1>6, <1>7 DEF KeyInv

\* The call that holds the key: redeem, run, settle, or die.
LEMMA HoldersKeep ==
    ASSUME KeyInv, NEW a \in Attempt, Redeem(a) \/ ReleaseFails(a) \/ Run(a) \/ Settle(a) \/ Crash(a)
    PROVE  KeyInv'
<1>1. /\ KeyTypes /\ call \in [Attempt -> CallType] /\ clock \in Nat /\ row \in RowType
      /\ row.created \in Nat /\ runs.count \in Nat /\ runs.under \in Nat /\ freed \in Nat
      /\ call[a].digest \in Asking
  BY DEF KeyInv, KeyTypes, RowType, CallType
<1>2. Holding(a)
  BY <1>1 DEF Redeem, ReleaseFails, Run, Settle, Crash, In, Holding, KeyTypes, CallType, Pc
<1>3. ~degraded => /\ row.state = "open" /\ row.digest = call[a].digest /\ row.created <= clock
                   /\ \A b \in Attempt : Holding(b) => b = a
  BY <1>2 DEF KeyInv, OneClaimant, Claimant
<1>4. ~degraded /\ freed = 0 /\ runs.count > 0 =>
        /\ \/ clock - runs.under > Window
           \/ row.state # "none" /\ row.created = runs.under
        /\ Unrun(a) => row.created - runs.under > Window
  BY DEF KeyInv, RunsAreCovered
<1>5. RetryReachesItsResult /\ ReplayIsTheRequestsOwn /\ (freed # 0 => door = "rest")
  BY DEF KeyInv, Doors
<1>6. CASE Redeem(a)
  <2>1. door = "approved" /\ ~degraded /\ Unrun(a)
    BY <1>6 DEF Redeem, In, KeyInv, Doors, Unrun
  <2>2. CASE approval = "approved"
    <3>1. /\ call' \in [Attempt -> CallType] /\ call'[a].pc = "run"
          /\ call'[a].digest = call[a].digest /\ call'[a].since = call[a].since
          /\ \A b \in Attempt : b # a => call'[b] = call[b]
      BY <1>1, <1>6, <2>2, GotoFields DEF Redeem, After, Pc
    <3>2. KeyTypes' /\ CallsAreShort' /\ Doors'
      BY <1>6, <2>2, <3>1 DEF Redeem, In, KeyInv, KeyTypes, CallsAreShort, Doors
    <3>3. \A b \in Attempt : (Holding(b))' => Holding(b)
      BY <1>2, <3>1 DEF Holding
    <3>4. \A b \in Attempt : (Unrun(b))' => Unrun(b)
      BY <2>1, <3>1 DEF Unrun
    <3>5. \A b \in Attempt : call'[b].digest = call[b].digest /\ call'[b].since = call[b].since
      BY <3>1
    <3>6. OneClaimant'
      BY <1>6, <2>2, <3>3, <3>5 DEF Redeem, KeyInv, OneClaimant, Claimant
    <3>7. RunsAreCovered' /\ ReplayIsTheRequestsOwn' /\ RetryReachesItsResult'
      BY <1>6, <2>2, <3>4
         DEF Redeem, KeyInv, RunsAreCovered, ReplayIsTheRequestsOwn, RetryReachesItsResult
    <3> QED
      BY <3>2, <3>6, <3>7 DEF KeyInv
  <2>3. CASE approval # "approved"
    <3>1. row' = NoRow /\ ~burned'
      BY <1>3, <1>5, <1>6, <2>1, <2>3 DEF Redeem, Released, RetryReachesItsResult
    <3>2. row' \in RowType /\ row'.state = "none"
      BY <1>1, <3>1, Rows
    <3>3. ~degraded /\ freed = 0 /\ runs.count > 0 => clock - runs.under > Window
      BY <1>1, <1>3, <1>4, <2>1, KeyAssumption
    <3> QED
      BY <1>1, <1>2, <1>5, <1>6, <2>3, <3>1, <3>2, <3>3, HolderEnds DEF Redeem, RetryReachesItsResult
  <2> QED
    BY <2>2, <2>3
<1>7. CASE ReleaseFails(a)
  BY <1>1, <1>2, <1>3, <1>4, <1>5, <1>7, HolderEnds DEF ReleaseFails, RetryReachesItsResult
<1>8. CASE Crash(a)
  BY <1>1, <1>2, <1>3, <1>4, <1>5, <1>8, HolderEnds DEF Crash, RetryReachesItsResult
<1>9. CASE Run(a)
  <2>1. PICK pc \in {"ok", "error"} : Goto(a, pc)
    BY <1>9 DEF Run
  <2>2. /\ call' \in [Attempt -> CallType] /\ call'[a].pc = pc
        /\ call'[a].digest = call[a].digest /\ call'[a].since = call[a].since
        /\ \A b \in Attempt : b # a => call'[b] = call[b]
    BY <1>1, <2>1, GotoFields DEF Pc
  <2>3. runs' = [count |-> runs.count + 1, under |-> row.created]
    BY <1>9 DEF Run
  <2>4. runs' \in [count : Nat, under : Nat] /\ runs'.under = row.created
    BY <1>1, <2>3
  <2>5. KeyTypes' /\ CallsAreShort' /\ Doors'
    BY <1>9, <2>2, <2>4 DEF Run, In, KeyInv, KeyTypes, CallsAreShort, Doors
  <2>6. \A b \in Attempt : (Holding(b))' => Holding(b)
    BY <1>2, <2>2 DEF Holding
  <2>7. \A b \in Attempt : call'[b].digest = call[b].digest /\ call'[b].since = call[b].since
    BY <2>2
  <2>8. OneClaimant'
    BY <1>9, <2>6, <2>7 DEF Run, KeyInv, OneClaimant, Claimant
  <2>9. ~degraded => \A b \in Attempt : ~(Unrun(b))'
    <3> SUFFICES ASSUME ~degraded, NEW b \in Attempt, (Unrun(b))' PROVE FALSE
      OBVIOUS
    <3>1. b # a
      BY <2>2 DEF Unrun
    <3>2. Holding(b)
      BY <2>2, <3>1 DEF Unrun, Holding
    <3> QED
      BY <1>3, <3>1, <3>2
  <2>10. RunsAreCovered'
    BY <1>3, <1>9, <2>4, <2>9 DEF Run, RunsAreCovered
  <2>11. ReplayIsTheRequestsOwn' /\ RetryReachesItsResult'
    BY <1>9 DEF Run, KeyInv, ReplayIsTheRequestsOwn, RetryReachesItsResult
  <2> QED
    BY <2>5, <2>8, <2>10, <2>11 DEF KeyInv
<1>10. CASE Settle(a)
  <2>1. RetryReachesItsResult'
    BY <1>5, <1>10 DEF Settle, RetryReachesItsResult
  <2>2. ASSUME NEW st \in {"ok", "failed"}, row' = Recorded(st, Asked(a)), freed' = freed
        PROVE  KeyInv'
    <3>1. row' \in RowType
      BY <1>1, <2>2, Rows DEF Asked
    <3>2. ~degraded => /\ row'.from = row'.digest /\ row'.created = row.created /\ row'.state # "none"
      BY <1>1, <1>3, <2>2, Rows DEF Asked
    <3>3. ~degraded /\ row'.state = "ok" => row'.from = row'.digest
      BY <3>2
    <3>4. ~degraded /\ freed' = 0 /\ runs.count > 0 =>
            \/ clock - runs.under > Window
            \/ row'.state # "none" /\ row'.created = runs.under
      BY <1>4, <2>2, <3>2
    <3> QED
      BY <1>1, <1>2, <1>5, <1>10, <2>1, <2>2, <3>1, <3>3, <3>4, HolderEnds DEF Settle
  <2>3. CASE In(a, "ok") /\ row' = Recorded("ok", Asked(a)) /\ UNCHANGED freed
    BY <2>2, <2>3
  <2>4. CASE In(a, "error") /\ ~Frees /\ row' = Recorded("failed", Asked(a)) /\ UNCHANGED freed
    BY <2>2, <2>4
  <2>5. CASE In(a, "error") /\ Frees /\ row' = Released /\ freed' = freed + 1
    <3>1. freed' \in Nat /\ freed' # 0
      BY <1>1, <2>5
    <3>2. row' \in RowType
      BY <1>1, <2>5, Rows
    <3>3. ~degraded => row'.state # "ok"
      BY <1>1, <1>3, <2>5, Rows DEF Released
    <3> QED
      BY <1>2, <1>10, <2>1, <2>5, <3>1, <3>2, <3>3, HolderEnds DEF Settle, Frees
  <2> QED
    BY <1>10, <2>3, <2>4, <2>5 DEF Settle
<1> QED
  BY <1>6, <1>7, <1>8, <1>9, <1>10

\* The retention sweep, and time.
LEMMA OthersKeep ==
    ASSUME KeyInv, Sweep \/ Tick
    PROVE  KeyInv'
<1>1. /\ KeyTypes /\ clock \in Nat /\ row.created \in Nat /\ runs.under \in Nat
      /\ \A a \in Attempt : call[a].since \in Nat
  BY DEF KeyInv, KeyTypes, RowType, CallType
<1>2. CASE Sweep
  <2>1. row' \in RowType /\ row'.state = "none"
    BY <1>1, <1>2, Rows DEF Sweep
  <2>2. ~degraded => \A a \in Attempt : ~Holding(a)
    BY <1>2, ClaimantIsNotExpired DEF Sweep, Sweepable
  <2>3. KeyTypes' /\ CallsAreShort' /\ Doors'
    BY <1>2, <2>1 DEF Sweep, KeyInv, KeyTypes, CallsAreShort, Doors
  <2>4. OneClaimant'
    BY <1>2, <2>1, <2>2 DEF Sweep, OneClaimant, Holding
  <2>5. ~degraded /\ freed = 0 /\ runs.count > 0 => clock - runs.under > Window
    BY <1>2 DEF Sweep, Sweepable, Expired, KeyInv, RunsAreCovered
  <2>6. RunsAreCovered'
    BY <1>2, <2>2, <2>5 DEF Sweep, RunsAreCovered, Unrun, Holding
  <2>7. ReplayIsTheRequestsOwn' /\ RetryReachesItsResult'
    BY <1>2 DEF Sweep, KeyInv, ReplayIsTheRequestsOwn, RetryReachesItsResult
  <2> QED
    BY <2>3, <2>4, <2>6, <2>7 DEF KeyInv
<1>3. CASE Tick
  <2>1. clock' = clock + 1 /\ clock' \in Nat
    BY <1>1, <1>3 DEF Tick
  <2>2. KeyTypes' /\ Doors'
    BY <1>3, <2>1 DEF Tick, KeyInv, KeyTypes, Doors
  <2>3. CallsAreShort'
    BY <1>1, <1>3, <2>1, KeyAssumption DEF Tick, In, KeyInv, CallsAreShort
  <2>4. OneClaimant'
    BY <1>1, <1>3, <2>1 DEF Tick, KeyInv, OneClaimant, Holding, Claimant
  <2>5. RunsAreCovered'
    BY <1>1, <1>3, <2>1, KeyAssumption DEF Tick, KeyInv, RunsAreCovered, Unrun
  <2>6. ReplayIsTheRequestsOwn' /\ RetryReachesItsResult'
    BY <1>3 DEF Tick, KeyInv, ReplayIsTheRequestsOwn, RetryReachesItsResult
  <2> QED
    BY <2>2, <2>3, <2>4, <2>5, <2>6 DEF KeyInv
<1> QED
  BY <1>2, <1>3

\* Whichever of the calls, the clock, the sweep or a fault moves, KeyInv is kept.
LEMMA StepsKeep == KeyInv /\ [KeyNext]_vars => KeyInv'
<1> SUFFICES ASSUME KeyInv, [KeyNext]_vars PROVE KeyInv'
  OBVIOUS
<1>1. CASE KeyNext
  BY <1>1, ClaimingKeeps, HoldersKeep, OthersKeep DEF KeyNext, CallStep
<1>2. CASE UNCHANGED vars
  BY <1>2 DEF vars, KeyInv, KeyTypes, CallsAreShort, Doors, OneClaimant, Holding, Claimant,
              RunsAreCovered, Unrun, ReplayIsTheRequestsOwn, RetryReachesItsResult
<1> QED
  BY <1>1, <1>2

-----------------------------------------------------------------------------
\* The inductive invariant of the key: whoever holds it has claimed it and is
\* alone, and the claim a handler ran under outlives its window (claimKey,
\* settleClaim, sweepWorkspace).
THEOREM KeysAreSafe == KeySpec => []KeyInv
  BY InitHolds, StepsKeep, PTL DEF KeySpec

\* A replay is the answer to the very request that asks, unless an attempt ran
\* without a claim (resolveExistingClaim).
THEOREM ReplaysAreTheRequestsOwn == KeySpec => []ReplayIsTheRequestsOwn
<1>1. KeyInv => ReplayIsTheRequestsOwn
  BY DEF KeyInv
<1> QED
  BY <1>1, KeysAreSafe, PTL

\* No retry of an approved call dies on its spent approval while its result is
\* recorded (runClaimed).
THEOREM RetriesReachTheirResult == KeySpec => []RetryReachesItsResult
<1>1. KeyInv => RetryReachesItsResult
  BY DEF KeyInv
<1> QED
  BY <1>1, KeysAreSafe, PTL

\* Only a call at its handler adds a run.
LEMMA OnlyRunRuns ==
    ASSUME KeyNext, runs' # runs
    PROVE  \E a \in Attempt : Run(a)
  BY DEF KeyNext, CallStep, Begin, InsertClaim, ResolveExistingClaim, Reinsert, ClaimFails, Redeem,
         ReleaseFails, Settle, Crash, Sweep, Tick

\* The effect happens once per window, unless over REST a failed run freed the
\* key or a claim could not be made (runClaimed, idempotency).
THEOREM EffectsRunOncePerWindow == KeySpec => RunsOncePerWindow
<1>1. KeyInv /\ [KeyNext]_vars =>
        [runs.count > 0 /\ runs'.count > runs.count =>
           \/ runs'.under - runs.under > Window
           \/ door = "rest" /\ (degraded \/ freed > 0)]_vars
  <2> SUFFICES ASSUME KeyInv, KeyNext, runs.count > 0, runs'.count > runs.count
               PROVE  \/ runs'.under - runs.under > Window
                      \/ door = "rest" /\ (degraded \/ freed > 0)
    BY DEF vars
  <2>1. runs' # runs
    BY DEF KeyInv, KeyTypes
  <2>2. PICK a \in Attempt : Run(a)
    BY <2>1, OnlyRunRuns
  <2>3. runs'.under = row.created /\ Unrun(a)
    BY <2>2 DEF Run, In, Unrun
  <2>4. CASE ~degraded /\ freed = 0
    BY <2>3, <2>4 DEF KeyInv, RunsAreCovered
  <2>5. CASE degraded \/ freed # 0
    BY <2>5 DEF KeyInv, KeyTypes, Doors
  <2> QED
    BY <2>4, <2>5
<1> QED
  BY <1>1, KeysAreSafe, PTL DEF KeySpec, RunsOncePerWindow

=============================================================================
