-------------------------- MODULE IdempotencyKeys --------------------------
(***************************************************************************)
(* One idempotency key and the attempts made under it, through either of   *)
(* the two doors that share idempotency_key: the REST middleware and the   *)
(* governed tool surface.  The doors' endpoints never collide, so a key    *)
(* belongs to one door.                                                    *)
(*                                                                         *)
(* A digest stands for the request it was computed from, and a recorded    *)
(* response for the request that produced it.  Authority, quotas and the   *)
(* visibility check on a replay are left out: they answer for an attempt   *)
(* that runs nothing.                                                      *)
(***************************************************************************)
EXTENDS Integers

CONSTANTS Attempt,    \* concurrent calls
          Digest,     \* requests made under the key
          NoDigest,
          Window,     \* replayWindow
          MaxRun,     \* a call ends within this time
          MaxTime,    \* bound: moments of the clock; calls begin while their window still fits
          MaxTries,   \* bound: calls made
          MaxFaults   \* bound: failed claims, lost settlements, crashes

ASSUME KeyAssumption ==
    /\ Window \in Nat /\ MaxRun \in Nat /\ MaxRun < Window
    /\ MaxTime \in Nat /\ MaxTries \in Nat /\ MaxFaults \in Nat
    /\ NoDigest \notin Digest

VARIABLES
    door,      \* "rest", "tool", or "approved": a tool call that asserts an approval
    row,       \* the idempotency_key row
    call,      \* each attempt in progress
    approval,  \* the single-use approval such a call redeems
    clock, tries, faults,
    runs,      \* handler runs, and the claim the last of them ran under
    degraded,  \* an attempt ran without a claim
    freed,     \* runs that failed and gave the key back
    misread,   \* a replay answered with another request's response
    burned     \* a retry died on a spent approval while a result was recorded

vars == <<door, row, call, approval, clock, tries, faults, runs, degraded, freed, misread, burned>>

-----------------------------------------------------------------------------
\* response_status: NULL, a success, or the tool door's recorded failure.
NoRow == [state |-> "none", digest |-> NoDigest, from |-> NoDigest, created |-> 0]
Claim(d) == [state |-> "open", digest |-> d, from |-> NoDigest, created |-> clock]

Idle == [pc |-> "idle", digest |-> NoDigest, since |-> 0]

Init ==
    /\ door \in {"rest", "tool", "approved"}
    /\ row = NoRow
    /\ call = [a \in Attempt |-> Idle]
    /\ approval = "approved"
    /\ clock = 0 /\ tries = 0 /\ faults = 0
    /\ runs = [count |-> 0, under |-> 0]
    /\ degraded = FALSE /\ freed = 0
    /\ misread = FALSE /\ burned = FALSE

Fault == faults < MaxFaults /\ faults' = faults + 1
In(a, pc) == call[a].pc = pc
Goto(a, pc) == call' = [call EXCEPT ![a].pc = pc]
End(a) == call' = [call EXCEPT ![a] = Idle]
Expired == clock - row.created > Window
Asked(a) == call[a].digest

\* A surface that redeems the approval before it looks at the key.
RedeemsFirst(step) ==
    CASE step = "begin" -> IF door = "approved" THEN "redeem" ELSE "claim"
      [] step = "redeem" -> "claim"
      [] step = "claim" -> "run"

\* runClaimed: claim the key, redeem an asserted approval, run.
After(step) ==
    CASE step = "begin" -> "claim"
      [] step = "claim" -> IF door = "approved" THEN "redeem" ELSE "run"
      [] step = "redeem" -> "run"

Begin(a, d) ==
    /\ In(a, "idle") /\ tries < MaxTries
    /\ clock + MaxRun + Window < MaxTime
    /\ tries' = tries + 1
    /\ call' = [call EXCEPT ![a] = [pc |-> After("begin"), digest |-> d, since |-> clock]]
    /\ UNCHANGED <<door, row, approval, clock, faults, runs, degraded, freed, misread, burned>>

-----------------------------------------------------------------------------
(* claimKey, one transaction: the insert, the read that locks the row, and *)
(* the second insert when the sweep took the row in between.               *)

Fresh == After("claim")

InsertClaim(a) ==
    /\ In(a, "claim")
    /\ IF row.state = "none"
       THEN row' = Claim(Asked(a)) /\ Goto(a, Fresh)
       ELSE UNCHANGED row /\ Goto(a, "resolve")
    /\ UNCHANGED <<door, approval, clock, tries, faults, runs, degraded, freed, misread, burned>>

\* Past the window the row is claimed again in place.
Reclaimable == Expired

\* A recorded answer is given to whoever presents the key.
AnswersAnyone(a) == row.state = "ok"

\* A mismatch is refused before a replay is considered.
Replays(a) == row.state = "ok" /\ row.digest = Asked(a)

ResolveExistingClaim(a) ==
    /\ In(a, "resolve")
    /\ \/ /\ row.state = "none"
          /\ Goto(a, "reinsert")
          /\ UNCHANGED <<row, misread>>
       \/ /\ row.state # "none" /\ Reclaimable
          /\ row' = Claim(Asked(a))
          /\ Goto(a, Fresh)
          /\ UNCHANGED misread
       \/ /\ row.state # "none" /\ ~Reclaimable
          /\ misread' = (misread \/ (Replays(a) /\ row.from # Asked(a)))
          /\ End(a)
          /\ UNCHANGED row
    /\ UNCHANGED <<door, approval, clock, tries, faults, runs, degraded, freed, burned>>

Reinsert(a) ==
    /\ In(a, "reinsert")
    /\ IF row.state = "none"
       THEN row' = Claim(Asked(a)) /\ Goto(a, Fresh)
       ELSE UNCHANGED row /\ End(a)
    /\ UNCHANGED <<door, approval, clock, tries, faults, runs, degraded, freed, misread, burned>>

\* The middleware degrades to executing; the tool surface refuses.
Degrades == door = "rest"

ClaimFails(a) ==
    /\ call[a].pc \in {"claim", "resolve", "reinsert"}
    /\ Fault
    /\ IF Degrades THEN Goto(a, "run") /\ degraded' = TRUE
                   ELSE End(a) /\ UNCHANGED degraded
    /\ UNCHANGED <<door, row, approval, clock, tries, runs, freed, misread, burned>>

-----------------------------------------------------------------------------
\* releaseClaim deletes the key's row unless a response is recorded on it.
Released == IF row.state = "open" THEN NoRow ELSE row

\* recordClaimOutcome updates the key's row, whoever claimed it.
Recorded(state, d) ==
    IF row.state = "none" THEN row ELSE [row EXCEPT !.state = state, !.from = d]

\* redeemPresented.  A refused redemption gives the key back: nothing ran.
Redeem(a) ==
    /\ In(a, "redeem")
    /\ IF approval = "approved"
       THEN approval' = "spent" /\ Goto(a, After("redeem")) /\ UNCHANGED <<row, burned>>
       ELSE /\ End(a)
            /\ row' = Released
            /\ burned' = (burned \/ row.state = "ok")
            /\ UNCHANGED approval
    /\ UNCHANGED <<door, clock, tries, faults, runs, degraded, freed, misread>>

\* The release of an unrun key is lost: the key stays held.
ReleaseFails(a) ==
    /\ In(a, "redeem") /\ approval = "spent"
    /\ Fault
    /\ End(a)
    /\ UNCHANGED <<door, row, approval, clock, tries, runs, degraded, freed, misread, burned>>

\* The handler runs, and fails or not.
Run(a) ==
    /\ In(a, "run")
    /\ runs' = [count |-> runs.count + 1, under |-> row.created]
    /\ \E verdict \in {"ok", "error"} : Goto(a, verdict)
    /\ UNCHANGED <<door, row, approval, clock, tries, faults, degraded, freed, misread, burned>>

\* Every failed attempt frees its key.
FailureFrees == TRUE

\* A failed REST attempt frees its key; a tool that ran and failed does not
\* (settleClaim, agentClaims.Fail).
Frees == door = "rest"

Settle(a) ==
    /\ call[a].pc \in {"ok", "error"}
    /\ \/ /\ In(a, "ok")
          /\ row' = Recorded("ok", Asked(a))
          /\ UNCHANGED freed
       \/ /\ In(a, "error") /\ ~Frees
          /\ row' = Recorded("failed", Asked(a))
          /\ UNCHANGED freed
       \/ /\ In(a, "error") /\ Frees
          /\ row' = Released
          /\ freed' = freed + 1
    /\ End(a)
    /\ UNCHANGED <<door, approval, clock, tries, faults, runs, degraded, misread, burned>>

\* The settlement is lost, or the process dies in the middle of the call.
Crash(a) ==
    /\ call[a].pc \notin {"idle", "claim", "resolve", "reinsert"}
    /\ Fault
    /\ End(a)
    /\ UNCHANGED <<door, row, approval, clock, tries, runs, degraded, freed, misread, burned>>

-----------------------------------------------------------------------------
\* A sweep that keeps what was never settled.
SweepsSettled == row.state \in {"ok", "failed"} /\ Expired

\* sweepWorkspace: everything past the window.
Sweepable == row.state # "none" /\ Expired

\* The row lock of a claim in progress is not held across steps here: a claim
\* reads under it, and the sweep waits at most for that read.
Sweep ==
    /\ Sweepable
    /\ row' = NoRow
    /\ UNCHANGED <<door, call, approval, clock, tries, faults, runs, degraded, freed, misread, burned>>

\* A call does not outlive the window: it ends within MaxRun.
Tick ==
    /\ clock < MaxTime
    /\ \A a \in Attempt : In(a, "idle") \/ clock - call[a].since < MaxRun
    /\ clock' = clock + 1
    /\ UNCHANGED <<door, row, call, approval, tries, faults, runs, degraded, freed, misread, burned>>

-----------------------------------------------------------------------------
CallStep(a) ==
    InsertClaim(a) \/ ResolveExistingClaim(a) \/ Reinsert(a)
    \/ Redeem(a) \/ Run(a) \/ Settle(a)

KeyNext ==
    \/ \E a \in Attempt : \/ \E d \in Digest : Begin(a, d)
                          \/ CallStep(a)
                          \/ ClaimFails(a) \/ ReleaseFails(a) \/ Crash(a)
    \/ Sweep
    \/ Tick

KeySpec == Init /\ [][KeyNext]_vars

\* Calls end, time passes and the retention job keeps coming; nobody has to
\* call and no fault has to happen.
KeyFairness ==
    /\ \A a \in Attempt : WF_vars(CallStep(a))
    /\ WF_vars(Tick) /\ WF_vars(Sweep)

FairKeySpec == KeySpec /\ KeyFairness

-----------------------------------------------------------------------------
(* Properties. *)

\* "The same key twice means the effect happens once": on the tool surface no
\* handler runs within the window of a claim one already ran under, whatever
\* fails in between; over REST a second run has a reason on record, a failed
\* run that freed the key or a claim that could not be made (runClaimed,
\* settleRun, idempotency).
RunsOncePerWindow ==
    [][runs.count > 0 /\ runs'.count > runs.count =>
         \/ runs'.under - runs.under > Window
         \/ door = "rest" /\ (degraded \/ freed > 0)]_vars

\* "Never a silent replay of mismatched intent": a replay gives back what the
\* very same request produced, unless some attempt ran without a claim
\* (resolveExistingClaim, recordClaimOutcome).
ReplayIsTheRequestsOwn == misread => degraded

\* "The retry of an approved call reaches its recorded result instead of dying
\* on the single-use approval it already spent" (runClaimed).
RetryReachesItsResult == ~burned

\* A key is not held for ever by a call that died or could not record its
\* answer (resolveExistingClaim, sweepWorkspace).
HeldKeyComesBack == (row.state = "open") ~> (row.state # "open")

=============================================================================
