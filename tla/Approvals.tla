------------------------------ MODULE Approvals ------------------------------
(***************************************************************************)
(* The approvals engine (modules/approvals): proposals are staged, a human *)
(* (or a lent credential) decides them, and an approved one is redeemed    *)
(* once for exactly the call it was staged for.                            *)
(*                                                                         *)
(* A handler that runs in one transaction under the row lock it takes      *)
(* first is one action.  The two that are not atomic are split at the      *)
(* point where other transactions interleave: staging (probe under the     *)
(* identity lock, then write) and redemption (validate an unlocked read,   *)
(* then the conditional UPDATE, then possibly an effect in a transaction   *)
(* of its own).                                                            *)
(*                                                                         *)
(* A change is a model value that stands for proposed_change and for its   *)
(* diff_hash; an erasure blanks the first and leaves the second.  Identity *)
(* maps it to the logical identity its stager declares.  clock is          *)
(* Postgres now(); app processes read it off by at most MaxSkew.           *)
(***************************************************************************)
EXTENDS Integers, Sequences, FiniteSets

CONSTANTS
    Kind,           \* staging kinds
    NeverExpires,   \* noExpiryKinds
    PinnedKind,     \* kinds whose target version is pinned at staging
    SameTxKind,     \* kinds whose executor uses RedeemAndApply
    PinnedWrite,    \* kinds whose effect carries the pin Redeem returns
    Target,         \* target records
    Change,         \* proposed changes
    Identity,       \* [Change -> logical identity]
    Personal,       \* changes an erasure finds its subject in
    Passport,       \* agent credentials
    Server,         \* the proposer of a server-side flow, and its executor
    Human,          \* a human decider
    Bundle,         \* bundle ids
    NoBundle,
    Nothing,        \* the value of an absent field
    Request,        \* the stagings the environment asks for
    Stager,         \* concurrent staging transactions
    Caller,         \* concurrent redemptions
    TTL,            \* stagingTTL
    RedemptionTTL,  \* redemptionTTL
    MaxSkew,        \* bound: clock skew between an app process and Postgres
    MaxApprovals,   \* bound: approval rows
    MaxErased,      \* bound: rows erased
    MaxTime,        \* bound: clock
    MaxVersion      \* bound: target versions

Op == {"create", "join", "identity", "unless", "call"}
RequestType ==
    [op : Op, kind : Kind, target : Target, change : Change,
     by : Passport \cup {Server}, bundle : Bundle \cup {NoBundle}]

ASSUME ApprovalsAssumption ==
    /\ NeverExpires \subseteq Kind
    /\ PinnedKind \subseteq Kind
    /\ SameTxKind \subseteq Kind
    /\ PinnedWrite \subseteq Kind
    /\ Personal \subseteq Change
    /\ DOMAIN Identity = Change
    /\ Server \notin Passport
    /\ Human \notin Passport \cup {Server}
    /\ NoBundle \notin Bundle
    /\ Nothing \notin Change \cup RequestType
    /\ Request \subseteq RequestType
    /\ {TTL, RedemptionTTL, MaxSkew, MaxApprovals, MaxErased, MaxTime, MaxVersion}
         \subseteq Nat

Approval == 1 .. MaxApprovals
NoRow == 0
NoPin == 0

VARIABLES
    row,       \* the approval table, by creation order
    version,   \* the version column of each target
    stager,    \* each staging transaction
    caller,    \* each redemption
    todo,      \* approved server proposals whose executor has not started
    applied,   \* history: how often each approval's effect was applied
    drifted,   \* history: approvals applied to a target that had moved past the pin
    verdicts,  \* approval.decided events emitted for each approval
    clock      \* Postgres now()

tableVars == <<row, verdicts>>
effectVars == <<version, applied, drifted>>
approvalVars == <<row, version, stager, caller, todo, applied, drifted, verdicts, clock>>

Status == {"absent", "pending", "approved", "rejected", "expired"}
Settled == {"approved", "rejected", "expired"}

RowType ==
    [status : Status, req : Request \cup {Nothing}, change : Change \cup {Nothing}, pin : Nat,
     expires : Int, decidedAt : Int, consumed : BOOLEAN, bundle : Bundle \cup {NoBundle},
     erased : BOOLEAN]

StagerType ==
    [pc : {"idle"}] \cup
    [pc : {"probed"}, req : Request, at : Nat, hit : Approval \cup {NoRow},
     locks : SUBSET Approval, declined : BOOLEAN]

CallerType ==
    [pc : {"idle"}] \cup [pc : {"validated", "released"}, id : Approval, hash : Change]

\* An approval that exists has its request and its payload.
Filled(r) == r.status # "absent" => r.req \in Request /\ r.change \in Change

\* Types; no staging, decision, sweep or redemption leaves a row without the
\* request and the payload it is about.
ApprovalsTypeOK ==
    /\ row \in [Approval -> RowType]
    /\ \A a \in Approval : Filled(row[a])
    /\ version \in [Target -> Nat]
    /\ stager \in [Stager -> StagerType]
    /\ caller \in [Caller -> CallerType]
    /\ todo \subseteq Approval
    /\ applied \in [Approval -> Nat]
    /\ drifted \subseteq Approval
    /\ verdicts \in [Approval -> Seq(Settled)]
    /\ clock \in Nat

AbsentRow ==
    [status |-> "absent", req |-> Nothing, change |-> Nothing, pin |-> NoPin,
     expires |-> 0, decidedAt |-> 0, consumed |-> FALSE, bundle |-> NoBundle,
     erased |-> FALSE]

Idle == [pc |-> "idle"]

ApprovalsInit ==
    /\ row = [a \in Approval |-> AbsentRow]
    /\ version = [t \in Target |-> 1]
    /\ stager = [s \in Stager |-> Idle]
    /\ caller = [c \in Caller |-> Idle]
    /\ todo = {}
    /\ applied = [a \in Approval |-> 0]
    /\ drifted = {}
    /\ verdicts = [a \in Approval |-> <<>>]
    /\ clock = 1

-----------------------------------------------------------------------------
(* Reading a row. *)

\* s.now() in some app process.
AppNow == {clock + d : d \in -MaxSkew .. MaxSkew}

Exempt(a) == row[a].req.kind \in NeverExpires

\* The stored status, with no lazy expiry.
StoredStatus(a, now) == row[a].status

\* effectiveStatus: lazy expiry folded into the stored status.
EffectiveStatus(a, now) ==
    IF row[a].status = "pending" /\ ~Exempt(a) /\ now > row[a].expires
    THEN "expired"
    ELSE row[a].status

\* status = 'pending' AND expires_at > now(), in SQL.
LivePending(a, now) == row[a].status = "pending" /\ row[a].expires > now

\* kind = $1 AND target_entity_id IS NOT DISTINCT FROM $2.
SameSubject(a, req) ==
    /\ row[a].status # "absent"
    /\ row[a].req.kind = req.kind
    /\ row[a].req.target = req.target

SameHash(a, req) == SameSubject(a, req) /\ row[a].change = req.change

\* proposed_change @> identity: an erased payload is '{}' and contains none.
SameIdentity(a, req) ==
    /\ SameSubject(a, req)
    /\ ~row[a].erased
    /\ Identity[row[a].change] = Identity[req.change]

RowLocked(a) == \E s \in Stager : stager[s].pc = "probed" /\ a \in stager[s].locks

-----------------------------------------------------------------------------
(* Redemption's rules: validateRedemption and validateRedemptionTarget. *)

\* A rule that forgot the edited payload: only kind and passport are compared.
RedeemableAnyHash(a, tool, hash, by, now) ==
    /\ row[a].status = "approved"
    /\ row[a].req.kind = tool
    /\ by \in Passport => row[a].req.by = by
    /\ ~row[a].consumed
    /\ now - row[a].decidedAt <= RedemptionTTL
    /\ row[a].pin # NoPin => version[row[a].req.target] = row[a].pin

Redeemable(a, tool, hash, by, now) ==
    /\ row[a].status = "approved"
    /\ row[a].req.kind = tool
    /\ row[a].change = hash
    /\ by \in Passport => row[a].req.by = by
    /\ ~row[a].consumed
    /\ now - row[a].decidedAt <= RedemptionTTL
    /\ row[a].pin # NoPin => version[row[a].req.target] = row[a].pin

-----------------------------------------------------------------------------
(* Staging: Stage, StageOrJoinPendingInTx, StageUnlessDeclined and           *)
(* StageAgentCall.  Each is a probe, then a write, in one transaction whose  *)
(* now() is the time it began.                                               *)

ByIdentity(req) == req.op \in {"identity", "unless"}

\* lockProposalIdentity's key.
LockKey(req) ==
    <<req.kind, req.target, IF ByIdentity(req) THEN Identity[req.change] ELSE req.change>>

\* pg_advisory_xact_lock: creations take none.
IdentityLockHeld(req) ==
    \E s \in Stager :
        /\ stager[s].pc = "probed"
        /\ stager[s].req.op # "create"
        /\ LockKey(stager[s].req) = LockKey(req)

Least(S) == {a \in S : \A b \in S : a <= b}
Greatest(S) == {a \in S : \A b \in S : b <= a}
OneOf(S) == IF S = {} THEN NoRow ELSE CHOOSE a \in S : TRUE

\* The joining probe: the newest live proposal of the same hash.
Joinable(req, now) == Greatest({a \in Approval : SameHash(a, req) /\ LivePending(a, now)})

\* StageUnlessDeclined reads every prior offer, whatever its status.
PriorOffers(req) == {a \in Approval : SameIdentity(a, req)}

\* liveApprovalForCallInTx's candidates.
CallCandidates(req, now) ==
    {a \in Approval :
        /\ SameHash(a, req)
        /\ row[a].req.by = req.by
        /\ LivePending(a, now) \/ (row[a].status = "approved" /\ ~row[a].consumed)}

\* An approved, spendable one first; otherwise the oldest undecided.
CallHit(req, now, appNow) ==
    LET candidates == CallCandidates(req, now)
        spendable  == {a \in candidates : Redeemable(a, req.kind, req.change, req.by, appNow)}
        undecided  == {a \in candidates : row[a].status = "pending"}
    IN  IF spendable # {} THEN OneOf(Least(spendable)) ELSE OneOf(Least(undecided))

ProbeHit(req, now, appNow) ==
    IF req.op = "create" THEN NoRow
    ELSE IF req.op = "call" THEN CallHit(req, now, appNow)
    ELSE OneOf(Joinable(req, now))

\* Probes that read without FOR UPDATE.
NothingLocked(req, now) == {}

\* What the probe holds FOR UPDATE until the transaction ends.
ProbeLocks(req, now) ==
    IF req.op = "create" THEN {}
    ELSE IF req.op = "call" THEN CallCandidates(req, now)
    ELSE IF req.op = "unless" THEN PriorOffers(req) \cup Joinable(req, now)
    ELSE Joinable(req, now)

Declined(req) == req.op = "unless" /\ \E a \in PriorOffers(req) : row[a].status = "rejected"

\* (MaxTime leaves room for the new row's whole window.)
Probe(s, req) ==
    /\ stager[s].pc = "idle"
    /\ clock + TTL + MaxSkew < MaxTime
    /\ req.op # "create" => ~IdentityLockHeld(req)
    /\ \A a \in ProbeLocks(req, clock) : ~RowLocked(a)
    /\ \E appNow \in AppNow :
         stager' = [stager EXCEPT ![s] =
           [pc |-> "probed", req |-> req, at |-> clock, hit |-> ProbeHit(req, clock, appNow),
            locks |-> ProbeLocks(req, clock), declined |-> Declined(req)]]
    /\ UNCHANGED <<tableVars, effectVars, caller, todo, clock>>

FreshRow(a) == row[a].status = "absent" /\ \A b \in Approval : b < a => row[b].status # "absent"

\* ttlFor: an exempt kind's deadline is a placeholder no clock reaches.
TTLFor(kind) == IF kind \in NeverExpires THEN MaxTime ELSE TTL

\* insertProposalInTx: the pin is the target's version inside this transaction.
NewRow(req, now) ==
    [status |-> "pending", req |-> req, change |-> req.change,
     pin |-> IF req.kind \in PinnedKind THEN version[req.target] ELSE NoPin,
     expires |-> now + TTLFor(req.kind), decidedAt |-> 0, consumed |-> FALSE, bundle |-> req.bundle,
     erased |-> FALSE]

WithStatus(r, status) == [r EXCEPT !.status = status]

\* Forced expiry, back-dated: supersedePendingInTx and WithdrawInTx.
Lapsed(r, now) == [WithStatus(r, "expired") EXCEPT !.expires = now - 1]

\* rebundleJoinedInTx.
Rebundled(r, req) == IF req.bundle = NoBundle THEN r ELSE [r EXCEPT !.bundle = req.bundle]

\* A staging that never withdraws what it replaces.
SupersedesNothing(req, survivor, now) == {}

\* lockPendingUnderIdentity.
Supersedes(req, survivor, now) ==
    {a \in Approval : /\ ByIdentity(req)
                      /\ a # survivor
                      /\ SameIdentity(a, req)
                      /\ LivePending(a, now)}

EndStaging(s) == stager' = [stager EXCEPT ![s] = Idle]

\* A human has said no, or the call already has its authority object.
StageNothing(s) ==
    /\ stager[s].pc = "probed"
    /\ stager[s].declined \/ (stager[s].req.op = "call" /\ stager[s].hit # NoRow)
    /\ EndStaging(s)
    /\ UNCHANGED <<tableVars, effectVars, caller, todo, clock>>

\* Join the proposal the probe found, or insert; then withdraw what it replaces.
StageRow(s) ==
    /\ stager[s].pc = "probed"
    /\ ~stager[s].declined
    /\ stager[s].req.op = "call" => stager[s].hit = NoRow
    /\ LET req == stager[s].req
           now == stager[s].at
       IN  \E a \in Approval :
             LET gone == Supersedes(req, a, now)
             IN  /\ IF stager[s].hit = NoRow THEN FreshRow(a) ELSE a = stager[s].hit
                 /\ \A b \in gone : RowLocked(b) => b \in stager[s].locks
                 /\ row' = [b \in Approval |->
                              IF b \in gone THEN Lapsed(row[b], now)
                              ELSE IF b # a THEN row[b]
                              ELSE IF stager[s].hit = NoRow THEN NewRow(req, now)
                              ELSE Rebundled(row[b], req)]
    /\ EndStaging(s)
    /\ UNCHANGED <<effectVars, verdicts, caller, todo, clock>>

\* The transaction rolls back: an error, a dropped connection, a crash.
StageAborts(s) ==
    /\ stager[s].pc = "probed"
    /\ EndStaging(s)
    /\ UNCHANGED <<tableVars, effectVars, caller, todo, clock>>

-----------------------------------------------------------------------------
(* Deciding: decideInTx, DecideEdited, DecideBundle, ExpireDue, Withdraw. *)

\* agentMayDecide: a credential does not approve what it proposed.
MayDecide(who, a, verdict) == verdict = "approved" => row[a].req.by # who

Decidable(a, who, verdict, now) ==
    /\ row[a].status # "absent"
    /\ ~RowLocked(a)
    /\ MayDecide(who, a, verdict)
    /\ EffectiveStatus(a, now) = "pending"

WithChange(r, change) == [r EXCEPT !.change = change]

Decided(r, verdict, change) ==
    [WithChange(WithStatus(r, verdict), change) EXCEPT !.decidedAt = clock]

\* What runDecisionEffect runs after the commit: server proposals only.
Released(S, verdict) == {a \in S : verdict = "approved" /\ row[a].req.by = Server}

\* Decide in place, or after the human edited the payload.
Decide(a, who, verdict, change) ==
    /\ \E now \in AppNow : Decidable(a, who, verdict, now)
    /\ change # row[a].change => verdict = "approved"
    /\ row' = [row EXCEPT ![a] = Decided(@, verdict, change)]
    /\ verdicts' = [verdicts EXCEPT ![a] = Append(@, verdict)]
    /\ todo' = todo \cup Released({a}, verdict)
    /\ UNCHANGED <<effectVars, stager, caller, clock>>

Members(b) == {a \in Approval : row[a].status # "absent" /\ row[a].bundle = b}

\* One transaction over the whole bundle; members already settled are skipped.
DecideBundle(b, who, verdict) ==
    /\ \A a \in Members(b) : ~RowLocked(a)
    /\ \E now \in AppNow :
         LET decided == {a \in Members(b) : Decidable(a, who, verdict, now)}
         IN  /\ decided # {}
             /\ row' = [a \in Approval |->
                          IF a \in decided THEN Decided(row[a], verdict, row[a].change) ELSE row[a]]
             /\ verdicts' = [a \in Approval |->
                          IF a \in decided THEN Append(verdicts[a], verdict) ELSE verdicts[a]]
             /\ todo' = todo \cup Released(decided, verdict)
    /\ UNCHANGED <<effectVars, stager, caller, clock>>

\* A sweep that trusts its unlocked read of the folded status.
SweepUnguarded(a) ==
    /\ row[a].status \in {"pending", "approved"}
    /\ ~RowLocked(a)
    /\ ~Exempt(a)
    /\ \E now \in AppNow : now > row[a].expires
    /\ row' = [row EXCEPT ![a] = Decided(@, "expired", @.change)]
    /\ verdicts' = [verdicts EXCEPT ![a] = Append(@, "expired")]
    /\ UNCHANGED <<effectVars, stager, caller, todo, clock>>

\* A sweep that looks only at what became due a moment ago.
SweepJustDue(a) ==
    /\ row[a].status = "pending"
    /\ ~RowLocked(a)
    /\ ~Exempt(a)
    /\ \E now \in AppNow : now = row[a].expires + 1
    /\ row' = [row EXCEPT ![a] = Decided(@, "expired", @.change)]
    /\ verdicts' = [verdicts EXCEPT ![a] = Append(@, "expired")]
    /\ UNCHANGED <<effectVars, stager, caller, todo, clock>>

\* dueForExpiry and expireOne: the stored status is re-checked under the lock.
Sweep(a) ==
    /\ row[a].status = "pending"
    /\ ~RowLocked(a)
    /\ ~Exempt(a)
    /\ \E now \in AppNow : now > row[a].expires
    /\ row' = [row EXCEPT ![a] = Decided(@, "expired", @.change)]
    /\ verdicts' = [verdicts EXCEPT ![a] = Append(@, "expired")]
    /\ UNCHANGED <<effectVars, stager, caller, todo, clock>>

\* WithdrawInTx: by the proposing agent, or by the flow whose subject is gone.
Withdraw(a) ==
    /\ row[a].status = "pending"
    /\ ~RowLocked(a)
    /\ row' = [row EXCEPT ![a] = Lapsed(@, clock)]
    /\ UNCHANGED <<effectVars, verdicts, stager, caller, todo, clock>>

\* Withdrawn where it was open; where it was decided, only its text goes.
Blanked(r) ==
    [(IF r.status = "pending" THEN [WithStatus(r, "expired") EXCEPT !.decidedAt = clock] ELSE r)
        EXCEPT !.erased = TRUE]

\* redactStagedApprovals, or redactApprovalsCitingActivities: in the erasure's
\* transaction, every proposal it finds its subject in.  It announces nothing.
Redact(S) ==
    /\ \A a \in S :
         /\ row[a].status # "absent" /\ row[a].change \in Personal /\ ~row[a].erased
         /\ ~RowLocked(a)
    /\ Cardinality(S \cup {a \in Approval : row[a].erased}) <= MaxErased
    /\ row' = [a \in Approval |-> IF a \in S THEN Blanked(row[a]) ELSE row[a]]
    /\ UNCHANGED <<effectVars, verdicts, stager, caller, todo, clock>>

-----------------------------------------------------------------------------
(* Redeeming: Redeem, RedeemAndApply and the effect they release. *)

\* An agent retries a call with an approval id, or a server executor starts.
Validate(c, a, by, hash) ==
    /\ caller[c].pc = "idle"
    /\ row[a].status # "absent"
    /\ \E now \in AppNow : Redeemable(a, row[a].req.kind, hash, by, now)
    /\ caller' = [caller EXCEPT ![c] = [pc |-> "validated", id |-> a, hash |-> hash]]
    /\ UNCHANGED <<tableVars, effectVars, stager, clock>>

AgentRedeems(c, a, by, hash) ==
    /\ Validate(c, a, by, hash)
    /\ UNCHANGED todo

ExecutorRedeems(c, a) ==
    /\ a \in todo
    /\ todo' = todo \ {a}
    /\ Validate(c, a, Server, row[a].change)

\* The executor was refused (window closed, target moved), or its process died
\* after the decision committed: the approval stays approved and unredeemed.
ExecutorLost(a) ==
    /\ a \in todo
    /\ todo' = todo \ {a}
    /\ UNCHANGED <<tableVars, effectVars, stager, caller, clock>>

Forget(c) == caller' = [caller EXCEPT ![c] = Idle]

SpendRow(a) == row' = [row EXCEPT ![a].consumed = TRUE]

\* The effect happens: the target moves to its next version.
ApplyEffect(a) ==
    LET t == row[a].req.target
    IN  /\ version[t] < MaxVersion
        /\ version' = [version EXCEPT ![t] = @ + 1]
        /\ applied' = [applied EXCEPT ![a] = @ + 1]
        /\ drifted' = IF row[a].pin \notin {NoPin, version[t]} THEN drifted \cup {a} ELSE drifted

SameTx(a) == row[a].req.kind \in SameTxKind

\* An UPDATE without AND consumed_at IS NULL.
ConsumableTwice(c) ==
    /\ caller[c].pc = "validated"
    /\ ~RowLocked(caller[c].id)

\* UPDATE ... SET consumed_at = now() WHERE id = $1 AND consumed_at IS NULL.
Consumable(c) ==
    /\ caller[c].pc = "validated"
    /\ ~RowLocked(caller[c].id)
    /\ ~row[caller[c].id].consumed

\* Redeem commits on its own; the caller applies the effect afterwards.
Consume(c) ==
    /\ Consumable(c)
    /\ ~SameTx(caller[c].id)
    /\ SpendRow(caller[c].id)
    /\ caller' = [caller EXCEPT ![c].pc = "released"]
    /\ UNCHANGED <<effectVars, verdicts, stager, todo, clock>>

\* RedeemAndApply: the conditional UPDATE and the effect commit together, and so
\* they do where the effect finds nothing left to write and stands down.
ConsumeAndApply(c) ==
    /\ Consumable(c)
    /\ SameTx(caller[c].id)
    /\ SpendRow(caller[c].id)
    /\ ApplyEffect(caller[c].id) \/ UNCHANGED effectVars
    /\ Forget(c)
    /\ UNCHANGED <<stager, todo, verdicts, clock>>

\* A released caller of any kind writes without the pin.
ApplyUnpinned(c) ==
    /\ caller[c].pc = "released"
    /\ ApplyEffect(caller[c].id)
    /\ Forget(c)
    /\ UNCHANGED <<tableVars, stager, todo, clock>>

CarriesPin(a) == row[a].req.kind \in PinnedWrite

\* The released caller's write: conditioned on the version Redeem returned where
\* the executor binds it (closeDateConfirmEffect, assignOwnerReleaseEffect, an
\* agent's call through pinForWrite), unconditional where it drops it
\* (scrapeAcceptEffect).
Apply(c) ==
    /\ caller[c].pc = "released"
    /\ CarriesPin(caller[c].id) =>
         row[caller[c].id].pin \in {NoPin, version[row[caller[c].id].req.target]}
    /\ ApplyEffect(caller[c].id)
    /\ Forget(c)
    /\ UNCHANGED <<tableVars, stager, todo, clock>>

\* Zero rows updated, a version skew, a failed write, or a crash: in every
\* case nothing more is written, and what was committed stays.
RedemptionEnds(c) ==
    /\ caller[c].pc # "idle"
    /\ Forget(c)
    /\ UNCHANGED <<tableVars, effectVars, stager, todo, clock>>

-----------------------------------------------------------------------------
(* The rest of the system: other writes to the targets, and time. *)

TargetWrite(t) ==
    /\ version[t] < MaxVersion
    /\ version' = [version EXCEPT ![t] = @ + 1]
    /\ UNCHANGED <<tableVars, stager, caller, todo, applied, drifted, clock>>

Tick ==
    /\ clock < MaxTime
    /\ clock' = clock + 1
    /\ UNCHANGED <<tableVars, effectVars, stager, caller, todo>>

StagerNext(s) ==
    (\E req \in Request : Probe(s, req)) \/ StageNothing(s) \/ StageRow(s) \/ StageAborts(s)

Decider == Passport \cup {Human}
Verdict == {"approved", "rejected"}

DecideNext ==
    \/ \E a \in Approval, who \in Decider, verdict \in Verdict, change \in Change :
         Decide(a, who, verdict, change)
    \/ \E b \in Bundle, who \in Decider, verdict \in Verdict : DecideBundle(b, who, verdict)
    \/ \E a \in Approval : Sweep(a) \/ Withdraw(a)

ErasureNext == \E S \in (SUBSET Approval) \ {{}} : Redact(S)

CallerNext(c) ==
    \/ \E a \in Approval, by \in Passport, hash \in Change : AgentRedeems(c, a, by, hash)
    \/ \E a \in Approval : ExecutorRedeems(c, a)
    \/ Consume(c) \/ ConsumeAndApply(c) \/ Apply(c) \/ RedemptionEnds(c)

ApprovalsNext ==
    \/ \E s \in Stager : StagerNext(s)
    \/ DecideNext
    \/ ErasureNext
    \/ \E c \in Caller : CallerNext(c)
    \/ \E a \in Approval : ExecutorLost(a)
    \/ \E t \in Target : TargetWrite(t)
    \/ Tick

ApprovalsSpec == ApprovalsInit /\ [][ApprovalsNext]_approvalVars

\* The expiry sweep is a periodic job, a staging transaction ends (its process
\* commits it or Postgres aborts it), and time passes.
ApprovalsFairness ==
    /\ \A a \in Approval : WF_approvalVars(Sweep(a))
    /\ \A s \in Stager : WF_approvalVars(StageNothing(s) \/ StageRow(s) \/ StageAborts(s))
    /\ WF_approvalVars(Tick)

FairApprovalsSpec == ApprovalsSpec /\ ApprovalsFairness

-----------------------------------------------------------------------------
(* Properties. *)

\* "Two racing redemptions cannot both pass": an approval's effect is applied
\* at most once, whoever retries, races or crashes (RedeemInTx).
SingleUse == \A a \in Approval : applied[a] <= 1

\* A redemption under way holds exactly the call the human approved: the
\* payload as edited, not as staged (applyEditedPayload, validateRedemption).
OnlyTheApprovedCall ==
    \A c \in Caller :
        caller[c].pc # "idle" =>
            /\ row[caller[c].id].status = "approved"
            /\ row[caller[c].id].change = caller[c].hash

\* What a reader of the row sees of its payload.
Text(r) == IF r.erased THEN Nothing ELSE r.change

SettledStays ==
    \A a \in Approval :
        row[a].status \in Settled =>
            /\ row'[a].status = row[a].status
            /\ row'[a].change = row[a].change
            /\ row'[a].bundle = row[a].bundle
            /\ row'[a].decidedAt = row[a].decidedAt
            /\ Text(row'[a]) \in {Text(row[a]), Nothing}

\* A settled proposal keeps its verdict, its hash, its bundle and the instant it
\* was decided for ever, and its payload until an erasure blanks it: no second
\* decision, sweep, withdrawal, supersession or join reaches it, and an erasure
\* takes "the payload and leaves the verdict intact" (redactStagedApprovals).
DecisionIsFinal == [][SettledStays]_approvalVars

\* Each approval announces at most one verdict, the one its row holds, and a
\* verdict by a human is always announced (decideInTx and expireOne emit in
\* the transaction that writes the status; a withdrawal emits nothing).
OneVerdictAnnounced ==
    \A a \in Approval :
        /\ verdicts[a] \in {<<>>, <<row[a].status>>}
        /\ row[a].status \in {"approved", "rejected"} => verdicts[a] # <<>>

\* The inbox never holds two live questions about one thing: not two offers of
\* one identity, not two proposals of one agent call (the identity lock).
OneLiveQuestion ==
    \A a, b \in Approval :
        LivePending(a, clock) /\ LivePending(b, clock) /\ a # b =>
            LET r == row[a].req
                q == row[b].req
            IN  /\ ~(ByIdentity(r) /\ ByIdentity(q) /\ SameIdentity(b, r))
                /\ ~(r.op = "call" /\ q.op = "call" /\ r.by = q.by /\ SameHash(b, r))

\* What a human refused is not offered again (StageUnlessDeclined), as long as
\* the refused row still has the payload it is recognised by.
DeclinedIsRemembered ==
    [][\A a \in Approval :
         row[a].status = "absent" /\ row'[a].status # "absent" /\ row'[a].req.op = "unless" =>
            ~Declined(row'[a].req)]_approvalVars

\* An effect lands on a record that moved past the pin only where nothing checks
\* the version in the write itself: an executor that drops the pin Redeem returns
\* to it, and RedeemAndApply, whose check reads the target without a lock.
OnlyUncheckedWritesDrift ==
    \A a \in drifted : row[a].pin # NoPin /\ (SameTx(a) \/ ~CarriesPin(a))

\* "Callers that can hold one transaction should use RedeemAndApply instead and
\* have no window at all" (Redeem): they have one (ApprovalsPinnedSameTx.cfg).
AppliedAtTheApprovedVersion == drifted = {}

\* No proposal is decided after its deadline by more than the skew between the
\* clock that stamped expires_at and the one the decision reads: Postgres now()
\* in insertProposalInTx, the app's s.now() in decideInTx.
DecidedWithinItsWindow ==
    [][\A a \in Approval :
         row[a].status = "pending" /\ row'[a].status \in Verdict =>
            Exempt(a) \/ clock <= row[a].expires + MaxSkew]_approvalVars

\* Every proposal of an expiring kind is eventually settled.
PendingIsEventuallySettled ==
    \A a \in Approval :
        (row[a].status = "pending" /\ ~Exempt(a)) ~> (row[a].status \in Settled)

-----------------------------------------------------------------------------
(* The abstract authority object a row, its redemption and its effect form. *)

LifeOf(a) ==
    IF row[a].status = "absent" THEN "none"
    ELSE IF row[a].status = "pending" THEN "open"
    ELSE IF row[a].status # "approved" THEN "closed"
    ELSE IF ~row[a].consumed THEN "granted"
    ELSE IF applied[a] = 0 THEN "spent"
    ELSE IF applied[a] = 1 THEN "done"
    ELSE "misused"

lives == [a \in Approval |-> LifeOf(a)]

Abstract == INSTANCE Authority WITH Id <- Approval, life <- lives

\* The engine implements the authority object: whatever races, an approval is
\* asked once, settled once, spent once and performed once, in that order.
ImplementsAuthority == Abstract!AuthoritySpec

\* A settled row in the eyes of those who wait on it: spent once redeemed, and
\* withdrawn if nobody announced that it expired.
CardOf(a) ==
    IF row[a].status = "absent" THEN "none"
    ELSE IF row[a].consumed THEN "spent"
    ELSE IF row[a].status = "expired" /\ verdicts[a] = <<>> THEN "withdrawn"
    ELSE row[a].status

cards == [a \in Approval |-> CardOf(a)]

Inbox == INSTANCE Cards
           WITH Card <- Approval, card <- cards, told <- {a \in Approval : verdicts[a] # <<>>}

\* The engine keeps the agreement its clients count on, whatever races.
KeepsTheCards == Inbox!CardsSpec

\* What makes single use hold: an effect is only ever behind a spent approval,
\* a caller is let through only by the approval it spent itself, and that
\* approval has not been applied yet (RedeemInTx's conditional UPDATE).
SpentBeforeApplied ==
    /\ \A a \in Approval :
         /\ applied[a] # 0 => row[a].consumed
         /\ row[a].consumed => row[a].status = "approved"
    /\ \A c \in Caller :
         caller[c].pc = "released" => row[caller[c].id].consumed /\ applied[caller[c].id] = 0
    /\ \A c, d \in Caller :
         caller[c].pc = "released" /\ caller[d].pc = "released" /\ caller[c].id = caller[d].id =>
            c = d

\* What makes a verdict final: the proposal a staging is about to join is held
\* locked, and no two transactions hold one row.
JoinsWhatItHolds ==
    /\ \A s \in Stager :
         stager[s].pc = "probed" /\ stager[s].req.op # "call" /\ stager[s].hit # NoRow =>
            /\ stager[s].hit \in stager[s].locks
            /\ row[stager[s].hit].status = "pending"
    /\ \A s, t \in Stager :
         stager[s].pc = "probed" /\ stager[t].pc = "probed"
            /\ stager[s].locks \cap stager[t].locks # {} => s = t

=============================================================================
