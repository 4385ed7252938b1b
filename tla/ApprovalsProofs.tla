--------------------------- MODULE ApprovalsProofs ---------------------------
(***************************************************************************)
(* Proofs about the approvals engine, for every set of kinds, targets,     *)
(* changes, requests, stagers and callers, and every bound: types, single  *)
(* use, finality, joins, verdicts, windows, pinned versions, one live      *)
(* question, remembered refusals, and the refinement of Authority.         *)
(***************************************************************************)
EXTENDS Approvals, WellFoundedInduction, TLAPS

\* OneOf picks a member, or says that there is none (ORDER BY ... LIMIT 1).
LEMMA OneOfMember ==
    ASSUME NEW S, S \subseteq Approval
    PROVE  /\ S # {} => OneOf(S) \in S
           /\ OneOf(S) \in Approval \cup {NoRow}
  BY DEF OneOf

\* What a probe finds is an approval row, or no row (the staging probes).
LEMMA ProbeHitType ==
    ASSUME NEW req \in Request, NEW now, NEW appNow
    PROVE  ProbeHit(req, now, appNow) \in Approval \cup {NoRow}
<1>1. CallHit(req, now, appNow) \in Approval \cup {NoRow}
  <2>1. \A S \in SUBSET Approval : OneOf(Least(S)) \in Approval \cup {NoRow}
    BY OneOfMember DEF Least
  <2>2. CallCandidates(req, now) \subseteq Approval
    BY DEF CallCandidates
  <2> QED
    BY <2>1, <2>2 DEF CallHit
<1>2. OneOf(Joinable(req, now)) \in Approval \cup {NoRow}
  BY OneOfMember DEF Joinable, Greatest
<1> QED
  BY <1>1, <1>2 DEF ProbeHit, NoRow

\* A request names a kind, a target and a change (RequestType).
LEMMA RequestFields ==
    ASSUME NEW req \in Request
    PROVE  /\ req.op \in Op
           /\ req.kind \in Kind
           /\ req.target \in Target
           /\ req.change \in Change
           /\ req.by \in Passport \cup {Server}
           /\ req.bundle \in Bundle \cup {NoBundle}
  BY ApprovalsAssumption DEF RequestType

\* The numeric constants are naturals.
LEMMA Numbers ==
    /\ TTL \in Nat
    /\ MaxSkew \in Nat
    /\ \A kind : TTLFor(kind) \in Nat
  BY ApprovalsAssumption DEF TTLFor

\* The initial state is well typed.
LEMMA InitTypeOK == ApprovalsInit => ApprovalsTypeOK
<1> SUFFICES ASSUME ApprovalsInit PROVE ApprovalsTypeOK
  OBVIOUS
<1>1. AbsentRow \in RowType
  BY DEF AbsentRow, RowType, Status, NoPin
<1>2. Idle \in StagerType /\ Idle \in CallerType
  BY DEF Idle, StagerType, CallerType
<1>3. verdicts \in [Approval -> Seq(Settled)]
  BY DEF ApprovalsInit
<1>4. Filled(AbsentRow)
  BY DEF Filled, AbsentRow
<1> QED
  BY <1>1, <1>2, <1>3, <1>4 DEF ApprovalsInit, ApprovalsTypeOK

\* The UPDATEs on a row change the columns they name and no other.
LEMMA WithStatusFields ==
    ASSUME NEW r \in RowType, NEW status \in Status
    PROVE  /\ WithStatus(r, status) \in RowType
           /\ WithStatus(r, status).status = status
           /\ WithStatus(r, status).req = r.req
           /\ WithStatus(r, status).change = r.change
           /\ WithStatus(r, status).consumed = r.consumed
           /\ WithStatus(r, status).bundle = r.bundle
           /\ WithStatus(r, status).decidedAt = r.decidedAt
           /\ WithStatus(r, status).erased = r.erased
  BY DEF WithStatus, RowType

\* A row with the request and payload of a filled one is filled.
LEMMA FilledCopy ==
    ASSUME NEW r, NEW q, q.req = r.req, q.change = r.change, r.req \in Request, r.change \in Change
    PROVE  Filled(q)
  BY DEF Filled

\* A superseded or withdrawn row expires and keeps the rest (supersedePendingInTx).
LEMMA LapsedFields ==
    ASSUME NEW r \in RowType, NEW now \in Int
    PROVE  /\ Lapsed(r, now) \in RowType
           /\ Lapsed(r, now).status = "expired"
           /\ Lapsed(r, now).consumed = r.consumed
           /\ Lapsed(r, now).req = r.req
           /\ Lapsed(r, now).change = r.change
           /\ Lapsed(r, now).erased = r.erased
           /\ r.req \in Request /\ r.change \in Change => Filled(Lapsed(r, now))
<1>1. "expired" \in Status
  BY DEF Status
<1> DEFINE q == WithStatus(r, "expired")
<1>2. /\ q \in RowType /\ q.status = "expired"
      /\ q.consumed = r.consumed /\ q.req = r.req /\ q.change = r.change
      /\ q.erased = r.erased
  BY <1>1, WithStatusFields
<1> HIDE DEF q
<1>3. /\ [q EXCEPT !.expires = now - 1] \in RowType
      /\ [q EXCEPT !.expires = now - 1].status = "expired"
      /\ [q EXCEPT !.expires = now - 1].consumed = r.consumed
      /\ [q EXCEPT !.expires = now - 1].req = r.req
      /\ [q EXCEPT !.expires = now - 1].change = r.change
      /\ [q EXCEPT !.expires = now - 1].erased = r.erased
  BY <1>2 DEF RowType
<1> QED
  BY <1>3, FilledCopy DEF Lapsed, q

\* A decided row holds the verdict and the payload decided on (decideInTx).
LEMMA DecidedFields ==
    ASSUME NEW r \in RowType, NEW verdict \in Settled, NEW change \in Change \cup {Nothing},
           clock \in Nat
    PROVE  /\ Decided(r, verdict, change) \in RowType
           /\ Decided(r, verdict, change).status = verdict
           /\ Decided(r, verdict, change).consumed = r.consumed
           /\ Decided(r, verdict, change).req = r.req
           /\ Decided(r, verdict, change).change = change
           /\ Decided(r, verdict, change).erased = r.erased
           /\ r.req \in Request /\ change \in Change => Filled(Decided(r, verdict, change))
<1>1. verdict \in Status
  BY DEF Status, Settled
<1> DEFINE p == WithStatus(r, verdict)
           q == WithChange(p, change)
<1>2. /\ p \in RowType /\ p.status = verdict /\ p.consumed = r.consumed /\ p.req = r.req
      /\ p.erased = r.erased
  BY <1>1, WithStatusFields
<1> HIDE DEF p
<1>3. /\ q \in RowType /\ q.status = verdict /\ q.consumed = r.consumed
      /\ q.req = r.req /\ q.change = change /\ q.erased = r.erased
  BY <1>2 DEF RowType, WithChange
<1> HIDE DEF q
<1>4. /\ [q EXCEPT !.decidedAt = clock] \in RowType
      /\ [q EXCEPT !.decidedAt = clock].status = verdict
      /\ [q EXCEPT !.decidedAt = clock].consumed = r.consumed
      /\ [q EXCEPT !.decidedAt = clock].req = r.req
      /\ [q EXCEPT !.decidedAt = clock].change = change
      /\ [q EXCEPT !.decidedAt = clock].erased = r.erased
  BY <1>3 DEF RowType
<1> QED
  BY <1>4 DEF Decided, Filled, p, q

\* A staged row is pending, unspent and holds its request (insertProposalInTx).
LEMMA NewRowFields ==
    ASSUME NEW req \in Request, NEW now \in Int, version \in [Target -> Nat]
    PROVE  /\ NewRow(req, now) \in RowType
           /\ NewRow(req, now).status = "pending"
           /\ NewRow(req, now).consumed = FALSE
           /\ NewRow(req, now).req = req
           /\ NewRow(req, now).change = req.change
           /\ NewRow(req, now).erased = FALSE
           /\ Filled(NewRow(req, now))
  BY RequestFields, Numbers DEF NewRow, RowType, Status, NoPin, Filled

\* Joining a bundle changes the bundle and nothing else (rebundleJoinedInTx).
LEMMA RebundledFields ==
    ASSUME NEW r \in RowType, NEW req \in Request
    PROVE  /\ Rebundled(r, req) \in RowType
           /\ Rebundled(r, req).status = r.status
           /\ Rebundled(r, req).change = r.change
           /\ Rebundled(r, req).req = r.req
           /\ Rebundled(r, req).consumed = r.consumed
           /\ Rebundled(r, req).decidedAt = r.decidedAt
           /\ Rebundled(r, req).erased = r.erased
           /\ Filled(r) => Filled(Rebundled(r, req))
  BY RequestFields DEF Rebundled, RowType, Filled

\* Staging writes only well-typed rows and leaves no half-open transaction.
LEMMA StagingKeepsTypes ==
    ASSUME ApprovalsTypeOK, NEW s \in Stager, StagerNext(s)
    PROVE  ApprovalsTypeOK'
<1> USE DEF ApprovalsTypeOK
<1>1. Idle \in StagerType
  BY DEF Idle, StagerType
<1>2. ASSUME NEW req \in Request, Probe(s, req) PROVE ApprovalsTypeOK'
  <2>1. PICK appNow \in AppNow :
          stager' = [stager EXCEPT ![s] =
            [pc |-> "probed", req |-> req, at |-> clock, hit |-> ProbeHit(req, clock, appNow),
             locks |-> ProbeLocks(req, clock), declined |-> Declined(req)]]
    BY <1>2 DEF Probe
  <2>2. ProbeLocks(req, clock) \in SUBSET Approval
    BY DEF ProbeLocks, CallCandidates, PriorOffers, Joinable, Greatest
  <2>3. Declined(req) \in BOOLEAN
    BY DEF Declined
  <2>4. [pc |-> "probed", req |-> req, at |-> clock, hit |-> ProbeHit(req, clock, appNow),
         locks |-> ProbeLocks(req, clock), declined |-> Declined(req)] \in StagerType
    BY <2>2, <2>3, ProbeHitType DEF StagerType
  <2>5. stager' \in [Stager -> StagerType]
    BY <2>1, <2>4
  <2> QED
    BY <1>2, <2>5 DEF Probe, tableVars, effectVars
<1>3. CASE StageNothing(s)
  BY <1>1, <1>3 DEF StageNothing, EndStaging, tableVars, effectVars
<1>4. CASE StageAborts(s)
  BY <1>1, <1>4 DEF StageAborts, EndStaging, tableVars, effectVars
<1>5. CASE StageRow(s)
  <2> DEFINE req == stager[s].req
             now == stager[s].at
  <2>1. req \in Request /\ now \in Int
    BY <1>5 DEF StageRow, StagerType
  <2>2. PICK a \in Approval :
          row' = [b \in Approval |->
                    IF b \in Supersedes(req, a, now) THEN Lapsed(row[b], now)
                    ELSE IF b # a THEN row[b]
                    ELSE IF stager[s].hit = NoRow THEN NewRow(req, now)
                    ELSE Rebundled(row[b], req)]
    BY <1>5 DEF StageRow
  <2> HIDE DEF req, now
  <2>3. row' \in [Approval -> RowType]
    <3>1. NewRow(req, now) \in RowType
      BY <2>1, NewRowFields
    <3>2. \A b \in Approval : Lapsed(row[b], now) \in RowType /\ Rebundled(row[b], req) \in RowType
      BY <2>1, LapsedFields, RebundledFields
    <3> QED
      BY <2>2, <3>1, <3>2
  <2>5. \A b \in Approval : Filled(row'[b])
    <3>1. Filled(NewRow(req, now))
      BY <2>1, NewRowFields
    <3>2. \A b \in Approval : Filled(Rebundled(row[b], req))
      BY <2>1, RebundledFields
    <3>3. \A b \in Supersedes(req, a, now) : Filled(Lapsed(row[b], now))
      <4>1. \A b \in Supersedes(req, a, now) :
              row[b] \in RowType /\ row[b].req \in Request /\ row[b].change \in Change
        BY DEF Filled, Supersedes, LivePending
      <4> QED
        BY <2>1, <4>1, LapsedFields
    <3> QED
      BY <2>2, <3>1, <3>2, <3>3
  <2>4. stager' \in [Stager -> StagerType]
    BY <1>1, <1>5 DEF StageRow, EndStaging
  <2> QED
    BY <1>5, <2>3, <2>4, <2>5 DEF StageRow, effectVars
<1> QED
  BY <1>2, <1>3, <1>4, <1>5 DEF StagerNext

\* Deciding, sweeping and withdrawing write only well-typed rows.
LEMMA DecidingKeepsTypes ==
    ASSUME ApprovalsTypeOK, DecideNext
    PROVE  ApprovalsTypeOK'
<1> USE DEF ApprovalsTypeOK
<1>1. Verdict \subseteq Settled /\ "expired" \in Settled
  BY DEF Verdict, Settled
<1>2. \A log \in Seq(Settled), v \in Settled : Append(log, v) \in Seq(Settled)
  OBVIOUS
<1>3. ASSUME NEW a \in Approval, NEW who \in Decider, NEW verdict \in Verdict, NEW change \in Change,
             Decide(a, who, verdict, change)
      PROVE  ApprovalsTypeOK'
  <2>1. Decided(row[a], verdict, change) \in RowType /\ Filled(Decided(row[a], verdict, change))
    <3>1. row[a].req \in Request
      BY <1>3 DEF Decide, Decidable, Filled
    <3> QED
      BY <1>1, <3>1, DecidedFields
  <2>2. row' \in [Approval -> RowType] /\ \A b \in Approval : Filled(row'[b])
    BY <1>3, <2>1 DEF Decide
  <2>3. verdicts' \in [Approval -> Seq(Settled)]
    BY <1>1, <1>2, <1>3 DEF Decide
  <2>4. todo' \subseteq Approval
    BY <1>3 DEF Decide, Released
  <2> QED
    BY <1>3, <2>2, <2>3, <2>4 DEF Decide, effectVars
<1>4. ASSUME NEW b \in Bundle, NEW who \in Decider, NEW verdict \in Verdict,
             DecideBundle(b, who, verdict)
      PROVE  ApprovalsTypeOK'
  <2>1. PICK now \in AppNow :
          LET decided == {a \in Members(b) : Decidable(a, who, verdict, now)}
          IN  /\ row' = [a \in Approval |->
                  IF a \in decided THEN Decided(row[a], verdict, row[a].change) ELSE row[a]]
              /\ verdicts' = [a \in Approval |->
                  IF a \in decided THEN Append(verdicts[a], verdict) ELSE verdicts[a]]
              /\ todo' = todo \cup Released(decided, verdict)
    BY <1>4 DEF DecideBundle
  <2>2. \A a \in Members(b) : /\ Decided(row[a], verdict, row[a].change) \in RowType
                              /\ Filled(Decided(row[a], verdict, row[a].change))
    <3>1. \A a \in Members(b) : row[a] \in RowType /\ row[a].change \in Change /\ row[a].req \in Request
      BY DEF Members, Filled
    <3> QED
      BY <1>1, <3>1, DecidedFields
  <2>3. row' \in [Approval -> RowType] /\ \A a \in Approval : Filled(row'[a])
    BY <2>1, <2>2
  <2>4. verdicts' \in [Approval -> Seq(Settled)]
    BY <1>1, <1>2, <2>1
  <2>5. todo' \subseteq Approval
    BY <2>1 DEF Released, Members
  <2> QED
    BY <1>4, <2>3, <2>4, <2>5 DEF DecideBundle, effectVars
<1>5. ASSUME NEW a \in Approval, Sweep(a) PROVE ApprovalsTypeOK'
  <2>1. /\ Decided(row[a], "expired", row[a].change) \in RowType
        /\ Filled(Decided(row[a], "expired", row[a].change))
    <3>1. row[a] \in RowType /\ row[a].change \in Change /\ row[a].req \in Request
      BY <1>5 DEF Sweep, Filled
    <3> QED
      BY <1>1, <3>1, DecidedFields
  <2>2. row' \in [Approval -> RowType] /\ \A b \in Approval : Filled(row'[b])
    BY <1>5, <2>1 DEF Sweep
  <2>3. verdicts' \in [Approval -> Seq(Settled)]
    BY <1>1, <1>2, <1>5 DEF Sweep
  <2> QED
    BY <1>5, <2>2, <2>3 DEF Sweep, effectVars
<1>6. ASSUME NEW a \in Approval, Withdraw(a) PROVE ApprovalsTypeOK'
  <2>1. Lapsed(row[a], clock) \in RowType /\ Filled(Lapsed(row[a], clock))
    <3>1. row[a].req \in Request /\ row[a].change \in Change /\ clock \in Int
      BY <1>6 DEF Withdraw, Filled
    <3> QED
      BY <3>1, LapsedFields
  <2> QED
    BY <1>6, <2>1 DEF Withdraw, effectVars
<1> QED
  BY <1>3, <1>4, <1>5, <1>6 DEF DecideNext

\* The single-column update a redemption makes.
LEMMA SpendRowFields ==
    ASSUME ApprovalsTypeOK, NEW a \in Approval, SpendRow(a)
    PROVE  /\ row' \in [Approval -> RowType]
           /\ \A b \in Approval : Filled(row'[b])
           /\ \A b \in Approval \ {a} : row'[b] = row[b]
           /\ row'[a].consumed = TRUE
           /\ row'[a].status = row[a].status
           /\ row'[a].change = row[a].change
           /\ row'[a].req = row[a].req
           /\ row'[a].bundle = row[a].bundle
           /\ row'[a].decidedAt = row[a].decidedAt
           /\ row'[a].erased = row[a].erased
<1> DEFINE r == row[a]
           q == [r EXCEPT !.consumed = TRUE]
<1>1. r \in RowType
  BY DEF ApprovalsTypeOK
<1> HIDE DEF r
<1>2. /\ q \in RowType
      /\ q.consumed = TRUE
      /\ q.status = r.status
      /\ q.change = r.change
      /\ q.req = r.req
      /\ q.bundle = r.bundle
      /\ q.decidedAt = r.decidedAt
      /\ q.erased = r.erased
  BY <1>1 DEF RowType
<1>3. row' = [row EXCEPT ![a] = q]
  BY DEF SpendRow, r
<1> HIDE DEF q
<1> QED
  BY <1>2, <1>3 DEF ApprovalsTypeOK, Filled, r

\* A redemption under way holds an approval id and a call.
LEMMA CallerFields ==
    ASSUME ApprovalsTypeOK, NEW c \in Caller, caller[c].pc # "idle"
    PROVE  /\ caller[c].id \in Approval
           /\ caller[c].hash \in Change
           /\ [caller[c] EXCEPT !.pc = "released"] \in CallerType
           /\ [caller[c] EXCEPT !.pc = "released"].pc = "released"
           /\ [caller[c] EXCEPT !.pc = "released"].id = caller[c].id
           /\ [caller[c] EXCEPT !.pc = "released"].hash = caller[c].hash
<1> DEFINE k == caller[c]
           L == [pc : {"validated", "released"}, id : Approval, hash : Change]
<1>1. k \in L
  BY DEF ApprovalsTypeOK, CallerType
<1> HIDE DEF k
<1>2. /\ k.id \in Approval
      /\ k.hash \in Change
      /\ [k EXCEPT !.pc = "released"] \in L
      /\ [k EXCEPT !.pc = "released"].pc = "released"
      /\ [k EXCEPT !.pc = "released"].id = k.id
      /\ [k EXCEPT !.pc = "released"].hash = k.hash
  BY <1>1
<1> QED
  BY <1>2 DEF k, CallerType

\* Applying an effect counts it once and moves its target.
LEMMA ApplyEffectFields ==
    ASSUME ApprovalsTypeOK, NEW a \in Approval, ApplyEffect(a)
    PROVE  /\ version' \in [Target -> Nat]
           /\ applied' \in [Approval -> Nat]
           /\ drifted' \subseteq Approval
           /\ applied'[a] = applied[a] + 1
           /\ \A b \in Approval \ {a} : applied'[b] = applied[b]
<1>1. applied' = [applied EXCEPT ![a] = @ + 1]
  BY DEF ApplyEffect
<1>2. version' \in [Target -> Nat]
  <2> DEFINE t == row[a].req.target
  <2>1. version' = [version EXCEPT ![t] = @ + 1] /\ version \in [Target -> Nat]
    BY DEF ApplyEffect, ApprovalsTypeOK
  <2> HIDE DEF t
  <2>2. CASE t \in Target
    BY <2>1, <2>2
  <2>3. CASE t \notin Target
    BY <2>1, <2>3
  <2> QED
    BY <2>2, <2>3
<1>3. drifted' \subseteq Approval
  BY DEF ApplyEffect, ApprovalsTypeOK
<1> QED
  BY <1>1, <1>2, <1>3 DEF ApprovalsTypeOK

\* Every step of a redemption keeps the types.
LEMMA RedeemingKeepsTypes ==
    ASSUME ApprovalsTypeOK, NEW c \in Caller, CallerNext(c)
    PROVE  ApprovalsTypeOK'
<1> USE DEF ApprovalsTypeOK
<1>1. Idle \in CallerType
  BY DEF Idle, CallerType
<1>2. ASSUME NEW a \in Approval, NEW by, NEW hash \in Change, Validate(c, a, by, hash),
             todo' \subseteq Approval
      PROVE  ApprovalsTypeOK'
  <2>1. [pc |-> "validated", id |-> a, hash |-> hash] \in CallerType
    BY DEF CallerType
  <2>2. caller' \in [Caller -> CallerType]
    BY <1>2, <2>1 DEF Validate
  <2> QED
    BY <1>2, <2>2 DEF Validate, tableVars, effectVars
<1>3. ASSUME NEW a \in Approval, NEW by \in Passport, NEW hash \in Change, AgentRedeems(c, a, by, hash)
      PROVE  ApprovalsTypeOK'
  BY <1>2, <1>3 DEF AgentRedeems
<1>4. ASSUME NEW a \in Approval, ExecutorRedeems(c, a) PROVE ApprovalsTypeOK'
  <2>1. row[a].change \in Change
    BY <1>4 DEF ExecutorRedeems, Validate, Filled
  <2> QED
    BY <1>2, <1>4, <2>1 DEF ExecutorRedeems
<1>5. CASE Consume(c)
  <2>1. caller[c].pc # "idle"
    BY <1>5 DEF Consume, Consumable
  <2>2. row' \in [Approval -> RowType] /\ \A a \in Approval : Filled(row'[a])
    BY <1>5, <2>1, CallerFields, SpendRowFields DEF Consume
  <2>3. caller' \in [Caller -> CallerType]
    BY <1>5, <2>1, CallerFields DEF Consume
  <2> QED
    BY <1>5, <2>2, <2>3 DEF Consume, effectVars
<1>6. CASE ConsumeAndApply(c)
  <2>1. caller[c].id \in Approval
    BY <1>6, CallerFields DEF ConsumeAndApply, Consumable
  <2>2. row' \in [Approval -> RowType] /\ \A a \in Approval : Filled(row'[a])
    BY <1>6, <2>1, SpendRowFields DEF ConsumeAndApply
  <2>3. caller' \in [Caller -> CallerType]
    BY <1>1, <1>6 DEF ConsumeAndApply, Forget
  <2>4. CASE ApplyEffect(caller[c].id)
    BY <1>6, <2>1, <2>2, <2>3, <2>4, ApplyEffectFields DEF ConsumeAndApply
  <2>5. CASE UNCHANGED effectVars
    BY <1>6, <2>2, <2>3, <2>5 DEF ConsumeAndApply, effectVars
  <2> QED
    BY <1>6, <2>4, <2>5 DEF ConsumeAndApply
<1>7. CASE Apply(c)
  <2>1. caller[c].id \in Approval
    BY <1>7, CallerFields DEF Apply
  <2>2. caller' \in [Caller -> CallerType]
    BY <1>1, <1>7 DEF Apply, Forget
  <2> QED
    BY <1>7, <2>1, <2>2, ApplyEffectFields DEF Apply, tableVars
<1>8. CASE RedemptionEnds(c)
  BY <1>1, <1>8 DEF RedemptionEnds, Forget, tableVars, effectVars
<1> QED
  BY <1>3, <1>4, <1>5, <1>6, <1>7, <1>8 DEF CallerNext

\* An erasure blanks the text of a row, expires it if it was pending, and keeps
\* the rest (blankStagedProposal, redactStagedApprovals).
LEMMA BlankedFields ==
    ASSUME NEW r \in RowType, clock \in Nat
    PROVE  /\ Blanked(r) \in RowType
           /\ Blanked(r).erased
           /\ Blanked(r).req = r.req /\ Blanked(r).change = r.change
           /\ Blanked(r).pin = r.pin /\ Blanked(r).consumed = r.consumed
           /\ Blanked(r).bundle = r.bundle
           /\ r.status = "pending" => Blanked(r).status = "expired"
           /\ r.status # "pending" =>
                Blanked(r).status = r.status /\ Blanked(r).decidedAt = r.decidedAt
<1> DEFINE q == WithStatus(r, "expired")
           w == [q EXCEPT !.decidedAt = clock]
           p == IF r.status = "pending" THEN w ELSE r
<1>1. /\ q \in RowType /\ q.status = "expired" /\ q.consumed = r.consumed
      /\ q.req = r.req /\ q.change = r.change /\ q.bundle = r.bundle
  BY WithStatusFields DEF Status
<1>2. q.pin = r.pin
  BY DEF RowType, WithStatus
<1> HIDE DEF q
<1>3. /\ w \in RowType /\ w.status = "expired" /\ w.consumed = r.consumed
      /\ w.req = r.req /\ w.change = r.change /\ w.bundle = r.bundle /\ w.pin = r.pin
  BY <1>1, <1>2 DEF RowType
<1> HIDE DEF w
<1>4. /\ p \in RowType /\ p.consumed = r.consumed
      /\ p.req = r.req /\ p.change = r.change /\ p.bundle = r.bundle /\ p.pin = r.pin
      /\ r.status = "pending" => p.status = "expired"
      /\ r.status # "pending" => p.status = r.status /\ p.decidedAt = r.decidedAt
  BY <1>3
<1>5. Blanked(r) = [p EXCEPT !.erased = TRUE]
  BY DEF Blanked, p, w, q
<1> HIDE DEF p
<1> QED
  BY <1>4, <1>5 DEF RowType

\* What an erasure does to a row it reaches.
TakenByErasure(a) ==
    /\ row[a].status # "absent"
    /\ ~RowLocked(a)
    /\ row'[a].erased
    /\ row'[a].req = row[a].req /\ row'[a].change = row[a].change
    /\ row'[a].pin = row[a].pin /\ row'[a].consumed = row[a].consumed
    /\ row'[a].bundle = row[a].bundle
    /\ row[a].status = "pending" => row'[a].status = "expired"
    /\ row[a].status # "pending" =>
         row'[a].status = row[a].status /\ row'[a].decidedAt = row[a].decidedAt

\* The erasure's transaction reaches proposals and nothing else.
LEMMA ErasureStep ==
    ASSUME row \in [Approval -> RowType], clock \in Nat, ErasureNext
    PROVE  /\ row' \in [Approval -> RowType]
           /\ \A a \in Approval : row'[a] = row[a] \/ TakenByErasure(a)
           /\ UNCHANGED <<version, applied, drifted, verdicts, stager, caller, todo, clock>>
<1>1. PICK S \in (SUBSET Approval) \ {{}} : Redact(S)
  BY DEF ErasureNext
<1>2. /\ row' = [a \in Approval |-> IF a \in S THEN Blanked(row[a]) ELSE row[a]]
      /\ \A a \in S : row[a].status # "absent" /\ ~RowLocked(a)
      /\ UNCHANGED <<version, applied, drifted, verdicts, stager, caller, todo, clock>>
  BY <1>1 DEF Redact, effectVars
<1>3. row' \in [Approval -> RowType]
  <2>1. \A a \in Approval : Blanked(row[a]) \in RowType
    BY BlankedFields
  <2> QED
    BY <1>2, <2>1
<1>4. ASSUME NEW a \in S PROVE TakenByErasure(a)
  <2>1. a \in Approval /\ row[a] \in RowType /\ row'[a] = Blanked(row[a])
    BY <1>2
  <2> QED
    BY <1>2, <2>1, BlankedFields DEF TakenByErasure
<1>5. \A a \in Approval \ S : row'[a] = row[a]
  BY <1>2
<1> QED
  BY <1>2, <1>3, <1>4, <1>5

\* Every step of the engine keeps the types.
LEMMA NextTypeOK == ApprovalsTypeOK /\ [ApprovalsNext]_approvalVars => ApprovalsTypeOK'
<1> SUFFICES ASSUME ApprovalsTypeOK, [ApprovalsNext]_approvalVars PROVE ApprovalsTypeOK'
  OBVIOUS
<1>1. ASSUME NEW a \in Approval, ExecutorLost(a) PROVE ApprovalsTypeOK'
  BY <1>1 DEF ExecutorLost, ApprovalsTypeOK, tableVars, effectVars
<1>2. ASSUME NEW t \in Target, TargetWrite(t) PROVE ApprovalsTypeOK'
  BY <1>2 DEF TargetWrite, ApprovalsTypeOK, tableVars
<1>3. CASE Tick
  BY <1>3 DEF Tick, ApprovalsTypeOK, tableVars, effectVars
<1>4. CASE UNCHANGED approvalVars
  BY <1>4 DEF approvalVars, ApprovalsTypeOK
<1>5. CASE ErasureNext
  <2>1. \A a \in Approval : Filled(row'[a])
    BY <1>5, ErasureStep DEF ApprovalsTypeOK, Filled, TakenByErasure
  <2> QED
    BY <1>5, <2>1, ErasureStep DEF ApprovalsTypeOK
<1> QED
  BY <1>1, <1>2, <1>3, <1>4, <1>5, StagingKeepsTypes, DecidingKeepsTypes, RedeemingKeepsTypes
     DEF ApprovalsNext

\* The engine's tables, transactions and histories always have their types.
THEOREM ApprovalsTypeCorrect == ApprovalsSpec => []ApprovalsTypeOK
  BY InitTypeOK, NextTypeOK, PTL DEF ApprovalsSpec

-----------------------------------------------------------------------------
(* Single use. *)

\* The inductive invariant of redemption.
RedemptionInv ==
    /\ ApprovalsTypeOK
    /\ SpentBeforeApplied
    /\ OnlyTheApprovedCall
    /\ SingleUse

\* A step that leaves every approved row, the callers and the effects alone
\* keeps the invariant: staging, deciding, sweeping and withdrawing are such.
LEMMA ApprovedRowsUntouched ==
    ASSUME RedemptionInv, ApprovalsTypeOK', UNCHANGED <<caller, applied>>,
           \A a \in Approval :
              /\ row[a].status = "approved" =>
                   /\ row'[a].status = "approved"
                   /\ row'[a].change = row[a].change
                   /\ row'[a].consumed = row[a].consumed
              /\ row[a].status # "approved" => row'[a].consumed = FALSE
    PROVE  RedemptionInv'
<1>1. \A a \in Approval : row[a].status # "approved" => row[a].consumed = FALSE
  BY DEF RedemptionInv, SpentBeforeApplied, ApprovalsTypeOK, RowType
<1>2. \A c \in Caller : caller[c].pc # "idle" => caller[c].id \in Approval
  BY CallerFields DEF RedemptionInv
<1>3. SpentBeforeApplied'
  BY <1>1, <1>2 DEF RedemptionInv, SpentBeforeApplied
<1>4. OnlyTheApprovedCall'
  BY <1>2 DEF RedemptionInv, OnlyTheApprovedCall
<1>5. SingleUse'
  BY DEF RedemptionInv, SingleUse
<1> QED
  BY <1>3, <1>4, <1>5 DEF RedemptionInv

\* Staging never touches an approved row.
LEMMA StagingSparesApproved ==
    ASSUME RedemptionInv, NEW s \in Stager, StagerNext(s)
    PROVE  RedemptionInv'
<1> USE DEF RedemptionInv
<1>0. ApprovalsTypeOK'
  BY StagingKeepsTypes
<1>1. \A a \in Approval : row[a].status # "approved" => row[a].consumed = FALSE
  BY DEF SpentBeforeApplied, ApprovalsTypeOK, RowType
<1>2. CASE UNCHANGED <<row, caller, applied>>
  BY <1>0, <1>1, <1>2, ApprovedRowsUntouched
<1>3. CASE StageRow(s)
  <2> DEFINE req == stager[s].req
             now == stager[s].at
  <2>1. req \in Request /\ now \in Int /\ version \in [Target -> Nat]
    BY <1>3 DEF StageRow, ApprovalsTypeOK, StagerType
  <2>2. PICK a \in Approval :
          /\ IF stager[s].hit = NoRow THEN FreshRow(a) ELSE a = stager[s].hit
          /\ row' = [b \in Approval |->
                       IF b \in Supersedes(req, a, now) THEN Lapsed(row[b], now)
                       ELSE IF b # a THEN row[b]
                       ELSE IF stager[s].hit = NoRow THEN NewRow(req, now)
                       ELSE Rebundled(row[b], req)]
    BY <1>3 DEF StageRow
  <2> HIDE DEF req, now
  <2>3. \A b \in Approval : row[b] \in RowType
    BY DEF ApprovalsTypeOK
  <2>4. ASSUME NEW b \in Supersedes(req, a, now)
        PROVE  row[b].status # "approved" /\ row'[b].consumed = FALSE
    <3>1. b \in Approval /\ row[b].status = "pending"
      BY DEF Supersedes, LivePending
    <3> QED
      BY <1>1, <2>1, <2>2, <2>3, <3>1, LapsedFields
  <2>5. ASSUME stager[s].hit = NoRow, a \notin Supersedes(req, a, now)
        PROVE  row[a].status # "approved" /\ row'[a].consumed = FALSE
    BY <2>1, <2>2, <2>5, NewRowFields DEF FreshRow
  <2>6. ASSUME stager[s].hit # NoRow, a \notin Supersedes(req, a, now)
        PROVE  /\ row'[a].status = row[a].status
               /\ row'[a].change = row[a].change
               /\ row'[a].consumed = row[a].consumed
    BY <2>1, <2>2, <2>3, <2>6, RebundledFields
  <2>7. \A b \in Approval : b # a /\ b \notin Supersedes(req, a, now) => row'[b] = row[b]
    BY <2>2
  <2>8. UNCHANGED <<caller, applied>>
    BY <1>3 DEF StageRow, effectVars
  <2> QED
    BY <1>0, <1>1, <2>4, <2>5, <2>6, <2>7, <2>8, ApprovedRowsUntouched
<1>4. ASSUME NEW req \in Request, Probe(s, req) PROVE UNCHANGED <<row, caller, applied>>
  BY <1>4 DEF Probe, tableVars, effectVars
<1>5. StageNothing(s) \/ StageAborts(s) => UNCHANGED <<row, caller, applied>>
  BY DEF StageNothing, StageAborts, tableVars, effectVars
<1> QED
  BY <1>2, <1>3, <1>4, <1>5 DEF StagerNext

\* Deciding, sweeping and withdrawing act on pending rows only.
LEMMA DecidingSparesApproved ==
    ASSUME RedemptionInv, DecideNext
    PROVE  RedemptionInv'
<1> USE DEF RedemptionInv
<1>0. ApprovalsTypeOK'
  BY DecidingKeepsTypes
<1>1. \A a \in Approval : row[a].status # "approved" => row[a].consumed = FALSE
  BY DEF SpentBeforeApplied, ApprovalsTypeOK, RowType
<1>2. \A a \in Approval : row[a] \in RowType
  BY DEF ApprovalsTypeOK
<1>3. Verdict \subseteq Settled /\ "expired" \in Settled /\ clock \in Nat /\ clock \in Int
  BY DEF Verdict, Settled, ApprovalsTypeOK
<1>4. \A a \in Approval : \A who, verdict, now :
        Decidable(a, who, verdict, now) =>
           row[a].status = "pending" /\ row[a].change \in Change
  BY DEF Decidable, EffectiveStatus, ApprovalsTypeOK, Filled
<1>5. ASSUME NEW a \in Approval, NEW who \in Decider, NEW verdict \in Verdict, NEW change \in Change,
             Decide(a, who, verdict, change)
      PROVE  RedemptionInv'
  <2>1. row[a].status = "pending"
    BY <1>4, <1>5 DEF Decide
  <2>2. row'[a].consumed = FALSE /\ \A b \in Approval \ {a} : row'[b] = row[b]
    BY <1>1, <1>2, <1>3, <1>5, <2>1, DecidedFields DEF Decide
  <2> QED
    BY <1>0, <1>1, <1>5, <2>1, <2>2, ApprovedRowsUntouched DEF Decide, effectVars
<1>6. ASSUME NEW b \in Bundle, NEW who \in Decider, NEW verdict \in Verdict,
             DecideBundle(b, who, verdict)
      PROVE  RedemptionInv'
  <2>1. PICK now \in AppNow :
          row' = [a \in Approval |->
                    IF a \in {x \in Members(b) : Decidable(x, who, verdict, now)}
                    THEN Decided(row[a], verdict, row[a].change) ELSE row[a]]
    BY <1>6 DEF DecideBundle
  <2>2. ASSUME NEW a \in Approval, row'[a] # row[a]
        PROVE  row[a].status = "pending" /\ row'[a].consumed = FALSE
    <3>1. row[a].status = "pending" /\ row[a].change \in Change
      BY <1>4, <2>1, <2>2
    <3> QED
      BY <1>1, <1>2, <1>3, <2>1, <2>2, <3>1, DecidedFields
  <2> QED
    BY <1>0, <1>1, <1>6, <2>2, ApprovedRowsUntouched DEF DecideBundle, effectVars
<1>7. ASSUME NEW a \in Approval, Sweep(a) PROVE RedemptionInv'
  <2>1. row[a].status = "pending" /\ row[a].change \in Change
    BY <1>7 DEF Sweep, ApprovalsTypeOK, Filled
  <2>2. row'[a].consumed = FALSE /\ \A b \in Approval \ {a} : row'[b] = row[b]
    BY <1>1, <1>2, <1>3, <1>7, <2>1, DecidedFields DEF Sweep
  <2> QED
    BY <1>0, <1>1, <1>7, <2>1, <2>2, ApprovedRowsUntouched DEF Sweep, effectVars
<1>8. ASSUME NEW a \in Approval, Withdraw(a) PROVE RedemptionInv'
  <2>1. row[a].status = "pending"
    BY <1>8 DEF Withdraw
  <2>2. row'[a].consumed = FALSE /\ \A b \in Approval \ {a} : row'[b] = row[b]
    BY <1>1, <1>2, <1>3, <1>8, <2>1, LapsedFields DEF Withdraw
  <2> QED
    BY <1>0, <1>1, <1>8, <2>1, <2>2, ApprovedRowsUntouched DEF Withdraw, effectVars
<1> QED
  BY <1>5, <1>6, <1>7, <1>8 DEF DecideNext

\* Every step of a redemption keeps the invariant: the conditional UPDATE lets
\* through one caller per approval.
LEMMA RedeemingKeepsInv ==
    ASSUME RedemptionInv, NEW c \in Caller, CallerNext(c)
    PROVE  RedemptionInv'
<1> USE DEF RedemptionInv
<1>0. ApprovalsTypeOK'
  BY RedeemingKeepsTypes
<1>1. \A d \in Caller : caller[d].pc # "idle" => caller[d].id \in Approval
  BY CallerFields
<1>2. \A a \in Approval : applied[a] \in Nat /\ row[a].consumed \in BOOLEAN
  BY DEF ApprovalsTypeOK, RowType
<1>3. caller \in [Caller -> CallerType] /\ Idle.pc = "idle"
  BY DEF ApprovalsTypeOK, Idle
<1>4. ASSUME NEW a \in Approval, NEW by, NEW hash \in Change, Validate(c, a, by, hash)
      PROVE  RedemptionInv'
  <2>1. /\ UNCHANGED <<row, applied>>
        /\ caller' = [caller EXCEPT ![c] = [pc |-> "validated", id |-> a, hash |-> hash]]
        /\ row[a].status = "approved" /\ row[a].change = hash
    BY <1>4 DEF Validate, Redeemable, tableVars, effectVars
  <2>2. /\ caller'[c].pc = "validated" /\ caller'[c].id = a /\ caller'[c].hash = hash
        /\ \A d \in Caller \ {c} : caller'[d] = caller[d]
    BY <1>3, <2>1
  <2>3. SpentBeforeApplied'
    BY <2>1, <2>2 DEF SpentBeforeApplied
  <2>4. OnlyTheApprovedCall'
    BY <2>1, <2>2 DEF OnlyTheApprovedCall
  <2> QED
    BY <1>0, <2>1, <2>3, <2>4 DEF SingleUse
<1>5. CASE Consume(c)
  <2> DEFINE a == caller[c].id
  <2>1. /\ caller[c].pc = "validated" /\ a \in Approval /\ ~row[a].consumed
        /\ SpendRow(a) /\ UNCHANGED applied
    BY <1>1, <1>5 DEF Consume, Consumable, effectVars
  <2>2. /\ caller'[c].pc = "released" /\ caller'[c].id = a /\ caller'[c].hash = caller[c].hash
        /\ \A d \in Caller \ {c} : caller'[d] = caller[d]
    BY <1>3, <1>5, <2>1, CallerFields DEF Consume
  <2>3. row[a].status = "approved" /\ row[a].change = caller[c].hash
    BY <2>1 DEF OnlyTheApprovedCall
  <2>4. applied[a] = 0 /\ \A d \in Caller : caller[d].pc = "released" => caller[d].id # a
    BY <2>1 DEF SpentBeforeApplied
  <2> HIDE DEF a
  <2>5. /\ row'[a].consumed /\ row'[a].status = row[a].status /\ row'[a].change = row[a].change
        /\ \A b \in Approval \ {a} : row'[b] = row[b]
    BY <2>1, SpendRowFields
  <2>6. SpentBeforeApplied'
    BY <1>1, <2>1, <2>2, <2>3, <2>4, <2>5 DEF SpentBeforeApplied
  <2>7. OnlyTheApprovedCall'
    BY <1>1, <2>2, <2>3, <2>5 DEF OnlyTheApprovedCall
  <2> QED
    BY <1>0, <2>1, <2>6, <2>7 DEF SingleUse
<1>6. CASE ConsumeAndApply(c)
  <2> DEFINE a == caller[c].id
  <2>1. /\ caller[c].pc = "validated" /\ a \in Approval /\ ~row[a].consumed
        /\ SpendRow(a) /\ (ApplyEffect(a) \/ UNCHANGED applied)
    BY <1>1, <1>6 DEF ConsumeAndApply, Consumable, effectVars
  <2>2. /\ caller'[c].pc = "idle"
        /\ \A d \in Caller \ {c} : caller'[d] = caller[d]
    BY <1>3, <1>6 DEF ConsumeAndApply, Forget
  <2>3. row[a].status = "approved"
    BY <2>1 DEF OnlyTheApprovedCall
  <2>4. applied[a] = 0 /\ \A d \in Caller : caller[d].pc = "released" => caller[d].id # a
    BY <2>1 DEF SpentBeforeApplied
  <2> HIDE DEF a
  <2>5. /\ row'[a].consumed /\ row'[a].status = row[a].status /\ row'[a].change = row[a].change
        /\ \A b \in Approval \ {a} : row'[b] = row[b]
    BY <2>1, SpendRowFields
  <2>6. applied'[a] \in {0, 1} /\ \A b \in Approval \ {a} : applied'[b] = applied[b]
    BY <2>1, <2>4, ApplyEffectFields
  <2>7. SpentBeforeApplied'
    BY <1>1, <2>1, <2>2, <2>3, <2>4, <2>5, <2>6 DEF SpentBeforeApplied
  <2>8. OnlyTheApprovedCall'
    BY <1>1, <2>2, <2>5 DEF OnlyTheApprovedCall
  <2>9. SingleUse'
    BY <2>6 DEF SingleUse
  <2> QED
    BY <1>0, <2>7, <2>8, <2>9
<1>7. CASE Apply(c)
  <2> DEFINE a == caller[c].id
  <2>1. caller[c].pc = "released" /\ a \in Approval /\ ApplyEffect(a) /\ UNCHANGED row
    BY <1>1, <1>7 DEF Apply, tableVars
  <2>2. /\ caller'[c].pc = "idle"
        /\ \A d \in Caller \ {c} : caller'[d] = caller[d]
    BY <1>3, <1>7 DEF Apply, Forget
  <2>3. /\ row[a].consumed /\ applied[a] = 0
        /\ \A d \in Caller \ {c} : caller[d].pc = "released" => caller[d].id # a
    BY <2>1 DEF SpentBeforeApplied
  <2> HIDE DEF a
  <2>4. applied'[a] = 1 /\ \A b \in Approval \ {a} : applied'[b] = applied[b]
    BY <2>1, <2>3, ApplyEffectFields
  <2>5. SpentBeforeApplied'
    BY <1>1, <2>1, <2>2, <2>3, <2>4 DEF SpentBeforeApplied
  <2>6. OnlyTheApprovedCall'
    BY <2>1, <2>2 DEF OnlyTheApprovedCall
  <2>7. SingleUse'
    BY <2>4 DEF SingleUse
  <2> QED
    BY <1>0, <2>5, <2>6, <2>7
<1>8. CASE RedemptionEnds(c)
  <2>1. /\ UNCHANGED <<row, applied>> /\ caller'[c].pc = "idle"
        /\ \A d \in Caller \ {c} : caller'[d] = caller[d]
    BY <1>3, <1>8 DEF RedemptionEnds, Forget, tableVars, effectVars
  <2> QED
    BY <1>0, <2>1 DEF SpentBeforeApplied, OnlyTheApprovedCall, SingleUse
<1>9. ASSUME NEW a \in Approval, ExecutorRedeems(c, a) PROVE row[a].change \in Change
  BY <1>9 DEF ExecutorRedeems, Validate, ApprovalsTypeOK, Filled
<1> QED
  BY <1>4, <1>5, <1>6, <1>7, <1>8, <1>9 DEF CallerNext, AgentRedeems, ExecutorRedeems

\* The invariant holds from the start and every step keeps it.
THEOREM RedemptionIsSafe == ApprovalsSpec => []RedemptionInv
<1>1. ApprovalsInit => RedemptionInv
  <2> SUFFICES ASSUME ApprovalsInit PROVE RedemptionInv
    OBVIOUS
  <2>1. ApprovalsTypeOK
    BY InitTypeOK
  <2>2. /\ \A a \in Approval : applied[a] = 0 /\ row[a].consumed = FALSE
        /\ \A c \in Caller : caller[c].pc = "idle"
    BY DEF ApprovalsInit, AbsentRow, Idle
  <2> QED
    BY <2>1, <2>2 DEF RedemptionInv, SpentBeforeApplied, OnlyTheApprovedCall, SingleUse
<1>2. RedemptionInv /\ [ApprovalsNext]_approvalVars => RedemptionInv'
  <2> SUFFICES ASSUME RedemptionInv, [ApprovalsNext]_approvalVars PROVE RedemptionInv'
    OBVIOUS
  <2>1. ApprovalsTypeOK'
    BY NextTypeOK DEF RedemptionInv
  <2>2. UNCHANGED <<row, caller, applied>> => RedemptionInv'
    BY <2>1 DEF RedemptionInv, SpentBeforeApplied, OnlyTheApprovedCall, SingleUse
  <2>3. ASSUME NEW a \in Approval, ExecutorLost(a) PROVE UNCHANGED <<row, caller, applied>>
    BY <2>3 DEF ExecutorLost, tableVars, effectVars
  <2>4. ASSUME NEW t \in Target, TargetWrite(t) PROVE UNCHANGED <<row, caller, applied>>
    BY <2>4 DEF TargetWrite, tableVars
  <2>5. Tick \/ UNCHANGED approvalVars => UNCHANGED <<row, caller, applied>>
    BY DEF Tick, approvalVars, tableVars, effectVars
  <2>6. CASE ErasureNext
    <3>1. row \in [Approval -> RowType] /\ clock \in Nat
      BY DEF RedemptionInv, ApprovalsTypeOK
    <3>2. \A a \in Approval : row[a].status # "approved" => row[a].consumed = FALSE
      BY <3>1 DEF RedemptionInv, SpentBeforeApplied, RowType
    <3> QED
      BY <2>1, <2>6, <3>1, <3>2, ErasureStep, ApprovedRowsUntouched DEF TakenByErasure
  <2> QED
    BY <2>2, <2>3, <2>4, <2>5, <2>6, StagingSparesApproved, DecidingSparesApproved,
       RedeemingKeepsInv DEF ApprovalsNext
<1> QED
  BY <1>1, <1>2, PTL DEF ApprovalsSpec

\* An approval's effect is applied at most once (RedeemInTx).
THEOREM ApprovalsAreSingleUse == ApprovalsSpec => []SingleUse
<1>1. RedemptionInv => SingleUse
  BY DEF RedemptionInv
<1> QED
  BY <1>1, RedemptionIsSafe, PTL

\* Only the approved call, as edited, is ever released (validateRedemption).
THEOREM OnlyApprovedCallsRun == ApprovalsSpec => []OnlyTheApprovedCall
<1>1. RedemptionInv => OnlyTheApprovedCall
  BY DEF RedemptionInv
<1> QED
  BY <1>1, RedemptionIsSafe, PTL

-----------------------------------------------------------------------------
(* Finality. *)

\* The inductive invariant of staging.
StagingInv ==
    /\ ApprovalsTypeOK
    /\ JoinsWhatItHolds

\* A step that starts no staging and settles no row another staging holds
\* keeps the invariant.
LEMMA HeldRowsUntouched ==
    ASSUME StagingInv, ApprovalsTypeOK',
           \A s \in Stager : stager'[s] = stager[s] \/ stager'[s].pc = "idle",
           \A a \in Approval : row[a].status = "pending" /\ row'[a].status # "pending" =>
              \A s \in Stager : stager'[s].pc = "probed" => a \notin stager'[s].locks
    PROVE  StagingInv'
<1>1. \A s \in Stager : stager[s].pc = "probed" /\ stager[s].hit # NoRow => stager[s].hit \in Approval
  BY DEF StagingInv, ApprovalsTypeOK, StagerType
<1> QED
  BY <1>1 DEF StagingInv, JoinsWhatItHolds

\* A probe locks only free rows, the one it will join among them.
LEMMA ProbeHoldsItsHit ==
    ASSUME StagingInv, NEW s \in Stager, NEW req \in Request, Probe(s, req)
    PROVE  StagingInv'
<1> USE DEF StagingInv
<1>1. ApprovalsTypeOK'
  BY StagingKeepsTypes DEF StagerNext
<1>2. PICK appNow \in AppNow :
        stager' = [stager EXCEPT ![s] =
          [pc |-> "probed", req |-> req, at |-> clock, hit |-> ProbeHit(req, clock, appNow),
           locks |-> ProbeLocks(req, clock), declined |-> Declined(req)]]
  BY DEF Probe
<1>3. /\ stager'[s].req = req /\ stager'[s].hit = ProbeHit(req, clock, appNow)
      /\ stager'[s].locks = ProbeLocks(req, clock)
      /\ \A t \in Stager \ {s} : stager'[t] = stager[t]
      /\ UNCHANGED row
  BY <1>2 DEF Probe, ApprovalsTypeOK, tableVars
<1>4. \A t \in Stager : stager[t].pc = "probed" => stager[t].locks \cap ProbeLocks(req, clock) = {}
  BY DEF Probe, RowLocked
<1>5. ASSUME req.op # "call", ProbeHit(req, clock, appNow) # NoRow
      PROVE  /\ ProbeHit(req, clock, appNow) \in ProbeLocks(req, clock)
             /\ row[ProbeHit(req, clock, appNow)].status = "pending"
  <2>1. req.op # "create" /\ ProbeHit(req, clock, appNow) = OneOf(Joinable(req, clock))
    BY <1>5 DEF ProbeHit
  <2>2. Joinable(req, clock) \subseteq Approval
    BY DEF Joinable, Greatest
  <2>3. OneOf(Joinable(req, clock)) \in Joinable(req, clock)
    BY <1>5, <2>1, <2>2, OneOfMember DEF OneOf
  <2> QED
    BY <1>5, <2>1, <2>3 DEF ProbeLocks, Joinable, Greatest, LivePending
<1> QED
  BY <1>1, <1>3, <1>4, <1>5 DEF JoinsWhatItHolds

\* Every other step spares the rows a staging holds.
LEMMA StagingInvStep == StagingInv /\ [ApprovalsNext]_approvalVars => StagingInv'
<1> SUFFICES ASSUME StagingInv, [ApprovalsNext]_approvalVars PROVE StagingInv'
  OBVIOUS
<1>0. ApprovalsTypeOK' /\ stager \in [Stager -> StagerType] /\ row \in [Approval -> RowType]
  BY NextTypeOK DEF StagingInv, ApprovalsTypeOK
<1>1. UNCHANGED <<row, stager>> => StagingInv'
  BY <1>0, HeldRowsUntouched
<1>2. ASSUME NEW s \in Stager, StageRow(s) PROVE StagingInv'
  <2> DEFINE req == stager[s].req
             now == stager[s].at
  <2>1. PICK a \in Approval :
          /\ IF stager[s].hit = NoRow THEN FreshRow(a) ELSE a = stager[s].hit
          /\ \A b \in Supersedes(req, a, now) : RowLocked(b) => b \in stager[s].locks
          /\ row' = [b \in Approval |->
                       IF b \in Supersedes(req, a, now) THEN Lapsed(row[b], now)
                       ELSE IF b # a THEN row[b]
                       ELSE IF stager[s].hit = NoRow THEN NewRow(req, now)
                       ELSE Rebundled(row[b], req)]
    BY <1>2 DEF StageRow
  <2>2. req \in Request
    BY <1>0, <1>2 DEF StageRow, StagerType
  <2> HIDE DEF req, now
  <2>3. /\ stager'[s].pc = "idle" /\ stager[s].pc = "probed"
        /\ \A t \in Stager \ {s} : stager'[t] = stager[t]
    BY <1>0, <1>2 DEF StageRow, EndStaging, Idle
  <2>4. ASSUME NEW b \in Approval, row[b].status = "pending", row'[b].status # "pending",
               NEW t \in Stager, stager'[t].pc = "probed"
        PROVE  b \notin stager'[t].locks
    <3>1. b \in Supersedes(req, a, now)
      BY <1>0, <2>1, <2>2, <2>4, RebundledFields DEF FreshRow
    <3>2. t # s /\ stager[t].pc = "probed" /\ stager'[t].locks = stager[t].locks
      BY <2>3, <2>4
    <3> QED
      BY <2>1, <2>3, <3>1, <3>2 DEF RowLocked, StagingInv, JoinsWhatItHolds
  <2> QED
    BY <1>0, <2>3, <2>4, HeldRowsUntouched
<1>3. ASSUME NEW s \in Stager, StageNothing(s) \/ StageAborts(s) PROVE StagingInv'
  BY <1>0, <1>3, HeldRowsUntouched DEF StageNothing, StageAborts, EndStaging, Idle, tableVars
<1>4. ASSUME UNCHANGED stager, \A a \in Approval : row'[a] # row[a] => ~RowLocked(a)
      PROVE  StagingInv'
  BY <1>0, <1>4, HeldRowsUntouched DEF RowLocked
<1>5. CASE DecideNext
  <2>1. ASSUME NEW a \in Approval, NEW who \in Decider, NEW verdict \in Verdict,
               NEW change \in Change, Decide(a, who, verdict, change)
        PROVE  StagingInv'
    BY <1>0, <1>4, <2>1 DEF Decide, Decidable
  <2>2. ASSUME NEW b \in Bundle, NEW who \in Decider, NEW verdict \in Verdict,
               DecideBundle(b, who, verdict)
        PROVE  StagingInv'
    BY <1>0, <1>4, <2>2 DEF DecideBundle
  <2>3. ASSUME NEW a \in Approval, Sweep(a) \/ Withdraw(a) PROVE StagingInv'
    BY <1>0, <1>4, <2>3 DEF Sweep, Withdraw
  <2> QED
    BY <1>5, <2>1, <2>2, <2>3 DEF DecideNext
<1>6. ASSUME NEW c \in Caller, CallerNext(c) PROVE StagingInv'
  <2>1. UNCHANGED stager
    BY <1>6 DEF CallerNext, AgentRedeems, ExecutorRedeems, Validate, Consume, ConsumeAndApply, Apply,
                RedemptionEnds
  <2>2. ASSUME NEW a \in Approval, row'[a] # row[a] PROVE ~RowLocked(a)
    BY <1>0, <1>6, <2>2 DEF CallerNext, AgentRedeems, ExecutorRedeems, Validate, Consume,
       ConsumeAndApply, Apply, RedemptionEnds, Consumable, SpendRow, tableVars
  <2> QED
    BY <1>4, <2>1, <2>2
<1>7. ASSUME NEW a \in Approval, ExecutorLost(a) PROVE StagingInv'
  BY <1>1, <1>7 DEF ExecutorLost, tableVars
<1>8. ASSUME NEW t \in Target, TargetWrite(t) PROVE StagingInv'
  BY <1>1, <1>8 DEF TargetWrite, tableVars
<1>9. Tick \/ UNCHANGED approvalVars => StagingInv'
  BY <1>1 DEF Tick, approvalVars, tableVars
<1>10. CASE ErasureNext
  <2>1. clock \in Nat
    BY DEF StagingInv, ApprovalsTypeOK
  <2> QED
    BY <1>0, <1>4, <1>10, <2>1, ErasureStep DEF TakenByErasure
<1> QED
  BY <1>2, <1>3, <1>5, <1>6, <1>7, <1>8, <1>9, <1>10, ProbeHoldsItsHit
     DEF ApprovalsNext, StagerNext

\* The invariant of staging holds throughout.
THEOREM StagingIsSafe == ApprovalsSpec => []StagingInv
<1>1. ApprovalsInit => StagingInv
  <2> SUFFICES ASSUME ApprovalsInit PROVE StagingInv
    OBVIOUS
  <2>1. \A s \in Stager : stager[s].pc = "idle"
    BY DEF ApprovalsInit, Idle
  <2> QED
    BY <2>1, InitTypeOK DEF StagingInv, JoinsWhatItHolds
<1> QED
  BY <1>1, StagingInvStep, PTL DEF ApprovalsSpec

\* A staging write settles what it replaces, fills a fresh row, or re-files a
\* pending one: it never reaches a settled row.
LEMMA StageRowSparesSettled ==
    ASSUME StagingInv, NEW s \in Stager, StageRow(s)
    PROVE  \A b \in Approval : row[b].status \in Settled => row'[b] = row[b]
<1> DEFINE req == stager[s].req
           now == stager[s].at
<1>1. PICK a \in Approval :
        /\ IF stager[s].hit = NoRow THEN FreshRow(a) ELSE a = stager[s].hit
        /\ row' = [b \in Approval |->
                     IF b \in Supersedes(req, a, now) THEN Lapsed(row[b], now)
                     ELSE IF b # a THEN row[b]
                     ELSE IF stager[s].hit = NoRow THEN NewRow(req, now)
                     ELSE Rebundled(row[b], req)]
  BY DEF StageRow
<1>2. \A b \in Supersedes(req, a, now) : row[b].status = "pending"
  BY DEF Supersedes, LivePending
<1>3. row[a].status \in {"absent", "pending"}
  <2>1. CASE stager[s].hit = NoRow
    BY <1>1, <2>1 DEF FreshRow
  <2>2. CASE stager[s].hit # NoRow
    BY <1>1, <2>2 DEF StageRow, StagingInv, JoinsWhatItHolds
  <2> QED
    BY <2>1, <2>2
<1> HIDE DEF req, now
<1> QED
  BY <1>1, <1>2, <1>3 DEF Settled

\* A verdict, once given, is never revised (decideInTx, expireOne, supersede,
\* rebundle), whatever the interleaving; an erasure takes the text of the
\* settled row and leaves its verdict, hash, bundle and instant.
THEOREM DecisionsAreFinal == ApprovalsSpec => DecisionIsFinal
<1>1. StagingInv /\ [ApprovalsNext]_approvalVars => [SettledStays]_approvalVars
  <2> SUFFICES ASSUME StagingInv, ApprovalsNext PROVE SettledStays
    BY DEF approvalVars
  <2>0. row \in [Approval -> RowType] /\ ApprovalsTypeOK
    BY DEF StagingInv, ApprovalsTypeOK
  <2>1. (\A b \in Approval : row[b].status \in Settled => row'[b] = row[b]) => SettledStays
    BY DEF SettledStays, Text
  <2>2. UNCHANGED row => SettledStays
    BY <2>1
  <2>3. ASSUME NEW s \in Stager, StagerNext(s) PROVE SettledStays
    <3>1. StageRow(s) => SettledStays
      BY <2>1, StageRowSparesSettled
    <3>2. (\E req \in Request : Probe(s, req)) \/ StageNothing(s) \/ StageAborts(s) => UNCHANGED row
      BY DEF Probe, StageNothing, StageAborts, tableVars
    <3> QED
      BY <2>2, <2>3, <3>1, <3>2 DEF StagerNext
  <2>4. ASSUME NEW a \in Approval, NEW who \in Decider, NEW verdict \in Verdict,
               NEW change \in Change, Decide(a, who, verdict, change)
        PROVE  SettledStays
    BY <2>0, <2>1, <2>4 DEF Decide, Decidable, EffectiveStatus, Settled
  <2>5. ASSUME NEW b \in Bundle, NEW who \in Decider, NEW verdict \in Verdict,
               DecideBundle(b, who, verdict)
        PROVE  SettledStays
    <3>1. \A x \in Approval : row'[x] # row[x] => \E now \in AppNow : Decidable(x, who, verdict, now)
      BY <2>5 DEF DecideBundle
    <3> QED
      BY <2>1, <3>1 DEF Decidable, EffectiveStatus, Settled
  <2>6. ASSUME NEW a \in Approval, Sweep(a) \/ Withdraw(a) PROVE SettledStays
    BY <2>0, <2>1, <2>6 DEF Sweep, Withdraw, Settled
  <2>7. ASSUME NEW c \in Caller, CallerNext(c) PROVE SettledStays
    <3>1. UNCHANGED row \/ (caller[c].pc = "validated" /\ SpendRow(caller[c].id))
      BY <2>7 DEF CallerNext, AgentRedeems, ExecutorRedeems, Validate, Consume, ConsumeAndApply, Apply,
                  RedemptionEnds, Consumable, tableVars
    <3>2. ASSUME caller[c].pc = "validated", SpendRow(caller[c].id) PROVE SettledStays
      <4>1. caller[c].id \in Approval
        BY <2>0, <3>2, CallerFields
      <4>2. \A b \in Approval : row'[b].erased = row[b].erased
        BY <2>0, <3>2, <4>1, SpendRowFields
      <4> QED
        BY <2>0, <3>2, <4>1, <4>2, SpendRowFields DEF SettledStays, Text
    <3> QED
      BY <2>2, <3>1, <3>2
  <2>8. ASSUME NEW a \in Approval, ExecutorLost(a) PROVE SettledStays
    BY <2>2, <2>8 DEF ExecutorLost, tableVars
  <2>9. ASSUME NEW t \in Target, TargetWrite(t) PROVE SettledStays
    BY <2>2, <2>9 DEF TargetWrite, tableVars
  <2>10. Tick => SettledStays
    BY <2>2 DEF Tick, tableVars
  <2>11. CASE ErasureNext
    <3>1. "pending" \notin Settled /\ clock \in Nat
      BY <2>0 DEF Settled, ApprovalsTypeOK
    <3>2. ASSUME NEW b \in Approval, row[b].status \in Settled, TakenByErasure(b)
          PROVE  /\ row'[b].status = row[b].status /\ row'[b].change = row[b].change
                 /\ row'[b].bundle = row[b].bundle /\ row'[b].decidedAt = row[b].decidedAt
                 /\ Text(row'[b]) = Nothing
      BY <3>1, <3>2 DEF TakenByErasure, Text
    <3> QED
      BY <2>0, <2>11, <3>1, <3>2, ErasureStep DEF SettledStays
  <2> QED
    BY <2>3, <2>4, <2>5, <2>6, <2>7, <2>8, <2>9, <2>10, <2>11 DEF ApprovalsNext, DecideNext
<1> QED
  BY <1>1, StagingIsSafe, PTL DEF ApprovalsSpec, DecisionIsFinal

-----------------------------------------------------------------------------
(* What staging holds, and what is announced. *)

\* The proposal a staging is about to join stays pending and in its locks, and
\* no two transactions hold one row (FOR UPDATE in the joining probes).
THEOREM StagingsJoinWhatTheyHold == ApprovalsSpec => []JoinsWhatItHolds
<1>1. StagingInv => JoinsWhatItHolds
  BY DEF StagingInv
<1> QED
  BY <1>1, StagingIsSafe, PTL

\* An undecided proposal has announced nothing (decideInTx emits in the
\* transaction that settles the row).
LEMMA UndecidedIsUnannounced ==
    ASSUME ApprovalsTypeOK, OneVerdictAnnounced, NEW a \in Approval,
           row[a].status \in {"absent", "pending"}
    PROVE  verdicts[a] = <<>>
<1>1. verdicts[a] \in Seq(Settled) /\ verdicts[a] \in {<<>>, <<row[a].status>>}
  BY DEF ApprovalsTypeOK, OneVerdictAnnounced
<1>2. verdicts[a] # <<row[a].status>>
  <2>1. \A v : <<v>> \in Seq(Settled) => v \in Settled
    OBVIOUS
  <2> QED
    BY <1>1, <2>1 DEF Settled
<1> QED
  BY <1>1, <1>2

\* A row that keeps its status and its announcement, one that announces the
\* status it takes, and one that settles without a human's verdict and without
\* an announcement, all keep the property.
LEMMA AnnouncingStep ==
    ASSUME OneVerdictAnnounced,
           \A a \in Approval :
              \/ row'[a].status = row[a].status /\ verdicts'[a] = verdicts[a]
              \/ verdicts'[a] = <<row'[a].status>>
              \/ verdicts'[a] = <<>> /\ row'[a].status \notin Verdict
    PROVE  OneVerdictAnnounced'
<1>1. \A x : <<x>> # <<>>
  OBVIOUS
<1> QED
  BY <1>1 DEF OneVerdictAnnounced, Verdict

\* Deciding and sweeping announce the verdict they write; a withdrawal and a
\* supersession announce nothing.
LEMMA DecidingAnnounces ==
    ASSUME ApprovalsTypeOK, OneVerdictAnnounced, DecideNext
    PROVE  OneVerdictAnnounced'
<1>1. \A v : Append(<<>>, v) = <<v>>
  OBVIOUS
<1>2. \A a \in Approval : row[a] \in RowType /\ row[a].change \in Change \cup {Nothing}
  BY DEF ApprovalsTypeOK, RowType
<1>3. Verdict \subseteq Settled /\ "expired" \in Settled /\ "expired" \notin Verdict
      /\ clock \in Nat /\ clock \in Int
  BY DEF Verdict, Settled, ApprovalsTypeOK
<1>4. /\ row \in [Approval -> RowType]
      /\ verdicts \in [Approval -> Seq(Settled)]
  BY DEF ApprovalsTypeOK
<1>5. \A a \in Approval : \A who, verdict, now :
        Decidable(a, who, verdict, now) => row[a].status = "pending"
  BY DEF Decidable, EffectiveStatus
<1>6. ASSUME NEW a \in Approval, NEW who \in Decider, NEW v \in Verdict, NEW change \in Change,
             Decide(a, who, v, change)
      PROVE  OneVerdictAnnounced'
  <2>1. verdicts[a] = <<>>
    BY <1>5, <1>6, UndecidedIsUnannounced DEF Decide
  <2>2. row'[a].status = v
    BY <1>2, <1>3, <1>4, <1>6, DecidedFields DEF Decide
  <2>3. verdicts'[a] = <<v>>
    BY <1>1, <1>4, <1>6, <2>1 DEF Decide
  <2>4. \A b \in Approval \ {a} : row'[b] = row[b] /\ verdicts'[b] = verdicts[b]
    BY <1>4, <1>6 DEF Decide
  <2> QED
    BY <2>2, <2>3, <2>4, AnnouncingStep
<1>7. ASSUME NEW b \in Bundle, NEW who \in Decider, NEW v \in Verdict,
             DecideBundle(b, who, v)
      PROVE  OneVerdictAnnounced'
  <2>1. PICK now \in AppNow :
          /\ row' = [a \in Approval |->
                      IF a \in {x \in Members(b) : Decidable(x, who, v, now)}
                      THEN Decided(row[a], v, row[a].change) ELSE row[a]]
          /\ verdicts' = [a \in Approval |->
                      IF a \in {x \in Members(b) : Decidable(x, who, v, now)}
                      THEN Append(verdicts[a], v) ELSE verdicts[a]]
    BY <1>7 DEF DecideBundle
  <2>2. ASSUME NEW a \in Approval, a \in Members(b), Decidable(a, who, v, now)
        PROVE  row'[a].status = v /\ verdicts'[a] = <<v>>
    <3>1. verdicts[a] = <<>>
      BY <1>5, <2>2, UndecidedIsUnannounced
    <3>2. row'[a].status = v
      BY <1>2, <1>3, <2>1, <2>2, DecidedFields
    <3> QED
      BY <1>1, <2>1, <2>2, <3>1, <3>2
  <2>3. \A a \in Approval :
          ~(a \in Members(b) /\ Decidable(a, who, v, now)) =>
             row'[a] = row[a] /\ verdicts'[a] = verdicts[a]
    BY <2>1
  <2> QED
    BY <2>2, <2>3, AnnouncingStep
<1>8. ASSUME NEW a \in Approval, Sweep(a) PROVE OneVerdictAnnounced'
  <2>1. verdicts[a] = <<>>
    BY <1>8, UndecidedIsUnannounced DEF Sweep
  <2>2. row'[a].status = "expired"
    BY <1>2, <1>3, <1>4, <1>8, DecidedFields DEF Sweep
  <2>3. verdicts'[a] = <<"expired">>
    BY <1>1, <1>4, <1>8, <2>1 DEF Sweep
  <2>4. \A b \in Approval \ {a} : row'[b] = row[b] /\ verdicts'[b] = verdicts[b]
    BY <1>4, <1>8 DEF Sweep
  <2> QED
    BY <2>2, <2>3, <2>4, AnnouncingStep
<1>9. ASSUME NEW a \in Approval, Withdraw(a) PROVE OneVerdictAnnounced'
  <2>1. verdicts[a] = <<>> /\ verdicts' = verdicts
    BY <1>9, UndecidedIsUnannounced DEF Withdraw
  <2>2. row'[a].status = "expired" /\ \A b \in Approval \ {a} : row'[b] = row[b]
    BY <1>2, <1>3, <1>4, <1>9, LapsedFields DEF Withdraw
  <2> QED
    BY <1>3, <2>1, <2>2, AnnouncingStep
<1> QED
  BY <1>6, <1>7, <1>8, <1>9 DEF DecideNext

\* A staging write fills a fresh row, re-files a pending one, or lets a pending
\* one lapse; it announces nothing.
LEMMA StagingAnnouncesNothing ==
    ASSUME StagingInv, OneVerdictAnnounced, NEW s \in Stager, StageRow(s)
    PROVE  OneVerdictAnnounced'
<1>0. ApprovalsTypeOK /\ \A a \in Approval : row[a] \in RowType
  BY DEF StagingInv, ApprovalsTypeOK
<1> DEFINE req == stager[s].req
           now == stager[s].at
<1>1. PICK a \in Approval :
        /\ IF stager[s].hit = NoRow THEN FreshRow(a) ELSE a = stager[s].hit
        /\ row' = [b \in Approval |->
                     IF b \in Supersedes(req, a, now) THEN Lapsed(row[b], now)
                     ELSE IF b # a THEN row[b]
                     ELSE IF stager[s].hit = NoRow THEN NewRow(req, now)
                     ELSE Rebundled(row[b], req)]
  BY DEF StageRow
<1>2. req \in Request /\ now \in Int /\ version \in [Target -> Nat]
  BY <1>0 DEF StageRow, ApprovalsTypeOK, StagerType
<1>3. verdicts' = verdicts
  BY DEF StageRow
<1> HIDE DEF req, now
<1>4. ASSUME NEW b \in Supersedes(req, a, now)
      PROVE  b \in Approval /\ verdicts'[b] = <<>> /\ row'[b].status \notin Verdict
  <2>1. b \in Approval /\ row[b].status = "pending"
    BY DEF Supersedes, LivePending
  <2>2. row'[b].status = "expired"
    BY <1>0, <1>1, <1>2, <2>1, LapsedFields
  <2> QED
    BY <1>0, <1>3, <2>1, <2>2, UndecidedIsUnannounced DEF Verdict
<1>5. ASSUME a \notin Supersedes(req, a, now), stager[s].hit = NoRow
      PROVE  verdicts'[a] = <<>> /\ row'[a].status \notin Verdict
  <2>1. row[a].status = "absent"
    BY <1>1, <1>5 DEF FreshRow
  <2>2. row'[a].status = "pending"
    BY <1>1, <1>2, <1>5, NewRowFields
  <2> QED
    BY <1>0, <1>3, <2>1, <2>2, UndecidedIsUnannounced DEF Verdict
<1>6. ASSUME a \notin Supersedes(req, a, now), stager[s].hit # NoRow
      PROVE  row'[a].status = row[a].status
  BY <1>0, <1>1, <1>2, <1>6, RebundledFields
<1>7. \A b \in Approval : b # a /\ b \notin Supersedes(req, a, now) => row'[b] = row[b]
  BY <1>1
<1> QED
  BY <1>3, <1>4, <1>5, <1>6, <1>7, AnnouncingStep

\* Each approval announces at most one verdict, the one its row holds, and a
\* human's verdict is always announced (decideInTx, expireOne).
THEOREM VerdictsAreAnnouncedOnce == ApprovalsSpec => []OneVerdictAnnounced
<1>1. ApprovalsInit => OneVerdictAnnounced
  BY DEF ApprovalsInit, OneVerdictAnnounced, AbsentRow
<1>2. StagingInv /\ OneVerdictAnnounced /\ [ApprovalsNext]_approvalVars => OneVerdictAnnounced'
  <2> SUFFICES ASSUME StagingInv, OneVerdictAnnounced, [ApprovalsNext]_approvalVars
               PROVE  OneVerdictAnnounced'
    OBVIOUS
  <2>0. ApprovalsTypeOK
    BY DEF StagingInv
  <2>1. UNCHANGED tableVars => OneVerdictAnnounced'
    BY DEF OneVerdictAnnounced, tableVars
  <2>2. ASSUME NEW s \in Stager, StagerNext(s) PROVE OneVerdictAnnounced'
    <3>1. (\E req \in Request : Probe(s, req)) \/ StageNothing(s) \/ StageAborts(s)
             => UNCHANGED tableVars
      BY DEF Probe, StageNothing, StageAborts
    <3> QED
      BY <2>1, <2>2, <3>1, StagingAnnouncesNothing DEF StagerNext
  <2>3. ASSUME NEW c \in Caller, CallerNext(c) PROVE OneVerdictAnnounced'
    <3>1. UNCHANGED tableVars \/ (/\ caller[c].pc = "validated"
                                  /\ SpendRow(caller[c].id)
                                  /\ UNCHANGED verdicts)
      BY <2>3 DEF CallerNext, AgentRedeems, ExecutorRedeems, Validate, Consume, ConsumeAndApply, Apply,
                  RedemptionEnds, Consumable, tableVars
    <3>2. ASSUME caller[c].pc = "validated", SpendRow(caller[c].id), UNCHANGED verdicts
          PROVE  OneVerdictAnnounced'
      <4>1. caller[c].id \in Approval
        BY <2>0, <3>2, CallerFields
      <4>2. \A a \in Approval : row'[a].status = row[a].status
        BY <2>0, <3>2, <4>1, SpendRowFields
      <4> QED
        BY <3>2, <4>2, AnnouncingStep
    <3> QED
      BY <2>1, <3>1, <3>2
  <2>4. ASSUME NEW a \in Approval, ExecutorLost(a) PROVE OneVerdictAnnounced'
    BY <2>1, <2>4 DEF ExecutorLost
  <2>5. ASSUME NEW t \in Target, TargetWrite(t) PROVE OneVerdictAnnounced'
    BY <2>1, <2>5 DEF TargetWrite
  <2>6. Tick \/ UNCHANGED approvalVars => OneVerdictAnnounced'
    BY <2>1 DEF Tick, approvalVars, tableVars
  <2>7. CASE ErasureNext
    <3>1. row \in [Approval -> RowType] /\ clock \in Nat
      BY <2>0 DEF ApprovalsTypeOK
    <3>2. ASSUME NEW a \in Approval
          PROVE  /\ verdicts'[a] \in {<<>>, <<row'[a].status>>}
                 /\ row'[a].status \in {"approved", "rejected"} => verdicts'[a] # <<>>
      <4>1. verdicts' = verdicts /\ (row'[a] = row[a] \/ TakenByErasure(a))
        BY <2>7, <3>1, ErasureStep
      <4>2. CASE row'[a].status = row[a].status
        BY <4>1, <4>2 DEF OneVerdictAnnounced
      <4>3. CASE row[a].status = "pending" /\ row'[a].status = "expired"
        BY <2>0, <4>1, <4>3, UndecidedIsUnannounced
      <4> QED
        BY <4>1, <4>2, <4>3 DEF TakenByErasure
    <3> QED
      BY <3>2 DEF OneVerdictAnnounced
  <2> QED
    BY <2>0, <2>2, <2>3, <2>4, <2>5, <2>6, <2>7, DecidingAnnounces DEF ApprovalsNext
<1> QED
  BY <1>1, <1>2, StagingIsSafe, PTL DEF ApprovalsSpec

\* What a decision may not do: settle a proposal past its deadline and the skew.
InItsWindow ==
    \A a \in Approval :
        row[a].status = "pending" /\ row'[a].status \in Verdict =>
            Exempt(a) \/ clock <= row[a].expires + MaxSkew

\* A decision is refused on a lapsed row, by a clock off by the skew at most
\* (effectiveStatus in decideInTx).
LEMMA DecidableInWindow ==
    ASSUME ApprovalsTypeOK, NEW a \in Approval, NEW who, NEW verdict, NEW now \in AppNow,
           Decidable(a, who, verdict, now)
    PROVE  Exempt(a) \/ clock <= row[a].expires + MaxSkew
<1>1. clock \in Nat /\ MaxSkew \in Nat /\ row[a].expires \in Int
  BY Numbers DEF ApprovalsTypeOK, RowType
<1>2. PICK d \in -MaxSkew .. MaxSkew : now = clock + d
  BY DEF AppNow
<1>3. Exempt(a) \/ ~(now > row[a].expires)
  BY DEF Decidable, EffectiveStatus
<1>4. now \in Int /\ clock <= now + MaxSkew
  BY <1>1, <1>2
<1>5. ~(now > row[a].expires) => clock <= row[a].expires + MaxSkew
  BY <1>1, <1>4
<1> QED
  BY <1>3, <1>5

\* No proposal is decided after its deadline by more than the skew between the
\* clock that stamped it and the one the decision reads (insertProposalInTx,
\* decideInTx).
THEOREM DecisionsAreInTime == ApprovalsSpec => DecidedWithinItsWindow
<1>1. StagingInv /\ [ApprovalsNext]_approvalVars => [InItsWindow]_approvalVars
  <2> SUFFICES ASSUME StagingInv, ApprovalsNext PROVE InItsWindow
    BY DEF approvalVars
  <2>0. /\ ApprovalsTypeOK /\ row \in [Approval -> RowType]
        /\ \A a \in Approval : row[a] \in RowType
        /\ "expired" \notin Verdict /\ "pending" \notin Verdict
        /\ "expired" \in Settled /\ clock \in Nat /\ clock \in Int
    BY DEF StagingInv, ApprovalsTypeOK, Verdict, Settled
  <2>1. (\A a \in Approval : row[a].status = "pending" => row'[a].status \notin Verdict) => InItsWindow
    BY DEF InItsWindow
  <2>2. UNCHANGED row => InItsWindow
    BY <2>0, <2>1
  <2>3. ASSUME NEW s \in Stager, StageRow(s) PROVE InItsWindow
    <3> DEFINE req == stager[s].req
               now == stager[s].at
    <3>1. PICK a \in Approval :
            /\ IF stager[s].hit = NoRow THEN FreshRow(a) ELSE a = stager[s].hit
            /\ row' = [b \in Approval |->
                         IF b \in Supersedes(req, a, now) THEN Lapsed(row[b], now)
                         ELSE IF b # a THEN row[b]
                         ELSE IF stager[s].hit = NoRow THEN NewRow(req, now)
                         ELSE Rebundled(row[b], req)]
      BY <2>3 DEF StageRow
    <3>2. req \in Request /\ now \in Int
      BY <2>0, <2>3 DEF StageRow, ApprovalsTypeOK, StagerType
    <3> HIDE DEF req, now
    <3>3. ASSUME NEW b \in Approval, row[b].status = "pending" PROVE row'[b].status \notin Verdict
      <4>1. CASE b \in Supersedes(req, a, now)
        BY <2>0, <3>1, <3>2, <4>1, LapsedFields
      <4>2. CASE b \notin Supersedes(req, a, now) /\ b # a
        BY <2>0, <3>1, <3>3, <4>2
      <4>3. CASE b \notin Supersedes(req, a, now) /\ b = a
        BY <2>0, <3>1, <3>2, <3>3, <4>3, RebundledFields DEF FreshRow
      <4> QED
        BY <4>1, <4>2, <4>3
    <3> QED
      BY <2>1, <3>3
  <2>4. ASSUME NEW s \in Stager, StagerNext(s) PROVE InItsWindow
    <3>1. (\E req \in Request : Probe(s, req)) \/ StageNothing(s) \/ StageAborts(s) => UNCHANGED row
      BY DEF Probe, StageNothing, StageAborts, tableVars
    <3> QED
      BY <2>2, <2>3, <2>4, <3>1 DEF StagerNext
  <2>5. ASSUME NEW a \in Approval, NEW who \in Decider, NEW verdict \in Verdict,
               NEW change \in Change, Decide(a, who, verdict, change)
        PROVE  InItsWindow
    <3>1. Exempt(a) \/ clock <= row[a].expires + MaxSkew
      BY <2>0, <2>5, DecidableInWindow DEF Decide
    <3>2. \A b \in Approval \ {a} : row'[b] = row[b]
      BY <2>0, <2>5 DEF Decide
    <3> QED
      BY <2>0, <3>1, <3>2 DEF InItsWindow
  <2>6. ASSUME NEW b \in Bundle, NEW who \in Decider, NEW verdict \in Verdict,
               DecideBundle(b, who, verdict)
        PROVE  InItsWindow
    <3>1. \A a \in Approval : row'[a] # row[a] => \E now \in AppNow : Decidable(a, who, verdict, now)
      BY <2>6 DEF DecideBundle
    <3>2. \A a \in Approval : row'[a] # row[a] => Exempt(a) \/ clock <= row[a].expires + MaxSkew
      BY <2>0, <3>1, DecidableInWindow
    <3> QED
      BY <2>0, <3>2 DEF InItsWindow
  <2>7. ASSUME NEW a \in Approval, Sweep(a) PROVE InItsWindow
    <3>1. row'[a].status = "expired" /\ \A b \in Approval \ {a} : row'[b] = row[b]
      BY <2>0, <2>7, DecidedFields DEF Sweep, RowType
    <3> QED
      BY <2>0, <2>1, <3>1
  <2>8. ASSUME NEW a \in Approval, Withdraw(a) PROVE InItsWindow
    <3>1. row'[a].status = "expired" /\ \A b \in Approval \ {a} : row'[b] = row[b]
      BY <2>0, <2>8, LapsedFields DEF Withdraw
    <3> QED
      BY <2>0, <2>1, <3>1
  <2>9. ASSUME NEW c \in Caller, CallerNext(c) PROVE InItsWindow
    <3>1. UNCHANGED row \/ (caller[c].pc = "validated" /\ SpendRow(caller[c].id))
      BY <2>9 DEF CallerNext, AgentRedeems, ExecutorRedeems, Validate, Consume, ConsumeAndApply, Apply,
                  RedemptionEnds, Consumable, tableVars
    <3>2. ASSUME caller[c].pc = "validated", SpendRow(caller[c].id) PROVE InItsWindow
      <4>1. caller[c].id \in Approval
        BY <2>0, <3>2, CallerFields
      <4>2. \A a \in Approval : row'[a].status = row[a].status
        BY <2>0, <3>2, <4>1, SpendRowFields
      <4> QED
        BY <2>0, <2>1, <4>2
    <3> QED
      BY <2>2, <3>1, <3>2
  <2>10. ASSUME NEW a \in Approval, ExecutorLost(a) PROVE InItsWindow
    BY <2>2, <2>10 DEF ExecutorLost, tableVars
  <2>11. ASSUME NEW t \in Target, TargetWrite(t) PROVE InItsWindow
    BY <2>2, <2>11 DEF TargetWrite, tableVars
  <2>12. Tick => InItsWindow
    BY <2>2 DEF Tick, tableVars
  <2>13. CASE ErasureNext
    BY <2>0, <2>1, <2>13, ErasureStep DEF TakenByErasure
  <2> QED
    BY <2>4, <2>5, <2>6, <2>7, <2>8, <2>9, <2>10, <2>11, <2>12, <2>13
       DEF ApprovalsNext, DecideNext
<1>2. [InItsWindow]_approvalVars =>
        [\A a \in Approval :
           row[a].status = "pending" /\ row'[a].status \in Verdict =>
              Exempt(a) \/ clock <= row[a].expires + MaxSkew]_approvalVars
  BY DEF InItsWindow
<1> QED
  BY <1>1, <1>2, StagingIsSafe, PTL DEF ApprovalsSpec, DecidedWithinItsWindow

-----------------------------------------------------------------------------
(* The version an effect writes. *)

\* What a kind pins, a row of the kind pins; and an effect that missed its pin
\* is one whose write does not check the version.
PinInv ==
    /\ \A a \in Approval :
         row[a].pin # NoPin => row[a].status # "absent" /\ row[a].req.kind \in PinnedKind
    /\ \A a \in drifted :
         /\ row[a].pin # NoPin
         /\ row[a].req.kind \in SameTxKind \/ row[a].req.kind \notin PinnedWrite

\* No UPDATE of a proposal writes its target version or its deadline, but for
\* the deadline of a forced expiry (supersedePendingInTx, decideInTx,
\* rebundleJoinedInTx).
LEMMA UpdatesKeepPin ==
    ASSUME NEW r \in RowType, NEW req, NEW now, NEW status, NEW change
    PROVE  /\ Lapsed(r, now).pin = r.pin
           /\ Rebundled(r, req).pin = r.pin
           /\ Rebundled(r, req).expires = r.expires
           /\ Decided(r, status, change).pin = r.pin
           /\ Decided(r, status, change).expires = r.expires
<1>1. WithStatus(r, status).pin = r.pin /\ WithStatus(r, "expired").pin = r.pin
      /\ WithStatus(r, status).expires = r.expires
      /\ DOMAIN WithStatus(r, status) = DOMAIN r /\ DOMAIN WithStatus(r, "expired") = DOMAIN r
  BY DEF RowType, WithStatus
<1> DEFINE q == WithChange(WithStatus(r, status), change)
<1>2. q.pin = r.pin /\ q.expires = r.expires /\ DOMAIN q = DOMAIN r
  BY <1>1 DEF RowType, WithChange, WithStatus
<1> HIDE DEF q
<1>3. Decided(r, status, change) = [q EXCEPT !.decidedAt = clock]
  BY DEF Decided, q
<1>4. Decided(r, status, change).pin = r.pin /\ Decided(r, status, change).expires = r.expires
  BY <1>2, <1>3 DEF RowType
<1> DEFINE e == WithStatus(r, "expired")
<1> HIDE DEF e
<1>5. Lapsed(r, now) = [e EXCEPT !.expires = now - 1]
  BY DEF Lapsed, e
<1>6. e.pin = r.pin /\ DOMAIN e = DOMAIN r
  BY <1>1 DEF e
<1>7. Lapsed(r, now).pin = r.pin
  BY <1>5, <1>6 DEF RowType
<1>8. Rebundled(r, req).pin = r.pin /\ Rebundled(r, req).expires = r.expires
  BY DEF Rebundled, RowType
<1> QED
  BY <1>4, <1>7, <1>8

\* A step that writes no pin and no request, or fills an absent row as
\* insertProposalInTx does, and applies nothing.
LEMMA PinStep ==
    ASSUME PinInv, drifted' = drifted, drifted \subseteq Approval,
           \A a \in Approval :
              \/ /\ row'[a].pin = row[a].pin
                 /\ row'[a].req = row[a].req
                 /\ row'[a].status # "absent" \/ row[a].status = "absent"
              \/ /\ row[a].status = "absent" /\ row'[a].status # "absent"
                 /\ row'[a].pin # NoPin => row'[a].req.kind \in PinnedKind
    PROVE  PinInv'
  BY DEF PinInv

\* A staging keeps the pin of what it joins or lets lapse, and pins a new row
\* only if its kind does (resolveTargetVersion).
LEMMA StagingPins ==
    ASSUME ApprovalsTypeOK, PinInv, NEW s \in Stager, StageRow(s)
    PROVE  PinInv'
<1>0. \A a \in Approval : row[a] \in RowType
  BY DEF ApprovalsTypeOK
<1> DEFINE req == stager[s].req
           now == stager[s].at
<1>1. PICK a \in Approval :
        /\ IF stager[s].hit = NoRow THEN FreshRow(a) ELSE a = stager[s].hit
        /\ row' = [b \in Approval |->
                     IF b \in Supersedes(req, a, now) THEN Lapsed(row[b], now)
                     ELSE IF b # a THEN row[b]
                     ELSE IF stager[s].hit = NoRow THEN NewRow(req, now)
                     ELSE Rebundled(row[b], req)]
  BY DEF StageRow
<1>2. req \in Request /\ now \in Int /\ version \in [Target -> Nat]
  BY DEF StageRow, ApprovalsTypeOK, StagerType
<1>3. drifted' = drifted /\ drifted \subseteq Approval
  BY DEF StageRow, effectVars, ApprovalsTypeOK
<1> HIDE DEF req, now
<1>4. ASSUME NEW b \in Approval, b \in Supersedes(req, a, now)
      PROVE  row'[b].pin = row[b].pin /\ row'[b].req = row[b].req /\ row'[b].status # "absent"
  BY <1>0, <1>1, <1>2, <1>4, LapsedFields, UpdatesKeepPin
<1>5. ASSUME a \notin Supersedes(req, a, now), stager[s].hit # NoRow
      PROVE  row'[a].pin = row[a].pin /\ row'[a].req = row[a].req /\ row'[a].status = row[a].status
  BY <1>0, <1>1, <1>2, <1>5, RebundledFields, UpdatesKeepPin
<1>6. ASSUME a \notin Supersedes(req, a, now), stager[s].hit = NoRow
      PROVE  /\ row[a].status = "absent" /\ row'[a].status # "absent"
             /\ row'[a].pin # NoPin => row'[a].req.kind \in PinnedKind
  <2>1. row'[a] = NewRow(req, now) /\ row[a].status = "absent"
    BY <1>1, <1>6 DEF FreshRow
  <2>2. NewRow(req, now).pin # NoPin => req.kind \in PinnedKind
    BY DEF NewRow
  <2>3. NewRow(req, now).status = "pending" /\ NewRow(req, now).req = req
    BY <1>2, NewRowFields
  <2> QED
    BY <2>1, <2>2, <2>3
<1>7. \A b \in Approval : b # a /\ b \notin Supersedes(req, a, now) => row'[b] = row[b]
  BY <1>1
<1> QED
  BY <1>3, <1>4, <1>5, <1>6, <1>7, PinStep

\* Deciding, sweeping and withdrawing write no pin.
LEMMA DecidingPins ==
    ASSUME ApprovalsTypeOK, PinInv, DecideNext
    PROVE  PinInv'
<1>0. /\ row \in [Approval -> RowType]
      /\ \A a \in Approval : row[a] \in RowType
      /\ Verdict \subseteq Settled /\ "expired" \in Settled /\ "absent" \notin Settled
      /\ clock \in Nat /\ clock \in Int /\ drifted \subseteq Approval
  BY DEF ApprovalsTypeOK, Verdict, Settled
<1>1. \A a \in Approval : row[a].change \in Change \cup {Nothing}
  BY <1>0 DEF RowType
<1>2. ASSUME NEW a \in Approval, NEW status \in Settled, NEW change \in Change \cup {Nothing}
      PROVE  /\ Decided(row[a], status, change).pin = row[a].pin
             /\ Decided(row[a], status, change).req = row[a].req
             /\ Decided(row[a], status, change).status # "absent"
  <2>1. /\ Decided(row[a], status, change).req = row[a].req
        /\ Decided(row[a], status, change).status = status
    BY <1>0, DecidedFields
  <2>2. Decided(row[a], status, change).pin = row[a].pin
    BY <1>0, UpdatesKeepPin
  <2> QED
    BY <1>0, <2>1, <2>2
<1>3. ASSUME NEW a \in Approval, NEW who \in Decider, NEW verdict \in Verdict, NEW change \in Change,
             Decide(a, who, verdict, change)
      PROVE  PinInv'
  <2>1. row' = [row EXCEPT ![a] = Decided(row[a], verdict, change)] /\ drifted' = drifted
    BY <1>3 DEF Decide, effectVars
  <2> QED
    BY <1>0, <1>2, <2>1, PinStep
<1>4. ASSUME NEW b \in Bundle, NEW who \in Decider, NEW verdict \in Verdict,
             DecideBundle(b, who, verdict)
      PROVE  PinInv'
  <2>1. PICK now \in AppNow :
          row' = [a \in Approval |->
                    IF a \in {x \in Members(b) : Decidable(x, who, verdict, now)}
                    THEN Decided(row[a], verdict, row[a].change) ELSE row[a]]
    BY <1>4 DEF DecideBundle
  <2>2. drifted' = drifted
    BY <1>4 DEF DecideBundle, effectVars
  <2> QED
    BY <1>0, <1>1, <1>2, <2>1, <2>2, PinStep
<1>5. ASSUME NEW a \in Approval, Sweep(a) PROVE PinInv'
  <2>1. row' = [row EXCEPT ![a] = Decided(row[a], "expired", row[a].change)] /\ drifted' = drifted
    BY <1>5 DEF Sweep, effectVars
  <2> QED
    BY <1>0, <1>1, <1>2, <2>1, PinStep
<1>6. ASSUME NEW a \in Approval, Withdraw(a) PROVE PinInv'
  <2>1. row' = [row EXCEPT ![a] = Lapsed(row[a], clock)] /\ drifted' = drifted
    BY <1>6 DEF Withdraw, effectVars
  <2>2. /\ Lapsed(row[a], clock).pin = row[a].pin
        /\ Lapsed(row[a], clock).req = row[a].req
        /\ Lapsed(row[a], clock).status # "absent"
    BY <1>0, LapsedFields, UpdatesKeepPin
  <2> QED
    BY <1>0, <2>1, <2>2, PinStep
<1> QED
  BY <1>3, <1>4, <1>5, <1>6 DEF DecideNext

\* A released caller's write is conditioned on the pin where its executor carries
\* it; an effect that drops it, or that shares the redemption's transaction, can
\* miss it (scrapeAcceptEffect, RedeemAndApply).
LEMMA RedeemingPins ==
    ASSUME ApprovalsTypeOK, PinInv, NEW c \in Caller, CallerNext(c)
    PROVE  PinInv'
<1>0. drifted \subseteq Approval /\ \A a \in Approval : row[a] \in RowType
  BY DEF ApprovalsTypeOK
<1>1. ASSUME NEW a \in Approval, SpendRow(a)
      PROVE  \A b \in Approval : /\ row'[b].pin = row[b].pin
                                 /\ row'[b].req = row[b].req
                                 /\ row'[b].status = row[b].status
  <2> DEFINE r == row[a]
             q == [r EXCEPT !.consumed = TRUE]
  <2>1. r \in RowType
    BY <1>0
  <2> HIDE DEF r
  <2>2. q.pin = r.pin
    BY <2>1 DEF RowType
  <2>3. row' = [row EXCEPT ![a] = q]
    BY <1>1 DEF SpendRow, r
  <2> HIDE DEF q
  <2>4. row'[a].pin = row[a].pin
    BY <2>2, <2>3 DEF r, ApprovalsTypeOK
  <2> QED
    BY <1>1, <2>4, SpendRowFields
<1>2. ASSUME UNCHANGED <<row, drifted>> PROVE PinInv'
  BY <1>2 DEF PinInv
<1>3. CASE Consume(c)
  <2>1. caller[c].id \in Approval
    BY <1>3, CallerFields DEF Consume, Consumable
  <2>2. SpendRow(caller[c].id) /\ drifted' = drifted
    BY <1>3 DEF Consume, effectVars
  <2> QED
    BY <1>0, <1>1, <2>1, <2>2, PinStep
<1>4. CASE ConsumeAndApply(c)
  <2>1. caller[c].id \in Approval
    BY <1>4, CallerFields DEF ConsumeAndApply, Consumable
  <2>2. PICK a \in Approval : a = caller[c].id
    BY <2>1
  <2>3. SpendRow(a) /\ (ApplyEffect(a) \/ UNCHANGED effectVars) /\ SameTx(a)
    BY <1>4, <2>2 DEF ConsumeAndApply
  <2>4. drifted' = drifted \/ (row[a].pin # NoPin /\ drifted' = drifted \cup {a})
    BY <2>3 DEF ApplyEffect, effectVars
  <2>5. \A b \in Approval : /\ row'[b].pin = row[b].pin
                            /\ row'[b].req = row[b].req
                            /\ row'[b].status = row[b].status
    BY <1>1, <2>3
  <2> QED
    BY <1>0, <2>3, <2>4, <2>5 DEF PinInv, SameTx
<1>5. CASE Apply(c)
  <2>1. caller[c].id \in Approval
    BY <1>5, CallerFields DEF Apply
  <2>2. PICK a \in Approval : a = caller[c].id
    BY <2>1
  <2>3. row' = row /\ ApplyEffect(a)
    BY <1>5, <2>2 DEF Apply, tableVars
  <2>4. CASE row[a].pin \in {NoPin, version[row[a].req.target]}
    <3>1. drifted' = drifted
      BY <2>3, <2>4 DEF ApplyEffect
    <3> QED
      BY <1>2, <2>3, <3>1
  <2>5. CASE row[a].pin \notin {NoPin, version[row[a].req.target]}
    <3>1. drifted' = drifted \cup {a} /\ row[a].pin # NoPin
      BY <2>3, <2>5 DEF ApplyEffect
    <3>2. row[a].req.kind \notin PinnedWrite
      BY <1>5, <2>2, <2>5 DEF Apply, CarriesPin
    <3> QED
      BY <2>3, <3>1, <3>2 DEF PinInv
  <2> QED
    BY <2>4, <2>5
<1>6. RedemptionEnds(c) => UNCHANGED <<row, drifted>>
  BY DEF RedemptionEnds, tableVars, effectVars
<1>7. ASSUME NEW a, NEW by, NEW hash, Validate(c, a, by, hash) PROVE UNCHANGED <<row, drifted>>
  BY <1>7 DEF Validate, tableVars, effectVars
<1> QED
  BY <1>2, <1>3, <1>4, <1>5, <1>6, <1>7 DEF CallerNext, AgentRedeems, ExecutorRedeems

\* The invariant of the pins holds throughout.
LEMMA PinsAreKept == ApprovalsSpec => []PinInv
<1>1. ApprovalsInit => PinInv
  BY DEF ApprovalsInit, PinInv, AbsentRow
<1>2. ApprovalsTypeOK /\ PinInv /\ [ApprovalsNext]_approvalVars => PinInv'
  <2> SUFFICES ASSUME ApprovalsTypeOK, PinInv, [ApprovalsNext]_approvalVars PROVE PinInv'
    OBVIOUS
  <2>1. UNCHANGED <<row, drifted>> => PinInv'
    BY DEF PinInv
  <2>2. ASSUME NEW s \in Stager, StagerNext(s) PROVE PinInv'
    <3>1. (\E req \in Request : Probe(s, req)) \/ StageNothing(s) \/ StageAborts(s)
             => UNCHANGED <<row, drifted>>
      BY DEF Probe, StageNothing, StageAborts, tableVars, effectVars
    <3> QED
      BY <2>1, <2>2, <3>1, StagingPins DEF StagerNext
  <2>3. ASSUME NEW a \in Approval, ExecutorLost(a) PROVE PinInv'
    BY <2>1, <2>3 DEF ExecutorLost, tableVars, effectVars
  <2>4. ASSUME NEW t \in Target, TargetWrite(t) PROVE PinInv'
    BY <2>1, <2>4 DEF TargetWrite, tableVars
  <2>5. Tick \/ UNCHANGED approvalVars => PinInv'
    BY <2>1 DEF Tick, approvalVars, tableVars, effectVars
  <2>6. CASE ErasureNext
    <3>1. row \in [Approval -> RowType] /\ clock \in Nat /\ drifted \subseteq Approval
      BY DEF ApprovalsTypeOK
    <3>2. \A a \in Approval : TakenByErasure(a) => row'[a].status # "absent"
      BY DEF TakenByErasure
    <3> QED
      BY <2>6, <3>1, <3>2, ErasureStep, PinStep DEF TakenByErasure
  <2> QED
    BY <2>2, <2>3, <2>4, <2>5, <2>6, DecidingPins, RedeemingPins DEF ApprovalsNext
<1> QED
  BY <1>1, <1>2, ApprovalsTypeCorrect, PTL DEF ApprovalsSpec

\* An effect lands on a record that moved past the pin only where nothing checks
\* the version in the write: an executor that drops the pin Redeem returns, and
\* RedeemAndApply, whose check reads the target without a lock.  A write that
\* carries its pin writes the version the human approved, whatever races.
THEOREM OnlyUncheckedEffectsDrift == ApprovalsSpec => []OnlyUncheckedWritesDrift
<1>1. ApprovalsTypeOK /\ PinInv => OnlyUncheckedWritesDrift
  BY DEF PinInv, OnlyUncheckedWritesDrift, ApprovalsTypeOK, SameTx, CarriesPin
<1> QED
  BY <1>1, PinsAreKept, ApprovalsTypeCorrect, PTL

-----------------------------------------------------------------------------
(* One live question. *)

\* A set of approvals that is not empty has an oldest one (ORDER BY ... LIMIT 1).
LEMMA LeastExists ==
    ASSUME NEW S \in SUBSET Approval, S # {}
    PROVE  OneOf(Least(S)) \in S
<1>1. S \subseteq Nat
  BY ApprovalsAssumption DEF Approval
<1>2. PICK x \in S : \A y \in S : ~ (<<y, x>> \in OpToRel(<, Nat))
  BY <1>1, NatLessThanWellFounded, WFMin
<1>3. \A y \in S : x <= y
  <2>1. \A y \in S : y < x => <<y, x>> \in OpToRel(<, Nat)
    BY <1>1 DEF OpToRel
  <2>2. \A y \in S : ~(y < x)
    BY <1>2, <2>1
  <2> QED
    BY <1>1, <2>2
<1>4. x \in Least(S)
  BY <1>3 DEF Least
<1>5. OneOf(Least(S)) \in Least(S)
  BY <1>4 DEF OneOf
<1> QED
  BY <1>5 DEF Least

\* A staging's now() is the time its transaction began.
ProbedInThePast == \A s \in Stager : stager[s].pc = "probed" => stager[s].at <= clock

\* Of two stagings that take the identity lock, both at work, neither asks what
\* the other asks (lockProposalIdentity).
IdentitiesApart ==
    \A s, t \in Stager :
        /\ stager[s].pc = "probed" /\ stager[t].pc = "probed" /\ s # t
        /\ stager[s].req.op # "create" /\ stager[t].req.op # "create"
        => LockKey(stager[s].req) # LockKey(stager[t].req)

\* Only a decision edits a payload, and no erasure leaves a row pending.
PendingAsAsked ==
    \A a \in Approval :
        row[a].status = "pending" => row[a].change = row[a].req.change /\ ~row[a].erased

\* A live proposal of the same agent call.
AlreadyAsked(a, req) ==
    /\ row[a].req.op = "call"
    /\ row[a].req.by = req.by
    /\ SameHash(a, req)
    /\ LivePending(a, clock)

\* What StageAgentCall is about to insert, nobody has asked meanwhile.
NewCallsAreNew ==
    \A s \in Stager :
        stager[s].pc = "probed" /\ stager[s].req.op = "call" /\ stager[s].hit = NoRow =>
            \A a \in Approval : ~AlreadyAsked(a, stager[s].req)

\* The inductive invariant of the inbox.
QuestionInv ==
    /\ StagingInv
    /\ ProbedInThePast
    /\ IdentitiesApart
    /\ PendingAsAsked
    /\ NewCallsAreNew
    /\ OneLiveQuestion

\* Every pending row was pending before, and asks the same until the same time.
NoNewQuestion ==
    \A a \in Approval :
        row'[a].status = "pending" =>
            /\ row[a].status = "pending"
            /\ row'[a].req = row[a].req
            /\ row'[a].change = row[a].change
            /\ row'[a].expires = row[a].expires
            /\ row'[a].erased = row[a].erased

\* A step that asks nothing and starts no staging keeps the invariant.
LEMMA QuestionsShrink ==
    ASSUME QuestionInv, StagingInv', NoNewQuestion, clock <= clock',
           \A s \in Stager : stager'[s] = stager[s] \/ stager'[s].pc = "idle"
    PROVE  QuestionInv'
<1>0. /\ clock \in Nat /\ clock' \in Nat
      /\ \A a \in Approval : row[a].expires \in Int /\ row'[a].expires \in Int
  BY DEF QuestionInv, StagingInv, ApprovalsTypeOK, RowType
<1>1. \A a \in Approval : LivePending(a, clock)' => LivePending(a, clock)
  BY <1>0 DEF LivePending, NoNewQuestion
<1>2. \A s \in Stager : stager[s].pc = "probed" => stager[s].at \in Nat
  BY DEF QuestionInv, StagingInv, ApprovalsTypeOK, StagerType
<1>3. ProbedInThePast'
  BY <1>0, <1>2 DEF QuestionInv, ProbedInThePast
<1>4. IdentitiesApart'
  BY DEF QuestionInv, IdentitiesApart, LockKey, ByIdentity
<1>5. PendingAsAsked'
  BY DEF QuestionInv, PendingAsAsked, NoNewQuestion
<1>6. \A a \in Approval : \A req : LivePending(a, clock)' /\ SameSubject(a, req)' => SameSubject(a, req)
  BY <1>1 DEF SameSubject, NoNewQuestion, LivePending
<1>7. \A a \in Approval : \A req :
        /\ LivePending(a, clock)' /\ SameHash(a, req)' => SameHash(a, req)
        /\ LivePending(a, clock)' /\ SameIdentity(a, req)' => SameIdentity(a, req)
  BY <1>6 DEF SameHash, SameIdentity, NoNewQuestion, LivePending
<1>8. \A a \in Approval : \A req : AlreadyAsked(a, req)' => AlreadyAsked(a, req)
  BY <1>1, <1>7 DEF AlreadyAsked, NoNewQuestion, LivePending
<1>9. NewCallsAreNew'
  BY <1>8 DEF QuestionInv, NewCallsAreNew
<1>10. OneLiveQuestion'
  <2> SUFFICES ASSUME NEW a \in Approval, NEW b \in Approval, a # b,
                      LivePending(a, clock)', LivePending(b, clock)'
               PROVE  /\ ~(ByIdentity(row'[a].req) /\ ByIdentity(row'[b].req)
                             /\ SameIdentity(b, row[a].req)')
                      /\ ~(/\ row'[a].req.op = "call" /\ row'[b].req.op = "call"
                           /\ row'[a].req.by = row'[b].req.by /\ SameHash(b, row[a].req)')
    BY DEF OneLiveQuestion, ByIdentity
  <2>1. row'[a].req = row[a].req /\ row'[b].req = row[b].req
    BY DEF NoNewQuestion, LivePending
  <2>2. LivePending(a, clock) /\ LivePending(b, clock)
    BY <1>1
  <2>3. /\ SameIdentity(b, row[a].req)' => SameIdentity(b, row[a].req)
        /\ SameHash(b, row[a].req)' => SameHash(b, row[a].req)
    BY <1>7, <2>1 DEF SameHash, SameIdentity, SameSubject, NoNewQuestion, LivePending
  <2> QED
    BY <2>1, <2>2, <2>3 DEF QuestionInv, OneLiveQuestion
<1> QED
  BY <1>3, <1>4, <1>5, <1>9, <1>10 DEF QuestionInv

\* Deciding, sweeping and withdrawing settle rows.
LEMMA DecidingAsksNothing ==
    ASSUME ApprovalsTypeOK, DecideNext
    PROVE  NoNewQuestion
<1>0. /\ row \in [Approval -> RowType]
      /\ \A a \in Approval : row[a] \in RowType /\ row[a].change \in Change \cup {Nothing}
      /\ Verdict \subseteq Settled /\ "expired" \in Settled /\ "pending" \notin Settled
      /\ clock \in Nat /\ clock \in Int
  BY DEF ApprovalsTypeOK, Verdict, Settled, RowType
<1>1. (\A a \in Approval : row'[a] = row[a] \/ row'[a].status # "pending") => NoNewQuestion
  BY DEF NoNewQuestion
<1>2. ASSUME NEW a \in Approval, NEW status \in Settled, NEW change \in Change \cup {Nothing}
      PROVE  Decided(row[a], status, change).status # "pending"
  BY <1>0, DecidedFields
<1>3. ASSUME NEW a \in Approval, NEW who \in Decider, NEW verdict \in Verdict, NEW change \in Change,
             Decide(a, who, verdict, change)
      PROVE  NoNewQuestion
  <2>1. row' = [row EXCEPT ![a] = Decided(row[a], verdict, change)]
    BY <1>3 DEF Decide
  <2> QED
    BY <1>0, <1>1, <1>2, <2>1
<1>4. ASSUME NEW b \in Bundle, NEW who \in Decider, NEW verdict \in Verdict,
             DecideBundle(b, who, verdict)
      PROVE  NoNewQuestion
  <2>1. PICK now \in AppNow :
          row' = [a \in Approval |->
                    IF a \in {x \in Members(b) : Decidable(x, who, verdict, now)}
                    THEN Decided(row[a], verdict, row[a].change) ELSE row[a]]
    BY <1>4 DEF DecideBundle
  <2> QED
    BY <1>0, <1>1, <1>2, <2>1
<1>5. ASSUME NEW a \in Approval, Sweep(a) PROVE NoNewQuestion
  <2>1. row' = [row EXCEPT ![a] = Decided(row[a], "expired", row[a].change)]
    BY <1>5 DEF Sweep
  <2> QED
    BY <1>0, <1>1, <1>2, <2>1
<1>6. ASSUME NEW a \in Approval, Withdraw(a) PROVE NoNewQuestion
  <2>1. row' = [row EXCEPT ![a] = Lapsed(row[a], clock)]
    BY <1>6 DEF Withdraw
  <2>2. Lapsed(row[a], clock).status = "expired"
    BY <1>0, LapsedFields
  <2> QED
    BY <1>0, <1>1, <2>1, <2>2
<1> QED
  BY <1>3, <1>4, <1>5, <1>6 DEF DecideNext

\* An erasure withdraws the pending rows it reaches.
LEMMA ErasingAsksNothing ==
    ASSUME ApprovalsTypeOK, ErasureNext
    PROVE  NoNewQuestion
<1>1. row \in [Approval -> RowType] /\ clock \in Nat
  BY DEF ApprovalsTypeOK
<1>2. \A a \in Approval : row'[a] = row[a] \/ row'[a].status # "pending"
  BY <1>1, ErasureStep DEF TakenByErasure
<1> QED
  BY <1>2 DEF NoNewQuestion

\* Spending an approval asks nothing.
LEMMA RedeemingAsksNothing ==
    ASSUME ApprovalsTypeOK, NEW c \in Caller, CallerNext(c)
    PROVE  NoNewQuestion
<1>1. UNCHANGED row => NoNewQuestion
  BY DEF NoNewQuestion
<1>2. UNCHANGED row \/ (caller[c].pc = "validated" /\ SpendRow(caller[c].id))
  BY DEF CallerNext, AgentRedeems, ExecutorRedeems, Validate, Consume, ConsumeAndApply, Apply,
         RedemptionEnds, Consumable, tableVars
<1>3. ASSUME NEW a \in Approval, SpendRow(a) PROVE NoNewQuestion
  <2> DEFINE r == row[a]
             q == [r EXCEPT !.consumed = TRUE]
  <2>1. r \in RowType
    BY DEF ApprovalsTypeOK
  <2> HIDE DEF r
  <2>2. q.expires = r.expires
    BY <2>1 DEF RowType
  <2>3. row' = [row EXCEPT ![a] = q]
    BY <1>3 DEF SpendRow, r
  <2> HIDE DEF q
  <2>4. row'[a].expires = row[a].expires
    BY <2>2, <2>3 DEF r, ApprovalsTypeOK
  <2> QED
    BY <1>3, <2>4, SpendRowFields DEF NoNewQuestion
<1> QED
  BY <1>1, <1>2, <1>3, CallerFields

\* A staging that joins asks nothing new: it re-files what is there.
LEMMA JoiningAsksNothing ==
    ASSUME ApprovalsTypeOK, NEW s \in Stager, StageRow(s), stager[s].hit # NoRow
    PROVE  NoNewQuestion
<1>0. \A a \in Approval : row[a] \in RowType
  BY DEF ApprovalsTypeOK
<1> DEFINE req == stager[s].req
           now == stager[s].at
<1>1. PICK a \in Approval :
        row' = [b \in Approval |->
                  IF b \in Supersedes(req, a, now) THEN Lapsed(row[b], now)
                  ELSE IF b # a THEN row[b]
                  ELSE IF stager[s].hit = NoRow THEN NewRow(req, now)
                  ELSE Rebundled(row[b], req)]
  BY DEF StageRow
<1>2. req \in Request /\ now \in Int
  BY DEF StageRow, ApprovalsTypeOK, StagerType
<1> HIDE DEF req, now
<1>3. \A b \in Approval : b \in Supersedes(req, a, now) => row'[b].status # "pending"
  BY <1>0, <1>1, <1>2, LapsedFields
<1>4. a \notin Supersedes(req, a, now) =>
        /\ row'[a].status = row[a].status /\ row'[a].req = row[a].req
        /\ row'[a].change = row[a].change /\ row'[a].expires = row[a].expires
        /\ row'[a].erased = row[a].erased
  BY <1>0, <1>1, <1>2, RebundledFields, UpdatesKeepPin
<1>5. \A b \in Approval : b # a /\ b \notin Supersedes(req, a, now) => row'[b] = row[b]
  BY <1>1
<1> QED
  BY <1>3, <1>4, <1>5 DEF NoNewQuestion

\* A probe for an agent call finds the live one there is (liveApprovalForCallInTx).
LEMMA CallProbeFinds ==
    ASSUME NEW req \in Request, NEW appNow, CallHit(req, clock, appNow) = NoRow,
           NEW a \in Approval
    PROVE  ~AlreadyAsked(a, req)
<1> DEFINE candidates == CallCandidates(req, clock)
           spendable  == {b \in candidates : Redeemable(b, req.kind, req.change, req.by, appNow)}
           undecided  == {b \in candidates : row[b].status = "pending"}
<1>1. candidates \subseteq Approval /\ NoRow \notin Approval
  BY ApprovalsAssumption DEF CallCandidates, Approval, NoRow
<1>2. CallHit(req, clock, appNow) =
        IF spendable # {} THEN OneOf(Least(spendable)) ELSE OneOf(Least(undecided))
  BY DEF CallHit
<1>3. AlreadyAsked(a, req) => a \in undecided
  BY DEF AlreadyAsked, CallCandidates, LivePending
<1>4. spendable \in SUBSET Approval /\ undecided \in SUBSET Approval
  BY <1>1
<1> HIDE DEF spendable, undecided
<1>5. spendable = {}
  BY <1>1, <1>2, <1>4, LeastExists
<1>6. undecided = {}
  BY <1>1, <1>2, <1>4, <1>5, LeastExists
<1> QED
  BY <1>3, <1>6

\* A probe keeps the invariant: the identity lock is free, and a call that
\* finds nothing has not been asked.
LEMMA ProbeKeepsQuestions ==
    ASSUME QuestionInv, NEW s \in Stager, NEW req \in Request, Probe(s, req)
    PROVE  QuestionInv'
<1>1. StagingInv'
  BY ProbeHoldsItsHit DEF QuestionInv
<1>2. PICK appNow \in AppNow :
        stager' = [stager EXCEPT ![s] =
          [pc |-> "probed", req |-> req, at |-> clock, hit |-> ProbeHit(req, clock, appNow),
           locks |-> ProbeLocks(req, clock), declined |-> Declined(req)]]
  BY DEF Probe
<1>3. /\ stager'[s].req = req /\ stager'[s].at = clock
      /\ stager'[s].hit = ProbeHit(req, clock, appNow)
      /\ \A t \in Stager \ {s} : stager'[t] = stager[t]
      /\ UNCHANGED <<row, clock>>
      /\ clock \in Nat
  BY <1>2 DEF Probe, QuestionInv, StagingInv, ApprovalsTypeOK, tableVars
<1>4. ProbedInThePast'
  BY <1>3 DEF QuestionInv, ProbedInThePast
<1>5. IdentitiesApart'
  <2>1. \A t \in Stager : req.op # "create" /\ stager[t].pc = "probed" /\ stager[t].req.op # "create"
           => LockKey(stager[t].req) # LockKey(req)
    BY DEF Probe, IdentityLockHeld
  <2> QED
    BY <1>3, <2>1 DEF QuestionInv, IdentitiesApart, LockKey, ByIdentity
<1>6. PendingAsAsked' /\ OneLiveQuestion'
  BY <1>3 DEF QuestionInv, PendingAsAsked, OneLiveQuestion, LivePending, SameIdentity, SameHash,
              SameSubject, ByIdentity
<1>7. \A a \in Approval : \A r : AlreadyAsked(a, r)' <=> AlreadyAsked(a, r)
  BY <1>3 DEF AlreadyAsked, LivePending, SameHash, SameSubject
<1>8. ASSUME req.op = "call", ProbeHit(req, clock, appNow) = NoRow, NEW a \in Approval
      PROVE  ~AlreadyAsked(a, req)
  <2>1. CallHit(req, clock, appNow) = NoRow
    BY <1>8 DEF ProbeHit
  <2> QED
    BY <2>1, CallProbeFinds
<1>9. NewCallsAreNew'
  BY <1>3, <1>7, <1>8 DEF QuestionInv, NewCallsAreNew
<1> QED
  BY <1>1, <1>4, <1>5, <1>6, <1>9 DEF QuestionInv

\* What an inserted offer leaves pending under its identity is not live, and an
\* inserted call was not being asked.
LEMMA InsertionStandsAlone ==
    ASSUME QuestionInv, NEW s \in Stager, stager[s].pc = "probed", stager[s].hit = NoRow,
           NEW a \in Approval, NEW b \in Approval, a # b,
           b \notin Supersedes(stager[s].req, a, stager[s].at),
           LivePending(b, clock)
    PROVE  /\ ByIdentity(stager[s].req) => ~SameIdentity(b, stager[s].req)
           /\ ~(/\ stager[s].req.op = "call" /\ row[b].req.op = "call"
                /\ row[b].req.by = stager[s].req.by
                /\ SameHash(b, stager[s].req))
<1>1. /\ stager[s].at \in Nat /\ clock \in Nat /\ stager[s].at <= clock /\ row[b].expires \in Int
  BY DEF QuestionInv, StagingInv, ApprovalsTypeOK, StagerType, RowType, ProbedInThePast
<1>2. LivePending(b, stager[s].at)
  BY <1>1 DEF LivePending
<1> QED
  BY <1>2 DEF Supersedes, QuestionInv, NewCallsAreNew, AlreadyAsked

\* A staging that inserts asks its question once.
LEMMA InsertingAsksOnce ==
    ASSUME QuestionInv, StagingInv', NEW s \in Stager, StageRow(s), stager[s].hit = NoRow
    PROVE  QuestionInv'
<1>0. /\ \A a \in Approval : row[a] \in RowType
      /\ stager \in [Stager -> StagerType] /\ stager[s].pc = "probed"
      /\ clock \in Nat /\ clock' = clock
  BY DEF QuestionInv, StagingInv, ApprovalsTypeOK, StageRow
<1>1. PICK req \in Request, now \in Nat : req = stager[s].req /\ now = stager[s].at
  BY <1>0 DEF StagerType
<1>2. PICK a \in Approval :
        /\ FreshRow(a)
        /\ row' = [b \in Approval |->
                     IF b \in Supersedes(req, a, now) THEN Lapsed(row[b], now)
                     ELSE IF b # a THEN row[b]
                     ELSE NewRow(req, now)]
  BY <1>1 DEF StageRow
<1>3. a \notin Supersedes(req, a, now)
  BY DEF Supersedes
<1>4. /\ row'[a].status = "pending" /\ row'[a].req = req /\ row'[a].change = req.change
      /\ row[a].status = "absent" /\ ~row'[a].erased
  <2>1. row'[a] = NewRow(req, now) /\ row[a].status = "absent"
    BY <1>2, <1>3 DEF FreshRow
  <2>2. version \in [Target -> Nat] /\ now \in Int
    BY DEF QuestionInv, StagingInv, ApprovalsTypeOK
  <2>3. /\ NewRow(req, now).status = "pending" /\ NewRow(req, now).req = req
        /\ NewRow(req, now).change = req.change /\ NewRow(req, now).erased = FALSE
    BY <2>2, NewRowFields
  <2> QED
    BY <2>1, <2>3
<1>5. ASSUME NEW b \in Approval, b # a, row'[b].status = "pending"
      PROVE  row'[b] = row[b] /\ b \notin Supersedes(req, a, now)
  BY <1>0, <1>1, <1>2, <1>5, LapsedFields
<1>6. /\ stager'[s].pc = "idle" /\ \A t \in Stager \ {s} : stager'[t] = stager[t]
  BY <1>0 DEF StageRow, EndStaging, Idle
<1>7. ProbedInThePast' /\ IdentitiesApart'
  BY <1>0, <1>6 DEF QuestionInv, ProbedInThePast, IdentitiesApart, LockKey, ByIdentity
<1>8. PendingAsAsked'
  BY <1>4, <1>5 DEF QuestionInv, PendingAsAsked
<1>9. NewCallsAreNew'
  <2> SUFFICES ASSUME NEW t \in Stager, t # s, stager[t].pc = "probed",
                      stager[t].req.op = "call", stager[t].hit = NoRow,
                      NEW b \in Approval, AlreadyAsked(b, stager[t].req)'
               PROVE  FALSE
    BY <1>6 DEF NewCallsAreNew
  <2>1. stager'[t] = stager[t]
    BY <1>6
  <2>2. CASE b = a
    <3>1. /\ req.op = "call" /\ req.kind = stager[t].req.kind /\ req.target = stager[t].req.target
          /\ req.change = stager[t].req.change
      BY <1>4, <2>1, <2>2 DEF AlreadyAsked, SameHash, SameSubject
    <3>2. LockKey(req) = LockKey(stager[t].req)
      BY <3>1 DEF LockKey, ByIdentity
    <3> QED
      BY <1>0, <1>1, <3>1, <3>2 DEF QuestionInv, IdentitiesApart
  <2>3. CASE b # a
    <3>1. row'[b] = row[b]
      BY <1>5, <2>3 DEF AlreadyAsked, LivePending
    <3>2. AlreadyAsked(b, stager[t].req)
      BY <1>0, <2>1, <3>1 DEF AlreadyAsked, LivePending, SameHash, SameSubject
    <3> QED
      BY <3>2 DEF QuestionInv, NewCallsAreNew
  <2> QED
    BY <2>2, <2>3
<1>10. ASSUME NEW b \in Approval, b # a, LivePending(b, clock)'
       PROVE  /\ ~(ByIdentity(req) /\ Identity[row[b].change] = Identity[req.change]
                     /\ row[b].req.kind = req.kind /\ row[b].req.target = req.target)
              /\ ~(/\ req.op = "call" /\ row[b].req.op = "call" /\ row[b].req.by = req.by
                   /\ row[b].change = req.change
                   /\ row[b].req.kind = req.kind /\ row[b].req.target = req.target)
              /\ row'[b] = row[b] /\ row[b].change = row[b].req.change
              /\ LivePending(b, clock)
  <2>1. row'[b] = row[b] /\ b \notin Supersedes(req, a, now)
    BY <1>5, <1>10 DEF LivePending
  <2>2. LivePending(b, clock) /\ row[b].status = "pending"
    BY <1>0, <1>10, <2>1 DEF LivePending
  <2>3. /\ ByIdentity(req) => ~SameIdentity(b, req)
        /\ ~(req.op = "call" /\ row[b].req.op = "call" /\ row[b].req.by = req.by /\ SameHash(b, req))
    BY <1>0, <1>1, <1>10, <2>1, <2>2, InsertionStandsAlone
  <2>4. row[b].change = row[b].req.change /\ ~row[b].erased
    BY <2>2 DEF QuestionInv, PendingAsAsked
  <2> QED
    BY <2>1, <2>2, <2>3, <2>4 DEF SameIdentity, SameHash, SameSubject
<1>11. OneLiveQuestion'
  <2> SUFFICES ASSUME NEW b \in Approval, NEW c \in Approval, b # c,
                      LivePending(b, clock)', LivePending(c, clock)'
               PROVE  /\ ~(ByIdentity(row'[b].req) /\ ByIdentity(row'[c].req)
                             /\ SameIdentity(c, row[b].req)')
                      /\ ~(/\ row'[b].req.op = "call" /\ row'[c].req.op = "call"
                           /\ row'[b].req.by = row'[c].req.by /\ SameHash(c, row[b].req)')
    BY DEF OneLiveQuestion, ByIdentity
  <2>1. CASE b = a
    BY <1>4, <1>10, <2>1 DEF SameIdentity, SameHash, SameSubject
  <2>2. CASE c = a
    BY <1>4, <1>10, <2>2 DEF SameIdentity, SameHash, SameSubject
  <2>3. CASE b # a /\ c # a
    <3>1. /\ row'[b] = row[b] /\ row'[c] = row[c]
          /\ LivePending(b, clock) /\ LivePending(c, clock)
      BY <1>10, <2>3
    <3> QED
      BY <3>1 DEF QuestionInv, OneLiveQuestion, SameIdentity, SameHash, SameSubject
  <2> QED
    BY <2>1, <2>2, <2>3
<1> QED
  BY <1>7, <1>8, <1>9, <1>11 DEF QuestionInv

\* Every step keeps the invariant.
LEMMA QuestionStep == QuestionInv /\ [ApprovalsNext]_approvalVars => QuestionInv'
<1> SUFFICES ASSUME QuestionInv, [ApprovalsNext]_approvalVars PROVE QuestionInv'
  OBVIOUS
<1>0. /\ ApprovalsTypeOK /\ StagingInv' /\ stager \in [Stager -> StagerType]
      /\ clock \in Nat
  BY StagingInvStep DEF QuestionInv, StagingInv, ApprovalsTypeOK
<1>1. ASSUME NoNewQuestion, UNCHANGED <<stager, clock>> PROVE QuestionInv'
  BY <1>0, <1>1, QuestionsShrink
<1>2. UNCHANGED row => NoNewQuestion
  BY DEF NoNewQuestion
<1>3. ASSUME NEW s \in Stager, StageRow(s) \/ StageNothing(s) \/ StageAborts(s)
      PROVE  /\ UNCHANGED clock
             /\ \A t \in Stager : stager'[t] = stager[t] \/ stager'[t].pc = "idle"
  BY <1>0, <1>3 DEF StageRow, StageNothing, StageAborts, EndStaging, Idle
<1>4. ASSUME NEW s \in Stager, StageRow(s) PROVE QuestionInv'
  <2>1. CASE stager[s].hit = NoRow
    BY <1>0, <1>4, <2>1, InsertingAsksOnce
  <2>2. CASE stager[s].hit # NoRow
    <3>1. NoNewQuestion
      BY <1>0, <1>4, <2>2, JoiningAsksNothing
    <3>2. clock <= clock'
      BY <1>0, <1>3, <1>4
    <3> QED
      BY <1>0, <1>3, <1>4, <3>1, <3>2, QuestionsShrink
  <2> QED
    BY <2>1, <2>2
<1>5. ASSUME NEW s \in Stager, StageNothing(s) \/ StageAborts(s) PROVE QuestionInv'
  <2>1. NoNewQuestion
    BY <1>2, <1>5 DEF StageNothing, StageAborts, tableVars
  <2>2. clock <= clock'
    BY <1>0, <1>3, <1>5
  <2> QED
    BY <1>0, <1>3, <1>5, <2>1, <2>2, QuestionsShrink
<1>6. CASE DecideNext
  <2>1. UNCHANGED <<stager, clock>>
    BY <1>6 DEF DecideNext, Decide, DecideBundle, Sweep, Withdraw
  <2> QED
    BY <1>0, <1>1, <1>6, <2>1, DecidingAsksNothing
<1>7. ASSUME NEW c \in Caller, CallerNext(c) PROVE QuestionInv'
  <2>1. UNCHANGED <<stager, clock>>
    BY <1>7 DEF CallerNext, AgentRedeems, ExecutorRedeems, Validate, Consume, ConsumeAndApply, Apply,
                RedemptionEnds
  <2> QED
    BY <1>0, <1>1, <1>7, <2>1, RedeemingAsksNothing
<1>8. ASSUME NEW a \in Approval, ExecutorLost(a) PROVE QuestionInv'
  BY <1>1, <1>2, <1>8 DEF ExecutorLost, tableVars
<1>9. ASSUME NEW t \in Target, TargetWrite(t) PROVE QuestionInv'
  BY <1>1, <1>2, <1>9 DEF TargetWrite, tableVars
<1>10. CASE Tick
  <2>1. NoNewQuestion /\ UNCHANGED stager
    BY <1>2, <1>10 DEF Tick, tableVars
  <2>2. clock <= clock'
    BY <1>0, <1>10 DEF Tick
  <2> QED
    BY <1>0, <2>1, <2>2, QuestionsShrink
<1>11. CASE UNCHANGED approvalVars
  BY <1>1, <1>2, <1>11 DEF approvalVars
<1>12. CASE ErasureNext
  <2>1. UNCHANGED <<stager, clock>>
    BY <1>12 DEF ErasureNext, Redact
  <2> QED
    BY <1>0, <1>1, <1>12, <2>1, ErasingAsksNothing
<1> QED
  BY <1>4, <1>5, <1>6, <1>7, <1>8, <1>9, <1>10, <1>11, <1>12, ProbeKeepsQuestions
     DEF ApprovalsNext, StagerNext, QuestionInv

\* The invariant of the inbox holds throughout.
LEMMA InboxIsSafe == ApprovalsSpec => []QuestionInv
<1>1. ApprovalsInit => QuestionInv
  <2> SUFFICES ASSUME ApprovalsInit PROVE QuestionInv
    OBVIOUS
  <2>1. /\ \A s \in Stager : stager[s].pc = "idle"
        /\ \A a \in Approval : row[a].status = "absent"
    BY DEF ApprovalsInit, Idle, AbsentRow
  <2>2. StagingInv
    BY <2>1, InitTypeOK DEF StagingInv, JoinsWhatItHolds
  <2> QED
    BY <2>1, <2>2 DEF QuestionInv, ProbedInThePast, IdentitiesApart, PendingAsAsked, NewCallsAreNew,
                      OneLiveQuestion, LivePending
<1> QED
  BY <1>1, QuestionStep, PTL DEF ApprovalsSpec

\* The inbox never holds two live questions about one thing (the identity lock,
\* lockPendingUnderIdentity and liveApprovalForCallInTx).
THEOREM QuestionsAreAskedOnce == ApprovalsSpec => []OneLiveQuestion
<1>1. QuestionInv => OneLiveQuestion
  BY DEF QuestionInv
<1> QED
  BY <1>1, InboxIsSafe, PTL

-----------------------------------------------------------------------------
(* What a human refused. *)

\* A kind staged by StageUnlessDeclined is staged in no way that ignores its
\* identity: each such kind of the code (org_name_promotion, lifecycle_change,
\* project_attribution, the LinkedIn match, quota_release) has one stager.
OffersGoByIdentity ==
    \A q, r \in Request : r.op = "unless" /\ q.kind = r.kind => ByIdentity(q)

\* Until a staging that found no refusal is done, nobody refuses an offer of its
\* identity: it holds those there are, and nobody adds one.
RefusalsWait ==
    \A s \in Stager :
        stager[s].pc = "probed" /\ stager[s].req.op = "unless" /\ ~stager[s].declined =>
            \A a \in Approval :
                SameIdentity(a, stager[s].req) =>
                    /\ row[a].status # "rejected"
                    /\ a \in stager[s].locks \/ row[a].status = "approved"

\* A row that is recognised as an offer by no identity it was not one by before:
\* request and payload stay, and a blanked payload does not come back.
KeepsItsOffer(a) ==
    /\ row'[a].req = row[a].req /\ row'[a].change = row[a].change
    /\ row[a].erased => row'[a].erased

\* A step that starts no staging keeps the invariant if every row keeps its
\* status and payload, is approved, lapses, or is refused while nobody holds it.
LEMMA RefusalStep ==
    ASSUME RefusalsWait,
           \A s \in Stager : stager'[s] = stager[s] \/ stager'[s].pc = "idle",
           \A a \in Approval :
              \/ KeepsItsOffer(a) /\ row'[a].status = row[a].status
              \/ KeepsItsOffer(a) /\ row[a].status = "pending" /\ row'[a].status = "expired"
              \/ row'[a].status = "approved"
              \/ KeepsItsOffer(a) /\ row[a].status = "pending" /\ ~RowLocked(a)
    PROVE  RefusalsWait'
<1> SUFFICES ASSUME NEW s \in Stager, stager'[s].pc = "probed", stager'[s].req.op = "unless",
                    ~stager'[s].declined, NEW a \in Approval, SameIdentity(a, stager[s].req)'
             PROVE  /\ row'[a].status # "rejected"
                    /\ a \in stager'[s].locks \/ row'[a].status = "approved"
  BY DEF RefusalsWait
<1>1. stager'[s] = stager[s]
  OBVIOUS
<1>2. CASE row'[a].status = "approved"
  BY <1>2
<1>3. CASE row'[a].status # "approved"
  <2>1. KeepsItsOffer(a)
    BY <1>3
  <2>2. row[a].status = "absent" => row'[a].status = "absent"
    BY <1>3
  <2>3. SameIdentity(a, stager[s].req)
    BY <1>1, <2>1, <2>2 DEF SameIdentity, SameSubject, KeepsItsOffer
  <2>4. row[a].status # "rejected" /\ (a \in stager[s].locks \/ row[a].status = "approved")
    BY <1>1, <2>3 DEF RefusalsWait
  <2>5. row[a].status = "pending" => RowLocked(a)
    BY <1>1, <2>4 DEF RowLocked
  <2> QED
    BY <1>1, <1>3, <2>4, <2>5
<1> QED
  BY <1>2, <1>3

\* A probe that finds no refusal holds every prior offer (lockAllUnderIdentity).
LEMMA ProbeHoldsPriorOffers ==
    ASSUME ApprovalsTypeOK, RefusalsWait, NEW s \in Stager, NEW req \in Request, Probe(s, req)
    PROVE  RefusalsWait'
<1>1. PICK appNow \in AppNow :
        stager' = [stager EXCEPT ![s] =
          [pc |-> "probed", req |-> req, at |-> clock, hit |-> ProbeHit(req, clock, appNow),
           locks |-> ProbeLocks(req, clock), declined |-> Declined(req)]]
  BY DEF Probe
<1>2. /\ stager'[s].req = req /\ stager'[s].locks = ProbeLocks(req, clock)
      /\ stager'[s].declined = Declined(req)
      /\ \A t \in Stager \ {s} : stager'[t] = stager[t]
      /\ UNCHANGED row
  BY <1>1 DEF Probe, ApprovalsTypeOK, tableVars
<1>3. ASSUME req.op = "unless", ~Declined(req), NEW a \in Approval, SameIdentity(a, req)
      PROVE  row[a].status # "rejected" /\ a \in ProbeLocks(req, clock)
  <2>1. a \in PriorOffers(req)
    BY <1>3 DEF PriorOffers
  <2> QED
    BY <1>3, <2>1 DEF Declined, ProbeLocks
<1>4. \A a \in Approval : \A r : SameIdentity(a, r)' <=> SameIdentity(a, r)
  BY <1>2 DEF SameIdentity, SameSubject
<1> QED
  BY <1>2, <1>3, <1>4 DEF RefusalsWait

\* A staging adds no offer to an identity another is asking about, and refuses
\* nothing.
LEMMA StagingRefusesNothing ==
    ASSUME OffersGoByIdentity, QuestionInv, RefusalsWait, NEW s \in Stager, StageRow(s)
    PROVE  RefusalsWait'
<1>0. /\ \A a \in Approval : row[a] \in RowType
      /\ stager \in [Stager -> StagerType] /\ stager[s].pc = "probed"
      /\ version \in [Target -> Nat]
  BY DEF QuestionInv, StagingInv, ApprovalsTypeOK, StageRow
<1>1. PICK req \in Request, now \in Nat : req = stager[s].req /\ now = stager[s].at
  BY <1>0 DEF StagerType
<1>2. PICK a \in Approval :
        /\ IF stager[s].hit = NoRow THEN FreshRow(a) ELSE a = stager[s].hit
        /\ row' = [b \in Approval |->
                     IF b \in Supersedes(req, a, now) THEN Lapsed(row[b], now)
                     ELSE IF b # a THEN row[b]
                     ELSE IF stager[s].hit = NoRow THEN NewRow(req, now)
                     ELSE Rebundled(row[b], req)]
  BY <1>1 DEF StageRow
<1>3. a \notin Supersedes(req, a, now)
  BY DEF Supersedes
<1>4. \A t \in Stager : stager'[t] = stager[t] \/ stager'[t].pc = "idle"
  BY <1>0 DEF StageRow, EndStaging, Idle
<1>5. ASSUME NEW b \in Approval, b \in Supersedes(req, a, now)
      PROVE  KeepsItsOffer(b) /\ row[b].status = "pending" /\ row'[b].status = "expired"
  <2>1. /\ Lapsed(row[b], now).req = row[b].req /\ Lapsed(row[b], now).change = row[b].change
        /\ Lapsed(row[b], now).status = "expired" /\ Lapsed(row[b], now).erased = row[b].erased
    BY <1>0, LapsedFields
  <2> QED
    BY <1>2, <1>5, <2>1 DEF Supersedes, LivePending, KeepsItsOffer
<1>6. CASE stager[s].hit # NoRow
  <2>1. KeepsItsOffer(a) /\ row'[a].status = row[a].status
    BY <1>0, <1>1, <1>2, <1>3, <1>6, RebundledFields DEF KeepsItsOffer
  <2>2. \A b \in Approval : b # a /\ b \notin Supersedes(req, a, now) =>
          KeepsItsOffer(b) /\ row'[b].status = row[b].status
    BY <1>2 DEF KeepsItsOffer
  <2> QED
    BY <1>4, <1>5, <2>1, <2>2, RefusalStep
<1>7. CASE stager[s].hit = NoRow
  <2>1. /\ NewRow(req, now).status = "pending" /\ NewRow(req, now).req = req
        /\ NewRow(req, now).change = req.change
    <3>1. now \in Int
      BY <1>1
    <3> QED
      BY <1>0, <3>1, NewRowFields
  <2>2. row'[a] = NewRow(req, now)
    BY <1>2, <1>3, <1>7
  <2> SUFFICES ASSUME NEW t \in Stager, stager'[t].pc = "probed", stager'[t].req.op = "unless",
                      ~stager'[t].declined, NEW b \in Approval, SameIdentity(b, stager[t].req)'
               PROVE  /\ row'[b].status # "rejected"
                      /\ b \in stager'[t].locks \/ row'[b].status = "approved"
    BY DEF RefusalsWait
  <2>3. stager'[t] = stager[t] /\ t # s
    BY <1>0, <1>4 DEF StageRow, EndStaging, Idle
  <2>4. CASE b = a
    <3>1. /\ req.kind = stager[t].req.kind /\ req.target = stager[t].req.target
          /\ Identity[req.change] = Identity[stager[t].req.change]
      BY <2>1, <2>2, <2>3, <2>4 DEF SameIdentity, SameSubject
    <3>2. stager[t].req \in Request
      BY <1>0, <2>3 DEF StagerType
    <3>3. ByIdentity(req) /\ ByIdentity(stager[t].req) /\ req.op # "create"
      BY <2>3, <3>1, <3>2 DEF OffersGoByIdentity, ByIdentity
    <3>4. LockKey(req) = LockKey(stager[t].req)
      BY <3>1, <3>3 DEF LockKey
    <3> QED
      BY <1>0, <1>1, <2>3, <3>3, <3>4 DEF QuestionInv, IdentitiesApart
  <2>5. CASE b # a
    <3>1. row'[b] = row[b] \/ b \in Supersedes(req, a, now)
      BY <1>2, <2>5
    <3>2. /\ KeepsItsOffer(b)
          /\ row'[b].status = row[b].status
             \/ (row[b].status = "pending" /\ row'[b].status = "expired")
      BY <1>5, <3>1 DEF KeepsItsOffer
    <3>3. SameIdentity(b, stager[t].req)
      BY <2>3, <3>2 DEF SameIdentity, SameSubject, KeepsItsOffer
    <3>4. row[b].status # "rejected" /\ (b \in stager[t].locks \/ row[b].status = "approved")
      BY <2>3, <3>3 DEF RefusalsWait
    <3> QED
      BY <2>3, <3>2, <3>4
  <2> QED
    BY <2>4, <2>5
<1> QED
  BY <1>6, <1>7

\* A decision takes no row a staging holds (FOR UPDATE in decideInTx).
LEMMA DecidingRefusesTheFree ==
    ASSUME ApprovalsTypeOK, RefusalsWait, DecideNext
    PROVE  RefusalsWait'
<1>0. /\ row \in [Approval -> RowType]
      /\ \A a \in Approval : row[a] \in RowType /\ row[a].change \in Change \cup {Nothing}
      /\ Verdict \subseteq Settled /\ "expired" \in Settled
      /\ clock \in Nat /\ clock \in Int
  BY DEF ApprovalsTypeOK, Verdict, Settled, RowType
<1>1. UNCHANGED stager
  BY DEF DecideNext, Decide, DecideBundle, Sweep, Withdraw
<1>2. ASSUME NEW a \in Approval, NEW status \in Settled, NEW change \in Change \cup {Nothing}
      PROVE  /\ Decided(row[a], status, change).status = status
             /\ Decided(row[a], status, change).req = row[a].req
             /\ Decided(row[a], status, change).change = change
             /\ Decided(row[a], status, change).erased = row[a].erased
  BY <1>0, DecidedFields
<1>3. \A a \in Approval : \A who, verdict, now :
        Decidable(a, who, verdict, now) => row[a].status = "pending" /\ ~RowLocked(a)
  BY DEF Decidable, EffectiveStatus
<1>4. ASSUME NEW a \in Approval, NEW who \in Decider, NEW verdict \in Verdict, NEW change \in Change,
             Decide(a, who, verdict, change)
      PROVE  RefusalsWait'
  <2>1. /\ row' = [row EXCEPT ![a] = Decided(row[a], verdict, change)]
        /\ change # row[a].change => verdict = "approved"
    BY <1>4 DEF Decide
  <2>2. row[a].status = "pending" /\ ~RowLocked(a)
    BY <1>3, <1>4 DEF Decide
  <2>3. row'[a].status = "approved" \/ KeepsItsOffer(a)
    BY <1>0, <1>2, <2>1 DEF KeepsItsOffer
  <2>4. \A b \in Approval \ {a} : KeepsItsOffer(b) /\ row'[b].status = row[b].status
    BY <1>0, <2>1 DEF KeepsItsOffer
  <2> QED
    BY <1>1, <2>2, <2>3, <2>4, RefusalStep
<1>5. ASSUME NEW b \in Bundle, NEW who \in Decider, NEW verdict \in Verdict,
             DecideBundle(b, who, verdict)
      PROVE  RefusalsWait'
  <2>1. PICK now \in AppNow :
          row' = [a \in Approval |->
                    IF a \in {x \in Members(b) : Decidable(x, who, verdict, now)}
                    THEN Decided(row[a], verdict, row[a].change) ELSE row[a]]
    BY <1>5 DEF DecideBundle
  <2>2. ASSUME NEW a \in Approval, row'[a] # row[a]
        PROVE  KeepsItsOffer(a) /\ row[a].status = "pending" /\ ~RowLocked(a)
    <3>1. Decidable(a, who, verdict, now) /\ row'[a] = Decided(row[a], verdict, row[a].change)
      BY <2>1, <2>2
    <3> QED
      BY <1>0, <1>2, <1>3, <3>1 DEF KeepsItsOffer
  <2>3. \A a \in Approval : row'[a] = row[a] => KeepsItsOffer(a) /\ row'[a].status = row[a].status
    BY DEF KeepsItsOffer
  <2> QED
    BY <1>1, <2>2, <2>3, RefusalStep
<1>6. ASSUME NEW a \in Approval, Sweep(a) PROVE RefusalsWait'
  <2>1. row' = [row EXCEPT ![a] = Decided(row[a], "expired", row[a].change)]
    BY <1>6 DEF Sweep
  <2>2. KeepsItsOffer(a)
    BY <1>0, <1>2, <2>1 DEF KeepsItsOffer
  <2>3. /\ row[a].status = "pending" /\ ~RowLocked(a)
        /\ \A b \in Approval \ {a} : KeepsItsOffer(b) /\ row'[b].status = row[b].status
    BY <1>0, <1>6, <2>1 DEF Sweep, KeepsItsOffer
  <2> QED
    BY <1>1, <2>2, <2>3, RefusalStep
<1>7. ASSUME NEW a \in Approval, Withdraw(a) PROVE RefusalsWait'
  <2>1. row' = [row EXCEPT ![a] = Lapsed(row[a], clock)]
    BY <1>7 DEF Withdraw
  <2>2. KeepsItsOffer(a)
    BY <1>0, <2>1, LapsedFields DEF KeepsItsOffer
  <2>3. /\ row[a].status = "pending" /\ ~RowLocked(a)
        /\ \A b \in Approval \ {a} : KeepsItsOffer(b) /\ row'[b].status = row[b].status
    BY <1>0, <1>7, <2>1 DEF Withdraw, KeepsItsOffer
  <2> QED
    BY <1>1, <2>2, <2>3, RefusalStep
<1> QED
  BY <1>4, <1>5, <1>6, <1>7 DEF DecideNext

\* Every other step leaves offers and their refusals as they are.
LEMMA RefusalNext ==
    ASSUME OffersGoByIdentity, QuestionInv, RefusalsWait, [ApprovalsNext]_approvalVars
    PROVE  RefusalsWait'
<1>0. ApprovalsTypeOK /\ stager \in [Stager -> StagerType]
  BY DEF QuestionInv, StagingInv, ApprovalsTypeOK
<1>1. ASSUME UNCHANGED row, \A s \in Stager : stager'[s] = stager[s] \/ stager'[s].pc = "idle"
      PROVE  RefusalsWait'
  BY <1>1, RefusalStep DEF KeepsItsOffer
<1>2. ASSUME NEW s \in Stager, StageNothing(s) \/ StageAborts(s) PROVE RefusalsWait'
  BY <1>0, <1>1, <1>2 DEF StageNothing, StageAborts, EndStaging, Idle, tableVars
<1>3. ASSUME NEW c \in Caller, CallerNext(c) PROVE RefusalsWait'
  <2>1. UNCHANGED stager /\ (UNCHANGED row \/ (caller[c].pc = "validated" /\ SpendRow(caller[c].id)))
    BY <1>3 DEF CallerNext, AgentRedeems, ExecutorRedeems, Validate, Consume, ConsumeAndApply, Apply,
                RedemptionEnds, Consumable, tableVars
  <2>2. ASSUME caller[c].pc = "validated", SpendRow(caller[c].id) PROVE RefusalsWait'
    <3>1. caller[c].id \in Approval
      BY <1>0, <2>2, CallerFields
    <3>2. \A a \in Approval : KeepsItsOffer(a) /\ row'[a].status = row[a].status
      BY <1>0, <2>2, <3>1, SpendRowFields DEF KeepsItsOffer
    <3> QED
      BY <2>1, <3>2, RefusalStep
  <2> QED
    BY <1>1, <2>1, <2>2
<1>4. ASSUME NEW a \in Approval, ExecutorLost(a) PROVE RefusalsWait'
  BY <1>1, <1>4 DEF ExecutorLost, tableVars
<1>5. ASSUME NEW t \in Target, TargetWrite(t) PROVE RefusalsWait'
  BY <1>1, <1>5 DEF TargetWrite, tableVars
<1>6. Tick \/ UNCHANGED approvalVars => RefusalsWait'
  BY <1>1 DEF Tick, approvalVars, tableVars
<1>7. CASE ErasureNext
  <2>1. row \in [Approval -> RowType] /\ clock \in Nat
    BY <1>0 DEF ApprovalsTypeOK
  <2>2. /\ UNCHANGED stager
        /\ \A a \in Approval :
             /\ KeepsItsOffer(a)
             /\ \/ row'[a].status = row[a].status
                \/ row[a].status = "pending" /\ row'[a].status = "expired"
    BY <1>7, <2>1, ErasureStep DEF TakenByErasure, KeepsItsOffer
  <2> QED
    BY <2>2, RefusalStep
<1> QED
  BY <1>0, <1>2, <1>3, <1>4, <1>5, <1>6, <1>7, ProbeHoldsPriorOffers, StagingRefusesNothing,
     DecidingRefusesTheFree
     DEF ApprovalsNext, StagerNext

\* What a human refused is never offered again, whatever stagings race with the
\* refusal (StageUnlessDeclined reads the refusals under the identity lock).
RefusalRemembered ==
    \A a \in Approval :
        row[a].status = "absent" /\ row'[a].status # "absent" /\ row'[a].req.op = "unless" =>
            ~Declined(row'[a].req)

\* Only an insertion fills an absent row.
LEMMA OnlyInsertionsFill ==
    ASSUME QuestionInv, ApprovalsNext, NEW a \in Approval,
           row[a].status = "absent", row'[a].status # "absent"
    PROVE  \E s \in Stager : /\ StageRow(s) /\ stager[s].hit = NoRow
                             /\ row'[a].req = stager[s].req
<1>0. /\ ApprovalsTypeOK /\ row \in [Approval -> RowType]
      /\ \A b \in Approval : row[b] \in RowType
      /\ stager \in [Stager -> StagerType] /\ version \in [Target -> Nat]
  BY DEF QuestionInv, StagingInv, ApprovalsTypeOK
<1>1. row' # row
  OBVIOUS
<1>2. ~DecideNext
  <2>1. \A b \in Approval, who \in Decider, verdict \in Verdict, change \in Change :
          ~Decide(b, who, verdict, change)
    BY <1>0 DEF Decide, Decidable
  <2>2. \A b \in Bundle, who \in Decider, verdict \in Verdict : ~DecideBundle(b, who, verdict)
    BY <1>0 DEF DecideBundle, Members
  <2>3. \A b \in Approval : ~Sweep(b) /\ ~Withdraw(b)
    BY <1>0 DEF Sweep, Withdraw
  <2> QED
    BY <2>1, <2>2, <2>3 DEF DecideNext
<1>3. \A c \in Caller : ~CallerNext(c)
  <2>1. ASSUME NEW c \in Caller, CallerNext(c) PROVE FALSE
    <3>1. UNCHANGED row \/ (caller[c].pc = "validated" /\ SpendRow(caller[c].id))
      BY <2>1 DEF CallerNext, AgentRedeems, ExecutorRedeems, Validate, Consume, ConsumeAndApply, Apply,
                  RedemptionEnds, Consumable, tableVars
    <3>2. caller[c].pc = "validated" /\ SpendRow(caller[c].id)
      BY <1>1, <3>1
    <3>3. caller[c].id \in Approval
      BY <1>0, <3>2, CallerFields
    <3> QED
      BY <1>0, <3>2, <3>3, SpendRowFields
  <2> QED
    BY <2>1
<1>4. PICK s \in Stager : StageRow(s)
  <2>1. \A b \in Approval : ~ExecutorLost(b)
    BY <1>1 DEF ExecutorLost, tableVars
  <2>2. \A t \in Target : ~TargetWrite(t)
    BY <1>1 DEF TargetWrite, tableVars
  <2>3. ~Tick
    BY <1>1 DEF Tick, tableVars
  <2>4. \A s \in Stager : ~StageNothing(s) /\ ~StageAborts(s) /\ \A req \in Request : ~Probe(s, req)
    BY <1>1 DEF StageNothing, StageAborts, Probe, tableVars
  <2>5. ~ErasureNext
    <3>1. row \in [Approval -> RowType] /\ clock \in Nat
      BY <1>0 DEF ApprovalsTypeOK
    <3> QED
      BY <3>1, ErasureStep DEF TakenByErasure
  <2> QED
    BY <1>2, <1>3, <2>1, <2>2, <2>3, <2>4, <2>5 DEF ApprovalsNext, StagerNext
<1>5. PICK req \in Request, now \in Nat : req = stager[s].req /\ now = stager[s].at
  BY <1>0, <1>4 DEF StagerType, StageRow
<1>6. PICK b \in Approval :
        /\ IF stager[s].hit = NoRow THEN FreshRow(b) ELSE b = stager[s].hit
        /\ row' = [x \in Approval |->
                     IF x \in Supersedes(req, b, now) THEN Lapsed(row[x], now)
                     ELSE IF x # b THEN row[x]
                     ELSE IF stager[s].hit = NoRow THEN NewRow(req, now)
                     ELSE Rebundled(row[x], req)]
  BY <1>4, <1>5 DEF StageRow
<1>7. a \notin Supersedes(req, b, now)
  BY DEF Supersedes, LivePending
<1>8. a = b
  BY <1>6, <1>7
<1>9. stager[s].hit = NoRow
  <2>1. ASSUME stager[s].hit # NoRow PROVE FALSE
    <3>1. row'[a] = Rebundled(row[a], req)
      BY <1>6, <1>7, <1>8, <2>1
    <3>2. Rebundled(row[a], req).status = row[a].status
      BY <1>0, RebundledFields
    <3> QED
      BY <3>1, <3>2
  <2> QED
    BY <2>1
<1>10. row'[a] = NewRow(req, now)
  BY <1>6, <1>7, <1>8, <1>9
<1>11. NewRow(req, now).req = req
  <2>1. now \in Int
    BY <1>5
  <2> QED
    BY <1>0, <2>1, NewRowFields
<1> QED
  BY <1>4, <1>5, <1>9, <1>10, <1>11

\* Where offers go by identity, as in the code and in the staging run, what a
\* human refused is not offered again.
THEOREM RefusalsAreRemembered ==
    ASSUME OffersGoByIdentity
    PROVE  ApprovalsSpec => DeclinedIsRemembered
<1>1. ApprovalsInit => RefusalsWait
  <2> SUFFICES ASSUME ApprovalsInit PROVE RefusalsWait
    OBVIOUS
  <2>1. \A s \in Stager : stager[s].pc = "idle"
    BY DEF ApprovalsInit, Idle
  <2> QED
    BY <2>1 DEF RefusalsWait
<1>2. QuestionInv /\ RefusalsWait /\ [ApprovalsNext]_approvalVars => RefusalsWait'
  BY RefusalNext
<1>3. QuestionInv /\ RefusalsWait /\ [ApprovalsNext]_approvalVars => [RefusalRemembered]_approvalVars
  <2> SUFFICES ASSUME QuestionInv, RefusalsWait, ApprovalsNext PROVE RefusalRemembered
    BY DEF approvalVars
  <2> SUFFICES ASSUME NEW a \in Approval, row[a].status = "absent", row'[a].status # "absent",
                      row'[a].req.op = "unless"
               PROVE  ~Declined(row'[a].req)
    BY DEF RefusalRemembered
  <2>1. PICK s \in Stager : StageRow(s) /\ row'[a].req = stager[s].req
    BY OnlyInsertionsFill
  <2>2. stager[s].pc = "probed" /\ ~stager[s].declined /\ stager[s].req.op = "unless"
    BY <2>1 DEF StageRow
  <2>3. \A b \in PriorOffers(stager[s].req) : row[b].status # "rejected"
    BY <2>2 DEF PriorOffers, RefusalsWait
  <2> QED
    BY <2>1, <2>3 DEF Declined
<1>4. [RefusalRemembered]_approvalVars =>
        [\A a \in Approval :
           row[a].status = "absent" /\ row'[a].status # "absent" /\ row'[a].req.op = "unless" =>
              ~Declined(row'[a].req)]_approvalVars
  BY DEF RefusalRemembered
<1> QED
  BY <1>1, <1>2, <1>3, <1>4, InboxIsSafe, PTL DEF ApprovalsSpec, DeclinedIsRemembered

-----------------------------------------------------------------------------
(* The engine implements the authority object: each of its steps is a step *)
(* of Authority on the lives of the approvals, or leaves them all alone.   *)

RefinementInv == RedemptionInv /\ StagingInv

\* A row that is not approved is unspent, and its life is its status.
LEMMA LifeOfUnapproved ==
    ASSUME RefinementInv, NEW a \in Approval
    PROVE  /\ lives[a] = LifeOf(a)
           /\ row[a].status = "absent" => lives[a] = "none"
           /\ row[a].status = "pending" => lives[a] = "open" /\ ~row[a].consumed
           /\ row[a].status = "approved" /\ ~row[a].consumed => lives[a] = "granted"
           /\ row[a].status = "approved" /\ row[a].consumed /\ applied[a] = 0 => lives[a] = "spent"
  BY DEF lives, LifeOf, RefinementInv, RedemptionInv, SpentBeforeApplied

\* A life changes only with its row or its effect.
LEMMA SameRowSameLife ==
    ASSUME NEW a \in Approval, row'[a] = row[a], applied'[a] = applied[a]
    PROVE  lives'[a] = lives[a]
  BY DEF lives, LifeOf

\* Steps that touch neither rows nor effects are invisible.
LEMMA InvisibleStep ==
    ASSUME UNCHANGED <<row, applied>>
    PROVE  UNCHANGED lives
  BY DEF lives, LifeOf

\* What a set of rows does in one step is one move of the authority object.
LEMMA MoveOf ==
    ASSUME NEW S \in SUBSET Approval, NEW from, NEW to,
           \A a \in S : lives[a] = from /\ lives'[a] = to,
           \A a \in Approval \ S : lives'[a] = lives[a]
    PROVE  Abstract!Move(S, from, to)
<1>1. lives' = [a \in Approval |-> lives'[a]]
  BY DEF lives
<1>2. lives' = [a \in Approval |-> IF a \in S THEN to ELSE lives[a]]
  BY <1>1
<1> QED
  BY <1>2 DEF Abstract!Move

\* Staging asks a new question, closing those it replaces, or only closes.
LEMMA StageRowRefines ==
    ASSUME RefinementInv, NEW s \in Stager, StageRow(s)
    PROVE  [Abstract!AuthorityNext]_lives
<1> DEFINE req == stager[s].req
           now == stager[s].at
<1>0. /\ req \in Request /\ now \in Int /\ version \in [Target -> Nat]
      /\ \A b \in Approval : row[b] \in RowType
  BY DEF StageRow, RefinementInv, RedemptionInv, ApprovalsTypeOK, StagerType
<1>1. PICK a \in Approval :
        /\ IF stager[s].hit = NoRow THEN FreshRow(a) ELSE a = stager[s].hit
        /\ row' = [b \in Approval |->
                     IF b \in Supersedes(req, a, now) THEN Lapsed(row[b], now)
                     ELSE IF b # a THEN row[b]
                     ELSE IF stager[s].hit = NoRow THEN NewRow(req, now)
                     ELSE Rebundled(row[b], req)]
  BY DEF StageRow
<1> DEFINE gone == Supersedes(req, a, now)
<1>2. gone \in SUBSET Approval /\ a \notin gone /\ \A b \in gone : row[b].status = "pending"
  BY DEF Supersedes, LivePending
<1>3. applied' = applied
  BY DEF StageRow, effectVars
<1> HIDE DEF req, now, gone
<1>4. ASSUME NEW b \in gone PROVE lives[b] = "open" /\ lives'[b] = "closed"
  <2>1. row'[b] = Lapsed(row[b], now)
    BY <1>1, <1>2 DEF gone
  <2>2. row'[b].status = "expired"
    BY <1>0, <1>2, <2>1, LapsedFields
  <2> QED
    BY <1>2, <2>2, LifeOfUnapproved DEF lives, LifeOf
<1>5. ASSUME NEW b \in Approval, b # a, b \notin gone PROVE lives'[b] = lives[b]
  BY <1>1, <1>3, <1>5, SameRowSameLife DEF gone
<1>6. CASE stager[s].hit = NoRow
  <2>1. row[a].status = "absent" /\ row'[a].status = "pending"
    BY <1>0, <1>1, <1>2, <1>6, NewRowFields DEF FreshRow, gone
  <2>2. lives[a] = "none" /\ lives'[a] = "open"
    BY <2>1 DEF lives, LifeOf
  <2>3. lives' = [b \in Approval |-> lives'[b]]
    BY DEF lives
  <2>4. lives' = [b \in Approval |->
                    IF b = a THEN "open" ELSE IF b \in gone THEN "closed" ELSE lives[b]]
    BY <1>4, <1>5, <2>2, <2>3
  <2>5. Abstract!Ask(a, gone)
    BY <1>4, <2>2, <2>4 DEF Abstract!Ask
  <2> QED
    BY <1>2, <2>5 DEF Abstract!AuthorityNext
<1>7. CASE stager[s].hit # NoRow
  <2>1. row[a].status = "pending" /\ row'[a].status = "pending"
    <3>1. row[a].status = "pending"
      BY <1>1, <1>7 DEF StageRow, RefinementInv, StagingInv, JoinsWhatItHolds
    <3>2. row'[a] = Rebundled(row[a], req)
      BY <1>1, <1>2, <1>7 DEF gone
    <3> QED
      BY <1>0, <3>1, <3>2, RebundledFields
  <2>2. lives'[a] = lives[a]
    BY <2>1 DEF lives, LifeOf
  <2>3. Abstract!Move(gone, "open", "closed")
    BY <1>2, <1>4, <1>5, <2>2, MoveOf
  <2> QED
    BY <1>2, <2>3 DEF Abstract!AuthorityNext, Abstract!Close
<1> QED
  BY <1>6, <1>7

\* A verdict on a set of pending rows grants or closes them together.
LEMMA VerdictRefines ==
    ASSUME RefinementInv, NEW S \in SUBSET Approval, NEW verdict \in Settled,
           \A a \in S : /\ row[a].status = "pending"
                        /\ row'[a].status = verdict
                        /\ row'[a].consumed = row[a].consumed,
           \A a \in Approval \ S : row'[a] = row[a],
           UNCHANGED applied
    PROVE  Abstract!AuthorityNext
<1> DEFINE to == IF verdict = "approved" THEN "granted" ELSE "closed"
<1>1. \A a \in S : lives[a] = "open" /\ lives'[a] = to
  BY LifeOfUnapproved DEF lives, LifeOf, Settled
<1>2. \A a \in Approval \ S : lives'[a] = lives[a]
  BY SameRowSameLife
<1>3. Abstract!Move(S, "open", to)
  BY <1>1, <1>2, MoveOf
<1> QED
  BY <1>3 DEF Abstract!AuthorityNext, Abstract!Grant, Abstract!Close

\* The same for the one row of a decision, a sweep or a withdrawal.
LEMMA VerdictOnOne ==
    ASSUME RefinementInv, NEW a \in Approval, NEW verdict \in Settled,
           row[a].status = "pending", row'[a].status = verdict, row'[a].consumed = row[a].consumed,
           \A b \in Approval \ {a} : row'[b] = row[b],
           UNCHANGED applied
    PROVE  Abstract!AuthorityNext
<1> DEFINE S == {a}
<1>1. S \in SUBSET Approval
  OBVIOUS
<1>2. \A b \in S : /\ row[b].status = "pending" /\ row'[b].status = verdict
                    /\ row'[b].consumed = row[b].consumed
  OBVIOUS
<1>3. \A b \in Approval \ S : row'[b] = row[b]
  OBVIOUS
<1> HIDE DEF S
<1> QED
  BY <1>1, <1>2, <1>3, VerdictRefines

\* Deciding, sweeping and withdrawing settle pending rows.
LEMMA DecidingRefines ==
    ASSUME RefinementInv, DecideNext
    PROVE  [Abstract!AuthorityNext]_lives
<1>0. /\ \A a \in Approval : row[a] \in RowType
      /\ row \in [Approval -> RowType]
      /\ clock \in Nat /\ clock \in Int
  BY DEF RefinementInv, RedemptionInv, ApprovalsTypeOK
<1>1. Verdict \subseteq Settled /\ "expired" \in Settled
  BY DEF Verdict, Settled
<1>2. \A a \in Approval : \A who, verdict, now :
        Decidable(a, who, verdict, now) =>
           row[a].status = "pending" /\ row[a].change \in Change
  BY DEF Decidable, EffectiveStatus, RefinementInv, RedemptionInv, ApprovalsTypeOK, Filled
<1>3. ASSUME NEW a \in Approval, NEW who \in Decider, NEW verdict \in Verdict, NEW change \in Change,
             Decide(a, who, verdict, change)
      PROVE  Abstract!AuthorityNext
  <2>1. row[a].status = "pending" /\ UNCHANGED applied
    BY <1>2, <1>3 DEF Decide, effectVars
  <2>2. /\ row'[a].status = verdict /\ row'[a].consumed = row[a].consumed
        /\ \A b \in Approval \ {a} : row'[b] = row[b]
    BY <1>0, <1>1, <1>3, DecidedFields DEF Decide
  <2> QED
    BY <1>1, <2>1, <2>2, VerdictOnOne
<1>4. ASSUME NEW b \in Bundle, NEW who \in Decider, NEW verdict \in Verdict,
             DecideBundle(b, who, verdict)
      PROVE  Abstract!AuthorityNext
  <2>1. PICK now \in AppNow :
          row' = [a \in Approval |->
                    IF a \in {x \in Members(b) : Decidable(x, who, verdict, now)}
                    THEN Decided(row[a], verdict, row[a].change) ELSE row[a]]
    BY <1>4 DEF DecideBundle
  <2> DEFINE S == {x \in Members(b) : Decidable(x, who, verdict, now)}
  <2>2. S \in SUBSET Approval
    BY DEF Members
  <2>3. \A a \in S : row[a].status = "pending" /\ row[a].change \in Change
    BY <1>2, <2>2
  <2>4. \A a \in S : row'[a] = Decided(row[a], verdict, row[a].change)
    BY <2>1, <2>2
  <2>5. \A a \in Approval \ S : row'[a] = row[a]
    BY <2>1
  <2> HIDE DEF S
  <2>6. \A a \in S : row'[a].status = verdict /\ row'[a].consumed = row[a].consumed
    BY <1>0, <1>1, <2>2, <2>3, <2>4, DecidedFields
  <2>7. UNCHANGED applied
    BY <1>4 DEF DecideBundle, effectVars
  <2> QED
    BY <1>1, <2>2, <2>3, <2>5, <2>6, <2>7, VerdictRefines
<1>5. ASSUME NEW a \in Approval, Sweep(a) PROVE Abstract!AuthorityNext
  <2>1. row[a].status = "pending" /\ UNCHANGED applied /\ row[a].change \in Change
    BY <1>5 DEF Sweep, effectVars, RefinementInv, RedemptionInv, ApprovalsTypeOK, Filled
  <2>2. /\ row'[a].status = "expired" /\ row'[a].consumed = row[a].consumed
        /\ \A b \in Approval \ {a} : row'[b] = row[b]
    BY <1>0, <1>1, <1>5, <2>1, DecidedFields DEF Sweep
  <2> QED
    BY <1>1, <2>1, <2>2, VerdictOnOne
<1>6. ASSUME NEW a \in Approval, Withdraw(a) PROVE Abstract!AuthorityNext
  <2>1. row[a].status = "pending" /\ UNCHANGED applied
    BY <1>6 DEF Withdraw, effectVars
  <2>2. /\ row'[a].status = "expired" /\ row'[a].consumed = row[a].consumed
        /\ \A b \in Approval \ {a} : row'[b] = row[b]
    BY <1>0, <1>6, LapsedFields DEF Withdraw
  <2> QED
    BY <1>1, <2>1, <2>2, VerdictOnOne
<1> QED
  BY <1>3, <1>4, <1>5, <1>6 DEF DecideNext

\* An erasure closes the questions it takes; an authority it finds stays what it is.
LEMMA ErasingRefines ==
    ASSUME RefinementInv, ErasureNext
    PROVE  Abstract!AuthorityNext
<1> DEFINE S == {a \in Approval : row[a].status = "pending" /\ row'[a] # row[a]}
<1>0. row \in [Approval -> RowType] /\ clock \in Nat
  BY DEF RefinementInv, RedemptionInv, ApprovalsTypeOK
<1>1. /\ applied' = applied
      /\ \A a \in Approval : row'[a] = row[a] \/ TakenByErasure(a)
  BY <1>0, ErasureStep
<1>2. ASSUME NEW a \in S PROVE lives[a] = "open" /\ lives'[a] = "closed"
  <2>1. row'[a].status = "expired"
    BY <1>1 DEF TakenByErasure
  <2> QED
    BY <2>1, LifeOfUnapproved DEF lives, LifeOf
<1>3. ASSUME NEW a \in Approval \ S PROVE lives'[a] = lives[a]
  <2>1. CASE row'[a] = row[a]
    BY <1>1, <2>1, SameRowSameLife
  <2>2. CASE row'[a] # row[a]
    <3>1. row'[a].status = row[a].status /\ row'[a].consumed = row[a].consumed
      BY <1>1, <2>2 DEF TakenByErasure
    <3> QED
      BY <1>1, <3>1 DEF lives, LifeOf
  <2> QED
    BY <2>1, <2>2
<1>4. S \in SUBSET Approval
  OBVIOUS
<1> HIDE DEF S
<1>5. Abstract!Move(S, "open", "closed")
  BY <1>2, <1>3, <1>4, MoveOf
<1> QED
  BY <1>4, <1>5 DEF Abstract!AuthorityNext, Abstract!Close

\* Redemption spends a granted authority, and its effect performs a spent one.
LEMMA RedeemingRefines ==
    ASSUME RefinementInv, NEW c \in Caller, CallerNext(c)
    PROVE  [Abstract!AuthorityNext]_lives
<1> DEFINE a == caller[c].id
<1>0. ApprovalsTypeOK /\ (caller[c].pc # "idle" => a \in Approval /\ row[a].status = "approved")
  BY CallerFields DEF RefinementInv, RedemptionInv, OnlyTheApprovedCall
<1>1. CASE Consume(c) \/ (ConsumeAndApply(c) /\ UNCHANGED effectVars)
  <2>1. caller[c].pc # "idle" /\ ~row[a].consumed /\ SpendRow(a) /\ applied' = applied
    BY <1>1 DEF Consume, ConsumeAndApply, Consumable, effectVars
  <2>2. applied[a] = 0
    BY <1>0, <2>1 DEF RefinementInv, RedemptionInv, SpentBeforeApplied
  <2> HIDE DEF a
  <2>3. /\ row'[a].consumed /\ row'[a].status = "approved"
        /\ \A b \in Approval \ {a} : row'[b] = row[b]
    BY <1>0, <2>1, SpendRowFields
  <2>4. lives[a] = "granted" /\ lives'[a] = "spent"
    BY <1>0, <2>1, <2>2, <2>3 DEF lives, LifeOf
  <2>5. Abstract!Move({a}, "granted", "spent")
    BY <1>0, <2>1, <2>3, <2>4, MoveOf, SameRowSameLife
  <2> QED
    BY <1>0, <2>1, <2>5 DEF Abstract!AuthorityNext, Abstract!Spend
<1>2. CASE ConsumeAndApply(c) /\ ApplyEffect(a)
  <2>1. caller[c].pc # "idle" /\ ~row[a].consumed /\ SpendRow(a) /\ ApplyEffect(a)
    BY <1>2 DEF ConsumeAndApply, Consumable
  <2>2. applied[a] = 0
    BY <1>0, <2>1 DEF RefinementInv, RedemptionInv, SpentBeforeApplied
  <2> HIDE DEF a
  <2>3. /\ row'[a].consumed /\ row'[a].status = "approved"
        /\ \A b \in Approval \ {a} : row'[b] = row[b]
    BY <1>0, <2>1, SpendRowFields
  <2>4. applied'[a] = 1 /\ \A b \in Approval \ {a} : applied'[b] = applied[b]
    BY <1>0, <2>1, <2>2, ApplyEffectFields
  <2>5. lives[a] = "granted" /\ lives'[a] = "done"
    BY <1>0, <2>1, <2>2, <2>3, <2>4 DEF lives, LifeOf
  <2>6. Abstract!Move({a}, "granted", "done")
    BY <1>0, <2>1, <2>3, <2>4, <2>5, MoveOf, SameRowSameLife
  <2> QED
    BY <1>0, <2>1, <2>6 DEF Abstract!AuthorityNext, Abstract!SpendAndPerform
<1>3. CASE Apply(c)
  <2>1. caller[c].pc = "released" /\ ApplyEffect(a) /\ row' = row
    BY <1>3 DEF Apply, tableVars
  <2>2. row[a].consumed /\ applied[a] = 0
    BY <1>0, <2>1 DEF RefinementInv, RedemptionInv, SpentBeforeApplied
  <2> HIDE DEF a
  <2>3. applied'[a] = 1 /\ \A b \in Approval \ {a} : applied'[b] = applied[b]
    BY <1>0, <2>1, <2>2, ApplyEffectFields
  <2>4. lives[a] = "spent" /\ lives'[a] = "done"
    BY <1>0, <2>1, <2>2, <2>3 DEF lives, LifeOf
  <2>5. Abstract!Move({a}, "spent", "done")
    BY <1>0, <2>1, <2>3, <2>4, MoveOf, SameRowSameLife
  <2> QED
    BY <1>0, <2>1, <2>5 DEF Abstract!AuthorityNext, Abstract!Perform
<1>4. ASSUME NEW x \in Approval, NEW by, NEW hash, Validate(c, x, by, hash) PROVE UNCHANGED lives
  BY <1>4, InvisibleStep DEF Validate, tableVars, effectVars
<1>5. RedemptionEnds(c) => UNCHANGED lives
  BY InvisibleStep DEF RedemptionEnds, tableVars, effectVars
<1>6. ConsumeAndApply(c) => ApplyEffect(a) \/ UNCHANGED effectVars
  BY DEF ConsumeAndApply
<1> QED
  BY <1>1, <1>2, <1>3, <1>4, <1>5, <1>6 DEF CallerNext, AgentRedeems, ExecutorRedeems

\* The engine implements the authority object: asked, settled, spent and
\* performed at most once each, in that order (the whole approvals module).
THEOREM ApprovalsImplementAuthority == ApprovalsSpec => ImplementsAuthority
<1>1. ApprovalsInit => Abstract!AuthorityInit
  BY DEF ApprovalsInit, AbsentRow, lives, LifeOf, Abstract!AuthorityInit
<1>2. RefinementInv /\ [ApprovalsNext]_approvalVars => [Abstract!AuthorityNext]_lives
  <2> SUFFICES ASSUME RefinementInv, [ApprovalsNext]_approvalVars
               PROVE  [Abstract!AuthorityNext]_lives
    OBVIOUS
  <2>1. ASSUME NEW s \in Stager, StagerNext(s) PROVE [Abstract!AuthorityNext]_lives
    <3>1. (\E req \in Request : Probe(s, req)) \/ StageNothing(s) \/ StageAborts(s) => UNCHANGED lives
      BY InvisibleStep DEF Probe, StageNothing, StageAborts, tableVars, effectVars
    <3> QED
      BY <2>1, <3>1, StageRowRefines DEF StagerNext
  <2>2. ASSUME NEW x \in Approval, ExecutorLost(x) PROVE UNCHANGED lives
    BY <2>2, InvisibleStep DEF ExecutorLost, tableVars, effectVars
  <2>3. ASSUME NEW t \in Target, TargetWrite(t) PROVE UNCHANGED lives
    BY <2>3, InvisibleStep DEF TargetWrite, tableVars
  <2>4. Tick \/ UNCHANGED approvalVars => UNCHANGED lives
    BY InvisibleStep DEF Tick, approvalVars, tableVars, effectVars
  <2> QED
    BY <2>1, <2>2, <2>3, <2>4, DecidingRefines, ErasingRefines, RedeemingRefines
       DEF ApprovalsNext
<1>3. ApprovalsSpec => []RefinementInv
  BY RedemptionIsSafe, StagingIsSafe, PTL DEF RefinementInv
<1> QED
  BY <1>1, <1>2, <1>3, PTL DEF ApprovalsSpec, ImplementsAuthority, Abstract!AuthoritySpec

-----------------------------------------------------------------------------
(* The engine keeps the agreement with those who wait on its cards: each of *)
(* its steps is a step of Cards, or moves no card and tells nobody.         *)

CardsInv == RefinementInv /\ OneVerdictAnnounced

\* What an open row looks like from outside: pending, unspent, untold.
LEMMA OpenCard ==
    ASSUME CardsInv, NEW a \in Approval, row[a].status = "pending"
    PROVE  cards[a] = "pending" /\ verdicts[a] = <<>> /\ ~row[a].consumed
<1>1. ApprovalsTypeOK /\ OneVerdictAnnounced
  BY DEF CardsInv, RefinementInv, RedemptionInv
<1>2. ~row[a].consumed
  BY LifeOfUnapproved DEF CardsInv
<1>3. verdicts[a] = <<>>
  BY <1>1, UndecidedIsUnannounced
<1> QED
  BY <1>2, <1>3 DEF cards, CardOf

\* A card moves only with its row or its announcement.
LEMMA SameRowSameCard ==
    ASSUME NEW a \in Approval, row'[a] = row[a], verdicts'[a] = verdicts[a]
    PROVE  cards'[a] = cards[a]
  BY DEF cards, CardOf

\* A step that touches neither moves no card and tells nobody.
LEMMA UnseenStep ==
    ASSUME UNCHANGED tableVars
    PROVE  UNCHANGED Inbox!cardVars
  BY DEF tableVars, cards, CardOf, Inbox!cardVars

\* What a set of rows does in one step is one move of the cards.
LEMMA CardMoveOf ==
    ASSUME NEW S \in SUBSET Approval, NEW from, NEW to,
           \A a \in S : cards[a] = from /\ cards'[a] = to,
           \A a \in Approval \ S : cards'[a] = cards[a]
    PROVE  Inbox!Move(S, from, to)
<1>1. cards' = [a \in Approval |-> cards'[a]]
  BY DEF cards
<1>2. cards' = [a \in Approval |-> IF a \in S THEN to ELSE cards[a]]
  BY <1>1
<1> QED
  BY <1>2 DEF Inbox!Move

\* Open rows that are settled and announced in one step are cards answered.
LEMMA AnswerRefines ==
    ASSUME CardsInv, NEW S \in SUBSET Approval, NEW v \in Settled,
           \A a \in S : /\ row[a].status = "pending"
                        /\ row'[a].status = v
                        /\ row'[a].consumed = row[a].consumed
                        /\ verdicts'[a] # <<>>,
           \A a \in Approval \ S : row'[a] = row[a] /\ verdicts'[a] = verdicts[a]
    PROVE  Inbox!CardsNext
<1>1. \A a \in S : cards[a] = "pending" /\ verdicts[a] = <<>>
  BY OpenCard
<1>2. \A a \in S : cards'[a] = v
  BY OpenCard DEF cards, CardOf, Settled
<1>3. Inbox!Move(S, "pending", v)
  BY <1>1, <1>2, SameRowSameCard, CardMoveOf
<1>4. {a \in Approval : verdicts'[a] # <<>>} = {a \in Approval : verdicts[a] # <<>>} \cup S
  OBVIOUS
<1>5. Inbox!Answer(S, v)
  BY <1>3, <1>4 DEF Inbox!Answer
<1> QED
  BY <1>5 DEF Inbox!CardsNext, Inbox!Decision, Settled

\* The same for the one row of a decision or a sweep.
LEMMA AnswerOne ==
    ASSUME CardsInv, NEW a \in Approval, NEW v \in Settled,
           row[a].status = "pending", row'[a].status = v, row'[a].consumed = row[a].consumed,
           verdicts'[a] # <<>>,
           \A b \in Approval \ {a} : row'[b] = row[b] /\ verdicts'[b] = verdicts[b]
    PROVE  Inbox!CardsNext
<1> DEFINE S == {a}
<1>1. S \in SUBSET Approval
  OBVIOUS
<1>2. \A b \in S : /\ row[b].status = "pending" /\ row'[b].status = v
                    /\ row'[b].consumed = row[b].consumed /\ verdicts'[b] # <<>>
  OBVIOUS
<1>3. \A b \in Approval \ S : row'[b] = row[b] /\ verdicts'[b] = verdicts[b]
  OBVIOUS
<1> HIDE DEF S
<1> QED
  BY <1>1, <1>2, <1>3, AnswerRefines

\* Open rows that lapse without an announcement are cards retracted.
LEMMA RetractRefines ==
    ASSUME CardsInv, NEW S \in SUBSET Approval, verdicts' = verdicts,
           \A a \in S : /\ row[a].status = "pending"
                        /\ row'[a].status = "expired"
                        /\ row'[a].consumed = row[a].consumed,
           \A a \in Approval \ S : cards'[a] = cards[a]
    PROVE  Inbox!CardsNext
<1>1. \A a \in S : cards[a] = "pending" /\ cards'[a] = "withdrawn"
  BY OpenCard DEF cards, CardOf
<1>2. Inbox!Move(S, "pending", "withdrawn")
  BY <1>1, CardMoveOf
<1> QED
  BY <1>2 DEF Inbox!CardsNext, Inbox!Retract

\* Staging puts up a card and retracts those it replaces, or only retracts.
LEMMA StagingKeepsCards ==
    ASSUME CardsInv, NEW s \in Stager, StageRow(s)
    PROVE  Inbox!CardsNext
<1> DEFINE req == stager[s].req
           now == stager[s].at
<1>0. /\ req \in Request /\ now \in Int /\ version \in [Target -> Nat]
      /\ \A b \in Approval : row[b] \in RowType
  BY DEF StageRow, CardsInv, RefinementInv, RedemptionInv, ApprovalsTypeOK, StagerType
<1>1. PICK a \in Approval :
        /\ IF stager[s].hit = NoRow THEN FreshRow(a) ELSE a = stager[s].hit
        /\ row' = [b \in Approval |->
                     IF b \in Supersedes(req, a, now) THEN Lapsed(row[b], now)
                     ELSE IF b # a THEN row[b]
                     ELSE IF stager[s].hit = NoRow THEN NewRow(req, now)
                     ELSE Rebundled(row[b], req)]
  BY DEF StageRow
<1> DEFINE gone == Supersedes(req, a, now)
<1>2. gone \in SUBSET Approval /\ a \notin gone /\ \A b \in gone : row[b].status = "pending"
  BY DEF Supersedes, LivePending
<1>3. verdicts' = verdicts
  BY DEF StageRow
<1> HIDE DEF req, now, gone
<1>4. ASSUME NEW b \in gone PROVE row'[b].status = "expired" /\ row'[b].consumed = row[b].consumed
  <2>1. row'[b] = Lapsed(row[b], now)
    BY <1>1, <1>2 DEF gone
  <2> QED
    BY <1>0, <1>2, <2>1, LapsedFields
<1>5. ASSUME NEW b \in Approval, b # a, b \notin gone PROVE cards'[b] = cards[b]
  BY <1>1, <1>3, <1>5, SameRowSameCard DEF gone
<1>6. CASE stager[s].hit = NoRow
  <2>1. row[a].status = "absent" /\ row'[a].status = "pending" /\ row'[a].consumed = FALSE
    BY <1>0, <1>1, <1>2, <1>6, NewRowFields DEF FreshRow, gone
  <2>2. cards[a] = "none" /\ cards'[a] = "pending"
    BY <2>1 DEF cards, CardOf
  <2>3. \A b \in gone : cards[b] = "pending" /\ cards'[b] = "withdrawn"
    BY <1>2, <1>3, <1>4, OpenCard DEF cards, CardOf
  <2>4. cards' = [b \in Approval |-> cards'[b]]
    BY DEF cards
  <2>5. cards' = [b \in Approval |->
                    IF b = a THEN "pending" ELSE IF b \in gone THEN "withdrawn" ELSE cards[b]]
    BY <1>2, <1>5, <2>2, <2>3, <2>4
  <2>6. Inbox!PutUp(a, gone)
    BY <1>3, <2>2, <2>3, <2>5 DEF Inbox!PutUp
  <2> QED
    BY <1>2, <2>6 DEF Inbox!CardsNext
<1>7. CASE stager[s].hit # NoRow
  <2>1. row[a].status = "pending"
    BY <1>1, <1>7 DEF StageRow, CardsInv, RefinementInv, StagingInv, JoinsWhatItHolds
  <2>2. row'[a].status = "pending" /\ row'[a].consumed = row[a].consumed
    <3>1. row'[a] = Rebundled(row[a], req)
      BY <1>1, <1>2, <1>7 DEF gone
    <3> QED
      BY <1>0, <2>1, <3>1, RebundledFields
  <2>3. cards'[a] = cards[a]
    BY <1>3, <2>1, <2>2 DEF cards, CardOf
  <2> QED
    BY <1>2, <1>3, <1>4, <1>5, <2>3, RetractRefines
<1> QED
  BY <1>6, <1>7

\* Decisions and sweeps answer cards; a withdrawal retracts one.
LEMMA DecidingKeepsCards ==
    ASSUME CardsInv, DecideNext
    PROVE  Inbox!CardsNext
<1>0. /\ \A a \in Approval : row[a] \in RowType /\ Filled(row[a])
      /\ row \in [Approval -> RowType]
      /\ verdicts \in [Approval -> Seq(Settled)]
      /\ clock \in Nat /\ clock \in Int
  BY DEF CardsInv, RefinementInv, RedemptionInv, ApprovalsTypeOK
<1>1. Verdict \subseteq Settled /\ "expired" \in Settled
  BY DEF Verdict, Settled
<1>2. \A a \in Approval : row[a].status = "pending" => row[a].change \in Change
  BY <1>0 DEF Filled
<1>3. \A a \in Approval : \A who, verdict, now :
        Decidable(a, who, verdict, now) => row[a].status = "pending"
  BY DEF Decidable, EffectiveStatus
<1>4. \A a \in Approval, v \in Settled : Append(verdicts[a], v) # <<>>
  BY <1>0
<1>5. ASSUME NEW a \in Approval, NEW who \in Decider, NEW v \in Verdict, NEW change \in Change,
             Decide(a, who, v, change)
      PROVE  Inbox!CardsNext
  <2>1. row[a].status = "pending"
    BY <1>3, <1>5 DEF Decide
  <2>2. /\ row'[a].status = v /\ row'[a].consumed = row[a].consumed
        /\ \A b \in Approval \ {a} : row'[b] = row[b]
    BY <1>0, <1>1, <1>5, DecidedFields DEF Decide
  <2>3. /\ verdicts'[a] # <<>>
        /\ \A b \in Approval \ {a} : verdicts'[b] = verdicts[b]
    BY <1>0, <1>1, <1>4, <1>5 DEF Decide
  <2> QED
    BY <1>1, <2>1, <2>2, <2>3, AnswerOne
<1>6. ASSUME NEW b \in Bundle, NEW who \in Decider, NEW v \in Verdict,
             DecideBundle(b, who, v)
      PROVE  Inbox!CardsNext
  <2>1. PICK now \in AppNow :
          /\ row' = [a \in Approval |->
                      IF a \in {x \in Members(b) : Decidable(x, who, v, now)}
                      THEN Decided(row[a], v, row[a].change) ELSE row[a]]
          /\ verdicts' = [a \in Approval |->
                      IF a \in {x \in Members(b) : Decidable(x, who, v, now)}
                      THEN Append(verdicts[a], v) ELSE verdicts[a]]
    BY <1>6 DEF DecideBundle
  <2> DEFINE S == {x \in Members(b) : Decidable(x, who, v, now)}
  <2>2. S \in SUBSET Approval
    BY DEF Members
  <2>3. \A a \in S : row[a].status = "pending"
    BY <1>3, <2>2
  <2>4. \A a \in S : row'[a] = Decided(row[a], v, row[a].change)
                     /\ verdicts'[a] = Append(verdicts[a], v)
    BY <2>1, <2>2
  <2>5. \A a \in Approval \ S : row'[a] = row[a] /\ verdicts'[a] = verdicts[a]
    BY <2>1
  <2> HIDE DEF S
  <2>6. \A a \in S : /\ row'[a].status = v /\ row'[a].consumed = row[a].consumed
                     /\ verdicts'[a] # <<>>
    BY <1>0, <1>1, <1>2, <1>4, <2>2, <2>3, <2>4, DecidedFields
  <2> QED
    BY <1>1, <2>2, <2>3, <2>5, <2>6, AnswerRefines
<1>7. ASSUME NEW a \in Approval, Sweep(a) PROVE Inbox!CardsNext
  <2>1. row[a].status = "pending"
    BY <1>7 DEF Sweep
  <2>2. /\ row'[a].status = "expired" /\ row'[a].consumed = row[a].consumed
        /\ \A b \in Approval \ {a} : row'[b] = row[b]
    BY <1>0, <1>1, <1>2, <1>7, <2>1, DecidedFields DEF Sweep
  <2>3. /\ verdicts'[a] # <<>>
        /\ \A b \in Approval \ {a} : verdicts'[b] = verdicts[b]
    BY <1>0, <1>1, <1>4, <1>7 DEF Sweep
  <2> QED
    BY <1>1, <2>1, <2>2, <2>3, AnswerOne
<1>8. ASSUME NEW a \in Approval, Withdraw(a) PROVE Inbox!CardsNext
  <2>1. row[a].status = "pending" /\ verdicts' = verdicts
    BY <1>8 DEF Withdraw
  <2>2. /\ row'[a].status = "expired" /\ row'[a].consumed = row[a].consumed
        /\ \A b \in Approval \ {a} : row'[b] = row[b]
    BY <1>0, <1>8, LapsedFields DEF Withdraw
  <2>3. \A b \in Approval \ {a} : cards'[b] = cards[b]
    BY <2>1, <2>2, SameRowSameCard
  <2> DEFINE S == {a}
  <2>4. S \in SUBSET Approval /\ \A b \in S : b = a
    OBVIOUS
  <2>5. \A b \in Approval \ S : cards'[b] = cards[b]
    BY <2>3
  <2> HIDE DEF S
  <2> QED
    BY <2>1, <2>2, <2>4, <2>5, RetractRefines
<1> QED
  BY <1>5, <1>6, <1>7, <1>8 DEF DecideNext

\* An erasure retracts the open cards it takes, and answers none.
LEMMA ErasingKeepsCards ==
    ASSUME CardsInv, ErasureNext
    PROVE  Inbox!CardsNext
<1> DEFINE S == {a \in Approval : row[a].status = "pending" /\ row'[a] # row[a]}
<1>0. row \in [Approval -> RowType] /\ clock \in Nat
  BY DEF CardsInv, RefinementInv, RedemptionInv, ApprovalsTypeOK
<1>1. /\ verdicts' = verdicts
      /\ \A a \in Approval : row'[a] = row[a] \/ TakenByErasure(a)
  BY <1>0, ErasureStep
<1>2. \A a \in S : /\ row[a].status = "pending" /\ row'[a].status = "expired"
                    /\ row'[a].consumed = row[a].consumed
  BY <1>1 DEF TakenByErasure
<1>3. ASSUME NEW a \in Approval \ S PROVE cards'[a] = cards[a]
  <2>1. CASE row'[a] = row[a]
    BY <1>1, <2>1, SameRowSameCard
  <2>2. CASE row'[a] # row[a]
    <3>1. row'[a].status = row[a].status /\ row'[a].consumed = row[a].consumed
      BY <1>1, <2>2 DEF TakenByErasure
    <3> QED
      BY <1>1, <3>1 DEF cards, CardOf
  <2> QED
    BY <2>1, <2>2
<1>4. S \in SUBSET Approval
  OBVIOUS
<1> HIDE DEF S
<1> QED
  BY <1>1, <1>2, <1>3, <1>4, RetractRefines

\* A redemption uses an approved card, or is not seen.
LEMMA RedeemingKeepsCards ==
    ASSUME CardsInv, NEW c \in Caller, CallerNext(c)
    PROVE  [Inbox!CardsNext]_(Inbox!cardVars)
<1> DEFINE a == caller[c].id
<1>0. ApprovalsTypeOK /\ (caller[c].pc # "idle" => a \in Approval /\ row[a].status = "approved")
  BY CallerFields DEF CardsInv, RefinementInv, RedemptionInv, OnlyTheApprovedCall
<1>1. CASE Consume(c) \/ ConsumeAndApply(c)
  <2>1. caller[c].pc # "idle" /\ ~row[a].consumed /\ SpendRow(a) /\ verdicts' = verdicts
    BY <1>1 DEF Consume, ConsumeAndApply, Consumable
  <2> HIDE DEF a
  <2>2. /\ row'[a].consumed /\ row'[a].status = "approved"
        /\ \A b \in Approval \ {a} : row'[b] = row[b]
    BY <1>0, <2>1, SpendRowFields
  <2>3. cards[a] = "approved" /\ cards'[a] = "spent"
    BY <1>0, <2>1, <2>2 DEF cards, CardOf
  <2>4. Inbox!Move({a}, "approved", "spent")
    BY <1>0, <2>1, <2>2, <2>3, CardMoveOf, SameRowSameCard
  <2> QED
    BY <1>0, <2>1, <2>4 DEF Inbox!CardsNext, Inbox!Use
<1>2. Apply(c) \/ RedemptionEnds(c) => UNCHANGED Inbox!cardVars
  BY UnseenStep DEF Apply, RedemptionEnds
<1>3. ASSUME NEW x \in Approval, NEW by, NEW hash, Validate(c, x, by, hash)
      PROVE  UNCHANGED Inbox!cardVars
  BY <1>3, UnseenStep DEF Validate
<1> QED
  BY <1>1, <1>2, <1>3 DEF CallerNext, AgentRedeems, ExecutorRedeems

\* Whoever stages, decides, sweeps, withdraws and redeems, a card is put up,
\* answered or retracted, and used, in that order, and it is answered and
\* announced in one step (decideInTx, expireOne, WithdrawInTx, RedeemInTx).
THEOREM EngineKeepsTheCards == ApprovalsSpec => KeepsTheCards
<1>1. ApprovalsInit => Inbox!CardsInit
  BY DEF ApprovalsInit, AbsentRow, cards, CardOf, Inbox!CardsInit
<1>2. CardsInv /\ [ApprovalsNext]_approvalVars => [Inbox!CardsNext]_(Inbox!cardVars)
  <2> SUFFICES ASSUME CardsInv, [ApprovalsNext]_approvalVars
               PROVE  [Inbox!CardsNext]_(Inbox!cardVars)
    OBVIOUS
  <2>1. ASSUME NEW s \in Stager, StagerNext(s) PROVE [Inbox!CardsNext]_(Inbox!cardVars)
    <3>1. (\E req \in Request : Probe(s, req)) \/ StageNothing(s) \/ StageAborts(s)
             => UNCHANGED Inbox!cardVars
      BY UnseenStep DEF Probe, StageNothing, StageAborts
    <3> QED
      BY <2>1, <3>1, StagingKeepsCards DEF StagerNext
  <2>2. ASSUME NEW x \in Approval, ExecutorLost(x) PROVE UNCHANGED Inbox!cardVars
    BY <2>2, UnseenStep DEF ExecutorLost
  <2>3. ASSUME NEW t \in Target, TargetWrite(t) PROVE UNCHANGED Inbox!cardVars
    BY <2>3, UnseenStep DEF TargetWrite
  <2>4. Tick \/ UNCHANGED approvalVars => UNCHANGED Inbox!cardVars
    BY UnseenStep DEF Tick, approvalVars, tableVars
  <2> QED
    BY <2>1, <2>2, <2>3, <2>4, DecidingKeepsCards, ErasingKeepsCards, RedeemingKeepsCards
       DEF ApprovalsNext
<1>3. ApprovalsSpec => []CardsInv
  BY RedemptionIsSafe, StagingIsSafe, VerdictsAreAnnouncedOnce, PTL DEF CardsInv, RefinementInv
<1> QED
  BY <1>1, <1>2, <1>3, PTL DEF ApprovalsSpec, KeepsTheCards, Inbox!CardsSpec

\* Whoever waits for a decision hears of every one and of nothing else: the
\* announced approvals are those decided or expired, redeemed since or not
\* (decideInTx and expireOne emit approval.decided in their transaction).
THEOREM WaitersHearOfEveryDecision == ApprovalsSpec => []Inbox!ToldIsDecided
<1>1. ASSUME CardsInv PROVE Inbox!ToldIsDecided
  <2>1. \A a \in Approval :
          /\ row[a].status \in Status
          /\ row[a].consumed => row[a].status = "approved"
          /\ row[a].status \in {"absent", "pending"} => verdicts[a] = <<>>
          /\ row[a].status \in {"approved", "rejected"} => verdicts[a] # <<>>
    BY <1>1, UndecidedIsUnannounced
       DEF CardsInv, RefinementInv, RedemptionInv, SpentBeforeApplied, ApprovalsTypeOK, RowType,
           OneVerdictAnnounced
  <2>2. \A a \in Approval :
          verdicts[a] # <<>> <=> cards[a] \in Inbox!Decision \cup {"spent"}
    BY <2>1 DEF cards, CardOf, Status, Inbox!Decision
  <2> QED
    BY <2>2 DEF Inbox!ToldIsDecided
<1>2. ApprovalsSpec => []CardsInv
  BY RedemptionIsSafe, StagingIsSafe, VerdictsAreAnnouncedOnce, PTL DEF CardsInv, RefinementInv
<1> QED
  BY <1>1, <1>2, PTL

=============================================================================
