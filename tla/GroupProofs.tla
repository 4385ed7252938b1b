---------------------------- MODULE GroupProofs ----------------------------
(***************************************************************************)
(* What one consumer group never does, for any number of replicas,         *)
(* entries and faults: ack an effect that did not run, re-run one without  *)
(* a reason, or, with the idle window long enough for a whole batch, run   *)
(* one entry twice at once.                                                *)
(***************************************************************************)
EXTENDS ConsumerGroup, FiniteSetTheorems, WellFoundedInduction, TLAPS

-----------------------------------------------------------------------------
(* Least and greatest entries, and pages.                                  *)

\* A set of numbers has a least element, and Min is it.
LEMMA MinIsLeast ==
    ASSUME NEW S \in SUBSET Nat, S # {}
    PROVE  Min(S) \in S /\ \A x \in S : Min(S) <= x
  <1>0. S \subseteq Nat
    OBVIOUS
  <1>1. PICK x \in S : \A y \in S : ~(<<y, x>> \in OpToRel(<, Nat))
    BY NatLessThanWellFounded, WFMin
  <1>2. \A y \in S : y < x => <<y, x>> \in OpToRel(<, Nat)
    BY <1>0 DEF OpToRel
  <1>3. ASSUME NEW y \in S PROVE x <= y
    <2>1. ~(y < x)
      BY <1>1, <1>2
    <2>2. x \in Nat /\ y \in Nat
      BY <1>0
    <2> QED
      BY <2>1, <2>2
  <1> QED
    BY <1>3 DEF Min

\* A bounded set of numbers has a greatest element, and Max is it.
LEMMA MaxIsGreatest ==
    ASSUME NEW k \in Nat, NEW S \in SUBSET (1 .. k), S # {}
    PROVE  Max(S) \in S /\ \A x \in S : x <= Max(S)
  <1> DEFINE U == {u \in Nat : \A x \in S : x <= u}
  <1>1. U \in SUBSET Nat /\ k \in U
    OBVIOUS
  <1>2. Min(U) \in U /\ \A u \in U : Min(U) <= u
    BY <1>1, MinIsLeast
  <1>3. PICK m \in Nat : (\A x \in S : x <= m) /\ (\A u \in U : m <= u)
    BY <1>2
  <1>4. m \in S
    <2> SUFFICES ASSUME m \notin S PROVE FALSE
      OBVIOUS
    <2>1. \A x \in S : x <= m - 1
      BY <1>3
    <2>2. m - 1 \in Nat
      <3>1. PICK x \in S : x <= m - 1
        BY <2>1
      <3>2. x \in Nat /\ x > 0
        OBVIOUS
      <3> QED
        BY <3>1, <3>2
    <2>3. m - 1 \in U
      BY <2>1, <2>2
    <2> QED
      BY <1>3, <2>3
  <1> QED
    BY <1>3, <1>4 DEF Max

\* A page is the beginning of what it is taken from, at most n long, and empty
\* only when there is nothing to take (COUNT of XAUTOCLAIM and XREADGROUP).
LEMMA PageFacts ==
    ASSUME NEW k \in Nat, NEW S \in SUBSET (1 .. k), NEW n \in Nat \ {0}
    PROVE  /\ FirstPage(S, n) \subseteq S
           /\ IsFiniteSet(FirstPage(S, n))
           /\ Cardinality(FirstPage(S, n)) <= n
           /\ S # {} => FirstPage(S, n) # {}
           /\ \A m \in FirstPage(S, n), p \in S : p <= m => p \in FirstPage(S, n)
  <1> DEFINE Below(x) == {q \in S : q < x}
             P == FirstPage(S, n)
  <1>0. P \subseteq S /\ S \subseteq Nat /\ S \in SUBSET Nat
    BY DEF FirstPage
  <1>1. IsFiniteSet(1 .. k)
    BY FS_Interval
  <1>2. IsFiniteSet(S) /\ IsFiniteSet(P) /\ \A x : IsFiniteSet(Below(x))
    <2>1. IsFiniteSet(S)
      BY <1>1, FS_Subset
    <2>2. IsFiniteSet(P)
      BY <1>0, <2>1, FS_Subset
    <2>3. \A x : Below(x) \subseteq S
      OBVIOUS
    <2>4. \A x : IsFiniteSet(Below(x))
      BY <2>1, <2>3, FS_Subset
    <2> QED
      BY <2>1, <2>2, <2>4
  <1>3. \A x : Cardinality(Below(x)) \in Nat
    BY <1>2, FS_CardinalityType
  <1>4. \A x \in S : x \in P <=> Cardinality(Below(x)) < n
    BY DEF FirstPage
  <1>5. ASSUME NEW m \in P, NEW p \in S, p <= m PROVE p \in P
    <2>1. ASSUME NEW q \in S, q < p PROVE q < m
      <3>1. q \in Nat /\ p \in Nat /\ m \in Nat
        BY <1>0
      <3> QED
        BY <1>5, <2>1, <3>1
    <2>2. Below(p) \subseteq Below(m)
      BY <2>1
    <2>3. Cardinality(Below(p)) <= Cardinality(Below(m))
      BY <1>2, <2>2, FS_Subset
    <2>4. Cardinality(Below(m)) < n
      BY <1>0, <1>4, <1>5
    <2>5. Cardinality(Below(p)) < n
      BY <1>3, <2>3, <2>4
    <2> QED
      BY <1>4, <2>5
  <1>6. S # {} => P # {}
    <2> SUFFICES ASSUME S # {} PROVE P # {}
      OBVIOUS
    <2>1. PICK l \in S : \A x \in S : l <= x
      BY <1>0, MinIsLeast
    <2>2. \A x \in S : ~(x < l)
      BY <1>0, <2>1
    <2>3. Below(l) = {}
      BY <2>2
    <2>4. Cardinality(Below(l)) = 0
      BY <2>3, FS_EmptySet
    <2>5. 0 < n
      OBVIOUS
    <2> QED
      BY <1>4, <2>4, <2>5
  <1>7. Cardinality(P) <= n
    <2>1. CASE P = {}
      BY <2>1, FS_EmptySet
    <2>2. CASE P # {}
      <3>1. PICK m \in P : \A x \in P : x <= m
        <4>1. Max(P) \in P /\ \A x \in P : x <= Max(P)
          BY <1>0, <2>2, MaxIsGreatest
        <4> QED
          BY <4>1
      <3>2. P \subseteq Below(m) \cup {m}
        <4>1. ASSUME NEW x \in P PROVE x < m \/ x = m
          <5>1. x \in Nat /\ m \in Nat
            BY <1>0
          <5> QED
            BY <3>1, <5>1
        <4> QED
          BY <1>0, <4>1
      <3>3. m \notin Below(m)
        <4>1. m \in Nat
          BY <1>0
        <4>2. ~(m < m)
          BY <4>1
        <4> QED
          BY <4>2
      <3>4. Cardinality(Below(m) \cup {m}) = Cardinality(Below(m)) + 1 /\ IsFiniteSet(Below(m) \cup {m})
        <4>1. IsFiniteSet(Below(m))
          BY <1>2
        <4> HIDE DEF Below
        <4> QED
          BY <3>3, <4>1, FS_AddElement
      <3>5. Cardinality(P) <= Cardinality(Below(m) \cup {m})
        BY <3>2, <3>4, FS_Subset
      <3>6. Cardinality(Below(m)) < n /\ Cardinality(P) \in Nat /\ Cardinality(Below(m)) \in Nat
        BY <1>0, <1>2, <1>3, <1>4, FS_CardinalityType
      <3> QED
        BY <3>4, <3>5, <3>6
    <2> QED
      BY <2>1, <2>2
  <1> QED
    BY <1>0, <1>2, <1>5, <1>6, <1>7

-----------------------------------------------------------------------------
(* Types.                                                                  *)

\* The stream and the group's place in it.
LogTypes ==
    /\ stream \in Seq(Event)
    /\ trimmed \in 0 .. Len(stream)
    /\ lastId \in 0 .. Len(stream)
    /\ Pending \subseteq 1 .. lastId
    /\ idle \in [Pending -> 0 .. MinIdle]

\* The loops: a consumer holds entries exactly while it delivers.
LoopTypes ==
    /\ phase \in [Consumer -> {"reclaim", "read"} \cup Delivering]
    /\ queue \in [Consumer -> SUBSET (1 .. lastId)]
    /\ \A c \in Consumer : queue[c] # {} <=> phase[c] \in Delivering
    /\ after \in [Consumer -> {"reclaim", "read"}]
    /\ cursor \in [Consumer -> 0 .. Len(stream)]
    /\ elapsed \in [Consumer -> 0 .. HandlerTime]
    /\ held \in [Consumer -> 0 .. MinIdle]

\* Marks, effects and budgets.
EffectTypes ==
    /\ marks \subseteq Event
    /\ effects \in [Event -> Nat]
    /\ faults \in 0 .. MaxFaults
    /\ expiries \in 0 .. MaxExpiries

\* The three are the module's type invariant.
LEMMA TypesSplit ==
    /\ GroupTypeOK <=> LogTypes /\ LoopTypes /\ EffectTypes
    /\ GroupTypeOK' <=> LogTypes' /\ LoopTypes' /\ EffectTypes'
  BY DEF GroupTypeOK, LogTypes, LoopTypes, EffectTypes

\* The constants.
LEMMA ConstantFacts ==
    /\ ReadCount \in Nat /\ ReadCount > 0
    /\ MinIdle \in Nat /\ HandlerTime \in Nat /\ HandlerTime > 0
    /\ MaxFaults \in Nat /\ MaxExpiries \in Nat
  BY GroupAssumption

\* A delivery is about the least entry its consumer holds.
LEMMA CurrentIsHeld ==
    ASSUME GroupTypeOK, NEW c \in Consumer, phase[c] \in Delivering
    PROVE  /\ Current(c) \in queue[c]
           /\ \A p \in queue[c] : Current(c) <= p
           /\ Current(c) \in 1 .. lastId
           /\ CurrentEvent(c) \in Event
  <1>1. queue[c] # {} /\ queue[c] \in SUBSET (1 .. lastId) /\ lastId \in Nat /\ lastId <= Len(stream)
    BY DEF GroupTypeOK
  <1>2. queue[c] \in SUBSET Nat
    BY <1>1
  <1>3. Current(c) \in queue[c] /\ \A p \in queue[c] : Current(c) <= p
    BY <1>1, <1>2, MinIsLeast DEF Current
  <1>4. Current(c) \in 1 .. lastId
    BY <1>1, <1>3
  <1>5. stream \in Seq(Event) /\ Current(c) \in 1 .. Len(stream)
    BY <1>1, <1>4 DEF GroupTypeOK
  <1>6. CurrentEvent(c) \in Event
    BY <1>5 DEF CurrentEvent
  <1> QED
    BY <1>3, <1>4, <1>6

\* The phases.
LEMMA PhaseFacts ==
    /\ "reclaim" \notin Delivering /\ "read" \notin Delivering
    /\ {"check", "run", "mark", "ack"} \subseteq Delivering
  BY DEF Delivering

\* A step within a delivery, or between scanning and reading, keeps the types.
LEMMA GotoTypes ==
    ASSUME GroupTypeOK, NEW c \in Consumer, NEW next, Goto(c, next),
           next \in Delivering <=> phase[c] \in Delivering,
           next \in {"reclaim", "read"} \cup Delivering,
           UNCHANGED <<stream, lastId>>
    PROVE  LoopTypes'
  BY DEF GroupTypeOK, Goto, LoopTypes

\* Finishing an entry, with or without an ack, keeps the types.
LEMMA AdvanceTypes ==
    ASSUME GroupTypeOK, NEW c \in Consumer, phase[c] \in Delivering, Advance(c),
           UNCHANGED <<stream, lastId>>
    PROVE  LoopTypes'
  <1>1. Current(c) \in queue[c]
    BY CurrentIsHeld
  <1>2. /\ queue' = [queue EXCEPT ![c] = @ \ {Current(c)}]
        /\ phase' = [phase EXCEPT ![c] = IF queue[c] # {Current(c)} THEN "check" ELSE after[c]]
        /\ elapsed' = [elapsed EXCEPT ![c] = 0]
        /\ held' = [held EXCEPT ![c] = IF queue[c] # {Current(c)} THEN @ ELSE 0]
        /\ UNCHANGED <<after, cursor>>
    BY DEF Advance
  <1>3. /\ queue \in [Consumer -> SUBSET (1 .. lastId)]
        /\ phase \in [Consumer -> {"reclaim", "read"} \cup Delivering]
        /\ after \in [Consumer -> {"reclaim", "read"}]
        /\ elapsed \in [Consumer -> 0 .. HandlerTime]
        /\ held \in [Consumer -> 0 .. MinIdle]
        /\ cursor \in [Consumer -> 0 .. Len(stream)]
        /\ \A d \in Consumer : queue[d] # {} <=> phase[d] \in Delivering
    BY DEF GroupTypeOK
  <1>4. queue[c] \ {Current(c)} \in SUBSET (1 .. lastId)
    BY <1>3
  <1>5. /\ queue'[c] = queue[c] \ {Current(c)}
        /\ phase'[c] = IF queue[c] # {Current(c)} THEN "check" ELSE after[c]
        /\ \A d \in Consumer \ {c} : queue'[d] = queue[d] /\ phase'[d] = phase[d]
    BY <1>2, <1>3
  <1>6. queue'[c] # {} <=> queue[c] # {Current(c)}
    BY <1>1, <1>5
  <1>7. phase'[c] \in Delivering <=> queue[c] # {Current(c)}
    BY <1>3, <1>5, PhaseFacts
  <1>8. \A d \in Consumer : queue'[d] # {} <=> phase'[d] \in Delivering
    BY <1>3, <1>5, <1>6, <1>7
  <1>9. /\ queue' \in [Consumer -> SUBSET (1 .. lastId)]
        /\ phase' \in [Consumer -> {"reclaim", "read"} \cup Delivering]
        /\ elapsed' \in [Consumer -> 0 .. HandlerTime]
    BY <1>2, <1>3, <1>4, PhaseFacts, GroupAssumption
  <1>10. held' \in [Consumer -> 0 .. MinIdle]
    BY <1>2, <1>3, ConstantFacts
  <1> QED
    BY <1>2, <1>3, <1>8, <1>9, <1>10 DEF LoopTypes

\* A crash leaves a fresh loop behind.
LEMMA CrashTypes ==
    ASSUME GroupTypeOK, NEW c \in Consumer, ConsumerCrash(c)
    PROVE  LoopTypes'
  <1>1. /\ queue' = [queue EXCEPT ![c] = {}]
        /\ phase' = [phase EXCEPT ![c] = "reclaim"]
        /\ cursor' = [cursor EXCEPT ![c] = 0]
        /\ elapsed' = [elapsed EXCEPT ![c] = 0]
        /\ held' = [held EXCEPT ![c] = 0]
        /\ UNCHANGED <<stream, lastId, after>>
    BY DEF ConsumerCrash, arrivalVars, pelVars
  <1>2. LoopTypes
    BY TypesSplit
  <1>3. Len(stream) \in Nat
    BY DEF GroupTypeOK
  <1> QED
    BY <1>1, <1>2, <1>3, PhaseFacts, GroupAssumption DEF LoopTypes

\* A fetched page is what its consumer delivers next.
LEMMA FetchedTypes ==
    ASSUME GroupTypeOK, NEW c \in Consumer, NEW page, page # {}, page \subseteq 1 .. lastId',
           Fetched(c, page), lastId' \in Nat, lastId <= lastId', stream' = stream,
           after' \in [Consumer -> {"reclaim", "read"}],
           cursor' \in [Consumer -> 0 .. Len(stream)]
    PROVE  LoopTypes'
  <1>1. /\ queue' = [queue EXCEPT ![c] = page]
        /\ phase' = [phase EXCEPT ![c] = "check"]
        /\ elapsed' = [elapsed EXCEPT ![c] = 0]
        /\ held' = [held EXCEPT ![c] = 0]
    BY DEF Fetched
  <1>2. LoopTypes /\ lastId \in Nat
    <2>1. LoopTypes
      BY TypesSplit
    <2>2. lastId \in Nat
      BY DEF GroupTypeOK
    <2> QED
      BY <2>1, <2>2
  <1>3. queue \in [Consumer -> SUBSET (1 .. lastId')]
    <2>1. 1 .. lastId \subseteq 1 .. lastId'
      BY <1>2
    <2> QED
      BY <1>2, <2>1 DEF LoopTypes
  <1>4. queue' \in [Consumer -> SUBSET (1 .. lastId')]
    BY <1>1, <1>3
  <1>5. phase' \in [Consumer -> {"reclaim", "read"} \cup Delivering]
    BY <1>1, <1>2, PhaseFacts DEF LoopTypes
  <1>6. \A k \in Consumer : queue'[k] # {} <=> phase'[k] \in Delivering
    <2> SUFFICES ASSUME NEW k \in Consumer PROVE queue'[k] # {} <=> phase'[k] \in Delivering
      OBVIOUS
    <2>1. CASE k = c
      BY <1>1, <1>2, <2>1, PhaseFacts DEF LoopTypes
    <2>2. CASE k # c
      BY <1>1, <1>2, <2>2 DEF LoopTypes
    <2> QED
      BY <2>1, <2>2
  <1>7. elapsed' \in [Consumer -> 0 .. HandlerTime]
    <2>1. 0 \in 0 .. HandlerTime
      BY GroupAssumption
    <2> QED
      BY <1>1, <1>2, <2>1 DEF LoopTypes
  <1>8. held' \in [Consumer -> 0 .. MinIdle]
    <2>1. 0 \in 0 .. MinIdle
      BY ConstantFacts
    <2> QED
      BY <1>1, <1>2, <2>1 DEF LoopTypes
  <1> QED
    BY <1>4, <1>5, <1>6, <1>7, <1>8 DEF LoopTypes

-----------------------------------------------------------------------------
(* What the two fetches do. *)

\* XAUTOCLAIM takes only stale entries, drops only evicted ones, and hands over
\* at most a batch (reclaim).
Adopts(c, page, live) ==
    /\ page \subseteq {p \in Pending : Stale(p)}
    /\ live \subseteq page
    /\ \A p \in page \ live : p <= trimmed
    /\ IsFiniteSet(live) /\ Cardinality(live) <= ReadCount
    /\ idle' = [p \in Pending \ (page \ live) |-> IF p \in live THEN 0 ELSE idle[p]]
    /\ cursor' \in [Consumer -> 0 .. Len(stream)]
    /\ after' \in [Consumer -> {"reclaim", "read"}]
    /\ \/ /\ live = {}
          /\ phase' \in {[phase EXCEPT ![c] = next] : next \in {"reclaim", "read"}}
          /\ UNCHANGED <<queue, elapsed, held>>
       \/ live # {} /\ Fetched(c, live)

\* XREADGROUP takes the next entries after the group's last one, and leaves out
\* none of those it moves past unless MAXLEN evicted them.
Takes(c, page) ==
    /\ page # {} /\ IsFiniteSet(page) /\ Cardinality(page) <= ReadCount
    /\ page \subseteq lastId + 1 .. lastId'
    /\ lastId < lastId' /\ lastId' \in Nat /\ lastId' <= Len(stream)
    /\ \A p \in lastId + 1 .. lastId' : p > trimmed => p \in page
    /\ idle' = Reset(page, 0)
    /\ Fetched(c, page)
    /\ after' \in [Consumer -> {"reclaim", "read"}]

\* A scan adopts (reclaim).
LEMMA ReclaimFacts ==
    ASSUME GroupTypeOK, NEW c \in Consumer, Reclaim(c)
    PROVE  \E page, live : Adopts(c, page, live)
  <1> DEFINE stale == {p \in Pending : p > cursor[c] /\ Stale(p)}
             page == FirstPage(stale, ReadCount)
             live == {p \in page : p > trimmed}
             wraps == Cardinality(stale) <= ReadCount
  <1>1. /\ idle' = [p \in Pending \ (page \ live) |-> IF p \in live THEN 0 ELSE idle[p]]
        /\ cursor' = [cursor EXCEPT ![c] = IF wraps THEN 0 ELSE Max(page)]
        /\ after' = [after EXCEPT ![c] = IF wraps THEN "read" ELSE "reclaim"]
        /\ IF live = {}
           THEN /\ phase' = [phase EXCEPT ![c] = IF wraps THEN "read" ELSE "reclaim"]
                /\ UNCHANGED <<queue, elapsed, held>>
           ELSE Fetched(c, live)
    BY DEF Reclaim
  <1>2. /\ lastId \in Nat /\ Len(stream) \in Nat /\ lastId <= Len(stream) /\ trimmed \in Nat
        /\ Pending \subseteq 1 .. lastId /\ ReadCount \in Nat \ {0}
        /\ cursor \in [Consumer -> 0 .. Len(stream)]
        /\ after \in [Consumer -> {"reclaim", "read"}]
    BY ConstantFacts DEF GroupTypeOK
  <1>2a. stale \in SUBSET (1 .. lastId)
    BY <1>2
  <1>3. /\ page \subseteq stale /\ IsFiniteSet(page) /\ Cardinality(page) <= ReadCount
        /\ stale # {} => page # {}
    BY <1>2, <1>2a, PageFacts
  <1>4. live \subseteq page /\ IsFiniteSet(live) /\ Cardinality(live) <= Cardinality(page)
    BY <1>3, FS_Subset
  <1>5. Cardinality(live) <= ReadCount
    BY <1>2, <1>3, <1>4, FS_CardinalityType
  <1>6. ~wraps => Max(page) \in 0 .. Len(stream)
    <2> SUFFICES ASSUME ~wraps PROVE Max(page) \in 0 .. Len(stream)
      OBVIOUS
    <2>1. stale # {}
      <3> SUFFICES ASSUME stale = {} PROVE FALSE
        OBVIOUS
      <3>1. Cardinality(stale) = 0
        BY FS_EmptySet
      <3> QED
        BY <1>2, <3>1
    <2>2. page # {} /\ page \in SUBSET (1 .. lastId)
      BY <1>3, <1>2a, <2>1
    <2>3. Max(page) \in page
      BY <1>2, <2>2, MaxIsGreatest
    <2> QED
      BY <1>2, <2>2, <2>3
  <1>7. \A p \in page \ live : p <= trimmed
    <2> SUFFICES ASSUME NEW p \in page, ~(p > trimmed) PROVE p <= trimmed
      OBVIOUS
    <2>1. p \in Nat
      BY <1>2, <1>3, <1>2a
    <2> QED
      BY <1>2, <2>1
  <1>8. page \subseteq {p \in Pending : Stale(p)}
    BY <1>3
  <1> HIDE DEF stale, page, live, wraps
  <1>9. cursor' \in [Consumer -> 0 .. Len(stream)] /\ after' \in [Consumer -> {"reclaim", "read"}]
    BY <1>1, <1>2, <1>6
  <1>10. live = {} => /\ phase' \in {[phase EXCEPT ![c] = next] : next \in {"reclaim", "read"}}
                      /\ UNCHANGED <<queue, elapsed, held>>
    BY <1>1
  <1> QED
    BY <1>1, <1>4, <1>5, <1>7, <1>8, <1>9, <1>10 DEF Adopts

\* A read takes (Subscriber.Run).
LEMMA ReadFacts ==
    ASSUME GroupTypeOK, NEW c \in Consumer, Read(c)
    PROVE  \E page : Takes(c, page)
  <1> DEFINE page == FirstPage(Fresh, ReadCount)
  <1>1. /\ Fresh # {} /\ lastId' = Max(page) /\ idle' = Reset(page, 0) /\ Fetched(c, page)
        /\ after' = [after EXCEPT ![c] = "reclaim"]
    BY DEF Read
  <1>2. /\ lastId \in Nat /\ Len(stream) \in Nat /\ lastId <= Len(stream) /\ trimmed \in Nat
        /\ DOMAIN stream = 1 .. Len(stream) /\ ReadCount \in Nat \ {0}
        /\ after \in [Consumer -> {"reclaim", "read"}]
    BY ConstantFacts DEF GroupTypeOK
  <1>3. Fresh \in SUBSET (1 .. Len(stream))
    BY <1>2 DEF Fresh
  <1>4. /\ page \subseteq Fresh /\ IsFiniteSet(page) /\ Cardinality(page) <= ReadCount /\ page # {}
        /\ \A m \in page, p \in Fresh : p <= m => p \in page
    BY <1>1, <1>2, <1>3, PageFacts
  <1>5. page \in SUBSET (1 .. Len(stream))
    BY <1>3, <1>4
  <1> HIDE DEF page
  <1>6. lastId' \in page /\ \A x \in page : x <= lastId'
    BY <1>1, <1>2, <1>4, <1>5, MaxIsGreatest
  <1>7. lastId' \in Nat /\ lastId' <= Len(stream) /\ lastId < lastId'
    BY <1>2, <1>4, <1>5, <1>6 DEF Fresh
  <1>8. page \subseteq lastId + 1 .. lastId'
    <2> SUFFICES ASSUME NEW x \in page PROVE x \in lastId + 1 .. lastId'
      OBVIOUS
    <2>1. x \in 1 .. Len(stream) /\ x > lastId /\ x <= lastId'
      BY <1>4, <1>5, <1>6 DEF Fresh
    <2> QED
      BY <1>2, <1>7, <2>1
  <1>9. \A p \in lastId + 1 .. lastId' : p > trimmed => p \in page
    <2> SUFFICES ASSUME NEW p \in lastId + 1 .. lastId', p > trimmed PROVE p \in page
      OBVIOUS
    <2>1. p \in Fresh /\ p <= lastId'
      BY <1>2, <1>7 DEF Fresh
    <2> QED
      BY <1>4, <1>6, <2>1
  <1> QED
    BY <1>1, <1>2, <1>4, <1>7, <1>8, <1>9 DEF Takes

-----------------------------------------------------------------------------
(* Every step keeps the types. *)

\* Redis hands an entry's idle clock back within its range.
LEMMA RestartedClocks ==
    ASSUME GroupTypeOK, NEW D, D \subseteq 1 .. lastId',
           NEW g \in [D -> 0 .. MinIdle], idle' = g, lastId' \in 0 .. Len(stream),
           UNCHANGED arrivalVars
    PROVE  LogTypes'
  BY DEF LogTypes, GroupTypeOK, Pending, arrivalVars

\* XAUTOCLAIM.
LEMMA ReclaimTypes ==
    ASSUME GroupTypeOK, NEW c \in Consumer, Reclaim(c)
    PROVE  GroupTypeOK'
  <1>0. PICK page, live : Adopts(c, page, live)
    BY ReclaimFacts
  <1>1. /\ page \subseteq {p \in Pending : Stale(p)}
        /\ live \subseteq page
        /\ idle' = [p \in Pending \ (page \ live) |-> IF p \in live THEN 0 ELSE idle[p]]
        /\ cursor' \in [Consumer -> 0 .. Len(stream)]
        /\ after' \in [Consumer -> {"reclaim", "read"}]
        /\ \/ /\ live = {}
              /\ phase' \in {[phase EXCEPT ![c] = next] : next \in {"reclaim", "read"}}
              /\ UNCHANGED <<queue, elapsed, held>>
           \/ live # {} /\ Fetched(c, live)
    BY <1>0 DEF Adopts
  <1>2. /\ phase[c] = "reclaim" /\ lastId' = lastId
        /\ UNCHANGED <<stream, trimmed, arrivalVars, effectVars, budgetVars>>
    BY DEF Reclaim, arrivalVars
  <1>3. /\ lastId \in 0 .. Len(stream) /\ Pending \subseteq 1 .. lastId /\ lastId \in Nat
        /\ idle \in [Pending -> 0 .. MinIdle] /\ MinIdle \in Nat
    BY ConstantFacts DEF GroupTypeOK
  <1>4. idle' \in [Pending \ (page \ live) -> 0 .. MinIdle]
    BY <1>1, <1>3
  <1>5. LogTypes'
    BY <1>2, <1>3, <1>4, RestartedClocks
  <1>6. LoopTypes'
    <2>1. CASE live = {} /\ phase' \in {[phase EXCEPT ![c] = next] : next \in {"reclaim", "read"}}
                         /\ UNCHANGED <<queue, elapsed, held>>
      BY <1>1, <1>2, <2>1, PhaseFacts DEF GroupTypeOK, LoopTypes
    <2>2. CASE live # {} /\ Fetched(c, live)
      <3>1. live \subseteq 1 .. lastId'
        BY <1>1, <1>2, <1>3
      <3>2. lastId <= lastId'
        BY <1>2, <1>3
      <3> QED
        BY <1>1, <1>2, <1>3, <2>2, <3>1, <3>2, FetchedTypes
    <2> QED
      BY <1>1, <2>1, <2>2
  <1>7. EffectTypes'
    BY <1>2 DEF GroupTypeOK, EffectTypes, effectVars, budgetVars
  <1> QED
    BY <1>5, <1>6, <1>7, TypesSplit

\* XREADGROUP.
LEMMA ReadTypes ==
    ASSUME GroupTypeOK, NEW c \in Consumer, Read(c)
    PROVE  GroupTypeOK'
  <1>0. PICK page : Takes(c, page)
    BY ReadFacts
  <1>1. /\ page # {}
        /\ page \subseteq lastId + 1 .. lastId'
        /\ lastId < lastId' /\ lastId' \in Nat /\ lastId' <= Len(stream)
        /\ idle' = Reset(page, 0)
        /\ Fetched(c, page)
        /\ after' \in [Consumer -> {"reclaim", "read"}]
    BY <1>0 DEF Takes
  <1>2. UNCHANGED <<stream, trimmed, arrivalVars, cursor, effectVars, budgetVars>>
    BY DEF Read, arrivalVars
  <1>3. /\ lastId \in Nat /\ Pending \subseteq 1 .. lastId
        /\ idle \in [Pending -> 0 .. MinIdle] /\ MinIdle \in Nat
        /\ cursor \in [Consumer -> 0 .. Len(stream)] /\ Len(stream) \in Nat
    BY ConstantFacts DEF GroupTypeOK
  <1>4. page \subseteq 1 .. lastId' /\ Pending \subseteq 1 .. lastId' /\ lastId <= lastId'
    BY <1>1, <1>3
  <1>5. idle' \in [Pending \cup page -> 0 .. MinIdle]
    BY <1>1, <1>3 DEF Reset
  <1>6. lastId' \in 0 .. Len(stream)
    BY <1>1, <1>3
  <1>7. LogTypes'
    BY <1>2, <1>4, <1>5, <1>6, RestartedClocks
  <1>8. LoopTypes'
    BY <1>1, <1>2, <1>3, <1>4, FetchedTypes
  <1>9. EffectTypes'
    BY <1>2 DEF GroupTypeOK, EffectTypes, effectVars, budgetVars
  <1> QED
    BY <1>7, <1>8, <1>9, TypesSplit

\* Steps of a delivery that stay on the same entry (Skip, Start, Effect, Mark),
\* and the loop's turns between scanning and reading.
LEMMA TurnTypes ==
    ASSUME GroupTypeOK, NEW c \in Consumer,
           \/ Skip(c) \/ Start(c) \/ Effect(c) \/ Mark(c)
           \/ ReadTimesOut(c) \/ ReadFails(c) \/ ReclaimFails(c)
    PROVE  GroupTypeOK'
  <1>1. LogTypes /\ LoopTypes /\ EffectTypes
    BY TypesSplit
  <1>2. ASSUME Skip(c) \/ Start(c) \/ Effect(c) \/ Mark(c) PROVE GroupTypeOK'
    <2>1. PICK next \in {"run", "mark", "ack"} : Goto(c, next)
      BY <1>2 DEF Skip, Start, Effect, Mark
    <2>2. phase[c] \in Delivering
      BY <1>2, PhaseFacts DEF Skip, Start, Effect, Mark
    <2>3. UNCHANGED <<stream, trimmed, lastId, idle>> /\ UNCHANGED <<faults, expiries>>
      BY <1>2 DEF Skip, Start, Effect, Mark, arrivalVars, pelVars, budgetVars
    <2>4. LoopTypes'
      BY <2>1, <2>2, <2>3, GotoTypes, PhaseFacts
    <2>5. LogTypes'
      BY <1>1, <2>3 DEF LogTypes, Pending
    <2>6. CurrentEvent(c) \in Event
      BY <2>2, CurrentIsHeld
    <2>7. marks' \subseteq Event /\ effects' \in [Event -> Nat]
      <3>1. Effect(c) => marks' \subseteq Event /\ effects' \in [Event -> Nat]
        BY <1>1, <2>6 DEF Effect, EffectTypes
      <3>2. Mark(c) => marks' \subseteq Event /\ effects' \in [Event -> Nat]
        BY <1>1, <2>6 DEF Mark, EffectTypes
      <3>3. Skip(c) \/ Start(c) => marks' \subseteq Event /\ effects' \in [Event -> Nat]
        BY <1>1 DEF Skip, Start, EffectTypes, effectVars
      <3> QED
        BY <1>2, <3>1, <3>2, <3>3
    <2>8. EffectTypes'
      BY <1>1, <2>3, <2>7 DEF EffectTypes
    <2> QED
      BY <2>4, <2>5, <2>8, TypesSplit
  <1>3. ASSUME ReadTimesOut(c) \/ ReadFails(c) PROVE GroupTypeOK'
    <2>1. Goto(c, "reclaim") /\ phase[c] \notin Delivering
      BY <1>3, PhaseFacts DEF ReadTimesOut, ReadFails
    <2>2. UNCHANGED <<stream, trimmed, lastId, idle, marks, effects, expiries>>
      BY <1>3 DEF ReadTimesOut, ReadFails, arrivalVars, pelVars, effectVars, budgetVars
    <2>3. LoopTypes'
      BY <2>1, <2>2, GotoTypes, PhaseFacts
    <2>4. LogTypes'
      BY <1>1, <2>2 DEF LogTypes, Pending
    <2>5. faults' \in 0 .. MaxFaults
      BY <1>1, <1>3, ConstantFacts DEF EffectTypes, ReadTimesOut, ReadFails, Fails, budgetVars
    <2>6. EffectTypes'
      BY <1>1, <2>2, <2>5 DEF EffectTypes
    <2> QED
      BY <2>3, <2>4, <2>6, TypesSplit
  <1>4. ASSUME ReclaimFails(c) PROVE GroupTypeOK'
    <2>1. /\ phase[c] \notin Delivering
          /\ phase' = [phase EXCEPT ![c] = "read"]
          /\ cursor' = [cursor EXCEPT ![c] = 0]
          /\ UNCHANGED <<stream, trimmed, lastId, idle, queue, after, elapsed, held>>
          /\ UNCHANGED <<marks, effects, expiries>>
      BY <1>4, PhaseFacts DEF ReclaimFails, arrivalVars, pelVars, effectVars
    <2>2. Len(stream) \in Nat
      BY <1>1 DEF LogTypes
    <2>3. LoopTypes'
      BY <1>1, <2>1, <2>2, PhaseFacts DEF LoopTypes
    <2>4. LogTypes'
      BY <1>1, <2>1 DEF LogTypes, Pending
    <2>5. faults' \in 0 .. MaxFaults
      BY <1>1, <1>4, ConstantFacts DEF EffectTypes, ReclaimFails, Fails
    <2>6. EffectTypes'
      BY <1>1, <2>1, <2>5 DEF EffectTypes
    <2> QED
      BY <2>3, <2>4, <2>6, TypesSplit
  <1> QED
    BY <1>2, <1>3, <1>4

\* The end of a delivery: acked, failed, or cut off by a crash.
LEMMA EndTypes ==
    ASSUME GroupTypeOK, NEW c \in Consumer,
           Ack(c) \/ AckFails(c) \/ DeliveryFails(c) \/ ConsumerCrash(c)
    PROVE  GroupTypeOK'
  <1>1. LogTypes /\ LoopTypes /\ EffectTypes
    BY TypesSplit
  <1>2. UNCHANGED <<stream, trimmed, lastId, marks, effects, expiries>>
    BY DEF Ack, AckFails, DeliveryFails, ConsumerCrash, arrivalVars, pelVars, effectVars, budgetVars
  <1>3. LoopTypes'
    <2>1. ASSUME Ack(c) \/ AckFails(c) \/ DeliveryFails(c) PROVE LoopTypes'
      <3>1. phase[c] \in Delivering /\ Advance(c)
        BY <2>1, PhaseFacts DEF Ack, AckFails, DeliveryFails
      <3> QED
        BY <1>2, <3>1, AdvanceTypes
    <2> QED
      BY <2>1, CrashTypes
  <1>4. LogTypes'
    <2>1. CASE Ack(c)
      <3>1. idle' = [p \in Pending \ {Current(c)} |-> idle[p]]
        BY <2>1 DEF Ack, Forget
      <3>2. /\ Pending \ {Current(c)} \subseteq 1 .. lastId'
            /\ idle' \in [Pending \ {Current(c)} -> 0 .. MinIdle]
            /\ lastId' \in 0 .. Len(stream)
        BY <1>1, <1>2, <3>1 DEF LogTypes
      <3> QED
        BY <1>2, <3>2, RestartedClocks DEF arrivalVars
    <2>2. CASE AckFails(c) \/ DeliveryFails(c) \/ ConsumerCrash(c)
      <3>1. idle' = idle
        BY <2>2 DEF AckFails, DeliveryFails, ConsumerCrash, pelVars
      <3> QED
        BY <1>1, <1>2, <3>1 DEF LogTypes, Pending
    <2> QED
      BY <2>1, <2>2
  <1>5. faults' \in 0 .. MaxFaults
    <2>1. faults \in 0 .. MaxFaults
      BY <1>1 DEF EffectTypes
    <2>2. faults' = faults \/ (faults < MaxFaults /\ faults' = faults + 1)
      BY DEF Ack, AckFails, DeliveryFails, ConsumerCrash, Fails, budgetVars
    <2> QED
      BY <2>1, <2>2, ConstantFacts
  <1>6. EffectTypes'
    BY <1>1, <1>2, <1>5 DEF EffectTypes
  <1> QED
    BY <1>3, <1>4, <1>6, TypesSplit

\* Time, arrivals, evictions and expiries.
LEMMA WorldTypes ==
    ASSUME GroupTypeOK,
           \/ Tick \/ Trim
           \/ \E e \in Event : Arrive(e) \/ MarkExpires(e)
    PROVE  GroupTypeOK'
  <1>1. LogTypes /\ LoopTypes /\ EffectTypes
    BY TypesSplit
  <1>2. CASE Tick
    <2>1. /\ \A c \in Consumer : phase[c] \in Delivering => elapsed[c] < HandlerTime
          /\ idle' = [p \in Pending |-> OneTickOlder(idle[p])]
          /\ held' = [c \in Consumer |->
                        IF phase[c] \in Delivering THEN OneTickOlder(held[c]) ELSE held[c]]
          /\ elapsed' = [c \in Consumer |->
                           IF phase[c] \in Delivering THEN elapsed[c] + 1 ELSE elapsed[c]]
          /\ UNCHANGED <<stream, trimmed, lastId, phase, queue, after, cursor>>
          /\ UNCHANGED <<marks, effects, faults, expiries>>
      BY <1>2 DEF Tick, arrivalVars, effectVars, budgetVars
    <2>2. \A p \in Pending : OneTickOlder(idle[p]) \in 0 .. MinIdle
      BY <1>1, ConstantFacts DEF LogTypes, OneTickOlder
    <2>3. idle' \in [Pending -> 0 .. MinIdle]
      BY <2>1, <2>2
    <2>4. \A c \in Consumer :
            (IF phase[c] \in Delivering THEN elapsed[c] + 1 ELSE elapsed[c]) \in 0 .. HandlerTime
      BY <1>1, <2>1, ConstantFacts DEF LoopTypes
    <2>5. elapsed' \in [Consumer -> 0 .. HandlerTime]
      BY <2>1, <2>4
    <2>6. Pending \subseteq 1 .. lastId' /\ lastId' \in 0 .. Len(stream)
      BY <1>1, <2>1 DEF LogTypes
    <2>7. LogTypes'
      BY <2>1, <2>3, <2>6, RestartedClocks DEF arrivalVars
    <2>5a. held' \in [Consumer -> 0 .. MinIdle]
      <3>1. \A c \in Consumer : OneTickOlder(held[c]) \in 0 .. MinIdle
        BY <1>1, ConstantFacts DEF LoopTypes, OneTickOlder
      <3> QED
        BY <1>1, <2>1, <3>1 DEF LoopTypes
    <2>8. LoopTypes'
      BY <1>1, <2>1, <2>5, <2>5a DEF LoopTypes
    <2>9. EffectTypes'
      BY <1>1, <2>1 DEF EffectTypes
    <2> QED
      BY <2>7, <2>8, <2>9, TypesSplit
  <1>3. CASE Trim
    <2>1. /\ trimmed' \in 0 .. Len(stream)
          /\ UNCHANGED <<stream, lastId, idle>>
          /\ UNCHANGED <<phase, queue, after, cursor, elapsed, held>>
          /\ UNCHANGED <<marks, effects, faults, expiries>>
      BY <1>1, <1>3 DEF Trim, LogTypes, pelVars, loopVars, effectVars, budgetVars
    <2> QED
      BY <1>1, <2>1, TypesSplit DEF LogTypes, LoopTypes, EffectTypes, Pending
  <1>4. ASSUME NEW e \in Event, Arrive(e) PROVE GroupTypeOK'
    <2>1. /\ stream' = Append(stream, e)
          /\ UNCHANGED <<trimmed, lastId, idle>>
          /\ UNCHANGED <<phase, queue, after, cursor, elapsed, held>>
          /\ UNCHANGED <<marks, effects, faults, expiries>>
      BY <1>4 DEF Arrive, pelVars, loopVars, effectVars, budgetVars
    <2>2. stream' \in Seq(Event) /\ Len(stream') = Len(stream) + 1 /\ Len(stream) \in Nat
      BY <1>1, <2>1 DEF LogTypes
    <2>3. 0 .. Len(stream) \subseteq 0 .. Len(stream')
      BY <2>2
    <2>4. LogTypes'
      BY <1>1, <2>1, <2>2, <2>3 DEF LogTypes, Pending
    <2>5. LoopTypes'
      BY <1>1, <2>1, <2>3 DEF LoopTypes
    <2>6. EffectTypes'
      BY <1>1, <2>1 DEF EffectTypes
    <2> QED
      BY <2>4, <2>5, <2>6, TypesSplit
  <1>5. ASSUME NEW e \in Event, MarkExpires(e) PROVE GroupTypeOK'
    <2>1. /\ marks' \subseteq marks /\ expiries < MaxExpiries /\ expiries' = expiries + 1
          /\ UNCHANGED <<stream, trimmed, lastId, idle>>
          /\ UNCHANGED <<phase, queue, after, cursor, elapsed, held, effects, faults>>
      BY <1>5 DEF MarkExpires, arrivalVars, pelVars, loopVars
    <2>2. expiries' \in 0 .. MaxExpiries
      BY <1>1, <2>1, ConstantFacts DEF EffectTypes
    <2>3. LogTypes' /\ LoopTypes' /\ EffectTypes'
      BY <1>1, <2>1, <2>2 DEF LogTypes, LoopTypes, EffectTypes, Pending
    <2> QED
      BY <2>3, TypesSplit
  <1> QED
    BY <1>2, <1>3, <1>4, <1>5

\* Every step keeps the types.
LEMMA GroupTypesNext == GroupTypeOK /\ [GroupNext]_groupVars => GroupTypeOK'
  <1> SUFFICES ASSUME GroupTypeOK, [GroupNext]_groupVars PROVE GroupTypeOK'
    OBVIOUS
  <1>1. ASSUME NEW c \in Consumer, ConsumerStep(c) \/ ConsumerFault(c) PROVE GroupTypeOK'
    BY <1>1, ReclaimTypes, ReadTypes, TurnTypes, EndTypes DEF ConsumerStep, ConsumerFault
  <1>2. CASE UNCHANGED groupVars
    BY <1>2 DEF groupVars, arrivalVars, pelVars, loopVars, effectVars, budgetVars, GroupTypeOK, Pending
  <1> QED
    BY <1>1, <1>2, WorldTypes DEF GroupNext, GroupStep

\* The empty group is typed.
LEMMA GroupTypesInit == GroupInit => GroupTypeOK
  <1> SUFFICES ASSUME GroupInit PROVE GroupTypeOK
    OBVIOUS
  <1>1. stream \in Seq(Event) /\ Len(stream) = 0 /\ Pending = {}
    BY DEF GroupInit, Pending
  <1>2. LogTypes
    BY <1>1 DEF GroupInit, LogTypes
  <1>3. LoopTypes
    BY <1>1, ConstantFacts, PhaseFacts DEF GroupInit, LoopTypes
  <1>4. EffectTypes
    BY ConstantFacts DEF GroupInit, EffectTypes
  <1> QED
    BY <1>2, <1>3, <1>4, TypesSplit

\* The type invariant: everything a consumer holds has been delivered to the
\* group, and it holds something exactly while it delivers (Subscriber.Run).
THEOREM GroupTyped == GroupSpec => []GroupTypeOK
  BY GroupTypesInit, GroupTypesNext, PTL DEF GroupSpec

-----------------------------------------------------------------------------
(* One consumer's step, seen from the others. *)

\* A step of one consumer leaves the stream and the other loops as they are,
\* and undoes no effect.
LEMMA StepOfOne ==
    ASSUME GroupTypeOK, NEW c \in Consumer, ConsumerStep(c) \/ ConsumerFault(c)
    PROVE  /\ UNCHANGED <<stream, trimmed>>
           /\ \A d \in Consumer \ {c} : phase'[d] = phase[d] /\ queue'[d] = queue[d]
           /\ \A e \in Event : effects[e] \in Nat /\ effects'[e] >= effects[e]
  <1>1. /\ phase \in [Consumer -> {"reclaim", "read"} \cup Delivering]
        /\ queue \in [Consumer -> SUBSET (1 .. lastId)] /\ effects \in [Event -> Nat]
    BY DEF GroupTypeOK
  <1>2. CASE Reclaim(c)
    <2>1. UNCHANGED <<stream, trimmed, effects>>
      BY <1>2 DEF Reclaim, arrivalVars, effectVars
    <2>2. PICK page, live : Adopts(c, page, live)
      BY <1>2, ReclaimFacts
    <2>3. \/ phase' \in {[phase EXCEPT ![c] = next] : next \in {"reclaim", "read"}} /\ queue' = queue
          \/ Fetched(c, live)
      BY <2>2 DEF Adopts
    <2> QED
      BY <1>1, <2>1, <2>3 DEF Fetched
  <1>3. CASE Read(c)
    <2>1. UNCHANGED <<stream, trimmed, effects>>
      BY <1>3 DEF Read, arrivalVars, effectVars
    <2>2. PICK page : Fetched(c, page)
      BY <1>3, ReadFacts DEF Takes
    <2> QED
      BY <1>1, <2>1, <2>2 DEF Fetched
  <1>4. CASE Skip(c) \/ Start(c) \/ Mark(c) \/ ReadTimesOut(c) \/ ReadFails(c)
    <2>1. UNCHANGED <<stream, trimmed, effects>>
      BY <1>4 DEF Skip, Start, Mark, ReadTimesOut, ReadFails, arrivalVars, effectVars
    <2>2. PICK next : Goto(c, next)
      BY <1>4 DEF Skip, Start, Mark, ReadTimesOut, ReadFails
    <2> QED
      BY <1>1, <2>1, <2>2 DEF Goto
  <1>5. CASE Effect(c)
    <2>1. /\ UNCHANGED <<stream, trimmed>> /\ Goto(c, "mark")
          /\ effects' = [effects EXCEPT ![CurrentEvent(c)] = @ + 1]
      BY <1>5 DEF Effect, arrivalVars
    <2> QED
      BY <1>1, <2>1 DEF Goto
  <1>6. CASE Ack(c) \/ AckFails(c) \/ DeliveryFails(c)
    <2>1. UNCHANGED <<stream, trimmed, effects>> /\ Advance(c)
      BY <1>6 DEF Ack, AckFails, DeliveryFails, arrivalVars, effectVars
    <2> QED
      BY <1>1, <2>1 DEF Advance
  <1>7. CASE ReclaimFails(c) \/ ConsumerCrash(c)
    <2>1. UNCHANGED <<stream, trimmed, effects>>
      BY <1>7 DEF ReclaimFails, ConsumerCrash, arrivalVars, effectVars
    <2>2. PICK next : phase' = [phase EXCEPT ![c] = next]
      BY <1>7 DEF ReclaimFails, ConsumerCrash
    <2>3. queue' = queue \/ queue' = [queue EXCEPT ![c] = {}]
      BY <1>7 DEF ReclaimFails, ConsumerCrash
    <2> QED
      BY <1>1, <2>1, <2>2, <2>3
  <1> QED
    BY <1>2, <1>3, <1>4, <1>5, <1>6, <1>7 DEF ConsumerStep, ConsumerFault

\* A consumer whose queue stands is still about the same event: entries never
\* change once they are in the stream.
LEMMA SameCurrent ==
    ASSUME GroupTypeOK, NEW d \in Consumer, phase[d] \in Delivering, queue'[d] = queue[d],
           \A p \in 1 .. Len(stream) : stream'[p] = stream[p]
    PROVE  Current(d)' = Current(d) /\ CurrentEvent(d)' = CurrentEvent(d)
  <1>1. Current(d)' = Current(d)
    BY DEF Current
  <1>2. Current(d) \in 1 .. Len(stream)
    <2>1. Current(d) \in 1 .. lastId
      BY CurrentIsHeld
    <2>2. lastId \in Nat /\ Len(stream) \in Nat /\ lastId <= Len(stream)
      BY DEF GroupTypeOK
    <2> QED
      BY <2>1, <2>2
  <1> QED
    BY <1>1, <1>2 DEF CurrentEvent

\* Where each of a consumer's steps leaves it.
LEMMA TurnFacts ==
    ASSUME GroupTypeOK, NEW c \in Consumer
    PROVE  /\ Skip(c) => phase[c] = "check" /\ phase'[c] = "ack" /\ queue' = queue
           /\ Start(c) => phase[c] = "check" /\ phase'[c] = "run" /\ queue' = queue
           /\ Effect(c) => phase[c] = "run" /\ phase'[c] = "mark" /\ queue' = queue
           /\ Mark(c) => phase[c] = "mark" /\ phase'[c] = "ack" /\ queue' = queue
           /\ Ack(c) \/ AckFails(c) => phase[c] = "ack"
           /\ DeliveryFails(c) => phase[c] \in {"check", "run", "mark"}
           /\ Reclaim(c) \/ Read(c) \/ ReadTimesOut(c) \/ ReclaimFails(c) \/ ReadFails(c)
                => phase[c] \in {"reclaim", "read"}
           /\ \/ Reclaim(c) \/ Read(c) \/ ReadTimesOut(c) \/ Ack(c) \/ ConsumerFault(c)
              => phase'[c] \in {"check", "reclaim", "read"}
  <1>1. /\ phase \in [Consumer -> {"reclaim", "read"} \cup Delivering]
        /\ after \in [Consumer -> {"reclaim", "read"}]
    BY DEF GroupTypeOK
  <1>2. \A next : Goto(c, next) => phase'[c] = next /\ queue' = queue
    BY <1>1 DEF Goto
  <1>3. /\ Skip(c) => phase[c] = "check" /\ phase'[c] = "ack" /\ queue' = queue
        /\ Start(c) => phase[c] = "check" /\ phase'[c] = "run" /\ queue' = queue
        /\ Effect(c) => phase[c] = "run" /\ phase'[c] = "mark" /\ queue' = queue
        /\ Mark(c) => phase[c] = "mark" /\ phase'[c] = "ack" /\ queue' = queue
    BY <1>2 DEF Skip, Start, Effect, Mark
  <1>4. /\ Ack(c) \/ AckFails(c) => phase[c] = "ack"
        /\ DeliveryFails(c) => phase[c] \in {"check", "run", "mark"}
        /\ Reclaim(c) \/ Read(c) \/ ReadTimesOut(c) \/ ReclaimFails(c) \/ ReadFails(c)
                => phase[c] \in {"reclaim", "read"}
    BY DEF Ack, AckFails, DeliveryFails, Reclaim, Read, ReadTimesOut, ReclaimFails, ReadFails
  <1>5. Advance(c) => phase'[c] \in {"check", "reclaim", "read"}
    BY <1>1 DEF Advance
  <1>6. \A page : Fetched(c, page) => phase'[c] = "check"
    BY <1>1 DEF Fetched
  <1>7. Reclaim(c) => phase'[c] \in {"check", "reclaim", "read"}
    <2> SUFFICES ASSUME Reclaim(c) PROVE phase'[c] \in {"check", "reclaim", "read"}
      OBVIOUS
    <2>1. PICK page, live : Adopts(c, page, live)
      BY ReclaimFacts
    <2>2. \/ phase' \in {[phase EXCEPT ![c] = next] : next \in {"reclaim", "read"}}
          \/ Fetched(c, live)
      BY <2>1 DEF Adopts
    <2> QED
      BY <1>1, <1>6, <2>2
  <1>8. Read(c) => phase'[c] \in {"check", "reclaim", "read"}
    BY <1>6, ReadFacts DEF Takes
  <1>9. ReadTimesOut(c) \/ ReadFails(c) => phase'[c] = "reclaim"
    BY <1>2 DEF ReadTimesOut, ReadFails
  <1>10. ReclaimFails(c) \/ ConsumerCrash(c) => phase'[c] \in {"reclaim", "read"}
    BY <1>1 DEF ReclaimFails, ConsumerCrash
  <1>11. Ack(c) \/ AckFails(c) \/ DeliveryFails(c) => Advance(c)
    BY DEF Ack, AckFails, DeliveryFails
  <1> QED
    BY <1>3, <1>4, <1>5, <1>7, <1>8, <1>9, <1>10, <1>11 DEF ConsumerFault

-----------------------------------------------------------------------------
(* Acks. *)

\* A mark is written after the effect it stands for (Dedupe: run, then mark).
MarksHaveRun == \A e \in marks : effects[e] > 0

\* So is what a delivery that is about to mark or ack stands for.
DeliveriesHaveRun ==
    \A c \in Consumer :
        /\ phase[c] = "mark" => effects[CurrentEvent(c)] > 0
        /\ phase[c] = "ack" => CurrentEvent(c) \in Undecodable \/ effects[CurrentEvent(c)] > 0

\* The inductive invariant of the acks.
AckInv ==
    /\ GroupTypeOK
    /\ MarksHaveRun
    /\ DeliveriesHaveRun
    /\ AckedMeansEffectRan

\* A delivery that stands still has run what it had run.
LEMMA StandingHaveRun ==
    ASSUME AckInv, NEW d \in Consumer, phase'[d] = phase[d], queue'[d] = queue[d],
           \A p \in 1 .. Len(stream) : stream'[p] = stream[p],
           \A e \in Event : effects[e] \in Nat /\ effects'[e] \in Nat /\ effects'[e] >= effects[e]
    PROVE  /\ phase'[d] = "mark" => effects'[CurrentEvent(d)'] > 0
           /\ phase'[d] = "ack" =>
                CurrentEvent(d)' \in Undecodable \/ effects'[CurrentEvent(d)'] > 0
  <1>1. CASE phase[d] \in Delivering
    <2>1. CurrentEvent(d)' = CurrentEvent(d) /\ CurrentEvent(d) \in Event
      BY <1>1, SameCurrent, CurrentIsHeld DEF AckInv
    <2> QED
      BY <2>1 DEF AckInv, DeliveriesHaveRun
  <1>2. CASE phase[d] \notin Delivering
    BY <1>2, PhaseFacts
  <1> QED
    BY <1>1, <1>2

\* A position behind a later bound is behind an earlier one (trimmed, lastId).
LEMMA LaterBound ==
    ASSUME NEW a \in Nat, NEW b \in Nat, NEW n \in Nat, NEW m \in Nat, a <= b, n <= m,
           NEW p \in b + 1 .. n
    PROVE  p \in a + 1 .. n /\ p \in 1 .. m
  OBVIOUS

\* Nothing leaves the pending list, and the group moves past nothing.
LEMMA StandingAcks ==
    ASSUME AckInv, GroupTypeOK', lastId' = lastId, trimmed <= trimmed', Pending \subseteq Pending',
           \A p \in 1 .. Len(stream) : stream'[p] = stream[p],
           \A e \in Event : effects[e] \in Nat /\ effects'[e] \in Nat /\ effects'[e] >= effects[e]
    PROVE  AckedMeansEffectRan'
  <1> SUFFICES ASSUME NEW p \in trimmed' + 1 .. lastId, p \notin Pending', stream'[p] \notin Undecodable
               PROVE  effects'[stream'[p]] > 0
    BY DEF AckedMeansEffectRan
  <1>1. /\ trimmed \in Nat /\ trimmed' \in Nat /\ lastId \in Nat /\ lastId <= Len(stream)
        /\ Len(stream) \in Nat /\ stream \in Seq(Event)
    BY DEF AckInv, GroupTypeOK
  <1>2. p \in trimmed + 1 .. lastId /\ p \in 1 .. Len(stream)
    <2>1. trimmed <= trimmed' /\ p \in trimmed' + 1 .. lastId
      OBVIOUS
    <2> QED
      BY ONLY <1>1, <2>1, LaterBound
  <1>3. stream'[p] = stream[p] /\ stream[p] \in Event /\ p \notin Pending
    BY <1>1, <1>2
  <1>4. effects[stream[p]] > 0
    BY <1>2, <1>3 DEF AckInv, AckedMeansEffectRan
  <1> QED
    BY <1>3, <1>4

\* XAUTOCLAIM forgets only what MAXLEN evicted.
LEMMA ReclaimKeepsAcks ==
    ASSUME AckInv, NEW c \in Consumer, Reclaim(c), UNCHANGED <<stream, trimmed>>
    PROVE  AckedMeansEffectRan'
  <1>0. PICK page, live : Adopts(c, page, live)
    BY ReclaimFacts DEF AckInv
  <1>1. /\ \A p \in page \ live : p <= trimmed
        /\ idle' = [p \in Pending \ (page \ live) |-> IF p \in live THEN 0 ELSE idle[p]]
    BY <1>0 DEF Adopts
  <1>2. Pending' = Pending \ (page \ live)
    BY <1>1 DEF Pending
  <1>3. lastId' = lastId /\ effects' = effects
    BY DEF Reclaim, effectVars
  <1>4. trimmed \in Nat /\ lastId \in Nat
    BY DEF AckInv, GroupTypeOK
  <1> SUFFICES ASSUME NEW p \in trimmed + 1 .. lastId, p \notin Pending', stream[p] \notin Undecodable
               PROVE  effects[stream[p]] > 0
    BY <1>3 DEF AckedMeansEffectRan
  <1>5. p \notin page \ live
    BY <1>1, <1>4
  <1> QED
    BY <1>2, <1>5 DEF AckInv, AckedMeansEffectRan

\* XREADGROUP makes pending whatever it moves past, or MAXLEN evicted it.
LEMMA ReadKeepsAcks ==
    ASSUME AckInv, NEW c \in Consumer, Read(c), UNCHANGED <<stream, trimmed>>
    PROVE  AckedMeansEffectRan'
  <1>0. PICK page : Takes(c, page)
    BY ReadFacts DEF AckInv
  <1>1. /\ lastId < lastId' /\ lastId' \in Nat
        /\ \A p \in lastId + 1 .. lastId' : p > trimmed => p \in page
        /\ idle' = Reset(page, 0)
    BY <1>0 DEF Takes
  <1>2. Pending' = Pending \cup page
    BY <1>1 DEF Pending, Reset
  <1>3. effects' = effects
    BY DEF Read, effectVars
  <1>4. trimmed \in Nat /\ lastId \in Nat
    BY DEF AckInv, GroupTypeOK
  <1> SUFFICES ASSUME NEW p \in trimmed + 1 .. lastId', p \notin Pending', stream[p] \notin Undecodable
               PROVE  effects[stream[p]] > 0
    BY <1>3 DEF AckedMeansEffectRan
  <1>5. p \in trimmed + 1 .. lastId
    <2>1. p > trimmed /\ p \in Nat /\ p <= lastId'
      BY <1>1, <1>4
    <2>2. p \notin lastId + 1 .. lastId'
      BY <1>1, <1>2, <2>1
    <2> QED
      BY <1>1, <1>4, <2>1, <2>2
  <1> QED
    BY <1>2, <1>5 DEF AckInv, AckedMeansEffectRan

\* XACK forgets an entry whose effect ran, or that does not decode.
LEMMA AckKeepsAcks ==
    ASSUME AckInv, NEW c \in Consumer, Ack(c), UNCHANGED <<stream, trimmed>>
    PROVE  AckedMeansEffectRan'
  <1>1. phase[c] = "ack" /\ idle' = Forget({Current(c)}) /\ lastId' = lastId /\ effects' = effects
    BY DEF Ack, effectVars
  <1>2. Pending' = Pending \ {Current(c)}
    BY <1>1 DEF Pending, Forget
  <1>3. stream[Current(c)] \in Undecodable \/ effects[stream[Current(c)]] > 0
    BY <1>1 DEF AckInv, DeliveriesHaveRun, CurrentEvent
  <1> QED
    BY <1>1, <1>2, <1>3 DEF AckInv, AckedMeansEffectRan

\* Every step keeps the invariant of the acks.
LEMMA AckInvNext == AckInv /\ [GroupNext]_groupVars => AckInv'
  <1> SUFFICES ASSUME AckInv, [GroupNext]_groupVars PROVE AckInv'
    OBVIOUS
  <1>0. GroupTypeOK /\ GroupTypeOK'
    BY GroupTypesNext DEF AckInv
  <1>a. \A e \in Event : effects[e] \in Nat /\ effects'[e] \in Nat
    BY <1>0 DEF GroupTypeOK
  <1>b. marks \subseteq Event /\ trimmed \in Nat
    BY <1>0 DEF GroupTypeOK
  <1>1. ASSUME NEW c \in Consumer, ConsumerStep(c) \/ ConsumerFault(c) PROVE AckInv'
    <2>1. /\ UNCHANGED <<stream, trimmed>>
          /\ \A d \in Consumer \ {c} : phase'[d] = phase[d] /\ queue'[d] = queue[d]
          /\ \A e \in Event : effects'[e] >= effects[e]
      BY <1>0, <1>1, StepOfOne
    <2>2. MarksHaveRun'
      <3>1. CASE Mark(c)
        <4>1. phase[c] = "mark" /\ marks' = marks \cup {CurrentEvent(c)} /\ effects' = effects
          BY <3>1 DEF Mark
        <4> QED
          BY <4>1 DEF AckInv, MarksHaveRun, DeliveriesHaveRun
      <3>2. CASE ~Mark(c)
        <4>1. marks' = marks
          BY <1>1, <3>2 DEF ConsumerStep, ConsumerFault, Reclaim, Read, ReadTimesOut, Skip, Start,
             Effect, Ack, ReclaimFails, ReadFails, DeliveryFails, AckFails, ConsumerCrash, effectVars
        <4> QED
          BY <1>a, <1>b, <2>1, <4>1 DEF AckInv, MarksHaveRun
      <3> QED
        BY <3>1, <3>2
    <2>3. /\ phase'[c] = "mark" => effects'[CurrentEvent(c)'] > 0
          /\ phase'[c] = "ack" => CurrentEvent(c)' \in Undecodable \/ effects'[CurrentEvent(c)'] > 0
      <3>1. CASE Skip(c) \/ Start(c) \/ Effect(c) \/ Mark(c)
        <4>1. phase[c] \in Delivering /\ queue' = queue
          BY <1>0, <3>1, TurnFacts, PhaseFacts
        <4>2. CurrentEvent(c)' = CurrentEvent(c) /\ CurrentEvent(c) \in Event
          BY <1>0, <2>1, <4>1, SameCurrent, CurrentIsHeld
        <4>3. CASE Skip(c)
          <5>1. CurrentEvent(c) \in Undecodable \cup marks /\ phase'[c] = "ack" /\ effects' = effects
            BY <1>0, <4>3, TurnFacts DEF Skip, effectVars
          <5> QED
            BY <4>2, <5>1 DEF AckInv, MarksHaveRun
        <4>4. CASE Start(c)
          BY <1>0, <4>4, TurnFacts
        <4>5. CASE Effect(c)
          <5>1. phase'[c] = "mark" /\ effects' = [effects EXCEPT ![CurrentEvent(c)] = @ + 1]
            BY <1>0, <4>5, TurnFacts DEF Effect
          <5>2. effects'[CurrentEvent(c)] = effects[CurrentEvent(c)] + 1
            BY <1>0, <4>2, <5>1 DEF GroupTypeOK
          <5> QED
            BY <1>a, <4>2, <5>1, <5>2
        <4>6. CASE Mark(c)
          <5>1. phase[c] = "mark" /\ phase'[c] = "ack" /\ effects' = effects
            BY <1>0, <4>6, TurnFacts DEF Mark
          <5> QED
            BY <4>2, <5>1 DEF AckInv, DeliveriesHaveRun
        <4> QED
          BY <3>1, <4>3, <4>4, <4>5, <4>6
      <3>2. CASE ~(Skip(c) \/ Start(c) \/ Effect(c) \/ Mark(c))
        <4>1. phase'[c] \in {"check", "reclaim", "read"}
          BY <1>0, <1>1, <3>2, TurnFacts DEF ConsumerStep
        <4> QED
          BY <4>1
      <3> QED
        BY <3>1, <3>2
    <2>4. DeliveriesHaveRun'
      BY <1>a, <2>1, <2>3, StandingHaveRun DEF DeliveriesHaveRun
    <2>5. AckedMeansEffectRan'
      <3>1. CASE Reclaim(c) \/ Read(c) \/ Ack(c)
        BY <2>1, <3>1, ReclaimKeepsAcks, ReadKeepsAcks, AckKeepsAcks
      <3>2. CASE ~(Reclaim(c) \/ Read(c) \/ Ack(c))
        <4>1. UNCHANGED <<lastId, idle>>
          BY <1>1, <3>2 DEF ConsumerStep, ConsumerFault, ReadTimesOut, Skip, Start, Effect, Mark,
             ReclaimFails, ReadFails, DeliveryFails, AckFails, ConsumerCrash, pelVars
        <4>2. Pending' = Pending /\ trimmed <= trimmed'
          BY <1>b, <2>1, <4>1 DEF Pending
        <4> QED
          BY <1>0, <1>a, <2>1, <4>1, <4>2, StandingAcks
      <3> QED
        BY <3>1, <3>2
    <2> QED
      BY <1>0, <2>2, <2>4, <2>5 DEF AckInv
  <1>2. ASSUME UNCHANGED <<effects, phase, queue, lastId>>, Pending' = Pending, marks' \subseteq marks,
               trimmed <= trimmed', \A p \in 1 .. Len(stream) : stream'[p] = stream[p]
        PROVE  AckInv'
    <2>1. MarksHaveRun'
      BY <1>2 DEF AckInv, MarksHaveRun
    <2>2. \A e \in Event : effects'[e] >= effects[e]
      BY <1>2, <1>a
    <2>3. DeliveriesHaveRun'
      BY <1>2, <1>a, <2>2, StandingHaveRun DEF DeliveriesHaveRun
    <2>4. AckedMeansEffectRan'
      BY <1>0, <1>2, <1>a, <2>2, StandingAcks
    <2> QED
      BY <1>0, <2>1, <2>3, <2>4 DEF AckInv
  <1>3. CASE Tick
    <2>1. Pending' = Pending
      BY <1>3 DEF Tick, Pending
    <2> QED
      BY <1>2, <1>3, <1>b, <2>1 DEF Tick, arrivalVars, effectVars
  <1>4. CASE Trim
    BY <1>2, <1>4, <1>b DEF Trim, pelVars, loopVars, effectVars, Pending
  <1>5. ASSUME NEW e \in Event, Arrive(e) PROVE AckInv'
    <2>1. stream' = Append(stream, e) /\ stream \in Seq(Event)
      BY <1>0, <1>5 DEF Arrive, GroupTypeOK
    <2>2. \A p \in 1 .. Len(stream) : stream'[p] = stream[p]
      BY <2>1
    <2> QED
      BY <1>2, <1>5, <1>b, <2>2 DEF Arrive, pelVars, loopVars, effectVars, Pending
  <1>6. ASSUME NEW e \in Event, MarkExpires(e) PROVE AckInv'
    BY <1>2, <1>6, <1>b DEF MarkExpires, arrivalVars, pelVars, loopVars, Pending
  <1>7. CASE UNCHANGED groupVars
    BY <1>2, <1>7, <1>b DEF groupVars, arrivalVars, pelVars, loopVars, effectVars, Pending
  <1> QED
    BY <1>1, <1>3, <1>4, <1>5, <1>6, <1>7 DEF GroupNext, GroupStep

\* What the relay does meanwhile, adding entries and evicting old ones (XADD
\* with MAXLEN), seen from the group.
StreamGrows ==
    /\ UNCHANGED <<pelVars, loopVars, effectVars, budgetVars>>
    /\ stream' \in Seq(Event) /\ Len(stream) <= Len(stream')
    /\ \A p \in 1 .. Len(stream) : stream'[p] = stream[p]
    /\ trimmed' \in trimmed .. Len(stream')

\* It leaves what the group holds where it was.
LEMMA GrowthKeepsTypes ==
    ASSUME GroupTypeOK, StreamGrows
    PROVE  GroupTypeOK'
  <1>1. LogTypes /\ LoopTypes /\ EffectTypes
    BY TypesSplit
  <1>2. /\ UNCHANGED <<lastId, idle, phase, queue, after, cursor, elapsed, held>>
        /\ UNCHANGED <<marks, effects, faults, expiries>>
    BY DEF StreamGrows, pelVars, loopVars, effectVars, budgetVars
  <1>3. stream \in Seq(Event) /\ trimmed \in Nat /\ lastId \in 0 .. Len(stream)
    BY <1>1 DEF LogTypes
  <1>4. 0 .. Len(stream) \subseteq 0 .. Len(stream') /\ trimmed' \in 0 .. Len(stream')
    BY <1>3 DEF StreamGrows
  <1>5. LogTypes'
    BY <1>1, <1>2, <1>4 DEF StreamGrows, LogTypes, Pending
  <1>6. LoopTypes'
    BY <1>1, <1>2, <1>4 DEF LoopTypes
  <1>7. EffectTypes'
    BY <1>1, <1>2 DEF EffectTypes
  <1> QED
    BY <1>5, <1>6, <1>7, TypesSplit

\* And neither acks nor unruns anything.
LEMMA GrowthKeepsAcks ==
    ASSUME AckInv, StreamGrows
    PROVE  AckInv'
  <1>1. GroupTypeOK /\ GroupTypeOK'
    BY GrowthKeepsTypes DEF AckInv
  <1>2. UNCHANGED <<lastId, idle, phase, queue, marks, effects>>
    BY DEF StreamGrows, pelVars, loopVars, effectVars
  <1>3. \A e \in Event : effects[e] \in Nat /\ effects'[e] \in Nat /\ effects'[e] >= effects[e]
    BY <1>1, <1>2 DEF GroupTypeOK
  <1>4. \A p \in 1 .. Len(stream) : stream'[p] = stream[p]
    BY DEF StreamGrows
  <1>5. MarksHaveRun'
    BY <1>2 DEF AckInv, MarksHaveRun
  <1>6. DeliveriesHaveRun'
    BY <1>2, <1>3, <1>4, StandingHaveRun DEF DeliveriesHaveRun
  <1>7. trimmed <= trimmed'
    <2>1. trimmed \in Nat /\ Len(stream') \in Nat
      BY <1>1 DEF GroupTypeOK
    <2> QED
      BY <2>1 DEF StreamGrows
  <1>8. Pending' = Pending
    BY <1>2 DEF Pending
  <1>9. AckedMeansEffectRan'
    BY <1>1, <1>2, <1>3, <1>4, <1>7, <1>8, StandingAcks
  <1> QED
    BY <1>1, <1>5, <1>6, <1>9 DEF AckInv

\* The empty group has acked nothing.
LEMMA AckInvInit == GroupInit => AckInv
  <1> SUFFICES ASSUME GroupInit PROVE AckInv
    OBVIOUS
  <1>1. marks = {} /\ lastId = 0 /\ trimmed = 0 /\ \A c \in Consumer : phase[c] = "reclaim"
    BY DEF GroupInit
  <1> QED
    BY <1>1, GroupTypesInit DEF AckInv, MarksHaveRun, DeliveriesHaveRun, AckedMeansEffectRan

\* Run-then-mark and ack-after-success lose nothing: an entry leaves the
\* pending list only when its effect ran, it cannot be decoded, or MAXLEN
\* evicted it (deliver, Dedupe, ack).
THEOREM AcksFollowEffects == GroupSpec => []AckedMeansEffectRan
  <1>1. AckInv => AckedMeansEffectRan
    BY DEF AckInv
  <1> QED
    BY <1>1, AckInvInit, AckInvNext, PTL DEF GroupSpec

-----------------------------------------------------------------------------
(* Re-runs. *)

\* The consumers in one phase of delivering one event.
AtWork(ph, e) == {c \in Consumer : phase[c] = ph /\ CurrentEvent(c) = e}

\* The effects that faults and expired marks have made possible.
Allowed == Cardinality(Consumer) * (faults + expiries)

\* An unmarked event has run as often as that, and once more for each delivery
\* that has run it and not marked it; a marked one has room left for every
\* delivery that found the mark absent and is still running.
RunsAreCounted(e) ==
    /\ e \in marks =>
         effects[e] + Cardinality(AtWork("run", e)) <= Allowed + Cardinality(Consumer)
    /\ e \notin marks =>
         effects[e] <= Allowed + Cardinality(AtWork("mark", e))

\* The inductive invariant of the re-runs.
RunsInv == GroupTypeOK /\ \A e \in Event : RunsAreCounted(e)

\* At most all replicas work on an event, each in one phase.
LEMMA WorkIsBounded ==
    ASSUME NEW e
    PROVE  /\ Cardinality(Consumer) \in Nat
           /\ \A ph : IsFiniteSet(AtWork(ph, e)) /\ Cardinality(AtWork(ph, e)) \in Nat
           /\ Cardinality(AtWork("run", e)) + Cardinality(AtWork("mark", e)) <= Cardinality(Consumer)
  <1>1. IsFiniteSet(Consumer)
    BY GroupAssumption
  <1>2. \A ph : AtWork(ph, e) \subseteq Consumer
    BY DEF AtWork
  <1>3. \A ph : IsFiniteSet(AtWork(ph, e))
    BY <1>1, <1>2, FS_Subset
  <1>4. \A ph : Cardinality(AtWork(ph, e)) \in Nat
    BY <1>3, FS_CardinalityType
  <1>5. Cardinality(Consumer) \in Nat
    BY <1>1, FS_CardinalityType
  <1> DEFINE R == AtWork("run", e)
             M == AtWork("mark", e)
  <1>6. R \cap M = {}
    BY DEF AtWork
  <1>7. /\ IsFiniteSet(R \cup M) /\ Cardinality(R \cap M) = 0
        /\ Cardinality(R \cup M) = Cardinality(R) + Cardinality(M) - Cardinality(R \cap M)
    BY <1>3, <1>6, FS_Union, FS_EmptySet
  <1>8. Cardinality(R \cup M) <= Cardinality(Consumer)
    BY <1>1, <1>2, FS_Subset
  <1> HIDE DEF R, M
  <1>9. Cardinality(R) + Cardinality(M) <= Cardinality(Consumer)
    BY <1>4, <1>7, <1>8 DEF R, M
  <1> QED
    BY <1>3, <1>4, <1>5, <1>9 DEF R, M

\* Each fault, and each expiry, allows one more effect per replica.
LEMMA AllowedGrows ==
    ASSUME GroupTypeOK
    PROVE  /\ Allowed \in Nat
           /\ UNCHANGED <<faults, expiries>> => Allowed' = Allowed
           /\ faults' = faults + 1 /\ expiries' = expiries => Allowed' = Allowed + Cardinality(Consumer)
           /\ faults' = faults /\ expiries' = expiries + 1 => Allowed' = Allowed + Cardinality(Consumer)
  <1>1. Cardinality(Consumer) \in Nat /\ faults \in Nat /\ expiries \in Nat
    <2>1. Cardinality(Consumer) \in Nat
      BY GroupAssumption, FS_CardinalityType
    <2>2. faults \in Nat /\ expiries \in Nat
      BY ConstantFacts DEF GroupTypeOK
    <2> QED
      BY <2>1, <2>2
  <1>2. \A n, k \in Nat : n * k \in Nat /\ n * (k + 1) = n * k + n
    OBVIOUS
  <1>3. faults + expiries \in Nat
    BY <1>1
  <1>4. /\ Cardinality(Consumer) * (faults + expiries) \in Nat
        /\ Cardinality(Consumer) * (faults + expiries + 1)
             = Cardinality(Consumer) * (faults + expiries) + Cardinality(Consumer)
    BY <1>1, <1>2, <1>3
  <1>5. faults + 1 + expiries = faults + expiries + 1 /\ faults + (expiries + 1) = faults + expiries + 1
    BY <1>1
  <1> QED
    BY <1>4, <1>5 DEF Allowed

\* Whoever does not step stays at work where it was.
LEMMA OthersStayAtWork ==
    ASSUME GroupTypeOK, NEW ph \in {"run", "mark"}, NEW e, NEW d \in Consumer,
           phase'[d] = phase[d], queue'[d] = queue[d],
           \A p \in 1 .. Len(stream) : stream'[p] = stream[p]
    PROVE  d \in AtWork(ph, e)' <=> d \in AtWork(ph, e)
  <1>1. CASE phase[d] \in Delivering
    BY <1>1, SameCurrent DEF AtWork
  <1>2. CASE phase[d] \notin Delivering
    BY <1>2, PhaseFacts DEF AtWork
  <1> QED
    BY <1>1, <1>2

\* So a step of one consumer changes at most its own place.
LEMMA WorkOfOne ==
    ASSUME GroupTypeOK, NEW c \in Consumer, ConsumerStep(c) \/ ConsumerFault(c),
           NEW ph \in {"run", "mark"}, NEW e
    PROVE  AtWork(ph, e)' \ {c} = AtWork(ph, e) \ {c}
  <1>1. /\ UNCHANGED <<stream, trimmed>>
        /\ \A d \in Consumer \ {c} : phase'[d] = phase[d] /\ queue'[d] = queue[d]
    BY StepOfOne
  <1>2. \A d \in Consumer \ {c} : d \in AtWork(ph, e)' <=> d \in AtWork(ph, e)
    BY <1>1, OthersStayAtWork
  <1>3. AtWork(ph, e)' \subseteq Consumer /\ AtWork(ph, e) \subseteq Consumer
    BY DEF AtWork
  <1> QED
    BY <1>2, <1>3

\* Counting what the stepping consumer adds and removes.
LEMMA OneMoreOrLess ==
    ASSUME NEW S, NEW T, NEW x, IsFiniteSet(S), IsFiniteSet(T), S \ {x} = T \ {x}
    PROVE  /\ (x \in S <=> x \in T) => S = T
           /\ x \in S /\ x \notin T => Cardinality(S) = Cardinality(T) + 1
           /\ x \notin T => Cardinality(T) <= Cardinality(S)
  <1>1. (x \in S <=> x \in T) => S = T
    OBVIOUS
  <1>2. ASSUME x \in S, x \notin T PROVE Cardinality(S) = Cardinality(T) + 1
    <2>1. S = T \cup {x}
      BY <1>2
    <2> QED
      BY <1>2, <2>1, FS_AddElement
  <1>3. ASSUME x \notin T PROVE Cardinality(T) <= Cardinality(S)
    <2>1. T \subseteq S
      BY <1>3
    <2> QED
      BY <2>1, FS_Subset
  <1> QED
    BY <1>1, <1>2, <1>3

\* A fault: its consumer leaves its work, and every replica may run the effect
\* once more.
LEMMA FaultKeepsRuns ==
    ASSUME RunsInv, NEW c \in Consumer, ConsumerFault(c), NEW e \in Event
    PROVE  RunsAreCounted(e)'
  <1>0. GroupTypeOK /\ RunsAreCounted(e) /\ effects[e] \in Nat
    BY DEF RunsInv, GroupTypeOK
  <1>1. UNCHANGED <<marks, effects>> /\ faults' = faults + 1 /\ expiries' = expiries
    BY DEF ConsumerFault, ReclaimFails, ReadFails, DeliveryFails, AckFails, ConsumerCrash, Fails,
           effectVars
  <1>2. Allowed \in Nat /\ Allowed' = Allowed + Cardinality(Consumer)
    BY <1>0, <1>1, AllowedGrows
  <1>3. phase'[c] \in {"check", "reclaim", "read"}
    BY <1>0, TurnFacts
  <1>4. \A ph \in {"run", "mark"} :
          /\ AtWork(ph, e)' \ {c} = AtWork(ph, e) \ {c} /\ c \notin AtWork(ph, e)'
          /\ IsFiniteSet(AtWork(ph, e)) /\ Cardinality(AtWork(ph, e)) \in Nat
    <2>1. \A ph \in {"run", "mark"} : AtWork(ph, e)' \ {c} = AtWork(ph, e) \ {c}
      BY <1>0, WorkOfOne
    <2>2. \A ph \in {"run", "mark"} : c \notin AtWork(ph, e)'
      BY <1>3 DEF AtWork
    <2>3. \A ph : IsFiniteSet(AtWork(ph, e)) /\ Cardinality(AtWork(ph, e)) \in Nat
      BY WorkIsBounded
    <2> QED
      BY <2>1, <2>2, <2>3
  <1>5. \A ph \in {"run", "mark"} : AtWork(ph, e)' \subseteq AtWork(ph, e)
    BY <1>4
  <1>6. \A ph \in {"run", "mark"} :
          IsFiniteSet(AtWork(ph, e)') /\ Cardinality(AtWork(ph, e)') <= Cardinality(AtWork(ph, e))
    BY <1>4, <1>5, FS_Subset
  <1>7. \A ph \in {"run", "mark"} : Cardinality(AtWork(ph, e)') \in Nat
    BY <1>6, FS_CardinalityType
  <1>8. /\ Cardinality(Consumer) \in Nat
        /\ Cardinality(AtWork("mark", e)) <= Cardinality(Consumer)
    BY <1>4, WorkIsBounded
  <1>9. e \in marks => effects[e] + Cardinality(AtWork("run", e)') <= Allowed' + Cardinality(Consumer)
    BY <1>0, <1>2, <1>4, <1>6, <1>7, <1>8 DEF RunsAreCounted
  <1>10. e \notin marks => effects[e] <= Allowed' + Cardinality(AtWork("mark", e)')
    BY <1>0, <1>2, <1>4, <1>7, <1>8 DEF RunsAreCounted
  <1> QED
    BY <1>1, <1>9, <1>10 DEF RunsAreCounted

\* A step of a delivery that does not fail (Skip, Start, Effect, Mark, Ack), and
\* the fetches.
LEMMA StepKeepsRuns ==
    ASSUME RunsInv, NEW c \in Consumer, ConsumerStep(c), NEW e \in Event
    PROVE  RunsAreCounted(e)'
  <1>0. GroupTypeOK /\ RunsAreCounted(e) /\ effects \in [Event -> Nat]
    BY DEF RunsInv, GroupTypeOK
  <1>1. UNCHANGED <<faults, expiries>>
    BY DEF ConsumerStep, Reclaim, Read, ReadTimesOut, Skip, Start, Effect, Mark, Ack, budgetVars
  <1>2. Allowed \in Nat /\ Allowed' = Allowed
    BY <1>0, <1>1, AllowedGrows
  <1> DEFINE R == AtWork("run", e)
             M == AtWork("mark", e)
  <1>3. /\ IsFiniteSet(R) /\ Cardinality(R) \in Nat /\ IsFiniteSet(M) /\ Cardinality(M) \in Nat
        /\ Cardinality(Consumer) \in Nat /\ Cardinality(R) + Cardinality(M) <= Cardinality(Consumer)
    BY WorkIsBounded
  <1>4. R' \ {c} = R \ {c} /\ M' \ {c} = M \ {c}
    BY <1>0, WorkOfOne
  <1>5. IsFiniteSet(R') /\ IsFiniteSet(M')
    <2>1. R' \subseteq Consumer /\ M' \subseteq Consumer
      BY DEF AtWork
    <2> QED
      BY <2>1, GroupAssumption, FS_Subset
  <1>5a. Cardinality(R') \in Nat /\ Cardinality(M') \in Nat
    BY <1>5, FS_CardinalityType
  <1>6. /\ (c \in R' <=> c \in R) => R' = R
        /\ (c \in M' <=> c \in M) => M' = M
        /\ c \in M' /\ c \notin M => Cardinality(M') = Cardinality(M) + 1
        /\ c \in R /\ c \notin R' => Cardinality(R) = Cardinality(R') + 1
    BY <1>3, <1>4, <1>5, OneMoreOrLess
  <1>7. /\ c \in R <=> phase[c] = "run" /\ CurrentEvent(c) = e
        /\ c \in M <=> phase[c] = "mark" /\ CurrentEvent(c) = e
        /\ c \in R' <=> phase'[c] = "run" /\ CurrentEvent(c)' = e
        /\ c \in M' <=> phase'[c] = "mark" /\ CurrentEvent(c)' = e
    BY DEF AtWork
  <1>8. Skip(c) \/ Start(c) \/ Effect(c) \/ Mark(c) => CurrentEvent(c)' = CurrentEvent(c)
    <2> SUFFICES ASSUME Skip(c) \/ Start(c) \/ Effect(c) \/ Mark(c)
                 PROVE  CurrentEvent(c)' = CurrentEvent(c)
      OBVIOUS
    <2>1. phase[c] \in Delivering /\ queue' = queue
      BY <1>0, TurnFacts, PhaseFacts
    <2>2. stream' = stream
      BY <1>0, StepOfOne
    <2> QED
      BY <1>0, <2>1, <2>2, SameCurrent
  <1>9. RunsAreCounted(e)' <=>
          /\ e \in marks' => effects'[e] + Cardinality(R') <= Allowed' + Cardinality(Consumer)
          /\ e \notin marks' => effects'[e] <= Allowed' + Cardinality(M')
    BY DEF RunsAreCounted
  <1>10. /\ e \in marks => effects[e] + Cardinality(R) <= Allowed + Cardinality(Consumer)
         /\ e \notin marks => effects[e] <= Allowed + Cardinality(M)
    BY <1>0 DEF RunsAreCounted
  <1> HIDE DEF R, M
  <1>11. CASE Reclaim(c) \/ Read(c) \/ ReadTimesOut(c) \/ Skip(c) \/ Ack(c)
    <2>1. phase[c] \notin {"run", "mark"} /\ phase'[c] \notin {"run", "mark"}
      BY <1>0, <1>11, TurnFacts
    <2>2. R' = R /\ M' = M
      BY <1>6, <1>7, <2>1
    <2>3. UNCHANGED <<marks, effects>>
      BY <1>11 DEF Reclaim, Read, ReadTimesOut, Skip, Ack, effectVars
    <2> QED
      BY <1>2, <1>9, <1>10, <2>2, <2>3
  <1>12. CASE Start(c)
    <2>1. /\ phase[c] = "check" /\ phase'[c] = "run" /\ UNCHANGED <<marks, effects>>
          /\ CurrentEvent(c) \notin marks
      BY <1>0, <1>12, TurnFacts DEF Start, effectVars
    <2>2. M' = M /\ (e \in marks => R' = R)
      BY <1>6, <1>7, <1>8, <1>12, <2>1
    <2> QED
      BY <1>2, <1>9, <1>10, <2>1, <2>2
  <1>13. CASE Effect(c)
    <2>1. /\ phase[c] = "run" /\ phase'[c] = "mark" /\ marks' = marks
          /\ effects' = [effects EXCEPT ![CurrentEvent(c)] = @ + 1]
      BY <1>0, <1>13, TurnFacts DEF Effect
    <2>2. CASE CurrentEvent(c) = e
      <3>1. effects'[e] = effects[e] + 1 /\ effects[e] \in Nat
        BY <1>0, <2>1, <2>2
      <3>2. Cardinality(M') = Cardinality(M) + 1 /\ Cardinality(R) = Cardinality(R') + 1
        BY <1>6, <1>7, <1>8, <1>13, <2>1, <2>2
      <3> QED
        BY <1>2, <1>3, <1>5a, <1>9, <1>10, <2>1, <3>1, <3>2
    <2>3. CASE CurrentEvent(c) # e
      <3>1. effects'[e] = effects[e]
        BY <1>0, <2>1, <2>3
      <3>2. R' = R /\ M' = M
        BY <1>6, <1>7, <1>8, <1>13, <2>3
      <3> QED
        BY <1>2, <1>9, <1>10, <2>1, <3>1, <3>2
    <2> QED
      BY <2>2, <2>3
  <1>14. CASE Mark(c)
    <2>1. /\ phase[c] = "mark" /\ phase'[c] = "ack" /\ effects' = effects
          /\ marks' = marks \cup {CurrentEvent(c)}
      BY <1>0, <1>14, TurnFacts DEF Mark
    <2>2. R' = R /\ (e # CurrentEvent(c) => M' = M)
      BY <1>6, <1>7, <1>8, <1>14, <2>1
    <2>3. e \in marks' => effects'[e] + Cardinality(R') <= Allowed' + Cardinality(Consumer)
      <3>1. effects[e] \in Nat
        BY <1>0
      <3>2. CASE e \in marks
        BY <1>2, <1>10, <2>1, <2>2, <3>2
      <3>3. CASE e \notin marks
        BY <1>2, <1>3, <1>10, <2>1, <2>2, <3>1, <3>3
      <3> QED
        BY <3>2, <3>3
    <2>4. e \notin marks' => effects'[e] <= Allowed' + Cardinality(M')
      BY <1>2, <1>10, <2>1, <2>2
    <2> QED
      BY <1>9, <2>3, <2>4
  <1> QED
    BY <1>11, <1>12, <1>13, <1>14 DEF ConsumerStep

\* The world leaves everybody at work, and an expired mark pays for itself.
LEMMA WorldKeepsRuns ==
    ASSUME RunsInv, UNCHANGED <<phase, queue, effects, faults>>,
           \A p \in 1 .. Len(stream) : stream'[p] = stream[p],
           \/ UNCHANGED <<marks, expiries>>
           \/ expiries' = expiries + 1 /\ marks' \subseteq marks,
           NEW e \in Event
    PROVE  RunsAreCounted(e)'
  <1>0. GroupTypeOK /\ RunsAreCounted(e) /\ effects[e] \in Nat
    BY DEF RunsInv, GroupTypeOK
  <1> DEFINE R == AtWork("run", e)
             M == AtWork("mark", e)
  <1>1. \A d \in Consumer : (d \in R' <=> d \in R) /\ (d \in M' <=> d \in M)
    BY <1>0, OthersStayAtWork
  <1>2. R \subseteq Consumer /\ R' \subseteq Consumer /\ M \subseteq Consumer /\ M' \subseteq Consumer
    BY DEF AtWork
  <1>3. R' = R /\ M' = M
    BY <1>1, <1>2
  <1>4. /\ Cardinality(R) \in Nat /\ Cardinality(M) \in Nat /\ Cardinality(Consumer) \in Nat
    BY WorkIsBounded
  <1>5. RunsAreCounted(e)' <=>
          /\ e \in marks' => effects'[e] + Cardinality(R') <= Allowed' + Cardinality(Consumer)
          /\ e \notin marks' => effects'[e] <= Allowed' + Cardinality(M')
    BY DEF RunsAreCounted
  <1>6. /\ e \in marks => effects[e] + Cardinality(R) <= Allowed + Cardinality(Consumer)
        /\ e \notin marks => effects[e] <= Allowed + Cardinality(M)
    BY <1>0 DEF RunsAreCounted
  <1> HIDE DEF R, M
  <1>7. CASE UNCHANGED <<marks, expiries>>
    <2>1. Allowed' = Allowed
      BY <1>0, <1>7, AllowedGrows
    <2> QED
      BY <1>3, <1>5, <1>6, <1>7, <2>1
  <1>8. CASE expiries' = expiries + 1 /\ marks' \subseteq marks
    <2>1. Allowed \in Nat /\ Allowed' = Allowed + Cardinality(Consumer)
      BY <1>0, <1>8, AllowedGrows
    <2> QED
      BY <1>0, <1>3, <1>4, <1>5, <1>6, <1>8, <2>1
  <1> QED
    BY <1>7, <1>8

\* However many copies of an event the relay adds.
LEMMA GrowthKeepsRuns ==
    ASSUME RunsInv, StreamGrows
    PROVE  RunsInv'
  <1>1. GroupTypeOK'
    BY GrowthKeepsTypes DEF RunsInv
  <1>2. UNCHANGED <<phase, queue, effects, faults, marks, expiries>>
    BY DEF StreamGrows, loopVars, effectVars, budgetVars
  <1>3. \A p \in 1 .. Len(stream) : stream'[p] = stream[p]
    BY DEF StreamGrows
  <1> QED
    BY <1>1, <1>2, <1>3, WorldKeepsRuns DEF RunsInv

\* Every step keeps the count.
LEMMA RunsInvNext == RunsInv /\ [GroupNext]_groupVars => RunsInv'
  <1> SUFFICES ASSUME RunsInv, [GroupNext]_groupVars PROVE RunsInv'
    OBVIOUS
  <1>0. GroupTypeOK /\ GroupTypeOK'
    BY GroupTypesNext DEF RunsInv
  <1> SUFFICES ASSUME NEW e \in Event PROVE RunsAreCounted(e)'
    BY <1>0 DEF RunsInv
  <1>1. ASSUME NEW c \in Consumer, ConsumerStep(c) \/ ConsumerFault(c) PROVE RunsAreCounted(e)'
    BY <1>1, StepKeepsRuns, FaultKeepsRuns
  <1>2. CASE Tick \/ Trim \/ UNCHANGED groupVars
    <2>1. UNCHANGED <<phase, queue, effects, faults, stream, marks, expiries>>
      BY <1>2 DEF Tick, Trim, groupVars, arrivalVars, pelVars, loopVars, effectVars, budgetVars
    <2> QED
      BY <2>1, WorldKeepsRuns
  <1>3. ASSUME NEW x \in Event, Arrive(x) PROVE RunsAreCounted(e)'
    <2>1. /\ stream' = Append(stream, x) /\ stream \in Seq(Event)
          /\ UNCHANGED <<phase, queue, effects, faults, marks, expiries>>
      BY <1>0, <1>3 DEF Arrive, GroupTypeOK, loopVars, effectVars, budgetVars
    <2>2. \A p \in 1 .. Len(stream) : stream'[p] = stream[p]
      BY <2>1
    <2> QED
      BY <2>1, <2>2, WorldKeepsRuns
  <1>4. ASSUME NEW x \in Event, MarkExpires(x) PROVE RunsAreCounted(e)'
    <2>1. /\ UNCHANGED <<phase, queue, effects, faults, stream>>
          /\ expiries' = expiries + 1 /\ marks' \subseteq marks
      BY <1>4 DEF MarkExpires, arrivalVars, loopVars
    <2> QED
      BY <2>1, WorldKeepsRuns
  <1> QED
    BY <1>1, <1>2, <1>3, <1>4 DEF GroupNext, GroupStep

\* The empty group has run nothing.
LEMMA RunsInvInit == GroupInit => RunsInv
  <1> SUFFICES ASSUME GroupInit, NEW e \in Event PROVE RunsAreCounted(e)
    BY GroupTypesInit DEF RunsInv
  <1>1. effects[e] = 0 /\ marks = {} /\ Allowed \in Nat
    BY GroupTypesInit, AllowedGrows DEF GroupInit
  <1>2. Cardinality(AtWork("mark", e)) \in Nat
    BY WorkIsBounded
  <1> QED
    BY <1>1, <1>2 DEF RunsAreCounted

\* The count bounds the runs of every event.
LEMMA CountBoundsRuns == RunsInv => RerunsAreAccounted
  <1> SUFFICES ASSUME RunsInv, NEW e \in Event
               PROVE  effects[e] <= Cardinality(Consumer) * (1 + faults + expiries)
    BY DEF RerunsAreAccounted
  <1>1. GroupTypeOK /\ effects[e] \in Nat /\ faults \in Nat /\ expiries \in Nat
    BY ConstantFacts DEF RunsInv, GroupTypeOK
  <1>2. /\ Cardinality(AtWork("run", e)) \in Nat /\ Cardinality(AtWork("mark", e)) \in Nat
        /\ Cardinality(Consumer) \in Nat
        /\ Cardinality(AtWork("mark", e)) <= Cardinality(Consumer)
    BY WorkIsBounded
  <1>3. Allowed \in Nat
    BY <1>1, AllowedGrows
  <1>4. effects[e] <= Allowed + Cardinality(Consumer)
    BY <1>1, <1>2, <1>3 DEF RunsInv, RunsAreCounted
  <1>5. \A n, k \in Nat : n * (k + 1) = n * k + n
    OBVIOUS
  <1>6. faults + expiries \in Nat /\ 1 + faults + expiries = faults + expiries + 1
    BY <1>1
  <1>7. Cardinality(Consumer) * (1 + faults + expiries) = Allowed + Cardinality(Consumer)
    BY <1>2, <1>5, <1>6 DEF Allowed
  <1> QED
    BY <1>4, <1>7

\* However many copies of an event arrive, its effect re-runs only because
\* replicas ran it at once, a fault hid that it had run, or its mark expired
\* (Dedupe's check, run, mark).
THEOREM MarksAbsorbRedeliveries == GroupSpec => []RerunsAreAccounted
  BY CountBoundsRuns, RunsInvInit, RunsInvNext, PTL DEF GroupSpec

-----------------------------------------------------------------------------
(* Two replicas on one entry.  All of a page becomes pending at once but   *)
(* is delivered in turn, so the clock of a waiting entry runs as long as   *)
(* its page is held: a peer can take over only what was held that long.    *)

\* What a consumer holds has not been pending for longer than it holds it.
ClocksFollowHands ==
    \A c \in Consumer : \A p \in queue[c] : p \in Pending => idle[p] <= held[c]

\* Of two consumers with an entry in common, one held its page for the window.
SharedWasHeldLong ==
    \A c, d \in Consumer :
        c # d /\ queue[c] \cap queue[d] # {} => held[c] >= MinIdle \/ held[d] >= MinIdle

\* The inductive invariant of the hands.
HandsInv ==
    /\ GroupTypeOK
    /\ ClocksFollowHands
    /\ SharedWasHeldLong

\* The ages.
LEMMA AgeFacts ==
    ASSUME GroupTypeOK
    PROVE  /\ queue \in [Consumer -> SUBSET (1 .. lastId)] /\ lastId \in Nat
           /\ held \in [Consumer -> 0 .. MinIdle] /\ idle \in [Pending -> 0 .. MinIdle]
           /\ \A c \in Consumer : held[c] \in Nat
           /\ \A p \in Pending : idle[p] \in Nat
  <1>1. /\ queue \in [Consumer -> SUBSET (1 .. lastId)] /\ lastId \in Nat
        /\ held \in [Consumer -> 0 .. MinIdle] /\ idle \in [Pending -> 0 .. MinIdle]
    BY DEF GroupTypeOK
  <1> QED
    BY <1>1, ConstantFacts

\* A fetch resets the clocks of its page, and finds in it only what is fresh
\* or what everybody who holds it has held for the window.
LEMMA FetchKeepsHands ==
    ASSUME HandsInv, GroupTypeOK', NEW c \in Consumer, NEW page, Fetched(c, page),
           \A p \in Pending' : \/ p \in Pending /\ idle'[p] = idle[p]
                               \/ idle'[p] = 0,
           \A p \in page : p \in Pending' => idle'[p] = 0,
           \A d \in Consumer : \A p \in queue[d] : p \in Pending' => p \in Pending,
           \A d \in Consumer \ {c} : \A p \in queue[d] \cap page : p \in Pending /\ Stale(p)
    PROVE  HandsInv'
  <1>1. /\ queue' = [queue EXCEPT ![c] = page]
        /\ held' = [held EXCEPT ![c] = 0]
    BY DEF Fetched
  <1>2. GroupTypeOK
    BY DEF HandsInv
  <1>3. /\ queue'[c] = page /\ held'[c] = 0
        /\ \A d \in Consumer \ {c} : queue'[d] = queue[d] /\ held'[d] = held[d]
    BY <1>1, <1>2, AgeFacts
  <1>4. ClocksFollowHands'
    <2> SUFFICES ASSUME NEW d \in Consumer, NEW p \in queue'[d], p \in Pending'
                 PROVE  idle'[p] <= held'[d]
      BY DEF ClocksFollowHands
    <2>1. CASE d = c
      BY <1>3, <2>1
    <2>2. CASE d # c
      <3>1. p \in queue[d] /\ p \in Pending
        BY <1>3, <2>2
      <3>2. idle[p] <= held[d] /\ held[d] \in Nat
        BY <1>2, <3>1, AgeFacts DEF HandsInv, ClocksFollowHands
      <3>3. idle'[p] = idle[p] \/ idle'[p] = 0
        OBVIOUS
      <3>4. held'[d] = held[d]
        BY <1>3, <2>2
      <3> QED
        BY <3>2, <3>3, <3>4
    <2> QED
      BY <2>1, <2>2
  <1>5. ASSUME NEW d \in Consumer \ {c}, NEW p \in queue[d] \cap page PROVE held'[d] >= MinIdle
    <2>1. p \in Pending /\ idle[p] >= MinIdle
      BY <1>5 DEF Stale
    <2>2. idle[p] <= held[d]
      BY <2>1 DEF HandsInv, ClocksFollowHands
    <2>3. idle[p] \in Nat /\ held[d] \in Nat /\ held'[d] = held[d]
      BY <1>2, <1>3, <2>1, AgeFacts
    <2> QED
      BY <2>1, <2>2, <2>3, ConstantFacts
  <1>6. SharedWasHeldLong'
    <2> SUFFICES ASSUME NEW x \in Consumer, NEW y \in Consumer, x # y,
                        NEW p \in queue'[x] \cap queue'[y]
                 PROVE  held'[x] >= MinIdle \/ held'[y] >= MinIdle
      BY DEF SharedWasHeldLong
    <2>1. CASE x = c
      BY <1>3, <1>5, <2>1
    <2>2. CASE y = c
      BY <1>3, <1>5, <2>2
    <2>3. CASE x # c /\ y # c
      BY <1>3, <2>3 DEF HandsInv, SharedWasHeldLong
    <2> QED
      BY <2>1, <2>2, <2>3
  <1> QED
    BY <1>4, <1>6 DEF HandsInv

\* XAUTOCLAIM: only stale entries, and nothing else becomes pending.
LEMMA ReclaimKeepsHands ==
    ASSUME HandsInv, GroupTypeOK', NEW c \in Consumer, Reclaim(c)
    PROVE  HandsInv'
  <1>0. GroupTypeOK
    BY DEF HandsInv
  <1>1. PICK page, live : Adopts(c, page, live)
    BY <1>0, ReclaimFacts
  <1>2. /\ page \subseteq {p \in Pending : Stale(p)} /\ live \subseteq page
        /\ idle' = [p \in Pending \ (page \ live) |-> IF p \in live THEN 0 ELSE idle[p]]
        /\ \/ live = {} /\ UNCHANGED <<queue, elapsed, held>>
           \/ live # {} /\ Fetched(c, live)
    BY <1>1 DEF Adopts
  <1>3. Pending' = Pending \ (page \ live)
    BY <1>2 DEF Pending
  <1>4. \A p \in Pending' : p \in Pending /\ idle'[p] = IF p \in live THEN 0 ELSE idle[p]
    BY <1>2, <1>3
  <1>5. CASE live # {} /\ Fetched(c, live)
    BY <1>2, <1>4, <1>5, FetchKeepsHands
  <1>6. CASE live = {} /\ UNCHANGED <<queue, elapsed, held>>
    <2>1. ClocksFollowHands'
      BY <1>4, <1>6 DEF HandsInv, ClocksFollowHands
    <2> QED
      BY <1>6, <2>1 DEF HandsInv, SharedWasHeldLong
  <1> QED
    BY <1>2, <1>5, <1>6

\* XREADGROUP hands out what nobody has been handed.
LEMMA ReadKeepsHands ==
    ASSUME HandsInv, GroupTypeOK', NEW c \in Consumer, Read(c)
    PROVE  HandsInv'
  <1>0. GroupTypeOK
    BY DEF HandsInv
  <1>1. PICK page : Takes(c, page)
    BY <1>0, ReadFacts
  <1>2. /\ page \subseteq lastId + 1 .. lastId' /\ lastId' \in Nat
        /\ idle' = Reset(page, 0) /\ Fetched(c, page)
    BY <1>1 DEF Takes
  <1>3. Pending' = Pending \cup page /\ \A p \in Pending \cup page :
          idle'[p] = IF p \in page THEN 0 ELSE idle[p]
    BY <1>2 DEF Pending, Reset
  <1>4. \A d \in Consumer : queue[d] \cap page = {}
    <2> SUFFICES ASSUME NEW d \in Consumer, NEW p \in queue[d], p \in page PROVE FALSE
      OBVIOUS
    <2>1. p \in 1 .. lastId /\ p \in lastId + 1 .. lastId' /\ lastId \in Nat
      BY <1>0, <1>2, AgeFacts
    <2> QED
      BY <1>2, <2>1
  <1> QED
    BY <1>2, <1>3, <1>4, FetchKeepsHands

\* Finishing an entry, acked or not, shortens one queue and nothing else; a
\* crash empties it.
LEMMA LettingGoKeepsHands ==
    ASSUME HandsInv, GroupTypeOK', NEW c \in Consumer,
           \/ phase[c] \in Delivering /\ Advance(c)
           \/ ConsumerCrash(c),
           idle' = idle \/ idle' = Forget({Current(c)})
    PROVE  HandsInv'
  <1>0. GroupTypeOK
    BY DEF HandsInv
  <1>1. /\ queue'[c] \subseteq queue[c]
        /\ queue'[c] # {} => held'[c] = held[c]
        /\ \A d \in Consumer \ {c} : queue'[d] = queue[d] /\ held'[d] = held[d]
    <2>1. CASE phase[c] \in Delivering /\ Advance(c)
      <3>1. Current(c) \in queue[c]
        BY <1>0, <2>1, CurrentIsHeld
      <3>2. /\ queue' = [queue EXCEPT ![c] = @ \ {Current(c)}]
            /\ held' = [held EXCEPT ![c] = IF queue[c] # {Current(c)} THEN @ ELSE 0]
        BY <2>1 DEF Advance
      <3>3. queue'[c] = queue[c] \ {Current(c)}
        BY <1>0, <3>2, AgeFacts
      <3>4. queue'[c] # {} => held'[c] = held[c]
        BY <1>0, <3>1, <3>2, <3>3, AgeFacts
      <3> QED
        BY <1>0, <3>2, <3>3, <3>4, AgeFacts
    <2>2. CASE ConsumerCrash(c)
      BY <1>0, <2>2, AgeFacts DEF ConsumerCrash
    <2> QED
      BY <2>1, <2>2
  <1>2. \A p \in Pending' : p \in Pending /\ idle'[p] = idle[p]
    BY DEF Pending, Forget
  <1>3. \A d \in Consumer : queue'[d] \subseteq queue[d] /\ (queue'[d] # {} => held'[d] = held[d])
    BY <1>1
  <1>4. ClocksFollowHands'
    BY <1>2, <1>3 DEF HandsInv, ClocksFollowHands
  <1>5. SharedWasHeldLong'
    <2> SUFFICES ASSUME NEW x \in Consumer, NEW y \in Consumer, x # y,
                        NEW p \in queue'[x] \cap queue'[y]
                 PROVE  held'[x] >= MinIdle \/ held'[y] >= MinIdle
      BY DEF SharedWasHeldLong
    <2>1. p \in queue[x] \cap queue[y] /\ held'[x] = held[x] /\ held'[y] = held[y]
      BY <1>3
    <2> QED
      BY <2>1 DEF HandsInv, SharedWasHeldLong
  <1> QED
    BY <1>4, <1>5 DEF HandsInv

\* A tick ages what is held and what is pending alike.
LEMMA TickKeepsHands ==
    ASSUME HandsInv, GroupTypeOK', Tick
    PROVE  HandsInv'
  <1>0. GroupTypeOK
    BY DEF HandsInv
  <1>1. /\ queue' = queue
        /\ idle' = [p \in Pending |-> OneTickOlder(idle[p])]
        /\ held' = [c \in Consumer |->
                      IF phase[c] \in Delivering THEN OneTickOlder(held[c]) ELSE held[c]]
    BY DEF Tick
  <1>2. Pending' = Pending
    BY <1>1 DEF Pending
  <1>3. \A c \in Consumer : queue[c] # {} => held'[c] = OneTickOlder(held[c])
    BY <1>0, <1>1 DEF GroupTypeOK
  <1>4. ASSUME NEW a \in Nat, NEW b \in Nat, a <= b
        PROVE  OneTickOlder(a) <= OneTickOlder(b) /\ (b >= MinIdle => OneTickOlder(b) >= MinIdle)
    BY <1>4, ConstantFacts DEF OneTickOlder
  <1>5. ClocksFollowHands'
    <2> SUFFICES ASSUME NEW c \in Consumer, NEW p \in queue[c], p \in Pending
                 PROVE  idle'[p] <= held'[c]
      BY <1>1, <1>2 DEF ClocksFollowHands
    <2>1. idle[p] <= held[c] /\ idle[p] \in Nat /\ held[c] \in Nat
      BY <1>0, AgeFacts DEF HandsInv, ClocksFollowHands
    <2>2. idle'[p] = OneTickOlder(idle[p]) /\ held'[c] = OneTickOlder(held[c])
      BY <1>1, <1>3
    <2> QED
      BY <1>4, <2>1, <2>2
  <1>6. SharedWasHeldLong'
    <2> SUFFICES ASSUME NEW x \in Consumer, NEW y \in Consumer, x # y,
                        queue[x] \cap queue[y] # {}
                 PROVE  held'[x] >= MinIdle \/ held'[y] >= MinIdle
      BY <1>1 DEF SharedWasHeldLong
    <2>1. held[x] >= MinIdle \/ held[y] >= MinIdle
      BY DEF HandsInv, SharedWasHeldLong
    <2>2. held[x] \in Nat /\ held[y] \in Nat
      BY <1>0, AgeFacts
    <2>3. held'[x] = OneTickOlder(held[x]) /\ held'[y] = OneTickOlder(held[y])
      BY <1>3
    <2> QED
      BY <1>4, <2>1, <2>2, <2>3
  <1> QED
    BY <1>5, <1>6 DEF HandsInv

\* Every step keeps the clocks and the hands together.
LEMMA HandsInvNext == HandsInv /\ [GroupNext]_groupVars => HandsInv'
  <1> SUFFICES ASSUME HandsInv, [GroupNext]_groupVars PROVE HandsInv'
    OBVIOUS
  <1>0. GroupTypeOK /\ GroupTypeOK'
    BY GroupTypesNext DEF HandsInv
  <1>1. UNCHANGED <<queue, held, idle>> => HandsInv'
    BY <1>0 DEF HandsInv, ClocksFollowHands, SharedWasHeldLong, Pending
  <1>2. ASSUME NEW c \in Consumer, ConsumerStep(c) \/ ConsumerFault(c) PROVE HandsInv'
    <2>1. CASE Reclaim(c) \/ Read(c)
      BY <1>0, <2>1, ReclaimKeepsHands, ReadKeepsHands
    <2>2. CASE Ack(c) \/ AckFails(c) \/ DeliveryFails(c)
      <3>1. phase[c] \in Delivering /\ Advance(c)
        BY <2>2, PhaseFacts DEF Ack, AckFails, DeliveryFails
      <3>2. idle' = idle \/ idle' = Forget({Current(c)})
        BY <2>2 DEF Ack, AckFails, DeliveryFails, pelVars
      <3> QED
        BY <1>0, <3>1, <3>2, LettingGoKeepsHands
    <2>3. CASE ConsumerCrash(c)
      <3>1. idle' = idle
        BY <2>3 DEF ConsumerCrash, pelVars
      <3> QED
        BY <1>0, <2>3, <3>1, LettingGoKeepsHands
    <2>4. CASE Skip(c) \/ Start(c) \/ Effect(c) \/ Mark(c) \/ ReadTimesOut(c) \/ ReadFails(c)
      BY <1>1, <2>4 DEF Skip, Start, Effect, Mark, ReadTimesOut, ReadFails, Goto, pelVars
    <2>5. CASE ReclaimFails(c)
      BY <1>1, <2>5 DEF ReclaimFails, pelVars
    <2> QED
      BY <1>2, <2>1, <2>2, <2>3, <2>4, <2>5 DEF ConsumerStep, ConsumerFault
  <1>3. Tick => HandsInv'
    BY <1>0, TickKeepsHands
  <1>4. Trim \/ (\E e \in Event : Arrive(e) \/ MarkExpires(e)) => HandsInv'
    BY <1>1 DEF Trim, Arrive, MarkExpires, pelVars, loopVars
  <1>5. UNCHANGED groupVars => HandsInv'
    BY <1>1 DEF groupVars, pelVars, loopVars
  <1> QED
    BY <1>2, <1>3, <1>4, <1>5 DEF GroupNext, GroupStep

\* Whatever the page size, the window and the slowest handler: two replicas run
\* one entry at once only if one of them has held its page for the window, and
\* since a delivery is shorter than the window, the entry waited behind an
\* earlier one of that page (minIdle against batch, Subscriber.reclaim).
THEOREM OnlyLongPagesOverlap == GroupSpec => []OverlapNeedsALongPage
  <1>1. GroupInit => HandsInv
    <2> SUFFICES ASSUME GroupInit PROVE HandsInv
      OBVIOUS
    <2>1. \A c \in Consumer : queue[c] = {}
      BY DEF GroupInit
    <2> QED
      BY <2>1, GroupTypesInit DEF HandsInv, ClocksFollowHands, SharedWasHeldLong
  <1>2. HandsInv => OverlapNeedsALongPage
    <2> SUFFICES ASSUME HandsInv, NEW c \in Consumer, NEW d \in Consumer, c # d,
                        phase[c] = "run", phase[d] = "run", Current(c) = Current(d)
                 PROVE  \E x \in {c, d} : held[x] >= MinIdle /\ elapsed[x] < held[x]
      BY DEF OverlapNeedsALongPage
    <2>1. GroupTypeOK
      BY DEF HandsInv
    <2>2. Current(c) \in queue[c] /\ Current(c) \in queue[d]
      BY <2>1, CurrentIsHeld, PhaseFacts
    <2>3. PICK x \in {c, d} : held[x] >= MinIdle
      BY <2>2 DEF HandsInv, SharedWasHeldLong
    <2>4. elapsed[x] \in 0 .. HandlerTime /\ held[x] \in Nat
      BY <2>1, AgeFacts DEF GroupTypeOK
    <2>5. elapsed[x] < held[x]
      BY <2>3, <2>4, ConstantFacts, GroupAssumption
    <2> QED
      BY <2>3, <2>5
  <1> QED
    BY <1>1, <1>2, HandsInvNext, PTL DEF GroupSpec

=============================================================================
