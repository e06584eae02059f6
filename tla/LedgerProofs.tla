---------------------------- MODULE LedgerProofs ----------------------------
(***************************************************************************)
(* What is written down, for any number of submissions, transactions,      *)
(* campaigns and hotkeys: the order of submission events and the published *)
(* weights.                                                                *)
(*                                                                         *)
(* EventOrder. What the row locks guarantee: while the exclusion holds the *)
(* submissions of a hotkey, none of its gate transactions is open.         *)
(*                                                                         *)
(* Weights. No share exceeds the sum of the shares, and the sum grows by   *)
(* what one of them grows (SumOfNaturals and SumGrows, of SetProofs), so   *)
(* burn takes exactly the rest of the emission (BuiltSound), and the       *)
(* vector is carried unchanged from there to the row.                      *)
(***************************************************************************)
EXTENDS EventOrder, Weights, SetProofs

-----------------------------------------------------------------------------
(* The order of submission events. *)

\* An open gate transaction belongs to a running job.
Holding == \A s \in Sub : gate[s] # 0 => gateJob[s] = "running"

\* The inductive invariant of the event order.
IInv == TypeOKOrder /\ Holding /\ GatesQuiet /\ DoneIsQueued

\* A time stamp taken at begin is within the bound.
LEMMA BeginType == ASSUME TypeOKOrder, Begin PROVE clock' \in 0..MaxClock
  BY ClockAssumption DEF TypeOKOrder, Begin

\* Types are kept by every step.
LEMMA NextType == ASSUME TypeOKOrder, [NextOrder]_orderVars PROVE TypeOKOrder'
<1> USE DEF TypeOKOrder
<1>1. ASSUME NEW s \in Sub, ClaimForGates(s) PROVE TypeOKOrder'
  BY <1>1 DEF ClaimForGates
<1>2. ASSUME NEW s \in Sub, BeginGates(s) PROVE TypeOKOrder'
  BY <1>2, BeginType DEF BeginGates
<1>3. ASSUME NEW s \in Sub, CommitGates(s) PROVE TypeOKOrder'
  <2>1. At(s, "bench_queued", gate[s]) \in Event
    BY DEF At, Event
  <2>2. gate' \in [Sub -> 0..MaxClock]
    BY <1>3, ClockAssumption DEF CommitGates
  <2> QED
    BY <1>3, <2>1, <2>2 DEF CommitGates
<1>4. CASE BeginExclusion
  BY <1>4, BeginType DEF BeginExclusion
<1>5. CASE LockCampaign
  BY <1>5, ClockAssumption DEF LockCampaign, Closed
<1>6. CASE CommitExclusion
  <2>1. {At(s, "disqualified", op.at) : s \in Mine} \subseteq Event
    BY MineAssumption DEF At, Event
  <2>2. op' \in [at : 0..MaxClock, pc : {"idle", "waiting", "locked"}]
    BY <1>6, ClockAssumption DEF CommitExclusion, Closed
  <2>3. gateJob' \in [Sub -> {"pending", "running", "done"}]
    BY <1>6 DEF CommitExclusion, StoppedAs
  <2>4. eventLog' \subseteq Event /\ excluded' \in BOOLEAN
    BY <1>6, <2>1 DEF CommitExclusion
  <2>5. UNCHANGED <<clock, gate, creator, cohort>>
    BY <1>6 DEF CommitExclusion
  <2> QED
    BY <2>2, <2>3, <2>4, <2>5
<1>7. CASE BreakDeadlock
  <2>1. op' \in [at : 0..MaxClock, pc : {"idle", "waiting", "locked"}]
    BY <1>7, ClockAssumption DEF BreakDeadlock, Closed
  <2>2. gate' \in [Sub -> 0..MaxClock]
    BY <1>7, ClockAssumption DEF BreakDeadlock
  <2>3. UNCHANGED <<clock, eventLog, gateJob, creator, cohort, excluded>>
    BY <1>7 DEF BreakDeadlock
  <2> QED
    BY <2>1, <2>2, <2>3
<1>8. CASE BeginCreate
  BY <1>8, BeginType DEF BeginCreate
<1>9. CASE CommitCreate
  <2> DEFINE queue == {s \in Sub : "bench_queued" \in Newest(s)}
  <2>1. {At(s, "round_assigned", creator) : s \in queue} \subseteq Event
    BY DEF At, Event
  <2>2. cohort' \subseteq Sub /\ eventLog' \subseteq Event
    BY <1>9, <2>1 DEF CommitCreate
  <2>3. creator' \in 0..MaxClock
    BY <1>9, ClockAssumption DEF CommitCreate
  <2> QED
    BY <1>9, <2>2, <2>3 DEF CommitCreate
<1>10. CASE EndRound
  <2>1. PICK st \in {"scored", "bench_queued"} :
           eventLog' = eventLog \cup {At(s, st, clock') : s \in cohort}
    BY <1>10 DEF EndRound
  <2>2. clock' \in 0..MaxClock
    BY <1>10, BeginType DEF EndRound
  <2>3. {At(s, st, clock') : s \in cohort} \subseteq Event
    BY <2>1, <2>2 DEF At, Event
  <2> QED
    BY <1>10, <2>1, <2>2, <2>3 DEF EndRound
<1>11. CASE UNCHANGED orderVars
  BY <1>11 DEF orderVars
<1> QED
  BY <1>1, <1>2, <1>3, <1>4, <1>5, <1>6, <1>7, <1>8, <1>9, <1>10, <1>11 DEF NextOrder

\* Events are never removed, so an event once seen stays.
LEMMA EventsGrow == ASSUME [NextOrder]_orderVars PROVE eventLog \subseteq eventLog'
  BY DEF NextOrder, orderVars, ClaimForGates, BeginGates, CommitGates, BeginExclusion, LockCampaign,
         CommitExclusion, BreakDeadlock, BeginCreate, CommitCreate, EndRound

\* Every step keeps the locking discipline.
LEMMA NextHolding == ASSUME IInv, [NextOrder]_orderVars PROVE Holding' /\ GatesQuiet'
<1> USE DEF IInv, TypeOKOrder, Holding, GatesQuiet
<1>1. ASSUME NEW s \in Sub, ClaimForGates(s) PROVE Holding' /\ GatesQuiet'
  BY <1>1 DEF ClaimForGates
<1>2. ASSUME NEW s \in Sub, BeginGates(s) PROVE Holding' /\ GatesQuiet'
  BY <1>2 DEF BeginGates
<1>3. ASSUME NEW s \in Sub, CommitGates(s) PROVE Holding' /\ GatesQuiet'
  BY <1>3, ClockAssumption DEF CommitGates
<1>4. CASE CommitExclusion
  <2>1. CASE UNCHANGED <<eventLog, gateJob, excluded>>
    BY <1>4, <2>1 DEF CommitExclusion
  <2>2. CASE ~Refuses /\ gateJob' = [s \in Sub |-> IF s \in Mine /\ gateJob[s] = "pending"
                                               THEN StoppedAs ELSE gateJob[s]]
    <3>1. \A s \in Mine : gateJob'[s] = "done" /\ gate[s] = 0
      BY <1>4, <2>2, MineAssumption DEF CommitExclusion, JobFree, Refuses, StoppedAs
    <3>2. gate' = gate /\ \A s \in Sub \ Mine : gateJob'[s] = gateJob[s]
      BY <1>4, <2>2 DEF CommitExclusion
    <3> QED
      BY <3>1, <3>2
  <2> QED
    BY <1>4, <2>1, <2>2 DEF CommitExclusion
<1>5. CASE BreakDeadlock
  BY <1>5 DEF BreakDeadlock
<1>6. CASE UNCHANGED <<gateJob, gate, excluded>>
  BY <1>6
<1> QED
  BY <1>1, <1>2, <1>3, <1>4, <1>5, <1>6
  DEF NextOrder, orderVars, BeginExclusion, LockCampaign, BeginCreate, CommitCreate, EndRound

\* A job that settles settles together with an event.
LEMMA NextDone == ASSUME IInv, [NextOrder]_orderVars PROVE DoneIsQueued'
<1> USE DEF IInv, TypeOKOrder
<1>1. eventLog \subseteq eventLog'
  BY EventsGrow
<1>2. ASSUME NEW s \in Sub, ClaimForGates(s) PROVE DoneIsQueued'
  BY <1>1, <1>2 DEF ClaimForGates, DoneIsQueued
<1>3. ASSUME NEW s \in Sub, CommitGates(s) PROVE DoneIsQueued'
  <2>1. At(s, "bench_queued", gate[s]) \in eventLog'
    BY <1>3 DEF CommitGates
  <2>2. At(s, "bench_queued", gate[s]).sub = s /\ At(s, "bench_queued", gate[s]).state # "committed"
    BY DEF At
  <2>3. \A t \in Sub : gateJob'[t] = "done" => gateJob[t] = "done" \/ t = s
    BY <1>3 DEF CommitGates
  <2> QED
    BY <1>1, <2>1, <2>2, <2>3 DEF DoneIsQueued
<1>4. CASE CommitExclusion
  <2>1. CASE UNCHANGED <<eventLog, gateJob, excluded>>
    BY <2>1 DEF DoneIsQueued
  <2>2. CASE /\ gateJob' = [s \in Sub |-> IF s \in Mine /\ gateJob[s] = "pending"
                                      THEN StoppedAs ELSE gateJob[s]]
             /\ eventLog' = eventLog \cup {At(s, "disqualified", op.at) : s \in Mine}
    <3>1. ASSUME NEW s \in Mine PROVE \E e \in eventLog' : e.sub = s /\ e.state # "committed"
      <4>1. At(s, "disqualified", op.at) \in eventLog'
        BY <2>2
      <4>2. At(s, "disqualified", op.at).sub = s /\ At(s, "disqualified", op.at).state # "committed"
        BY DEF At
      <4> QED
        BY <4>1, <4>2
    <3>2. \A s \in Sub \ Mine : gateJob'[s] = gateJob[s]
      BY <2>2
    <3> QED
      BY <1>1, <3>1, <3>2 DEF DoneIsQueued
  <2> QED
    BY <1>4, <2>1, <2>2 DEF CommitExclusion
<1>5. CASE UNCHANGED gateJob
  BY <1>1, <1>5 DEF DoneIsQueued
<1> QED
  BY <1>2, <1>3, <1>4, <1>5
  DEF NextOrder, orderVars, BeginGates, BeginExclusion, LockCampaign, BreakDeadlock, BeginCreate,
      CommitCreate, EndRound

\* The initial state.
LEMMA InitIInv == InitOrder => IInv
<1> SUFFICES ASSUME InitOrder PROVE IInv
  OBVIOUS
<1>1. eventLog \subseteq Event
  BY ClockAssumption DEF InitOrder, At, Event
<1>2. TypeOKOrder
  <2>1. /\ clock = 0 /\ gateJob = [s \in Sub |-> "pending"] /\ gate = [s \in Sub |-> 0]
        /\ op = Closed /\ creator = 0 /\ cohort = {}
    BY DEF InitOrder
  <2>2. excluded \in BOOLEAN
    BY DEF InitOrder
  <2>3. 0 \in 0..MaxClock
    BY ClockAssumption
  <2> QED
    BY <1>1, <2>1, <2>2, <2>3 DEF TypeOKOrder, Closed
<1>3. \A s \in Sub : gate[s] = 0 /\ gateJob[s] = "pending"
  <2>1. gate = [s \in Sub |-> 0] /\ gateJob = [s \in Sub |-> "pending"]
    BY DEF InitOrder
  <2> QED
    BY <2>1
<1>4. Holding /\ DoneIsQueued
  BY <1>3 DEF Holding, DoneIsQueued
<1>5. GatesQuiet
  BY DEF InitOrder, GatesQuiet
<1> QED
  BY <1>2, <1>4, <1>5 DEF IInv

\* The invariant holds in every reachable state.
THEOREM Invariance == SpecOrder => []IInv
<1>1. IInv /\ [NextOrder]_orderVars => IInv'
  BY NextType, NextHolding, NextDone DEF IInv
<1> QED
  BY <1>1, InitIInv, PTL DEF SpecOrder

\* The locks of disqualify_campaign_hotkey do exclude the gate worker: what goes
\* wrong after an exclusion is only the order of the time stamps.
THEOREM ExclusionQuietsGates == SpecOrder => []GatesQuiet
<1>1. IInv => GatesQuiet
  BY DEF IInv
<1> QED
  BY <1>1, Invariance, PTL

\* complete_gates_job never settles a job without its queue event.
THEOREM GatesAtomic == SpecOrder => []DoneIsQueued
<1>1. IInv => DoneIsQueued
  BY DEF IInv
<1> QED
  BY <1>1, Invariance, PTL

\* The locks of disqualify_campaign_hotkey and complete_gates_job keep the whole
\* of ExclusionSafe for any number of submissions and transactions.
THEOREM ExclusionIsSafe == SpecOrder => []ExclusionSafe
<1>1. IInv => ExclusionSafe
  BY DEF IInv, ExclusionSafe
<1> QED
  BY <1>1, Invariance, PTL

-----------------------------------------------------------------------------
(* The weights process. *)

\* A vector that can be signed.
Sound(v) == v \in Vector /\ SumFunction(v) = Whole * Scale

\* Rounds that are live and have not begun to settle.
Unsettled == {d \in live : settling[d] = 0}

\* What the cycle carries, and what has been built of it.
CycleTypes ==
  /\ cycle \in [marker : 0..MaxSettles, meta : [Hotkey -> Uid \cup {-1}], age : 0..Cadence,
                sign : BOOLEAN, vec : Vector \cup {NoVec}, pays : [Campaign -> Hotkey \cup {NoKey}]]
  /\ wpc \in {"store", "sign", "mark"} => Sound(cycle.vec)

\* A round that began to settle began before now, and every live one still can.
SettlesFit ==
  /\ \A c \in Campaign : settling[c] <= begun
  /\ begun + Cardinality(Unsettled) <= MaxSettles

\* The inductive invariant of the weights process.
WeightsIInv == VectorSafe /\ CycleTypes /\ SettlesFit

\* What a campaign pays at any age is not negative.
LEMMA CurveNatural ==
  ASSUME NEW c \in Campaign, NEW held \in 0..MaxHeld
  PROVE  Curve(ruleOf[c], held) \in Nat
  <1> DEFINE r == ruleOf[c]
  <1>1. /\ r.start \in Nat /\ r.floor \in Nat /\ r.floor <= r.start /\ r.span \in Nat \ {0}
        /\ Scale \in Nat /\ held \in Nat
    BY RuleAssumption
  <1> HIDE DEF r
  <1>2. r.start * Scale \in Nat /\ r.floor * Scale \in Nat
    BY <1>1
  <1>3. CASE held < r.span
    <2>1. r.start - r.floor \in Nat /\ r.span - held \in Nat
      BY <1>1, <1>3
    <2>2. (r.start - r.floor) * Scale \in Nat
      BY <1>1, <2>1
    <2>3. (r.start - r.floor) * Scale * (r.span - held) \in Nat
      BY <2>1, <2>2
    <2>4. ((r.start - r.floor) * Scale * (r.span - held)) \div r.span \in Nat
      BY <1>1, <2>3
    <2>5. r.floor * Scale + ((r.start - r.floor) * Scale * (r.span - held)) \div r.span \in Nat
      BY <1>2, <2>4
    <2> QED BY <1>2, <2>5 DEF Curve, r
  <1>4. CASE ~(held < r.span)
    BY <1>1, <1>2, <1>4 DEF Curve, r
  <1> QED BY <1>3, <1>4

\* Every uid's share is a natural number.
LEMMA ShareNatural ==
  ASSUME TypeOKWeights, NEW u, NEW m
  PROVE  Share(u, m) \in Nat
  <1> DEFINE F == [c \in Campaign |-> IF Paid(c, m) # NoKey /\ m[crown[c].key] = u
                                      THEN Curve(ruleOf[c], crown[c].held) ELSE 0]
  <1>1. \A c \in Campaign : crown[c].held \in 0..MaxHeld
    BY DEF TypeOKWeights
  <1>2. \A c \in Campaign : Curve(ruleOf[c], crown[c].held) \in Nat
    BY <1>1, CurveNatural
  <1>3. F \in [Campaign -> Nat]
    BY <1>2
  <1>4. Share(u, m) = SumFunction(F)
    BY DEF Share
  <1> HIDE DEF F
  <1> QED BY <1>3, <1>4, RuleAssumption, SumOfNaturals

\* The vector that build_weight_vector returns: burn takes exactly the rest.
LEMMA BuiltSound ==
  ASSUME TypeOKWeights, NEW m, Buildable(m)
  PROVE  Sound(BuildVector(m))
  <1> DEFINE F == [u \in Uid |-> Share(u, m)]
             V == [u \in Uid |-> F[u] + (IF u = BurnUid THEN Burn(m) ELSE 0)]
  <1>1. F \in [Uid -> Nat]
    BY ShareNatural
  <1>2. Burn(m) = Whole * Scale - SumFunction(F)
    BY DEF Burn
  <1>3. BuildVector(m) = V
    BY DEF BuildVector
  <1> HIDE DEF F
  <1>4. SumFunction(F) \in Nat /\ \A u \in Uid : F[u] <= SumFunction(F)
    BY <1>1, UidAssumption, SumOfNaturals
  <1>5. Whole * Scale \in Nat
    BY RuleAssumption
  <1>6. Burn(m) \in Nat /\ SumFunction(F) + Burn(m) = Whole * Scale
    BY <1>2, <1>4, <1>5 DEF Buildable
  <1>7. F \in [Uid -> Int]
    BY <1>1
  <1>8. SumFunction(V) = SumFunction(F) + Burn(m)
    <2>1. Burn(m) \in Int /\ IsFiniteSet(Uid) /\ BurnUid \in Uid
      BY <1>6, UidAssumption
    <2>2. V \in [Uid -> Int] /\ V[BurnUid] = F[BurnUid] + Burn(m)
          /\ \A u \in Uid : u # BurnUid => V[u] = F[u]
      BY <1>7, <2>1
    <2> HIDE DEF V
    <2> QED BY <1>7, <2>1, <2>2, SumGrows
  <1>9. \A u \in Uid : F[u] + (IF u = BurnUid THEN Burn(m) ELSE 0) \in 0..(Whole * Scale)
    BY <1>1, <1>4, <1>5, <1>6
  <1>10. V \in Vector
    BY <1>9 DEF Vector
  <1> QED BY <1>3, <1>6, <1>8, <1>10 DEF Sound

\* Nothing is on record at the start.
LEMMA WeightsInit == InitWeights => WeightsIInv
  <1> SUFFICES ASSUME InitWeights PROVE WeightsIInv
    OBVIOUS
  <1>1. TypeOKWeights
    BY RuleAssumption, UidAssumption DEF InitWeights, TypeOKWeights, NoRow, Never
  <1>2. StoredVectorSound
    BY DEF InitWeights, StoredVectorSound
  <1>3. CycleTypes
    BY RuleAssumption DEF InitWeights, CycleTypes, NoCycle
  <1>4. Unsettled = {}
    BY DEF InitWeights, Unsettled
  <1>5. Cardinality(Unsettled) = 0
    BY <1>4, FS_EmptySet
  <1>6. SettlesFit
    BY <1>5, RuleAssumption DEF InitWeights, SettlesFit
  <1> QED BY <1>1, <1>2, <1>3, <1>6 DEF WeightsIInv, VectorSafe

\* A step that leaves the rounds alone.
LEMMA SettlesKept ==
  ASSUME SettlesFit, UNCHANGED <<live, settling, begun>>
  PROVE  SettlesFit'
  <1>1. Unsettled' = Unsettled
    BY DEF Unsettled
  <1> QED BY <1>1 DEF SettlesFit

\* A step that leaves the cycle and the row alone.
LEMMA VectorsKept ==
  ASSUME CycleTypes, StoredVectorSound, UNCHANGED <<cycle, row, wpc>>
  PROVE  CycleTypes' /\ StoredVectorSound'
  BY DEF CycleTypes, StoredVectorSound, Sound

\* Campaigns open and close.
LEMMA OpeningsOK ==
  ASSUME WeightsIInv, NEW c \in Campaign, OpenBegins(c) \/ OpenCommits(c) \/ CloseCampaign(c)
  PROVE  WeightsIInv'
  <1>0. TypeOKWeights'
    BY DEF WeightsIInv, VectorSafe, TypeOKWeights, OpenBegins, OpenCommits, CloseCampaign, published, process
  <1>1. UNCHANGED <<live, settling, begun, cycle, row, wpc>>
    BY DEF OpenBegins, OpenCommits, CloseCampaign, published, process
  <1> QED BY <1>0, <1>1, SettlesKept, VectorsKept DEF WeightsIInv, VectorSafe

\* The rounds that can still settle are finitely many.
LEMMA UnsettledFinite == ASSUME TypeOKWeights PROVE IsFiniteSet(Unsettled) /\ Cardinality(Unsettled) \in Nat
  <1>1. Unsettled \subseteq Campaign
    BY DEF TypeOKWeights, Unsettled
  <1> QED BY <1>1, RuleAssumption, FS_Subset, FS_CardinalityType

\* A round is created.
LEMMA StartRoundOK ==
  ASSUME WeightsIInv, NEW c \in Campaign, StartRound(c)
  PROVE  WeightsIInv'
  <1>0. TypeOKWeights'
    BY DEF WeightsIInv, VectorSafe, TypeOKWeights, StartRound, published, process
  <1>1. CycleTypes' /\ StoredVectorSound'
    BY VectorsKept DEF WeightsIInv, VectorSafe, StartRound, published, process
  <1>2. begun + Cardinality(Unsettled) < MaxSettles /\ c \notin Unsettled /\ begun \in Nat
    <2>1. begun + Cardinality(Unsettled) < MaxSettles /\ c \notin Unsettled
      BY Zenon DEF StartRound, Unsettled
    <2> QED BY <2>1 DEF WeightsIInv, VectorSafe, TypeOKWeights
  <1>3. IsFiniteSet(Unsettled) /\ Cardinality(Unsettled) \in Nat
    BY UnsettledFinite DEF WeightsIInv, VectorSafe
  <1>4. Unsettled' = Unsettled \/ Unsettled' = Unsettled \cup {c}
    BY DEF StartRound, Unsettled
  <1>5. \/ Cardinality(Unsettled') = Cardinality(Unsettled)
        \/ Cardinality(Unsettled') = Cardinality(Unsettled) + 1
    <2>1. Cardinality(Unsettled \cup {c}) = Cardinality(Unsettled) + 1
      BY <1>2, <1>3, FS_AddElement
    <2>2. CASE Unsettled' = Unsettled
      BY <2>2, Zenon
    <2>3. CASE Unsettled' = Unsettled \cup {c}
      BY <2>1, <2>3, Zenon
    <2> QED BY <1>4, <2>2, <2>3
  <1>6. SettlesFit'
    BY <1>2, <1>3, <1>5, RuleAssumption DEF StartRound, SettlesFit, WeightsIInv
  <1> QED BY <1>0, <1>1, <1>6 DEF WeightsIInv, VectorSafe

\* complete_round takes its time stamp: one round less is to come.
LEMMA SettleBeginsOK ==
  ASSUME WeightsIInv, NEW c \in Campaign, SettleBegins(c)
  PROVE  WeightsIInv'
  <1>1. CycleTypes' /\ StoredVectorSound'
    BY VectorsKept DEF WeightsIInv, VectorSafe, SettleBegins, published, process
  <1>2. c \in Unsettled /\ begun \in Nat /\ begun + Cardinality(Unsettled) <= MaxSettles
    BY DEF SettleBegins, Unsettled, WeightsIInv, VectorSafe, TypeOKWeights, SettlesFit
  <1>3. IsFiniteSet(Unsettled) /\ Cardinality(Unsettled) \in Nat
    BY UnsettledFinite DEF WeightsIInv, VectorSafe
  <1>4. Unsettled' = Unsettled \ {c}
    <2>1. settling \in [Campaign -> 0..MaxSettles] /\ live \subseteq Campaign
      BY DEF WeightsIInv, VectorSafe, TypeOKWeights
    <2>2. settling' = [settling EXCEPT ![c] = begun + 1] /\ live' = live
      BY DEF SettleBegins
    <2>3. begun + 1 # 0
      BY <1>2
    <2> QED BY <2>1, <2>2, <2>3 DEF Unsettled
  <1>5. Cardinality(Unsettled') = Cardinality(Unsettled) - 1 /\ Cardinality(Unsettled') \in Nat
    <2>1. IsFiniteSet(Unsettled \ {c}) /\ Cardinality(Unsettled \ {c}) = Cardinality(Unsettled) - 1
      BY <1>2, <1>3, FS_RemoveElement
    <2> QED BY <1>4, <2>1, FS_CardinalityType
  <1>6. begun' = begun + 1 /\ begun' \in 0..MaxSettles
    BY <1>2, <1>3, <1>5, RuleAssumption DEF SettleBegins
  <1>7. settling' \in [Campaign -> 0..MaxSettles] /\ \A d \in Campaign : settling'[d] <= begun'
    BY <1>2, <1>6 DEF SettleBegins, WeightsIInv, VectorSafe, TypeOKWeights, SettlesFit
  <1>8. completed' \subseteq 1..begun'
    BY <1>2, <1>6 DEF SettleBegins, WeightsIInv, VectorSafe, TypeOKWeights
  <1>9. TypeOKWeights'
    BY <1>6, <1>7, <1>8 DEF SettleBegins, WeightsIInv, VectorSafe, TypeOKWeights, published, process
  <1>10. SettlesFit'
    BY <1>2, <1>3, <1>5, <1>6, <1>7 DEF SettlesFit
  <1> QED BY <1>1, <1>9, <1>10 DEF WeightsIInv, VectorSafe

\* complete_round commits: its time stamp is one of those drawn.
LEMMA SettleCommitsOK ==
  ASSUME WeightsIInv, NEW c \in Campaign, SettleCommits(c)
  PROVE  WeightsIInv'
  <1>1. CycleTypes' /\ StoredVectorSound'
    BY VectorsKept DEF WeightsIInv, VectorSafe, SettleCommits, published, process
  <1>2. settling \in [Campaign -> 0..MaxSettles] /\ live \subseteq Campaign /\ begun' = begun /\ begun \in Nat
        /\ settling[c] # 0 /\ settling[c] <= begun
    BY DEF WeightsIInv, VectorSafe, TypeOKWeights, SettleCommits, SettlesFit
  <1>3. Unsettled' = Unsettled
    BY <1>2 DEF SettleCommits, Unsettled
  <1>4. completed' \subseteq 1..begun'
    <2>1. completed' = completed \cup {settling[c]} /\ completed \subseteq 1..begun
      BY DEF WeightsIInv, VectorSafe, TypeOKWeights, SettleCommits
    <2>2. settling[c] \in 1..begun
      BY <1>2
    <2> QED BY <1>2, <2>1, <2>2
  <1>5. settling' \in [Campaign -> 0..MaxSettles] /\ \A d \in Campaign : settling'[d] <= begun'
    BY <1>2, RuleAssumption DEF SettleCommits, WeightsIInv, SettlesFit
  <1>6. crown' \in [Campaign -> [key : Hotkey \cup {NoKey}, held : 0..MaxHeld]]
    <2>0. crown \in [Campaign -> [key : Hotkey \cup {NoKey}, held : 0..MaxHeld]] /\ 0 \in 0..MaxHeld
      BY RuleAssumption DEF WeightsIInv, VectorSafe, TypeOKWeights
    <2>1. CASE UNCHANGED crown
      BY <2>0, <2>1
    <2>2. ASSUME NEW h \in Hotkey, NEW n \in 0..MaxHeld,
                 crown' = [crown EXCEPT ![c] = [key |-> h, held |-> n]]
          PROVE  crown' \in [Campaign -> [key : Hotkey \cup {NoKey}, held : 0..MaxHeld]]
      BY <2>0, <2>2
    <2>3. CASE crown' = [crown EXCEPT ![c] = [key |-> NoKey, held |-> 0]]
      BY <2>0, <2>3
    <2> QED BY <2>1, <2>2, <2>3, Zenon DEF SettleCommits
  <1>7. TypeOKWeights'
    BY <1>2, <1>4, <1>5, <1>6 DEF SettleCommits, WeightsIInv, VectorSafe, TypeOKWeights, published, process
  <1>8. SettlesFit'
    BY <1>2, <1>3, <1>5 DEF SettlesFit, WeightsIInv
  <1> QED BY <1>1, <1>7, <1>8 DEF WeightsIInv, VectorSafe

\* Both markers are times of completed rounds, or zero.
LEMMA MarkerTypes ==
  ASSUME TypeOKWeights
  PROVE  StoredMarker \in 0..MaxSettles /\ CompletedMarker \in 0..MaxSettles
  <1>1. completed \subseteq 1..MaxSettles /\ MaxSettles \in Nat
    BY RuleAssumption DEF TypeOKWeights
  <1> DEFINE stored == {0} \cup {k \in completed : k <= row.at}
             all == {0} \cup completed
  <1>2. stored \subseteq 0..MaxSettles /\ stored # {} /\ all \subseteq 0..MaxSettles /\ all # {}
    <2>1. 0 \in 0..MaxSettles /\ 1..MaxSettles \subseteq 0..MaxSettles
      BY <1>1
    <2>2. 0 \in stored /\ 0 \in all
      OBVIOUS
    <2>3. stored \subseteq {0} \cup completed /\ all \subseteq {0} \cup completed
      OBVIOUS
    <2> HIDE DEF stored, all
    <2> QED BY <1>1, <2>1, <2>2, <2>3, Zenon
  <1>3. StoredMarker = Max(stored) /\ CompletedMarker = Max(all)
    BY DEF StoredMarker, CompletedMarker
  <1> HIDE DEF stored, all
  <1>4. Max(stored) \in stored /\ Max(all) \in all
    BY <1>1, <1>2, GreatestOfSet
  <1> QED BY <1>2, <1>3, <1>4

\* An age that grows stays within its bound.
LEMMA OlderBounded == ASSUME NEW cap \in Nat, NEW n \in 0..cap PROVE Older(n, cap) \in 0..cap
  BY DEF Older

\* A block passes.
LEMMA BlockOK == ASSUME WeightsIInv, Block PROVE WeightsIInv'
  <1>1. crown' \in [Campaign -> [key : Hotkey \cup {NoKey}, held : 0..MaxHeld]]
    <2>1. \A c \in Campaign : crown[c] \in [key : Hotkey \cup {NoKey}, held : 0..MaxHeld]
      BY DEF WeightsIInv, VectorSafe, TypeOKWeights
    <2>2. \A c \in Campaign : Older(crown[c].held, MaxHeld) \in 0..MaxHeld /\ 0 \in 0..MaxHeld
      BY <2>1, RuleAssumption, OlderBounded
    <2> QED BY <2>1, <2>2 DEF Block
  <1>2. resultAge' \in 0..Cadence /\ setAge' \in 0..Cadence
    BY RuleAssumption, OlderBounded DEF WeightsIInv, VectorSafe, TypeOKWeights, Block
  <1>3. TypeOKWeights'
    BY <1>1, <1>2 DEF WeightsIInv, VectorSafe, TypeOKWeights, Block
  <1>4. StoredVectorSound'
    BY DEF WeightsIInv, VectorSafe, StoredVectorSound, Block
  <1>5. CycleTypes'
    <2>1. Older(cycle.age, Cadence) \in 0..Cadence
      BY RuleAssumption, OlderBounded DEF WeightsIInv, CycleTypes
    <2>2. cycle' = cycle \/ cycle' = [cycle EXCEPT !.age = Older(cycle.age, Cadence)]
      BY DEF Block
    <2>3. cycle'.vec = cycle.vec /\ wpc' = wpc
      BY <2>2 DEF Block, WeightsIInv, CycleTypes
    <2>4. CASE cycle' = cycle
      BY <2>3, <2>4 DEF WeightsIInv, CycleTypes, Sound
    <2>5. CASE cycle' = [cycle EXCEPT !.age = Older(cycle.age, Cadence)]
      BY <2>1, <2>3, <2>5 DEF WeightsIInv, CycleTypes, Sound
    <2> QED BY <2>2, <2>4, <2>5
  <1>6. SettlesFit'
    BY SettlesKept DEF WeightsIInv, Block
  <1> QED BY <1>3, <1>4, <1>5, <1>6 DEF WeightsIInv, VectorSafe

\* The empty cycle.
LEMMA NoCycleType ==
  NoCycle \in [marker : 0..MaxSettles, meta : [Hotkey -> Uid \cup {-1}], age : 0..Cadence,
               sign : BOOLEAN, vec : Vector \cup {NoVec}, pays : [Campaign -> Hotkey \cup {NoKey}]]
  BY RuleAssumption DEF NoCycle

\* The end of a tick.
LEMMA TickEndsOK ==
  ASSUME WeightsIInv, TickEnds
  PROVE  /\ setAge' \in 0..Cadence /\ lastRound' \in 0..MaxSettles
         /\ wpc' = "idle" /\ CycleTypes'
  <1>1. setAge' \in 0..Cadence /\ lastRound' \in 0..MaxSettles /\ wpc' = "idle" /\ cycle' = NoCycle
    BY DEF WeightsIInv, VectorSafe, TypeOKWeights, CycleTypes, TickEnds
  <1> QED BY <1>1, NoCycleType DEF CycleTypes

\* The process starts, fails or dies: no vector is touched.
LEMMA LifeOK ==
  ASSUME WeightsIInv, StartProcess \/ Abort \/ CycleFails \/ Die
  PROVE  WeightsIInv'
  <1>1. UNCHANGED <<live, settling, begun, row>>
    BY DEF StartProcess, Abort, CycleFails, Die, tables, published
  <1>2. StoredVectorSound' /\ SettlesFit'
    BY <1>1, SettlesKept DEF WeightsIInv, VectorSafe, StoredVectorSound
  <1>3. CASE StartProcess
    <2>1. TypeOKWeights'
      BY <1>3, MarkerTypes DEF StartProcess, WeightsIInv, VectorSafe, TypeOKWeights, tables, published
    <2>2. CycleTypes'
      BY <1>3 DEF StartProcess, WeightsIInv, CycleTypes
    <2> QED BY <1>2, <2>1, <2>2 DEF WeightsIInv, VectorSafe
  <1>4. CASE Abort
    <2>1. TypeOKWeights' /\ CycleTypes'
      BY <1>4, TickEndsOK DEF Abort, WeightsIInv, VectorSafe, TypeOKWeights, tables, published
    <2> QED BY <1>2, <2>1 DEF WeightsIInv, VectorSafe
  <1>5. CASE CycleFails
    <2>1. TypeOKWeights' /\ CycleTypes'
      BY <1>5, NoCycleType DEF CycleFails, WeightsIInv, VectorSafe, TypeOKWeights, CycleTypes, tables
    <2> QED BY <1>2, <2>1 DEF WeightsIInv, VectorSafe
  <1>6. CASE Die
    <2>1. TypeOKWeights' /\ CycleTypes'
      BY <1>6, NoCycleType, RuleAssumption
         DEF Die, Never, WeightsIInv, VectorSafe, TypeOKWeights, CycleTypes, tables
    <2> QED BY <1>2, <2>1 DEF WeightsIInv, VectorSafe
  <1> QED BY <1>3, <1>4, <1>5, <1>6

\* A cycle begins with a marker and a metagraph.
LEMMA BeginCycleOK == ASSUME WeightsIInv, BeginCycle PROVE WeightsIInv'
  <1>1. PICK m \in Meta :
          cycle' = [NoCycle EXCEPT !.marker = CompletedMarker, !.sign = CycleDue, !.meta = m]
    BY DEF BeginCycle
  <1>2. CompletedMarker \in 0..MaxSettles /\ m \in [Hotkey -> Uid \cup {-1}] /\ CycleDue \in BOOLEAN
    BY MarkerTypes, UidAssumption DEF WeightsIInv, VectorSafe, CycleDue
  <1>3. CycleTypes'
    BY <1>1, <1>2, NoCycleType DEF CycleTypes, BeginCycle
  <1>4. TypeOKWeights' /\ StoredVectorSound'
    BY DEF BeginCycle, WeightsIInv, VectorSafe, TypeOKWeights, StoredVectorSound, tables, published
  <1>5. SettlesFit'
    BY SettlesKept DEF WeightsIInv, BeginCycle, tables
  <1> QED BY <1>3, <1>4, <1>5 DEF WeightsIInv, VectorSafe

\* Deregistered leaders are vacated.
LEMMA ReconcileOK == ASSUME WeightsIInv, Reconcile PROVE WeightsIInv'
  <1>1. crown' \in [Campaign -> [key : Hotkey \cup {NoKey}, held : 0..MaxHeld]]
    BY RuleAssumption DEF Reconcile, WeightsIInv, VectorSafe, TypeOKWeights
  <1>2. TypeOKWeights' /\ StoredVectorSound'
    BY <1>1 DEF Reconcile, WeightsIInv, VectorSafe, TypeOKWeights, StoredVectorSound, published
  <1>3. CycleTypes'
    BY DEF Reconcile, WeightsIInv, CycleTypes
  <1>4. SettlesFit'
    BY SettlesKept DEF WeightsIInv, Reconcile
  <1> QED BY <1>2, <1>3, <1>4 DEF WeightsIInv, VectorSafe

\* The vector is built, or refused because burn would be negative.
LEMMA BuildOK == ASSUME WeightsIInv, Build PROVE WeightsIInv'
  <1>1. UNCHANGED <<tables, published, faults>>
    BY DEF Build
  <1>2. StoredVectorSound' /\ SettlesFit'
    BY <1>1, SettlesKept DEF WeightsIInv, VectorSafe, StoredVectorSound, tables, published
  <1>3. CASE ~Buildable(cycle.meta) /\ TickEnds
    <2>1. TypeOKWeights' /\ CycleTypes'
      BY <1>1, <1>3, TickEndsOK DEF WeightsIInv, VectorSafe, TypeOKWeights, tables, published
    <2> QED BY <1>2, <2>1 DEF WeightsIInv, VectorSafe
  <1>4. CASE /\ Buildable(cycle.meta) /\ wpc' = "store" /\ UNCHANGED <<lastRound, setAge>>
             /\ cycle' = [cycle EXCEPT !.vec  = BuildVector(cycle.meta), !.meta = NoCycle.meta,
                                       !.pays = [c \in Campaign |-> Paid(c, cycle.meta)]]
    <2>1. Sound(BuildVector(cycle.meta))
      BY <1>4, BuiltSound DEF WeightsIInv, VectorSafe
    <2>2. [c \in Campaign |-> Paid(c, cycle.meta)] \in [Campaign -> Hotkey \cup {NoKey}]
      BY DEF Paid, WeightsIInv, VectorSafe, TypeOKWeights
    <2>3. NoCycle.meta \in [Hotkey -> Uid \cup {-1}]
      BY DEF NoCycle
    <2>4. CycleTypes'
      <3> DEFINE v == BuildVector(cycle.meta)
                 p == [c \in Campaign |-> Paid(c, cycle.meta)]
                 n == NoCycle.meta
      <3>1. v \in Vector /\ p \in [Campaign -> Hotkey \cup {NoKey}] /\ n \in [Hotkey -> Uid \cup {-1}]
        BY <2>1, <2>2, <2>3 DEF Sound
      <3>2. cycle' = [cycle EXCEPT !.vec = v, !.meta = n, !.pays = p]
        BY <1>4
      <3> HIDE DEF v, p, n
      <3>3. cycle' \in [marker : 0..MaxSettles, meta : [Hotkey -> Uid \cup {-1}], age : 0..Cadence,
                        sign : BOOLEAN, vec : Vector \cup {NoVec}, pays : [Campaign -> Hotkey \cup {NoKey}]]
            /\ cycle'.vec = v
        BY <3>1, <3>2 DEF WeightsIInv, CycleTypes
      <3>4. Sound(v)
        BY <2>1 DEF v
      <3> QED BY <3>3, <3>4 DEF CycleTypes, Sound
    <2>5. TypeOKWeights'
      BY <1>1, <1>4 DEF WeightsIInv, VectorSafe, TypeOKWeights, tables, published
    <2> QED BY <1>2, <2>4, <2>5 DEF WeightsIInv, VectorSafe
  <1> QED BY <1>3, <1>4 DEF Build

\* The row is the cycle's vector, or stays.
LEMMA StoreOK == ASSUME WeightsIInv, Store PROVE WeightsIInv'
  <1>1. wpc = "store" /\ UNCHANGED <<tables, resultAge, faults>> /\ Sound(cycle.vec)
    BY DEF Store, WeightsIInv, CycleTypes
  <1>2. SettlesFit'
    BY <1>1, SettlesKept DEF WeightsIInv, tables
  <1>3. row' = row \/ row' = [at |-> begun, vec |-> cycle.vec, pays |-> cycle.pays]
    BY DEF Store, InsertWeightSet
  <1>4. StoredVectorSound' /\ row'.at \in -1..MaxSettles
    <2>1. CASE row' = row
      BY <2>1 DEF WeightsIInv, VectorSafe, StoredVectorSound, TypeOKWeights
    <2>2. CASE row' = [at |-> begun, vec |-> cycle.vec, pays |-> cycle.pays]
      BY <1>1, <2>2, RuleAssumption DEF WeightsIInv, VectorSafe, StoredVectorSound, TypeOKWeights, Sound
    <2> QED BY <1>3, <2>1, <2>2
  <1>5. TypeOKWeights' /\ CycleTypes'
    <2>1. CASE cycle.sign /\ Enabled /\ wpc' = "sign" /\ UNCHANGED <<lastRound, setAge, cycle>>
      BY <1>1, <1>4, <2>1 DEF WeightsIInv, VectorSafe, TypeOKWeights, CycleTypes, Sound, tables
    <2>2. CASE TickEnds
      BY <1>1, <1>4, <2>2, TickEndsOK DEF WeightsIInv, VectorSafe, TypeOKWeights, tables
    <2> QED BY <2>1, <2>2 DEF Store
  <1> QED BY <1>2, <1>4, <1>5 DEF WeightsIInv, VectorSafe

\* The signature and its record.
LEMMA SignOK == ASSUME WeightsIInv, Sign \/ Mark PROVE WeightsIInv'
  <1>1. UNCHANGED <<tables, row, faults>>
    BY DEF Sign, Mark
  <1>2. StoredVectorSound' /\ SettlesFit'
    BY <1>1, SettlesKept DEF WeightsIInv, VectorSafe, StoredVectorSound, tables
  <1>3. CASE Sign
    <2>1. TypeOKWeights' /\ CycleTypes'
      BY <1>3 DEF Sign, WeightsIInv, VectorSafe, TypeOKWeights, CycleTypes, Sound, tables
    <2> QED BY <1>2, <2>1 DEF WeightsIInv, VectorSafe
  <1>4. CASE Mark
    <2>1. resultAge' \in 0..Cadence
      BY <1>4 DEF Mark, MarkResult, WeightsIInv, CycleTypes
    <2>2. TypeOKWeights' /\ CycleTypes'
      BY <1>1, <1>4, <2>1, TickEndsOK DEF Mark, WeightsIInv, VectorSafe, TypeOKWeights, tables
    <2> QED BY <1>2, <2>2 DEF WeightsIInv, VectorSafe
  <1> QED BY <1>3, <1>4

\* Every step keeps the invariant.
LEMMA WeightsNext == WeightsIInv /\ [NextWeights]_weightVars => WeightsIInv'
  <1> SUFFICES ASSUME WeightsIInv, [NextWeights]_weightVars PROVE WeightsIInv'
    OBVIOUS
  <1>1. CASE UNCHANGED weightVars
    <2>1. TypeOKWeights'
      BY <1>1 DEF WeightsIInv, VectorSafe, TypeOKWeights, weightVars, tables, published, process
    <2> QED BY <1>1, <2>1, VectorsKept, SettlesKept
            DEF WeightsIInv, VectorSafe, weightVars, tables, published, process
  <1>2. CASE NextWeights
    BY <1>2, OpeningsOK, StartRoundOK, SettleBeginsOK, SettleCommitsOK, BlockOK, LifeOK, BeginCycleOK,
       ReconcileOK, BuildOK, StoreOK, SignOK
       DEF NextWeights, ProcessNext, Settle
  <1> QED BY <1>1, <1>2

\* Every vector on record gives each uid a share within the whole and sums to the
\* whole, for any number of campaigns, decay rules and uids, whatever openings,
\* settlements, failures and restarts of the weights process interleave
\* (weights/build.py, weights/store.py).
THEOREM VectorsSumToTheWhole == SpecWeights => []VectorSafe
  <1>1. WeightsIInv => VectorSafe
    BY DEF WeightsIInv
  <1> QED BY <1>1, WeightsInit, WeightsNext, PTL DEF SpecWeights
=============================================================================
