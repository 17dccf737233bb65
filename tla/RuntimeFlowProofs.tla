-------------------------- MODULE RuntimeFlowProofs --------------------------
(***************************************************************************)
(* Theorems of RuntimeFlow.                                                *)
(***************************************************************************)
EXTENDS RuntimeFlow, FiniteSetTheorems, WellFoundedInduction, TLAPS

-----------------------------------------------------------------------------
(* Numbers and finite sets.                                                *)

\* m is the largest of S.
IsMax(m, S) == m \in S /\ \A y \in S : m >= y

\* A smallest finite set of numbers without a largest one has none either
\* when one of its numbers is taken away.
LEMMA MaxExists ==
    ASSUME NEW S \in SUBSET Nat, IsFiniteSet(S), S # {}
    PROVE  \E m \in S : IsMax(m, S)
<1> DEFINE Bad == {T \in FiniteSubsetsOf(Nat) : T # {} /\ ~\E m \in T : IsMax(m, T)}
<1>1. SUFFICES ASSUME S \in Bad
               PROVE  FALSE
  BY DEF FiniteSubsetsOf
<1>2. IsWellFoundedOn(StrictSubsetOrdering(Nat), FiniteSubsetsOf(Nat))
  BY FS_StrictSubsetOrderingWellFounded
<1>3. PICK T \in Bad : \A U \in Bad : <<U, T>> \notin StrictSubsetOrdering(Nat)
  <2>1. Bad \subseteq FiniteSubsetsOf(Nat) /\ Bad # {}
    BY <1>1
  <2> HIDE DEF Bad
  <2>2. QED
    BY <1>2, <2>1, WFMin
<1>4. T \in SUBSET Nat /\ IsFiniteSet(T) /\ T # {}
  BY <1>3 DEF FiniteSubsetsOf
<1>5. PICK x \in T : x \in Nat
  BY <1>4
<1>6. T \ {x} \in FiniteSubsetsOf(Nat)
  BY <1>4, FS_Subset DEF FiniteSubsetsOf
<1>7. T \ {x} \notin Bad
  BY <1>3, <1>4, <1>5 DEF StrictSubsetOrdering
<1>8. CASE T \ {x} = {}
  <2>1. IsMax(x, T)
    BY <1>5, <1>8 DEF IsMax
  <2>2. QED
    BY <1>3, <2>1
<1>9. CASE T \ {x} # {}
  <2>1. PICK m \in T \ {x} : IsMax(m, T \ {x})
    BY <1>6, <1>7, <1>9
  <2>2. IsMax(IF m >= x THEN m ELSE x, T)
    BY <2>1, <1>4, <1>5 DEF IsMax
  <2>3. QED
    BY <1>3, <2>1, <2>2, <1>5
<1>10. QED
  BY <1>8, <1>9

LEMMA MaxProperty ==
    ASSUME NEW S \in SUBSET Nat, IsFiniteSet(S), S # {}
    PROVE  Max(S) \in Nat /\ \A y \in S : y <= Max(S)
<1>1. IsMax(Max(S), S)
  BY MaxExists DEF Max, IsMax
<1>2. QED
  BY <1>1 DEF IsMax

LEMMA MinOfTwo ==
    ASSUME NEW a \in Nat, NEW b \in Nat
    PROVE  Min({a, b}) = IF a <= b THEN a ELSE b
<1> DEFINE m == IF a <= b THEN a ELSE b
<1>1. m \in {a, b} /\ \A y \in {a, b} : m <= y
  OBVIOUS
<1>2. \A x \in {a, b} : (\A y \in {a, b} : x <= y) => x = m
  OBVIOUS
<1>3. QED
  BY <1>1, <1>2 DEF Min

\* A set indexed by a finite one is finite and no larger.
LEMMA ImageFinite ==
    ASSUME NEW S, IsFiniteSet(S), NEW f, DOMAIN f = S
    PROVE  /\ IsFiniteSet({f[x] : x \in S})
           /\ Cardinality({f[x] : x \in S}) <= Cardinality(S)
<1> DEFINE T == {f[x] : x \in S}
<1>1. [x \in S |-> f[x]] \in Surjection(S, T)
  BY DEF Surjection
<1>2. QED
  BY <1>1, FS_Surjection

-----------------------------------------------------------------------------
(* Types.                                                                  *)

LEMMA UnsettledFinite ==
    ASSUME ActsOK
    PROVE  /\ IsFiniteSet(Unsettled) /\ Unsettled \subseteq DOMAIN acts
           /\ IsFiniteSet(PendingActs) /\ PendingActs \subseteq DOMAIN acts
<1>1. Unsettled \subseteq DOMAIN acts /\ PendingActs \subseteq DOMAIN acts
  BY DEF Unsettled, PendingActs
<1>2. QED
  BY <1>1, FS_Subset DEF ActsOK

\* A new activation has a generation of its own.
LEMMA NextIdIsNew ==
    ASSUME ActsOK, NEW node \in Nodes, NEW key \in Keys
    PROVE  NextId(node, key) \in Id /\ NextId(node, key) \notin DOMAIN acts
<1> DEFINE L == Lane(node, key)
           G == {id.gen : id \in L}
<1>1. L \subseteq DOMAIN acts /\ L \subseteq Id
  BY DEF Lane, ActsOK
<1>2. G \in SUBSET Nat
  BY <1>1 DEF Id
<1>3. IsFiniteSet(L)
  BY <1>1, FS_Subset DEF ActsOK
<1>4. IsFiniteSet(G)
  <2> DEFINE f == [id \in L |-> id.gen]
  <2>1. DOMAIN f = L /\ {f[id] : id \in L} = G
    OBVIOUS
  <2> HIDE DEF f, L, G
  <2>2. QED
    BY <1>3, <2>1, ImageFinite
<1>5. L # {} => Max(G) \in Nat /\ \A y \in G : y <= Max(G)
  BY <1>2, <1>4, MaxProperty
<1>6. NextGeneration(node, key) = IF L = {} THEN 0 ELSE Max(G) + 1
  BY DEF NextGeneration
<1>7. NextGeneration(node, key) \in Nat
  BY <1>5, <1>6
<1>8. \A id \in L : id.gen < NextGeneration(node, key)
  <2>1. \A id \in L : id.gen \in G /\ id.gen \in Nat
    BY <1>2
  <2> HIDE DEF G
  <2>2. QED
    BY <2>1, <1>5, <1>6
<1>9. NextId(node, key) \in Id
  BY <1>7 DEF NextId, Id
<1>10. ASSUME NextId(node, key) \in DOMAIN acts
       PROVE  FALSE
  <2>1. NextId(node, key) \in L
    BY <1>10 DEF NextId, Lane
  <2>2. QED
    BY <2>1, <1>7, <1>8 DEF NextId
<1>11. QED
  BY <1>9, <1>10

LEMMA AffordableIs ==
    ASSUME TickOK, NEW S, IsFiniteSet(S), NEW ids \in Affordable(S)
    PROVE  /\ ids \subseteq S
           /\ Cardinality(ids) \in 0..budget
           /\ Cardinality(ids) < budget => ids = S
<1> DEFINE n == Cardinality(S)
<1>1. n \in Nat /\ budget \in Nat
  BY FS_CardinalityType, NumbersAssumption DEF TickOK
<1>2. ids \subseteq S /\ Cardinality(ids) = Min({n, budget})
  BY DEF Affordable, kSubset
<1>3. Cardinality(ids) = IF n <= budget THEN n ELSE budget
  BY <1>1, <1>2, MinOfTwo
<1>4. Cardinality(ids) = n => ids = S
  BY <1>2, FS_Subset
<1>5. QED
  BY <1>1, <1>2, <1>3, <1>4

LEMMA ActivateType ==
    ASSUME ActsOK, NEW ids \in SUBSET Id, IsFiniteSet(ids),
           NEW trigger \in SUBSET Trigger, Activate(ids, trigger)
    PROVE  ActsOK' /\ DOMAIN acts' = DOMAIN acts \cup ids
<1>1. New(trigger) \in Activation
  BY DEF New, Activation, ActStatus
<1>2. DOMAIN acts' = DOMAIN acts \cup ids
  BY DEF Activate
<1>3. IsFiniteSet(DOMAIN acts \cup ids)
  BY FS_Union DEF ActsOK
<1>4. acts' \in [DOMAIN acts' -> Activation]
  BY <1>1 DEF Activate, ActsOK
<1>5. QED
  BY <1>2, <1>3, <1>4 DEF ActsOK

LEMMA SetActsType ==
    ASSUME ActsOK, NEW ids, NEW s \in ActStatus, SetActs(ids, s)
    PROVE  ActsOK' /\ DOMAIN acts' = DOMAIN acts
BY DEF SetActs, ActsOK, Activation

LEMMA GiveType ==
    ASSUME ActsOK, NEW id \in DOMAIN acts, NEW what \in Artifacts \cup Effects,
           Give(id, what)
    PROVE  /\ ActsOK' /\ DOMAIN acts' = DOMAIN acts
           /\ \A i \in DOMAIN acts : /\ acts'[i].status = acts[i].status
                                     /\ acts'[i].trigger = acts[i].trigger
BY DEF Give, ActsOK, Activation

LEMMA ObserveType ==
    ASSUME ActsOK, NEW id \in DOMAIN acts, NEW bound, Observe(id, bound)
    PROVE  /\ ActsOK' /\ DOMAIN acts' = DOMAIN acts
           /\ \A i \in DOMAIN acts :
                 /\ acts'[i].trigger = acts[i].trigger
                 /\ i # id => acts'[i].status = acts[i].status
<1>1. Decision(acts[id], Needs[id.node], bound) \in ActStatus
  BY DEF Decision, ActStatus, Settled
<1>2. QED
  BY <1>1 DEF Observe, ActsOK, Activation

\* The activations one plan makes are new and no more than its keys.
LEMMA IdsType ==
    ASSUME ActsOK, NEW node \in Nodes, NEW keys \in SUBSET Keys, IsFiniteSet(keys)
    PROVE  LET ids == {NextId(node, key) : key \in keys}
           IN /\ ids \in SUBSET Id
              /\ IsFiniteSet(ids)
              /\ Cardinality(ids) <= Cardinality(keys)
              /\ \A id \in ids : id \notin DOMAIN acts
<1> DEFINE ids == {NextId(node, key) : key \in keys}
           f == [key \in keys |-> NextId(node, key)]
<1>1. \A id \in ids : id \in Id /\ id \notin DOMAIN acts
  BY NextIdIsNew
<1>2. DOMAIN f = keys /\ {f[key] : key \in keys} = ids
  OBVIOUS
<1> HIDE DEF f
<1>3. IsFiniteSet(ids) /\ Cardinality(ids) <= Cardinality(keys)
  <2> HIDE DEF ids
  <2>1. QED
    BY <1>2, ImageFinite
<1>4. QED
  BY <1>1, <1>3

\* The lines of an artifact as keys.
LEMMA LinesType ==
    ASSUME FactsOK, NEW artifact \in Artifacts
    PROVE  LET keys == {<<artifact, line>> : line \in 1..facts[artifact].value}
           IN keys \in SUBSET Keys /\ IsFiniteSet(keys)
<1> DEFINE n == facts[artifact].value
           keys == {<<artifact, line>> : line \in 1..n}
           f == [line \in 1..n |-> <<artifact, line>>]
<1>1. n \in 0..MaxLines /\ MaxLines \in Nat
  BY NumbersAssumption DEF FactsOK, Facts, Values
<1>2. keys \in SUBSET Keys
  BY <1>1 DEF Keys
<1>3. DOMAIN f = 1..n /\ {f[line] : line \in 1..n} = keys
  OBVIOUS
<1>4. IsFiniteSet(1..n)
  BY <1>1, FS_Interval
<1> HIDE DEF f, n
<1>5. IsFiniteSet(keys)
  <2> HIDE DEF keys
  <2>1. QED
    BY <1>3, <1>4, ImageFinite
<1>6. QED
  BY <1>2, <1>5 DEF n

LEMMA KeysType ==
    ASSUME FactsOK, NEW r \in Route
    PROVE  PlanKeys(r) \in SUBSET Keys /\ IsFiniteSet(PlanKeys(r))
<1>1. CASE r.each = NoFact
  BY <1>1, FS_Singleton DEF PlanKeys, Keys
<1>2. CASE r.each # NoFact
  <2>1. r.each \in Artifacts
    BY <1>2 DEF Route
  <2>2. QED
    BY <1>2, <2>1, LinesType DEF PlanKeys
<1>3. QED
  BY <1>1, <1>2

LEMMA TriggerType ==
    ASSUME RunOK, FactsOK, NEW r \in Route
    PROVE  TriggerOf(r) \in Trigger
<1>1. TriggerFact(r) \in Facts
  BY DEF TriggerFact, Route, Facts
<1>2. QED
  BY <1>1 DEF TriggerOf, Trigger, RunOK, FactsOK

LEMMA PreviewType ==
    ASSUME RunOK, ActsOK, FactsOK, NEW r \in Route
    PROVE  PreviewOf(r) \in Preview /\ IsFiniteSet(PreviewOf(r).plan)
<1>1. PlanKeys(r) \in SUBSET Keys /\ IsFiniteSet(PlanKeys(r)) /\ r.node \in Nodes
  BY KeysType DEF Route
<1>2. Plan(r) \in SUBSET Id /\ IsFiniteSet(Plan(r))
  BY <1>1, IdsType DEF Plan
<1>3. {TriggerOf(r)} \in SUBSET Trigger
  BY TriggerType
<1>4. QED
  BY <1>2, <1>3 DEF PreviewOf, Preview

LEMMA PlansHeadTail ==
    ASSUME PlansOK, plans # <<>>
    PROVE  /\ Head(plans) \in Preview /\ IsFiniteSet(Head(plans).plan)
           /\ Tail(plans) \in Seq(Preview)
           /\ \A i \in DOMAIN Tail(plans) : IsFiniteSet(Tail(plans)[i].plan)
<1>1. plans \in Seq(Preview) /\ Len(plans) \in Nat /\ Len(plans) > 0
  BY DEF PlansOK
<1>2. Head(plans) = plans[1] /\ 1 \in DOMAIN plans
  BY <1>1
<1>3. Tail(plans) \in Seq(Preview) /\ Len(Tail(plans)) = Len(plans) - 1
  BY <1>1
<1>4. \A i \in DOMAIN Tail(plans) : i + 1 \in DOMAIN plans /\ Tail(plans)[i] = plans[i + 1]
  BY <1>1
<1>5. QED
  BY <1>1, <1>2, <1>3, <1>4 DEF PlansOK

\* What a route that fires meets.
LEMMA FireRouteMeets ==
    ASSUME ActsOK, PlansOK, FireRoute
    PROVE  /\ Head(plans) \in Preview /\ IsFiniteSet(Head(plans).plan)
           /\ \A t \in Head(plans).trigger : ~AppliedTrigger(t)
           /\ \A id \in Head(plans).plan : id \notin DOMAIN acts
           /\ HasRoomFor(Cardinality(Head(plans).plan))
<1> DEFINE p == Head(plans)
<1>1. plans # <<>> /\ ~Skipped(p) /\ ~TooMany(p)
  BY DEF FireRoute, RoutesLeft
<1>2. p \in Preview /\ IsFiniteSet(p.plan)
  BY <1>1, PlansHeadTail
<1>3. p.verdict = "matched"
  BY <1>1, <1>2 DEF Skipped, TooMany, Preview
<1>4. HasRoomFor(Cardinality(p.plan)) /\ ~Stale(p)
  BY <1>1, <1>3 DEF Skipped, TooMany
<1>5. \A t \in p.trigger : ~AppliedTrigger(t)
  BY <1>1, <1>3 DEF Skipped
<1>6. ASSUME NEW id \in p.plan
      PROVE  id \notin DOMAIN acts
  <2>1. id = NextId(id.node, id.key)
    BY <1>4 DEF Stale
  <2>2. id.node \in Nodes /\ id.key \in Keys
    BY <1>2 DEF Preview, Id
  <2>3. QED
    BY <2>1, <2>2, NextIdIsNew
<1>7. QED
  BY <1>2, <1>4, <1>5, <1>6

LEMMA BeginType ==
    ASSUME PlansOK, TickOK, NEW k \in {"full", "stop", "exit"}, Begin(k)
    PROVE  PlansOK' /\ TickOK'
BY NumbersAssumption DEF Begin, PlansOK, TickOK, Places

\* A request that leaves the activations alone.
LEMMA RunRequestType ==
    ASSUME TypeOK, Begin("full"), UNCHANGED acts, RunOK', FactsOK'
    PROVE  TypeOK'
BY BeginType DEF TypeOK, ActsOK

\* A request that adds activations.
LEMMA ActivateRequestType ==
    ASSUME TypeOK, Begin("full"), RunOK', UNCHANGED facts,
           NEW ids \in SUBSET Id, IsFiniteSet(ids), Activate(ids, {})
    PROVE  TypeOK'
BY BeginType, ActivateType DEF TypeOK, FactsOK

LEMMA InitialFinite == IsFiniteSet(Initial) /\ Initial \subseteq Nodes
BY FlowAssumption, FS_Subset DEF Initial

LEMMA BindIds ==
    ASSUME ActsOK
    PROVE  LET ids == {NextId(n, <<>>) : n \in Initial}
           IN /\ ids \in SUBSET Id /\ IsFiniteSet(ids)
              /\ Cardinality(ids) <= Cardinality(Initial)
              /\ \A id \in ids : id \notin DOMAIN acts
<1> DEFINE ids == {NextId(n, <<>>) : n \in Initial}
           f == [n \in Initial |-> NextId(n, <<>>)]
<1>1. \A id \in ids : id \in Id /\ id \notin DOMAIN acts
  BY InitialFinite, NextIdIsNew DEF Keys
<1>2. DOMAIN f = Initial /\ {f[n] : n \in Initial} = ids
  OBVIOUS
<1> HIDE DEF f
<1>3. IsFiniteSet(ids) /\ Cardinality(ids) <= Cardinality(Initial)
  <2> HIDE DEF ids
  <2>1. QED
    BY <1>2, InitialFinite, ImageFinite
<1>4. QED
  BY <1>1, <1>3

LEMMA TypeInit == Init => TypeOK
<1> SUFFICES ASSUME Init PROVE TypeOK
  OBVIOUS
<1>1. RunOK /\ PlansOK /\ TickOK
  BY NumbersAssumption
     DEF Init, RunOK, PlansOK, TickOK, RunStatus, Reasons, Places
<1>2. ActsOK
  BY FS_EmptySet DEF Init, ActsOK
<1>3. FactsOK
  BY NumbersAssumption DEF Init, FactsOK, Values
<1>4. QED
  BY <1>1, <1>2, <1>3 DEF TypeOK

LEMMA TickTypes == TypeOK /\ Tick => TypeOK'
<1> SUFFICES ASSUME TypeOK, Tick PROVE TypeOK'
  OBVIOUS
<1> USE DEF TypeOK
<1>1. CASE PreviewRoutes
  <2>1. LockRoutes \in Seq(Route)
    BY FlowAssumption DEF LockRoutes, RunOK
  <2>2. \A i \in DOMAIN LockRoutes :
           PreviewOf(LockRoutes[i]) \in Preview /\ IsFiniteSet(PreviewOf(LockRoutes[i]).plan)
    BY <2>1, PreviewType
  <2>3. PlansOK'
    <3>1. CASE plans' = <<>>
      BY <3>1 DEF PlansOK
    <3>2. CASE plans' = [i \in DOMAIN LockRoutes |-> PreviewOf(LockRoutes[i])]
      <4>1. plans' \in Seq(Preview)
        BY <2>1, <2>2, <3>2
      <4>2. \A i \in DOMAIN plans' : IsFiniteSet(plans'[i].plan)
        BY <2>2, <3>2
      <4>3. QED
        BY <4>1, <4>2 DEF PlansOK
    <3>3. QED
      BY <1>1, <3>1, <3>2 DEF PreviewRoutes
  <2>4. QED
    BY <1>1, <2>3 DEF PreviewRoutes, run, RunOK, ActsOK, FactsOK, TickOK, Places
<1>2. CASE SkipRoute
  BY <1>2, PlansHeadTail
     DEF SkipRoute, RoutesLeft, run, RunOK, ActsOK, FactsOK, PlansOK, TickOK
<1>3. CASE ExhaustLimit
  BY <1>3 DEF ExhaustLimit, SetRun, RunOK, ActsOK, FactsOK, PlansOK, TickOK,
              RunStatus, Reasons
<1>4. CASE FireRoute
  <2>1. ActsOK'
    BY <1>4, FireRouteMeets, ActivateType DEF FireRoute, Preview
  <2>2. PlansOK'
    BY <1>4, PlansHeadTail DEF FireRoute, RoutesLeft, PlansOK
  <2>3. RunOK'
    BY <1>4 DEF FireRoute, SetRun, RunOK, RunStatus, Reasons
  <2>4. QED
    BY <1>4, <2>1, <2>2, <2>3, NumbersAssumption
       DEF FireRoute, RoutesLeft, FactsOK, TickOK
<1>5. CASE RoutesDone
  BY <1>5 DEF RoutesDone, run, RunOK, ActsOK, FactsOK, PlansOK, TickOK, Places
<1>6. CASE Actuate
  <2> DEFINE S == IF ExplicitEnabled THEN PendingActs ELSE {}
  <2>1. IsFiniteSet(S)
    BY UnsettledFinite, FS_EmptySet
  <2>2. PICK ids \in Affordable(S) :
           SetActs(ids, "running") /\ budget' = budget - Cardinality(ids)
    BY <1>6 DEF Actuate
  <2>3. Cardinality(ids) \in 0..budget
    BY <2>1, <2>2, AffordableIs
  <2>4. ActsOK'
    BY <2>2, SetActsType DEF ActStatus
  <2>5. QED
    BY <1>6, <2>2, <2>3, <2>4, NumbersAssumption
       DEF Actuate, RunOK, FactsOK, PlansOK, TickOK, Places
<1>7. CASE StopRun
  <2>1. PICK ids \in Affordable(Unsettled) :
           /\ SetActs(ids, "cancelled")
           /\ IF Cardinality(ids) < budget
              THEN SetRun("stopped", "none") /\ budget' = budget - Cardinality(ids) - 1
              ELSE budget' = 0 /\ UNCHANGED <<status, reason>>
    BY <1>7 DEF StopRun
  <2>2. Cardinality(ids) \in 0..budget
    BY <2>1, UnsettledFinite, AffordableIs
  <2>3. ActsOK'
    BY <2>1, SetActsType DEF ActStatus, Settled
  <2>4. budget' \in 0..ActionLimit
    BY <2>1, <2>2, NumbersAssumption DEF TickOK
  <2>5. RunOK'
    BY <1>7, <2>1 DEF StopRun, Commit, SetRun, RunOK, RunStatus, Terminal, Reasons
  <2>6. QED
    BY <1>7, <2>3, <2>4, <2>5 DEF StopRun, Commit, FactsOK, PlansOK, TickOK, Places
<1>8. CASE BlockRun \/ SettleRun
  <2>1. budget' \in 0..ActionLimit
    BY <1>8, NumbersAssumption DEF BlockRun, SettleRun, Completable, TickOK
  <2>2. RunOK'
    BY <1>8 DEF BlockRun, SettleRun, Commit, SetRun, RunOK, RunStatus, Terminal, Reasons
  <2>3. QED
    BY <1>8, <2>1, <2>2
       DEF BlockRun, SettleRun, Commit, ActsOK, FactsOK, PlansOK, TickOK, Places
<1>9. CASE KeepRun
  BY <1>9 DEF KeepRun, Commit, RunOK, ActsOK, FactsOK, PlansOK, TickOK, Places
<1>10. CASE ReconcilePostCommit
  BY <1>10 DEF ReconcilePostCommit, SetRun, RunOK, ActsOK, FactsOK, PlansOK, TickOK,
               RunStatus, Reasons, Places
<1>11. QED
  BY <1>1, <1>2, <1>3, <1>4, <1>5, <1>6, <1>7, <1>8, <1>9, <1>10 DEF Tick

LEMMA ControlTypes == TypeOK /\ Controls => TypeOK'
<1> SUFFICES ASSUME TypeOK, Controls PROVE TypeOK'
  OBVIOUS
<1>1. CASE BindRun
  <2>1. RunOK' /\ Begin("full") /\ UNCHANGED facts
    BY <1>1 DEF BindRun, StartRun, SetRun, TypeOK, RunOK, RunStatus, Reasons
  <2>2. Activate({NextId(n, <<>>) : n \in Initial}, {})
    BY <1>1 DEF BindRun, StartRun
  <2>3. QED
    BY <2>1, <2>2, BindIds, ActivateRequestType DEF TypeOK
<1>2. CASE PauseRun \/ RequestStop \/ CompleteRun
  <2>1. /\ RunOK' /\ Begin("full") /\ UNCHANGED <<acts, facts>>
    BY <1>2 DEF PauseRun, RequestStop, CompleteRun, SetRun, TypeOK, RunOK,
                RunStatus, Terminal, Reasons
  <2>2. QED
    BY <2>1, RunRequestType DEF TypeOK, FactsOK
<1>3. CASE \E l \in Limits : ResumeRun(l)
  <2>1. /\ RunOK' /\ Begin("full") /\ UNCHANGED <<acts, facts>>
    BY <1>3 DEF ResumeRun, SetRun, TypeOK, RunOK, RunStatus, Reasons
  <2>2. QED
    BY <2>1, RunRequestType DEF TypeOK, FactsOK
<1>4. CASE \E k \in Locks : ApplyFlowRevision(k)
  <2>1. /\ RunOK' /\ Begin("full") /\ UNCHANGED <<acts, facts>>
    BY <1>4 DEF ApplyFlowRevision, TypeOK, RunOK
  <2>2. QED
    BY <2>1, RunRequestType DEF TypeOK, FactsOK
<1>5. QED
  BY <1>1, <1>2, <1>3, <1>4 DEF Controls

LEMMA DeliveryTypes == TypeOK /\ Deliveries => TypeOK'
<1> SUFFICES ASSUME TypeOK, Deliveries PROVE TypeOK'
  OBVIOUS
<1>1. ASSUME NEW id \in DOMAIN acts, NEW artifact \in Artifacts, NEW value \in Values,
             DeliverArtifact(id, artifact, value)
      PROVE  TypeOK'
  <2>1. RunOK' /\ PlansOK' /\ TickOK'
    BY <1>1, BeginType DEF DeliverArtifact, TypeOK, RunOK
  <2>2. ActsOK'
    BY <1>1, GiveType DEF DeliverArtifact, TypeOK
  <2>3. FactsOK'
    BY <1>1 DEF DeliverArtifact, Set, TypeOK, FactsOK, Facts
  <2>4. QED
    BY <2>1, <2>2, <2>3 DEF TypeOK
<1>2. ASSUME NEW keys \in SUBSET BoardKeys, NEW patch \in [keys -> Values],
             PatchBoard(patch)
      PROVE  TypeOK'
  <2>1. RunOK' /\ Begin("full") /\ UNCHANGED acts
    BY <1>2 DEF PatchBoard, TypeOK, RunOK
  <2>2. \A f \in Facts : f \in DOMAIN patch => patch[f] \in Values
    OBVIOUS
  <2>3. FactsOK'
    BY <1>2, <2>2 DEF PatchBoard, Set, TypeOK, FactsOK
  <2>4. QED
    BY <2>1, <2>3, RunRequestType
<1>3. ASSUME NEW id \in DOMAIN acts, NEW effect \in Effects, RecordEffect(id, effect)
      PROVE  TypeOK'
  <2>1. RunOK' /\ FactsOK' /\ PlansOK' /\ TickOK'
    BY <1>3, BeginType DEF RecordEffect, TypeOK, RunOK, FactsOK
  <2>2. ActsOK'
    BY <1>3, GiveType DEF RecordEffect, TypeOK
  <2>3. QED
    BY <2>1, <2>2 DEF TypeOK
<1>4. QED
  BY <1>1, <1>2, <1>3 DEF Deliveries

LEMMA ActivationTypes == TypeOK /\ Activations => TypeOK'
<1> SUFFICES ASSUME TypeOK, Activations PROVE TypeOK'
  OBVIOUS
<1>1. ASSUME NEW id \in DOMAIN acts, ObserveStop(id)
      PROVE  TypeOK'
  <2>1. RunOK' /\ FactsOK' /\ PlansOK' /\ TickOK'
    BY <1>1, BeginType DEF ObserveStop, TypeOK, RunOK, FactsOK
  <2>2. ActsOK'
    BY <1>1, ObserveType DEF ObserveStop, TypeOK, ActsOK
  <2>3. QED
    BY <2>1, <2>2 DEF TypeOK
<1>2. ASSUME NEW id \in DOMAIN acts, ParticipantStop(id)
      PROVE  TypeOK'
  <2>1. RunOK' /\ FactsOK' /\ PlansOK' /\ TickOK'
    BY <1>2, BeginType DEF ParticipantStop, TypeOK, RunOK, FactsOK
  <2>2. ActsOK'
    BY <1>2, ObserveType DEF ParticipantStop, TypeOK
  <2>3. QED
    BY <2>1, <2>2 DEF TypeOK
<1>3. ASSUME NEW id \in DOMAIN acts, ParticipantExited(id)
      PROVE  TypeOK'
  <2>1. ExitStatus(acts[id].status) \in ActStatus
    BY DEF ExitStatus, ActStatus, Settled
  <2>2. ActsOK'
    BY <1>3, <2>1, SetActsType DEF ParticipantExited, TypeOK
  <2>3. QED
    BY <1>3, <2>2 DEF ParticipantExited, TypeOK, RunOK, FactsOK, PlansOK, TickOK
<1>4. ASSUME NEW node \in Nodes, ActivateNode(node)
      PROVE  TypeOK'
  <2>1. RunOK' /\ Begin("full") /\ UNCHANGED facts
    BY <1>4 DEF ActivateNode, TypeOK, RunOK
  <2>2. {NextId(node, <<>>)} \in SUBSET Id /\ IsFiniteSet({NextId(node, <<>>)})
    <3>1. ActsOK /\ <<>> \in Keys
      BY DEF TypeOK, Keys
    <3>2. NextId(node, <<>>) \in Id
      BY <3>1, NextIdIsNew
    <3>3. QED
      BY <3>2, FS_Singleton
  <2>3. QED
    BY <1>4, <2>1, <2>2, ActivateRequestType DEF ActivateNode
<1>5. ASSUME NEW node \in Nodes, NEW artifact \in Artifacts,
             FanoutFromArtifact(node, artifact)
      PROVE  TypeOK'
  <2> DEFINE keys == {<<artifact, line>> : line \in 1..facts[artifact].value}
  <2>1. RunOK' /\ Begin("full") /\ UNCHANGED facts
    BY <1>5 DEF FanoutFromArtifact, TypeOK, RunOK
  <2>2. keys \in SUBSET Keys /\ IsFiniteSet(keys)
    BY LinesType DEF TypeOK
  <2>3. Activate({NextId(node, key) : key \in keys}, {})
    BY <1>5 DEF FanoutFromArtifact
  <2>4. QED
    BY <2>1, <2>2, <2>3, IdsType, ActivateRequestType DEF TypeOK
<1>6. QED
  BY <1>1, <1>2, <1>3, <1>4, <1>5 DEF Activations

LEMMA DriverTypes == TypeOK /\ Drivers => TypeOK'
<1> SUFFICES ASSUME TypeOK, Drivers PROVE TypeOK'
  OBVIOUS
<1> USE DEF TypeOK, RunOK, ActsOK, FactsOK, PlansOK, TickOK
<1>1. CASE Reconcile \/ DriverCrash
  BY <1>1 DEF Reconcile, DriverCrash, run, Places
<1>2. CASE DriverExit
  BY <1>2, NumbersAssumption
     DEF DriverExit, Begin, SetRun, RunStatus, Reasons, Places
<1>3. CASE DriverRestart
  BY <1>3 DEF DriverRestart, SetRun, RunStatus, Reasons, Places
<1>4. QED
  BY <1>1, <1>2, <1>3 DEF Drivers

LEMMA TypeStep == TypeOK /\ [Next]_vars => TypeOK'
<1>1. TypeOK /\ UNCHANGED vars => TypeOK'
  BY DEF vars, TypeOK, RunOK, ActsOK, FactsOK, PlansOK, TickOK
<1>2. QED
  BY <1>1, TickTypes, ControlTypes, DeliveryTypes, ActivationTypes, DriverTypes DEF Next

(***************************************************************************)
(* The variables keep their types whatever the flow, the limits and the    *)
(* requests: identities have numbered generations, plans are finite, and   *)
(* no tick takes more actions than it may.                                 *)
(***************************************************************************)
THEOREM TypeCorrect == Spec => []TypeOK
BY TypeInit, TypeStep, PTL DEF Spec

-----------------------------------------------------------------------------
(* What a step does to the activations.                                    *)

\* Previews are left only while routes are applied, which scheduling allows.
RouteInv == plans # <<>> => pc = "route" /\ RoutesEnabled

LEMMA RouteInit == Init => RouteInv
BY DEF Init, RouteInv

LEMMA RouteStep == RouteInv /\ [Next]_vars => RouteInv'
<1> SUFFICES ASSUME RouteInv, [Next]_vars PROVE RouteInv'
  OBVIOUS
<1>1. CASE Tick
  <2>1. CASE PreviewRoutes
    BY <2>1 DEF PreviewRoutes, run, RouteInv, RoutesEnabled
  <2>2. CASE SkipRoute \/ ExhaustLimit \/ RoutesDone
    BY <2>2 DEF SkipRoute, ExhaustLimit, RoutesDone, RoutesLeft, run,
                RouteInv, RoutesEnabled
  <2>3. CASE FireRoute
    BY <2>3 DEF FireRoute, RoutesLeft, SetRun, RouteInv, RoutesEnabled
  <2>4. CASE Actuate \/ StopRun \/ BlockRun \/ SettleRun \/ KeepRun \/ ReconcilePostCommit
    BY <2>4 DEF Actuate, StopRun, BlockRun, SettleRun, KeepRun, ReconcilePostCommit,
                Commit, RouteInv
  <2>5. QED
    BY <1>1, <2>1, <2>2, <2>3, <2>4 DEF Tick
<1>2. CASE Controls
  BY <1>2 DEF Controls, BindRun, StartRun, PauseRun, ResumeRun, RequestStop, CompleteRun,
              ApplyFlowRevision, Serving, Begin, RouteInv
<1>3. CASE Deliveries
  BY <1>3 DEF Deliveries, DeliverArtifact, PatchBoard, RecordEffect, Serving, Begin,
              RouteInv
<1>4. CASE Activations
  BY <1>4 DEF Activations, ObserveStop, ParticipantStop, ParticipantExited,
              ActivateNode, FanoutFromArtifact, Serving, Begin, RouteInv
<1>5. CASE Drivers
  BY <1>5 DEF Drivers, Reconcile, DriverExit, DriverCrash, DriverRestart, Serving,
              Begin, RouteInv
<1>6. CASE UNCHANGED vars
  BY <1>6 DEF vars, RouteInv, RoutesEnabled
<1>7. QED
  BY <1>1, <1>2, <1>3, <1>4, <1>5, <1>6 DEF Next

AtRest == status \in {"quiescent"} \cup Terminal

\* A step adds activations there is room for, to a run that goes on, under
\* triggers that have none (or under no trigger, unless a route fires);
Adds ==
    \E ids \in SUBSET Id, trigger \in SUBSET Trigger :
        /\ Activate(ids, trigger)
        /\ IsFiniteSet(ids)
        /\ \A id \in ids : id \notin DOMAIN acts
        /\ \A t \in trigger : ~AppliedTrigger(t)
        /\ HasRoomFor(Cardinality(ids))
        /\ limit' = limit
        /\ status \notin Terminal
        /\ status' = "running"
        /\ trigger = {} \/ FireRoute

KeepsActs ==
    /\ DOMAIN acts' = DOMAIN acts
    /\ \A id \in DOMAIN acts :
          /\ acts'[id].trigger = acts[id].trigger
          /\ acts[id].status \in Settled => acts'[id].status = acts[id].status

KeepsRun ==
    /\ limit' >= limit
    /\ status \in Terminal => status' = status
    /\ AtRest' => AtRest \/ AllSettled'

\* or it adds none and keeps their triggers and what is settled, and the run
\* comes to rest only with everything settled.
Keeps == KeepsActs /\ KeepsRun

LEMMA SetActsKeeps ==
    ASSUME ActsOK, NEW ids, NEW s, SetActs(ids, s), ids \cap DOMAIN acts \subseteq Unsettled
    PROVE  KeepsActs
BY DEF SetActs, KeepsActs, ActsOK, Activation, Unsettled

LEMMA ObserveKeeps ==
    ASSUME ActsOK, NEW id \in Unsettled, NEW bound, Observe(id, bound)
    PROVE  KeepsActs
BY ObserveType DEF KeepsActs, Unsettled

LEMMA PendingIsUnsettled == PendingActs \subseteq Unsettled
BY DEF PendingActs, Unsettled, Settled

\* A step that leaves the activations alone.
LEMMA SameActsKeeps == UNCHANGED acts => KeepsActs
BY DEF KeepsActs

\* A request that starts no run and ends none.
LEMMA SameRunKeeps == RunOK /\ UNCHANGED <<status, limit>> => KeepsRun
BY FlowAssumption DEF RunOK, KeepsRun, AtRest

LEMMA TickActs == TypeOK /\ RouteInv /\ Tick => Adds \/ Keeps
<1> SUFFICES ASSUME TypeOK, RouteInv, Tick PROVE Adds \/ Keeps
  OBVIOUS
<1>1. limit \in Nat /\ ActsOK /\ PlansOK /\ TickOK /\ RunOK
  BY FlowAssumption DEF TypeOK, RunOK
<1>2. CASE PreviewRoutes \/ SkipRoute \/ RoutesDone
  BY <1>1, <1>2, SameActsKeeps, SameRunKeeps
     DEF PreviewRoutes, SkipRoute, RoutesDone, run, Keeps
<1>3. CASE ExhaustLimit
  <2>1. UNCHANGED <<acts, limit>> /\ status' = "paused" /\ plans # <<>>
    BY <1>3 DEF ExhaustLimit, SetRun, RoutesLeft
  <2>2. KeepsRun
    BY <1>1, <2>1 DEF RouteInv, RoutesEnabled, KeepsRun, AtRest, Terminal
  <2>3. QED
    BY <2>1, <2>2, SameActsKeeps DEF Keeps
<1>4. CASE FireRoute
  <2> DEFINE p == Head(plans)
  <2>1. /\ p \in Preview /\ IsFiniteSet(p.plan)
        /\ \A t \in p.trigger : ~AppliedTrigger(t)
        /\ \A id \in p.plan : id \notin DOMAIN acts
        /\ HasRoomFor(Cardinality(p.plan))
    BY <1>1, <1>4, FireRouteMeets
  <2>2. p.plan \in SUBSET Id /\ p.trigger \in SUBSET Trigger
    BY <2>1 DEF Preview
  <2>3. RoutesEnabled /\ Activate(p.plan, p.trigger) /\ limit' = limit
    BY <1>4 DEF FireRoute, RoutesLeft, RouteInv
  <2>4. status \notin Terminal /\ status' = "running"
    BY <1>4, <2>3 DEF FireRoute, SetRun, RoutesEnabled, Terminal
  <2>5. QED
    BY <1>4, <2>1, <2>2, <2>3, <2>4 DEF Adds
<1>5. CASE Actuate
  <2> DEFINE S == IF ExplicitEnabled THEN PendingActs ELSE {}
  <2>1. PICK ids \in Affordable(S) : SetActs(ids, "running")
    BY <1>5 DEF Actuate
  <2>2. ids \subseteq S
    BY DEF Affordable, kSubset
  <2>3. KeepsActs
    BY <1>1, <2>1, <2>2, PendingIsUnsettled, SetActsKeeps
  <2>4. QED
    BY <1>1, <1>5, <2>3, SameRunKeeps DEF Actuate, Keeps
<1>6. CASE StopRun
  <2>1. PICK ids \in Affordable(Unsettled) :
           /\ SetActs(ids, "cancelled")
           /\ Cardinality(ids) < budget \/ UNCHANGED status
    BY <1>6 DEF StopRun
  <2>2. status = "stopping" /\ limit' = limit /\ status' \in {"stopping", "stopped"}
    BY <1>6 DEF StopRun, SetRun, Commit
  <2>3. ids \subseteq Unsettled /\ (Cardinality(ids) < budget => ids = Unsettled)
    BY <1>1, UnsettledFinite, AffordableIs
  <2>4. KeepsActs
    BY <1>1, <2>1, <2>3, SetActsKeeps
  <2>5. Cardinality(ids) < budget => AllSettled'
    BY <2>1, <2>3 DEF SetActs, AllSettled, Unsettled, Settled
  <2>6. KeepsRun
    BY <1>1, <2>1, <2>2, <2>5 DEF KeepsRun, AtRest, Terminal
  <2>7. QED
    BY <2>4, <2>6 DEF Keeps
<1>7. CASE BlockRun
  <2>1. UNCHANGED <<acts, limit>> /\ status' = "blocked" /\ status \notin Terminal
    BY <1>7 DEF BlockRun, Commit, SetRun, Completable, Terminal
  <2>2. QED
    BY <1>1, <2>1, SameActsKeeps DEF Keeps, KeepsRun, AtRest, Terminal
<1>8. CASE SettleRun
  <2>1. UNCHANGED <<acts, limit>> /\ status \notin Terminal /\ AllSettled
    BY <1>8 DEF SettleRun, Commit, SetRun, Completable, Terminal
  <2>2. AllSettled'
    BY <2>1 DEF AllSettled, Unsettled
  <2>3. QED
    BY <1>1, <2>1, <2>2, SameActsKeeps DEF Keeps, KeepsRun
<1>9. CASE KeepRun
  BY <1>1, <1>9, SameActsKeeps, SameRunKeeps DEF KeepRun, Commit, Keeps
<1>10. CASE ReconcilePostCommit
  <2>1. UNCHANGED <<acts, limit>>
    BY <1>10 DEF ReconcilePostCommit
  <2>2. CASE UNCHANGED status
    BY <1>1, <2>1, <2>2, SameActsKeeps, SameRunKeeps DEF Keeps
  <2>3. CASE status = "running" /\ status' = "paused"
    BY <1>1, <2>1, <2>3, SameActsKeeps DEF Keeps, KeepsRun, AtRest, Terminal
  <2>4. QED
    BY <1>10, <2>2, <2>3 DEF ReconcilePostCommit, ExplicitEnabled, SetRun
<1>11. QED
  BY <1>2, <1>3, <1>4, <1>5, <1>6, <1>7, <1>8, <1>9, <1>10 DEF Tick

LEMMA ControlActs == TypeOK /\ Controls => Adds \/ Keeps
<1> SUFFICES ASSUME TypeOK, Controls PROVE Adds \/ Keeps
  OBVIOUS
<1>1. limit \in Nat /\ ActsOK /\ RunOK
  BY FlowAssumption DEF TypeOK, RunOK
<1>2. CASE BindRun
  <2> DEFINE ids == {NextId(n, <<>>) : n \in Initial}
  <2>1. /\ ids \in SUBSET Id /\ IsFiniteSet(ids)
        /\ Cardinality(ids) <= Cardinality(Initial)
        /\ \A id \in ids : id \notin DOMAIN acts
    BY <1>1, BindIds
  <2>2. /\ HasRoomFor(Cardinality(Initial)) /\ Activate(ids, {})
        /\ limit' = limit /\ status \notin Terminal /\ status' = "running"
    BY <1>2 DEF BindRun, StartRun, SetRun, Terminal
  <2>3. HasRoomFor(Cardinality(ids))
    <3>1. /\ Cardinality(ids) \in Nat /\ Cardinality(Initial) \in Nat
          /\ Cardinality(DOMAIN acts) \in Nat
      BY <1>1, <2>1, InitialFinite, FS_CardinalityType DEF ActsOK
    <3> HIDE DEF ids
    <3>2. QED
      BY <1>1, <2>1, <2>2, <3>1 DEF HasRoomFor
  <2> HIDE DEF ids
  <2>4. QED
    BY <2>1, <2>2, <2>3 DEF Adds
<1>3. CASE PauseRun
  <2>1. UNCHANGED <<acts, limit>> /\ status' = "paused" /\ status \notin Terminal
    BY <1>3 DEF PauseRun, SetRun, Terminal
  <2>2. QED
    BY <1>1, <2>1, SameActsKeeps DEF Keeps, KeepsRun, AtRest, Terminal
<1>4. CASE RequestStop
  <2>1. /\ UNCHANGED <<acts, limit>>
        /\ IF status \in Terminal THEN UNCHANGED status ELSE status' = "stopping"
    BY <1>4 DEF RequestStop, SetRun
  <2>2. QED
    BY <1>1, <2>1, SameActsKeeps DEF Keeps, KeepsRun, AtRest, Terminal
<1>5. CASE CompleteRun
  <2>1. UNCHANGED <<acts, limit>> /\ status = "quiescent"
    BY <1>5 DEF CompleteRun
  <2>2. QED
    BY <1>1, <2>1, SameActsKeeps DEF Keeps, KeepsRun, AtRest, Terminal
<1>6. CASE \E l \in Limits : ResumeRun(l)
  <2>1. PICK l \in Limits : ResumeRun(l)
    BY <1>6
  <2>2. /\ UNCHANGED acts /\ limit' = l /\ l >= limit /\ status' = "running"
        /\ status \notin Terminal
    BY <2>1 DEF ResumeRun, MayResume, SetRun, Terminal
  <2>3. QED
    BY <2>2, SameActsKeeps DEF Keeps, KeepsRun, AtRest, Terminal
<1>7. CASE \E k \in Locks : ApplyFlowRevision(k)
  BY <1>1, <1>7, SameActsKeeps, SameRunKeeps DEF ApplyFlowRevision, Keeps
<1>8. QED
  BY <1>2, <1>3, <1>4, <1>5, <1>6, <1>7 DEF Controls

LEMMA DeliveryActs == TypeOK /\ Deliveries => Keeps
<1> SUFFICES ASSUME TypeOK, Deliveries PROVE Keeps
  OBVIOUS
<1>1. ActsOK /\ RunOK
  BY DEF TypeOK
<1>2. ASSUME NEW id \in DOMAIN acts, NEW artifact \in Artifacts, NEW value \in Values,
             DeliverArtifact(id, artifact, value)
      PROVE  Keeps
  BY <1>1, <1>2, GiveType, SameRunKeeps DEF DeliverArtifact, Keeps, KeepsActs
<1>3. ASSUME NEW keys \in SUBSET BoardKeys, NEW patch \in [keys -> Values],
             PatchBoard(patch)
      PROVE  Keeps
  BY <1>1, <1>3, SameActsKeeps, SameRunKeeps DEF PatchBoard, Keeps
<1>4. ASSUME NEW id \in DOMAIN acts, NEW effect \in Effects, RecordEffect(id, effect)
      PROVE  Keeps
  BY <1>1, <1>4, GiveType, SameRunKeeps DEF RecordEffect, Keeps, KeepsActs
<1>5. QED
  BY <1>2, <1>3, <1>4 DEF Deliveries

LEMMA ActivationActs == TypeOK /\ Activations => Adds \/ Keeps
<1> SUFFICES ASSUME TypeOK, Activations PROVE Adds \/ Keeps
  OBVIOUS
<1>1. limit \in Nat /\ ActsOK /\ RunOK /\ FactsOK
  BY FlowAssumption DEF TypeOK, RunOK
<1>2. ASSUME NEW id \in DOMAIN acts, ObserveStop(id)
      PROVE  Keeps
  BY <1>1, <1>2, ObserveKeeps, SameActsKeeps, SameRunKeeps DEF ObserveStop, Keeps
<1>3. ASSUME NEW id \in DOMAIN acts, ParticipantStop(id)
      PROVE  Keeps
  BY <1>1, <1>3, ObserveKeeps, SameRunKeeps DEF ParticipantStop, Keeps
<1>4. ASSUME NEW id \in DOMAIN acts, ParticipantExited(id)
      PROVE  Keeps
  <2>1. SetActs({id}, ExitStatus(acts[id].status)) /\ KeepsRun
    BY <1>1, <1>4, SameRunKeeps DEF ParticipantExited
  <2>2. KeepsActs
    BY <1>1, <2>1 DEF SetActs, ExitStatus, KeepsActs, ActsOK, Activation
  <2>3. QED
    BY <2>1, <2>2 DEF Keeps
<1>5. ASSUME NEW node \in Nodes, ActivateNode(node)
      PROVE  Adds
  <2> DEFINE id == NextId(node, <<>>)
  <2>1. id \in Id /\ id \notin DOMAIN acts
    BY <1>1, NextIdIsNew DEF Keys
  <2>2. /\ HasRoomFor(1) /\ Activate({id}, {}) /\ limit' = limit
        /\ status = "running" /\ status' = "running"
    BY <1>5 DEF ActivateNode, ExplicitEnabled
  <2> HIDE DEF id
  <2>3. {id} \in SUBSET Id /\ IsFiniteSet({id}) /\ Cardinality({id}) = 1
    BY <2>1, FS_Singleton
  <2>4. QED
    BY <2>1, <2>2, <2>3 DEF Adds, Terminal
<1>6. ASSUME NEW node \in Nodes, NEW artifact \in Artifacts,
             FanoutFromArtifact(node, artifact)
      PROVE  Adds
  <2> DEFINE keys == {<<artifact, line>> : line \in 1..facts[artifact].value}
             ids == {NextId(node, key) : key \in keys}
  <2>1. keys \in SUBSET Keys /\ IsFiniteSet(keys)
    BY <1>1, LinesType
  <2>2. /\ ids \in SUBSET Id /\ IsFiniteSet(ids)
        /\ Cardinality(ids) <= Cardinality(keys)
        /\ \A id \in ids : id \notin DOMAIN acts
    <3> HIDE DEF keys
    <3>1. QED
      BY <1>1, <2>1, IdsType
  <2>3. /\ HasRoomFor(Cardinality(keys)) /\ Activate(ids, {}) /\ limit' = limit
        /\ status = "running" /\ status' = "running"
    BY <1>6 DEF FanoutFromArtifact, ExplicitEnabled
  <2> HIDE DEF keys, ids
  <2>4. HasRoomFor(Cardinality(ids))
    <3>1. /\ Cardinality(ids) \in Nat /\ Cardinality(keys) \in Nat
          /\ Cardinality(DOMAIN acts) \in Nat
      BY <1>1, <2>1, <2>2, FS_CardinalityType DEF ActsOK
    <3>2. QED
      BY <1>1, <2>2, <2>3, <3>1 DEF HasRoomFor
  <2>5. QED
    BY <2>2, <2>3, <2>4 DEF Adds, Terminal
<1>7. QED
  BY <1>2, <1>3, <1>4, <1>5, <1>6 DEF Activations

LEMMA DriverActs == TypeOK /\ Drivers => Keeps
<1> SUFFICES ASSUME TypeOK, Drivers PROVE Keeps
  OBVIOUS
<1>1. limit \in Nat /\ RunOK
  BY FlowAssumption DEF TypeOK, RunOK
<1>2. CASE Reconcile \/ DriverCrash
  BY <1>1, <1>2, SameActsKeeps, SameRunKeeps DEF Reconcile, DriverCrash, run, Keeps
<1>3. CASE DriverExit \/ DriverRestart
  <2>1. UNCHANGED <<acts, limit>>
    BY <1>3 DEF DriverExit, DriverRestart
  <2>2. CASE UNCHANGED status
    BY <1>1, <2>1, <2>2, SameActsKeeps, SameRunKeeps DEF Keeps
  <2>3. CASE status \notin Terminal /\ status' = "paused"
    BY <1>1, <2>1, <2>3, SameActsKeeps DEF Keeps, KeepsRun, AtRest, Terminal
  <2>4. QED
    BY <1>3, <2>2, <2>3 DEF DriverExit, DriverRestart, SetRun, Terminal
<1>4. QED
  BY <1>2, <1>3 DEF Drivers

LEMMA StepActs == TypeOK /\ RouteInv /\ [Next]_vars => Adds \/ Keeps
<1>1. TypeOK /\ UNCHANGED vars => Keeps
  BY SameActsKeeps, SameRunKeeps DEF TypeOK, vars, Keeps
<1>2. QED
  BY <1>1, TickActs, ControlActs, DeliveryActs, ActivationActs, DriverActs DEF Next

-----------------------------------------------------------------------------
(* The properties.                                                         *)

SafeInv == TypeOK /\ RouteInv /\ ActivationsWithinLimit /\ RestIsSettled

LEMMA SafeInit == Init => SafeInv
<1> SUFFICES ASSUME Init PROVE SafeInv
  OBVIOUS
<1>1. ActivationsWithinLimit
  <2>1. DOMAIN acts = {} /\ limit \in Nat
    BY FlowAssumption DEF Init
  <2>2. QED
    BY <2>1, FS_EmptySet DEF ActivationsWithinLimit
<1>2. RestIsSettled
  BY DEF Init, RestIsSettled, Terminal
<1>3. QED
  BY <1>1, <1>2, TypeInit, RouteInit DEF SafeInv

LEMMA LimitStep ==
    ASSUME TypeOK, TypeOK', ActivationsWithinLimit, Adds \/ Keeps
    PROVE  ActivationsWithinLimit'
<1>1. /\ IsFiniteSet(DOMAIN acts) /\ Cardinality(DOMAIN acts) \in Nat
      /\ limit \in Nat /\ limit' \in Nat
  BY FlowAssumption, FS_CardinalityType DEF TypeOK, ActsOK, RunOK
<1>2. CASE Adds
  <2>1. PICK ids \in SUBSET Id, trigger \in SUBSET Trigger :
           /\ Activate(ids, trigger) /\ IsFiniteSet(ids)
           /\ HasRoomFor(Cardinality(ids)) /\ limit' = limit
    BY <1>2 DEF Adds
  <2>2. DOMAIN acts' = DOMAIN acts \cup ids
    BY <2>1 DEF Activate
  <2>3. /\ Cardinality(ids) \in Nat
        /\ Cardinality(DOMAIN acts \cap ids) \in Nat
        /\ Cardinality(DOMAIN acts \cup ids)
              = Cardinality(DOMAIN acts) + Cardinality(ids)
                - Cardinality(DOMAIN acts \cap ids)
    BY <1>1, <2>1, FS_Union, FS_Intersection, FS_CardinalityType
  <2>4. QED
    BY <1>1, <2>1, <2>2, <2>3 DEF ActivationsWithinLimit, HasRoomFor
<1>3. CASE Keeps
  BY <1>1, <1>3 DEF Keeps, KeepsActs, KeepsRun, ActivationsWithinLimit
<1>4. QED
  BY <1>2, <1>3

LEMMA RestStep ==
    ASSUME RestIsSettled, Adds \/ Keeps
    PROVE  RestIsSettled'
<1>1. CASE Adds
  BY <1>1 DEF Adds, RestIsSettled, Terminal
<1>2. CASE Keeps
  <2>1. AtRest /\ RestIsSettled => AllSettled'
    BY <1>2 DEF AtRest, RestIsSettled, AllSettled, Unsettled, Keeps, KeepsActs
  <2>2. QED
    BY <1>2, <2>1 DEF Keeps, KeepsRun, AtRest, RestIsSettled
<1>3. QED
  BY <1>1, <1>2

LEMMA SafeStep == SafeInv /\ [Next]_vars => SafeInv'
<1> SUFFICES ASSUME SafeInv, [Next]_vars PROVE SafeInv'
  OBVIOUS
<1>1. TypeOK' /\ RouteInv' /\ (Adds \/ Keeps)
  BY TypeStep, RouteStep, StepActs DEF SafeInv
<1>2. QED
  BY <1>1, LimitStep, RestStep DEF SafeInv

LEMMA Safety == Spec => []SafeInv
BY SafeInit, SafeStep, PTL DEF Spec

LEMMA StepsAct == Spec => [][Adds \/ Keeps]_vars
<1>1. SafeInv /\ [Next]_vars => [Adds \/ Keeps]_vars
  BY StepActs DEF SafeInv
<1>2. QED
  BY Safety, <1>1, PTL DEF Spec

(***************************************************************************)
(* The activation limit is absolute, for every flow: routes, fan-outs,     *)
(* explicit activations and resumptions together never exceed it.          *)
(***************************************************************************)
THEOREM LimitIsAbsolute == Spec => []ActivationsWithinLimit
BY Safety, PTL DEF SafeInv

(***************************************************************************)
(* A run that is quiescent, completed or stopped has only settled          *)
(* activations, however few actions a tick may take.                       *)
(***************************************************************************)
THEOREM RestSettles == Spec => []RestIsSettled
BY Safety, PTL DEF SafeInv

(***************************************************************************)
(* No trigger gets activations twice, however previews and applications    *)
(* of routes, revisions and deliveries follow each other.                  *)
(***************************************************************************)
THEOREM TriggersFireOnce == Spec => FiresOnce
<1> DEFINE Once == \A id \in DOMAIN acts' \ DOMAIN acts :
                      \A t \in acts'[id].trigger : Fired(t) = {}
<1>1. ASSUME Adds PROVE Once
  <2>1. PICK ids \in SUBSET Id, trigger \in SUBSET Trigger :
           Activate(ids, trigger) /\ \A t \in trigger : ~AppliedTrigger(t)
    BY <1>1 DEF Adds
  <2>2. \A id \in DOMAIN acts' \ DOMAIN acts : acts'[id].trigger = trigger
    BY <2>1 DEF Activate, New
  <2>3. QED
    BY <2>1, <2>2 DEF AppliedTrigger, Fired
<1>2. ASSUME Keeps PROVE Once
  BY <1>2 DEF Keeps, KeepsActs
<1>3. [Adds \/ Keeps]_vars => [Once]_vars
  BY <1>1, <1>2
<1>4. QED
  BY StepsAct, <1>3, PTL DEF FiresOnce

(***************************************************************************)
(* What has settled an activation is never overruled: not by its exit, a   *)
(* later stop, the end of the run or a new activation of its lane.         *)
(***************************************************************************)
THEOREM SettledIsFinal == Spec => SettledStays
<1> DEFINE Stays == \A id \in DOMAIN acts :
                       /\ id \in DOMAIN acts'
                       /\ acts[id].status \in Settled =>
                             acts'[id].status = acts[id].status
<1>1. ASSUME Adds PROVE Stays
  <2>1. PICK ids \in SUBSET Id, trigger \in SUBSET Trigger :
           Activate(ids, trigger) /\ \A id \in ids : id \notin DOMAIN acts
    BY <1>1 DEF Adds
  <2>2. QED
    BY <2>1 DEF Activate
<1>2. ASSUME Keeps PROVE Stays
  BY <1>2 DEF Keeps, KeepsActs
<1>3. [Adds \/ Keeps]_vars => [Stays]_vars
  BY <1>1, <1>2
<1>4. QED
  BY StepsAct, <1>3, PTL DEF SettledStays

(***************************************************************************)
(* A run that has ended neither starts again nor grows.                    *)
(***************************************************************************)
THEOREM RunsEndOnce == Spec => EndIsFinal
<1> DEFINE Ended == (status \in Terminal) =>
                       status' = status /\ DOMAIN acts' = DOMAIN acts
<1>1. [Adds \/ Keeps]_vars => [Ended]_vars
  BY DEF Adds, Keeps, KeepsActs, KeepsRun
<1>2. QED
  BY StepsAct, <1>1, PTL DEF EndIsFinal

-----------------------------------------------------------------------------
(* Fan-outs are whole.                                                     *)

\* A fact stays or is delivered again.
FactsGrow == \A f \in Facts : facts'[f] = facts[f] \/ facts'[f].version > facts[f].version

LEMMA StepFacts == TypeOK /\ [Next]_vars => FactsGrow
<1> SUFFICES ASSUME TypeOK, [Next]_vars PROVE FactsGrow
  OBVIOUS
<1>1. CASE Deliveries
  <2>1. ASSUME NEW id \in DOMAIN acts, NEW artifact \in Artifacts, NEW value \in Values,
               DeliverArtifact(id, artifact, value)
        PROVE  FactsGrow
    BY <2>1 DEF DeliverArtifact, Set, TypeOK, FactsOK, FactsGrow
  <2>2. ASSUME NEW keys \in SUBSET BoardKeys, NEW patch \in [keys -> Values],
               PatchBoard(patch)
        PROVE  FactsGrow
    <3>1. \A f \in Facts : facts'[f] = IF f \in DOMAIN patch THEN Set(f, patch[f])
                                                             ELSE facts[f]
      BY <2>2 DEF PatchBoard
    <3>2. \A f \in Facts : Set(f, patch[f]).version > facts[f].version
      BY DEF Set, TypeOK, FactsOK
    <3>3. QED
      BY <3>1, <3>2 DEF FactsGrow
  <2>3. ASSUME NEW id \in DOMAIN acts, NEW effect \in Effects, RecordEffect(id, effect)
        PROVE  FactsGrow
    BY <2>3 DEF RecordEffect, FactsGrow
  <2>4. QED
    BY <1>1, <2>1, <2>2, <2>3 DEF Deliveries
<1>2. CASE Tick
  BY <1>2 DEF Tick, PreviewRoutes, SkipRoute, ExhaustLimit, FireRoute, RoutesDone, Actuate,
              StopRun, BlockRun, SettleRun, KeepRun, ReconcilePostCommit, Commit, run,
              FactsGrow
<1>3. CASE Controls
  BY <1>3 DEF Controls, BindRun, StartRun, PauseRun, ResumeRun, RequestStop, CompleteRun,
              ApplyFlowRevision, FactsGrow
<1>4. CASE Activations
  BY <1>4 DEF Activations, ObserveStop, ParticipantStop, ParticipantExited, ActivateNode,
              FanoutFromArtifact, FactsGrow
<1>5. CASE Drivers
  BY <1>5 DEF Drivers, Reconcile, DriverExit, DriverCrash, DriverRestart, run, FactsGrow
<1>6. CASE UNCHANGED vars
  BY <1>6 DEF vars, FactsGrow
<1>7. QED
  BY <1>1, <1>2, <1>3, <1>4, <1>5, <1>6 DEF Next

\* A preview that matched was computed from the facts as they still are.
IsFresh(p) == p.verdict = "matched" =>
    \E r \in Route, k \in Locks :
        /\ p.trigger = {[lock |-> k, route |-> r, fact |-> TriggerFact(r),
                         version |-> facts[TriggerFact(r)].version]}
        /\ {id.key : id \in p.plan} = PlanKeys(r)
FreshInv == \A i \in DOMAIN plans : IsFresh(plans[i])

\* A trigger is of its route's fact, in a version that there has been.
TriggerInv == \A id \in DOMAIN acts : \A t \in acts[id].trigger :
    t.fact = TriggerFact(t.route) /\ t.version <= facts[t.fact].version

WholeInv == FreshInv /\ TriggerInv /\ PlansAreWhole

LEMMA PreviewIsFresh ==
    ASSUME RunOK, NEW r \in Route
    PROVE  IsFresh(PreviewOf(r))
<1> DEFINE p == PreviewOf(r)
<1>1. p.trigger = {TriggerOf(r)} /\ p.plan = Plan(r) /\ lock \in Locks
  BY DEF PreviewOf, RunOK
<1>2. {id.key : id \in Plan(r)} = PlanKeys(r)
  <2>1. \A key : NextId(r.node, key).key = key
    BY DEF NextId
  <2>2. QED
    BY <2>1 DEF Plan
<1>3. QED
  BY <1>1, <1>2 DEF IsFresh, TriggerOf

LEMMA FreshStep == TypeOK /\ RouteInv /\ FreshInv /\ [Next]_vars => FreshInv'
<1> SUFFICES ASSUME TypeOK, RouteInv, FreshInv, [Next]_vars PROVE FreshInv'
  OBVIOUS
<1>1. CASE plans' = <<>>
  BY <1>1 DEF FreshInv
<1>2. CASE PreviewRoutes /\ plans' # <<>>
  <2>1. LockRoutes \in Seq(Route)
    BY FlowAssumption DEF LockRoutes, TypeOK, RunOK
  <2>2. plans' = [i \in DOMAIN LockRoutes |-> PreviewOf(LockRoutes[i])] /\ UNCHANGED facts
    BY <1>2 DEF PreviewRoutes, run
  <2>3. \A i \in DOMAIN LockRoutes : IsFresh(PreviewOf(LockRoutes[i]))
    BY <2>1, PreviewIsFresh DEF TypeOK
  <2>4. QED
    BY <2>2, <2>3 DEF FreshInv, IsFresh, PlanKeys
<1>3. CASE plans # <<>> /\ plans' = Tail(plans) /\ UNCHANGED facts
  <2>1. \A i \in DOMAIN Tail(plans) : i + 1 \in DOMAIN plans /\ Tail(plans)[i] = plans[i + 1]
    BY <1>3 DEF TypeOK, PlansOK
  <2>2. QED
    BY <1>3, <2>1 DEF FreshInv, IsFresh, PlanKeys
<1>4. CASE UNCHANGED <<plans, facts>>
  BY <1>4 DEF FreshInv, IsFresh, PlanKeys
<1>5. CASE UNCHANGED plans /\ plans = <<>>
  BY <1>5 DEF FreshInv
<1>6. CASE Tick
  BY <1>1, <1>2, <1>3, <1>4, <1>6
     DEF Tick, SkipRoute, ExhaustLimit, FireRoute, RoutesDone, Actuate, StopRun,
         BlockRun, SettleRun, KeepRun, ReconcilePostCommit, RoutesLeft, Commit, run
<1>7. CASE pc \in {"idle", "after", "down"} /\ UNCHANGED plans
  BY <1>5, <1>7 DEF RouteInv
<1>8. CASE Controls \/ Deliveries
  BY <1>7, <1>8 DEF Controls, BindRun, StartRun, PauseRun, ResumeRun, RequestStop, CompleteRun,
                    ApplyFlowRevision, Deliveries, DeliverArtifact, PatchBoard,
                    RecordEffect, Serving, Begin
<1>9. CASE Activations \/ Drivers
  BY <1>7, <1>9 DEF Activations, ObserveStop, ParticipantStop, ParticipantExited,
                    ActivateNode, FanoutFromArtifact, Drivers, Reconcile, DriverExit,
                    DriverCrash, DriverRestart, Serving, Begin
<1>10. CASE UNCHANGED vars
  BY <1>4, <1>10 DEF vars
<1>11. QED
  BY <1>6, <1>8, <1>9, <1>10 DEF Next

\* A trigger that is the latest was it before, and means the same keys.
LEMMA LatestStays ==
    ASSUME FactsOK, FactsOK', FactsGrow, NEW t \in Trigger,
           t.fact = TriggerFact(t.route), t.version <= facts[t.fact].version,
           t.version = facts'[t.fact].version
    PROVE  t.version = facts[t.fact].version /\ PlanKeys(t.route)' = PlanKeys(t.route)
<1>1. t.fact \in Facts /\ t.version \in Nat /\ facts[t.fact].version \in Nat
  BY DEF Trigger, FactsOK
<1>2. facts'[t.fact] = facts[t.fact]
  BY <1>1 DEF FactsGrow
<1>3. QED
  BY <1>2 DEF PlanKeys, TriggerFact

LEMMA TriggersTyped ==
    ASSUME ActsOK, NEW id \in DOMAIN acts, NEW t \in acts[id].trigger
    PROVE  t \in Trigger
BY DEF ActsOK, Activation

\* Routes that fire make their trigger whole.
LEMMA FireIsWhole ==
    ASSUME TypeOK, TypeOK', FreshInv, TriggerInv, PlansAreWhole, FireRoute
    PROVE  TriggerInv' /\ PlansAreWhole'
<1> DEFINE p == Head(plans)
<1>1. /\ \A t \in p.trigger : ~AppliedTrigger(t)
      /\ \A id \in p.plan : id \notin DOMAIN acts
      /\ Activate(p.plan, p.trigger) /\ UNCHANGED facts
  BY FireRouteMeets DEF FireRoute, TypeOK
<1>2. p.verdict = "matched" /\ IsFresh(p)
  <2>1. plans # <<>> /\ ~Skipped(p) /\ ~TooMany(p) /\ p \in Preview
    BY PlansHeadTail DEF FireRoute, RoutesLeft, TypeOK
  <2>2. p = plans[1] /\ 1 \in DOMAIN plans
    BY <2>1 DEF TypeOK, PlansOK
  <2>3. QED
    BY <2>1, <2>2 DEF Skipped, TooMany, Preview, FreshInv
<1>3. PICK r \in Route, u \in Trigger :
         /\ p.trigger = {u} /\ u.route = r
         /\ u.fact = TriggerFact(r) /\ u.version = facts[u.fact].version
         /\ {id.key : id \in p.plan} = PlanKeys(r)
  <2>1. PICK r \in Route, k \in Locks :
           /\ p.trigger = {[lock |-> k, route |-> r, fact |-> TriggerFact(r),
                            version |-> facts[TriggerFact(r)].version]}
           /\ {id.key : id \in p.plan} = PlanKeys(r)
    BY <1>2 DEF IsFresh
  <2>2. TriggerFact(r) \in Facts
    BY DEF TriggerFact, Route, Facts
  <2>3. facts[TriggerFact(r)].version \in Nat
    BY <2>2 DEF TypeOK, FactsOK
  <2> DEFINE w == [lock |-> k, route |-> r, fact |-> TriggerFact(r),
                   version |-> facts[TriggerFact(r)].version]
  <2>4. /\ w \in Trigger /\ w.route = r /\ w.fact = TriggerFact(r)
        /\ w.version = facts[w.fact].version
    BY <2>2, <2>3 DEF Trigger
  <2>5. p.trigger = {w}
    BY <2>1
  <2> HIDE DEF w, p
  <2>6. QED
    BY <2>1, <2>4, <2>5
<1>4. /\ DOMAIN acts' = DOMAIN acts \cup p.plan
      /\ \A id \in p.plan : acts'[id].trigger = {u}
      /\ \A id \in DOMAIN acts : acts'[id] = acts[id]
  BY <1>1, <1>3 DEF Activate, New
<1>5. u.fact = TriggerFact(u.route) /\ u.version <= facts[u.fact].version
  BY <1>3 DEF Trigger
<1>6. \A id \in DOMAIN acts : u \notin acts[id].trigger
  BY <1>1, <1>3 DEF AppliedTrigger
<1> HIDE DEF p
<1>7. TriggerInv'
  BY <1>1, <1>4, <1>5 DEF TriggerInv, TriggerFact
<1>8. Fired(u)' = p.plan
  BY <1>1, <1>4, <1>6 DEF Fired
<1>9. ASSUME NEW id \in DOMAIN acts', NEW t \in acts'[id].trigger,
             t.version = facts'[t.fact].version
      PROVE  {i.key : i \in Fired(t)'} = PlanKeys(t.route)'
  <2>1. PlanKeys(t.route)' = PlanKeys(t.route)
    BY <1>1 DEF PlanKeys
  <2>2. CASE t = u
    BY <1>3, <1>8, <2>1, <2>2
  <2>3. CASE t # u
    <3>1. id \in DOMAIN acts /\ t \in acts[id].trigger
      BY <1>4, <1>9, <2>3
    <3>2. Fired(t)' = Fired(t)
      BY <1>4, <2>3 DEF Fired
    <3>3. QED
      BY <1>1, <1>9, <2>1, <3>1, <3>2 DEF PlansAreWhole
  <2>4. QED
    BY <2>2, <2>3
<1>10. PlansAreWhole'
  BY <1>9 DEF PlansAreWhole
<1>11. QED
  BY <1>7, <1>10

\* A step that adds nothing to any trigger.
LEMMA OthersKeepWhole ==
    ASSUME TypeOK, TypeOK', FactsGrow, TriggerInv, PlansAreWhole,
           DOMAIN acts \subseteq DOMAIN acts',
           \A id \in DOMAIN acts' :
              IF id \in DOMAIN acts THEN acts'[id].trigger = acts[id].trigger
                                    ELSE acts'[id].trigger = {}
    PROVE  TriggerInv' /\ PlansAreWhole'
<1>1. ASSUME NEW id \in DOMAIN acts', NEW t \in acts'[id].trigger
      PROVE  id \in DOMAIN acts /\ t \in acts[id].trigger /\ t \in Trigger
             /\ t.fact = TriggerFact(t.route) /\ t.version <= facts[t.fact].version
  BY <1>1, TriggersTyped DEF TriggerInv, TypeOK
<1>2. TriggerInv'
  <2>1. ASSUME NEW id \in DOMAIN acts', NEW t \in acts'[id].trigger
        PROVE  t.version <= facts'[t.fact].version
    <3>1. t.fact \in Facts /\ t.version \in Nat
      BY <1>1, <2>1 DEF Trigger
    <3>2. facts[t.fact].version \in Nat /\ facts'[t.fact].version \in Nat
      BY <3>1 DEF TypeOK, FactsOK
    <3>3. QED
      BY <1>1, <2>1, <3>1, <3>2 DEF FactsGrow
  <2>2. QED
    BY <1>1, <2>1 DEF TriggerInv, TriggerFact
<1>3. ASSUME NEW id \in DOMAIN acts', NEW t \in acts'[id].trigger,
             t.version = facts'[t.fact].version
      PROVE  {i.key : i \in Fired(t)'} = PlanKeys(t.route)'
  <2>1. t.version = facts[t.fact].version /\ PlanKeys(t.route)' = PlanKeys(t.route)
    BY <1>1, <1>3, LatestStays DEF TypeOK
  <2>2. Fired(t)' = Fired(t)
    BY DEF Fired
  <2>3. {i.key : i \in Fired(t)} = PlanKeys(t.route)
    BY <1>1, <1>3, <2>1 DEF PlansAreWhole
  <2>4. QED
    BY <2>1, <2>2, <2>3
<1>4. QED
  BY <1>2, <1>3 DEF PlansAreWhole

LEMMA WholeStep == SafeInv /\ WholeInv /\ [Next]_vars => WholeInv'
<1> SUFFICES ASSUME SafeInv, WholeInv, [Next]_vars PROVE WholeInv'
  OBVIOUS
<1>1. TypeOK /\ TypeOK' /\ FactsGrow /\ FreshInv' /\ (Adds \/ Keeps)
  BY TypeStep, StepFacts, FreshStep, StepActs DEF SafeInv, WholeInv
<1>2. CASE FireRoute
  BY <1>1, <1>2, FireIsWhole DEF WholeInv
<1>3. CASE Adds /\ ~FireRoute
  <2>1. PICK ids \in SUBSET Id : Activate(ids, {}) /\ \A id \in ids : id \notin DOMAIN acts
    BY <1>3 DEF Adds
  <2>2. /\ DOMAIN acts \subseteq DOMAIN acts'
        /\ \A id \in DOMAIN acts' :
              IF id \in DOMAIN acts THEN acts'[id].trigger = acts[id].trigger
                                    ELSE acts'[id].trigger = {}
    BY <2>1 DEF Activate, New
  <2>3. QED
    BY <1>1, <2>2, OthersKeepWhole DEF WholeInv
<1>4. CASE Keeps
  <2>1. /\ DOMAIN acts \subseteq DOMAIN acts'
        /\ \A id \in DOMAIN acts' :
              IF id \in DOMAIN acts THEN acts'[id].trigger = acts[id].trigger
                                    ELSE acts'[id].trigger = {}
    BY <1>4 DEF Keeps, KeepsActs
  <2>2. QED
    BY <1>1, <2>1, OthersKeepWhole DEF WholeInv
<1>5. QED
  BY <1>1, <1>2, <1>3, <1>4

(***************************************************************************)
(* Whatever a tick previewed and whatever was delivered since, a trigger   *)
(* that is the latest has exactly the activations its artifact asks for.   *)
(***************************************************************************)
THEOREM FanoutsAreWhole == Spec => []PlansAreWhole
<1>1. Init => WholeInv
  BY DEF Init, WholeInv, FreshInv, TriggerInv, PlansAreWhole
<1>2. QED
  BY <1>1, Safety, WholeStep, PTL DEF Spec, WholeInv

-----------------------------------------------------------------------------
(* Routes keep up.                                                         *)

\* Another route of the lock activates the node of the i-th one.
Crowded(i) == \E j \in DOMAIN LockRoutes \ {i} :
                 LockRoutes[j].node = LockRoutes[i].node

\* The first n routes have nothing to fire.
QuietUpTo(n) == \A i \in 1..n : Ready(LockRoutes[i]) => Crowded(i)

\* The plan p of the i-th route still says what there is to fire.
IsTold(p, i) ==
    /\ p.trigger = {TriggerOf(LockRoutes[i])}
    /\ \A id \in p.plan : id.node = LockRoutes[i].node
    /\ p.verdict = "unmatched" => ~Ready(LockRoutes[i])
    /\ p.verdict = "matched" => p.plan # {} /\ (Stale(p) => Crowded(i))

\* The previews that are left are those of the last routes.
Ahead == Len(LockRoutes) - Len(plans)
LeftInv == plans # <<>> => /\ Ahead \in Nat
                           /\ \A k \in DOMAIN plans : IsTold(plans[k], Ahead + k)

\* The tick of a driver that exits serves no running run.
ExitInv == kind = "exit" => status # "running" /\ plans = <<>>

KeepUpInv ==
    /\ pc = "route" /\ RoutesEnabled /\ kind # "exit" /\ budget > 0 => QuietUpTo(Ahead)
    /\ pc \in {"actuate", "complete", "after", "idle"}
          /\ status = "running" /\ budget > 0 => QuietUpTo(Len(LockRoutes))

UpInv == LeftInv /\ ExitInv /\ KeepUpInv

LEMMA ExitStep == RouteInv /\ ExitInv /\ [Next]_vars => ExitInv'
<1> SUFFICES ASSUME RouteInv, ExitInv, [Next]_vars PROVE ExitInv'
  OBVIOUS
<1>1. CASE Tick
  BY <1>1 DEF Tick, PreviewRoutes, SkipRoute, ExhaustLimit, FireRoute, RoutesDone, Actuate,
              StopRun, BlockRun, SettleRun, KeepRun, ReconcilePostCommit, Commit, SetRun,
              RoutesLeft, run, ExitInv
<1>2. CASE Controls \/ Deliveries
  BY <1>2 DEF Controls, BindRun, StartRun, PauseRun, ResumeRun, RequestStop, CompleteRun,
              ApplyFlowRevision, Deliveries, DeliverArtifact, PatchBoard, RecordEffect,
              Begin, ExitInv
<1>3. CASE Activations
  BY <1>3 DEF Activations, ObserveStop, ParticipantStop, ParticipantExited,
              ActivateNode, FanoutFromArtifact, Begin, ExitInv
<1>4. CASE Drivers
  BY <1>4 DEF Drivers, Reconcile, DriverExit, DriverCrash, DriverRestart, Serving, Begin,
              SetRun, Terminal, run, RouteInv, ExitInv
<1>5. CASE UNCHANGED vars
  BY <1>5 DEF vars, ExitInv
<1>6. QED
  BY <1>1, <1>2, <1>3, <1>4, <1>5 DEF Next

LEMMA RoutesTyped ==
    ASSUME RunOK
    PROVE  LockRoutes \in Seq(Route) /\ Len(LockRoutes) \in Nat
BY FlowAssumption DEF RunOK, LockRoutes

\* While facts and lock stay, a route is ready no more often than before.
LEMMA ReadyLess ==
    ASSUME UNCHANGED <<facts, lock>>, Adds \/ Keeps
    PROVE  /\ UNCHANGED LockRoutes
           /\ \A i \in DOMAIN LockRoutes :
                 /\ TriggerOf(LockRoutes[i])' = TriggerOf(LockRoutes[i])
                 /\ Crowded(i)' = Crowded(i)
                 /\ Ready(LockRoutes[i])' => Ready(LockRoutes[i])
<1>1. UNCHANGED LockRoutes
  BY DEF LockRoutes
<1>2. ASSUME NEW t, AppliedTrigger(t)
      PROVE  AppliedTrigger(t)'
  <2>1. CASE Adds
    <3>1. PICK ids \in SUBSET Id, trigger \in SUBSET Trigger :
             Activate(ids, trigger) /\ \A id \in ids : id \notin DOMAIN acts
      BY <2>1 DEF Adds
    <3>2. QED
      BY <1>2, <3>1 DEF Activate, AppliedTrigger
  <2>2. CASE Keeps
    BY <1>2, <2>2 DEF Keeps, KeepsActs, AppliedTrigger
  <2>3. QED
    BY <2>1, <2>2
<1>3. \A r : TriggerOf(r)' = TriggerOf(r) /\ PlanKeys(r)' = PlanKeys(r)
  BY DEF TriggerOf, TriggerFact, PlanKeys
<1>4. \A i \in DOMAIN LockRoutes : Crowded(i)' = Crowded(i)
  BY <1>1 DEF Crowded
<1>5. ASSUME NEW i \in DOMAIN LockRoutes, Ready(LockRoutes[i])'
      PROVE  Ready(LockRoutes[i])
  BY <1>1, <1>2, <1>3, <1>5 DEF Ready, TriggerFact
<1>6. QED
  BY <1>1, <1>3, <1>4, <1>5

\* What a plan says of its route is true when it is made,
LEMMA PreviewIsTold ==
    ASSUME NEW i \in DOMAIN LockRoutes
    PROVE  IsTold(PreviewOf(LockRoutes[i]), i)
<1> DEFINE r == LockRoutes[i]
           p == PreviewOf(r)
<1>1. /\ p.trigger = {TriggerOf(r)}
      /\ p.plan = {NextId(r.node, key) : key \in PlanKeys(r)}
      /\ p.verdict = "unmatched" => ~Ready(r)
      /\ p.verdict = "matched" => Ready(r)
  BY DEF PreviewOf, Plan
<1>2. \A key : /\ NextId(r.node, key).node = r.node
               /\ NextId(r.node, key).key = key
  BY DEF NextId
<1>3. ~Stale(p)
  BY <1>1, <1>2 DEF Stale
<1>4. Ready(r) => p.plan # {}
  BY <1>1 DEF Ready
<1>5. IsTold(p, i)
  <2> HIDE DEF p
  <2>1. QED
    BY <1>1, <1>2, <1>3, <1>4 DEF IsTold
<1>6. QED
  BY <1>5

\* and stays so while other routes fire.
LEMMA FireTells ==
    ASSUME UNCHANGED <<facts, lock>>, Adds \/ Keeps,
           NEW i \in DOMAIN LockRoutes, NEW j \in DOMAIN LockRoutes, i # j,
           NEW p, IsTold(p, i),
           NEW ids, \A id \in ids : id.node = LockRoutes[j].node,
           DOMAIN acts' = DOMAIN acts \cup ids
    PROVE  IsTold(p, i)'
<1>1. /\ TriggerOf(LockRoutes[i])' = TriggerOf(LockRoutes[i])
      /\ LockRoutes' = LockRoutes
      /\ Crowded(i)' = Crowded(i)
      /\ Ready(LockRoutes[i])' => Ready(LockRoutes[i])
  BY ReadyLess
<1>2. ASSUME p.verdict = "matched", Stale(p)', ~Crowded(i)
      PROVE  FALSE
  <2>1. PICK id \in p.plan : id # NextId(id.node, id.key)'
    BY <1>2 DEF Stale
  <2>2. id.node = LockRoutes[i].node /\ ~Stale(p)
    BY <1>2 DEF IsTold
  <2>3. LockRoutes[j].node # LockRoutes[i].node
    BY <1>2 DEF Crowded
  <2>4. Lane(id.node, id.key)' = Lane(id.node, id.key)
    BY <2>2, <2>3 DEF Lane
  <2>5. NextId(id.node, id.key)' = NextId(id.node, id.key)
    BY <2>4 DEF NextId, NextGeneration
  <2>6. QED
    BY <2>1, <2>2, <2>5 DEF Stale
<1>3. QED
  BY <1>1, <1>2 DEF IsTold

\* A step that leaves the activations, facts and lock alone leaves it true.
LEMMA SameTells ==
    ASSUME UNCHANGED <<acts, facts, lock>>, NEW i, NEW p
    PROVE  IsTold(p, i)' = IsTold(p, i) /\ Ready(LockRoutes[i])' = Ready(LockRoutes[i])
BY DEF IsTold, TriggerOf, TriggerFact, LockRoutes, Ready, AppliedTrigger, PlanKeys, Stale,
       NextId, NextGeneration, Lane, Crowded

LEMMA QuietLess ==
    ASSUME RunOK, UNCHANGED <<facts, lock>>, Adds \/ Keeps,
           NEW n \in Int, n <= Len(LockRoutes), QuietUpTo(n)
    PROVE  QuietUpTo(n)'
<1>1. \A i \in 1..n : i \in DOMAIN LockRoutes
  BY RoutesTyped
<1>2. QED
  BY <1>1, ReadyLess DEF QuietUpTo

\* The place of the plan at hand, and those of the rest.
LEMMA PlacesMove ==
    ASSUME TypeOK, LeftInv, plans # <<>>, plans' = Tail(plans), UNCHANGED lock
    PROVE  /\ Ahead \in Nat /\ Ahead' = Ahead + 1 /\ Ahead' \in DOMAIN LockRoutes
           /\ Head(plans) = plans[1] /\ IsTold(Head(plans), Ahead')
           /\ \A k \in DOMAIN plans' :
                 /\ k + 1 \in DOMAIN plans /\ plans'[k] = plans[k + 1]
                 /\ IsTold(plans'[k], Ahead' + k)
                 /\ Ahead' + k \in DOMAIN LockRoutes /\ Ahead' + k # Ahead'
<1>1. LockRoutes' = LockRoutes /\ LockRoutes \in Seq(Route) /\ Len(LockRoutes) \in Nat
  BY RoutesTyped DEF TypeOK, LockRoutes
<1>2. /\ plans \in Seq(Preview) /\ Len(plans) \in Nat \ {0}
      /\ Len(Tail(plans)) = Len(plans) - 1
      /\ Head(plans) = plans[1] /\ 1 \in DOMAIN plans
      /\ \A k \in DOMAIN Tail(plans) :
            /\ k \in Nat \ {0} /\ k <= Len(plans) - 1
            /\ k + 1 \in DOMAIN plans /\ Tail(plans)[k] = plans[k + 1]
  BY DEF TypeOK, PlansOK
<1>3. Ahead \in Nat /\ Ahead' = Ahead + 1 /\ Ahead' \in DOMAIN LockRoutes
  BY <1>1, <1>2 DEF LeftInv, Ahead
<1>4. \A k \in DOMAIN plans : IsTold(plans[k], Ahead + k)
  BY DEF LeftInv
<1>5. IsTold(Head(plans), Ahead')
  BY <1>2, <1>3, <1>4
<1>6. ASSUME NEW k \in DOMAIN plans'
      PROVE  /\ IsTold(plans'[k], Ahead' + k)
             /\ Ahead' + k \in DOMAIN LockRoutes /\ Ahead' + k # Ahead'
  <2>1. k + 1 \in DOMAIN plans /\ plans'[k] = plans[k + 1] /\ k \in Nat \ {0}
    BY <1>2, <1>6
  <2>2. Ahead' + k = Ahead + (k + 1)
    BY <1>3, <2>1
  <2>3. k <= Len(plans) - 1 /\ Ahead = Len(LockRoutes) - Len(plans)
    BY <1>2, <1>6 DEF Ahead
  <2>4. QED
    BY <1>1, <1>2, <1>3, <1>4, <2>1, <2>2, <2>3
<1>7. QED
  BY <1>2, <1>3, <1>5, <1>6

\* A route the plan at hand does not fire has nothing to fire, or waits for
\* one of its node.
LEMMA SkipQuiet ==
    ASSUME SkipRoute, NEW n, IsTold(Head(plans), n)
    PROVE  Ready(LockRoutes[n]) => Crowded(n)
<1> DEFINE p == Head(plans)
           r == LockRoutes[n]
<1>1. IsTold(p, n)
  OBVIOUS
<1>2. Skipped(p)
  BY DEF SkipRoute
<1>3. p.trigger = {TriggerOf(r)}
  BY <1>1 DEF IsTold
<1>4. CASE p.verdict = "unmatched"
  BY <1>1, <1>4 DEF IsTold
<1>5. CASE p.verdict = "matched" /\ Stale(p)
  BY <1>1, <1>5 DEF IsTold
<1>6. CASE AppliedTrigger(TriggerOf(r))
  BY <1>6 DEF Ready
<1>7. QED
  BY <1>2, <1>3, <1>4, <1>5, <1>6 DEF Skipped

\* A route that has fired has nothing to fire.
LEMMA FireQuiet ==
    ASSUME TypeOK, FireRoute, NEW n, IsTold(Head(plans), n)
    PROVE  ~Ready(LockRoutes[n])'
<1> DEFINE p == Head(plans)
           r == LockRoutes[n]
<1>1. p \in Preview
  BY PlansHeadTail DEF FireRoute, RoutesLeft, TypeOK
<1>2. p.verdict = "matched"
  BY <1>1 DEF FireRoute, Skipped, TooMany, Preview
<1>3. p.plan # {} /\ p.trigger = {TriggerOf(r)}
  BY <1>1, <1>2 DEF IsTold
<1>4. Activate(p.plan, p.trigger) /\ UNCHANGED <<facts, lock>>
  BY DEF FireRoute
<1>5. AppliedTrigger(TriggerOf(r))'
  <2>1. PICK id \in p.plan : TRUE
    BY <1>3
  <2>2. id \in DOMAIN acts' /\ acts'[id].trigger = p.trigger
    BY <1>4, <2>1 DEF Activate, New
  <2>3. TriggerOf(r) \in acts'[id].trigger
    BY <1>3, <2>2
  <2>4. QED
    BY <1>4, <2>2, <2>3 DEF AppliedTrigger, TriggerOf, TriggerFact, LockRoutes
<1>6. Ready(r)' => ~AppliedTrigger(TriggerOf(r))'
  BY DEF Ready
<1>7. QED
  BY <1>4, <1>5, <1>6 DEF LockRoutes

\* The routes looked at so far and the one at hand have nothing to fire.
LEMMA QuietUpToNext ==
    ASSUME RunOK, UNCHANGED <<facts, lock>>, Adds \/ Keeps,
           NEW n \in Nat, n + 1 \in DOMAIN LockRoutes, QuietUpTo(n),
           Ready(LockRoutes[n + 1])' => Crowded(n + 1)
    PROVE  QuietUpTo(n + 1)'
<1>1. \A i \in 1..n + 1 : i \in DOMAIN LockRoutes
  BY RoutesTyped
<1>2. ASSUME NEW i \in 1..n + 1, Ready(LockRoutes[i])'
      PROVE  Crowded(i)'
  <2>1. CASE i = n + 1
    BY <1>1, <1>2, <2>1, ReadyLess
  <2>2. CASE i # n + 1
    <3>1. i \in 1..n
      BY <2>2
    <3>2. QED
      BY <1>1, <1>2, <3>1, ReadyLess DEF QuietUpTo
  <2>3. QED
    BY <2>1, <2>2
<1>3. QED
  BY <1>2, ReadyLess DEF QuietUpTo

\* Routes are looked at one after the other.
LEMMA RouteKeepsUp ==
    ASSUME SafeInv, UpInv, SkipRoute \/ FireRoute
    PROVE  LeftInv' /\ KeepUpInv'
<1>1. TypeOK /\ RunOK /\ LeftInv /\ KeepUpInv /\ UNCHANGED <<facts, lock>>
  BY DEF SafeInv, TypeOK, UpInv, SkipRoute, FireRoute, run
<1>2. /\ pc = "route" /\ pc' = "route" /\ plans # <<>> /\ plans' = Tail(plans)
      /\ RoutesEnabled /\ kind # "exit" /\ budget > 0
  BY DEF SkipRoute, FireRoute, RoutesLeft, SafeInv, RouteInv, UpInv, ExitInv
<1>3. Adds \/ Keeps
  BY StepActs DEF SafeInv, Next, Tick
<1>4. PICK n, q : n = Ahead' /\ q = plans'
  OBVIOUS
<1>5. /\ Ahead \in Nat /\ n = Ahead + 1 /\ n \in DOMAIN LockRoutes
      /\ IsTold(Head(plans), n)
      /\ \A k \in DOMAIN q :
            /\ IsTold(q[k], n + k)
            /\ n + k \in DOMAIN LockRoutes /\ n + k # n
  BY <1>1, <1>2, <1>4, PlacesMove
<1>6. QuietUpTo(Ahead)
  BY <1>1, <1>2 DEF KeepUpInv
<1>7. Ready(LockRoutes[n])' => Crowded(n)
  <2>1. CASE SkipRoute
    BY <1>1, <1>3, <1>5, <2>1, SkipQuiet, ReadyLess
  <2>2. CASE FireRoute
    BY <1>1, <1>5, <2>2, FireQuiet
  <2>3. QED
    BY <2>1, <2>2
<1>8. QuietUpTo(n)'
  BY <1>1, <1>3, <1>5, <1>6, <1>7, QuietUpToNext
<1>9. KeepUpInv'
  <2>1. QuietUpTo(Ahead)'
    BY <1>4, <1>8 DEF QuietUpTo
  <2>2. QED
    BY <1>2, <2>1 DEF KeepUpInv
<1>10. \A k \in DOMAIN q : IsTold(q[k], n + k)'
  <2>1. CASE SkipRoute
    <3>1. UNCHANGED <<acts, facts, lock>>
      BY <2>1 DEF SkipRoute, run
    <3>2. QED
      BY <1>5, <3>1, SameTells
  <2>2. CASE FireRoute
    <3>1. DOMAIN acts' = DOMAIN acts \cup Head(plans).plan
      BY <2>2 DEF FireRoute, Activate
    <3>2. \A id \in Head(plans).plan : id.node = LockRoutes[n].node
      BY <1>5 DEF IsTold
    <3>3. QED
      BY <1>1, <1>3, <1>5, <3>1, <3>2, FireTells
  <2>3. QED
    BY <2>1, <2>2
<1>11. QED
  BY <1>4, <1>5, <1>9, <1>10 DEF LeftInv

\* When the routes are done or scheduling is off nothing is left to tell.
LEMMA NoneLeft == RouteInv /\ pc # "route" => plans = <<>>
BY DEF RouteInv

\* A step after the routes that starts no tick and no run.
LEMMA RestKeepsUp ==
    ASSUME SafeInv, KeepUpInv, [Next]_vars, UNCHANGED <<facts, lock, plans>>,
           pc \in {"actuate", "complete", "after", "idle", "down"}, pc' # "route",
           pc' # "down" /\ status' = "running" /\ budget' > 0
              => pc # "down" /\ status = "running" /\ budget > 0
    PROVE  LeftInv' /\ KeepUpInv'
<1>1. plans' = <<>>
  BY NoneLeft DEF SafeInv
<1>2. RunOK /\ Len(LockRoutes) \in Nat /\ UNCHANGED LockRoutes
  BY RoutesTyped DEF SafeInv, TypeOK, LockRoutes
<1>3. ASSUME pc' # "down", status' = "running", budget' > 0
      PROVE  QuietUpTo(Len(LockRoutes))'
  <2>1. QuietUpTo(Len(LockRoutes))
    BY <1>3 DEF KeepUpInv
  <2>2. Adds \/ Keeps
    BY StepActs DEF SafeInv
  <2>3. PICK n : n = Len(LockRoutes)
    OBVIOUS
  <2>4. QuietUpTo(n)'
    BY <1>2, <2>1, <2>2, <2>3, QuietLess
  <2>5. QED
    BY <1>2, <2>3, <2>4 DEF QuietUpTo
<1>4. QED
  BY <1>1, <1>3 DEF LeftInv, KeepUpInv

\* A request starts a tick, or ends or starts a driver.
LEMMA BeginKeepsUp ==
    ASSUME RouteInv, pc # "route", UNCHANGED plans, pc' \in {"preview", "down"}
    PROVE  LeftInv' /\ KeepUpInv'
BY NoneLeft DEF LeftInv, KeepUpInv

LEMMA PreviewKeepsUp ==
    ASSUME SafeInv, PreviewRoutes
    PROVE  LeftInv' /\ KeepUpInv'
<1>1. UNCHANGED <<status, mode, acts, facts, lock, kind>> /\ pc' = "route" /\ RunOK
  BY DEF PreviewRoutes, run, SafeInv, TypeOK
<1>2. RoutesEnabled' = RoutesEnabled /\ LockRoutes' = LockRoutes
  BY <1>1 DEF RoutesEnabled, LockRoutes
<1>3. CASE kind # "exit" /\ RoutesEnabled
  <2>1. PICK q : q = plans'
    OBVIOUS
  <2>2. /\ LockRoutes \in Seq(Route) /\ Len(LockRoutes) \in Nat
        /\ q = [i \in 1..Len(LockRoutes) |-> PreviewOf(LockRoutes[i])]
    BY <1>1, <1>3, <2>1, RoutesTyped DEF PreviewRoutes
  <2>3. DOMAIN q = 1..Len(LockRoutes) /\ Len(q) = Len(LockRoutes)
    BY <2>2
  <2>4. Ahead' = 0
    BY <1>2, <2>1, <2>2, <2>3 DEF Ahead
  <2>5. \A k \in DOMAIN q : k \in Nat /\ IsTold(q[k], k)'
    BY <1>1, <2>2, <2>3, PreviewIsTold, SameTells
  <2>6. LeftInv'
    BY <2>1, <2>4, <2>5 DEF LeftInv
  <2>7. QED
    BY <1>1, <2>4, <2>6 DEF KeepUpInv, QuietUpTo
<1>4. CASE ~(kind # "exit" /\ RoutesEnabled)
  BY <1>1, <1>2, <1>4 DEF PreviewRoutes, LeftInv, KeepUpInv
<1>5. QED
  BY <1>3, <1>4

LEMMA DoneKeepsUp ==
    ASSUME SafeInv, UpInv, RoutesDone
    PROVE  LeftInv' /\ KeepUpInv'
<1>1. /\ UNCHANGED <<status, acts, facts, lock, budget>>
      /\ pc = "route" /\ pc' = "actuate" /\ plans' = <<>> /\ (plans = <<>> \/ budget = 0)
  BY DEF RoutesDone, run
<1>2. ASSUME status = "running", budget > 0
      PROVE  QuietUpTo(Len(LockRoutes))'
  <2>1. plans = <<>> /\ kind # "exit" /\ RoutesEnabled
    BY <1>1, <1>2 DEF UpInv, ExitInv, RoutesEnabled
  <2>2. Ahead = Len(LockRoutes)
    BY <2>1, RoutesTyped DEF Ahead, SafeInv, TypeOK
  <2>3. QuietUpTo(Len(LockRoutes))
    BY <1>1, <1>2, <2>1, <2>2 DEF UpInv, KeepUpInv
  <2>4. QED
    BY <1>1, <2>3, SameTells DEF QuietUpTo, Crowded, LockRoutes
<1>3. QED
  BY <1>1, <1>2 DEF LeftInv, KeepUpInv

LEMMA TickKeepsUp == SafeInv /\ UpInv /\ Tick => LeftInv' /\ KeepUpInv'
<1> SUFFICES ASSUME SafeInv, UpInv, Tick PROVE LeftInv' /\ KeepUpInv'
  OBVIOUS
<1>1. TypeOK /\ RouteInv /\ KeepUpInv /\ [Next]_vars /\ budget \in Nat
  BY DEF SafeInv, UpInv, Next, TypeOK, TickOK
<1>2. CASE ExhaustLimit
  BY <1>2 DEF ExhaustLimit, SetRun, RoutesLeft, RoutesEnabled, LeftInv, KeepUpInv
<1>3. CASE Actuate
  <2>1. PICK ids \in Affordable(IF ExplicitEnabled THEN PendingActs ELSE {}) :
           budget' = budget - Cardinality(ids)
    BY <1>3 DEF Actuate
  <2>2. Cardinality(ids) \in Nat
    BY <1>1, FS_EmptySet, UnsettledFinite, AffordableIs DEF TypeOK
  <2>3. QED
    BY <1>1, <1>3, <2>1, <2>2, RestKeepsUp DEF Actuate
<1>4. CASE StopRun \/ BlockRun \/ SettleRun \/ KeepRun
  <2>1. /\ Commit /\ pc = "complete"
        /\ \/ status' # "running"
           \/ UNCHANGED <<status, budget>>
    BY <1>4 DEF StopRun, BlockRun, SettleRun, KeepRun, SetRun
  <2>2. pc' \in {"after", "idle", "down"} /\ UNCHANGED <<facts, lock, plans>>
    BY <1>1, <2>1 DEF Commit, TypeOK, TickOK
  <2>3. QED
    BY <1>1, <2>1, <2>2, RestKeepsUp
<1>5. CASE ReconcilePostCommit
  BY <1>1, <1>5, RestKeepsUp DEF ReconcilePostCommit, SetRun
<1>6. QED
  BY <1>1, <1>2, <1>3, <1>4, <1>5, PreviewKeepsUp, RouteKeepsUp, DoneKeepsUp
     DEF Tick

LEMMA UpStep == SafeInv /\ UpInv /\ [Next]_vars => UpInv'
<1> SUFFICES ASSUME SafeInv, UpInv, [Next]_vars PROVE UpInv'
  OBVIOUS
<1>1. RouteInv /\ KeepUpInv /\ ExitInv'
  BY ExitStep DEF SafeInv, UpInv
<1>2. CASE Controls \/ Deliveries
  BY <1>1, <1>2, BeginKeepsUp
     DEF Controls, BindRun, PauseRun, ResumeRun, RequestStop, CompleteRun,
         ApplyFlowRevision, Deliveries, DeliverArtifact, PatchBoard, RecordEffect,
         Serving, Begin, UpInv
<1>3. ASSUME NEW id \in DOMAIN acts, ParticipantExited(id)
      PROVE  UpInv'
  BY <1>1, <1>3, RestKeepsUp DEF ParticipantExited, Serving, UpInv
<1>4. CASE Activations /\ ~\E id \in DOMAIN acts : ParticipantExited(id)
  BY <1>1, <1>4, BeginKeepsUp
     DEF Activations, ObserveStop, ParticipantStop, ActivateNode, FanoutFromArtifact,
         Serving, Begin, UpInv
<1>5. CASE Reconcile \/ DriverRestart
  BY <1>1, <1>5, RestKeepsUp DEF Reconcile, DriverRestart, SetRun, Serving, run, UpInv
<1>6. CASE DriverExit \/ DriverCrash
  BY <1>1, <1>6, BeginKeepsUp DEF DriverExit, DriverCrash, Serving, Begin, UpInv
<1>7. CASE UNCHANGED vars
  BY <1>7, SameTells DEF vars, UpInv, LeftInv, KeepUpInv, ExitInv, QuietUpTo, Crowded,
                         Ahead, LockRoutes, RoutesEnabled
<1>8. QED
  BY <1>1, <1>2, <1>3, <1>4, <1>5, <1>6, <1>7, TickKeepsUp DEF Next, Drivers, UpInv

(***************************************************************************)
(* Whatever a tick fires, skips or finds stale, no trigger waits for       *)
(* another one unless the actions ran out or a route of its node fired.    *)
(***************************************************************************)
THEOREM RoutesAreCurrent == Spec => []RoutesKeepUp
<1>1. Init => UpInv
  BY DEF Init, UpInv, LeftInv, ExitInv, KeepUpInv
<1>2. SafeInv /\ UpInv => RoutesKeepUp
  <2> SUFFICES ASSUME SafeInv, UpInv, pc = "idle", status = "running", budget > 0
               PROVE  \A i \in DOMAIN LockRoutes : Ready(LockRoutes[i]) => Crowded(i)
    BY DEF RoutesKeepUp, Crowded
  <2>1. QuietUpTo(Len(LockRoutes)) /\ LockRoutes \in Seq(Route)
    BY RoutesTyped DEF UpInv, KeepUpInv, SafeInv, TypeOK
  <2>2. QED
    BY <2>1 DEF QuietUpTo
<1>3. QED
  BY <1>1, <1>2, Safety, UpStep, PTL DEF Spec
=============================================================================
