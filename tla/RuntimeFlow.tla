----------------------------- MODULE RuntimeFlow -----------------------------
(***************************************************************************)
(* One run of a flow as the driver's kernel schedules it (runtime/mod.rs,  *)
(* runtime/driver.rs, runtime/route_preview.rs) behind the requests of     *)
(* driver/mod.rs.                                                          *)
(*                                                                         *)
(* A request changes a copy of the runtime, ticks it and commits it        *)
(* (module Publication) under the service mutex, so requests do not        *)
(* interleave; what is hard is one tick: routes are previewed once and     *)
(* applied one by one, each against what those before it left.  The steps  *)
(* of a tick are therefore actions, pc is the step and "idle" the place    *)
(* where the state is committed.  A request the code refuses or a commit   *)
(* that fails leaves the state as it was and is no action.                 *)
(*                                                                         *)
(* An activation is known by node, stable key and generation, of which its *)
(* name is made.  The version of a fact counts its deliveries; its value   *)
(* is the number of lines of its payload, which predicates look at and     *)
(* for_each unfolds.                                                       *)
(***************************************************************************)
EXTENDS Naturals, Sequences, FiniteSetsExt

CONSTANTS
    Nodes, Artifacts, BoardKeys, Effects,
    NoFact,             \* for_each of a route that has none
    Locks,              \* identities of locked flow revisions
    Routes,             \* the routes of each lock
    Needs,              \* artifacts and effects each node's stop contract asks
    Modes,              \* run modes in use
    Limits,             \* activation limits in use
    StopLimit,          \* stop_attempt_limit the run is bound with
    DefaultStopLimit,   \* stop_validation_attempt_limit of a default tick
    ActionLimit,        \* actions one tick may take
    MaxLines,           \* bound on the lines of a payload
    MaxRequests,        \* bound on requests
    Requests            \* kinds of requests that occur

Facts == Artifacts \cup BoardKeys
Values == 0..MaxLines
Route == [on : Facts, when : SUBSET Values, each : Artifacts \cup {NoFact},
          node : Nodes]

ASSUME FlowAssumption ==
    /\ Modes \subseteq {"finite", "continuous", "manual"}
    /\ Limits \subseteq Nat
    /\ NoFact \notin Facts
    /\ Routes \in [Locks -> Seq(Route)]
    /\ Needs \in [Nodes -> SUBSET (Artifacts \cup Effects)]
    /\ IsFiniteSet(Nodes)
ASSUME NumbersAssumption ==
    /\ {StopLimit, DefaultStopLimit, ActionLimit} \subseteq Nat \ {0}
    /\ {MaxLines, MaxRequests} \subseteq Nat

VARIABLES
    \* the run
    status,     \* "none" before it is bound
    reason,     \* why it is paused
    mode,
    limit,      \* its absolute activation limit
    lock,       \* the flow revision in force
    acts,       \* its activations by identity
    facts,      \* its artifacts and board
    \* the operation
    pc,         \* step of the tick
    kind,       \* what the tick serves
    plans,      \* previews of the routes still to be applied
    budget,     \* actions left
    requests    \* requests so far

run == <<status, reason, mode, limit, lock, acts, facts>>
vars == <<status, reason, mode, limit, lock, acts, facts,
          pc, kind, plans, budget, requests>>

Settled == {"completed", "failed", "cancelled"}
ActStatus == Settled \cup {"pending", "running", "waiting", "blocked"}
Terminal == {"completed", "stopped"}
RunStatus == Terminal \cup
    {"none", "running", "paused", "blocked", "quiescent", "stopping"}
Reasons == {"none", "exhausted", "restarted", "effects"}
Places == {"idle", "preview", "route", "actuate", "complete", "after", "down"}

Keys == {<<>>} \cup (Artifacts \X (1..MaxLines))
Id == [node : Nodes, key : Keys, gen : Nat]
Trigger == [lock : Locks, route : Route, fact : Facts, version : Nat]
Activation == [status : ActStatus, trigger : SUBSET Trigger, attempts : Nat,
               given : SUBSET (Artifacts \cup Effects)]
Preview == [verdict : {"matched", "exhausted", "unmatched"},
            trigger : SUBSET Trigger, plan : SUBSET Id]

-----------------------------------------------------------------------------
(* Activations, their identities and the limit.                            *)

Unsettled == {id \in DOMAIN acts : acts[id].status \notin Settled}
PendingActs == {id \in DOMAIN acts : acts[id].status = "pending"}

\* Mutant: room for one is room for all.
HasRoomForOne(n) == Cardinality(DOMAIN acts) < limit

HasRoomFor(n) == Cardinality(DOMAIN acts) + n <= limit

Lane(node, key) == {id \in DOMAIN acts : id.node = node /\ id.key = key}

NextGeneration(node, key) ==
    IF Lane(node, key) = {} THEN 0
                            ELSE Max({id.gen : id \in Lane(node, key)}) + 1
NextId(node, key) ==
    [node |-> node, key |-> key, gen |-> NextGeneration(node, key)]

New(trigger) == [status |-> "pending", trigger |-> trigger, attempts |-> 0,
                 given |-> {}]
Activate(ids, trigger) ==
    acts' = [id \in DOMAIN acts \cup ids |->
                IF id \in ids THEN New(trigger) ELSE acts[id]]
SetActs(ids, s) ==
    acts' = [id \in DOMAIN acts |->
                IF id \in ids THEN [acts[id] EXCEPT !.status = s] ELSE acts[id]]
SetRun(s, why) == status' = s /\ reason' = why

\* scheduling_enabled, for explicit activations and for fact-triggered routes.
ExplicitEnabled == status = "running"
RoutesEnabled == \/ status = "running"
                 \/ status = "quiescent" /\ mode = "continuous"

-----------------------------------------------------------------------------
(* Previewing routes.                                                      *)

LockRoutes == Routes[lock]
TriggerFact(r) == IF r.each = NoFact THEN r.on ELSE r.each
TriggerOf(r) == [lock |-> lock, route |-> r, fact |-> TriggerFact(r),
                 version |-> facts[TriggerFact(r)].version]

\* Mutant: a trigger counts as applied while its activation is unsettled.
AppliedTriggerForgets(t) == \E id \in Unsettled : t \in acts[id].trigger

AppliedTrigger(t) == \E id \in DOMAIN acts : t \in acts[id].trigger

PlanKeys(r) == IF r.each = NoFact THEN {<<>>}
               ELSE {<<r.each, line>> : line \in 1..facts[r.each].value}

\* Mutant: the last line of the payload is not unfolded.
PlanOffByOne(r) ==
    {NextId(r.node, key) :
        key \in {k \in PlanKeys(r) : k = <<>> \/ k[2] < facts[r.each].value}}

Plan(r) == {NextId(r.node, key) : key \in PlanKeys(r)}

\* The predicate holds of its fact, and the trigger is there and new.
Ready(r) == /\ facts[r.on].version > 0
            /\ facts[r.on].value \in r.when
            /\ facts[TriggerFact(r)].version > 0
            /\ ~AppliedTrigger(TriggerOf(r))
            /\ PlanKeys(r) # {}

PreviewOf(r) ==
    [verdict |-> IF ~Ready(r) THEN "unmatched"
                 ELSE IF HasRoomFor(Cardinality(PlanKeys(r))) THEN "matched"
                 ELSE "exhausted",
     trigger |-> {TriggerOf(r)},
     plan |-> Plan(r)]

\* Some route has work to do, whether or not there is room for it.
PendingRoute == \E i \in DOMAIN LockRoutes : Ready(LockRoutes[i])

HasPendingRoute == kind # "exit" /\ PendingRoute

-----------------------------------------------------------------------------
(* A tick.  A "full" one is followed by the reconciliation of panes, the   *)
(* one of a participant's stop is not; the one of an exiting driver is     *)
(* given no flow locks.                                                    *)

Begin(k) == /\ requests < MaxRequests
            /\ requests' = requests + 1
            /\ pc' = "preview"
            /\ kind' = k
            /\ budget' = ActionLimit
            /\ UNCHANGED plans

PreviewRoutes ==
    /\ pc = "preview"
    /\ plans' = IF kind # "exit" /\ RoutesEnabled
                THEN [i \in DOMAIN LockRoutes |-> PreviewOf(LockRoutes[i])]
                ELSE <<>>
    /\ pc' = "route"
    /\ UNCHANGED <<run, kind, budget, requests>>

\* What the next plan meets: its trigger, identities or room may be gone.
Stale(p) == \E id \in p.plan : id # NextId(id.node, id.key)
Skipped(p) == \/ p.verdict = "unmatched"
              \/ /\ p.verdict = "matched"
                 /\ \/ \E t \in p.trigger : AppliedTrigger(t)
                    \/ HasRoomFor(Cardinality(p.plan)) /\ Stale(p)
TooMany(p) == \/ p.verdict = "exhausted"
              \/ ~Skipped(p) /\ ~HasRoomFor(Cardinality(p.plan))

RoutesLeft == pc = "route" /\ plans # <<>> /\ budget > 0

\* Mutant: a route that cannot fire ends the round.
SkipRouteBreaks ==
    /\ RoutesLeft
    /\ Skipped(Head(plans))
    /\ plans' = <<>>
    /\ UNCHANGED <<run, pc, kind, budget, requests>>

SkipRoute ==
    /\ RoutesLeft
    /\ Skipped(Head(plans))
    /\ plans' = Tail(plans)
    /\ UNCHANGED <<run, pc, kind, budget, requests>>

ExhaustLimit ==
    /\ RoutesLeft
    /\ TooMany(Head(plans))
    /\ SetRun("paused", "exhausted")
    /\ plans' = <<>>
    /\ UNCHANGED <<mode, limit, lock, acts, facts, pc, kind, budget, requests>>

FireRoute ==
    /\ RoutesLeft
    /\ ~Skipped(Head(plans))
    /\ ~TooMany(Head(plans))
    /\ Activate(Head(plans).plan, Head(plans).trigger)
    /\ IF status = "quiescent" THEN SetRun("running", "none")
                               ELSE UNCHANGED <<status, reason>>
    /\ budget' = budget - 1
    /\ plans' = Tail(plans)
    /\ UNCHANGED <<mode, limit, lock, facts, pc, kind, requests>>

RoutesDone ==
    /\ pc = "route"
    /\ plans = <<>> \/ budget = 0
    /\ plans' = <<>>
    /\ pc' = "actuate"
    /\ UNCHANGED <<run, kind, budget, requests>>

\* Mutant: the budget of the tick does not count.
AffordableAll(ids) == {ids}

\* As many of ids as the budget allows, in the order of their names.
Affordable(ids) == kSubset(Min({Cardinality(ids), budget}), ids)

Actuate ==
    /\ pc = "actuate"
    /\ \E ids \in Affordable(IF ExplicitEnabled THEN PendingActs ELSE {}) :
          /\ SetActs(ids, "running")
          /\ budget' = budget - Cardinality(ids)
    /\ pc' = "complete"
    /\ UNCHANGED <<status, reason, mode, limit, lock, facts,
                   kind, plans, requests>>

\* The tick is committed.
Commit == /\ pc' = CASE kind = "full" -> "after"
                     [] kind = "stop" -> "idle"
                     [] kind = "exit" -> "down"
          /\ UNCHANGED <<mode, limit, lock, facts, kind, plans, requests>>

\* Mutant: the run is stopped with the activations the budget left out.
StopRunAtOnce ==
    /\ pc = "complete"
    /\ status = "stopping"
    /\ \E ids \in Affordable(Unsettled) : SetActs(ids, "cancelled")
    /\ SetRun("stopped", "none")
    /\ budget' = 0
    /\ Commit

StopRun ==
    /\ pc = "complete"
    /\ status = "stopping"
    /\ \E ids \in Affordable(Unsettled) :
          /\ SetActs(ids, "cancelled")
          /\ IF Cardinality(ids) < budget
             THEN /\ SetRun("stopped", "none")
                  /\ budget' = budget - Cardinality(ids) - 1
             ELSE /\ budget' = 0
                  /\ UNCHANGED <<status, reason>>
    /\ Commit

Completable == status \in {"running", "blocked", "quiescent"} /\ budget > 0
HasBlocked == \E id \in DOMAIN acts : acts[id].status = "blocked"

BlockRun ==
    /\ pc = "complete"
    /\ Completable
    /\ HasBlocked
    /\ SetRun("blocked", "none")
    /\ budget' = budget - 1
    /\ UNCHANGED acts
    /\ Commit

AllSettled == Unsettled = {}

SettleRun ==
    /\ pc = "complete"
    /\ Completable
    /\ ~HasBlocked
    /\ AllSettled
    /\ ~HasPendingRoute
    /\ SetRun(IF mode = "finite" THEN "completed" ELSE "quiescent", "none")
    /\ budget' = budget - 1
    /\ UNCHANGED acts
    /\ Commit

KeepRun ==
    /\ pc = "complete"
    /\ status # "stopping"
    /\ \/ ~Completable
       \/ ~HasBlocked /\ (~AllSettled \/ HasPendingRoute)
    /\ UNCHANGED <<status, reason, acts, budget>>
    /\ Commit

\* Panes are allocated and participants typed to; a failure, or an input
\* that may or may not have arrived, pauses the run.
ReconcilePostCommit ==
    /\ pc = "after"
    /\ \/ UNCHANGED <<status, reason>>
       \/ ExplicitEnabled /\ SetRun("paused", "effects")
    /\ pc' = "idle"
    /\ UNCHANGED <<mode, limit, lock, acts, facts,
                   kind, plans, budget, requests>>

-----------------------------------------------------------------------------
(* Requests.                                                               *)

Serving(r) == pc = "idle" /\ status # "none" /\ r \in Requests

\* initial_node_specs: the nodes no route activates, or all if there are none.
Initial == LET free == Nodes \ {r.node : r \in Range(LockRoutes)}
           IN IF free = {} THEN Nodes ELSE free

\* start_run_with_limits
StartRun ==
    /\ HasRoomFor(Cardinality(Initial))
    /\ SetRun("running", "none")
    /\ Activate({NextId(n, <<>>) : n \in Initial}, {})

\* The run's mode, limit and first lock are the ones the request gives.
BindRun ==
    /\ pc = "idle"
    /\ status = "none"
    /\ StartRun
    /\ Begin("full")
    /\ UNCHANGED <<mode, limit, lock, facts>>

PauseRun ==
    /\ Serving("pause")
    /\ status \in {"running", "quiescent", "paused"}
    /\ IF status = "paused" THEN UNCHANGED <<status, reason>>
                            ELSE SetRun("paused", "none")
    /\ Begin("full")
    /\ UNCHANGED <<mode, limit, lock, acts, facts>>

\* A limit that is not given is the one in force.
MayResume(l) == l >= limit /\ (reason = "exhausted" => l > limit)

ResumeRun(l) ==
    /\ Serving("resume")
    /\ status \in {"paused", "quiescent"}
    /\ MayResume(l)
    /\ limit' = l
    /\ SetRun("running", "none")
    /\ Begin("full")
    /\ UNCHANGED <<mode, lock, acts, facts>>

\* Mutant: a run that has ended is stopped again.
RequestStopAgain ==
    /\ Serving("stop")
    /\ SetRun("stopping", "none")
    /\ Begin("full")
    /\ UNCHANGED <<mode, limit, lock, acts, facts>>

RequestStop ==
    /\ Serving("stop")
    /\ IF status \in Terminal THEN UNCHANGED <<status, reason>>
                              ELSE SetRun("stopping", "none")
    /\ Begin("full")
    /\ UNCHANGED <<mode, limit, lock, acts, facts>>

CompleteRun ==
    /\ Serving("complete")
    /\ status = "quiescent"
    /\ mode = "manual"
    /\ SetRun("completed", "none")
    /\ Begin("full")
    /\ UNCHANGED <<mode, limit, lock, acts, facts>>

Give(id, what) == acts' = [acts EXCEPT ![id].given = @ \cup {what}]
Set(fact, value) == [version |-> facts[fact].version + 1, value |-> value]

DeliverArtifact(id, artifact, value) ==
    /\ Serving("artifact")
    /\ id \in DOMAIN acts
    /\ Give(id, artifact)
    /\ facts' = [facts EXCEPT ![artifact] = Set(artifact, value)]
    /\ Begin("full")
    /\ UNCHANGED <<status, reason, mode, limit, lock>>

PatchBoard(patch) ==
    /\ Serving("board")
    /\ DOMAIN acts # {}
    /\ facts' = [f \in Facts |->
                    IF f \in DOMAIN patch THEN Set(f, patch[f]) ELSE facts[f]]
    /\ Begin("full")
    /\ UNCHANGED <<status, reason, mode, limit, lock, acts>>

RecordEffect(id, effect) ==
    /\ Serving("effect")
    /\ id \in DOMAIN acts
    /\ Give(id, effect)
    /\ Begin("full")
    /\ UNCHANGED <<status, reason, mode, limit, lock, facts>>

\* missing_stop_requirements
Missing(a, needs) == needs \ a.given

\* The decision on one observed stop: allow, block or deny.
Decision(a, needs, bound) ==
    IF Missing(a, needs) = {} THEN "completed"
    ELSE IF a.attempts + 1 >= bound THEN "blocked"
    ELSE "waiting"
Observe(id, bound) ==
    acts' = [acts EXCEPT
                ![id].status = Decision(acts[id], Needs[id.node], bound),
                ![id].attempts = @ + 1]

\* A host tells of a stop; of a settled activation it is ignored.
ObserveStop(id) ==
    /\ Serving("observe")
    /\ id \in DOMAIN acts
    /\ IF id \in Unsettled THEN Observe(id, DefaultStopLimit)
                            ELSE UNCHANGED acts
    /\ Begin("full")
    /\ UNCHANGED <<status, reason, mode, limit, lock, facts>>

\* A bound participant asks to stop (participants are bound once running).
ParticipantStop(id) ==
    /\ Serving("participant_stop")
    /\ id \in Unsettled \ PendingActs
    /\ Observe(id, StopLimit)
    /\ Begin("stop")
    /\ UNCHANGED <<status, reason, mode, limit, lock, facts>>

\* Mutant: the exit of a participant fails its activation whatever it is.
ExitFails(s) == "failed"

ExitStatus(s) == IF s \in Settled \cup {"blocked"} THEN s ELSE "failed"

\* A participant's process has ended.  No tick follows.
ParticipantExited(id) ==
    /\ Serving("exited")
    /\ id \in DOMAIN acts \ PendingActs
    /\ SetActs({id}, ExitStatus(acts[id].status))
    /\ requests < MaxRequests
    /\ requests' = requests + 1
    /\ UNCHANGED <<status, reason, mode, limit, lock, facts,
                   pc, kind, plans, budget>>

ActivateNode(node) ==
    /\ Serving("activate")
    /\ ExplicitEnabled
    /\ HasRoomFor(1)
    /\ Activate({NextId(node, <<>>)}, {})
    /\ Begin("full")
    /\ UNCHANGED <<status, reason, mode, limit, lock, facts>>

\* One activation per line of the artifact: all of them or none.
FanoutFromArtifact(node, artifact) ==
    /\ Serving("fanout")
    /\ ExplicitEnabled
    /\ facts[artifact].version > 0
    /\ LET keys == {<<artifact, line>> : line \in 1..facts[artifact].value}
       IN /\ HasRoomFor(Cardinality(keys))
          /\ Activate({NextId(node, key) : key \in keys}, {})
    /\ Begin("full")
    /\ UNCHANGED <<status, reason, mode, limit, lock, facts>>

ApplyFlowRevision(k) ==
    /\ Serving("revise")
    /\ lock' = k
    /\ Begin("full")
    /\ UNCHANGED <<status, reason, mode, limit, acts, facts>>

\* Requests that change no runtime state but touch panes: binding the run
\* again, binding a participant.
Reconcile ==
    /\ Serving("reconcile")
    /\ requests < MaxRequests
    /\ requests' = requests + 1
    /\ pc' = "after"
    /\ UNCHANGED <<run, kind, plans, budget>>

-----------------------------------------------------------------------------
(* The end of a driver and its replacement.                                *)

\* A shutdown or the console's exit suspends what is not at rest: a tick
\* with the control PauseRun, whose refusal is ignored.
DriverExit ==
    /\ Serving("exit")
    /\ IF status \in {"paused"} \cup Terminal
       THEN /\ requests < MaxRequests
            /\ requests' = requests + 1
            /\ pc' = "down"
            /\ UNCHANGED <<status, reason, kind, plans, budget>>
       ELSE /\ IF status \in {"running", "quiescent"}
               THEN SetRun("paused", "none")
               ELSE UNCHANGED <<status, reason>>
            /\ Begin("exit")
    /\ UNCHANGED <<mode, limit, lock, acts, facts>>

\* The driver dies where its state is committed.
DriverCrash ==
    /\ pc \in {"idle", "after"}
    /\ "crash" \in Requests
    /\ requests < MaxRequests
    /\ requests' = requests + 1
    /\ pc' = "down"
    /\ UNCHANGED <<run, kind, plans, budget>>

\* The replayed run is suspended before it is served.
DriverRestart ==
    /\ pc = "down"
    /\ pc' = "idle"
    /\ IF status = "running" THEN SetRun("paused", "restarted")
                             ELSE UNCHANGED <<status, reason>>
    /\ UNCHANGED <<mode, limit, lock, acts, facts,
                   kind, plans, budget, requests>>

-----------------------------------------------------------------------------
Init == /\ status = "none" /\ reason = "none"
        /\ mode \in Modes /\ limit \in Limits /\ lock \in Locks
        /\ acts = [id \in {} |-> New({})]
        /\ facts = [f \in Facts |-> [version |-> 0, value |-> 0]]
        /\ pc = "idle" /\ kind = "full" /\ plans = <<>>
        /\ budget = 0 /\ requests = 0

Tick == \/ PreviewRoutes \/ SkipRoute \/ ExhaustLimit \/ FireRoute \/ RoutesDone
        \/ Actuate \/ StopRun \/ BlockRun \/ SettleRun \/ KeepRun
        \/ ReconcilePostCommit
Controls == \/ BindRun \/ PauseRun \/ RequestStop \/ CompleteRun
            \/ \E l \in Limits : ResumeRun(l)
            \/ \E k \in Locks : ApplyFlowRevision(k)
Deliveries ==
    \/ \E id \in DOMAIN acts, artifact \in Artifacts, value \in Values :
          DeliverArtifact(id, artifact, value)
    \/ \E keys \in SUBSET BoardKeys : \E patch \in [keys -> Values] :
          PatchBoard(patch)
    \/ \E id \in DOMAIN acts, effect \in Effects : RecordEffect(id, effect)
Activations ==
    \/ \E id \in DOMAIN acts :
          ObserveStop(id) \/ ParticipantStop(id) \/ ParticipantExited(id)
    \/ \E node \in Nodes : ActivateNode(node)
    \/ \E node \in Nodes, artifact \in Artifacts :
          FanoutFromArtifact(node, artifact)
Drivers == Reconcile \/ DriverExit \/ DriverCrash \/ DriverRestart

Next == Tick \/ Controls \/ Deliveries \/ Activations \/ Drivers

Spec == Init /\ [][Next]_vars

-----------------------------------------------------------------------------
RunOK == /\ status \in RunStatus /\ reason \in Reasons
         /\ mode \in Modes /\ limit \in Limits /\ lock \in Locks
ActsOK == /\ DOMAIN acts \subseteq Id
          /\ IsFiniteSet(DOMAIN acts)
          /\ acts \in [DOMAIN acts -> Activation]
FactsOK == facts \in [Facts -> [version : Nat, value : Values]]
PlansOK == /\ plans \in Seq(Preview)
           /\ \A i \in DOMAIN plans : IsFiniteSet(plans[i].plan)
TickOK == /\ pc \in Places /\ kind \in {"full", "stop", "exit"}
          /\ budget \in 0..ActionLimit /\ requests \in Nat

\* The type invariant.
TypeOK == RunOK /\ ActsOK /\ FactsOK /\ PlansOK /\ TickOK

(***************************************************************************)
(* The activation limit is absolute: whatever mix of routes, fan-outs,     *)
(* explicit activations and resumptions, a run never has more activations  *)
(* than its limit, although each is checked where it is made.              *)
(***************************************************************************)
ActivationsWithinLimit == Cardinality(DOMAIN acts) <= limit

(***************************************************************************)
(* A fan-out is applied whole: as long as the artifact that triggered it   *)
(* is the latest, exactly its lines have an activation of that trigger.    *)
(***************************************************************************)
Fired(t) == {id \in DOMAIN acts : t \in acts[id].trigger}
PlansAreWhole ==
    \A id \in DOMAIN acts : \A t \in acts[id].trigger :
        t.version = facts[t.fact].version =>
            {i.key : i \in Fired(t)} = PlanKeys(t.route)

(***************************************************************************)
(* A run at rest has nothing at work: quiescent, completed or stopped,     *)
(* every activation is settled.                                            *)
(***************************************************************************)
RestIsSettled == status \in {"quiescent"} \cup Terminal => AllSettled

(***************************************************************************)
(* No trigger waits for another tick: between requests a running run has   *)
(* no route left to fire, unless the actions of the tick ran out or the    *)
(* route activates the lane of another one (whose firing makes its plan    *)
(* stale; it fires in the next tick).                                      *)
(***************************************************************************)
RoutesKeepUp ==
    pc = "idle" /\ status = "running" /\ budget > 0 =>
        \A i \in DOMAIN LockRoutes : Ready(LockRoutes[i]) =>
            \E j \in DOMAIN LockRoutes \ {i} :
                LockRoutes[j].node = LockRoutes[i].node

(***************************************************************************)
(* The documentation says that "`finite` completes when no activation or   *)
(* fact trigger remains" (skills/humanize-workflows/SKILL.md): a finite    *)
(* run becomes completed only when every activation is settled and no      *)
(* route can fire, and is not running between requests when that is so.    *)
(***************************************************************************)
NothingLeft == AllSettled /\ ~PendingRoute
CompletesWhenDone ==
    [][mode = "finite" =>
          /\ status' = "completed" /\ status # "completed" => NothingLeft
          /\ status' = "running" /\ pc' = "idle" => ~NothingLeft']_vars

(***************************************************************************)
(* A trigger (lock, route, fact and its version) fires once: activations   *)
(* are never added for one that has some.                                  *)
(***************************************************************************)
FiresOnce ==
    [][\A id \in DOMAIN acts' \ DOMAIN acts :
          \A t \in acts'[id].trigger : Fired(t) = {}]_vars

(***************************************************************************)
(* A settled activation stays as it was settled: no exit, stop, tick or    *)
(* new generation of its lane touches it.                                  *)
(***************************************************************************)
SettledStays ==
    [][\A id \in DOMAIN acts :
          /\ id \in DOMAIN acts'
          /\ acts[id].status \in Settled =>
                acts'[id].status = acts[id].status]_vars

(***************************************************************************)
(* The end of a run is final: no control, delivery, restart or tick starts *)
(* it again or adds to it.                                                 *)
(***************************************************************************)
EndIsFinal ==
    [][(status \in Terminal) =>
          status' = status /\ DOMAIN acts' = DOMAIN acts]_vars
=============================================================================
