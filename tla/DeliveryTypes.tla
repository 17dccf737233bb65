--------------------------- MODULE DeliveryTypes ---------------------------
(***************************************************************************)
(* The type invariant of Delivery, for any bounds: what the variables hold *)
(* and, which is not obvious, that the generations of panes keep within    *)
(* Generations, so that the counts of InputOnce cover every input there    *)
(* can be.                                                                 *)
(*                                                                         *)
(* A generation is allocated when a running activation has lost its pane,  *)
(* and a pane is lost to a failure, a kill, the end of a driver or a       *)
(* bind_run, which the bounds count: generations never pass what was spent *)
(* of them (RangedInv), and an activation without a pane has spent more    *)
(* than its last generation (RoomInv).                                     *)
(***************************************************************************)
EXTENDS DeliveryProofs

-----------------------------------------------------------------------------
(* The values that the service's fields hold.                              *)

Fits(f, n) == \A a \in DOMAIN f : a \in Activations /\ f[a] \in 0..n
Wants(f, n) == \A a \in DOMAIN f : /\ a \in Activations
                                   /\ f[a] \in [gen : 0..n, command : Commands]
Pairs(S, n) == \A x \in S : x[1] \in Activations /\ x[2] \in 0..n
Starts(f, n, m) == \A k \in DOMAIN f : /\ k \in Keys /\ k[3] \in 0..n
                                       /\ f[k] \in 1..m

\* Generations up to n, barriers of the first m events.
Ranged(s, n, m) ==
    /\ Fits(s.panes, n) /\ Fits(s.generations, n) /\ Fits(s.cleaning, n)
    /\ Wants(s.allocating, n)
    /\ Pairs(s.launched, n) /\ Pairs(s.settled, n)
    /\ Pairs(s.started, n) /\ Pairs(s.bound, n)
    /\ Starts(s.ambiguous, n, m) /\ Starts(s.submitted, n, m)

LEMMA RangedGrows ==
    ASSUME NEW s, NEW n \in Nat, NEW m \in Nat, Ranged(s, n, m),
           NEW p \in Nat, NEW q \in Nat, n <= p, m <= q
    PROVE  Ranged(s, p, q)
<1>1. 0..n \subseteq 0..p /\ 1..m \subseteq 1..q
  OBVIOUS
<1>2. ASSUME NEW f, Wants(f, n)
      PROVE  Wants(f, p)
  BY <1>1, <1>2 DEF Wants
<1>3. ASSUME NEW f, Starts(f, n, m)
      PROVE  Starts(f, p, q)
  BY <1>1, <1>3 DEF Starts
<1>4. QED
  BY <1>1, <1>2, <1>3 DEF Ranged, Fits, Pairs

LEMMA BlankRanged ==
    ASSUME NEW n, NEW m
    PROVE  Ranged(Blank, n, m)
BY DEF Ranged, Fits, Wants, Pairs, Starts, Blank, Nothing

LEMMA FitsWith ==
    ASSUME NEW f, NEW n, Fits(f, n), NEW a
    PROVE  /\ Fits(Without(f, a), n)
           /\ \A g \in 0..n : a \in Activations => Fits(With(f, a, g), n)
BY DEF Fits, With, Without

LEMMA WantsWith ==
    ASSUME NEW f, NEW n, Wants(f, n), NEW a
    PROVE  /\ Wants(Without(f, a), n)
           /\ \A i \in [gen : 0..n, command : Commands] :
                 a \in Activations => Wants(With(f, a, i), n)
BY DEF Wants, With, Without

LEMMA PairsWith ==
    ASSUME NEW S, NEW n, Pairs(S, n), NEW a
    PROVE  /\ Pairs(Forget(S, a), n)
           /\ \A g \in 0..n :
                 a \in Activations => Pairs(S \cup {<<a, g>>}, n)
BY DEF Pairs, Forget

LEMMA StartsWith ==
    ASSUME NEW f, NEW n, NEW m, Starts(f, n, m), NEW k
    PROVE  /\ Starts(Without(f, k), n, m)
           /\ \A j \in 1..m : k \in Keys /\ k[3] \in 0..n
                                 => Starts(With(f, k, j), n, m)
BY DEF Starts, With, Without

LEMMA BoundRanged ==
    ASSUME NEW s, Shape(s), NEW n, NEW m, Ranged(s, n, m), NEW c, NEW t,
           t = BoundTo(s, c) \/ t = [s EXCEPT !.tmux = c]
    PROVE  Ranged(t, n, m)
<1>1. Fits(Nothing, n)
  BY DEF Fits, Nothing
<1>2. QED
  BY <1>1 DEF Shape, Ranged, BoundTo

LEMMA WantedRanged ==
    ASSUME NEW s, Shape(s), NEW n, NEW m, Ranged(s, n, m),
           NEW a \in Activations, NEW i \in [gen : 0..n, command : Commands]
    PROVE  Ranged(Wanted(s, a, i), n, m)
<1>1. Wants(With(s.allocating, a, i), n)
  BY WantsWith DEF Ranged
<1>2. QED
  BY <1>1 DEF Shape, Ranged, Wanted

LEMMA AllocatedRanged ==
    ASSUME NEW s, Shape(s), NEW n, NEW m, Ranged(s, n, m),
           NEW a \in Activations, NEW g \in 0..n
    PROVE  Ranged(Allocated(s, a, g), n, m)
<1>1. /\ Fits(With(s.panes, a, g), n) /\ Fits(With(s.generations, a, g), n)
      /\ Wants(Without(s.allocating, a), n)
  BY FitsWith, WantsWith DEF Ranged
<1>2. QED
  BY <1>1 DEF Shape, Ranged, Allocated

LEMMA CleaningRanged ==
    ASSUME NEW s, Shape(s), NEW n, NEW m, Ranged(s, n, m), NEW f, Fits(f, n)
    PROVE  Ranged([s EXCEPT !.cleaning = f], n, m)
BY DEF Shape, Ranged

LEMMA ParticipantRanged ==
    ASSUME NEW s, Shape(s), NEW n, NEW m, Ranged(s, n, m),
           NEW a \in Activations, NEW g \in 0..n
    PROVE  /\ Ranged(ParticipantStarted(s, <<a, g>>), n, m)
           /\ Ranged(ParticipantBound(s, <<a, g>>), n, m)
<1>1. /\ Pairs(s.started \cup {<<a, g>>}, n)
      /\ Pairs(s.bound \cup {<<a, g>>}, n)
  BY PairsWith DEF Ranged
<1>2. QED
  BY <1>1 DEF Shape, Ranged, ParticipantStarted, ParticipantBound

LEMMA BarrierRanged ==
    ASSUME NEW s, Shape(s), NEW n, NEW m, Ranged(s, n, m),
           NEW k \in Keys, k[3] \in 0..n, NEW j \in 1..m
    PROVE  Ranged(Barrier(s, k, j), n, m)
<1>1. /\ Starts(With(s.ambiguous, k, j), n, m)
      /\ Starts(Without(s.submitted, k), n, m)
  BY StartsWith DEF Ranged
<1>2. QED
  BY <1>1 DEF Shape, Ranged, Barrier

LEMMA OutcomeRanged ==
    ASSUME NEW s, Shape(s), NEW n, NEW m, Ranged(s, n, m),
           NEW k \in DOMAIN s.ambiguous, NEW j \in 1..m
    PROVE  /\ Ranged(SubmittedNow(s, k, j), n, m)
           /\ Ranged(RefusedNow(s, k), n, m)
<1>1. k \in Keys /\ k[3] \in 0..n /\ k[1] \in Activations
  BY DEF Ranged, Starts, Keys
<1>2. /\ Starts(With(s.submitted, k, j), n, m)
      /\ Starts(Without(s.submitted, k), n, m)
      /\ Starts(Without(s.ambiguous, k), n, m)
  BY <1>1, StartsWith DEF Ranged
<1>3. /\ Pairs(s.launched \cup {<<k[1], k[3]>>}, n)
      /\ Pairs(s.settled \cup {<<k[1], k[3]>>}, n)
  BY <1>1, PairsWith DEF Ranged
<1>4. Ranged(SubmittedNow(s, k, j), n, m)
  BY <1>2, <1>3 DEF Shape, Ranged, SubmittedNow
<1>5. Ranged(RefusedNow(s, k), n, m)
  BY <1>2 DEF Shape, Ranged, RefusedNow
<1>6. QED
  BY <1>4, <1>5

LEMMA ReleaseRanged ==
    ASSUME NEW s, Shape(s), NEW n, NEW m, Ranged(s, n, m), NEW a,
           NEW b, Starts(b, n, m)
    PROVE  /\ Ranged(GivenUp(s, a, b), n, m)
           /\ Ranged(Released(s, a, b), n, m)
<1>1. /\ Fits(Without(s.panes, a), n) /\ Wants(Without(s.allocating, a), n)
      /\ Pairs(Forget(s.launched, a), n) /\ Pairs(Forget(s.settled, a), n)
  BY FitsWith, WantsWith, PairsWith DEF Ranged
<1>2. Starts([k \in DOMAIN s.submitted \ DOMAIN b |-> s.submitted[k]], n, m)
  BY DEF Ranged, Starts
<1>3. /\ Starts([k \in DOMAIN s.ambiguous \cup DOMAIN b |->
                    IF k \in DOMAIN b THEN b[k] ELSE s.ambiguous[k]], n, m)
      /\ Starts([k \in DOMAIN s.ambiguous \cup DOMAIN b |->
                    IF k \in DOMAIN s.ambiguous THEN s.ambiguous[k]
                    ELSE b[k]], n, m)
  BY DEF Ranged, Starts
<1>4. Ranged(Released(s, a, b), n, m)
  BY <1>1, <1>2, <1>3 DEF Shape, Ranged, Released
<1>5. Ranged(GivenUp(s, a, b), n, m)
  BY <1>1, <1>2, <1>3 DEF Shape, Ranged, GivenUp, WithBarriers
<1>6. QED
  BY <1>4, <1>5

-----------------------------------------------------------------------------
(* Every event keeps within the range.                                     *)

\* A generation that is allocated keeps within n.
NextWithin(n) ==
    At("allocate") => \A a \in job.todo :
                         \/ a \in Owned \cup DOMAIN live.allocating
                         \/ NextGeneration(a) \in 0..n

\* What an event leads to, in the service and in its log.
InRange(event, update, n, q) ==
    /\ Ranged(update, n, q)
    /\ Ranged(Replayed(Logged, Line(event, count + 1)), n, q)

LEMMA BindingInRange ==
    ASSUME Shape(live), Shape(Logged), NEW n, NEW q, Ranged(live, n, q),
           Ranged(Logged, n, q), NEW event, NEW update,
           WritesBinding(event, update)
    PROVE  InRange(event, update, n, q)
<1>1. PICK c : /\ event = TmuxBound(c)
               /\ update = BoundTo(live, c) \/ update = [live EXCEPT !.tmux = c]
  BY DEF WritesBinding
<1>2. Replayed(Logged, Line(event, count + 1)) = BoundTo(Logged, c)
  BY <1>1, ReplayedBound
<1>3. QED
  BY <1>1, <1>2, BoundRanged DEF InRange

LEMMA IntentInRange ==
    ASSUME Shape(live), Shape(Logged), NEW n, NEW q, Ranged(live, n, q),
           Ranged(Logged, n, q), NEW event, NEW update,
           WritesIntent(event, update), NextWithin(n)
    PROVE  InRange(event, update, n, q)
<1>1. PICK a \in Activations, c \in Commands :
        LET i == [gen |-> NextGeneration(a), command |-> c]
        IN  /\ At("allocate") /\ a \in job.todo
            /\ a \notin Owned /\ a \notin DOMAIN live.allocating
            /\ event = [kind |-> "tmux_pane_allocation_intent", act |-> a,
                        intent |-> i]
            /\ update = Wanted(live, a, i)
  BY DEF WritesIntent
<1> DEFINE i == [gen |-> NextGeneration(a), command |-> c]
<1>2. i \in [gen : 0..n, command : Commands]
  BY <1>1 DEF NextWithin
<1>3. /\ Replayed(Logged, Line(event, count + 1)) = Wanted(Logged, a, i)
      /\ update = Wanted(live, a, i)
  BY <1>1, ReplayedIntent
<1> HIDE DEF i
<1>4. QED
  BY <1>2, <1>3, WantedRanged DEF InRange

LEMMA PaneInRange ==
    ASSUME Shape(live), Shape(Logged), NEW n, NEW q, Ranged(live, n, q),
           Ranged(Logged, n, q), NEW event, NEW update,
           WritesPane(event, update)
    PROVE  InRange(event, update, n, q)
<1>1. PICK a, g :
        /\ a \in DOMAIN live.allocating
        /\ g = live.allocating[a].gen
        /\ event = [kind |-> "tmux_pane_allocated", act |-> a, gen |-> g]
        /\ update = Allocated(live, a, g)
  BY DEF WritesPane
<1>2. a \in Activations /\ g \in 0..n
  BY <1>1 DEF Ranged, Wants
<1>3. Replayed(Logged, Line(event, count + 1))
         \in {Logged, Allocated(Logged, a, g)}
  <2> DEFINE e == Line(event, count + 1)
  <2>1. e.kind = "tmux_pane_allocated" /\ e.act = a /\ e.gen = g
    BY <1>1 DEF Line
  <2> HIDE DEF e
  <2>2. Replayed(Logged, e) \in {Logged, Allocated(Logged, a, g)}
    BY <2>1 DEF Replayed
  <2>3. QED
    BY <2>2 DEF e
<1>4. QED
  BY <1>1, <1>2, <1>3, AllocatedRanged DEF InRange

LEMMA ReleaseInRange ==
    ASSUME Shape(live), Shape(Logged), NEW n, NEW q, Ranged(live, n, q),
           Ranged(Logged, n, q), NEW event, NEW update,
           WritesRelease(event, update)
    PROVE  InRange(event, update, n, q)
<1>1. PICK a, b :
        /\ b = ReleasedBarriers(a)
        /\ event = [kind |-> "tmux_panes_released", act |-> a, barriers |-> b]
        /\ update = GivenUp(live, a, b)
  BY DEF WritesRelease
<1>2. Starts(b, n, q)
  BY <1>1 DEF ReleasedBarriers, Ranged, Starts
<1>3. Replayed(Logged, Line(event, count + 1))
         \in {Logged, Released(Logged, a, b)}
  BY <1>1, ReplayedReleased DEF ReleasedBy
<1>4. QED
  BY <1>1, <1>2, <1>3, ReleaseRanged DEF InRange

LEMMA CleanupInRange ==
    ASSUME Shape(live), Shape(Logged), NEW n, NEW q, Ranged(live, n, q),
           Ranged(Logged, n, q), NEW event, NEW update,
           WritesCleanup(event, update)
    PROVE  InRange(event, update, n, q)
<1> DEFINE e == Line(event, count + 1)
<1>1. ASSUME NEW a, NEW g, a \in Owned, g = live.panes[a],
             event = [kind |-> "tmux_pane_cleanup_intent", act |-> a,
                      gen |-> g],
             update = [live EXCEPT !.cleaning = With(@, a, g)]
      PROVE  InRange(event, update, n, q)
  <2>1. e.kind = "tmux_pane_cleanup_intent" /\ e.act = a /\ e.gen = g
    BY <1>1 DEF Line
  <2> HIDE DEF e
  <2>2. Replayed(Logged, e)
           = [Logged EXCEPT !.cleaning = With(Logged.cleaning, a, g)]
    BY <2>1 DEF Replayed
  <2>3. /\ Fits(With(live.cleaning, a, g), n)
        /\ Fits(With(Logged.cleaning, a, g), n)
    <3>1. a \in Activations /\ g \in 0..n
      BY <1>1 DEF Ranged, Fits, Owned
    <3>2. QED
      BY <3>1, FitsWith DEF Ranged
  <2>4. update = [live EXCEPT !.cleaning = With(live.cleaning, a, g)]
    BY <1>1
  <2>5. QED
    BY <2>2, <2>3, <2>4, CleaningRanged DEF InRange, e
<1>2. ASSUME NEW a, NEW g,
             event = [kind |-> "tmux_pane_cleanup_receipt", act |-> a,
                      gen |-> g],
             update = [live EXCEPT !.cleaning = Without(@, a)]
      PROVE  InRange(event, update, n, q)
  <2>1. e.kind = "tmux_pane_cleanup_receipt" /\ e.act = a /\ e.gen = g
    BY <1>2 DEF Line
  <2> HIDE DEF e
  <2>2. Replayed(Logged, e)
           \in {Logged,
                [Logged EXCEPT !.cleaning = Without(Logged.cleaning, a)]}
    BY <2>1 DEF Replayed, Receipt
  <2>3. /\ Fits(Without(live.cleaning, a), n)
        /\ Fits(Without(Logged.cleaning, a), n)
    BY FitsWith DEF Ranged
  <2>4. update = [live EXCEPT !.cleaning = Without(live.cleaning, a)]
    BY <1>2
  <2>5. QED
    BY <2>2, <2>3, <2>4, CleaningRanged DEF InRange, e
<1>3. QED
  BY <1>1, <1>2 DEF WritesCleanup

LEMMA ParticipantInRange ==
    ASSUME Shape(live), Shape(Logged), NEW n, NEW q, Ranged(live, n, q),
           Ranged(Logged, n, q), NEW event, NEW update,
           WritesParticipant(event, update)
    PROVE  InRange(event, update, n, q)
<1> DEFINE e == Line(event, count + 1)
<1>1. PICK a, g :
        /\ a \in Owned
        /\ g = live.panes[a]
        /\ \/ /\ event = [kind |-> "participant_started", act |-> a, gen |-> g]
              /\ update = ParticipantStarted(live, <<a, g>>)
           \/ /\ event = [kind |-> "participant_bound", act |-> a, gen |-> g]
              /\ update = ParticipantBound(live, <<a, g>>)
  BY DEF WritesParticipant
<1>2. e.act = a /\ e.gen = g
      /\ e.kind \in {"participant_started", "participant_bound"}
  BY <1>1 DEF Line
<1> HIDE DEF e
<1>3. Replayed(Logged, e) \in {ParticipantStarted(Logged, <<a, g>>),
                               ParticipantBound(Logged, <<a, g>>)}
  BY <1>2 DEF Replayed
<1>4. a \in Activations /\ g \in 0..n
  BY <1>1 DEF Ranged, Fits, Owned
<1>5. QED
  BY <1>1, <1>3, <1>4, ParticipantRanged DEF InRange, e

LEMMA StartInRange ==
    ASSUME Shape(live), Shape(Logged), NEW n \in Nat, NEW q,
           Ranged(live, n, q),
           Ranged(Logged, n, q), NEW event, NEW update,
           WritesStart(event, update), count + 1 \in 1..q
    PROVE  InRange(event, update, n, q)
<1>1. PICK a, r, k :
        /\ a \in Owned /\ r \in Roles \cup Messages
        /\ k = KeyOf(a, r)
        /\ event = [kind |-> "input_delivery_started", key |-> k]
        /\ update = Barrier(live, k, count + 1)
  BY DEF WritesStart
<1>2. k \in Keys /\ k[3] \in 0..n
  BY <1>1 DEF KeyOf, Keys, Ranged, Fits, Owned
<1>3. Replayed(Logged, Line(event, count + 1)) = Barrier(Logged, k, count + 1)
  BY <1>1, ReplayedStarted
<1>4. QED
  BY <1>1, <1>2, <1>3, BarrierRanged DEF InRange

LEMMA OutcomeInRange ==
    ASSUME Shape(live), Shape(Logged), NEW n, NEW q, Ranged(live, n, q),
           Ranged(Logged, n, q), NEW event, NEW update,
           WritesOutcome(event, update)
    PROVE  InRange(event, update, n, q)
<1>1. PICK k, j, r :
        /\ k \in DOMAIN live.ambiguous
        /\ j = live.ambiguous[k] /\ r = Replayed(Logged, Line(event, count + 1))
        /\ \/ /\ update = SubmittedNow(live, k, j)
              /\ r = IF Matches(Logged, k, j)
                     THEN SubmittedNow(Logged, k, j) ELSE Logged
           \/ /\ update = RefusedNow(live, k)
              /\ r = IF Matches(Logged, k, j) THEN RefusedNow(Logged, k)
                     ELSE Logged
  BY OutcomeReplayed
<1>2. j \in 1..q
  BY <1>1 DEF Ranged, Starts
<1>3. Ranged(update, n, q)
  BY <1>1, <1>2, OutcomeRanged
<1>4. Matches(Logged, k, j) => k \in DOMAIN Logged.ambiguous
  BY DEF Matches
<1>5. Ranged(r, n, q)
  BY <1>1, <1>2, <1>4, OutcomeRanged
<1>6. QED
  BY <1>1, <1>3, <1>5 DEF InRange

LEMMA WritesInRange ==
    ASSUME Shape(live), Shape(Logged), NEW n \in Nat, NEW q,
           Ranged(live, n, q),
           Ranged(Logged, n, q), NEW event, NEW update,
           Writes(event, update), NextWithin(n), count + 1 \in 1..q
    PROVE  InRange(event, update, n, q)
BY BindingInRange, IntentInRange, PaneInRange, ReleaseInRange, CleanupInRange,
   ParticipantInRange, StartInRange, OutcomeInRange DEF Writes

-----------------------------------------------------------------------------
(* What the bounds were spent on.                                          *)

Afforded == /\ binds \in 0..MaxBinds /\ faults \in 0..MaxFaults
            /\ stops \in 0..MaxStops /\ kills \in 0..MaxKills

Spent == 2 * binds + faults + stops + kills

\* A bind_run may still give panes up twice, then once.
Slack == IF job.op # "bind" THEN 0 ELSE IF At("bind") THEN 2 ELSE 1
Level == Spent - Slack

\* What an operation's own steps spend.
Spends == UNCHANGED budget \/ \E kind : Fault(kind)

LEMMA BoundsTyped ==
    /\ MaxBinds \in Nat /\ MaxFaults \in Nat /\ MaxStops \in Nat
    /\ MaxKills \in Nat
BY BoundsAssumption

LEMMA SpentTyped ==
    ASSUME Afforded
    PROVE  /\ Spent \in Nat /\ binds \in Nat
           /\ Spent <= 2 * MaxBinds + MaxFaults + MaxStops + MaxKills
           /\ binds > 0 => Spent >= 2
<1>1. binds \in Nat /\ faults \in Nat /\ stops \in Nat /\ kills \in Nat
  BY BoundsTyped DEF Afforded
<1>2. /\ binds <= MaxBinds /\ faults <= MaxFaults
      /\ stops <= MaxStops /\ kills <= MaxKills
  BY BoundsTyped DEF Afforded
<1>3. QED
  BY <1>1, <1>2, BoundsTyped DEF Spent

LEMMA SpendsAffords ==
    ASSUME Afforded, Spends
    PROVE  /\ Afforded' /\ binds' = binds
           /\ Spent' = IF UNCHANGED budget THEN Spent ELSE Spent + 1
<1>1. CASE UNCHANGED budget
  BY <1>1 DEF Afforded, Spent, budget, bounds
<1>2. CASE ~UNCHANGED budget
  <2>1. faults < MaxFaults /\ faults' = faults + 1 /\ UNCHANGED bounds
    BY <1>2 DEF Spends, Fault
  <2>2. QED
    BY <1>2, <2>1, BoundsTyped DEF Afforded, Spent, bounds
<1>3. QED
  BY <1>1, <1>2

LEMMA AppendSpends ==
    ASSUME NEW event, NEW update, NEW then, AppendEvent(event, update, then)
    PROVE  Spends
BY DEF AppendEvent, Spends

\* The steps of an operation between its start and its end.
Working ==
    \/ Cleaning \/ LoadCleanups \/ Stale \/ LoadExits \/ Suspend
    \/ Allocating \/ Pick \/ Prepare \/ Launch \/ Prompt \/ Delivering

LEMMA WorkingSpends ==
    ASSUME Working
    PROVE  Spends /\ done' = done
<1>1. CASE Cleaning
  BY <1>1, AppendSpends DEF Cleaning, CleanupIntent, KillPane, ReleasePane,
     CleanupReceipt, Finalize, resting, runtime, Spends
<1>2. CASE LoadCleanups \/ Stale \/ LoadExits \/ Suspend
  BY <1>2 DEF LoadCleanups, Stale, LoadExits, Suspend, resting, runtime, Spends
<1>3. CASE Allocating
  BY <1>3, AppendSpends DEF Allocating, BindFirst, Allocate, CreatePane,
     BindWindow, PublishPane, runtime, Spends
<1>4. CASE Pick \/ Prepare \/ Launch \/ Prompt
  BY <1>4, AppendSpends DEF Pick, Prepare, Launch, Prompt, resting, runtime,
     Spends
<1>5. CASE Delivering
  BY <1>5, AppendSpends DEF Delivering, StartDelivery, TypeInput, RecordInput,
     PublishInput, FinishDelivery, runtime, Spends
<1>6. QED
  BY <1>1, <1>2, <1>3, <1>4, <1>5 DEF Working

\* The rest begin or end an operation, a driver or a pane.
LEMMA NextWorking ==
    ASSUME Next
    PROVE  \/ Working \/ PauseRun \/ Requests \/ Agents
           \/ Load \/ Exit \/ Crash \/ Shutdown \/ PaneKilled
BY DEF Next, Working, Starting, Actuating

\* An operation goes on, or ends, in a phase that is not its first.
Holds(j) == /\ j.op \in {job.op, "none"} /\ j.phase \notin {"bind", "down"}
            /\ j.todo \subseteq job.todo \cup Activations

LEMMA EndsHold ==
    ASSUME Inv
    PROVE  Holds(Erred) /\ Holds(Idle)
<1>1. job.op \in Ops
  BY OpsTyped DEF Inv, OnceInv
<1>2. ErrorPhase[job.op] \notin {"bind", "down"}
  BY <1>1 DEF Ops, ErrorPhase
<1>3. QED
  BY <1>2 DEF Holds, Erred, Idle

LEMMA AppendHolds ==
    ASSUME Inv, NEW event, NEW update, NEW then,
           AppendEvent(event, update, then), Holds(then)
    PROVE  Holds(job')
BY EndsHold DEF AppendEvent

LEMMA JobFramed ==
    ASSUME Inv
    PROVE  Framed
BY DEF Inv, OnceInv, Control

LEMMA OwnedTyped ==
    ASSUME Inv, ~At("down")
    PROVE  Owned \subseteq Activations
BY LiveBoth DEF Both, Safe, Numbered, Owned

\* Where only the operation's phase changes.
LEMMA GoesOnHolds ==
    ASSUME Inv
    PROVE  \A p : p \notin {"bind", "down"} => Holds([job EXCEPT !.phase = p])
BY JobFramed DEF Framed, Holds

LEMMA CleanUpHolds ==
    ASSUME Inv, NEW a, NEW p \in {"intent", "kill"}, CleanUp(a, p)
    PROVE  Holds(job')
BY JobFramed, CleanUpMoves DEF Moves, Holds

LEMMA CleaningHolds ==
    ASSUME Inv, Cleaning
    PROVE  Holds(job')
<1>1. CASE CleanupIntent
  <2> DEFINE then == [job EXCEPT !.phase = "kill"]
  <2>1. \/ job' \in {then, Erred}
        \/ \E event, update : AppendEvent(event, update, then)
    BY <1>1 DEF CleanupIntent
  <2>2. Holds(then)
    BY GoesOnHolds
  <2> HIDE DEF then
  <2>3. QED
    BY <2>1, <2>2, EndsHold, AppendHolds
<1>2. CASE KillPane
  <2>1. Goto("receipt") \/ Goto("release") \/ job' = Erred
    BY <1>2 DEF KillPane, KillFailed
  <2>2. QED
    BY <2>1, EndsHold, GoesOnHolds DEF Goto
<1>3. CASE ReleasePane
  <2> DEFINE then == [job EXCEPT !.phase = "receipt"]
  <2>1. \E event, update : AppendEvent(event, update, then)
    BY <1>3 DEF ReleasePane
  <2>2. Holds(then)
    BY GoesOnHolds
  <2> HIDE DEF then
  <2>3. QED
    BY <2>1, <2>2, AppendHolds
<1>4. CASE CleanupReceipt
  <2> DEFINE then == IF job.back = "idle" THEN Idle
                     ELSE [job EXCEPT !.phase = job.back, !.act = "none",
                                      !.back = "idle"]
  <2>1. \E event, update : AppendEvent(event, update, then)
    BY <1>4 DEF CleanupReceipt
  <2>2. job.back \notin {"bind", "down"}
    BY <1>4 DEF CleanupReceipt, At, Inv, OnceInv, Control, Cleanups
  <2>3. Holds(then)
    BY <2>2, EndsHold, JobFramed DEF Framed, Holds
  <2> HIDE DEF then
  <2>4. QED
    BY <2>1, <2>3, AppendHolds
<1>5. CASE Finalize
  <2>1. CASE \E a \in job.todo : CleanUp(a, "intent")
    BY <2>1, CleanUpHolds
  <2>2. CASE job' = Idle
    BY <2>2, EndsHold
  <2>3. CASE /\ job.op = "shutdown"
             /\ job' = [Idle EXCEPT !.op = "shutdown", !.phase = "exit"]
    BY <2>3 DEF Idle, Holds
  <2>4. QED
    BY <1>5, <2>1, <2>2, <2>3 DEF Finalize
<1>6. QED
  BY <1>1, <1>2, <1>3, <1>4, <1>5 DEF Cleaning

LEMMA StartingHolds ==
    ASSUME Inv, LoadCleanups \/ Stale \/ LoadExits \/ Suspend
    PROVE  Holds(job')
<1>1. CASE LoadCleanups
  <2>1. \/ \E a : CleanUp(a, "kill")
        \/ job' = [job EXCEPT !.phase = "stale", !.todo = Owned]
    BY <1>1 DEF LoadCleanups
  <2>2. CASE job' = [job EXCEPT !.phase = "stale", !.todo = Owned]
    <3>1. Owned \subseteq Activations
      BY <1>1, OwnedTyped DEF LoadCleanups, At
    <3>2. QED
      BY <2>2, <3>1, JobFramed DEF Framed, Holds
  <2>3. QED
    BY <2>1, <2>2, CleanUpHolds
<1>2. CASE Stale
  <2>1. \/ \E a, t : /\ t \subseteq job.todo
                    /\ job' = [job EXCEPT !.phase = "intent", !.act = a,
                                          !.back = "stale", !.todo = t]
        \/ job' = [job EXCEPT !.phase = "exits", !.todo = Exits]
        \/ job' = [job EXCEPT !.phase = "allocate", !.todo = Running]
        \/ job' = Erred
    BY <1>2 DEF Stale
  <2>0. Exits \subseteq Activations /\ Running \subseteq Activations
    BY <1>2, OwnedTyped DEF Stale, At, Exits, Running
  <2>2. Framed
    BY JobFramed
  <2>3. ASSUME NEW a, NEW t \in SUBSET job.todo,
               job' = [job EXCEPT !.phase = "intent", !.act = a,
                                  !.back = "stale", !.todo = t]
        PROVE  Holds(job')
    BY <2>2, <2>3 DEF Framed, Holds
  <2>4. ASSUME NEW p \in {"exits", "allocate"},
               NEW t \in SUBSET Activations,
               job' = [job EXCEPT !.phase = p, !.todo = t]
        PROVE  Holds(job')
    BY <2>2, <2>4 DEF Framed, Holds
  <2>5. QED
    BY <2>0, <2>1, <2>3, <2>4, EndsHold
<1>3. CASE LoadExits
  <2>1. Goto("suspend") \/ \E a : CleanUp(a, "intent")
    BY <1>3 DEF LoadExits
  <2>2. QED
    BY <2>1, CleanUpHolds, GoesOnHolds DEF Goto
<1>4. CASE Suspend
  BY <1>4, EndsHold DEF Suspend
<1>5. QED
  BY <1>1, <1>2, <1>3, <1>4

LEMMA AllocatingHolds ==
    ASSUME Inv, Allocating
    PROVE  Holds(job')
<1>1. CASE BindFirst
  <2> DEFINE then == [job EXCEPT !.todo = Running,
                                 !.phase = IF job.op = "bind" THEN "stale"
                                           ELSE "allocate"]
  <2>1. job' = then \/ \E event, update : AppendEvent(event, update, then)
    BY <1>1 DEF BindFirst
  <2>2. Holds(then)
    BY JobFramed DEF Framed, Holds, Running
  <2> HIDE DEF then
  <2>3. QED
    BY <2>1, <2>2, AppendHolds
<1>2. CASE Allocate
  <2>1. ASSUME NEW a, NEW then,
               then = [job EXCEPT !.phase = "create", !.act = a,
                                  !.todo = @ \ {a}],
               \/ job' = then
               \/ \E event, update : AppendEvent(event, update, then)
        PROVE  Holds(job')
    <3>1. Holds(then)
      BY <2>1, JobFramed DEF Framed, Holds
    <3>2. QED
      BY <2>1, <3>1, AppendHolds
  <2>2. CASE job' = [job EXCEPT !.phase = "pick", !.act = "none",
                                !.todo = PendingActuations]
    BY <2>2, JobFramed DEF Framed, Holds, PendingActuations, Running
  <2>3. QED
    BY <1>2, <2>1, <2>2 DEF Allocate
<1>3. CASE CreatePane
  BY <1>3, EndsHold, GoesOnHolds DEF CreatePane, Goto
<1>4. CASE BindWindow
  <2> DEFINE then == [job EXCEPT !.phase = "publish"]
  <2>1. job' = then \/ \E event, update : AppendEvent(event, update, then)
    BY <1>4 DEF BindWindow, Goto
  <2>2. Holds(then)
    BY JobFramed DEF Framed, Holds
  <2> HIDE DEF then
  <2>3. QED
    BY <2>1, <2>2, AppendHolds
<1>5. CASE PublishPane
  <2> DEFINE then == [job EXCEPT !.phase = "allocate", !.act = "none"]
  <2>1. \E event, update : AppendEvent(event, update, then)
    BY <1>5 DEF PublishPane
  <2>2. Holds(then)
    BY JobFramed DEF Framed, Holds
  <2> HIDE DEF then
  <2>3. QED
    BY <2>1, <2>2, AppendHolds
<1>6. QED
  BY <1>1, <1>2, <1>3, <1>4, <1>5 DEF Allocating

LEMMA OnwardsHold ==
    ASSUME Inv
    PROVE  Holds(Picked) /\ Holds(Warned) /\ Holds(ToPrompt)
<1>1. /\ Picked.op = job.op /\ Picked.phase = "pick"
      /\ Picked.todo = job.todo
      /\ ToPrompt.op = job.op /\ ToPrompt.phase = "prompt"
      /\ ToPrompt.todo = job.todo
  BY JobFramed DEF Framed, Picked, ToPrompt
<1>2. /\ Warned.op = job.op /\ Warned.phase = "pick"
      /\ Warned.todo = job.todo
  BY JobFramed DEF Framed, Picked, Warned
<1>3. QED
  BY <1>1, <1>2 DEF Holds

LEMMA ActuatingHolds ==
    ASSUME Inv, Pick \/ Prepare \/ Launch \/ Prompt
    PROVE  Holds(job')
<1>1. Framed
  BY JobFramed
<1>2. Holds(Picked) /\ Holds(Warned) /\ Holds(ToPrompt) /\ Holds(Recover)
  <2>1. Holds(Picked) /\ Holds(Warned) /\ Holds(ToPrompt)
    BY OnwardsHold
  <2>2. Holds([job EXCEPT !.phase = "finish"])
    BY GoesOnHolds
  <2>3. QED
    BY <2>1, <2>2 DEF Recover
<1>3. CASE Pick
  <2>1. ASSUME NEW t \in SUBSET job.todo,
               \/ job' = [job EXCEPT !.todo = t]
               \/ job' = [job EXCEPT !.todo = t, !.warned = TRUE]
        PROVE  Holds(job')
    BY <1>1, <1>3, <2>1 DEF Pick, At, Framed, Holds
  <2>2. ASSUME NEW a, NEW t \in SUBSET job.todo,
               job' = [job EXCEPT !.phase = "prepare", !.act = a, !.todo = t]
        PROVE  Holds(job')
    BY <1>1, <2>2 DEF Framed, Holds
  <2>3. CASE job' = [job EXCEPT !.phase = "pause"]
    BY <2>3, GoesOnHolds
  <2>4. CASE job' = Idle
    BY <2>4, EndsHold
  <2>5. \/ \E t \in SUBSET job.todo :
              \/ job' = [job EXCEPT !.todo = t]
              \/ job' = [job EXCEPT !.todo = t, !.warned = TRUE]
              \/ \E a : job' = [job EXCEPT !.phase = "prepare", !.act = a,
                                           !.todo = t]
        \/ job' \in {[job EXCEPT !.phase = "pause"], Idle}
    <3>1. \A a : job.todo \ {a} \in SUBSET job.todo
      OBVIOUS
    <3>2. QED
      BY <1>3, <3>1 DEF Pick
  <2>6. QED
    BY <2>1, <2>2, <2>3, <2>4, <2>5
<1>4. CASE Prepare
  <2> DEFINE then == [job EXCEPT !.phase = "launch", !.role = "launch"]
  <2>1. \/ job' \in {then, Erred}
        \/ \E event, update : AppendEvent(event, update, then)
    BY <1>4 DEF Prepare
  <2>2. Holds(then)
    BY JobFramed DEF Framed, Holds
  <2> HIDE DEF then
  <2>3. QED
    BY <2>1, <2>2, EndsHold, AppendHolds
<1>5. CASE Launch \/ Prompt
  <2>1. job' \in {ToPrompt, Recover, Picked, [job EXCEPT !.phase = "start"]}
    BY <1>5 DEF Launch, Prompt
  <2>2. Holds([job EXCEPT !.phase = "start"])
    BY GoesOnHolds
  <2>3. QED
    BY <1>2, <2>1, <2>2
<1>6. QED
  BY <1>3, <1>4, <1>5

LEMMA DeliveringHolds ==
    ASSUME Inv, Delivering
    PROVE  Holds(job')
<1>2. Holds(Picked) /\ Holds(Warned) /\ Holds(ToPrompt) /\ Holds(Idle)
  BY OnwardsHold, EndsHold
<1>3. Holds(InDoubt)
  BY <1>2 DEF InDoubt
<1>4. CASE StartDelivery
  <2> DEFINE then == [job EXCEPT !.phase = "type"]
  <2>1. \E event, update : AppendEvent(event, update, then)
    BY <1>4 DEF StartDelivery
  <2>2. Holds(then)
    BY JobFramed DEF Framed, Holds
  <2> HIDE DEF then
  <2>3. QED
    BY <2>1, <2>2, AppendHolds
<1>5. CASE TypeInput \/ RecordInput \/ PublishInput
  <2>1. \/ Goto("record") \/ Goto("publishing") \/ Goto("finish")
        \/ job' \in {InDoubt, Erred}
    BY <1>5 DEF TypeInput, RecordInput, PublishInput
  <2>2. QED
    BY <1>3, <2>1, EndsHold, GoesOnHolds DEF Goto
<1>6. CASE FinishDelivery
  <2>1. Holds(Over)
    <3>1. job.op = "message" \/ job.role \in Roles
      BY <1>6 DEF FinishDelivery, At, Inv, OnceInv, Actuates, Deliveries
    <3>2. QED
      BY <1>2, <3>1 DEF Over, Roles
  <2>2. \E event, update : AppendEvent(event, update, Over)
    BY <1>6 DEF FinishDelivery
  <2>3. QED
    BY <2>1, <2>2, AppendHolds
<1>7. QED
  BY <1>4, <1>5, <1>6 DEF Delivering

LEMMA WorkingHolds ==
    ASSUME Inv, Working
    PROVE  Holds(job')
BY CleaningHolds, StartingHolds, AllocatingHolds, ActuatingHolds,
   DeliveringHolds DEF Working

\* What an operation's own steps leave it to go by.
LEMMA WorkingLevel ==
    ASSUME Inv, Afforded, binds = 0 => job.op # "bind", Working
    PROVE  /\ Afforded' /\ binds' = binds /\ done' = done
           /\ Level \in Nat /\ Level' \in Nat
           /\ Level' >= Level /\ Spent' >= Spent
           /\ UNCHANGED budget \/ Level' >= Level + 1
           /\ job.op = "bind" /\ At("bind") => Level' >= Level + 1
<1>1. /\ Afforded' /\ binds' = binds /\ done' = done
      /\ Spent' = IF UNCHANGED budget THEN Spent ELSE Spent + 1
  BY WorkingSpends, SpendsAffords
<1>2. Spent \in Nat /\ (job.op = "bind" => Spent >= 2)
  BY SpentTyped DEF Afforded
<1>3. /\ job'.op \in {job.op, "none"}
      /\ job'.phase # "bind"
  BY WorkingHolds DEF Holds
<1>4. Slack' = IF job'.op = "bind" THEN 1 ELSE 0
  BY <1>3 DEF Slack, At
<1>5. QED
  BY <1>1, <1>2, <1>3, <1>4 DEF Level, Slack

-----------------------------------------------------------------------------
(* An activation without a pane has spent more than its last generation.   *)

\* No generation is above n, and all are below n.
Tops(s, n) == /\ \A a \in DOMAIN s.generations : s.generations[a] <= n
              /\ \A a \in DOMAIN s.allocating : s.allocating[a].gen <= n
Below(s, n) == /\ \A a \in DOMAIN s.generations : s.generations[a] < n
               /\ \A a \in DOMAIN s.allocating : s.allocating[a].gen < n

\* An activation is to be given a pane, or its pane is gone.
Bare(s, a) == \/ a \notin DOMAIN s.panes \cup DOMAIN s.allocating
              \/ a \in DOMAIN s.panes /\ <<a, s.panes[a]>> \notin alive

RoomAt(s, n) ==
    /\ Tops(s, n)
    /\ \A a \in Running \cap DOMAIN s.generations :
          Bare(s, a) => s.generations[a] < n

Room == RoomAt(live, Level)

\* Enough was spent for every activation to lose its pane.
Fresh == Below(live, Level)

LEMMA FreshRoom ==
    ASSUME NEW s, Shape(s), Numbered(s), NEW n \in Int, Below(s, n)
    PROVE  RoomAt(s, n)
BY DEF Tops, Below, RoomAt, Numbered

LEMMA TopsGrow ==
    ASSUME NEW s, Shape(s), Numbered(s), NEW n \in Int, Tops(s, n),
           NEW p \in Int, n <= p
    PROVE  Tops(s, p)
BY DEF Tops, Numbered

LEMMA BelowGrows ==
    ASSUME NEW s, Shape(s), Numbered(s), NEW n \in Int, NEW p \in Int,
           \/ Tops(s, n) /\ n < p
           \/ Below(s, n) /\ n <= p
    PROVE  Below(s, p)
BY DEF Tops, Below, Numbered

LEMMA RoomGrows ==
    ASSUME NEW s, Shape(s), Numbered(s), NEW n \in Int, RoomAt(s, n),
           NEW p \in Int, n <= p
    PROVE  RoomAt(s, p)
<1>1. Tops(s, p)
  BY TopsGrow DEF RoomAt
<1>2. \A a \in DOMAIN s.generations : s.generations[a] \in Nat
  BY DEF Numbered
<1>3. QED
  BY <1>1, <1>2 DEF RoomAt

\* Events that do not allocate raise no generation.
LEMMA CalmTops ==
    ASSUME Shape(live), Shape(Logged), NEW event, NEW update,
           Writes(event, update), ~At("allocate"), ~At("publish"), NEW n
    PROVE  /\ Tops(live, n) => Tops(update, n)
           /\ Below(live, n) => Below(update, n)
           /\ Below(Logged, n)
                 => Below(Replayed(Logged, Line(event, count + 1)), n)
<1> DEFINE e == Line(event, count + 1)
           r == Replayed(Logged, e)
<1>1. ASSUME NEW s, NEW t, t.generations = s.generations,
             \/ t.allocating = s.allocating
             \/ \E a : t.allocating = Without(s.allocating, a)
      PROVE  (Tops(s, n) => Tops(t, n)) /\ (Below(s, n) => Below(t, n))
  BY <1>1 DEF Tops, Below, Without
<1>2. CASE WritesBinding(event, update)
  <2>1. PICK c : /\ event = TmuxBound(c)
                 /\ \/ update = BoundTo(live, c)
                    \/ update = [live EXCEPT !.tmux = c]
    BY <1>2 DEF WritesBinding
  <2>2. r = BoundTo(Logged, c)
    BY <2>1, ReplayedBound
  <2>3. /\ update.generations = live.generations
        /\ update.allocating = live.allocating
    BY <2>1, BoundFields, RenamedFields
  <2>4. /\ r.generations = Logged.generations
        /\ r.allocating = Logged.allocating
    BY <2>2, BoundFields
  <2>5. QED
    BY <1>1, <2>3, <2>4
<1>3. CASE WritesRelease(event, update)
  <2>1. PICK a, b :
          /\ event = [kind |-> "tmux_panes_released", act |-> a,
                      barriers |-> b]
          /\ update = GivenUp(live, a, b)
    BY <1>3 DEF WritesRelease
  <2>2. r \in {Logged, Released(Logged, a, b)}
    BY <2>1, ReplayedReleased DEF ReleasedBy
  <2>3. /\ update.generations = live.generations
        /\ update.allocating = live.allocating
    BY <2>1, GivenUpFields
  <2>4. /\ r.generations = Logged.generations
        /\ \/ r.allocating = Logged.allocating
           \/ r.allocating = Without(Logged.allocating, a)
    BY <2>2, ReleasedFields
  <2>5. QED
    BY <1>1, <2>3, <2>4
<1>4. CASE WritesCleanup(event, update)
  <2>1. PICK a, g, kind :
          /\ kind \in {"tmux_pane_cleanup_intent",
                       "tmux_pane_cleanup_receipt"}
          /\ event = [kind |-> kind, act |-> a, gen |-> g]
          /\ \E f : update = [live EXCEPT !.cleaning = f]
    BY <1>4 DEF WritesCleanup
  <2>2. Like(Logged, r)
    BY <2>1, ReplayedLike
  <2>3. /\ update.generations = live.generations
        /\ update.allocating = live.allocating
    BY <2>1, CleaningFields
  <2>4. QED
    BY <1>1, <2>2, <2>3 DEF Like
<1>5. CASE WritesParticipant(event, update)
  <2>1. PICK a, g, kind :
          /\ kind \in {"participant_started", "participant_bound"}
          /\ event = [kind |-> kind, act |-> a, gen |-> g]
          /\ \/ update = ParticipantStarted(live, <<a, g>>)
             \/ update = ParticipantBound(live, <<a, g>>)
    BY <1>5 DEF WritesParticipant
  <2>2. Like(Logged, r)
    BY <2>1, ReplayedLike
  <2>3. /\ update.generations = live.generations
        /\ update.allocating = live.allocating
    BY <2>1, ParticipantFields
  <2>4. QED
    BY <1>1, <2>2, <2>3 DEF Like
<1>6. CASE WritesStart(event, update)
  <2>1. PICK k : /\ event = [kind |-> "input_delivery_started", key |-> k]
                 /\ update = Barrier(live, k, count + 1)
    BY <1>6 DEF WritesStart
  <2>2. r = Barrier(Logged, k, count + 1)
    BY <2>1, ReplayedStarted
  <2>3. QED
    BY <1>1, <2>1, <2>2, BarrierFields
<1>7. CASE WritesOutcome(event, update)
  <2>1. PICK k, j :
          \/ /\ update = SubmittedNow(live, k, j)
             /\ r \in {Logged, SubmittedNow(Logged, k, j)}
          \/ /\ update = RefusedNow(live, k)
             /\ r \in {Logged, RefusedNow(Logged, k)}
    <3>1. PICK k, j :
            /\ k \in DOMAIN live.ambiguous
            /\ \/ /\ update = SubmittedNow(live, k, j)
                  /\ r = IF Matches(Logged, k, j)
                         THEN SubmittedNow(Logged, k, j) ELSE Logged
               \/ /\ update = RefusedNow(live, k)
                  /\ r = IF Matches(Logged, k, j)
                         THEN RefusedNow(Logged, k) ELSE Logged
      BY <1>7, OutcomeReplayed
    <3>2. QED
      BY <3>1
  <2>2. QED
    BY <1>1, <2>1, OutcomeFields
<1>8. QED
  BY <1>2, <1>3, <1>4, <1>5, <1>6, <1>7 DEF Writes, WritesIntent, WritesPane

\* What an operation has in hand for the events it writes.
Placed ==
    /\ job.phase \in {"intent", "kill"} /\ job.act \in Running \cap Owned
          => live.generations[job.act] < Level
    /\ job.phase \in {"window", "publish"}
          => Intended \in alive \/ Intent.gen < Level
    /\ At("bind") /\ job.op = "request" => live.tmux \in {"none", job.command}
    /\ job.phase \in Allocations => job.todo \subseteq Running

\* A state whose panes and generations are those of another.
LEMMA RoomSame ==
    ASSUME NEW s, NEW t, NEW n, RoomAt(s, n), t.panes = s.panes,
           t.generations = s.generations, t.allocating = s.allocating
    PROVE  RoomAt(t, n)
BY DEF RoomAt, Tops, Bare

LEMMA BindingRoom ==
    ASSUME Shape(live), PanesKnown(live), Whole(live), NEW n,
           RoomAt(live, n), NEW event, NEW update,
           WritesBinding(event, update),
           At("bind") => live.tmux \in {"none", job.command}
    PROVE  RoomAt(update, n)
<1>1. PICK c : \/ /\ c # live.tmux /\ At("bind") /\ c = job.command
                  /\ update = BoundTo(live, c)
               \/ update = [live EXCEPT !.tmux = c]
  BY DEF WritesBinding
<1>2. CASE update = [live EXCEPT !.tmux = c]
  <2>1. /\ update.panes = live.panes /\ update.allocating = live.allocating
        /\ update.generations = live.generations
    BY <1>2, RenamedFields
  <2>2. QED
    BY <2>1, RoomSame
<1>3. CASE /\ c # live.tmux /\ At("bind") /\ c = job.command
           /\ update = BoundTo(live, c)
  <2>1. live.tmux = "none"
    BY <1>3
  <2>2. live.panes = Nothing
    BY <2>1 DEF PanesKnown, Whole, IsFcn, Nothing
  <2>3. /\ update.panes = live.panes /\ update.allocating = live.allocating
        /\ update.generations = live.generations
    BY <1>3, <2>2, BoundFields
  <2>4. QED
    BY <2>3, RoomSame
<1>4. QED
  BY <1>1, <1>2, <1>3

LEMMA NextInRoom ==
    ASSUME NEW n \in Nat, RoomAt(live, n), Numbered(live), NEW a \in Running,
           a \notin Owned, a \notin DOMAIN live.allocating
    PROVE  NextGeneration(a) \in 0..n
<1>1. Bare(live, a)
  BY DEF Bare, Owned
<1>2. a \in DOMAIN live.generations
         => live.generations[a] < n /\ live.generations[a] \in Nat
  BY <1>1 DEF RoomAt, Numbered
<1>3. QED
  BY <1>2 DEF NextGeneration

LEMMA IntentRoom ==
    ASSUME Shape(live), Numbered(live), NEW n \in Nat,
           RoomAt(live, n), NEW event, NEW update,
           WritesIntent(event, update),
           At("allocate") => job.todo \subseteq Running
    PROVE  RoomAt(update, n)
<1>1. PICK a \in Activations, c \in Commands :
        LET i == [gen |-> NextGeneration(a), command |-> c]
        IN  /\ At("allocate") /\ a \in job.todo
            /\ a \notin Owned /\ a \notin DOMAIN live.allocating
            /\ update = Wanted(live, a, i)
  BY DEF WritesIntent
<1> DEFINE i == [gen |-> NextGeneration(a), command |-> c]
<1>2. i.gen <= n
  BY <1>1, NextInRoom
<1>3. update = Wanted(live, a, i)
  BY <1>1
<1> HIDE DEF i
<1>4. /\ update.panes = live.panes
      /\ update.generations = live.generations
      /\ update.allocating = With(live.allocating, a, i)
  BY <1>3, WantedFields
<1>5. /\ DOMAIN update.allocating = DOMAIN live.allocating \cup {a}
      /\ \A b \in DOMAIN update.allocating :
            update.allocating[b] = IF b = a THEN i ELSE live.allocating[b]
  BY <1>4 DEF With
<1>6. Tops(update, n)
  BY <1>2, <1>4, <1>5 DEF RoomAt, Tops
<1>7. \A b : Bare(update, b) => Bare(live, b)
  BY <1>4, <1>5 DEF Bare
<1>8. QED
  BY <1>4, <1>6, <1>7 DEF RoomAt

LEMMA PaneRoom ==
    ASSUME Shape(live), NEW n, RoomAt(live, n), NEW event,
           NEW update, WritesPane(event, update),
           At("publish") => Intended \in alive \/ Intent.gen < n
    PROVE  RoomAt(update, n)
<1>1. PICK a, g :
        /\ a \in DOMAIN live.allocating
        /\ g = live.allocating[a].gen /\ At("publish") /\ a = job.act
        /\ update = Allocated(live, a, g)
  BY DEF WritesPane
<1>2. <<a, g>> \in alive \/ g < n
  BY <1>1 DEF Intended, Intent
<1>3. /\ update.panes = With(live.panes, a, g)
      /\ update.generations = With(live.generations, a, g)
      /\ update.allocating = Without(live.allocating, a)
  BY <1>1, AllocatedFields
<1>4. /\ DOMAIN update.panes = Owned \cup {a}
      /\ \A b \in DOMAIN update.panes :
            update.panes[b] = IF b = a THEN g ELSE live.panes[b]
      /\ DOMAIN update.generations = DOMAIN live.generations \cup {a}
      /\ \A b \in DOMAIN update.generations :
            update.generations[b] = IF b = a THEN g ELSE live.generations[b]
      /\ DOMAIN update.allocating = DOMAIN live.allocating \ {a}
      /\ \A b \in DOMAIN update.allocating :
            update.allocating[b] = live.allocating[b]
  BY <1>3 DEF With, Without, Owned
<1>5. Tops(update, n)
  BY <1>1, <1>4 DEF RoomAt, Tops
<1>6. \A b : Bare(update, b) /\ b # a => Bare(live, b)
  BY <1>4 DEF Bare, Owned
<1>7. Bare(update, a) => <<a, g>> \notin alive
  BY <1>4 DEF Bare
<1>8. QED
  BY <1>2, <1>4, <1>5, <1>6, <1>7 DEF RoomAt

LEMMA ReleaseRoom ==
    ASSUME Shape(live), NEW n, RoomAt(live, n), NEW event,
           NEW update, WritesRelease(event, update),
           At("release") => Pane(job.act) \notin alive
    PROVE  RoomAt(update, n)
<1>1. PICK a, b : /\ a \in Owned /\ At("release") /\ a = job.act
                  /\ update = GivenUp(live, a, b)
  BY DEF WritesRelease
<1>2. <<a, live.panes[a]>> \notin alive
  BY <1>1 DEF Pane
<1>3. /\ update.panes = Without(live.panes, a)
      /\ update.generations = live.generations
      /\ update.allocating = live.allocating
  BY <1>1, GivenUpFields
<1>4. /\ DOMAIN update.panes = Owned \ {a}
      /\ \A x \in DOMAIN update.panes : update.panes[x] = live.panes[x]
  BY <1>3 DEF Without, Owned
<1>5. \A x : Bare(update, x) => Bare(live, x)
  BY <1>2, <1>3, <1>4 DEF Bare, Owned
<1>6. QED
  BY <1>3, <1>5 DEF RoomAt, Tops

LEMMA WritesRoom ==
    ASSUME Shape(live), Numbered(live), PanesKnown(live), Whole(live),
           NEW n \in Nat, RoomAt(live, n), NEW event, NEW update,
           Writes(event, update),
           At("bind") => live.tmux \in {"none", job.command},
           At("allocate") => job.todo \subseteq Running,
           At("publish") => Intended \in alive \/ Intent.gen < n,
           At("release") => Pane(job.act) \notin alive
    PROVE  RoomAt(update, n)
<1>1. CASE WritesCleanup(event, update)
  <2>1. PICK f : update = [live EXCEPT !.cleaning = f]
    BY <1>1 DEF WritesCleanup
  <2>2. QED
    BY <2>1, CleaningFields, RoomSame
<1>2. CASE WritesParticipant(event, update)
  <2>1. PICK p : update \in {ParticipantStarted(live, p),
                             ParticipantBound(live, p)}
    BY <1>2 DEF WritesParticipant
  <2>2. QED
    BY <2>1, ParticipantFields, RoomSame
<1>3. CASE WritesStart(event, update)
  <2>1. PICK k : update = Barrier(live, k, count + 1)
    BY <1>3 DEF WritesStart
  <2>2. QED
    BY <2>1, BarrierFields, RoomSame
<1>4. CASE WritesOutcome(event, update)
  <2>1. PICK k, j : update \in {SubmittedNow(live, k, j), RefusedNow(live, k)}
    BY <1>4 DEF WritesOutcome
  <2>2. QED
    BY <2>1, OutcomeFields, RoomSame
<1>5. QED
  BY <1>1, <1>2, <1>3, <1>4, BindingRoom, IntentRoom, PaneRoom, ReleaseRoom
     DEF Writes

-----------------------------------------------------------------------------
(* Room is made by every step.                                             *)

\* A driver that is down holds nothing.
Gone == At("down") => live = Blank /\ count = 0

\* While a driver starts or ends, and while panes are given up, no activation
\* needs the pane it has.
Rested == At("down") \/ job.op \in {"load", "shutdown"}
Calm == /\ Rested => Fresh /\ Below(Logged, Spent)
        /\ job.op = "finalize" => Running = {} \/ Fresh

RoomInv == /\ Gone /\ Afforded
           /\ binds = 0 => job.op # "bind"
           /\ Room /\ Calm /\ Placed

LEMMA LiveGood ==
    ASSUME Inv, Gone
    PROVE  /\ Shape(live) /\ Numbered(live) /\ PanesKnown(live)
           /\ Shape(Logged) /\ Numbered(Logged)
<1>1. Shape(Logged) /\ Numbered(Logged)
  BY DEF Inv, OnceInv, Stored, Both, Safe
<1>2. Shape(Blank) /\ Numbered(Blank) /\ PanesKnown(Blank)
  BY DEF Shape, Numbered, PanesKnown, Blank, Nothing
<1>3. ~At("down") => Shape(live) /\ Numbered(live) /\ PanesKnown(live)
  BY LiveBoth DEF Both, Safe
<1>4. QED
  BY <1>1, <1>2, <1>3 DEF Gone

\* What was spent grows.
Rises == /\ Level \in Nat /\ Level' \in Nat /\ Level <= Level'
         /\ Spent \in Nat /\ Spent' \in Nat /\ Spent <= Spent'

LEMMA FreshMakesRoom ==
    ASSUME Inv, Gone, Level \in Int, Fresh
    PROVE  Room
BY LiveGood, FreshRoom DEF Fresh, Room

\* Primed, as the steps need them.
LEMMA LiveGoodNext ==
    ASSUME Inv', Gone'
    PROVE  Shape(live') /\ Numbered(live')
           /\ Shape(Logged') /\ Numbered(Logged')
<1>1. (/\ Shape(live) /\ Numbered(live)
       /\ Shape(Logged) /\ Numbered(Logged))'
  BY LiveGood, PTL
<1>2. QED
  BY <1>1 DEF Shape, Numbered

LEMMA FreshMakesRoomNext ==
    ASSUME Inv', Gone', Level' \in Int, Below(live', Level')
    PROVE  Fresh' /\ Room'
<1>1. Fresh'
  BY DEF Fresh, Below
<1>2. (Level \in Int)'
  OBVIOUS
<1>3. Room'
  BY <1>1, <1>2, FreshMakesRoom, PTL
<1>4. QED
  BY <1>1, <1>3

\* No event and no change to the panes takes room.
LEMMA RoomWritten ==
    ASSUME Inv, SyncInv, RoomInv, Inv', Gone', ~At("down"), Stepwise, Rises,
           alive' = alive, Running' \subseteq Running,
           ~(At("bind") /\ job.op = "bind")
    PROVE  Room'
<1>1. RoomAt(live', Level)
  <2>1. CASE live' = live
    BY <2>1 DEF RoomInv, Room
  <2>2. ASSUME NEW event, NEW update, NEW then,
               AppendEvent(event, update, then), Writes(event, update)
        PROVE  RoomAt(update, Level)
    <3>1. /\ At("bind") => live.tmux \in {"none", job.command}
          /\ At("allocate") => job.todo \subseteq Running
          /\ At("publish") => Intended \in alive \/ Intent.gen < Level
      BY DEF RoomInv, Placed, At, Allocations, Inv, OnceInv, Control,
             Reconciling
    <3>2. At("release") => Pane(job.act) \notin alive
      BY DEF SyncInv, Seated
    <3>3. /\ Shape(live) /\ Numbered(live) /\ PanesKnown(live)
          /\ Whole(live) /\ RoomAt(live, Level) /\ Level \in Nat
      BY LiveGood DEF RoomInv, Room, SyncInv, Rises
    <3>4. QED
      BY <2>2, <3>1, <3>2, <3>3, WritesRoom
  <2>3. QED
    BY <2>1, <2>2 DEF Stepwise, AppendEvent, service
<1>2. Shape(live') /\ Numbered(live')
  BY LiveGoodNext
<1>3. RoomAt(live', Level')
  BY <1>1, <1>2, RoomGrows DEF Rises
<1>4. QED
  BY <1>3 DEF Room, RoomAt, Bare, Tops

\* Nor does it raise a generation, but for an allocation.
LEMMA CalmWritten ==
    ASSUME Inv, ~At("down"), Stepwise, ~At("allocate"), ~At("publish"), NEW n
    PROVE  /\ Tops(live, n) => Tops(live', n)
           /\ Below(live, n) => Below(live', n)
           /\ Below(Logged, n) => Below(Logged', n)
<1>1. CASE UNCHANGED <<dlog, service>>
  BY <1>1 DEF service, Logged
<1>2. ASSUME NEW event, NEW update, NEW then,
             AppendEvent(event, update, then), Writes(event, update)
      PROVE  /\ Tops(live, n) => Tops(live', n)
             /\ Below(live, n) => Below(live', n)
             /\ Below(Logged, n) => Below(Logged', n)
  <2> DEFINE r == Replayed(Logged, Line(event, count + 1))
  <2>1. /\ live' \in {live, update}
        /\ Logged' = r \/ UNCHANGED dlog
    BY <1>2, Grown
  <2>2. /\ Tops(live, n) => Tops(update, n)
        /\ Below(live, n) => Below(update, n)
        /\ Below(Logged, n) => Below(r, n)
    BY <1>2, LiveBoth, CalmTops
  <2> HIDE DEF r
  <2>3. Logged' \in {Logged, r}
    BY <2>1 DEF Logged
  <2>4. QED
    BY <2>1, <2>2, <2>3
<1>3. QED
  BY <1>1, <1>2 DEF Stepwise

LEMMA CalmStep ==
    ASSUME Inv, RoomInv, Inv', Gone', ~At("down"), Stepwise, Rises,
           Running' \subseteq Running, job'.op \in {job.op, "none"},
           ~At("down")'
    PROVE  Calm'
<1>1. ASSUME job.op \in {"load", "shutdown", "finalize"}
      PROVE  ~At("allocate") /\ ~At("publish")
  BY <1>1 DEF Inv, OnceInv, Control, At, Allocations, Reconciling
<1>2. ASSUME job.op \in {"load", "shutdown", "finalize"}, Fresh
      PROVE  Fresh'
  <2>1. Below(live', Level)
    BY <1>1, <1>2, CalmWritten DEF Fresh
  <2>2. Below(live', Level')
    BY <2>1, LiveGoodNext, BelowGrows DEF Rises
  <2>3. QED
    BY <2>2, FreshMakesRoomNext DEF Rises
<1>3. ASSUME job.op \in {"load", "shutdown"}, Below(Logged, Spent)
      PROVE  Below(Logged, Spent)'
  <2>1. Below(Logged', Spent)
    BY <1>1, <1>3, CalmWritten
  <2>2. Below(Logged', Spent')
    BY <2>1, LiveGoodNext, BelowGrows DEF Rises
  <2>3. QED
    BY <2>2 DEF Below
<1>4. QED
  BY <1>2, <1>3 DEF RoomInv, Calm, Rested, At

-----------------------------------------------------------------------------
(* What an operation has in hand for its events.                           *)

Elsewhere(j) == j.phase \notin {"intent", "kill", "bind"} \cup Allocations

LEMMA PlacedElsewhere ==
    ASSUME Elsewhere(job')
    PROVE  Placed'
BY DEF Placed, Elsewhere, At, Allocations

LEMMA EndsElsewhere ==
    ASSUME Inv
    PROVE  Elsewhere(Erred) /\ Elsewhere(Idle)
<1>1. job.op \in Ops
  BY OpsTyped DEF Inv, OnceInv
<1>2. ErrorPhase[job.op] \in {"idle", "exit", "pause", "finalize"}
  BY <1>1 DEF Ops, ErrorPhase
<1>3. QED
  BY <1>2 DEF Elsewhere, Erred, Idle, Allocations

LEMMA AppendElsewhere ==
    ASSUME Inv, NEW event, NEW update, NEW then,
           AppendEvent(event, update, then), Elsewhere(then)
    PROVE  Elsewhere(job')
BY EndsElsewhere DEF AppendEvent

LEMMA GoesElsewhere ==
    ASSUME Inv
    PROVE  \A p : p \notin {"intent", "kill", "bind"} \cup Allocations
                     => Elsewhere([job EXCEPT !.phase = p])
BY JobFramed DEF Framed, Elsewhere

LEMMA OnwardsElsewhere ==
    ASSUME Inv
    PROVE  Elsewhere(Picked) /\ Elsewhere(Warned) /\ Elsewhere(ToPrompt)
BY JobFramed, Onwards DEF Elsewhere, Allocations

LEMMA ActuatingElsewhere ==
    ASSUME Inv, Pick \/ Prepare \/ Launch \/ Prompt
    PROVE  Elsewhere(job')
<1>1. Framed
  BY JobFramed
<1>2. CASE Pick
  <2>1. ASSUME NEW t, \/ job' = [job EXCEPT !.todo = t]
                      \/ job' = [job EXCEPT !.todo = t, !.warned = TRUE]
        PROVE  Elsewhere(job')
    BY <1>1, <1>2, <2>1 DEF Pick, At, Framed, Elsewhere, Allocations
  <2>2. ASSUME NEW a, NEW t, job' = [job EXCEPT !.phase = "prepare", !.act = a,
                                                !.todo = t]
        PROVE  Elsewhere(job')
    BY <1>1, <2>2 DEF Framed, Elsewhere, Allocations
  <2>3. CASE job' = [job EXCEPT !.phase = "pause"]
    BY <2>3, GoesElsewhere DEF Allocations
  <2>4. CASE job' = Idle
    BY <2>4, EndsElsewhere
  <2>5. QED
    BY <1>2, <2>1, <2>2, <2>3, <2>4 DEF Pick
<1>3. CASE Prepare
  <2> DEFINE then == [job EXCEPT !.phase = "launch", !.role = "launch"]
  <2>1. \/ job' \in {then, Erred}
        \/ \E event, update : AppendEvent(event, update, then)
    BY <1>3 DEF Prepare
  <2>2. Elsewhere(then)
    BY <1>1 DEF Framed, Elsewhere, Allocations
  <2> HIDE DEF then
  <2>3. QED
    BY <2>1, <2>2, EndsElsewhere, AppendElsewhere
<1>4. CASE Launch \/ Prompt
  <2>1. job' \in {ToPrompt, Warned, Picked, [job EXCEPT !.phase = "start"],
                  [job EXCEPT !.phase = "finish"]}
    BY <1>4 DEF Launch, Prompt, Recover
  <2>2. \A p \in {"start", "finish"} : Elsewhere([job EXCEPT !.phase = p])
    BY GoesElsewhere DEF Allocations
  <2>3. QED
    BY <2>1, <2>2, OnwardsElsewhere
<1>5. QED
  BY <1>2, <1>3, <1>4

LEMMA DeliveringElsewhere ==
    ASSUME Inv, Delivering
    PROVE  Elsewhere(job')
<1>1. Elsewhere(InDoubt)
  BY OnwardsElsewhere, EndsElsewhere DEF InDoubt
<1>2. \A p \in {"type", "record", "publishing", "finish"} :
         Elsewhere([job EXCEPT !.phase = p])
  BY GoesElsewhere DEF Allocations
<1>3. CASE StartDelivery
  <2> DEFINE then == [job EXCEPT !.phase = "type"]
  <2>1. \E event, update : AppendEvent(event, update, then)
    BY <1>3 DEF StartDelivery
  <2>2. Elsewhere(then)
    BY <1>2
  <2> HIDE DEF then
  <2>3. QED
    BY <2>1, <2>2, AppendElsewhere
<1>4. CASE TypeInput \/ RecordInput \/ PublishInput
  <2>1. \/ Goto("record") \/ Goto("publishing") \/ Goto("finish")
        \/ job' \in {InDoubt, Erred}
    BY <1>4 DEF TypeInput, RecordInput, PublishInput
  <2>2. QED
    BY <1>1, <1>2, <2>1, EndsElsewhere DEF Goto
<1>5. CASE FinishDelivery
  <2>1. Elsewhere(Over)
    <3>1. job.op = "message" \/ job.role \in Roles
      BY <1>5 DEF FinishDelivery, At, Inv, OnceInv, Actuates, Deliveries
    <3>2. QED
      BY <3>1, OnwardsElsewhere, EndsElsewhere DEF Over, Roles
  <2>2. \E event, update : AppendEvent(event, update, Over)
    BY <1>5 DEF FinishDelivery
  <2>3. QED
    BY <2>1, <2>2, AppendElsewhere
<1>6. QED
  BY <1>3, <1>4, <1>5 DEF Delivering

\* The cleanup of a's pane goes on or begins.
LEMMA PlacedCleanup ==
    ASSUME Inv, Gone, ~At("down"), Rises, done' = done,
           live'.panes = live.panes, live'.generations = live.generations,
           NEW a, job'.phase \in {"intent", "kill"}, job'.act = a,
           a \in Running \cap Owned => live.generations[a] < Level
    PROVE  Placed'
<1>1. ASSUME a \in Running \cap Owned
      PROVE  live.generations[a] < Level'
  <2>1. live.generations[a] \in Nat
    BY <1>1, LiveGood DEF PanesKnown, Numbered, Owned
  <2>2. QED
    BY <1>1, <2>1 DEF Rises
<1>2. Running' = Running /\ Owned' = Owned
  BY DEF Running, Owned
<1>3. QED
  BY <1>1, <1>2 DEF Placed, At, Allocations

\* No pane is needed, or it is gone.
LEMMA CalmPlaces ==
    ASSUME Inv, Gone, Level \in Nat, NEW a \in Running \cap Owned,
           Fresh \/ (Room /\ Pane(a) \notin alive)
    PROVE  live.generations[a] < Level
<1>1. a \in DOMAIN live.generations /\ live.generations[a] \in Nat
  BY LiveGood DEF PanesKnown, Numbered, Owned
<1>2. CASE Fresh
  BY <1>1, <1>2 DEF Fresh, Below
<1>3. CASE Room /\ Pane(a) \notin alive
  <2>1. Bare(live, a)
    BY <1>3 DEF Bare, Pane, Owned
  <2>2. QED
    BY <1>1, <1>3, <2>1 DEF Room, RoomAt
<1>4. QED
  BY <1>2, <1>3

LEMMA CleaningPlaced ==
    ASSUME Inv, RoomInv, ~At("down"), Rises, done' = done, Cleaning
    PROVE  Placed'
<1>1. Framed /\ Shape(live)
  BY JobFramed, LiveBoth
<1>2. CASE CleanupIntent
  <2> DEFINE a == job.act
             event == [kind |-> "tmux_pane_cleanup_intent", act |-> a,
                       gen |-> live.panes[a]]
             f == With(live.cleaning, a, live.panes[a])
             update == [live EXCEPT !.cleaning = f]
             then == [job EXCEPT !.phase = "kill"]
  <2>1. \/ job' \in {then, Erred} /\ UNCHANGED <<dlog, service>>
        \/ AppendEvent(event, update, then)
    BY <1>2 DEF CleanupIntent
  <2>2. At("intent") /\ then.phase = "kill" /\ then.act = a
    BY <1>1, <1>2 DEF CleanupIntent, Framed
  <2>3. update.panes = live.panes /\ update.generations = live.generations
    BY <1>1, CleaningFields
  <2> HIDE DEF event, update, then
  <2>4. CASE job' = Erred
    BY <2>4, EndsElsewhere, PlacedElsewhere
  <2>5. CASE job' = then /\ live' \in {live, update}
    <3>1. a \in Running \cap Owned => live.generations[a] < Level
      BY <2>2 DEF RoomInv, Placed, At
    <3>2. live'.panes = live.panes /\ live'.generations = live.generations
      BY <2>3, <2>5
    <3>3. job'.phase = "kill" /\ job'.act = a
      BY <2>2, <2>5
    <3>4. QED
      BY <3>1, <3>2, <3>3, PlacedCleanup DEF RoomInv
  <2>6. QED
    BY <2>1, <2>4, <2>5 DEF AppendEvent, service
<1>3. CASE KillPane
  <2>1. Goto("receipt") \/ Goto("release") \/ job' = Erred
    BY <1>3 DEF KillPane, KillFailed
  <2>2. \A p \in {"receipt", "release"} : Elsewhere([job EXCEPT !.phase = p])
    BY GoesElsewhere DEF Allocations
  <2>3. QED
    BY <2>1, <2>2, EndsElsewhere, PlacedElsewhere DEF Goto
<1>4. CASE ReleasePane
  <2> DEFINE then == [job EXCEPT !.phase = "receipt"]
  <2>1. \E event, update : AppendEvent(event, update, then)
    BY <1>4 DEF ReleasePane
  <2>2. Elsewhere(then)
    BY GoesElsewhere DEF Allocations
  <2> HIDE DEF then
  <2>3. QED
    BY <2>1, <2>2, AppendElsewhere, PlacedElsewhere
<1>5. CASE CleanupReceipt
  <2> DEFINE then == IF job.back = "idle" THEN Idle
                     ELSE [job EXCEPT !.phase = job.back, !.act = "none",
                                      !.back = "idle"]
  <2>1. \E event, update : AppendEvent(event, update, then)
    BY <1>5 DEF CleanupReceipt
  <2>2. job.back \in {"cleanups", "stale", "exits", "finalize", "idle"}
    BY <1>5 DEF CleanupReceipt, At, Inv, OnceInv, Control, Cleanups
  <2>3. Elsewhere(then)
    BY <1>1, <2>2, EndsElsewhere DEF Framed, Elsewhere, Allocations
  <2> HIDE DEF then
  <2>4. QED
    BY <2>1, <2>3, AppendElsewhere, PlacedElsewhere
<1>6. CASE Finalize
  <2>1. /\ UNCHANGED service /\ job.op \in {"finalize", "shutdown"}
        /\ Running = {} \/ Fresh
    BY <1>6 DEF Finalize, resting, Inv, OnceInv, Control, RoomInv, Calm, Rested
  <2>2. ASSUME NEW a, CleanUp(a, "intent")
        PROVE  Placed'
    <3>1. job'.phase = "intent" /\ job'.act = a
      BY <1>1, <2>2, CleanUpMoves DEF Moves
    <3>2. a \in Running \cap Owned => live.generations[a] < Level
      BY <2>1, CalmPlaces DEF RoomInv, Rises
    <3>3. QED
      BY <2>1, <3>1, <3>2, PlacedCleanup DEF RoomInv, service
  <2>3. CASE job' = [Idle EXCEPT !.op = "shutdown", !.phase = "exit"]
    <3>1. job'.phase = "exit"
      BY <2>3 DEF Idle
    <3>2. QED
      BY <3>1, PlacedElsewhere DEF Elsewhere, Allocations
  <2>4. CASE job' = Idle
    BY <2>4, EndsElsewhere, PlacedElsewhere
  <2>5. QED
    BY <1>6, <2>2, <2>3, <2>4 DEF Finalize
<1>7. QED
  BY <1>2, <1>3, <1>4, <1>5, <1>6 DEF Cleaning

LEMMA StartingPlaced ==
    ASSUME Inv, RoomInv, ~At("down"), Rises, done' = done,
           LoadCleanups \/ Stale \/ LoadExits \/ Suspend
    PROVE  Placed'
<1>1. Framed
  BY JobFramed
<1>2. ASSUME NEW a, NEW p \in {"intent", "kill"}, CleanUp(a, p),
             job.op = "load", UNCHANGED service
      PROVE  Placed'
  <2>1. job'.phase = p /\ job'.act = a
    BY <1>1, <1>2, CleanUpMoves DEF Moves
  <2>2. a \in Running \cap Owned => live.generations[a] < Level
    BY <1>2, CalmPlaces DEF RoomInv, Rises, Calm, Rested
  <2>3. QED
    BY <1>2, <2>1, <2>2, PlacedCleanup DEF RoomInv, service
<1>3. CASE LoadCleanups
  <2>1. job.op = "load" /\ UNCHANGED service
    BY <1>3 DEF LoadCleanups, Inv, OnceInv, Control, At, resting
  <2>2. \/ \E a : CleanUp(a, "kill")
        \/ job' = [job EXCEPT !.phase = "stale", !.todo = Owned]
    BY <1>3 DEF LoadCleanups
  <2>3. CASE job' = [job EXCEPT !.phase = "stale", !.todo = Owned]
    <3>1. Elsewhere(job')
      BY <1>1, <2>3 DEF Framed, Elsewhere, Allocations
    <3>2. QED
      BY <3>1, PlacedElsewhere
  <2>4. QED
    BY <1>2, <2>1, <2>2, <2>3
<1>4. CASE Stale
  <2>1. UNCHANGED service
    BY <1>4 DEF Stale
  <2>2. \/ \E a, t :
              /\ a \in Owned
              /\ Pane(a) \notin alive
              /\ job' = [job EXCEPT !.phase = "intent", !.act = a,
                                    !.back = "stale", !.todo = t]
        \/ job' = [job EXCEPT !.phase = "exits", !.todo = Exits]
        \/ job' = [job EXCEPT !.phase = "allocate", !.todo = Running]
        \/ job' = Erred
    BY <1>4 DEF Stale
  <2>3. ASSUME NEW a \in Owned, NEW t, Pane(a) \notin alive,
               job' = [job EXCEPT !.phase = "intent", !.act = a,
                                  !.back = "stale", !.todo = t]
        PROVE  Placed'
    <3>1. job'.phase = "intent" /\ job'.act = a
      BY <1>1, <2>3 DEF Framed
    <3>2. a \in Running \cap Owned => live.generations[a] < Level
      BY <2>3, CalmPlaces DEF RoomInv, Rises
    <3>3. QED
      BY <2>1, <3>1, <3>2, PlacedCleanup DEF RoomInv, service
  <2>4. CASE job' = [job EXCEPT !.phase = "exits", !.todo = Exits]
    <3>1. Elsewhere(job')
      BY <1>1, <2>4 DEF Framed, Elsewhere, Allocations
    <3>2. QED
      BY <3>1, PlacedElsewhere
  <2>5. CASE job' = [job EXCEPT !.phase = "allocate", !.todo = Running]
    <3>1. job'.phase = "allocate" /\ job'.todo = Running
      BY <1>1, <2>5 DEF Framed
    <3>2. QED
      BY <3>1 DEF Placed, At, Running
  <2>6. QED
    BY <2>2, <2>3, <2>4, <2>5, EndsElsewhere, PlacedElsewhere
<1>5. CASE LoadExits
  <2>1. job.op = "load" /\ UNCHANGED service
    BY <1>5 DEF LoadExits, Inv, OnceInv, Control, At, resting
  <2>2. Goto("suspend") \/ \E a : CleanUp(a, "intent")
    BY <1>5 DEF LoadExits
  <2>3. Elsewhere([job EXCEPT !.phase = "suspend"])
    BY GoesElsewhere DEF Allocations
  <2>4. QED
    BY <1>2, <2>1, <2>2, <2>3, PlacedElsewhere DEF Goto
<1>6. CASE Suspend
  BY <1>6, EndsElsewhere, PlacedElsewhere DEF Suspend
<1>7. QED
  BY <1>3, <1>4, <1>5, <1>6

\* An allocation that fails is given up, and one that goes on has in hand what
\* it had.
LEMMA AllocatingPlaced ==
    ASSUME Inv, SyncInv, RoomInv, ~At("down"), Rises, done' = done, Allocating
    PROVE  Placed'
<1>1. Framed /\ Shape(live) /\ Running' = Running
  BY JobFramed, LiveBoth DEF Running
<1>2. ASSUME NEW event, NEW update, NEW then,
             AppendEvent(event, update, then),
             job' = then /\ live' = update => Placed'
      PROVE  Placed'
  BY <1>2, EndsElsewhere, PlacedElsewhere DEF AppendEvent
<1>3. CASE BindFirst
  <2> DEFINE then == [job EXCEPT !.todo = Running,
                                 !.phase = IF job.op = "bind" THEN "stale"
                                           ELSE "allocate"]
  <2>1. job' = then \/ \E event, update : AppendEvent(event, update, then)
    BY <1>3 DEF BindFirst
  <2>2. then.phase \in {"stale", "allocate"} /\ then.todo = Running
    BY <1>1 DEF Framed
  <2> HIDE DEF then
  <2>3. job' = then => Placed'
    BY <1>1, <2>2 DEF Placed, At, Allocations
  <2>4. QED
    BY <1>2, <2>1, <2>3
<1>4. CASE Allocate
  <2>1. job.todo \subseteq Running
    BY <1>4 DEF Allocate, RoomInv, Placed, At, Allocations
  <2>2. ASSUME NEW a, NEW then,
               then = [job EXCEPT !.phase = "create", !.act = a,
                                  !.todo = @ \ {a}],
               \/ job' = then
               \/ \E event, update : AppendEvent(event, update, then)
        PROVE  Placed'
    <3>1. then.phase = "create" /\ then.todo \subseteq Running
      BY <1>1, <2>1, <2>2 DEF Framed
    <3>2. job' = then => Placed'
      BY <1>1, <3>1 DEF Placed, At
    <3>3. QED
      BY <1>2, <2>2, <3>2
  <2>3. CASE job' = [job EXCEPT !.phase = "pick", !.act = "none",
                                !.todo = PendingActuations]
    <3>1. Elsewhere(job')
      BY <1>1, <2>3 DEF Framed, Elsewhere, Allocations
    <3>2. QED
      BY <3>1, PlacedElsewhere
  <2>4. QED
    BY <1>4, <2>2, <2>3 DEF Allocate
<1>5. CASE CreatePane
  <2>1. job.todo \subseteq Running /\ UNCHANGED service
    BY <1>5 DEF CreatePane, RoomInv, Placed, At, Allocations
  <2>2. CASE (FindPane \/ NewPane) /\ Goto("window")
    <3>1. job'.phase = "window" /\ job'.todo = job.todo /\ job'.act = job.act
      BY <1>1, <2>2, GotoMoves DEF Goto, Moves
    <3>2. Intended \in alive'
      BY <2>2 DEF FindPane, NewPane
    <3>3. Intended' = Intended
      BY <2>1, <3>1 DEF Intended, Intent, service
    <3>4. QED
      BY <1>1, <2>1, <3>1, <3>2, <3>3 DEF Placed, At
  <2>3. CASE job' = Erred
    BY <2>3, EndsElsewhere, PlacedElsewhere
  <2>4. QED
    BY <1>5, <2>2, <2>3 DEF CreatePane
<1>6. CASE BindWindow
  <2> DEFINE then == [job EXCEPT !.phase = "publish"]
             update == [live EXCEPT !.tmux = Intent.command]
  <2>1. /\ job.todo \subseteq Running /\ alive' = alive
        /\ Intended \in alive \/ Intent.gen < Level
        /\ job.act \in DOMAIN live.allocating
    BY <1>6 DEF BindWindow, RoomInv, Placed, At, Allocations, Inv, OnceInv,
                Allots
  <2>2. \/ job' = then /\ live' = live
        \/ \E event : AppendEvent(event, update, then)
    BY <1>6 DEF BindWindow, Goto, service
  <2>3. then.phase = "publish" /\ then.todo = job.todo /\ then.act = job.act
    BY <1>1 DEF Framed
  <2>4. update.allocating = live.allocating
    BY <1>1, RenamedFields
  <2> HIDE DEF then, update
  <2>5. ASSUME job' = then, live' \in {live, update}
        PROVE  Placed'
    <3>1. Intent' = Intent /\ Intended' = Intended
      BY <2>3, <2>4, <2>5 DEF Intended, Intent
    <3>2. Intent.gen \in Nat
      BY <2>1, LiveGood DEF RoomInv, Numbered, Intent
    <3>3. Intended' \in alive' \/ Intent.gen' < Level'
      BY <2>1, <3>1, <3>2 DEF Rises
    <3>4. QED
      BY <1>1, <2>1, <2>3, <2>5, <3>3 DEF Placed, At
  <2>6. QED
    BY <1>2, <2>2, <2>5
<1>7. CASE PublishPane
  <2> DEFINE then == [job EXCEPT !.phase = "allocate", !.act = "none"]
  <2>1. /\ job.todo \subseteq Running
        /\ \E event, update : AppendEvent(event, update, then)
    BY <1>7 DEF PublishPane, RoomInv, Placed, At, Allocations
  <2>2. then.phase = "allocate" /\ then.todo = job.todo
    BY <1>1 DEF Framed
  <2> HIDE DEF then
  <2>3. job' = then => Placed'
    BY <1>1, <2>1, <2>2 DEF Placed, At
  <2>4. QED
    BY <1>2, <2>1, <2>3
<1>8. QED
  BY <1>3, <1>4, <1>5, <1>6, <1>7 DEF Allocating

LEMMA WorkingPlaced ==
    ASSUME Inv, SyncInv, RoomInv, ~At("down"), Rises, done' = done, Working
    PROVE  Placed'
BY CleaningPlaced, StartingPlaced, AllocatingPlaced, ActuatingElsewhere,
   DeliveringElsewhere, PlacedElsewhere DEF Working

-----------------------------------------------------------------------------
(* Every step leaves room.                                                 *)

LEMMA WorkingUp ==
    ASSUME Working
    PROVE  ~At("down")
<1>1. ~At("down") \/ ~Cleaning
  BY DEF Cleaning, CleanupIntent, KillPane, ReleasePane, CleanupReceipt,
         Finalize, At
<1>2. ~At("down") \/ ~(LoadCleanups \/ Stale \/ LoadExits \/ Suspend)
  BY DEF LoadCleanups, Stale, LoadExits, Suspend, At
<1>3. ~At("down") \/ ~Allocating
  BY DEF Allocating, BindFirst, Allocate, CreatePane, BindWindow, PublishPane,
         At
<1>4. ~At("down") \/ ~(Pick \/ Prepare \/ Launch \/ Prompt)
  BY DEF Pick, Prepare, Launch, Prompt, At
<1>5. ~At("down") \/ ~Delivering
  BY DEF Delivering, StartDelivery, TypeInput, RecordInput, PublishInput,
         FinishDelivery, At
<1>6. QED
  BY <1>1, <1>2, <1>3, <1>4, <1>5 DEF Working

LEMMA WorkingSteps ==
    ASSUME Inv, SyncInv, Working
    PROVE  Stepwise
BY CleaningSteps, StartingSteps, AllocatingSteps, ActuatingSteps,
   DeliveringSteps DEF Working, Actuating

LEMMA WorkingNext ==
    ASSUME Working
    PROVE  Next
BY DEF Working, Next, Starting, Actuating

LEMMA WorkingAlive ==
    ASSUME Working
    PROVE  alive' = alive \/ KillPane \/ CreatePane
<1>1. CASE Cleaning
  BY <1>1 DEF Cleaning, CleanupIntent, ReleasePane, CleanupReceipt, Finalize,
              resting
<1>2. CASE LoadCleanups \/ Stale \/ LoadExits \/ Suspend
  BY <1>2 DEF LoadCleanups, Stale, LoadExits, Suspend, resting
<1>3. CASE Allocating
  BY <1>3 DEF Allocating, BindFirst, Allocate, BindWindow, PublishPane
<1>4. CASE Pick \/ Prepare \/ Launch \/ Prompt
  BY <1>4 DEF Pick, Prepare, Launch, Prompt, resting
<1>5. CASE Delivering
  BY <1>5 DEF Delivering, StartDelivery, TypeInput, RecordInput, PublishInput,
              FinishDelivery
<1>6. QED
  BY <1>1, <1>2, <1>3, <1>4, <1>5 DEF Working

LEMMA KillRoom ==
    ASSUME Inv, RoomInv, Inv', Gone', Rises, done' = done, KillPane,
           alive' # alive
    PROVE  Room'
<1>1. /\ At("kill") /\ job.act \in Owned
      /\ alive' = alive \ {Pane(job.act)} /\ live' = live
  BY DEF KillPane, KillFailed, Killed, service
<1>2. \A a \in Running \cap DOMAIN live.generations :
         Bare(live, a)' => live.generations[a] < Level
  <2>1. SUFFICES ASSUME NEW a \in Running \cap DOMAIN live.generations,
                        Bare(live, a)'
                 PROVE  live.generations[a] < Level
    OBVIOUS
  <2>2. CASE Bare(live, a)
    BY <2>2 DEF RoomInv, Room, RoomAt
  <2>3. CASE ~Bare(live, a)
    <3>1. a \in Owned /\ <<a, live.panes[a]>> = Pane(job.act)
      BY <1>1, <2>1, <2>3 DEF Bare, Owned
    <3>2. a = job.act
      BY <3>1 DEF Pane
    <3>3. QED
      BY <1>1, <3>1, <3>2 DEF RoomInv, Placed, At
  <2>4. QED
    BY <2>2, <2>3
<1>3. \A a \in Running' \cap DOMAIN live'.generations :
         Bare(live, a)' => live'.generations[a] < Level
  BY <1>1, <1>2 DEF Running
<1>4. Tops(live', Level)
  BY <1>1 DEF RoomInv, Room, RoomAt
<1>5. Shape(live') /\ Numbered(live')
  BY LiveGoodNext
<1>6. Tops(live', Level')
  BY <1>4, <1>5, TopsGrow DEF Rises
<1>7. \A a \in DOMAIN live'.generations :
         live'.generations[a] < Level => live'.generations[a] < Level'
  BY <1>5 DEF Numbered, Rises
<1>8. QED
  BY <1>3, <1>6, <1>7 DEF Room, RoomAt, Tops

LEMMA CreateRoom ==
    ASSUME Inv, RoomInv, Inv', Gone', Rises, done' = done, CreatePane
    PROVE  Room'
<1>1. alive \subseteq alive' /\ live' = live
  BY DEF CreatePane, FindPane, NewPane, service
<1>2. RoomAt(live, Level')
  BY LiveGood, RoomGrows DEF RoomInv, Room, Rises
<1>3. \A a : Bare(live, a)' => Bare(live, a)
  BY <1>1 DEF Bare
<1>4. Tops(live, Level')
  BY <1>2 DEF RoomAt
<1>5. QED
  BY <1>1, <1>2, <1>3, <1>4 DEF Room, RoomAt, Tops, Running

LEMMA WorkingRoom ==
    ASSUME Inv, SyncInv, RoomInv, Working
    PROVE  RoomInv'
<1>1. /\ Afforded' /\ binds' = binds /\ done' = done
      /\ Level \in Nat /\ Level' \in Nat /\ Level <= Level'
      /\ Spent <= Spent'
      /\ job.op = "bind" /\ At("bind") => Level + 1 <= Level'
  BY WorkingLevel DEF RoomInv
<1>2. Rises
  <2>1. Spent \in Nat /\ Spent' \in Nat
    <3>1. (Afforded => Spent \in Nat)'
      BY SpentTyped, PTL
    <3>2. QED
      BY <1>1, <3>1, SpentTyped DEF RoomInv
  <2>2. QED
    BY <1>1, <2>1 DEF Rises
<1>3. Inv' /\ ~At("down")
  BY WorkingNext, NextInv, WorkingUp
<1>4. /\ job'.op \in {job.op, "none"} /\ ~At("down")' /\ Gone'
  BY WorkingHolds DEF Holds, At, Gone
<1>5. Stepwise
  BY WorkingSteps
<1>6. Running' = Running
  BY <1>1 DEF Running
<1>7. Calm'
  BY <1>2, <1>3, <1>4, <1>5, <1>6, CalmStep
<1>8. Placed'
  BY <1>1, <1>2, <1>3, WorkingPlaced
<1>9. (binds = 0 => job.op # "bind")'
  BY <1>1, <1>4 DEF RoomInv
<1>10. Room'
  <2>1. CASE KillPane /\ alive' # alive
    BY <1>1, <1>2, <1>3, <1>4, <2>1, KillRoom
  <2>2. CASE CreatePane
    BY <1>1, <1>2, <1>3, <1>4, <2>2, CreateRoom
  <2>3. CASE job.op = "bind" /\ At("bind")
    <3>1. Tops(live, Level)
      BY DEF RoomInv, Room, RoomAt
    <3>2. Tops(live', Level)
      BY <1>3, <1>5, <2>3, <3>1, CalmWritten DEF At
    <3>3. Level < Level' /\ Level \in Int /\ Level' \in Int
      BY <1>1, <2>3
    <3>4. Shape(live') /\ Numbered(live')
      BY <1>3, <1>4, LiveGoodNext
    <3>5. Below(live', Level')
      BY <3>2, <3>3, <3>4, BelowGrows
    <3>6. QED
      BY <1>1, <1>3, <1>4, <3>5, FreshMakesRoomNext
  <2>4. CASE alive' = alive /\ ~(job.op = "bind" /\ At("bind"))
    BY <1>2, <1>3, <1>4, <1>5, <1>6, <2>4, RoomWritten
  <2>5. QED
    BY <2>1, <2>2, <2>3, <2>4, WorkingAlive
<1>11. QED
  BY <1>1, <1>4, <1>7, <1>8, <1>9, <1>10 DEF RoomInv

\* Every value keeps to what was spent.
RangedInv ==
    /\ Ranged(live, Spent, Len(dlog)) /\ Ranged(Logged, Spent, Len(dlog))
    /\ Pairs(alive, Spent) /\ Pairs(exited, Spent) /\ Pairs(secrets, Spent)

LEMMA RangedTops ==
    ASSUME NEW s, NEW n \in Nat, NEW m, Ranged(s, n, m)
    PROVE  Tops(s, n)
<1>1. \A a \in DOMAIN s.generations : s.generations[a] \in 0..n
  BY DEF Ranged, Fits
<1>2. \A a \in DOMAIN s.allocating : s.allocating[a].gen \in 0..n
  BY DEF Ranged, Wants
<1>3. QED
  BY <1>1, <1>2 DEF Tops

\* A request, or what an agent asks for, ends at once or begins an operation.
Begun == /\ job'.op \notin {"bind", "load", "shutdown"}
         /\ job'.phase # "down" /\ Placed'
         /\ job'.op = "finalize" => Running' = {}
         /\ job'.todo \subseteq Activations

LEMMA BegunElsewhere ==
    ASSUME Elsewhere(job'), job'.op \notin {"bind", "load", "shutdown"},
           job'.phase # "down", job'.op # "finalize",
           job'.todo \subseteq Activations
    PROVE  Begun
BY PlacedElsewhere DEF Begun

LEMMA IdleBegun ==
    ASSUME job' = Idle
    PROVE  Begun
BY BegunElsewhere DEF Idle, Elsewhere, Allocations

LEMMA ErredBegun ==
    ASSUME Inv, job' = Erred, job.op \in {"none", "resolve"}
    PROVE  Begun
<1>1. Erred = Idle
  BY DEF Erred, ErrorPhase
<1>2. QED
  BY <1>1, IdleBegun

LEMMA ReconcileBegun ==
    ASSUME NEW running, Reconcile(running), live' = live
    PROVE  Begun
<1>1. CASE job' = Idle
  BY <1>1, IdleBegun
<1>2. ASSUME NEW c \in BindingsFor(running),
             job' = [Idle EXCEPT !.op = "request", !.phase = "bind",
                                 !.command = c]
      PROVE  Begun
  <2>1. /\ job'.op = "request" /\ job'.phase = "bind" /\ job'.command = c
        /\ job'.todo = {}
    BY <1>2 DEF Idle
  <2>2. live'.tmux \in {"none", c}
    BY <1>2 DEF BindingsFor
  <2>3. Placed'
    BY <2>1, <2>2 DEF Placed, At, Allocations
  <2>4. QED
    BY <2>1, <2>3 DEF Begun
<1>3. QED
  BY <1>1, <1>2 DEF Reconcile

LEMMA ResolveBegun ==
    ASSUME Inv, NEW k, NEW o, Resolve(k, o)
    PROVE  Begun
<1> DEFINE then == [Idle EXCEPT !.op = "resolve", !.phase = "resume"]
<1>1. \E event, update : AppendEvent(event, update, then)
  BY DEF Resolve
<1>2. then.op = "resolve" /\ then.phase = "resume" /\ then.todo = {}
  BY DEF Idle
<1>3. job.op = "none"
  BY DEF Resolve, At, Inv, OnceInv, Control, Idle
<1> HIDE DEF then
<1>4. job' = then => Begun
  BY <1>2, BegunElsewhere DEF Elsewhere, Allocations
<1>5. QED
  BY <1>1, <1>3, <1>4, ErredBegun DEF AppendEvent

LEMMA RequestsBegun ==
    ASSUME Inv, Requests, ~BindRun
    PROVE  Begun
<1>1. CASE Request \/ ResumeRun
  <2>1. live' = live /\ (job' = Idle \/ \E running : Reconcile(running))
    BY <1>1 DEF Request, ResumeRun, service
  <2>2. QED
    BY <2>1, IdleBegun, ReconcileBegun
<1>2. CASE Pause
  <2>1. job' = Idle
    BY <1>2 DEF Pause, Inv, OnceInv, Control
  <2>2. QED
    BY <2>1, IdleBegun
<1>3. CASE Resume
  <2>1. job' = [Idle EXCEPT !.op = "resolve", !.phase = "resume"]
    BY <1>3 DEF Resume
  <2>2. job'.op = "resolve" /\ job'.phase = "resume" /\ job'.todo = {}
    BY <2>1 DEF Idle
  <2>3. QED
    BY <2>2, BegunElsewhere DEF Elsewhere, Allocations
<1>4. CASE EndRun
  <2>1. /\ job' = [Idle EXCEPT !.op = "finalize", !.phase = "finalize",
                               !.todo = Owned]
        /\ Running' = {} /\ ~At("down")
    BY <1>4 DEF EndRun, Running, At
  <2>2. /\ job'.op = "finalize" /\ job'.phase = "finalize"
        /\ job'.todo \subseteq Activations
    BY <2>1, OwnedTyped DEF Idle
  <2>3. Placed'
    BY <2>2, PlacedElsewhere DEF Elsewhere, Allocations
  <2>4. QED
    BY <2>1, <2>2, <2>3 DEF Begun
<1>5. CASE \E k, o : Resolve(k, o)
  BY <1>5, ResolveBegun
<1>6. CASE \E a, m : SendMessage(a, m)
  <2>1. PICK a, m : job' = [Idle EXCEPT !.op = "message", !.phase = "start",
                                        !.act = a, !.role = m]
    BY <1>6 DEF SendMessage
  <2>2. job'.op = "message" /\ job'.phase = "start" /\ job'.todo = {}
    BY <2>1 DEF Idle
  <2>3. QED
    BY <2>2, BegunElsewhere DEF Elsewhere, Allocations
<1>7. QED
  BY <1>1, <1>2, <1>3, <1>4, <1>5, <1>6 DEF Requests

LEMMA AgentsBegun ==
    ASSUME Inv, Agents
    PROVE  Begun
<1>1. ASSUME NEW a \in Activations, BindParticipant(a)
      PROVE  Begun
  <2> DEFINE then == IF run = "running"
                     THEN [Idle EXCEPT !.op = "session", !.phase = "pick",
                                       !.todo = {a}]
                     ELSE Idle
  <2>1. job' = then \/ \E event, update : AppendEvent(event, update, then)
    BY <1>1 DEF BindParticipant
  <2>2. \/ then = Idle
        \/ then.op = "session" /\ then.phase = "pick" /\ then.todo = {a}
    BY DEF Idle
  <2>3. job.op = "none"
    BY <1>1 DEF BindParticipant, At, Inv, OnceInv, Control, Idle
  <2> HIDE DEF then
  <2>4. job' = then => Begun
    BY <2>2, IdleBegun, BegunElsewhere DEF Elsewhere, Allocations
  <2>5. QED
    BY <2>1, <2>3, <2>4, ErredBegun DEF AppendEvent
<1>2. ASSUME NEW a \in Activations, ParticipantStop(a) \/ ParticipantExited(a)
      PROVE  Begun
  <2>1. job' = Idle
    BY <1>2 DEF ParticipantStop, ParticipantExited, Inv, OnceInv, Control
  <2>2. QED
    BY <2>1, IdleBegun
<1>3. ASSUME NEW a \in Activations, FinalizeExited(a)
      PROVE  Begun
  <2>1. /\ job' = [Idle EXCEPT !.op = "exited", !.phase = "intent",
                               !.act = a]
        /\ a \in done'
    BY <1>3 DEF FinalizeExited, Exits, resting, runtime
  <2>2. /\ job'.op = "exited" /\ job'.phase = "intent" /\ job'.act = a
        /\ job'.todo = {}
    BY <2>1 DEF Idle
  <2>3. Placed'
    BY <2>1, <2>2 DEF Placed, At, Allocations, Running
  <2>4. QED
    BY <2>2, <2>3 DEF Begun
<1>4. QED
  BY <1>1, <1>2, <1>3 DEF Agents

\* What requests leave alone, and what they spend.
LEMMA RequestsSpend ==
    ASSUME Inv, Requests \/ Agents
    PROVE  /\ ~At("down") /\ ~At("bind") /\ job.op \in {"none", "resolve"}
           /\ alive' = alive /\ Running' \subseteq Running
           /\ ~BindRun => Spends
<1>1. CASE Requests
  <2>1. At("idle") \/ At("resume")
    BY <1>1 DEF Requests, BindRun, Request, Pause, Resume, ResumeRun, EndRun,
                Resolve, SendMessage
  <2>2. ~At("down") /\ ~At("bind") /\ job.op \in {"none", "resolve"}
    BY <2>1 DEF At, Inv, OnceInv, Control, Idle
  <2>3. alive' = alive
    BY <1>1 DEF Requests, BindRun, Request, Pause, Resume, ResumeRun, EndRun,
                Resolve, SendMessage, resting
  <2>4. done \subseteq done' \/ done' = Activations
    BY <1>1 DEF Requests, BindRun, Request, Pause, Resume, ResumeRun, EndRun,
                Resolve, SendMessage, resting, runtime
  <2>5. ~BindRun => Spends
    BY <1>1, AppendSpends DEF Requests, Request, Pause, Resume, ResumeRun,
       EndRun, Resolve, SendMessage, resting, Spends
  <2>6. QED
    BY <2>2, <2>3, <2>4, <2>5 DEF Running
<1>2. CASE Agents
  <2>1. At("idle") /\ alive' = alive /\ done \subseteq done'
    BY <1>2 DEF Agents, BindParticipant, ParticipantStop, ParticipantExited,
                FinalizeExited, resting, runtime
  <2>2. ~At("down") /\ ~At("bind") /\ job.op \in {"none", "resolve"}
    BY <2>1 DEF At, Inv, OnceInv, Control, Idle
  <2>3. Spends
    BY <1>2, AppendSpends DEF Agents, BindParticipant, ParticipantStop,
       ParticipantExited, FinalizeExited, resting, Spends
  <2>4. QED
    BY <2>1, <2>2, <2>3 DEF Running
<1>3. QED
  BY <1>1, <1>2

LEMMA LevelTyped ==
    ASSUME Afforded, binds = 0 => job.op # "bind"
    PROVE  /\ Level \in Nat /\ Spent \in Nat /\ Level <= Spent
           /\ job.op # "bind" => Level = Spent
<1>1. Spent \in Nat /\ (job.op = "bind" => Spent >= 2)
  BY SpentTyped DEF Afforded
<1>2. QED
  BY <1>1 DEF Level, Slack

LEMMA LevelTypedNext ==
    ASSUME Afforded', binds' = 0 => job'.op # "bind"
    PROVE  /\ Level' \in Nat /\ Spent' \in Nat /\ Level' <= Spent'
           /\ job'.op # "bind" => Level' = Spent'
<1>1. (binds = 0 => job.op # "bind")'
  OBVIOUS
<1>2. (/\ Level \in Nat /\ Spent \in Nat /\ Level <= Spent
       /\ job.op # "bind" => Level = Spent)'
  BY <1>1, LevelTyped, PTL
<1>3. QED
  BY <1>2

LEMMA BindRunRoom ==
    ASSUME Inv, RoomInv, Inv', BindRun
    PROVE  RoomInv'
<1>1. PICK c : job' = [Idle EXCEPT !.op = "bind", !.phase = "bind",
                                   !.command = c]
  BY DEF BindRun
<1>2. job'.op = "bind" /\ job'.phase = "bind" /\ job.op = "none"
  BY <1>1 DEF BindRun, At, Inv, OnceInv, Control, Idle
<1>3. /\ live' = live /\ alive' = alive /\ done' = done
      /\ binds' = binds + 1 /\ binds < MaxBinds
      /\ UNCHANGED <<faults, stops, kills>>
  BY DEF BindRun, service, runtime
<1>4. Afforded' /\ binds' # 0
  BY <1>3, BoundsTyped DEF RoomInv, Afforded
<1>5. Level' = Level
  <2>1. Spent \in Nat /\ Spent' = Spent + 2
    BY <1>3, BoundsTyped DEF RoomInv, Afforded, Spent
  <2>2. Slack = 0 /\ Slack' = 2
    BY <1>2 DEF Slack, At
  <2>3. \A x \in Nat : (x + 2) - 2 = x - 0
    OBVIOUS
  <2>4. Level = Spent - 0
    BY <2>2 DEF Level
  <2>5. Level' = Spent' - 2
    BY <2>2 DEF Level
  <2>6. Level' = (Spent + 2) - 2
    BY <2>1, <2>5
  <2>7. QED
    BY <2>1, <2>3, <2>4, <2>6
<1>6. Room'
  BY <1>3, <1>5 DEF RoomInv, Room, RoomAt, Tops, Bare, Running
<1>7. Gone' /\ Calm' /\ Placed'
  BY <1>2 DEF Gone, Calm, Rested, Placed, At, Allocations
<1>8. QED
  BY <1>4, <1>6, <1>7 DEF RoomInv

LEMMA RequestsRoom ==
    ASSUME Inv, SyncInv, RoomInv, Inv', Requests \/ Agents, ~BindRun
    PROVE  RoomInv'
<1>1. /\ ~At("down") /\ ~At("bind") /\ job.op \in {"none", "resolve"}
      /\ alive' = alive /\ Running' \subseteq Running /\ Spends
  BY RequestsSpend
<1>2. Begun
  BY RequestsBegun, AgentsBegun
<1>3. Afforded' /\ Spent' \in {Spent, Spent + 1}
  BY <1>1, SpendsAffords DEF RoomInv
<1>4. Rises
  <2>1. job'.op # "bind" /\ job.op # "bind"
    BY <1>1, <1>2 DEF Begun
  <2>2. /\ Level \in Nat /\ Spent \in Nat /\ Level = Spent
        /\ Level' \in Nat /\ Spent' \in Nat /\ Level' = Spent'
    BY <1>3, <2>1, LevelTyped, LevelTypedNext DEF RoomInv
  <2>3. QED
    BY <1>3, <2>2 DEF Rises
<1>5. Gone' /\ Calm' /\ Placed'
  BY <1>2 DEF Begun, Gone, Calm, Rested, At
<1>6. Stepwise
  BY RequestsSteps, AgentsSteps
<1>7. Room'
  BY <1>1, <1>4, <1>5, <1>6, RoomWritten
<1>8. QED
  BY <1>2, <1>3, <1>5, <1>7 DEF RoomInv, Begun

LEMMA PauseRoom ==
    ASSUME Inv, RoomInv, Inv', PauseRun
    PROVE  RoomInv'
<1>1. /\ live' = live /\ alive' = alive /\ done' = done /\ Spends
      /\ job.phase = "pause"
  BY DEF PauseRun, service, Spends, At
<1>2. \/ job' = Idle
      \/ job.op = "bind" /\ job' = BindCleanup
  BY DEF PauseRun
<1>3. \/ job'.op = "none" /\ job'.phase = "idle"
      \/ job.op = "bind" /\ job'.op = "finalize" /\ job'.phase = "finalize"
  <2>1. CASE job' = Idle
    BY <2>1 DEF Idle
  <2>2. CASE job.op = "bind" /\ job' = BindCleanup
    BY <2>2 DEF BindCleanup, Idle
  <2>3. QED
    BY <1>2, <2>1, <2>2
<1>4. Afforded' /\ binds' = binds /\ Spent' \in {Spent, Spent + 1}
  BY <1>1, SpendsAffords DEF RoomInv
<1>5. (binds = 0 => job.op # "bind")'
  BY <1>3
<1>6. /\ Level \in Nat /\ Spent \in Nat
      /\ Level' = Spent' /\ Level' \in Nat /\ Level <= Spent
  BY <1>3, <1>4, <1>5, LevelTyped, LevelTypedNext DEF RoomInv
<1>7. Level <= Level' /\ (job.op = "bind" => Level < Level')
  <2>1. job.op = "bind" => Level < Spent
    BY <1>1, <1>6 DEF Level, Slack, At
  <2>2. QED
    BY <1>4, <1>6, <2>1
<1>8. Gone' /\ Placed'
  BY <1>3, PlacedElsewhere DEF Gone, At, Elsewhere, Allocations
<1>9. Shape(live') /\ Numbered(live')
  BY <1>8, LiveGoodNext
<1>10. job.op = "bind" => Fresh' /\ Room'
  <2>1. Tops(live', Level)
    BY <1>1 DEF RoomInv, Room, RoomAt
  <2>2. QED
    BY <1>6, <1>7, <1>8, <1>9, <2>1, BelowGrows, FreshMakesRoomNext
<1>11. Room'
  <2>1. RoomAt(live, Level')
    BY <1>1, <1>6, <1>7, <1>9, RoomGrows DEF RoomInv, Room
  <2>2. QED
    BY <1>1, <2>1 DEF Room, RoomAt, Tops, Bare, Running
<1>12. Calm'
  BY <1>3, <1>10 DEF Calm, Rested, At
<1>13. QED
  BY <1>4, <1>5, <1>8, <1>11, <1>12 DEF RoomInv

LEMMA LoadRoom ==
    ASSUME Inv, RoomInv, Inv', Load
    PROVE  RoomInv'
<1>1. /\ live' = Logged /\ Logged' = Logged /\ UNCHANGED budget
      /\ At("down")
  BY DEF Load, files, Logged
<1>2. job'.op = "load" /\ job'.phase = "cleanups"
  BY DEF Load, Idle
<1>3. Afforded' /\ Spent' = Spent
  BY <1>1, SpendsAffords DEF RoomInv, Spends
<1>4. Gone' /\ Placed' /\ (binds = 0 => job.op # "bind")'
  BY <1>2, PlacedElsewhere DEF Gone, At, Elsewhere, Allocations
<1>5. Level' = Spent' /\ Level' \in Nat
  BY <1>2, <1>3, <1>4, LevelTypedNext
<1>6. Below(Logged, Spent)
  BY <1>1 DEF RoomInv, Calm, Rested
<1>7. Below(live', Level') /\ Below(Logged, Spent)'
  BY <1>1, <1>3, <1>5, <1>6 DEF Below
<1>8. Fresh' /\ Room'
  BY <1>4, <1>5, <1>7, FreshMakesRoomNext
<1>9. QED
  BY <1>2, <1>3, <1>4, <1>7, <1>8 DEF RoomInv, Calm

LEMMA LeaveRoom ==
    ASSUME Inv, RoomInv, RangedInv, Exit \/ Crash
    PROVE  RoomInv'
<1>1. /\ live' = Blank /\ count' = 0 /\ Logged' = Logged /\ job' = Down
  BY DEF Exit, Crash, Leave, files, Logged
<1>2. job'.op = "none" /\ job'.phase = "down"
  BY <1>1 DEF Down, Idle
<1>3. Spent \in Nat /\ Afforded' /\ Below(Logged, Spent')
  <2>0. Spent \in Nat
    BY SpentTyped DEF RoomInv
  <2>1. CASE Exit
    <3>1. UNCHANGED budget /\ job.op \in {"load", "shutdown"}
      BY <2>1 DEF Exit, Inv, OnceInv, Control
    <3>2. Afforded' /\ Spent' = Spent
      BY <3>1, SpendsAffords DEF RoomInv, Spends
    <3>3. QED
      BY <2>0, <3>1, <3>2 DEF RoomInv, Calm, Rested
  <2>2. CASE Crash
    <3>1. /\ stops < MaxStops /\ stops' = stops + 1
          /\ UNCHANGED <<binds, faults, kills>>
      BY <2>2 DEF Crash
    <3>2. Afforded' /\ Spent' = Spent + 1
      BY <3>1, BoundsTyped DEF RoomInv, Afforded, Spent
    <3>3. Tops(Logged, Spent)
      BY <2>0, RangedTops DEF RangedInv
    <3>4. Shape(Logged) /\ Numbered(Logged)
      BY LiveGood DEF RoomInv
    <3>5. \A x \in Nat : x \in Int /\ x + 1 \in Int /\ x < x + 1
      OBVIOUS
    <3>6. Below(Logged, Spent + 1)
      BY <2>0, <3>3, <3>4, <3>5, BelowGrows
    <3>7. QED
      BY <2>0, <3>2, <3>6
  <2>3. QED
    BY <2>1, <2>2
<1>4. Gone' /\ Placed' /\ (binds = 0 => job.op # "bind")'
  BY <1>1, <1>2, PlacedElsewhere DEF Gone, At, Elsewhere, Allocations
<1>5. Room' /\ Fresh'
  <2>1. DOMAIN live'.generations = {} /\ DOMAIN live'.allocating = {}
    BY <1>1 DEF Blank, Nothing
  <2>2. QED
    BY <2>1 DEF Room, RoomAt, Tops, Fresh, Below
<1>6. Calm'
  BY <1>1, <1>2, <1>3, <1>5 DEF Calm, Below
<1>7. QED
  BY <1>3, <1>4, <1>5, <1>6 DEF RoomInv

LEMMA ShutdownRoom ==
    ASSUME Inv, RoomInv, RangedInv, Inv', Shutdown
    PROVE  RoomInv'
<1>1. /\ live' = live /\ Logged' = Logged /\ job.op = "none"
  BY DEF Shutdown, service, files, Logged, At, Inv, OnceInv, Control, Idle
<1>2. job'.op = "shutdown" /\ job'.phase \in {"finalize", "exit"}
  <2>1. CASE job' = [Idle EXCEPT !.op = "shutdown", !.phase = "finalize",
                                 !.todo = Owned]
    BY <2>1 DEF Idle
  <2>2. CASE job' = [Idle EXCEPT !.op = "shutdown", !.phase = "exit"]
    BY <2>2 DEF Idle
  <2>3. QED
    BY <2>1, <2>2 DEF Shutdown
<1>3. /\ stops < MaxStops /\ stops' = stops + 1
      /\ UNCHANGED <<binds, kills>>
      /\ \/ faults' = faults
         \/ faults < MaxFaults /\ faults' = faults + 1
  BY DEF Shutdown
<1>4. Afforded' /\ Spent \in Nat /\ Spent' \in Nat /\ Spent < Spent'
  BY <1>3, BoundsTyped DEF RoomInv, Afforded, Spent
<1>5. Gone' /\ Placed' /\ (binds = 0 => job.op # "bind")'
  BY <1>2, PlacedElsewhere DEF Gone, At, Elsewhere, Allocations
<1>6. Level' = Spent' /\ Level' \in Nat
  BY <1>2, <1>4, <1>5, LevelTypedNext
<1>7. /\ Shape(live) /\ Numbered(live) /\ Shape(Logged) /\ Numbered(Logged)
      /\ Tops(live, Spent) /\ Tops(Logged, Spent)
  BY <1>4, LiveGood, RangedTops DEF RoomInv, RangedInv
<1>8. Below(live, Spent') /\ Below(Logged, Spent')
  BY <1>4, <1>7, BelowGrows
<1>9. Below(live', Level') /\ Below(Logged, Spent)'
  BY <1>1, <1>6, <1>8 DEF Below
<1>10. Fresh' /\ Room'
  BY <1>5, <1>6, <1>9, FreshMakesRoomNext
<1>11. QED
  BY <1>2, <1>4, <1>5, <1>9, <1>10 DEF RoomInv, Calm

LEMMA PaneKilledRoom ==
    ASSUME Inv, RoomInv, RangedInv, Inv', PaneKilled
    PROVE  RoomInv'
<1>1. /\ live' = live /\ count' = count /\ Logged' = Logged /\ job' = job
      /\ done' = done
      /\ kills < MaxKills /\ kills' = kills + 1
      /\ UNCHANGED <<binds, faults, stops>>
  BY DEF PaneKilled, service, files, Logged, runtime
<1>2. Afforded' /\ Spent \in Nat /\ Spent' = Spent + 1 /\ binds' = binds
  BY <1>1, BoundsTyped DEF RoomInv, Afforded, Spent
<1>3. Gone' /\ (binds = 0 => job.op # "bind")'
  BY <1>1 DEF RoomInv, Gone, At
<1>4. /\ Level \in Nat /\ Level' \in Nat /\ Level < Level'
      /\ Spent' \in Nat /\ Spent < Spent'
  <2>1. Level \in Nat /\ Level' \in Nat /\ Spent' \in Nat
    BY <1>2, <1>3, LevelTyped, LevelTypedNext DEF RoomInv
  <2>2. Slack' = Slack /\ Slack \in Nat
    BY <1>1 DEF Slack, At
  <2>3. QED
    BY <1>2, <2>1, <2>2 DEF Level
<1>5. /\ Shape(live) /\ Numbered(live) /\ Shape(Logged) /\ Numbered(Logged)
  BY LiveGood DEF RoomInv
<1>6. Below(live', Level')
  BY <1>1, <1>4, <1>5, BelowGrows DEF RoomInv, Room, RoomAt
<1>7. Fresh' /\ Room'
  BY <1>3, <1>4, <1>6, FreshMakesRoomNext
<1>8. Calm'
  <2>1. Below(Logged, Spent) => Below(Logged, Spent')
    BY <1>2, <1>4, <1>5, BelowGrows
  <2>2. Rested' => Below(Logged, Spent)'
    BY <1>1, <2>1 DEF RoomInv, Calm, Rested, At, Below
  <2>3. QED
    BY <1>7, <2>2 DEF Calm
<1>9. Placed'
  <2>1. ASSUME job.phase \in {"intent", "kill"}, job.act \in Running \cap Owned
        PROVE  live.generations[job.act] < Level'
    <3>1. job.act \in DOMAIN live.generations
      BY <2>1, LiveGood DEF RoomInv, PanesKnown, Owned
    <3>2. QED
      BY <1>1, <1>6, <3>1 DEF Below
  <2>2. ASSUME job.phase \in {"window", "publish"}
        PROVE  Intent.gen < Level'
    <3>1. job.act \in DOMAIN live.allocating
      BY <2>2 DEF Inv, OnceInv, Allots
    <3>2. QED
      BY <1>1, <1>6, <3>1 DEF Below, Intent
  <2>3. /\ Running' = Running /\ Owned' = Owned /\ Intent' = Intent
    BY <1>1 DEF Running, Owned, Intent
  <2>4. QED
    BY <1>1, <2>1, <2>2, <2>3 DEF RoomInv, Placed, At
<1>10. QED
  BY <1>2, <1>3, <1>7, <1>8, <1>9 DEF RoomInv

LEMMA RoomStep ==
    ASSUME Inv, SyncInv, RoomInv, RangedInv, Next
    PROVE  RoomInv'
<1>1. Inv'
  BY NextInv
<1>2. QED
  BY <1>1, NextWorking, WorkingRoom, BindRunRoom, RequestsRoom, PauseRoom,
     LoadRoom, LeaveRoom, ShutdownRoom, PaneKilledRoom

-----------------------------------------------------------------------------
(* Every value keeps to what was spent.                                    *)

LEMMA SpentRises ==
    ASSUME Inv, SyncInv, RoomInv, RangedInv, Next
    PROVE  Spent \in Nat /\ Spent' \in Nat /\ Spent <= Spent'
<1>1. Spent \in Nat
  BY SpentTyped DEF RoomInv
<1>2. Spent' \in Nat
  <2>1. Afforded'
    BY RoomStep DEF RoomInv
  <2>2. (Afforded => Spent \in Nat)'
    BY SpentTyped, PTL
  <2>3. QED
    BY <2>1, <2>2
<1>3. CASE Working
  BY <1>1, <1>2, <1>3, WorkingLevel DEF RoomInv
<1>4. CASE Spends
  BY <1>1, <1>2, <1>4, SpendsAffords DEF RoomInv
<1>5. Spends \/ BindRun \/ ~(Requests \/ Agents)
  BY RequestsSpend
<1>6. Spends \/ ~(PauseRun \/ Load \/ Exit)
  BY DEF PauseRun, Load, Exit, Spends
<1>7. CASE BindRun \/ Crash \/ Shutdown \/ PaneKilled
  <2>1. /\ binds' \in {binds, binds + 1} /\ faults' \in {faults, faults + 1}
        /\ stops' \in {stops, stops + 1} /\ kills' \in {kills, kills + 1}
    BY <1>7 DEF BindRun, Crash, Shutdown, PaneKilled
  <2>2. binds \in Nat /\ faults \in Nat /\ stops \in Nat /\ kills \in Nat
    BY BoundsTyped DEF RoomInv, Afforded
  <2>3. \A n \in Nat : \A m \in {n, n + 1} : m \in Nat /\ n <= m
    OBVIOUS
  <2>4. /\ binds' \in Nat /\ faults' \in Nat /\ stops' \in Nat /\ kills' \in Nat
        /\ binds <= binds' /\ faults <= faults'
        /\ stops <= stops' /\ kills <= kills'
    BY <2>1, <2>2, <2>3
  <2>5. Spent <= Spent'
    <3>1. \A a, b, c, d, p, q, r, s \in Nat :
             a <= p /\ b <= q /\ c <= r /\ d <= s
                => 2 * a + b + c + d <= 2 * p + q + r + s
      OBVIOUS
    <3>2. 2 * binds + faults + stops + kills
             <= 2 * binds' + faults' + stops' + kills'
      BY <2>2, <2>4, <3>1
    <3>3. QED
      BY <3>2 DEF Spent
  <2>6. QED
    BY <1>1, <1>2, <2>5
<1>8. QED
  BY <1>3, <1>4, <1>5, <1>6, <1>7, NextWorking

\* What one event leads to.
LEMMA RangedWritten ==
    ASSUME Inv, SyncInv, RoomInv, RangedInv, ~At("down"),
           NEW event, NEW update, NEW then,
           AppendEvent(event, update, then), Writes(event, update)
    PROVE  /\ Ranged(live', Spent, Len(dlog'))
           /\ Ranged(Logged', Spent, Len(dlog'))
           /\ Len(dlog) \in Nat /\ Len(dlog') \in Nat
           /\ Len(dlog) <= Len(dlog')
<1> DEFINE m == Len(dlog)
           r == Replayed(Logged, Line(event, count + 1))
<1>1. m \in Nat /\ count \in Nat /\ count <= m /\ Spent \in Nat
  BY SpentTyped DEF SyncInv, Counts, RoomInv
<1>2. /\ Shape(live) /\ Shape(Logged) /\ Numbered(live)
  BY LiveGood DEF RoomInv
<1>3. Ranged(live, Spent, m + 1) /\ Ranged(Logged, Spent, m + 1)
  BY <1>1, RangedGrows DEF RangedInv
<1>4. NextWithin(Spent)
  <2>1. SUFFICES ASSUME At("allocate"), NEW a \in job.todo,
                        a \notin Owned \cup DOMAIN live.allocating
                 PROVE  NextGeneration(a) \in 0..Spent
    BY DEF NextWithin
  <2>2. a \in Running
    BY <2>1 DEF RoomInv, Placed, At, Allocations
  <2>3. Level \in Nat /\ Level <= Spent
    BY LevelTyped DEF RoomInv
  <2>4. NextGeneration(a) \in 0..Level
    BY <1>2, <2>1, <2>2, <2>3, NextInRoom DEF RoomInv, Room
  <2>5. QED
    BY <1>1, <2>3, <2>4
<1>5. count + 1 \in 1..(m + 1)
  BY <1>1
<1>6. Ranged(update, Spent, m + 1) /\ Ranged(r, Spent, m + 1)
  BY <1>1, <1>2, <1>3, <1>4, <1>5, WritesInRange DEF InRange
<1>7. \/ /\ Len(dlog') = m + 1 /\ Logged' = r
         /\ live' = update \/ live' = live
      \/ dlog' = dlog /\ live' = live
  BY Grown
<1>8. CASE /\ Len(dlog') = m + 1 /\ Logged' = r
           /\ live' = update \/ live' = live
  BY <1>1, <1>3, <1>6, <1>8
<1>9. CASE dlog' = dlog /\ live' = live
  BY <1>1, <1>9 DEF RangedInv, Logged
<1>10. QED
  BY <1>7, <1>8, <1>9

LEMMA RangedService ==
    ASSUME Inv, SyncInv, RoomInv, RangedInv, Next
    PROVE  Ranged(live, Spent, Len(dlog))' /\ Ranged(Logged, Spent, Len(dlog))'
<1>1. Spent \in Nat /\ Spent' \in Nat /\ Spent <= Spent'
  BY SpentRises
<1>2. Len(dlog) \in Nat
  <2>1. PICK S : dlog \in Seq(S)
    BY DEF Inv, OnceInv, Stored, Replayable
  <2>2. QED
    BY <2>1
<1>3. /\ Ranged(live', Spent, Len(dlog'))
      /\ Ranged(Logged', Spent, Len(dlog'))
      /\ Len(dlog') \in Nat
  <2>1. CASE UNCHANGED <<dlog, service>>
    BY <1>2, <2>1 DEF RangedInv, service, Logged
  <2>2. CASE Stepwise /\ ~At("down")
    BY <1>2, <2>1, <2>2, RangedWritten DEF Stepwise
  <2>3. CASE Load
    <3>1. live' = Logged /\ dlog' = dlog /\ Logged' = Logged
      BY <2>3 DEF Load, files, Logged
    <3>2. QED
      BY <1>2, <3>1 DEF RangedInv
  <2>4. CASE Leave
    <3>1. live' = Blank /\ dlog' = dlog /\ Logged' = Logged
      BY <2>4 DEF Leave, files, Logged
    <3>2. QED
      BY <1>2, <3>1, BlankRanged DEF RangedInv
  <2>5. CASE PaneKilled
    BY <2>1, <2>5 DEF PaneKilled, files
  <2>6. QED
    BY <2>2, <2>3, <2>4, <2>5, Steps, DownStarts
<1>4. /\ Ranged(live', Spent', Len(dlog'))
      /\ Ranged(Logged', Spent', Len(dlog'))
  BY <1>1, <1>3, RangedGrows
<1>5. QED
  BY <1>4 DEF Ranged, Fits, Wants, Pairs, Starts

LEMMA PairsGrow ==
    ASSUME NEW S, NEW n \in Nat, Pairs(S, n), NEW p \in Nat, n <= p
    PROVE  Pairs(S, p)
BY DEF Pairs

LEMMA PaneRanged ==
    ASSUME NEW n, NEW m, Ranged(live, n, m), NEW a \in Owned
    PROVE  Pane(a)[1] \in Activations /\ Pane(a)[2] \in 0..n
BY DEF Ranged, Fits, Owned, Pane

LEMMA RangedAlive ==
    ASSUME Inv, RangedInv, Next
    PROVE  Pairs(alive', Spent)
<1>1. \A a \in DOMAIN live.allocating :
         a \in Activations /\ live.allocating[a].gen \in 0..Spent
  BY DEF RangedInv, Ranged, Wants
<1>2. QED
  BY <1>1, AliveSteps DEF RangedInv, Pairs

\* A participant that exits has its pane.
LEMMA RangedExited ==
    ASSUME RangedInv, Next
    PROVE  Pairs(exited', Spent)
<1>1. exited' = exited \/ Agents
  <2>1. CASE Cleaning
    BY <2>1 DEF Cleaning, CleanupIntent, KillPane, ReleasePane, CleanupReceipt,
                Finalize, resting, runtime
  <2>2. CASE Starting
    BY <2>2 DEF Starting, Load, LoadCleanups, Stale, LoadExits, Suspend,
                resting, runtime
  <2>3. CASE Allocating
    BY <2>3 DEF Allocating, BindFirst, Allocate, CreatePane, BindWindow,
                PublishPane, runtime
  <2>4. CASE Actuating
    BY <2>4 DEF Actuating, Pick, Prepare, Launch, Prompt, PauseRun, resting,
                runtime
  <2>5. CASE Delivering
    BY <2>5 DEF Delivering, StartDelivery, TypeInput, RecordInput,
                PublishInput, FinishDelivery, runtime
  <2>6. CASE Requests
    BY <2>6 DEF Requests, BindRun, Request, Pause, Resume, ResumeRun, EndRun,
                Resolve, SendMessage, resting, runtime
  <2>7. CASE Shutdown \/ Exit \/ Crash \/ PaneKilled
    BY <2>7 DEF Shutdown, Exit, Crash, Leave, PaneKilled, runtime
  <2>8. QED
    BY <2>1, <2>2, <2>3, <2>4, <2>5, <2>6, <2>7 DEF Next
<1>2. ASSUME NEW a \in Activations,
             \/ BindParticipant(a) \/ ParticipantStop(a) \/ FinalizeExited(a)
      PROVE  exited' = exited
  BY <1>2 DEF BindParticipant, ParticipantStop, FinalizeExited, resting,
              runtime
<1>3. ASSUME NEW a \in Activations, ParticipantExited(a)
      PROVE  a \in Owned /\ exited' = exited \cup {Pane(a)}
  BY <1>3 DEF ParticipantExited, Participant, ExactBinding
<1>4. \A a \in Owned : Pairs(exited \cup {Pane(a)}, Spent)
  BY PaneRanged DEF RangedInv, Pairs
<1>5. QED
  BY <1>1, <1>2, <1>3, <1>4 DEF Agents, RangedInv

\* Nor is a credential made for anything but a pane that is owned.
LEMMA RangedSecrets ==
    ASSUME Inv, RangedInv, Next
    PROVE  Pairs(secrets', Spent)
<1>1. secrets' = secrets \/ CleanupReceipt \/ Prepare
  <2>1. CASE Cleaning
    BY <2>1 DEF Cleaning, CleanupIntent, KillPane, ReleasePane, Finalize,
                resting, files
  <2>2. CASE Starting
    BY <2>2 DEF Starting, Load, LoadCleanups, Stale, LoadExits, Suspend,
                resting, files
  <2>3. CASE Allocating
    BY <2>3 DEF Allocating, BindFirst, Allocate, CreatePane, BindWindow,
                PublishPane, files
  <2>4. CASE Actuating
    BY <2>4 DEF Actuating, Pick, Launch, Prompt, PauseRun, resting, files
  <2>5. CASE Delivering
    BY <2>5 DEF Delivering, StartDelivery, TypeInput, RecordInput,
                PublishInput, FinishDelivery, files
  <2>6. CASE Requests
    BY <2>6 DEF Requests, BindRun, Request, Pause, Resume, ResumeRun, EndRun,
                Resolve, SendMessage, resting, files
  <2>7. CASE Agents
    BY <2>7 DEF Agents, BindParticipant, ParticipantStop, ParticipantExited,
                FinalizeExited, resting, files
  <2>8. CASE Shutdown \/ Exit \/ Crash \/ PaneKilled
    BY <2>8 DEF Shutdown, Exit, Crash, Leave, PaneKilled, files
  <2>9. QED
    BY <2>1, <2>2, <2>3, <2>4, <2>5, <2>6, <2>7, <2>8 DEF Next
<1>2. CleanupReceipt => secrets' \subseteq secrets
  BY DEF CleanupReceipt, RetireBinding
<1>3. ASSUME Prepare
      PROVE  /\ job.act \in Owned
             /\ secrets' \subseteq secrets \cup {Pane(job.act)}
  BY <1>3 DEF Prepare, At, Inv, OnceInv, Actuates
<1>4. \A a \in Owned : Pairs(secrets \cup {Pane(a)}, Spent)
  BY PaneRanged DEF RangedInv, Pairs
<1>5. QED
  BY <1>1, <1>2, <1>3, <1>4 DEF RangedInv, Pairs

LEMMA RangedStep ==
    ASSUME Inv, SyncInv, RoomInv, RangedInv, Next
    PROVE  RangedInv'
<1>1. Spent \in Nat /\ Spent' \in Nat /\ Spent <= Spent'
  BY SpentRises
<1>2. /\ Pairs(alive', Spent') /\ Pairs(exited', Spent')
      /\ Pairs(secrets', Spent')
  BY <1>1, RangedAlive, RangedExited, RangedSecrets, PairsGrow
<1>3. QED
  BY <1>2, RangedService DEF RangedInv, Pairs

-----------------------------------------------------------------------------
(* The rest, which no other value depends on.                              *)

PlainInv == /\ run \in {"running", "paused", "ended"}
            /\ done \subseteq Activations
            /\ inputs \subseteq Keys
            /\ job.todo \subseteq Activations

LEMMA RunStep ==
    ASSUME PlainInv, Next
    PROVE  /\ run' \in {"running", "paused", "ended"}
           /\ done' \subseteq Activations
<1>1. CASE Cleaning
  BY <1>1 DEF PlainInv, Cleaning, CleanupIntent, KillPane, ReleasePane,
              CleanupReceipt, Finalize, resting, runtime
<1>2. CASE Starting
  BY <1>2 DEF PlainInv, Starting, Load, LoadCleanups, Stale, LoadExits,
              Suspend, resting, runtime
<1>3. CASE Allocating
  BY <1>3 DEF PlainInv, Allocating, BindFirst, Allocate, CreatePane,
              BindWindow, PublishPane, runtime
<1>4. CASE Actuating
  BY <1>4 DEF PlainInv, Actuating, Pick, Prepare, Launch, Prompt, PauseRun,
              resting, runtime
<1>5. CASE Delivering
  BY <1>5 DEF PlainInv, Delivering, StartDelivery, TypeInput, RecordInput,
              PublishInput, FinishDelivery, runtime
<1>6. CASE Requests
  BY <1>6 DEF PlainInv, Requests, BindRun, Request, Pause, Resume, ResumeRun,
              EndRun, Resolve, SendMessage, Running, resting, runtime
<1>7. CASE Agents
  BY <1>7 DEF PlainInv, Agents, BindParticipant, ParticipantStop,
              ParticipantExited, FinalizeExited, resting, runtime
<1>8. CASE Shutdown \/ Exit \/ Crash \/ PaneKilled
  BY <1>8 DEF PlainInv, Shutdown, Exit, Crash, Leave, PaneKilled, runtime
<1>9. QED
  BY <1>1, <1>2, <1>3, <1>4, <1>5, <1>6, <1>7, <1>8 DEF Next

LEMMA InputsStep ==
    ASSUME Inv, RangedInv, PlainInv, Next
    PROVE  inputs' \subseteq Keys
<1>1. inputs' = inputs \/ RecordInput
  <2>1. CASE Cleaning
    BY <2>1 DEF Cleaning, CleanupIntent, KillPane, ReleasePane, CleanupReceipt,
                Finalize, resting, files
  <2>2. CASE Starting
    BY <2>2 DEF Starting, Load, LoadCleanups, Stale, LoadExits, Suspend,
                resting, files
  <2>3. CASE Allocating
    BY <2>3 DEF Allocating, BindFirst, Allocate, CreatePane, BindWindow,
                PublishPane, files
  <2>4. CASE Actuating
    BY <2>4 DEF Actuating, Pick, Prepare, Launch, Prompt, PauseRun, resting,
                files
  <2>5. CASE Delivering
    BY <2>5 DEF Delivering, StartDelivery, TypeInput, PublishInput,
                FinishDelivery, files
  <2>6. CASE Requests
    BY <2>6 DEF Requests, BindRun, Request, Pause, Resume, ResumeRun, EndRun,
                Resolve, SendMessage, resting, files
  <2>7. CASE Agents
    BY <2>7 DEF Agents, BindParticipant, ParticipantStop, ParticipantExited,
                FinalizeExited, resting, files
  <2>8. CASE Shutdown \/ Exit \/ Crash \/ PaneKilled
    BY <2>8 DEF Shutdown, Exit, Crash, Leave, PaneKilled, files
  <2>9. QED
    BY <2>1, <2>2, <2>3, <2>4, <2>5, <2>6, <2>7, <2>8 DEF Next
<1>2. ASSUME RecordInput
      PROVE  inputs' \subseteq Keys
  <2>1. /\ inputs' \subseteq inputs \cup {Key} /\ job.phase \in Deliveries
    BY <1>2 DEF RecordInput, At, Deliveries
  <2>2. job.act \in Owned /\ job.role \in Roles \cup Messages
    BY <2>1 DEF Inv, OnceInv, Actuates
  <2>3. Fits(live.panes, Spent)
    BY DEF RangedInv, Ranged
  <2>4. Key \in Keys
    BY <2>2, <2>3 DEF Key, KeyOf, Keys, Fits, Owned
  <2>5. QED
    BY <2>1, <2>4 DEF PlainInv
<1>3. QED
  BY <1>1, <1>2 DEF PlainInv

LEMMA TodoStep ==
    ASSUME Inv, RangedInv, PlainInv, Next
    PROVE  job'.todo \subseteq Activations
<1>1. CASE Working
  BY <1>1, WorkingHolds DEF Holds, PlainInv
<1>2. CASE (Requests /\ ~BindRun) \/ Agents
  BY <1>2, RequestsBegun, AgentsBegun DEF Begun
<1>3. CASE BindRun
  <2>1. PICK c : job' = [Idle EXCEPT !.op = "bind", !.phase = "bind",
                                     !.command = c]
    BY <1>3 DEF BindRun
  <2>2. QED
    BY <2>1 DEF Idle
<1>4. CASE PauseRun
  <2>1. job' = Idle \/ job' = BindCleanup
    BY <1>4 DEF PauseRun
  <2>2. Owned \subseteq Activations
    BY <1>4, OwnedTyped DEF PauseRun, At
  <2>3. CASE job' = Idle
    BY <2>3 DEF Idle
  <2>4. CASE job' = BindCleanup
    BY <2>2, <2>4 DEF BindCleanup, Idle
  <2>5. QED
    BY <2>1, <2>3, <2>4
<1>5. CASE Load
  <2>1. /\ live' = Logged
        /\ job' = [Idle EXCEPT !.op = "load", !.phase = "cleanups",
                               !.todo = DOMAIN live'.cleaning]
    BY <1>5 DEF Load, Logged
  <2>2. job'.todo = DOMAIN Logged.cleaning
    BY <2>1 DEF Idle
  <2>3. QED
    BY <2>2 DEF RangedInv, Ranged, Fits
<1>6. CASE Exit \/ Crash
  BY <1>6 DEF Exit, Crash, Leave, Down, Idle
<1>7. CASE Shutdown
  <2>1. Owned \subseteq Activations
    BY <1>7, OwnedTyped DEF Shutdown, At
  <2>2. CASE job' = [Idle EXCEPT !.op = "shutdown", !.phase = "finalize",
                                 !.todo = Owned]
    BY <2>1, <2>2 DEF Idle
  <2>3. CASE job' = [Idle EXCEPT !.op = "shutdown", !.phase = "exit"]
    BY <2>3 DEF Idle
  <2>4. QED
    BY <1>7, <2>2, <2>3 DEF Shutdown
<1>8. CASE PaneKilled
  BY <1>8 DEF PaneKilled, PlainInv
<1>9. QED
  BY <1>1, <1>2, <1>3, <1>4, <1>5, <1>6, <1>7, <1>8, NextWorking

LEMMA PlainStep ==
    ASSUME Inv, RangedInv, PlainInv, Next
    PROVE  PlainInv'
BY RunStep, InputsStep, TodoStep DEF PlainInv

-----------------------------------------------------------------------------
(* The type invariant.                                                     *)

TypesInv == RoomInv /\ RangedInv /\ PlainInv

LEMMA TypesInit ==
    ASSUME Init
    PROVE  TypesInv
<1>1. /\ live = Blank /\ Logged = Blank /\ Len(dlog) = 0
      /\ job.op = "none" /\ job.phase = "idle" /\ job.todo = {}
  BY ReplayNone DEF Init, Logged, Idle
<1>2. Afforded /\ Spent = 0 /\ Level = 0
  <2>1. binds = 0 /\ faults = 0 /\ stops = 0 /\ kills = 0
    BY DEF Init
  <2>2. Afforded /\ Spent = 0
    BY <2>1, BoundsTyped DEF Afforded, Spent
  <2>3. Slack = 0
    BY <1>1 DEF Slack
  <2>4. QED
    BY <2>2, <2>3 DEF Level
<1>3. /\ DOMAIN Blank.generations = {} /\ DOMAIN Blank.allocating = {}
  BY DEF Blank, Nothing
<1>4. Room /\ Fresh
  BY <1>1, <1>3 DEF Room, RoomAt, Tops, Fresh, Below
<1>5. Gone /\ Calm /\ Placed
  BY <1>1 DEF Gone, Calm, Rested, Placed, At, Allocations
<1>6. RoomInv
  BY <1>1, <1>2, <1>4, <1>5 DEF RoomInv
<1>7. RangedInv
  BY <1>1, BlankRanged DEF RangedInv, Pairs, Init
<1>8. PlainInv
  BY <1>1 DEF PlainInv, Init
<1>9. QED
  BY <1>6, <1>7, <1>8 DEF TypesInv

LEMMA TypesStep ==
    ASSUME Inv, SyncInv, TypesInv, Next
    PROVE  TypesInv'
BY RoomStep, RangedStep, PlainStep DEF TypesInv

LEMMA TypesStill ==
    ASSUME TypesInv, UNCHANGED vars
    PROVE  TypesInv'
<1>1. /\ RoomInv' = RoomInv
  BY DEF vars, RoomInv, Gone, Afforded, Room, RoomAt, Tops, Bare, Running,
         Calm, Rested, Fresh, Below, Placed, Level, Slack, Spent, At, Logged,
         Owned, Intended, Intent
<1>2. RangedInv' = RangedInv
  BY DEF vars, RangedInv, Ranged, Fits, Wants, Pairs, Starts, Spent, Logged
<1>3. PlainInv' = PlainInv
  BY DEF vars, PlainInv
<1>4. QED
  BY <1>1, <1>2, <1>3 DEF TypesInv

LEMMA TypesHold ==
    ASSUME Inv, SyncInv, TypesInv
    PROVE  TypeOK
<1> DEFINE n == Spent
           m == Len(dlog)
<1>1. n \in Nat /\ 0..n \subseteq Generations
  <2>1. n \in Nat /\ n <= 2 * MaxBinds + MaxFaults + MaxStops + MaxKills
    BY SpentTyped DEF TypesInv, RoomInv
  <2>2. 2 * MaxBinds + MaxFaults + MaxStops + MaxKills \in Nat
    BY BoundsTyped
  <2>3. QED
    BY <2>1, <2>2 DEF Generations
<1>2. Ranged(live, n, m)
  BY DEF TypesInv, RangedInv
<1> HIDE DEF n
<1>3. \A S : Pairs(S, n) => Generated(S)
  BY <1>1 DEF Pairs, Generated
<1>4. \A S \in {alive, exited, secrets, live.launched, live.settled,
                live.started, live.bound} : Generated(S)
  BY <1>2, <1>3 DEF TypesInv, RangedInv, Ranged, n
<1>5. \A f \in {live.panes, live.generations, live.cleaning} :
         DOMAIN f \subseteq Activations /\ \A a \in DOMAIN f :
                                               f[a] \in Generations
  BY <1>1, <1>2 DEF Ranged, Fits
<1>6. \A a \in DOMAIN live.allocating :
         live.allocating[a] \in [gen : Generations, command : Commands]
  <2>1. [gen : 0..n, command : Commands]
           \subseteq [gen : Generations, command : Commands]
    BY <1>1
  <2>2. QED
    BY <1>2, <2>1 DEF Ranged, Wants
<1>7. Barriers(live.ambiguous) /\ Barriers(live.submitted)
  BY <1>2 DEF Ranged, Starts, Barriers
<1>8. live.tmux \in Commands \cup {"none"} /\ count \in 0..Len(dlog)
  <2>1. CASE At("down")
    <3>1. live.tmux = "none" /\ count = 0
      BY <2>1 DEF TypesInv, RoomInv, Gone, Blank
    <3>2. m \in Nat
      <4>1. PICK S : dlog \in Seq(S)
        BY DEF Inv, OnceInv, Stored, Replayable
      <4>2. QED
        BY <4>1
    <3>3. QED
      BY <3>1, <3>2
  <2>2. CASE ~At("down")
    BY <2>2 DEF SyncInv, Whole, Counts
  <2>3. QED
    BY <2>1, <2>2
<1>9. job.phase \in Phases /\ job.op \in Ops
  BY OpsTyped DEF Inv, OnceInv, Control, Phases, Allocations, Actuations,
                  Deliveries, Cleanups
<1>10. typed \in [InputIds -> Nat]
  BY DEF Inv, OnceInv, Stored
<1>11. QED
  BY <1>4, <1>5, <1>6, <1>7, <1>8, <1>9, <1>10 DEF TypeOK, TypesInv, PlainInv

\* The variables hold what the code's types and the bounds allow: above all an
\* activation is given a pane again only when it has lost one, so that every
\* generation ever named is one of those that InputOnce counts inputs of.
THEOREM TypeCorrect == Spec => []TypeOK
<1>1. Init => TypesInv
  BY TypesInit
<1>2. Inv /\ SyncInv /\ TypesInv /\ [Next]_vars => TypesInv'
  BY TypesStep, TypesStill
<1>3. Inv /\ SyncInv /\ TypesInv => TypeOK
  BY TypesHold
<1>4. QED
  BY <1>1, <1>2, <1>3, Invariance, SyncInvariance, PTL DEF Spec
=============================================================================
