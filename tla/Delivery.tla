------------------------------ MODULE Delivery ------------------------------
(***************************************************************************)
(* How the driver gives activations panes and types into them              *)
(* (driver/delivery.rs, actuation.rs, tmux_ownership.rs, run_lifecycle.rs, *)
(* the messages of capabilities.rs), under failing appends and tmux        *)
(* commands, panes killed from outside, crashes and shutdowns.             *)
(*                                                                         *)
(* One mutex guards the service: job is the operation that holds it and    *)
(* the place it has reached.  A pane is known by its activation and its    *)
(* generation, which is what its tmux option (the intent's operation_id)   *)
(* says.  The runtime is reduced to the run's status and the activations   *)
(* that are settled; its own commits are those of module Publication.      *)
(***************************************************************************)
EXTENDS DriverEvents, FiniteSets

CONSTANTS FaultKinds,   \* what may fail
          MaxBinds,     \* bound on bind_run requests
          MaxFaults,    \* bound on failures
          MaxStops,     \* bound on crashes and shutdowns
          MaxKills,     \* bound on panes killed from outside
          MaxRefusals   \* bound on resolutions that an input did not arrive

\* An append may fail with nothing written or with its line durable; tmux and
\* the commits of the runtime and of publications may fail.
ASSUME FaultsAssumption ==
    FaultKinds \subseteq {"append_lost", "append_kept", "tmux", "commit"}
ASSUME BoundsAssumption ==
    {MaxBinds, MaxFaults, MaxStops, MaxKills, MaxRefusals} \subseteq Nat
\* The identity of a message is not that of an activation's input.
ASSUME MessagesAssumption == Messages \cap (Activations \X Roles \X Nat) = {}

VARIABLES
    \* durable
    dlog,       \* driver-events.jsonl
    inputs,     \* machine-inputs.jsonl: deliveries with a Submitted record
    run,        \* status of the run
    done,       \* settled activations
    exited,     \* participants whose exit is recorded
    secrets,    \* participants whose private binding file exists
    \* tmux
    alive,      \* panes that exist
    \* volatile
    live,       \* the service's fields, as replayed and as updated since
    count,      \* driver_event_count
    job,        \* the operation under way
    \* history
    typed,      \* how often each input was, since an operator's word
    binds, faults, stops, kills

runtime == <<run, done, exited>>
files == <<dlog, inputs, secrets>>
service == <<live, count>>
bounds == <<binds, stops, kills>>
budget == <<faults, bounds>>
\* All but the operation under way.
resting == <<files, runtime, alive, service, typed, budget>>
vars == <<dlog, inputs, run, done, exited, secrets, alive, live, count, job,
          typed, binds, faults, stops, kills>>

\* Generations a bounded behaviour can reach: a bind_run may give a pane up
\* twice, when it forgets those of another binding and when it fails.
Generations == 0..2 * MaxBinds + MaxFaults + MaxStops + MaxKills
InputIds == (Activations \X Roles \X Generations) \cup Messages
Input(k) == IF k[2] \in Messages THEN k[2] ELSE k

\* Where an operation goes when a step of it fails.
ErrorPhase == [none |-> "idle", load |-> "exit", bind |-> "pause",
               request |-> "pause", session |-> "idle", message |-> "idle",
               resolve |-> "idle", exited |-> "idle",
               finalize |-> "finalize", shutdown |-> "finalize"]
Phases == {"down", "idle", "exit", "pause", "pick", "prepare", "launch",
           "prompt", "start", "type", "record", "publishing", "finish",
           "bind", "allocate", "create", "window", "publish", "cleanups",
           "stale", "exits", "suspend", "finalize", "intent", "kill",
           "release", "receipt", "resume"}
Ops == DOMAIN ErrorPhase
Idle == [op |-> "none", phase |-> "idle", todo |-> {}, act |-> "none",
         role |-> "none", back |-> "idle", command |-> "none",
         warned |-> FALSE]
Down == [Idle EXCEPT !.phase = "down"]

Erred == IF ErrorPhase[job.op] = "idle" THEN Idle
         ELSE [Idle EXCEPT !.op = job.op, !.phase = ErrorPhase[job.op],
                           !.todo = IF job.op \in {"finalize", "shutdown"}
                                    THEN job.todo ELSE {}]

At(phase) == job.phase = phase
Goto(phase) == job' = [job EXCEPT !.phase = phase]
Running == {a \in Activations : a \notin done}
Owned == DOMAIN live.panes

\* A pane's activation and generation, of which its identity is a hash.
Pane(a) == <<a, live.panes[a]>>
KeyOf(a, r) == <<a, r, live.panes[a]>>
Key == KeyOf(job.act, job.role)

Init == /\ dlog = <<>> /\ inputs = {} /\ run = "running" /\ done = {}
        /\ exited = {} /\ secrets = {} /\ alive = {}
        /\ live = Blank /\ count = 0
        /\ job = Idle /\ typed = [i \in InputIds |-> 0]
        /\ binds = 0 /\ faults = 0 /\ stops = 0 /\ kills = 0

Fault(kind) == /\ kind \in FaultKinds
               /\ faults < MaxFaults
               /\ faults' = faults + 1
               /\ UNCHANGED bounds

\* append_driver_event: the line and its number, then the caller's update of
\* the service.  A failed append leaves the counter, whatever it has written.
AppendEvent(event, update, then) ==
    LET line == [n \in DOMAIN event \cup {"seq"} |->
                    IF n = "seq" THEN count + 1 ELSE event[n]]
    IN  \/ /\ dlog' = Append(dlog, line)
           /\ count' = count + 1
           /\ live' = update
           /\ job' = then
           /\ UNCHANGED budget
        \/ /\ Fault("append_lost")
           /\ job' = Erred
           /\ UNCHANGED <<dlog, live, count>>
        \/ /\ Fault("append_kept")
           /\ dlog' = Append(dlog, line)
           /\ job' = Erred
           /\ UNCHANGED <<live, count>>

-----------------------------------------------------------------------------
(* Cleanup of one pane: intent, kill, release with barriers, receipt.      *)

\* Begin the cleanup of a's pane and come back to the phase that asked.
CleanUp(a, first) ==
    job' = [job EXCEPT !.phase = first, !.act = a, !.back = job.phase,
                       !.todo = @ \ {a}]

CleanupIntent ==
    /\ At("intent")
    /\ LET a == job.act
           then == [job EXCEPT !.phase = "kill"]
       IN  IF a \in DOMAIN live.cleaning
           THEN /\ job' = IF live.cleaning[a] = live.panes[a]
                          THEN then ELSE Erred
                /\ UNCHANGED <<dlog, service, budget>>
           ELSE AppendEvent([kind |-> "tmux_pane_cleanup_intent",
                             act |-> a, gen |-> live.panes[a]],
                            [live EXCEPT !.cleaning =
                                With(@, a, live.panes[a])],
                            then)
    /\ UNCHANGED <<inputs, secrets, runtime, alive, typed>>

\* Mutant: a failing kill is ignored.
KillIgnored == Goto("release")

KillFailed == job' = Erred

Killed(p) == alive' = alive \ {p}

\* A pane that is gone needs no killing; one that was released needs a receipt
\* only.  The pane's capture and its files are left out.
KillPane ==
    /\ At("kill")
    /\ LET a == job.act
       IN  IF a \notin Owned
           THEN Goto("receipt") /\ UNCHANGED <<alive, budget>>
           ELSE IF live.cleaning[a] # live.panes[a]
           THEN job' = Erred /\ UNCHANGED <<alive, budget>>
           ELSE \/ /\ Killed(Pane(a))
                   /\ Goto("release")
                   /\ UNCHANGED budget
                \/ /\ Fault("tmux")
                   /\ KillFailed
                   /\ UNCHANGED alive
    /\ UNCHANGED <<files, runtime, service, typed>>

\* Mutant: a barrier is numbered by the event that releases the pane.
ReleasedBarriersRenumbered(a) ==
    [k \in {KeyOf(a, r) : r \in Roles} \cap DOMAIN live.submitted |-> count + 1]

\* Submitted deliveries to the pane that no barrier stands for yet.
ReleasedBarriers(a) ==
    LET lost == {k \in {KeyOf(a, r) : r \in Roles} :
                    k \in DOMAIN live.submitted \ DOMAIN live.ambiguous}
    IN  [k \in lost |-> live.submitted[k]]

\* install_released_delivery_barriers: a barrier that stands is kept as it is.
WithBarriers(s, barriers) ==
    [s EXCEPT !.submitted = [k \in DOMAIN @ \ DOMAIN barriers |-> @[k]],
              !.ambiguous = [k \in DOMAIN @ \cup DOMAIN barriers |->
                                IF k \in DOMAIN @ THEN @[k] ELSE barriers[k]]]

\* release_tmux_panes
ReleasePane ==
    /\ At("release")
    /\ LET a == job.act
           barriers == ReleasedBarriers(a)
       IN  AppendEvent([kind |-> "tmux_panes_released", act |-> a,
                        barriers |-> barriers],
                       [WithBarriers(live, barriers) EXCEPT
                            !.panes = Without(@, a),
                            !.launched = Forget(@, a),
                            !.settled = Forget(@, a)],
                       [job EXCEPT !.phase = "receipt"])
    /\ UNCHANGED <<inputs, secrets, runtime, alive, typed>>

HasExited(p) == p \in exited

\* The credential of a participant that has not exited goes with its pane.
RetireBinding(p) ==
    secrets' = IF p \in live.started /\ ~HasExited(p) THEN secrets \ {p}
               ELSE secrets

\* finish_tmux_pane_cleanup; an operation on one pane ends here.
CleanupReceipt ==
    /\ At("receipt")
    /\ LET a == job.act
           g == live.cleaning[a]
       IN  /\ RetireBinding(<<a, g>>)
           /\ AppendEvent([kind |-> "tmux_pane_cleanup_receipt", act |-> a,
                           gen |-> g],
                          [live EXCEPT !.cleaning = Without(@, a)],
                          IF job.back = "idle" THEN Idle
                          ELSE [job EXCEPT !.phase = job.back, !.act = "none",
                                           !.back = "idle"])
    /\ UNCHANGED <<inputs, runtime, alive, typed>>

\* finalize_terminal_node_panes: every pane in turn, whatever fails.
Finalize ==
    /\ At("finalize")
    /\ \/ \E a \in job.todo : CleanUp(a, "intent")
       \/ /\ job.todo = {}
          /\ job' = IF job.op = "shutdown"
                    THEN [Idle EXCEPT !.op = "shutdown", !.phase = "exit"]
                    ELSE Idle
    /\ UNCHANGED resting

-----------------------------------------------------------------------------
(* Starting a driver.                                                      *)

\* Mutant: the number of the next event.
ReplayedNext == Len(dlog) + 1

ReplayedCount == Len(dlog)

\* Replay, then the pending cleanups, the panes that are gone, the panes of
\* participants that have exited, and the suspension of a running run.
Load ==
    /\ At("down")
    /\ live' = Replay(dlog)
    /\ count' = ReplayedCount
    /\ job' = [Idle EXCEPT !.op = "load", !.phase = "cleanups",
                           !.todo = DOMAIN live'.cleaning]
    /\ UNCHANGED <<files, runtime, alive, typed, budget>>

Exits == {a \in Owned : a \in done /\ HasExited(Pane(a))}

LoadCleanups ==
    /\ At("cleanups")
    /\ \/ \E a \in job.todo : CleanUp(a, "kill")
       \/ /\ job.todo = {}
          /\ job' = [job EXCEPT !.phase = "stale", !.todo = Owned]
    /\ UNCHANGED resting

\* reconcile_stale_tmux_panes: each pane is probed before the first is cleaned.
Stale ==
    /\ At("stale")
    /\ LET gone == {a \in job.todo \cap Owned : Pane(a) \notin alive}
       IN  \/ \E a \in gone :
                /\ job' = [job EXCEPT !.phase = "intent", !.act = a,
                                      !.back = "stale", !.todo = gone \ {a}]
                /\ UNCHANGED budget
           \/ /\ gone = {}
              /\ job' = IF job.op = "load"
                        THEN [job EXCEPT !.phase = "exits", !.todo = Exits]
                        ELSE [job EXCEPT !.phase = "allocate",
                                         !.todo = Running]
              /\ UNCHANGED budget
           \/ /\ job.todo \cap Owned # {}
              /\ Fault("tmux")
              /\ job' = Erred
    /\ UNCHANGED <<files, runtime, alive, service, typed>>

LoadExits ==
    /\ At("exits")
    /\ \/ \E a \in job.todo : CleanUp(a, "intent")
       \/ job.todo = {} /\ Goto("suspend")
    /\ UNCHANGED resting

\* suspend_replayed_running_run
Suspend ==
    /\ At("suspend")
    /\ \/ /\ run' = IF run = "running" THEN "paused" ELSE run
          /\ job' = Idle
          /\ UNCHANGED budget
       \/ /\ run = "running"
          /\ Fault("commit")
          /\ job' = Erred
          /\ UNCHANGED run
    /\ UNCHANGED <<files, done, exited, alive, service, typed>>

\* The process is gone: after a shutdown, a failed start, or at any point.
Leave == /\ job' = Down
         /\ live' = Blank
         /\ count' = 0
         /\ UNCHANGED <<files, runtime, alive, typed>>

Exit == At("exit") /\ Leave /\ UNCHANGED budget

Crash == /\ ~At("down")
         /\ stops < MaxStops
         /\ stops' = stops + 1
         /\ Leave
         /\ UNCHANGED <<binds, faults, kills>>

\* finalize_for_exit: without the suspension the panes are left alone.
Shutdown ==
    /\ At("idle")
    /\ stops < MaxStops
    /\ stops' = stops + 1
    /\ \/ /\ run' = IF run = "running" THEN "paused" ELSE run
          /\ job' = [Idle EXCEPT !.op = "shutdown", !.phase = "finalize",
                                 !.todo = Owned]
          /\ UNCHANGED faults
       \/ /\ run = "running"
          /\ "commit" \in FaultKinds
          /\ faults < MaxFaults
          /\ faults' = faults + 1
          /\ job' = [Idle EXCEPT !.op = "shutdown", !.phase = "exit"]
          /\ UNCHANGED run
    /\ UNCHANGED <<files, done, exited, alive, service, typed,
                   binds, kills>>

\* Someone kills a pane.
PaneKilled == /\ kills < MaxKills
              /\ kills' = kills + 1
              /\ \E p \in alive : alive' = alive \ {p}
              /\ UNCHANGED <<files, runtime, service, job, typed,
                             binds, faults, stops>>

-----------------------------------------------------------------------------
(* Allocation of panes.                                                    *)

NextGeneration(a) ==
    IF a \in DOMAIN live.generations THEN live.generations[a] + 1 ELSE 0

\* pending_tmux_actuation_ids
PendingActuations == {a \in Running \cap Owned : Pane(a) \notin live.settled}

\* ensure_tmux_for_activations: a pane for every activation that lacks one,
\* intent first; an intent that is pending is taken up as it is.
Allocate ==
    /\ At("allocate")
    /\ \/ \E a \in job.todo \ Owned :
            LET then == [job EXCEPT !.phase = "create", !.act = a,
                                    !.todo = @ \ {a}]
                intent == [gen |-> NextGeneration(a), command |-> job.command]
            IN  IF a \in DOMAIN live.allocating
                THEN /\ job' = then
                     /\ UNCHANGED <<dlog, service, budget>>
                ELSE AppendEvent([kind |-> "tmux_pane_allocation_intent",
                                  act |-> a, intent |-> intent],
                                 [live EXCEPT !.allocating =
                                    With(@, a, intent)],
                                 then)
       \/ /\ job.todo \subseteq Owned
          /\ job' = [job EXCEPT !.phase = "pick", !.act = "none",
                                !.todo = PendingActuations]
          /\ UNCHANGED <<dlog, service, budget>>
    /\ UNCHANGED <<inputs, secrets, runtime, alive, typed>>

Intent == live.allocating[job.act]

\* The pane that carries the intent's identity is found, or one is created.
Intended == <<job.act, Intent.gen>>
FindPane == Intended \in alive /\ UNCHANGED alive
NewPane == Intended \notin alive /\ alive' = alive \cup {Intended}

CreatePane ==
    /\ At("create")
    /\ \/ /\ FindPane \/ NewPane
          /\ Goto("window")
          /\ UNCHANGED budget
       \/ /\ Fault("tmux")
          /\ job' = Erred
          /\ UNCHANGED alive
    /\ UNCHANGED <<files, runtime, service, typed>>

TmuxBound(command) == [kind |-> "tmux_bound", command |-> command]

\* The service keeps its other panes when the binding changes here.
BindWindow ==
    /\ At("window")
    /\ IF live.tmux = Intent.command
       THEN Goto("publish") /\ UNCHANGED <<dlog, service, budget>>
       ELSE AppendEvent(TmuxBound(Intent.command),
                        [live EXCEPT !.tmux = Intent.command],
                        [job EXCEPT !.phase = "publish"])
    /\ UNCHANGED <<inputs, secrets, runtime, alive, typed>>

PublishPane ==
    /\ At("publish")
    /\ LET a == job.act
           g == Intent.gen
       IN  AppendEvent([kind |-> "tmux_pane_allocated", act |-> a, gen |-> g],
                       [live EXCEPT !.panes = With(@, a, g),
                                    !.generations = With(@, a, g),
                                    !.allocating = Without(@, a)],
                       [job EXCEPT !.phase = "allocate", !.act = "none"])
    /\ UNCHANGED <<inputs, secrets, runtime, alive, typed>>

-----------------------------------------------------------------------------
(* Actuation: the launch command, then the prompt (actuate_activations).   *)

\* Next activation; with none left, a warning pauses the run.
Pick ==
    /\ At("pick")
    /\ \/ \E a \in job.todo :
            job' = IF a \in done \/ (a \in Owned /\ Pane(a) \in live.settled)
                   THEN [job EXCEPT !.todo = @ \ {a}]
                   ELSE IF a \notin Owned
                   THEN [job EXCEPT !.todo = @ \ {a}, !.warned = TRUE]
                   ELSE [job EXCEPT !.phase = "prepare", !.act = a,
                                    !.todo = @ \ {a}]
       \/ /\ job.todo = {}
          /\ job' = IF job.warned THEN [job EXCEPT !.phase = "pause"] ELSE Idle
    /\ UNCHANGED resting

Picked == [job EXCEPT !.phase = "pick", !.act = "none", !.role = "none"]

\* Mutant: an input in doubt does not pause the run.
WarnedOnly == Picked

Warned == [Picked EXCEPT !.warned = TRUE]

\* participant_binding_secret
HasSecret(p) == p \in secrets

\* The pane's capture and its participant, started once; a capture cannot be
\* started in a pane that is gone.  A failed append takes the participant's
\* binding file back, though its event may be durable.
Prepare ==
    /\ At("prepare")
    /\ LET p == Pane(job.act)
           then == [job EXCEPT !.phase = "launch", !.role = "launch"]
       IN  \/ /\ p \in live.started
              /\ job' = IF HasSecret(p) THEN then ELSE Erred
              /\ UNCHANGED <<dlog, secrets, service, budget>>
           \/ /\ p \in alive \ live.started
              /\ AppendEvent([kind |-> "participant_started", act |-> p[1],
                              gen |-> p[2]],
                             ParticipantStarted(live, p), then)
              /\ secrets' = IF p \in live'.started THEN secrets \cup {p}
                            ELSE secrets \ {p}
           \/ /\ p \notin live.started \cup alive
              /\ job' = Erred
              /\ UNCHANGED <<dlog, secrets, service, budget>>
    /\ UNCHANGED <<inputs, runtime, alive, typed>>

ToPrompt == [job EXCEPT !.phase = "prompt", !.role = "prompt"]

\* An input under way is finished if the ledger of inputs has it
\* (submitted_machine_input) and waits for an operator if not.
Recover == IF Key \in inputs THEN [job EXCEPT !.phase = "finish"] ELSE Warned

\* The launch was submitted, is recovered from the ledger of inputs, waits for
\* an operator, or is typed.
Launch ==
    /\ At("launch")
    /\ job' = IF Pane(job.act) \in live.launched THEN ToPrompt
              ELSE IF Key \notin DOMAIN live.ambiguous
              THEN [job EXCEPT !.phase = "start"]
              ELSE Recover
    /\ UNCHANGED resting

\* wait_for_agent_readiness, participant_readiness
AgentReady == Pane(job.act) \in live.bound

\* The prompt follows when the participant's session is bound and its pane
\* shows the agent; what the pane shows is not known.
Prompt ==
    /\ At("prompt")
    /\ IF Key \in DOMAIN live.ambiguous
       THEN job' = Recover
       ELSE \/ job' = Picked
            \/ /\ AgentReady
               /\ job' = [job EXCEPT !.phase = "start"]
    /\ UNCHANGED resting

-----------------------------------------------------------------------------
(* One delivery: start, type, ledger, public record, finish.               *)

\* Where a delivery goes when its outcome is in doubt, and when it is over.
InDoubt == IF job.op = "message" THEN Idle ELSE Warned
Over == CASE job.op = "message" -> Idle
          [] job.role = "launch" -> ToPrompt
          [] job.role = "prompt" -> Picked

\* start_input_delivery: the barrier is durable before a key is sent.
StartDelivery ==
    /\ At("start")
    /\ AppendEvent([kind |-> "input_delivery_started", key |-> Key],
                   [live EXCEPT !.submitted = Without(@, Key),
                                !.ambiguous = With(@, Key, count + 1)],
                   [job EXCEPT !.phase = "type"])
    /\ UNCHANGED <<inputs, secrets, runtime, alive, typed>>

Typed == typed' = [typed EXCEPT ![Input(Key)] = @ + 1]

\* validate_exact_pane
PaneThere == Pane(job.act) \in alive

\* The keys reach the pane, or tmux fails before or after they do.
TypeInput ==
    /\ At("type")
    /\ \/ /\ PaneThere
          /\ Typed
          /\ Goto("record")
          /\ UNCHANGED budget
       \/ /\ PaneThere
          /\ Fault("tmux")
          /\ Typed \/ UNCHANGED typed
          /\ job' = InDoubt
       \/ /\ ~PaneThere
          /\ job' = InDoubt
          /\ UNCHANGED <<typed, budget>>
    /\ UNCHANGED <<files, runtime, alive, service>>

\* The Submitted record in the ledger of inputs.
RecordInput ==
    /\ At("record")
    /\ \/ /\ inputs' = inputs \cup {Key}
          /\ Goto("publishing")
          /\ UNCHANGED budget
       \/ /\ Fault("append_lost")
          /\ job' = InDoubt
          /\ UNCHANGED inputs
       \/ /\ Fault("append_kept")
          /\ inputs' = inputs \cup {Key}
          /\ job' = InDoubt
    /\ UNCHANGED <<dlog, secrets, runtime, alive, service, typed>>

\* record_machine_input: the public record of the input.
PublishInput ==
    /\ At("publishing")
    /\ \/ Goto("finish") /\ UNCHANGED budget
       \/ Fault("commit") /\ job' = Erred
    /\ UNCHANGED <<files, runtime, alive, service, typed>>

\* finish_input_delivery on the service: the barrier becomes a submission.
Finished(k) ==
    [live EXCEPT
        !.ambiguous = Without(@, k),
        !.submitted = With(@, k, live.ambiguous[k]),
        !.launched = IF k[2] \in Roles THEN @ \cup {<<k[1], k[3]>>} ELSE @,
        !.settled = IF k[2] = "prompt" THEN @ \cup {<<k[1], k[3]>>} ELSE @]

FinishEvent(k) == [kind |-> "input_delivery_submitted", key |-> k,
                   started |-> live.ambiguous[k]]

FinishDelivery ==
    /\ At("finish")
    /\ AppendEvent(FinishEvent(Key), Finished(Key), Over)
    /\ UNCHANGED <<inputs, secrets, runtime, alive, typed>>

-----------------------------------------------------------------------------
(* Reconciliation: bind, allocate, actuate, and pause when that fails.     *)

\* The binding it allocates with: the service's own, else that of an
\* allocation some running activation waits for.
BindingsFor(running) ==
    IF live.tmux # "none" THEN {live.tmux}
    ELSE {live.allocating[a].command :
             a \in running \cap DOMAIN live.allocating}

\* reconcile_post_commit, with the run running.
Reconcile(running) ==
    LET known == BindingsFor(running)
    IN  \/ \E c \in known : job' = [Idle EXCEPT !.op = "request",
                                                !.phase = "bind",
                                                !.command = c]
        \/ known = {} /\ job' = Idle

\* A request that names its window replaces another binding, whose panes the
\* service forgets; without a window the binding waits for the first pane.
BindFirst ==
    /\ At("bind")
    /\ LET then == [job EXCEPT !.todo = Running,
                               !.phase = IF job.op = "bind" THEN "stale"
                                         ELSE "allocate"]
       IN  \/ /\ live.tmux # job.command
              /\ AppendEvent(TmuxBound(job.command),
                             [live EXCEPT !.tmux = job.command,
                                          !.panes = Nothing], then)
           \/ /\ job' = then
              /\ UNCHANGED <<dlog, service, budget>>
    /\ UNCHANGED <<inputs, secrets, runtime, alive, typed>>

\* bind_cleanup_failure: a bind_run that failed gives its panes up.
BindCleanup == [Idle EXCEPT !.op = "finalize", !.phase = "finalize",
                            !.todo = Owned]

\* pause_for_reconciliation
PauseRun ==
    /\ At("pause")
    /\ LET failed == IF job.op = "bind" THEN BindCleanup ELSE Idle
       IN  \/ /\ run' = "paused"
              /\ job' = IF job.warned THEN Idle ELSE failed
              /\ UNCHANGED budget
           \/ /\ Fault("commit")
              /\ job' = failed
              /\ UNCHANGED run
    /\ UNCHANGED <<files, done, exited, alive, service, typed>>

-----------------------------------------------------------------------------
(* Requests, one at a time.  One that fails to commit changes nothing.     *)

\* bind_run on the run as it is, with the binding it asks for.
BindRun ==
    /\ At("idle")
    /\ run = "running"
    /\ binds < MaxBinds
    /\ binds' = binds + 1
    /\ \E c \in Commands :
        job' = [Idle EXCEPT !.op = "bind", !.phase = "bind", !.command = c]
    /\ UNCHANGED <<files, runtime, alive, service, typed, faults, stops, kills>>

\* A request that changes the runtime; it may settle an activation.
Request ==
    /\ At("idle")
    /\ run = "running"
    /\ done' \in {done} \cup {done \cup {a} : a \in Running}
    /\ Reconcile(Activations \ done')
    /\ UNCHANGED <<files, run, exited, alive, service, typed, budget>>

\* The pause_run control.
Pause ==
    /\ At("idle")
    /\ run = "running"
    /\ run' = "paused"
    /\ UNCHANGED <<files, done, exited, alive, service, job, typed, budget>>

\* resume_run without a resolution; with one, Resolve leads here.
Resume ==
    /\ At("idle")
    /\ run = "paused"
    /\ live.ambiguous = Nothing
    /\ job' = [Idle EXCEPT !.op = "resolve", !.phase = "resume"]
    /\ UNCHANGED resting

Refusals == {n \in DOMAIN dlog : dlog[n].kind = "input_delivery_not_submitted"}

\* What an operator may say of an input in doubt.
Outcomes == {"submitted", "not_submitted"}

\* An operator says what became of an input in doubt; the barrier is named by
\* the number of its event, which must be the only one.
Resolve(k, outcome) ==
    /\ At("idle")
    /\ run = "paused"
    /\ k \in DOMAIN live.ambiguous
    /\ \A other \in DOMAIN live.ambiguous :
          live.ambiguous[other] = live.ambiguous[k] => other = k
    /\ LET then == [Idle EXCEPT !.op = "resolve", !.phase = "resume"]
       IN  \/ /\ outcome = "submitted"
              /\ AppendEvent(FinishEvent(k), Finished(k), then)
              /\ UNCHANGED typed
           \/ /\ outcome = "not_submitted"
              /\ Cardinality(Refusals) < MaxRefusals
              /\ AppendEvent([kind |-> "input_delivery_not_submitted",
                              key |-> k, started |-> live.ambiguous[k]],
                             [live EXCEPT !.ambiguous = Without(@, k),
                                          !.submitted = Without(@, k)],
                             then)
              /\ typed' = IF dlog' = dlog THEN typed
                          ELSE [typed EXCEPT ![Input(k)] = 0]
    /\ UNCHANGED <<inputs, secrets, runtime, alive>>

\* The run goes on only when no input is in doubt.
ResumeRun ==
    /\ At("resume")
    /\ \/ /\ live.ambiguous # Nothing
          /\ job' = Idle
          /\ UNCHANGED <<run, budget>>
       \/ /\ live.ambiguous = Nothing
          /\ run' = "running"
          /\ Reconcile(Running)
          /\ UNCHANGED budget
       \/ /\ live.ambiguous = Nothing
          /\ Fault("commit")
          /\ job' = Idle
          /\ UNCHANGED run
    /\ UNCHANGED <<files, done, exited, alive, service, typed>>

\* The stop_run control and the requests that complete the run.
EndRun ==
    /\ At("idle")
    /\ run # "ended"
    /\ run' = "ended"
    /\ done' = Activations
    /\ job' = [Idle EXCEPT !.op = "finalize", !.phase = "finalize",
                           !.todo = Owned]
    /\ UNCHANGED <<files, exited, alive, service, typed, budget>>

\* send_message: an identity is sent once, unless it was refused.
SendMessage(a, m) ==
    /\ At("idle")
    /\ \A k \in DOMAIN live.ambiguous \cup DOMAIN live.submitted : k[2] # m
    /\ a \in Running \cap Owned
    /\ job' = [Idle EXCEPT !.op = "message", !.phase = "start",
                           !.act = a, !.role = m]
    /\ UNCHANGED resting

-----------------------------------------------------------------------------
(* What the agent in a pane asks for.                                      *)

\* The participant of the current pane of an activation, which can prove it
\* with the credential in its private file.
ExactBinding(a) ==
    a \in Owned /\ Pane(a) \in live.started /\ HasSecret(Pane(a))

\* Its agent was launched and can ask for something.
Participant(a) == ExactBinding(a) /\ typed[KeyOf(a, "launch")] > 0

\* bind_participant; while the run goes on the prompt follows.
BindParticipant(a) ==
    /\ At("idle")
    /\ Participant(a)
    /\ LET p == Pane(a)
           then == IF run = "running"
                   THEN [Idle EXCEPT !.op = "session", !.phase = "pick",
                                     !.todo = {a}]
                   ELSE Idle
       IN  IF p \in live.bound
           THEN job' = then /\ UNCHANGED <<dlog, service, budget>>
           ELSE AppendEvent([kind |-> "participant_bound", act |-> p[1],
                             gen |-> p[2]],
                            ParticipantBound(live, p), then)
    /\ UNCHANGED <<inputs, secrets, runtime, alive, typed>>

\* participant_stop settles an activation, and perhaps the run; nothing is
\* reconciled.
ParticipantStop(a) ==
    /\ At("idle")
    /\ Participant(a)
    /\ Pane(a) \in live.bound
    /\ a \notin done
    /\ done' = done \cup {a}
    /\ run' \in IF done' = Activations THEN {run, "ended"} ELSE {run}
    /\ UNCHANGED <<files, exited, alive, service, job, typed, budget>>

\* participant_exited: the exit fails an activation that is not settled.
ParticipantExited(a) ==
    /\ At("idle")
    /\ Participant(a)
    /\ ~HasExited(Pane(a))
    /\ exited' = exited \cup {Pane(a)}
    /\ done' = done \cup {a}
    /\ UNCHANGED <<files, run, alive, service, job, typed, budget>>

\* reconcile_exited_participant, once the response was acknowledged; the
\* connection may be lost and other requests come in between.
FinalizeExited(a) ==
    /\ At("idle")
    /\ a \in Exits
    /\ job' = [Idle EXCEPT !.op = "exited", !.phase = "intent", !.act = a]
    /\ UNCHANGED resting

-----------------------------------------------------------------------------
Cleaning == \/ CleanupIntent \/ KillPane \/ ReleasePane \/ CleanupReceipt
            \/ Finalize
Starting == Load \/ LoadCleanups \/ Stale \/ LoadExits \/ Suspend
Allocating == BindFirst \/ Allocate \/ CreatePane \/ BindWindow \/ PublishPane
Actuating == Pick \/ Prepare \/ Launch \/ Prompt \/ PauseRun
Delivering == \/ StartDelivery \/ TypeInput \/ RecordInput \/ PublishInput
              \/ FinishDelivery
Requests == \/ BindRun \/ Request \/ Pause \/ Resume \/ ResumeRun \/ EndRun
            \/ \E k \in DOMAIN live.ambiguous, o \in Outcomes : Resolve(k, o)
            \/ \E a \in Activations, m \in Messages : SendMessage(a, m)
Agents == \E a \in Activations :
            \/ BindParticipant(a) \/ ParticipantStop(a)
            \/ ParticipantExited(a) \/ FinalizeExited(a)

Next == \/ Cleaning \/ Starting \/ Allocating \/ Actuating \/ Delivering
        \/ Requests \/ Agents \/ Shutdown \/ Exit \/ Crash \/ PaneKilled

Spec == Init /\ [][Next]_vars

-----------------------------------------------------------------------------
(* Properties.                                                             *)

Generated(S) == \A x \in S : x[1] \in Activations /\ x[2] \in Generations
Barriers(f) == \A k \in DOMAIN f : k \in Keys /\ f[k] \in 1..Len(dlog)

\* Every variable holds what the code's types and this model's bounds allow.
TypeOK ==
    /\ run \in {"running", "paused", "ended"}
    /\ done \subseteq Activations
    /\ \A S \in {alive, exited, secrets, live.launched, live.settled,
                 live.started, live.bound} : Generated(S)
    /\ inputs \subseteq Keys
    /\ live.tmux \in Commands \cup {"none"}
    /\ \A f \in {live.panes, live.generations, live.cleaning} :
          DOMAIN f \subseteq Activations /\ \A a \in DOMAIN f :
                                                f[a] \in Generations
    /\ \A a \in DOMAIN live.allocating :
          live.allocating[a] \in [gen : Generations, command : Commands]
    /\ Barriers(live.ambiguous) /\ Barriers(live.submitted)
    /\ count \in 0..Len(dlog)
    /\ job.phase \in Phases \cup {"down"} /\ job.op \in Ops
    /\ job.todo \subseteq Activations
    /\ typed \in [InputIds -> Nat]

\* Between requests the service holds what a restart would replay from the
\* log, as long as no failed append has left a line behind: fields updated
\* request by request and replay_driver_events agree.
ReplayAgrees == At("idle") /\ count = Len(dlog) => live = Replay(dlog)

\* The panes that are owned, wanted or being cleaned up.
Known(s) == {<<a, s.panes[a]>> : a \in DOMAIN s.panes}
            \cup {<<a, s.allocating[a].gen>> : a \in DOMAIN s.allocating}
            \cup {<<a, s.cleaning[a]>> : a \in DOMAIN s.cleaning}

\* A pane exists in tmux only while the log can lead a driver to it: neither a
\* failing append, nor a failing tmux command, nor a crash anywhere loses one
\* (ensure_identified_tmux_pane, complete_tmux_pane_cleanup).
NoOrphanPanes == alive \subseteq Known(Replay(dlog))

\* A driver that starts gets going unless something fails while it does: the
\* state it replays never stops it ("replays durable state",
\* docs/architecture.md:160; complete_tmux_pane_cleanup refuses a cleanup that
\* is not that of the pane it owns).
RestartSucceeds ==
    [][job.op = "load" /\ ~At("exit") /\ job'.phase = "exit"
       => faults' > faults]_vars

\* An operator names a barrier by the number of the event that started it, so
\* no two barriers have the same (delivery_for_resolution).
BarriersAreDistinct ==
    \A j, k \in DOMAIN live.ambiguous :
        live.ambiguous[j] = live.ambiguous[k] => j = k

\* Reconciling leaves no activation behind: when bind_run or a reconciliation
\* is over and the run goes on, every running activation has a pane and its
\* agent's launch was submitted.  Whatever stands in the way pauses the run
\* (requires_pause, pause_for_reconciliation).
NoneLeftBehind ==
    [][/\ job.op \in {"bind", "request"} /\ job' = Idle /\ run' = "running"
       /\ faults' = faults
       => \A a \in Running : a \in Owned /\ Pane(a) \in live.launched]_vars

\* No input is typed twice unless an operator has said in between that it did
\* not arrive, whatever fails and whenever the driver dies.
Once == INSTANCE InputOnce WITH Inputs <- InputIds
ImplementsInputOnce == Once!Spec
=============================================================================
