# TLA+ verification of humanize-plugin

This directory holds TLA+ models of the run-time core of `humanize-plugin`
(`src/`), the TLC configurations that check them on small instances, and TLAPS
proofs about them. Source paths below are relative to `src/src/`.

## The system

`humanize-plugin` runs *flows*: graphs of nodes whose activations are AI agents
or shells in tmux panes, and whose routes fire when artifacts or facts appear.

| Part | State it keeps | Operations | Hard behaviour |
|---|---|---|---|
| Runtime kernel (`runtime/`, `kernel/`) | event-sourced run, activations, artifacts, board, applied routes, stop attempts | `tick` (observe, validate, route, actuate, complete), start, pause, resume, stop, deliver, fan out | stale route plans, activation limit, stop attempts, runs that end and start again |
| Flow authoring (`flow/`) | drafts, locks, packages | check, lock, verify, preview | pure functions |
| Driver service (`driver/mod.rs`, `ipc.rs`) | the runtime, replayed driver facts, persisted event count | one request at a time under one mutex, from 32 IPC connections, the console and the exit path | candidate state versus reconciled state, connection limit |
| Publication (`driver/publication.rs`, `run_assets/publication.rs`) | private log, outbox, ledger, ordinal file | commit, reconcile, repair | failures and crashes between any two steps |
| Public journal (`run_assets/journal.rs`, `records.rs`) | `records/events.jsonl`, seal, quarantine | idempotent append, preflight, seal, repair | partial batches, torn tails, invalid seals |
| Driver events (`driver/persistence.rs`) | `driver/driver-events.jsonl` | append, replay | torn tails and duplicate sequence numbers in a living process |
| Delivery, actuation (`driver/delivery.rs`, `actuation.rs`, `capabilities.rs`) | ambiguity barriers, submitted deliveries | start, finish, resolve | a crash after typing and before recording |
| Pane ownership (`driver/tmux_ownership.rs`, `run_lifecycle.rs`) | panes, allocation generations, pending cleanups | allocate, bind, release, capture, clean up | panes that die, stale generations, retries |
| Participants (`driver/participant.rs`) | bindings with credentials | start, bind, stop, exit | exit racing stop, stop without allocation |
| MCP server (`mcp/`) | registry of sessions, attach lock (`driver/recovery.rs`) | start, attach or replace a driver | two servers replacing one driver |
| Review store (`review.rs`) | prepared records, decisions | prepare, decide, authorize | two decisions racing |
| Capture (`pipe_sink.rs`, `adapters/tmux/`) | pane output, completion files, input ledger | capture, complete, inject | completion racing the end of the pane |

The parts meet as follows. An MCP server starts the driver of a run, or replaces
one that is gone, and proxies tool calls to it over a Unix socket. The driver
holds its mutex for a whole request: it reconciles the publication outbox, lets
a handler compute a *candidate* runtime state from the one in memory, and
commits it through the publication pipeline; after the commit it allocates panes
and actuates activations, which it records as driver events. On start the driver
replays the two logs, reconciles the outbox and pauses a run that was running.
`PROJECT.json` lists every part with what is modelled of it, and the hazards at
their lines.

## Plan

In the order of work, the most important behaviour first. Done:

1. **Publication** with its abstract specification **CommittedLog** - the
   commit pipeline every mutation goes through, under failures and crashes, with
   proofs in **PublicationProofs**.
2. **RuntimeFlow** - one run as the kernel schedules it, behind the requests of
   the driver, with proofs in **RuntimeFlowProofs**.
3. **Delivery** over **DriverEvents**, with its abstract specification
   **InputOnce** - panes, their cleanup, and the inputs typed into them, under
   failures and crashes, with proofs in **DeliveryProofs** and **DeliveryTypes**.
4. **Capture** - the capture of one pane by the pipe helper, next to the driver
   that starts it, waits for it and settles it, with proofs in **CaptureProofs**.
5. **Journal** - what the transactions of all operations publish, what is owed to
   the public journal, its recovery and its seal, with proofs in **JournalTasks**
   (the tasks an operation has left) and **JournalProofs**.
6. **Attach** - several MCP servers that start, reach and replace the drivers of
   one run, with proofs in **AttachProofs**.

Left, in this order:

7. **Review** and **InputTransaction** - two small protocols; the connection limit
   of the IPC server; torn tails of the driver-event log.
8. The panes that activations routed by RuntimeFlow need: Delivery composed with
   RuntimeFlow.
9. **FlowCheck** - the flow check and lock as operators, against a reference
   definition.

## What is modelled

### CommittedLog and Publication

`CommittedLog` is what the pipeline promises a client: a request commits its
whole batch of runtime events or none, once; the next one commits only when the
public journal tells of everything before it; "ok" is said of nothing unsettled.

`Publication` is the pipeline itself. One mutex guards `RuntimeDriverService`, so
one operation runs at a time, and `pc` is the place it has reached; between two
places an error or the end of the process may come.

| State | Code |
|---|---|
| `log`, `tail` | `driver/events.jsonl`: the request behind each event, and the shape of the last line |
| `manifest` | `run-assets.json`, by the last request that wrote it |
| `outbox`, `ledger`, `ordinal` | `driver/publication-outbox`, `-ledger`, `-sequence` |
| `journal` | `records/events.jsonl`: what each public record tells of |
| `mem`, `persisted` | `self.driver`, `self.persisted_event_count` |
| `entry`, `next`, `ret` | who issued the operation, `next_driver`, what a reconciliation returns to |

| Place | Code | Actions |
|---|---|---|
| `down`, `load`, `ready` | `RuntimeDriverService::load` and its suspension of a running run | StartDriver, LoadRecover, LoadComplete, LoadSuspends |
| `reconcile` | `reconcile_publication_outbox` | ReconcileDone, ReconcilePrivate |
| `idle` | the mutex is free | IssueIpc, IssueDirect |
| `execute` | an IPC handler computes the candidate state | Execute |
| `check` | `commit_runtime_with_publication`, `preflight_publication`: nothing new, or seal and preflight | CommitNothing, Preflight |
| `persist`, `create` | `persist_pending`: the ordinal, then the outbox file | TakeOrdinal, CreatePending |
| `apply` | the private append, or the manifest | AppendPrivate, WriteManifest |
| `publish`, `ack` | the public records one by one; outbox file renamed into the ledger | PublishRecord, Published, Acknowledge |

A fault happens at any place: nothing was done (`StepFails`), the process died
while idle (`CrashIdle`), part of a line was written (`AppendTorn`), or the step
took effect and an error was reported (`...Unsynced`). Each either fails the
operation (the client hears an error and the driver lives on, unless it was
loading or exiting) or kills the process (`Abort`).

Abstractions: an event is the request that caused it; a public record is its
identity and what it tells of; the two flow events without public record are
left out; `repair_publication_projections` appends nothing, by `LedgerIsHistory`
(what else it does is in Journal). How servers replace drivers is in Attach.

### RuntimeFlow

One run as `runtime/` schedules it behind the requests of `driver/mod.rs`. A
request changes a copy of the runtime, ticks it and commits it under the mutex,
so requests do not interleave; what is hard is inside one tick, whose steps are
therefore actions:

| `pc` | Code | Actions |
|---|---|---|
| `preview` | `scheduling_enabled`, `preview_flow_routes` of the lock in force | PreviewRoutes |
| `route` | the loop over the previews and `apply_route_plan` | SkipRoute, ExhaustLimit, FireRoute, RoutesDone |
| `actuate` | pending activations are started within the budget | Actuate |
| `complete` | `complete()`: stop, block, complete or go quiescent | StopRun, BlockRun, SettleRun, KeepRun |
| `after` | allocation of panes and actuation after the commit | ReconcilePostCommit |
| `idle` | the state is committed, a request may come | the requests |
| `down` | the driver is gone | DriverRestart |

`kind` tells the three ticks of the code apart: a *full* one is followed by the
reconciliation of panes, that of a participant's stop is not, and that of an
exiting driver is given no flow locks. `status`, `reason`, `mode`, `limit`,
`lock`, `acts` and `facts` are the fields of the run; `plans` and `budget` are
local to a tick. An activation is known by node, stable key and generation, of
which its name is made. `requests` only bounds the model.

Abstractions: the transient states `Starting` and `ValidatingStop`, which no
request sees, are collapsed; a refused request or a failed commit leaves the
state as it was and is no action; `ControlCommand::StartRun` and ticks of several
rounds occur in tests only; the driver passes one observation per tick, so that
no yield decision is reached; names of activations are taken as distinct (a
hazard in `PROJECT.json`); the stop contract of a node and the nodes themselves
are the same in every lock; the context keys of a fan-out are not modelled as
artifacts; the value of a payload is its number of lines; pending activations are
started in any order where the code takes that of their names. What happens to
panes and bindings is Delivery's: here it appears as
`ReconcilePostCommit`, which may pause the run.

### InputOnce, DriverEvents and Delivery

`InputOnce` is what the driver promises of the inputs it types into panes: once,
and again only after an operator has said that the input did not arrive. An input
is the launch command or the prompt of one pane, or a participant's message.

`DriverEvents` is `driver-events.jsonl` and `replay_driver_events`: `Blank` names
the fields of the service it fills, `Replayed(s, e)` is the body of its loop and
`Replay(log)` the state a starting driver gets.

`Delivery` is the driver that writes this log. One mutex guards the service; `job`
is the operation that holds it, the place it has reached (`phase`), the activations
it has still to visit (`todo`) and whether a warning will pause the run.

| State | Code |
|---|---|
| `dlog`, `inputs`, `secrets` | `driver-events.jsonl`; `machine-inputs.jsonl`, as the deliveries it has a Submitted record of; private binding files |
| `run`, `done`, `exited` | the runtime, as far as panes need it: the run's status, settled activations, recorded exits |
| `alive` | the panes that exist in tmux, by activation and generation |
| `live`, `count` | the service's fields, and `driver_event_count` |
| `typed` | history: how often an input was typed since an operator's word |

| Places | Code | Actions |
|---|---|---|
| `down`, `cleanups`, `stale`, `exits`, `suspend` | `load` | Load, LoadCleanups, Stale, LoadExits, Suspend |
| `bind`, `stale`, `allocate`, `create`, `window`, `publish` | `ensure_tmux_for_activations`, `ensure_identified_tmux_pane` | BindFirst, Stale, Allocate, CreatePane, BindWindow, PublishPane |
| `pick`, `prepare`, `launch`, `prompt` | the loop of `actuate_activations` | Pick, Prepare, Launch, Prompt |
| `start`, `type`, `record`, `publishing`, `finish` | `start_input_delivery` ... `finish_input_delivery` | StartDelivery, TypeInput, RecordInput, PublishInput, FinishDelivery |
| `pause` | `pause_for_reconciliation`, `bind_cleanup_failure` | PauseRun |
| `intent`, `kill`, `release`, `receipt` | a pane's cleanup, `complete_tmux_pane_cleanup` | CleanupIntent, KillPane, ReleasePane, CleanupReceipt |
| `finalize`, `exit` | `finalize_terminal_node_panes`, `finalize_for_exit` | Finalize, Exit |
| `resume` | `control` after a resolution | ResumeRun |
| `idle` | a request may come | BindRun, Request, Pause, Resume, Resolve, EndRun, SendMessage, BindParticipant, ParticipantStop, ParticipantExited, FinalizeExited, Shutdown |

The process may end at any place (`Crash`) and a pane may be killed at any moment
(`PaneKilled`). `FaultKinds` says what else fails: an append with nothing written
(`append_lost`) or with its line durable (`append_kept`), a tmux command, a commit
of the runtime or of a public record. The counter is not advanced by an append
that fails, as in `append_driver_event`.

Abstractions: all activations exist from the start and all are agent nodes of the
lock in force (routing is RuntimeFlow's), so that the branches of `actuate_activations`
for nodes without an agent, of another lock and of humans are not here; a commit that fails has no later effect here
(Publication models the pending transaction); the capture of a pane and its manifest
entry are one outcome of `Prepare` and `KillPane`, where a capture that has ended
means a pane that has (Capture has the steps); a pane is known by the identity its
intent gives it and windows outlive panes; the text of an input is that of its
delivery, so that the ledger of inputs is searched by delivery; a half-written
line of the log is left out; what an operator says is true when they say
"submitted", and `typed` is reset when they say "not submitted". Binding files
stay when a pane is released: without the pane they authorise nothing.

### Capture

The capture of one pane. What the pane writes goes through `tmux pipe-pane` to a
helper (`humanize-plugin --pipe-sink`), which appends it to a transcript. The
driver starts the capture before anything is typed and settles it when it cleans
the pane up. Both sides talk through files: the helper's acknowledgement that it is
ready, and its completion. Driver, helpers, tmux and agent are concurrent.

| State | Code |
|---|---|
| `entry` | the activation in `run-assets.json`: `capture_phase`, whether it was acknowledged, `resource_cleanup_status` |
| `facts` | what `driver-events.jsonl` says: the capture's intent, the capture that started, a pending cleanup, whether the pane is owned |
| `transcript`, `screen`, `ready`, `completion` | the transcript's length, `final-capture.txt`, the helper's files by path |
| `pane`, `pipe`, `helpers` | tmux, and each helper with what it was sent and has written |
| `epoch`, `nonces`, `held`, `job` | the driver: its process (which names its files), nonces, `tmux_pipe_captures`, the operation at its place |

| Places | Code | Actions |
|---|---|---|
| `open`, `ack`, `copy`, `done` | `append_reader_to_pipe_log_under_root_with_completion` | HelperOpen, HelperAck, HelperCopy, HelperFinish, HelperExit |
| `intent`, `pipe`, `await`, `started`, `mark`, `unlink` | `ensure_activation_capture_started` | Prepare, RecordIntent, PipePane, AwaitAck, RecordStarted, MarkAcknowledged, RemoveAck |
| `inspect`, `probe`, `kill`, `settle`, `wait`, `process`, `finalize`, `cleaned`, `remove`, `release`, `receipt` | `complete_tmux_pane_cleanup` | CleanUp, Inspect, Probe, Kill, Settle, AwaitCompletion, CheckProcess, Finalize, MarkCleaned, RemoveCompletion, Release, Receipt |
| `down`, `idle` | `load` | Crash, Load |

The agent writes (`Write`) once it may have been typed into the pane, the pane ends
(`PaneEnds`), a helper is killed (`HelperKilled`). `pipe-pane -o` is a toggle, as in
tmux: it closes a pipe that is there.

Abstractions: one allocation (another has files of its own); output is counted in
chunks; a failed append or commit writes nothing (Publication and Journal have the
rest); the identity of a helper's executable and of its open transcript is its
number; a deadline that passes though an answer would come is a fault `timeout`.

### Journal

What the transactions of `Publication` contain, so that the public journal can be
related to its seal. An operation of the driver is `job`: its name and the tasks it
has left; each task is an action, and a failing one ends the operation, a load or
a shutdown with the process. The driver's mutex lets one operation run at a time.

| State | Code |
|---|---|
| `events`, `torn`, `fragment` | `records/events.jsonl`, a line cut short at its end, and `records/quarantine` |
| `seal`, `public` | the records `journal-seal.json` covers, and the journal's status in the public manifest |
| `manifest` | `run-assets.json`: preservation and cleanup of each activation, the revised flow |
| `log`, `facts` | what the runtime log says of the run; what `driver-events.jsonl`, participants' bindings, the ledger of inputs and the revision's file say |
| `outbox`, `ledger` | the pending transaction and the published ones, with manifest, log and records |
| `cursor`, `known` | the journal writer's cached state; whether the driver has the revised flow among its locks |

| Tasks | Code | Actions |
|---|---|---|
| `outbox`, `gate`, `owed` | what precedes each mutation: `reconcile_publication_outbox`, `reconcile_public_seal`, `reconcile_publication_obligations` | ReconcileOutbox, Gate, ReconcileObligations, PublishFlow, PublishBinding |
| `begin`, `private`, `append`, `project`, `acknowledge` | a transaction | Begin, ApplyPrivate, AppendRecord, Project, Acknowledge |
| `finalize`, `cleanup`, `kill`, `preserve`, `clean`, `release`, `fail` | the cleanup of panes | CleanupAll, CleanupIntent, KillPane, Preserve, MarkClean, ReleasePane, Fail |
| `repair`, `suspend` | the rest of `load` | RepairProjections, Suspend |
| `allocate`, `bind`, `type`, `file`, `available` | what an operation writes before it publishes | AllocatePane, RecordBinding, TypeInput, WriteRevision, PublishAvailable |

The requests are Activate, Bind, Hook, Deliver, Revise, Rebind, Finish, StopRun and
Exit; Shutdown, Crash and Load end and start a driver. A failure writes nothing
(`io`), half a line (`torn`) or a line of which an error is reported (`kept`); a
pane may fail to be killed (`tmux`).

Abstractions: a record is its kind and activation; the run starts with a flow
revision and no activation, and one revision follows; sessions of an agent are one
per activation; how a capture ends is Capture's. Mutations of the manifest that no
code of the driver calls (`record_activation_store_failure`,
`record_preservation_error`, `mark_flow_revision_failed`,
`register_expected_activation`) are left out, and so is the index of records, which
is rebuilt from the journal.

### Attach

Several MCP servers against the drivers of one run, as processes over the three
files that make a driver reachable, and the lock file they share.

| State | Code |
|---|---|
| `token`, `ipc`, `sock` | `ipc-token`, `ipc.json`, the socket file and who has bound it |
| `manifest`, `bound` | whether the run has a manifest; whether it is bound (`events.jsonl` exists) |
| `operator` | the driver whose pane the driver log says is the operator's (`driver_pane_owned`, `driver_pane_released`) |
| `drivers` | each driver process: its place in `run_driver`, its token, whether it is asked to end, the operator it has loaded (`prior`) |
| `servers` | each server: its place, whether it holds `attach.lock`, the driver it has launched, the operator it has read of (`owned`) |
| `fresh`, `left` | history: whether the run had just been named, whether a server has left a driver it had launched |

| Places | Code | Actions |
|---|---|---|
| `lock`, `client`, `probe`, `token`, `launch`, `ready`, `confirm`, `request` | `attach_or_restart_driver` and the proxied tool | TakeLock, FindClient, Probe, WriteToken, Launch, AwaitReady, Confirm, Proxy |
| `stale`, `unlink`, `files` | `cleanup_stale_driver_ipc`, `cleanup_driver_ipc_artifacts` | CheckSocket, RemoveSocket, CleanFiles |
| `bind` | `run_flow` | BindRun |
| `undo`, `await`, `kill` | `cleanup_driver_startup` | AskShutdown, AwaitShutdown, KillDriverPane |
| `starting`, `clearing`, `loading`, `registering`, `binding`, `metadata`, `serving` | `run_driver` until it serves | StartDriver, ClearSocket, LoadRun, RegisterPane, BindSocket, WriteMetadata |
| `draining`, `finalizing`, `closing`, `leaving` | its end | Drain, StopListening, FinishDriver, CloseSocket, LeaveRun |

A driver dies (`DriverDies`) or is told to quit (`Quit`), a server ends with its
client (`ServerEnds`), which releases its lock and leaves the driver it launched
without anybody who waits for it. A check of a file and its removal are two steps. A
pane that is killed hangs its driver up, which ends it before the handlers of
`process_signal.rs` are there and asks it to end after; a launch of which tmux reports a
failure may have started the driver all the same.

`OneServes`, `ServingIsReached` and `RunComesBack` are stated of runs that are served at
first, and until a server leaves a driver that it has launched (`Kept`). What follows
then is finding 3.
They hold with one failure. With two, TLC finds `ServingIsReached` violated: two drivers
are given up on and live on; the second has found the socket of the first, which died,
and removes the one that a third has bound meanwhile (`driver/storage.rs:137`). With
three processes that end and one failure `OneServes` and `ServingIsReached` still hold.

Abstractions: deadlines are nondeterministic: one that is missed while the other
side makes progress is a fault `slow`, one that waits for what cannot happen
passes; a driver's place is free again when its process is gone; a token that
nobody has any more may be made again; the state that `load` replays is that of
the other modules, and so are the panes of the run's agents, which `KillDriverPane`
kills with the driver's. The report that `driver_cleanup.rs` writes and the arguments of
`run_flow` are left out.

## What the runs check

| Run | Question | Shows |
|---|---|---|
| `publication_ipc` | Is the pipeline a CommittedLog for IPC clients, whatever fails? | refinement, memory is a prefix of the log, a pending transaction is published after a restart |
| `publication_all` | Does what is durable stay consistent, with IPC, console and exit? | one replayable transaction, covered torn tails, journal and ledger tell the log, write-ahead |
| `publication_console` | Does a console command keep memory behind the log? | it does not: finding 1 |
| `runtime` | Do routes fire once, whole, within the limit, and is none forgotten? Is rest rest, and an end an end? | yes, whatever is requested, through exits, crashes and restarts, while fan-outs, revisions and resumptions compete for lanes, room and the actions of a tick |
| `runtime_finite` | Does a finite run complete exactly when nothing is left? | it does not: finding 4 |
| `delivery_faults` | Does any one failure with a crash lose a pane, type an input twice, or leave an activation behind? | it does not, and between requests memory is what the log replays to |
| `delivery_kills` | Can a driver always start again, and an operator tell inputs in doubt apart, when panes die and runs are bound again? | yes, as far as panes and inputs go and without failing appends |
| `capture` | Is every capture settled before its pane is given up, and nothing lost or waited for in vain? | yes: a complete capture is whole, a screen once saved stays, helpers and operations end |
| `journal` | Is nothing ever added under a seal, nothing lost, nothing owed, and the end sealed? | yes, with two activations, a revision, one failure and a crash or shutdown |
| `journal_restart` | Can a driver always start again? | it cannot: finding 2 |
| `attach` | Does one driver serve a run at a time, can it be reached, and does the run come back? | yes, of a run that is served, with one failure and two processes that end, until a server leaves a driver that it has launched |
| `attach_left` | Is a run reached again, whatever driver a server has left? | it is not: finding 3 |

### Bounds, and why they are enough

*Publication* (`MaxRequests`, `MaxBatch`, `MaxFaults`): three requests let one
fail, a second one find what it left, and a third one come after; two events make
a batch of which a part could be published; two faults let the recovery of the
first fail, and `publication_ipc` has a third. Restarts spend a request when
they suspend the run, so that the bounds also end the behaviours; hence no
deadlock check. The proved properties hold for all values.

*RuntimeFlow*: the flow of `runtime` has a fan-out over up to two lines, a second
route on the same artifact and a second lock whose two routes share a node, with
three or five activations allowed and three actions in a tick, so that each of the
three can run out, a plan can go stale and a stop is cut in half. Stop contracts fail
once or twice before they block. Five requests (`MaxRequests`) of every kind the
driver serves are bind, deliver, stop, resume, and one after the run has ended;
`LowSpec` binds the run with the first lock and the lower limit only, since the others
are reached by a revision and a resumption. `ActionLimit` is 32 in the code; the model
makes it small so that it matters. `runtime_finite` is a chain of two nodes: six
requests are what its trace takes. It leaves out the exits of participants, which
violate its property in two requests already, so that the trace shows the other
direction.

*Delivery*: one activation already has every step of a cleanup, an allocation
and two deliveries to fail or die in. One fault and one crash or shutdown
(`MaxFaults`, `MaxStops`) let a recovery find what a failure has left;
`delivery_kills` trades the fault for a pane killed from outside, a second
`bind_run` (a second generation) and a refusal (`MaxKills`, `MaxBinds`,
`MaxRefusals`). The bounds also end the behaviours, hence no deadlock check.
What holds under these bounds fails under others, which the hazards name: with
two commands rebinding forgets panes (`NoOrphanPanes`), and an append that is
kept though it reported an error gives two barriers one number
(`BarriersAreDistinct`, therefore checked without faults).

*Capture*: two chunks of output let a helper be behind by one; two cleanups and three
preparations let each be tried again, with two failures and a crash, which is what
it takes to have a second helper at the same transcript, and a third preparation
finds what a cleanup that was cut off has left. *Journal*: two activations
let one be cleaned up before the other and the manifest of a transaction differ from
the current one; four requests are an activation, its binding or input, an end and
a cleanup; two loads let a second one find what the first left (`MaxLoads` also
keeps loads that fail from adding to the ledger for ever). The activations are
symmetric: the run has no liveness property, and the model takes panes in any order.
*Attach*: two servers and two places for drivers, five tokens (there may always be a
new one) and one failure. Of a run that is served two processes end: a driver, and the
server that replaces it or the next driver. Of a run that has just been named none
ends, since nothing is promised of it before it is bound. `attach_left` has the same
two ends, and no failure. Where a bound stops a system,
deadlock is not checked, and the configuration says so.

### Fairness

- `publication_ipc`: weak fairness of `Recovery \/ Pipeline`. A dead driver is
  replaced (`mcp/driver_attach.rs`), and a live one, which runs the operation on one
  thread without waiting for anybody, finishes it.
- `capture`: weak fairness of the helpers' steps and of the driver's operation. They
  are threads and processes the system schedules; neither holds what the other
  needs. Nothing is assumed of the agent, of tmux, or that requests come.
- `attach`, `attach_left`: weak fairness of each server's and each driver's steps, for the same
  reason, and of each server's requests: `RunComesBack` and `AlwaysAttached` say that the run is
  reached again and again if somebody keeps asking for it. A driver that serves is not made
  to end.

Faults are finite because of `MaxFaults`: a disk that fails for ever publishes
nothing. `RuntimeFlow`, `Delivery` and `Journal` state safety only, since every
operation of theirs waits for a request from outside.

## What is proved

`PublicationProofs` proves, for every number of requests, batch size, number of
faults and set of entries, from `EntriesAssumption` and `BoundsAssumption`:

- `TypeCorrect`: the type invariant. `Control` is added to make it inductive:
  where the operation is says whether a transaction is pending and a request is
  in hand, without which `Head(outbox)` has no type.
- `TornTails`: a torn last line is always covered by the pending transaction.
- `Replay`: at most one transaction is pending and it is always replayable
  without conflict.
- `WritesAhead`: log and manifest only change to what that transaction says.

The inductive invariant is `TypeInv /\ StateInv`, where `StateInv` joins
`TornInv` (a torn tail comes with a pending batch that is not yet in the log,
and with no commit under way), `LogInv` (the log ends where the pending batch
begins, or holds it, and which of the two by place), `ManifestInv` (the same of
the manifest), `SyncInv` (the persisted count is the length of the log unless a
batch is pending) and `JournalInv` (a runtime record of the journal tells of the
event of the log with its number). None is inductive alone: that a torn tail is
covered needs to know where the batch begins, that needs the persisted count,
and that no record conflicts needs both. `Safety` states the whole, and the
theorems follow from it.

The second half of the module starts from there. `StepKind` sorts the steps by what
they do to the log, the outbox, the ledger and the journal: nothing (`Calm`), append the
pending batch to the log (`Grows`), publish a record (`Publishes`), move the
transaction to the ledger (`Settles`), write one ahead (`Creates`). From the same
assumptions:

- `JournalTells`: the public journal tells the private log, in order and whole. Its
  invariant `TellInv` says that records are keyed by their rank, that what is told
  lies between the settled part and the end of the log, and that it is all of the log
  when a batch is acknowledged: a record is published if and only if its number is at
  most the number told, which is why the next one to be published is the next event.
- `LedgerHistory`: the ledger is the settled part of the log, without a gap and
  published, under increasing ordinals. `LedgerInv` and `OrdinalInv` add what is known
  of the pending transaction: announced when it is acknowledged, and of an ordinal
  above those of the ledger.

And where every mutation enters by IPC (`Entries \subseteq {"ipc"}`, a hypothesis
of the two theorems; the console's entries refute both, finding 1):

- `AppliedPersisted`: memory is a prefix of the log.
- `Implements`: the pipeline implements CommittedLog. `Creates` is its `Commit`,
  publishing a runtime record its `Announce`, settling a batch its `Acknowledge`, and
  every other step a stutter (`RefinementStep`).

Their invariant `IpcInv` says that memory is the log unless a batch is pending
(`MemInv`), that a commit finds the outbox empty (`PlaceInv`), that a candidate is the
log with the events of the request in hand (`NextInv`), so that it always has some
(`CommitsSomething`), that what a commit has pending is of that request (`HandInv`, for
the "ok" that names it), and that a request in hand has nothing in the log or the
outbox yet (`FreshInv`, for committing once).

`RuntimeFlowProofs` proves of RuntimeFlow, for every flow, number of nodes, limits
and set of requests, from `FlowAssumption` (routes are over the flow's facts and
nodes, and nodes are finitely many) and `NumbersAssumption`:

- `TypeCorrect`: the type invariant, with finite plans, numbered generations and a
  budget that is never overdrawn.
- `LimitIsAbsolute`, `RestSettles`: never more activations than the limit; a run at
  rest has only settled ones.
- `TriggersFireOnce`, `SettledIsFinal`, `RunsEndOnce`: a trigger fires once; what is
  settled stays; an ended run neither starts again nor grows.
- `FanoutsAreWhole`: a latest trigger has exactly the activations of its artifact.
- `RoutesAreCurrent`: `RoutesKeepUp`, between requests no route is left to fire unless
  the actions ran out or another route activates its node.

The argument is one lemma, `StepActs`: every step either adds activations (`Adds`:
new identities, with room, under no trigger or an unapplied one, to a run that goes
on) or keeps the ones there are (`Keeps`). It needs `RouteInv`: previews are left
only while routes are applied and scheduling is on, else a plan could be applied to
a run that has ended. That new identities are new rests on `MaxExists`, a largest
generation in every lane. `FanoutsAreWhole` adds `FreshInv` (previews were computed
from the facts as they still are) and `TriggerInv` (a trigger's version is one there
has been), without which a redelivery could make an old trigger the latest again.
`RoutesAreCurrent` follows the routes through a tick: `LeftInv` says that the previews
left are those of the last routes and still tell what these have to fire (`IsTold`),
`KeepUpInv` that the routes before them have nothing to fire (`QuietUpTo`). A preview
goes stale only by the firing of a route of the same node, which is the exception.

`AttachProofs` proves of Attach, for any servers, places for drivers and tokens,
from `IdsAssumption` and `FirstAssumption` (the driver that serves at first, if
there is one, has a place and a token):

- `TypeCorrect`: the type invariant. `CleanupGoesOn` is what makes it inductive: a
  server that clears files away knows where it goes on.
- `LockIsExclusive`: at most one process holds the attach lock. Each step of a server
  or a driver is a turn of its own (`Turns`, `DriverTurns`) which takes the lock only
  when it is free.

`CaptureProofs` proves of Capture, for any bounds and any kinds of failure:

- `TypeCorrect`: the type invariant, and that a transcript holds no more than the
  agent wrote. That needs `RoomInv`, which counts what helpers were sent and have not
  written (`Queued`), since an abandoned helper may still write.
- `Released`: a pane is given up only when the manifest says what became of its
  capture. `ReleaseInv` follows a cleanup from the step that records it to the release.
- `ScreenStays`: the last screen of a captured pane that was killed is kept.
  `ScreenInv` says that the operation that kills knows that there is a capture.
- `CompletesWhole`: a capture becomes complete only when its helper is gone and has
  written all it was sent. `HelpersInv` says what a completion file means, and
  `SettledInv` what the driver has found out of the helper it holds; `IntentInv` keeps
  a capture from being started twice on the way.

`JournalProofs` proves of Journal, for any set of activations, bounds and kinds of
failure:

- `TypeCorrect`: the type invariant; what an operation has left is always made of its
  own tasks.
- `SealFinal`: nothing is added to a journal that is sealed.
- `TerminalSealed`: with nothing pending, the journal of an ended run whose panes are
  cleaned up is sealed.
- `CommittedKept`: the journal only grows at its end, and no record is in it twice.
- `OwedAreTold`: the run is changed only when every binding, exit, input and applied
  flow the driver has on record is in the journal.

An operation is a list of tasks, and the proofs are about what may stand in it.
`JournalTasks` proves, of every step, what becomes of that list: `Shaped` (the tasks
of a transaction follow one another, a pane is killed before it is given up, an
operation commits to the log once and first), `Guarded` (what acts on the pending
transaction comes after a look at the outbox), `FileFirst` and `PanesOwned`.
`JournalInv` joins to it `PlaceInv` (what the pending transaction has done at each of
its tasks), `TornInv` (a torn line is put aside before anything is projected),
`PauseInv` and `EndedInv` (a run that has ended stays so, or a seal would be taken
back), `FileInv` and `PanesInv` (an operation finds the file and the pane it works
on), and that no record is in the journal twice.

`OwedAreTold` has an invariant of its own, `CommitInv`. A commit fails halfway and is
taken up by another operation, before that one looks at what is owed: `PendInv` says
that a pending change of the log is the next thing taken up, `OwedInv` that it was
made when nothing was owed or belongs to a load or a shutdown, and `GateInv` that an
operation looks before it commits and nothing comes up in between. `HeardInv` relates
the two places in which something counts as told, the ledger and the journal.

`DeliveryProofs` proves of Delivery, for any activations, messages, commands, bounds
and kinds of failure, from `RolesAssumption`, `BoundsAssumption` and
`MessagesAssumption`:

- `InputOnceImplemented`: the driver implements InputOnce. Only typing is a step of
  it, and everything else a stutter.
- `NoActivationLeft`: a bind_run or a reconciliation after which the run goes on has
  left no running activation without a pane whose launch was submitted.
- `Invariance`: the inductive invariant `Inv` of both. `Safe` says of a driver state
  that it accounts for every input typed into a pane it owns or may own: as
  submitted, or as in doubt behind a barrier. It must hold of what the service holds
  while the driver lives and of what the log replays to when it dies. The two differ
  when an append has failed with its line durable; `Agree` bounds how. `Control`,
  `Allots`, `Actuates` and `Barred` say where an operation may be and what it knows
  of the pane and the input in its hands, `Attended` that every running activation is
  still to be looked at, or has its pane and launch, or a pause is due.

`Replay` is a recursive function of the log, and what it computes is not provable by
induction here. Instead, that it exists and is unique is carried along the run
(`Replayable`): a log grows by one line at a time, and `ReplayAppend` unfolds that
one line. What an event does to `Safe` and `Agree` is a lemma for each of them.

The other theorems are about the log. `Steps` says that a step leaves it alone,
appends to it, or restarts from it; `Writes` what a step may append, given what the
service holds. Field by field:

- `Agreement`, if the run is bound to one agent command in one window (`OneBinding`):
  `ReplayAgrees`. `SyncInv` adds that as long as the lines counted are all there are,
  the service holds at every step what the log replays to. With another binding it
  need not: a window opened for an allocation keeps the live panes, and `tmux_bound`
  replayed drops them (`driver/tmux_ownership.rs:295`, `driver/persistence.rs:217`).
- `BarriersApart`, if no append is kept that reported an error: `BarriersAreDistinct`.
  `NumberInv` bounds the numbers in use, of barriers and of submissions that may
  become barriers, by the number of lines. A kept line is not counted, so that the
  next one gets its number.
- `PanesAreKnown`, under `OneBinding` but whatever fails: `NoOrphanPanes`. `OrphanInv`
  says that every pane there is is owned or wanted in the log, and that the log is
  where the service is or ahead of it by an intent or a pane (`Follows`): a pane is
  created after its intent is durable and forgotten after it is killed or found gone.
- `RestartsSucceed`, under `OneBinding` and if no append loses its line (`LinesKept`;
  it may report an error, and tmux and the commits may fail): `RestartSucceeds`. Its
  invariant `RestartInv` follows the cleanups that the log holds: each is that of the
  pane its activation owns (`Apart`) and of the pane the service has in mind
  (`Paired`), and its pane is still owned, or it is under way, or it waits for its turn
  in a driver that starts (`Owing`). So between operations, when panes are created,
  all are of panes that are owned, and a start, which holds what the log says
  (`InStep`), refuses none. A receipt whose line is lost breaks this, and the property
  with it (see the behaviours below).

`DeliveryTypes` proves of Delivery, without any other hypothesis:

- `TypeCorrect`: the type invariant. Its hard part is that generations stay within
  `Generations`, which the model fixes from its bounds: `RoomInv` counts, for every
  activation, what was spent (runs bound, faults, stops, kills) before it could get
  its next generation. One `bind_run` may take two: one of a pane that is then found
  to be gone, one after it. `RangedInv` bounds the generations in every event of the
  log, and `PlainInv` has the rest, for the service and for what the log replays to.

Only model-checked: of Attach that one driver serves, is reached and comes back, which
hold only under the bounds of their runs. Out of the prover's reach and left to TLC
for good: liveness under fairness and `ENABLED` (`PendingIsPublished`, `HelpersEnd`,
`OperationsEnd`, `RunComesBack`).

## Findings

1. `publication_console`: a console command computes its candidate state before
   the commit reconciles the outbox. After a failed commit that reconciliation
   rolls the pending events forward, and the stale candidate, with no more events
   than are persisted, is installed in memory and answered "ok" without being
   persisted (`driver/mod.rs:935`, `driver/publication.rs:46`).
2. `journal_restart`: `load` projects every published manifest again, with the
   activations it had then, before it takes up the cleanups that are pending. That of
   a flow revision has none, so that the journal of an ended run is sealed
   (`run_assets/journal.rs:587`) while panes are still to be cleaned up. Their records
   are refused and the driver of the run never starts again
   (`driver/publication.rs:113`). The trace: StopRun ends the run, a crash after the
   intent of a cleanup, a start.
3. `attach_left`: the attach lock is held by the server that waits for a new driver,
   not by the driver that comes up (`mcp/driver_attach.rs:89`, `driver/mod.rs:200`).
   When a server ends while its driver A still loads, the next server finds no socket
   and launches B, and both work on the run. A serves; B, which has loaded, takes A's
   pane for the old operator's and kills it; A goes down and, after B has bound the
   socket in its place, removes `ipc.json` and the token of B (`driver/mod.rs:209`). B
   serves from then on and nobody can authenticate to it, so that every attach gives
   up (`mcp/driver_attach.rs:46`).
4. `runtime_finite`: a finite run is documented to complete when no activation or
   trigger remains. The tick of an exiting driver is given no flow locks and finds no
   route pending: a blocked run whose activations have settled is completed with its
   trigger left (`driver/run_lifecycle.rs:366`, `runtime/driver.rs:785`). The other way
   round, no tick follows the exit of a participant: a run whose last activation ends
   that way goes on until some request ticks (`driver/participant.rs:399`).

Behaviours seen while modelling that have no run of their own, each a hazard of
`PROJECT.json` at its line:

- A cleanup whose receipt could not be appended leaves its intent pending, which only
  `load` takes up. `resume_run` gives the activation another pane before that, and
  from then on every start of the driver fails (`driver/run_lifecycle.rs:475`; with
  `append_lost` in `FaultKinds` TLC finds the trace).
- A binding whose publication failed is owed for ever once its pane is cleaned up:
  every load fails (`run_assets/readiness.rs:42`).
- A capture recorded as failed whose cleanup was cut off, and whose completion is
  found afterwards, makes every load fail (`driver/run_lifecycle.rs:605`).
- The first start of a run is made outside the attach lock, and a driver that ends
  removes the socket and the token of whoever came after it
  (`mcp/driver_run_flow.rs:394`, `driver/mod.rs:209`).
- A server that gives up on a driver kills its pane, but the hangup of a driver that
  loads is caught, and for a while the driver works on the run next to that of the next
  server (`driver/mod.rs:119`). With one such failure the run is reached again.
- A running activation whose node is not in the lock in force is passed over without a
  warning, and the run is not paused (`driver/actuation.rs:93`).

## What is not modelled, and why

Steps 7 to 9 of the plan, and for good: rendering (`view/`), client
configuration, JSON-RPC framing and parsing (`mcp/` but its driver supervision),
the wire format, read models, `transcript.rs`, `state_path.rs` and the manual
test harness, which keep no state of a run; the commands of `adapters/tmux/` act
on an external server and become outcomes in the modules that call them. File
permissions and symlink checks are left out, and the credentials of participants,
whose checks are comparisons of arguments. `PROJECT.json` says the same part by
part.
