------------------------------ MODULE Journal ------------------------------
(***************************************************************************)
(* The public journal of a run and its seal.  Whatever the driver does is  *)
(* published by transactions (run_assets/publication.rs): persisted in the *)
(* outbox, applied to private state, appended to the journal record by     *)
(* record, followed by a projection of the manifest and acknowledged.  A   *)
(* projection seals the journal once the run has ended and every           *)
(* activation of its manifest is preserved and cleaned up.  From then on   *)
(* no record may be added.                                                 *)
(*                                                                         *)
(* Publication has the outbox in detail; here the transactions have their  *)
(* content, so that what they publish can be related to the seal.  An      *)
(* operation of the driver is a sequence of tasks.                         *)
(***************************************************************************)
EXTENDS Integers, Sequences, SequencesExt, Functions

CONSTANTS Activations,
          FaultKinds,    \* what may fail
          MaxRequests,   \* bound on requests
          MaxFaults,     \* bound on failures
          MaxStops,      \* bound on crashes and shutdowns
          MaxLoads       \* bound on drivers started

ASSUME FaultsAssumption == FaultKinds \subseteq {"io", "torn", "kept", "tmux"}
ASSUME BoundsAssumption ==
    {MaxRequests, MaxFaults, MaxStops, MaxLoads} \subseteq Nat

VARIABLES
    \* public
    events,    \* the records in records/events.jsonl
    torn,      \* whether a fragment of a line follows them
    fragment,  \* whether records/quarantine holds a torn tail
    seal,      \* the number of records journal-seal.json covers, or 0
    public,    \* the status of the journal in the public manifest
    \* private
    manifest,  \* the activations of run-assets.json, and a revised flow
    log,       \* what the runtime log says of the run
    facts,     \* what driver-events.jsonl says of panes and participants
    outbox,    \* the pending transaction, if any
    ledger,    \* published transactions
    \* the driver
    cursor,    \* how many records its journal writer has seen, or -1
    known,     \* whether it has the revised flow among its locks
    job,       \* the operation under way: its name and the tasks left
    \* history
    requests, faults, stops, loads

disk == <<events, torn, fragment, seal, public>>
private == <<manifest, log, facts, outbox, ledger>>
history == <<requests, stops, loads>>
memory == <<cursor, known>>
vars == <<events, torn, fragment, seal, public, manifest, log, facts, outbox,
          ledger, cursor, known, job, requests, faults, stops,
          loads>>

Empty == [a \in {} |-> 0]
With(f, a, v) == [x \in DOMAIN f \cup {a} |-> IF x = a THEN v ELSE f[x]]

Idle == [op |-> "none", todo |-> <<>>]
Down == [op |-> "down", todo |-> <<>>]

\* A transaction: the manifest or the runtime log it leaves, and its records.
Publishing(m, l, records) == [manifest |-> m, log |-> l, records |-> records]

\* The run has started with a flow revision and no activation.
Init ==
    /\ events = <<<<"revision">>, <<"started">>>>
    /\ torn = FALSE /\ fragment = FALSE /\ seal = 0 /\ public = "open"
    /\ manifest = [acts |-> Empty, flow |-> "none"]
    /\ log = [status |-> "running", exited |-> {}, revised |-> FALSE]
    /\ facts = [panes |-> {}, bound |-> {}, cleaning |-> {}, typed |-> {},
                file |-> FALSE, available |-> FALSE]
    /\ outbox = <<>>
    /\ ledger = <<Publishing(manifest, log, <<<<"revision">>>>),
                  Publishing(manifest, log, <<<<"started">>>>)>>
    /\ cursor = 2 /\ known = FALSE /\ job = Idle
    /\ requests = 0 /\ faults = 0 /\ stops = 0 /\ loads = 0

Fault(kind) == /\ kind \in FaultKinds
               /\ faults < MaxFaults
               /\ faults' = faults + 1

-----------------------------------------------------------------------------
(* Tasks.                                                                  *)

At(task) == job.todo # <<>> /\ Head(job.todo)[1] = task
Of == Head(job.todo)[2]

\* What an operation does when it has done everything.
Ended == IF job.op = "shutdown" THEN Down ELSE Idle

Does(todo) == job' = IF todo = <<>> THEN Ended ELSE [job EXCEPT !.todo = todo]
Next1 == Does(Tail(job.todo))
Push(tasks) == Does(tasks \o Tail(job.todo))

\* finalize_terminal_node_panes goes on with the next pane; everything else
\* returns the error.  A load that fails ends the driver.
Cleanups == {i \in DOMAIN job.todo : i > 1 /\ job.todo[i][1] = "cleanup"}
Erred ==
    IF job.op \in {"stop", "shutdown"} /\ Cleanups # {}
    THEN [job EXCEPT !.todo =
              SubSeq(@, CHOOSE i \in Cleanups : \A j \in Cleanups : i <= j,
                     Len(@))]
    ELSE IF job.op \in {"load", "shutdown"} THEN Down ELSE Idle

Task(name, arg) == <<name, arg>>
Step(name) == <<name, 0>>
Publish(what, a) == <<Task("begin", <<what, a>>), Step("private"),
                      Step("append"), Step("project"), Step("acknowledge")>>

-----------------------------------------------------------------------------
(* The journal.                                                            *)

\* The cursor is as good as a scan while the file is as it left it.
CursorMatches == cursor = Len(events) /\ ~torn
Known == IF CursorMatches THEN SubSeq(events, 1, cursor) ELSE events

\* Mutant: recovery cuts a line too many.
CommittedShort == IF torn THEN Front(events) ELSE events

\* scan_journal_state: a torn tail is put aside and cut off.
Committed == events
Recovered ==
    IF CursorMatches
    THEN UNCHANGED <<events, torn, fragment, cursor>>
    ELSE /\ events' = Committed
         /\ torn' = FALSE
         /\ fragment' = (fragment \/ torn)
         /\ cursor' = Len(events')

Sealed == seal # 0 /\ seal = Len(Known)

\* Mutant: a seal is no obstacle.
RefusedNever(new) == FALSE

\* prepare_event_batch: a seal that does not match refuses everything, one
\* that matches refuses new records.
Refused(new) == seal # 0 /\ (~Sealed \/ new # {})

\* The records the journal does not have, by their places.
New(records) == {i \in DOMAIN records : ~Contains(Known, records[i])}

\* append_private_line.
AppendLine(r) == events' = Append(events, r) /\ UNCHANGED torn

\* has_terminal_finite_runtime_evidence
Terminal(m) ==
    /\ Contains(events, <<"ended">>)
    /\ \A a \in DOMAIN m.acts :
          m.acts[a].preserved /\ m.acts[a].cleanup # "owned"

\* Mutant: only a manifest with activations seals.
SealIfCompleteOfSome(m) ==
    seal' = IF seal = 0 /\ Terminal(m) /\ DOMAIN m.acts # {}
            THEN Len(events) ELSE seal

SealIfComplete(m) ==
    seal' = IF seal = 0 /\ Terminal(m) THEN Len(events) ELSE seal

HasQuarantine == fragment

\* manifest_summary
Summary == IF HasQuarantine THEN "corrupt"
           ELSE IF seal' = 0 THEN "open"
           ELSE IF seal' = Len(events) THEN "sealed" ELSE "corrupt"

-----------------------------------------------------------------------------
(* A transaction.                                                          *)

Acts(a, field, value) == [manifest EXCEPT !.acts[a][field] = value]

\* The state of an activation, told once.
ProbeRecord(state, a) == <<state, a>>

\* Transactions of the manifest, with the records each publishes.
CaptureStarted(a) ==
    Publishing([manifest EXCEPT !.acts =
                   With(@, a, [preserved |-> FALSE, cleanup |-> "owned"])],
               log, <<<<"starting", a>>, ProbeRecord("ready", a)>>)
CaptureEnded(a) == Publishing(Acts(a, "preserved", TRUE), log,
                              <<<<"completed", a>>, ProbeRecord("closed", a)>>)
PaneCleaned(a, outcome) ==
    Publishing(Acts(a, "cleanup", outcome), log,
               <<<<IF outcome = "failed" THEN "unkilled" ELSE "cleaned", a>>>>)

\* A session of an agent that begins to work for the run, for an activation, or
\* ends.
SessionRecord(relation, a) == Publishing(manifest, log, <<<<relation, a>>>>)

\* The agent of an activation is ready.
ReadyRecord(a) == Publishing(manifest, log, <<<<"agent", a>>>>)

\* A hook of an agent's session and the compaction it tells of; told again, it
\* is the same fact.
HookRecord(a) ==
    Publishing(manifest, log, <<<<"hook", a>>, <<"compacted", a>>>>)

\* What was typed into a pane.
InputRecord(a) == Publishing(manifest, log, <<<<"input", a>>>>)

\* The revised flow, as it is prepared and applied.
RevisionRecord(state) ==
    Publishing([manifest EXCEPT !.flow = state], log, <<<<state>>>>)
FlowPrepared == RevisionRecord("prepared")
FlowApplied == RevisionRecord("applied")

\* Transactions of the runtime log; an applied flow makes no record.
RunRecord(status) ==
    Publishing(manifest, [log EXCEPT !.status = status], <<<<status>>>>)
ExitRecord(a) == Publishing(manifest, [log EXCEPT !.exited = @ \cup {a}],
                            <<<<"exited", a>>>>)
FlowRecord == Publishing(manifest, [log EXCEPT !.revised = TRUE], <<>>)

Transaction(what, a) ==
    CASE what = "capture" -> CaptureStarted(a)
      [] what = "preserve" -> CaptureEnded(a)
      [] what = "unkilled" -> PaneCleaned(a, "failed")
      [] what = "clean" -> PaneCleaned(a, "complete")
      [] what = "agent" -> ReadyRecord(a)
      [] what \in {"session", "bound", "left"} -> SessionRecord(what, a)
      [] what = "input" -> InputRecord(a)
      [] what = "hook" -> HookRecord(a)
      [] what = "prepared" -> FlowPrepared
      [] what = "applied" -> FlowApplied
      [] what = "end" -> RunRecord("ended")
      [] what = "pause" -> RunRecord("paused")
      [] what = "exit" -> ExitRecord(a)
      [] what = "revised" -> FlowRecord

\* A commit to the runtime log.
InLog(what) == what \in {"end", "pause", "exit", "revised"}

\* What is left of a commit that finds a transaction pending: it settles that
\* one, and is dropped if the log has grown by it.
AfterPending ==
    IF outbox[1].log = log THEN <<Step("outbox")>> \o job.todo
    ELSE <<Step("outbox")>> \o SubSeq(job.todo, 6, Len(job.todo))

\* reconcile_public_seal: a seal is kept if it matches and the run has ended.
\* quarantine_invalid_seal puts aside one that does not belong there.
Quarantined(terminal) == seal' = IF Sealed /\ terminal THEN seal ELSE 0

\* Preflight and persist_pending.  A manifest that finds a transaction pending
\* is refused; a sealed journal refuses every commit to the log.
Begin ==
    /\ At("begin")
    /\ LET what == Of[1]
           t == Transaction(what, Of[2])
       IN  \/ /\ outbox # <<>>
              /\ IF InLog(what) THEN Does(AfterPending) ELSE job' = Erred
              /\ UNCHANGED <<disk, private, cursor, faults>>
           \/ /\ outbox = <<>>
              /\ Recovered
              /\ IF InLog(what) THEN Quarantined(log.status = "ended")
                                ELSE UNCHANGED seal
              /\ IF \/ Refused(New(t.records))
                    \/ InLog(what) /\ seal' # 0
                 THEN job' = Erred /\ UNCHANGED outbox
                 ELSE outbox' = <<t>> /\ Next1
              /\ UNCHANGED <<public, manifest, log, facts, ledger, faults>>
           \/ /\ outbox = <<>>
              /\ Fault("io")
              /\ job' = Erred
              /\ UNCHANGED <<disk, private, cursor>>
    /\ UNCHANGED <<known, history>>

\* The transaction takes effect.
ApplyPrivate ==
    /\ At("private")
    /\ \/ /\ manifest' = outbox[1].manifest
          /\ log' = outbox[1].log
          /\ Next1
          /\ UNCHANGED faults
       \/ Fault("io") /\ job' = Erred /\ UNCHANGED <<manifest, log>>
    /\ UNCHANGED <<disk, facts, outbox, ledger, memory, history>>

\* publish_record_batch, record by record.  The journal was scanned, and a
\* seal ruled out, when the transaction began or was taken up again.  An append
\* may fail with part of its line written, or all of it.
AppendRecord ==
    /\ At("append")
    /\ LET records == outbox[1].records
           new == New(records)
       IN  \/ /\ new = {}
              /\ Next1
              /\ UNCHANGED <<events, torn, cursor, faults>>
           \/ \E i \in new :
              /\ \A k \in new : i <= k
              /\ ~Refused(new)
              /\ \/ /\ AppendLine(records[i])
                    /\ cursor' = Len(events')
                    /\ UNCHANGED <<job, faults>>
                 \/ /\ Fault("io")
                    /\ job' = Erred
                    /\ UNCHANGED <<events, torn, cursor>>
                 \/ /\ Fault("torn")
                    /\ job' = Erred
                    /\ torn' = TRUE
                    /\ UNCHANGED <<events, cursor>>
                 \/ /\ Fault("kept")
                    /\ job' = Erred
                    /\ AppendLine(records[i])
                    /\ UNCHANGED cursor
    /\ UNCHANGED <<fragment, seal, public, private, known, history>>

\* write_public_manifest_projection, with the manifest of the transaction.
Project ==
    /\ At("project")
    /\ \/ /\ SealIfComplete(outbox[1].manifest)
          /\ public' = Summary
          /\ Next1
          /\ UNCHANGED faults
       \/ /\ Fault("io")
          /\ SealIfComplete(outbox[1].manifest) \/ UNCHANGED seal
          /\ job' = Erred
          /\ UNCHANGED public
    /\ UNCHANGED <<events, torn, fragment, private, memory, history>>

Acknowledge ==
    /\ At("acknowledge")
    /\ \/ /\ outbox' = <<>>
          /\ ledger' = ledger \o outbox
          /\ Next1
          /\ UNCHANGED faults
       \/ Fault("io") /\ job' = Erred /\ UNCHANGED <<outbox, ledger>>
    /\ UNCHANGED <<disk, manifest, log, facts, memory, history>>

-----------------------------------------------------------------------------
(* What precedes a mutation, and what a load does.                         *)

\* reconcile_publication_outbox
ReconcileOutbox ==
    /\ At("outbox")
    /\ IF outbox = <<>>
       THEN Next1 /\ UNCHANGED <<disk, cursor>>
       ELSE /\ Recovered
            /\ Quarantined(FALSE)
            /\ Push(<<Step("private"), Step("append"), Step("project"),
                      Step("acknowledge")>>)
            /\ UNCHANGED public
    /\ UNCHANGED <<private, known, history, faults>>

\* A mutation is refused when the journal is sealed; a load is not.
Gate ==
    /\ At("gate")
    /\ Recovered
    /\ Quarantined(log.status = "ended")
    /\ IF seal' # 0 /\ job.op # "load" THEN job' = Erred ELSE Next1
    /\ UNCHANGED <<public, private, known, history, faults>>

Published == UNION {ToSet(ledger[i].records) : i \in DOMAIN ledger}

\* Mutant: the end of a session is not owed.
OwedUnended ==
    ((IF known THEN {<<"applied">>} ELSE {})
       \cup {<<"bound", a>> : a \in facts.bound}
       \cup {<<"input", a>> : a \in facts.typed}) \ Published

\* What the lock of a revised flow, participants' bindings and exits, and
\* inputs owe to the journal.
Owed ==
    ((IF known THEN {<<"applied">>} ELSE {})
       \cup {<<"bound", a>> : a \in facts.bound}
       \cup {<<"left", a>> : a \in facts.bound \cap log.exited}
       \cup {<<"input", a>> : a \in facts.typed}) \ Published

\* Flows come first, then participants, their beginning before their end, and
\* inputs last.
Due == {r \in Owed :
          /\ r[1] = "left" => <<"bound", r[2]>> \notin Owed
          /\ r[1] = "input" => \A q \in Owed : q[1] = "input"}

Uncleaned(a) == /\ a \in DOMAIN manifest.acts
                /\ manifest.acts[a].cleanup # "complete"

\* publish_run_asset_flow_revision
PublishFlow ==
    /\ At("revision")
    /\ CASE manifest.flow = "applied" -> Next1
         [] manifest.flow = "prepared" -> Push(Publish("applied", 0))
         [] OTHER -> Push(Publish("prepared", 0) \o Publish("applied", 0))
    /\ UNCHANGED <<disk, private, memory, history, faults>>

\* reconcile_publication_obligations
ReconcileObligations ==
    /\ At("owed")
    /\ CASE Owed = {} -> Next1
         [] <<"applied">> \in Owed -> Push(<<Step("revision"), Step("owed")>>)
         [] OTHER -> \E r \in Due :
                        Push((IF r[1] = "bound" THEN <<Task("bound", r[2])>>
                              ELSE Publish(r[1], r[2])) \o <<Step("owed")>>)
    /\ UNCHANGED <<disk, private, memory, history, faults>>

\* A binding is published in three transactions, the first of which is refused
\* once the activation is cleaned up.
PublishBinding ==
    /\ At("bound")
    /\ LET a == Of
       IN  IF Uncleaned(a)
           THEN Push(Publish("agent", a)
                  \o (IF <<"session", a>> \in Published THEN <<>>
                      ELSE Publish("session", a))
                  \o Publish("bound", a))
           ELSE job' = Erred
    /\ UNCHANGED <<disk, private, memory, history, faults>>

OfManifest(t) ==
    /\ t.records # <<>>
    /\ t.records[1][1] \notin {"started", "ended", "paused", "exited"}

\* repair_publication_projections: every published transaction is projected
\* again, one of the manifest as it was then, and the manifest of now.
RepairProjections ==
    /\ At("repair")
    /\ LET published == {t \in ToSet(ledger) : OfManifest(t)}
           manifests == {t.manifest : t \in published} \cup {manifest}
       IN  seal' = IF seal = 0 /\ \E m \in manifests : Terminal(m)
                   THEN Len(events) ELSE seal
    /\ public' = Summary
    /\ Next1
    /\ UNCHANGED <<events, torn, fragment, private, memory, history, faults>>

-----------------------------------------------------------------------------
(* The cleanup of a pane.                                                  *)

\* finalize_terminal_node_panes, reconcile_pending_tmux_cleanups,
\* reconcile_exited_participants: one pane after the other.
CleanupAll ==
    /\ At("finalize")
    /\ LET panes == CASE Of = "panes" -> facts.panes
                      [] Of = "pending" -> facts.cleaning
                      [] Of = "exited" -> facts.panes \cap log.exited
       IN  \E order \in SetToSeqs(panes) :
              Push([i \in DOMAIN order |-> Task("cleanup", order[i])])
    /\ UNCHANGED <<disk, private, memory, history, faults>>

CleanupIntent ==
    /\ At("cleanup")
    /\ \/ /\ facts' = [facts EXCEPT !.cleaning = @ \cup {Of}]
          /\ Push(<<Task("kill", Of), Task("preserve", Of), Task("clean", Of),
                    Task("release", Of)>>)
          /\ UNCHANGED faults
       \/ Fault("io") /\ job' = Erred /\ UNCHANGED facts
    /\ UNCHANGED <<disk, manifest, log, outbox, ledger, memory, history>>

\* A pane that cannot be killed is marked so.
KillPane ==
    /\ At("kill")
    /\ \/ Next1 /\ UNCHANGED faults
       \/ /\ Fault("tmux")
          /\ IF Uncleaned(Of)
             THEN Does(Publish("unkilled", Of) \o <<Step("fail")>>
                         \o SubSeq(job.todo, 5, Len(job.todo)))
             ELSE job' = Erred
    /\ UNCHANGED <<disk, private, memory, history>>

Fail ==
    /\ At("fail")
    /\ job' = Erred
    /\ UNCHANGED <<disk, private, memory, history, faults>>

\* complete_activation_capture and finalize_failed_activation_capture, and
\* mark_activation_resource_cleanup
Preserve ==
    /\ At("preserve")
    /\ IF Uncleaned(Of) /\ ~manifest.acts[Of].preserved
       THEN Push(Publish("preserve", Of)) ELSE Next1
    /\ UNCHANGED <<disk, private, memory, history, faults>>

MarkClean ==
    /\ At("clean")
    /\ IF Uncleaned(Of)
       THEN Push(Publish("clean", Of)) ELSE Next1
    /\ UNCHANGED <<disk, private, memory, history, faults>>

\* Mutant: the receipt of the cleanup is not recorded.
ReleasePaneOnly ==
    /\ At("release")
    /\ facts' = [facts EXCEPT !.panes = @ \ {Of}]
    /\ Next1
    /\ UNCHANGED <<disk, manifest, log, outbox, ledger, memory, history,
                   faults>>

\* release_tmux_panes and the receipt of the cleanup.
ReleasePane ==
    /\ At("release")
    /\ facts' = [facts EXCEPT !.panes = @ \ {Of}, !.cleaning = @ \ {Of}]
    /\ Next1
    /\ UNCHANGED <<disk, manifest, log, outbox, ledger, memory, history,
                   faults>>

-----------------------------------------------------------------------------
(* Operations.                                                             *)

Prelude == <<Step("outbox"), Step("gate"), Step("owed")>>

Request(op, tasks) ==
    /\ job = Idle
    /\ requests < MaxRequests
    /\ requests' = requests + 1
    /\ job' = [op |-> op, todo |-> Prelude \o tasks]
    /\ UNCHANGED <<disk, private, memory, stops, loads, faults>>

\* A pane is allocated and its capture starts.
Activate(a) ==
    /\ log.status = "running"
    /\ a \notin DOMAIN manifest.acts
    /\ a \notin facts.panes
    /\ Request("activate", <<Task("allocate", a)>> \o Publish("capture", a))

AllocatePane ==
    /\ At("allocate")
    /\ facts' = [facts EXCEPT !.panes = @ \cup {Of}]
    /\ Next1
    /\ UNCHANGED <<disk, manifest, log, outbox, ledger, memory, history,
                   faults>>

\* bind_participant
Bind(a) ==
    /\ a \in DOMAIN manifest.acts \cap facts.panes
    /\ a \notin facts.bound
    /\ Request("bind", <<Task("bind", a), Step("owed")>>)

\* record_hook_fact; an agent repeats a hook that was not answered.
Hook(a) ==
    /\ a \in facts.bound
    /\ <<"hook", a>> \notin Published
    /\ Request("hook", Publish("hook", a))

RecordBinding ==
    /\ At("bind")
    /\ \/ /\ facts' = [facts EXCEPT !.bound = @ \cup {Of}]
          /\ Next1
          /\ UNCHANGED faults
       \/ Fault("io") /\ job' = Erred /\ UNCHANGED facts
    /\ UNCHANGED <<disk, manifest, log, outbox, ledger, memory, history>>

\* A prompt or a message is typed into the pane, and entered in the ledger of
\* inputs.
Deliver(a) ==
    /\ log.status = "running"
    /\ a \in DOMAIN manifest.acts \cap facts.panes
    /\ a \notin facts.typed
    /\ Request("deliver", <<Task("type", a)>> \o Publish("input", a))

TypeInput ==
    /\ At("type")
    /\ \/ /\ facts' = [facts EXCEPT !.typed = @ \cup {Of}]
          /\ Next1
          /\ UNCHANGED faults
       \/ Fault("io") /\ job' = Erred /\ UNCHANGED facts
    /\ UNCHANGED <<disk, manifest, log, outbox, ledger, memory, history>>

\* apply_flow_revision: the file of the revision, the runtime log, the event
\* that it is available, and the manifest.
Revise ==
    /\ ~log.revised
    /\ Request("revise", <<Step("file")>> \o Publish("revised", 0)
                           \o <<Step("available"), Step("revision")>>)

\* bind_run for a run there is makes up for what a revision left undone.
Rebind ==
    /\ log.revised
    /\ ~known \/ manifest.flow # "applied"
    /\ Request("bind_run", <<Step("available"), Step("revision")>>)

WriteRevision ==
    /\ At("file")
    /\ \/ facts' = [facts EXCEPT !.file = TRUE] /\ Next1 /\ UNCHANGED faults
       \/ Fault("io") /\ job' = Erred /\ UNCHANGED facts
    /\ UNCHANGED <<disk, manifest, log, outbox, ledger, memory, history>>

\* publish_applied_lock_revision
PublishAvailable ==
    /\ At("available")
    /\ \/ /\ facts' = [facts EXCEPT !.available = @ \/ ~known]
          /\ known' = TRUE
          /\ Next1
          /\ UNCHANGED faults
       \/ ~known /\ Fault("io") /\ job' = Erred /\ UNCHANGED <<facts, known>>
    /\ UNCHANGED <<disk, manifest, log, outbox, ledger, cursor, history>>

\* A delivery or a participant's stop ends the run and leaves its panes;
\* StopRun and CompleteRun clean them up.
Finish ==
    /\ log.status = "running"
    /\ Request("finish", Publish("end", 0))

StopRun ==
    /\ log.status # "ended"
    /\ Request("stop", Publish("end", 0) \o <<Task("finalize", "panes")>>)

\* participant_exited, and the cleanup once its answer was acknowledged.
Exit(a) ==
    /\ a \in facts.bound \cap facts.panes
    /\ a \notin log.exited
    /\ Request("exit", Publish("exit", a)
                         \o <<Step("owed"), Task("cleanup", a)>>)

\* finalize_for_exit
Shutdown ==
    /\ job = Idle
    /\ stops < MaxStops
    /\ stops' = stops + 1
    /\ job' = [op |-> "shutdown",
               todo |-> (IF log.status = "running" THEN Publish("pause", 0)
                         ELSE <<>>) \o <<Task("finalize", "panes")>>]
    /\ UNCHANGED <<disk, private, memory, requests, loads, faults>>

Crash ==
    /\ job.op # "down"
    /\ stops < MaxStops
    /\ stops' = stops + 1
    /\ job' = Down
    /\ UNCHANGED <<disk, private, memory, requests, loads, faults>>

\* read_runtime_referenced_locks
Referenced == \/ facts.available
              \/ log.revised
              \/ outbox # <<>> /\ outbox[1].log.revised

\* load
Load ==
    /\ job.op = "down"
    /\ loads < MaxLoads
    /\ loads' = loads + 1
    /\ cursor' = -1
    /\ known' = Referenced
    /\ job' = [op |-> "load",
               todo |-> Prelude
                 \o <<Step("repair"), Task("finalize", "pending"),
                      Task("finalize", "exited"), Step("suspend")>>]
    /\ UNCHANGED <<disk, private, requests, stops, faults>>

\* suspend_replayed_running_run
Suspend ==
    /\ At("suspend")
    /\ IF log.status = "running" THEN Push(Publish("pause", 0)) ELSE Next1
    /\ UNCHANGED <<disk, private, memory, history, faults>>

-----------------------------------------------------------------------------
Working == \/ Begin \/ ApplyPrivate \/ AppendRecord \/ Project \/ Acknowledge
           \/ ReconcileOutbox \/ Gate \/ ReconcileObligations
           \/ RepairProjections \/ CleanupAll \/ CleanupIntent \/ KillPane
           \/ Fail \/ Preserve \/ MarkClean \/ ReleasePane \/ AllocatePane
           \/ RecordBinding \/ Suspend \/ PublishFlow \/ TypeInput
           \/ PublishBinding
           \/ WriteRevision \/ PublishAvailable

Next == \/ Working
        \/ \E a \in Activations :
              Activate(a) \/ Bind(a) \/ Hook(a) \/ Deliver(a) \/ Exit(a)
        \/ Revise \/ Rebind \/ Finish \/ StopRun \/ Shutdown \/ Crash \/ Load

Spec == Init /\ [][Next]_vars

-----------------------------------------------------------------------------
(* Properties.                                                             *)

\* Every variable holds what the code's types allow.
TypeOK ==
    /\ {torn, fragment} \subseteq BOOLEAN
    /\ seal \in 0..Len(events) /\ cursor \in -1..Len(events)
    /\ public \in {"open", "sealed", "corrupt"}
    /\ DOMAIN manifest.acts \subseteq Activations
    /\ \A a \in DOMAIN manifest.acts :
          manifest.acts[a] \in [preserved : BOOLEAN,
                               cleanup : {"owned", "failed", "complete"}]
    /\ manifest.flow \in {"none", "prepared", "applied"} /\ known \in BOOLEAN
    /\ log \in [status : {"running", "paused", "ended"},
                exited : SUBSET Activations, revised : BOOLEAN]
    /\ facts \in [panes : SUBSET Activations, bound : SUBSET Activations,
                  cleaning : SUBSET Activations, typed : SUBSET Activations,
                  file : BOOLEAN, available : BOOLEAN]
    /\ log.revised => facts.file
    /\ facts.cleaning \subseteq facts.panes
    /\ Len(outbox) <= 1

\* A seal covers the journal as it is: nothing is ever added under a seal,
\* whatever failed, was retried or was recovered.
SealIsFinal == seal # 0 => seal = Len(events) /\ ~torn

\* The journal of a run that has ended and whose activations are all preserved
\* and cleaned up is sealed as soon as nothing is pending, whichever of the two
\* came last and whatever interrupted it.
TerminalIsSealed == outbox = <<>> /\ Terminal(manifest) => seal # 0

\* Recovery from torn lines, retries and stale cursors neither loses nor
\* repeats a record: what is committed stays as it is.
CommittedStays ==
    [][IsPrefix(events, events') /\ IsInjective(events')]_vars

\* Nobody changes the run while a fact the driver has on record, of a
\* participant, an input or a revised flow, is missing from the journal.
OwedFirst ==
    [][log' # log /\ job.op \in {"finish", "stop", "exit", "revise"}
       => /\ \A a \in facts.bound :
                /\ Contains(events, <<"bound", a>>)
                /\ a \in log.exited => Contains(events, <<"left", a>>)
          /\ \A a \in facts.typed : Contains(events, <<"input", a>>)
          /\ known => Contains(events, <<"applied">>)]_vars

\* A driver that starts gets going unless something fails while it does.
RestartSucceeds ==
    [][job.op = "load" /\ job' = Down
       => faults' > faults \/ stops' > stops]_vars
=============================================================================
