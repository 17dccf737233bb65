------------------------------ MODULE Capture ------------------------------
(***************************************************************************)
(* The capture of one pane: what it writes goes through `tmux pipe-pane'   *)
(* to a helper process (pipe_sink.rs) that appends it to a transcript; the *)
(* driver starts the capture before it types anything                      *)
(* (ensure_activation_capture_started) and settles it when it cleans the   *)
(* pane up (complete_tmux_pane_cleanup).  They talk through files: the     *)
(* helper's ready acknowledgement and its completion.  Driver, helpers,    *)
(* tmux and the agent run concurrently; anything may fail or die.          *)
(*                                                                         *)
(* One allocation of a pane is modelled; another has files of its own.     *)
(***************************************************************************)
EXTENDS Integers, FiniteSets

CONSTANTS FaultKinds,   \* what may fail
          MaxOutput,    \* bound on the chunks the agent writes
          MaxPrepares,  \* bound on actuations that prepare the pane
          MaxCleanups,  \* bound on requests to clean it up
          MaxFaults,    \* bound on failures
          MaxStops,     \* bound on crashes of the driver
          PanesEnd      \* whether panes also end by themselves

ASSUME FaultsAssumption ==
    FaultKinds \subseteq {"append", "commit", "tmux", "timeout", "helper"}
ASSUME BoundsAssumption ==
    /\ {MaxOutput, MaxPrepares, MaxCleanups, MaxFaults, MaxStops} \subseteq Nat
    /\ PanesEnd \in BOOLEAN

VARIABLES
    \* durable
    entry,      \* the activation in run-assets.json
    facts,      \* what driver-events.jsonl replays to
    transcript, \* chunks in transcript.pipe.log
    screen,     \* final-capture.txt: "none", "empty" or "screen"
    ready,      \* ready acknowledgements, by path
    completion, \* completion files, by path
    \* tmux and the helpers
    pane,       \* whether the pane exists
    pipe,       \* the helper the pane is piped to, or 0
    helpers,    \* every helper there has been
    \* the driver
    epoch,      \* its process, which names the files of its captures
    nonces,     \* acknowledgement nonces made
    held,       \* tmux_pipe_captures
    job,        \* the operation under way
    \* history
    output,     \* chunks the agent has written
    killed,     \* whether the driver has killed a pane under capture
    prepares, cleanups, faults, stops

durable == <<entry, facts, transcript, screen, ready, completion>>
outside == <<pane, pipe, helpers>>
driver == <<epoch, nonces, held, job>>
requests == <<prepares, cleanups, stops>>
history == <<output, killed, requests>>
vars == <<entry, facts, transcript, screen, ready, completion, pane, pipe,
          helpers, epoch, nonces, held, job, output, killed, prepares,
          cleanups, faults, stops>>

With(f, k, v) == [x \in DOMAIN f \cup {k} |-> IF x = k THEN v ELSE f[x]]
Without(f, k) == [x \in DOMAIN f \ {k} |-> f[x]]
Nothing == [x \in {} |-> 0]

\* A capture: its nonce, the process that names its files, its helper.
None == [nonce |-> 0, path |-> 0, helper |-> 0]
Idle == [op |-> "none", at |-> "idle", helper |-> 0, published |-> FALSE,
         captured |-> FALSE, outcome |-> "none"]
Down == [Idle EXCEPT !.at = "down"]

At(place) == job.at = place
Goto(place) == job' = [job EXCEPT !.at = place]

\* An operation that fails leaves the driver idle; a load that fails ends it.
Erred == IF job.op = "load" THEN Down ELSE Idle

Init ==
    /\ entry = [phase |-> "none", acked |-> FALSE, cleanup |-> "owned"]
    /\ facts = [intent |-> None, capture |-> None,
                cleaning |-> FALSE, owned |-> TRUE]
    /\ transcript = 0 /\ screen = "none"
    /\ ready = Nothing /\ completion = Nothing
    /\ pane = TRUE /\ pipe = 0 /\ helpers = Nothing
    /\ epoch = 1 /\ nonces = 0 /\ held = None /\ job = Idle
    /\ output = 0 /\ killed = FALSE
    /\ prepares = 0 /\ cleanups = 0 /\ faults = 0 /\ stops = 0

Fault(kind) == /\ kind \in FaultKinds
               /\ faults < MaxFaults
               /\ faults' = faults + 1

\* append_driver_event and the commit of a manifest: they succeed or they fail
\* with nothing written.
AppendFact(value, place) ==
    \/ facts' = value /\ Goto(place) /\ UNCHANGED faults
    \/ Fault("append") /\ job' = Erred /\ UNCHANGED facts
CommitEntry(value, place) ==
    \/ entry' = value /\ Goto(place) /\ UNCHANGED faults
    \/ Fault("commit") /\ job' = Erred /\ UNCHANGED entry

Alive(h) == h \in DOMAIN helpers /\ helpers[h].at # "gone"

-----------------------------------------------------------------------------
(* The helper: `humanize-plugin --pipe-sink'.                              *)

\* A helper that ends is noticed by tmux, which closes its pipe.
Leave(h) == /\ helpers' = [helpers EXCEPT ![h].at = "gone",
                                          ![h].queue = 0]
            /\ pipe' = IF pipe = h THEN 0 ELSE pipe

\* It opens the transcript of its capture and notes its length.
HelperOpen(h) ==
    /\ helpers[h].at = "open"
    /\ helpers' = [helpers EXCEPT ![h].at = "ack", ![h].start = transcript]
    /\ UNCHANGED <<durable, pane, pipe, driver, history, faults>>

\* Files are moved into place only where there is none.
RenameNoReplace(files, path) == path \notin DOMAIN files

\* Mutant: a helper waits until it can acknowledge.
HelperAckWaits(h) ==
    /\ helpers[h].at = "ack"
    /\ RenameNoReplace(ready, helpers[h].path)
    /\ ready' = With(ready, helpers[h].path,
                     [nonce |-> helpers[h].nonce, helper |-> h])
    /\ helpers' = [helpers EXCEPT ![h].at = "copy"]
    /\ UNCHANGED <<entry, facts, transcript, screen, completion, pane, pipe,
                   driver, history, faults>>

HelperAck(h) ==
    /\ helpers[h].at = "ack"
    /\ IF RenameNoReplace(ready, helpers[h].path)
       THEN /\ ready' = With(ready, helpers[h].path,
                             [nonce |-> helpers[h].nonce, helper |-> h])
            /\ helpers' = [helpers EXCEPT ![h].at = "copy"]
            /\ UNCHANGED pipe
       ELSE Leave(h) /\ UNCHANGED ready
    /\ UNCHANGED <<entry, facts, transcript, screen, completion, pane, driver,
                   history, faults>>

HelperCopy(h) ==
    /\ helpers[h].at = "copy"
    /\ helpers[h].queue > 0
    /\ transcript' = transcript + 1
    /\ helpers' = [helpers EXCEPT ![h].queue = @ - 1, ![h].bytes = @ + 1]
    /\ UNCHANGED <<entry, facts, screen, ready, completion, pane, pipe, driver,
                   history, faults>>

\* Mutant: the helper does not wait for the end of its input.
InputEndsEarly(h) == helpers[h].queue = 0

InputEnds(h) == helpers[h].queue = 0 /\ pipe # h

\* At the end of its input it says what it has written, unless somebody else
\* wrote to the transcript too.
HelperFinish(h) ==
    /\ helpers[h].at = "copy"
    /\ InputEnds(h)
    /\ IF /\ transcript = helpers[h].start + helpers[h].bytes
          /\ RenameNoReplace(completion, helpers[h].path)
       THEN /\ completion' = With(completion, helpers[h].path,
                                  [nonce |-> helpers[h].nonce, helper |-> h,
                                   length |-> transcript])
            /\ helpers' = [helpers EXCEPT ![h].at = "done"]
            /\ UNCHANGED pipe
       ELSE Leave(h) /\ UNCHANGED completion
    /\ UNCHANGED <<entry, facts, transcript, screen, ready, pane, driver,
                   history, faults>>

HelperExit(h) ==
    /\ helpers[h].at = "done"
    /\ Leave(h)
    /\ UNCHANGED <<durable, pane, driver, history, faults>>

HelperKilled(h) ==
    /\ Alive(h)
    /\ Fault("helper")
    /\ Leave(h)
    /\ UNCHANGED <<durable, pane, driver, history>>

-----------------------------------------------------------------------------
(* tmux and the agent in the pane.                                         *)

\* pipe-pane -o: a pane has one pipe; the one it has is closed, and a new one
\* is opened only if there was none.
PipePaneToggle ==
    IF pipe # 0
    THEN pipe' = 0 /\ UNCHANGED helpers
    ELSE LET h == Cardinality(DOMAIN helpers) + 1
         IN  /\ pipe' = h
             /\ helpers' = With(helpers, h,
                    [nonce |-> facts.intent.nonce, path |-> facts.intent.path,
                     at |-> "open", sent |-> 0, queue |-> 0, start |-> 0,
                     bytes |-> 0])

\* The agent, once it was typed into the pane, writes.
Write ==
    /\ pane
    /\ entry.acked \/ output > 0
    /\ output < MaxOutput
    /\ output' = output + 1
    /\ helpers' = IF pipe = 0 THEN helpers
                  ELSE [helpers EXCEPT ![pipe].queue = @ + 1,
                                        ![pipe].sent = @ + 1]
    /\ UNCHANGED <<durable, pane, pipe, driver, killed, requests, faults>>

\* The agent ends, and its pane with it.
PaneEnds ==
    /\ PanesEnd
    /\ pane
    /\ pane' = FALSE
    /\ pipe' = 0
    /\ UNCHANGED <<durable, helpers, driver, history, faults>>

-----------------------------------------------------------------------------
(* ensure_activation_capture_started                                       *)

Request(op) ==
    /\ At("idle")
    /\ facts.owned
    /\ IF op = "prepare" THEN /\ prepares < MaxPrepares
                              /\ prepares' = prepares + 1
                              /\ UNCHANGED <<cleanups, stops>>
       ELSE /\ cleanups < MaxCleanups
            /\ cleanups' = cleanups + 1
            /\ UNCHANGED <<prepares, stops>>

Prepared == entry.phase = "capturing" /\ entry.acked /\ held # None

\* A capture that runs is kept; one that was intended is started again; else
\* the manifest gets a new one, on the transcript that may exist.
Prepare ==
    /\ Request("prepare")
    /\ LET start == [Idle EXCEPT !.op = "prepare"]
       IN  \/ /\ Prepared
              /\ UNCHANGED <<entry, job, faults>>
           \/ /\ ~Prepared
              /\ facts.intent # None
              /\ job' = [start EXCEPT !.at = "pipe"]
              /\ UNCHANGED <<entry, faults>>
           \/ /\ ~Prepared
              /\ facts.intent = None
              /\ \/ /\ entry' = [phase |-> "starting", acked |-> FALSE,
                                 cleanup |-> "owned"]
                    /\ job' = [start EXCEPT !.at = "intent"]
                    /\ UNCHANGED faults
                 \/ Fault("commit") /\ UNCHANGED <<entry, job>>
    /\ UNCHANGED <<facts, transcript, screen, ready, completion, outside,
                   epoch, nonces, held, output, killed>>

\* pipe_ack_nonce makes a new one; pipe_ack_relative_path names the files by
\* the process.
AckNonce == nonces + 1
AckPath == epoch

RecordIntent ==
    /\ At("intent")
    /\ nonces' = AckNonce
    /\ AppendFact([facts EXCEPT !.intent = [nonce |-> AckNonce,
                                            path |-> AckPath, helper |-> 0]],
                  "pipe")
    /\ UNCHANGED <<entry, transcript, screen, ready, completion, outside,
                   epoch, held, history>>

\* A failing command may have had its effect.
PipePane ==
    /\ At("pipe")
    /\ \/ /\ pane
          /\ PipePaneToggle
          /\ Goto("await")
          /\ UNCHANGED faults
       \/ /\ ~pane
          /\ job' = Erred
          /\ UNCHANGED <<pipe, helpers, faults>>
       \/ /\ pane
          /\ Fault("tmux")
          /\ PipePaneToggle \/ UNCHANGED <<pipe, helpers>>
          /\ job' = Erred
    /\ UNCHANGED <<durable, pane, epoch, nonces, held, history>>

\* The acknowledgement must be that of the intent, by a helper that lives.
AckVerified(ack, intent) ==
    ack.nonce = intent.nonce /\ Alive(ack.helper)

\* wait_for_pipe_ack.  It waits in vain when no helper will acknowledge; when
\* one will, running out of time is a fault.
AwaitAck ==
    /\ At("await")
    /\ LET i == facts.intent
       IN  \/ /\ i.path \in DOMAIN ready
              /\ job' = IF AckVerified(ready[i.path], i)
                        THEN [job EXCEPT !.at = "started",
                                         !.helper = ready[i.path].helper]
                        ELSE Erred
              /\ UNCHANGED faults
           \/ /\ i.path \notin DOMAIN ready
              /\ \/ /\ \A h \in DOMAIN helpers :
                          helpers[h].at \notin {"open", "ack"}
                    /\ UNCHANGED faults
                 \/ Fault("timeout")
              /\ job' = Erred
    /\ UNCHANGED <<durable, outside, epoch, nonces, held, history>>

RecordStarted ==
    /\ At("started")
    /\ LET capture == [facts.intent EXCEPT !.helper = job.helper]
       IN  /\ AppendFact([facts EXCEPT !.intent = None, !.capture = capture],
                         "mark")
           /\ held' = IF facts' = facts THEN held ELSE capture
    /\ UNCHANGED <<entry, transcript, screen, ready, completion, outside,
                   epoch, nonces, history>>

\* mark_activation_capture_acknowledged refuses a capture that has failed.
MarkAcknowledged ==
    /\ At("mark")
    /\ \/ /\ entry.phase # "failed"
          /\ CommitEntry([entry EXCEPT !.phase = "capturing", !.acked = TRUE],
                         "unlink")
       \/ /\ entry.phase = "failed"
          /\ job' = Erred
          /\ UNCHANGED <<entry, faults>>
    /\ UNCHANGED <<facts, transcript, screen, ready, completion, outside,
                   epoch, nonces, held, history>>

RemoveAck ==
    /\ At("unlink")
    /\ ready' = Without(ready, held.path)
    /\ job' = Idle
    /\ UNCHANGED <<entry, facts, transcript, screen, completion, outside,
                   epoch, nonces, held, history, faults>>

-----------------------------------------------------------------------------
(* complete_tmux_pane_cleanup                                              *)

\* ensure_tmux_pane_cleanup_intent
CleanUp ==
    /\ Request("cleanup")
    /\ LET start == [Idle EXCEPT !.op = "cleanup", !.at = "inspect"]
       IN  \/ facts.cleaning /\ job' = start /\ UNCHANGED <<facts, faults>>
           \/ /\ ~facts.cleaning
              /\ \/ /\ facts' = [facts EXCEPT !.cleaning = TRUE]
                    /\ job' = start
                    /\ UNCHANGED faults
                 \/ Fault("append") /\ UNCHANGED <<facts, job>>
    /\ UNCHANGED <<entry, transcript, screen, ready, completion, outside,
                   epoch, nonces, held, output, killed>>

Started == entry.phase # "none"
Recorded == Started /\ entry.cleanup = "complete"

\* What the completion file of capture c says of it.
CompletionOf(c) ==
    IF c.path \notin DOMAIN completion THEN "missing"
    ELSE IF /\ completion[c.path].nonce = c.nonce
            /\ completion[c.path].helper = c.helper
            /\ completion[c.path].length = transcript
    THEN "verified" ELSE "refused"

\* wait_for_pipe_helper_exit; it may take too long.
HelperGone == ~Alive(held.helper)
HelperStays == Alive(held.helper) /\ Fault("timeout")

\* A pane that is released needs a receipt only, a completion that is already
\* there its helper to be gone.
Inspect ==
    /\ At("inspect")
    /\ LET c == CompletionOf(held)
       IN  \/ /\ ~facts.owned
              /\ job' = IF Started /\ ~Recorded THEN Erred
                        ELSE [job EXCEPT !.at = "receipt"]
              /\ UNCHANGED faults
           \/ /\ facts.owned
              /\ held = None \/ c = "missing"
              /\ Goto("probe")
              /\ UNCHANGED faults
           \/ /\ facts.owned /\ held # None
              /\ c = "refused"
              /\ job' = Erred
              /\ UNCHANGED faults
           \/ /\ facts.owned /\ held # None
              /\ c = "verified"
              /\ \/ /\ HelperGone
                    /\ job' = [job EXCEPT !.at = "settle", !.published = TRUE,
                                          !.captured = screen # "none"]
                    /\ UNCHANGED faults
                 \/ /\ HelperStays
                    /\ job' = Erred
    /\ UNCHANGED <<durable, outside, epoch, nonces, held, history>>

\* persist_activation_final_capture_snapshot
SaveScreen == screen' = IF Started THEN "screen" ELSE screen

\* A pane that exists leaves its last screen before it is killed; of one that
\* is gone there may be a screen from an earlier attempt.
Probe ==
    /\ At("probe")
    /\ \/ /\ Recorded \/ ~pane
          /\ job' = [job EXCEPT !.at = "settle", !.captured = screen # "none"]
          /\ UNCHANGED <<screen, faults>>
       \/ /\ ~Recorded /\ pane
          /\ SaveScreen
          /\ job' = [job EXCEPT !.at = "kill", !.captured = TRUE]
          /\ UNCHANGED faults
       \/ /\ ~Recorded
          /\ Fault("tmux")
          /\ job' = Erred
          /\ UNCHANGED screen
    /\ UNCHANGED <<entry, facts, transcript, ready, completion, outside,
                   epoch, nonces, held, history>>

\* A failure is noted in the manifest, if that can be.
Kill ==
    /\ At("kill")
    /\ \/ /\ pane' = FALSE /\ pipe' = 0 /\ killed' = Started
          /\ Goto("settle")
          /\ UNCHANGED <<entry, faults>>
       \/ /\ Fault("tmux")
          /\ entry' = IF Started THEN [entry EXCEPT !.cleanup = "failed"]
                      ELSE entry
          /\ job' = Erred
          /\ UNCHANGED <<pane, pipe, killed>>
    /\ UNCHANGED <<facts, transcript, screen, ready, completion, helpers,
                   epoch, nonces, held, output, requests>>

\* What is left to find out: nothing, or how the capture ended.
Settle ==
    /\ At("settle")
    /\ job' = [job EXCEPT
          !.at = IF ~Started \/ Recorded \/ entry.phase = "complete"
                 THEN "cleaned"
                 ELSE IF held # None /\ ~job.published
                 THEN "wait" ELSE "finalize",
          !.outcome = IF held # None /\ job.published THEN "ok" ELSE "none"]
    /\ UNCHANGED <<durable, outside, epoch, nonces, held, history, faults>>

\* wait_for_pipe_capture_completion_preserve: the file, then the process, in
\* turn until the deadline.
AwaitCompletion ==
    /\ At("wait")
    /\ LET c == CompletionOf(held)
           ended(outcome) == job' = [job EXCEPT !.at = "finalize",
                                                !.outcome = outcome]
       IN  \/ c = "missing" /\ Goto("process") /\ UNCHANGED faults
           \/ c = "refused" /\ ended("error") /\ UNCHANGED faults
           \/ /\ c = "verified"
              /\ \/ HelperGone /\ ended("ok") /\ UNCHANGED faults
                 \/ HelperStays /\ ended("error")
    /\ UNCHANGED <<durable, outside, epoch, nonces, held, history>>

\* Mutant: only the file is looked at.
CheckProcessNever ==
    /\ At("process")
    /\ Goto("wait")
    /\ UNCHANGED <<durable, outside, epoch, nonces, held, history, faults>>

CheckProcess ==
    /\ At("process")
    /\ \/ /\ job' = IF HelperGone
                    THEN [job EXCEPT !.at = "finalize", !.outcome = "error"]
                    ELSE [job EXCEPT !.at = "wait"]
          /\ UNCHANGED faults
       \/ /\ Fault("timeout")
          /\ job' = [job EXCEPT !.at = "finalize", !.outcome = "error"]
    /\ UNCHANGED <<durable, outside, epoch, nonces, held, history>>

\* complete_activation_capture, for a capture that was acknowledged, or
\* finalize_failed_activation_capture.  The first refuses one that is not
\* under way.
Complete == /\ CommitEntry([entry EXCEPT !.phase = "complete"], "cleaned")
            /\ UNCHANGED screen

\* Mutant: a failed capture gets an empty screen.
FinalizeFailedBlank ==
    /\ CommitEntry([entry EXCEPT !.phase = "failed"], "cleaned")
    /\ screen' = "empty"

FinalizeFailed ==
    /\ CommitEntry([entry EXCEPT !.phase = "failed"], "cleaned")
    /\ screen' = IF job.captured THEN screen ELSE "empty"

CanComplete == entry.acked /\ entry.phase = "capturing"

Finalize ==
    /\ At("finalize")
    /\ \/ /\ job.outcome = "ok" /\ job.captured /\ entry.acked
          /\ \/ CanComplete /\ Complete
             \/ /\ ~CanComplete
                /\ job' = Erred
                /\ UNCHANGED <<entry, screen, faults>>
       \/ /\ ~(job.outcome = "ok" /\ job.captured /\ entry.acked)
          /\ FinalizeFailed
    /\ held' = IF job'.at = "cleaned" THEN None ELSE held
    /\ UNCHANGED <<facts, transcript, ready, completion, outside,
                   epoch, nonces, history>>

\* Mutant: the cleanup goes on when the manifest cannot be written.
MarkCleanedAnyway ==
    /\ At("cleaned")
    /\ \/ /\ Started /\ ~Recorded
          /\ \/ CommitEntry([entry EXCEPT !.cleanup = "complete"], "remove")
             \/ Fault("commit") /\ Goto("remove") /\ UNCHANGED entry
       \/ /\ ~Started \/ Recorded
          /\ Goto("remove")
          /\ UNCHANGED <<entry, faults>>
    /\ UNCHANGED <<facts, transcript, screen, ready, completion, outside,
                   epoch, nonces, held, history>>

\* mark_activation_resource_cleanup
MarkCleaned ==
    /\ At("cleaned")
    /\ \/ /\ Started /\ ~Recorded
          /\ CommitEntry([entry EXCEPT !.cleanup = "complete"], "remove")
       \/ /\ ~Started \/ Recorded
          /\ Goto("remove")
          /\ UNCHANGED <<entry, faults>>
    /\ UNCHANGED <<facts, transcript, screen, ready, completion, outside,
                   epoch, nonces, held, history>>

\* A completion that was verified has served its purpose.
RemoveCompletion ==
    /\ At("remove")
    /\ completion' = IF job.published \/ job.outcome = "ok"
                     THEN Without(completion, facts.capture.path)
                     ELSE completion
    /\ Goto("release")
    /\ UNCHANGED <<entry, facts, transcript, screen, ready, outside,
                   epoch, nonces, held, history, faults>>

\* Mutant: a released pane keeps its entry in tmux_pipe_captures.
ReleaseKeeps ==
    /\ At("release")
    /\ AppendFact([facts EXCEPT !.owned = FALSE, !.intent = None,
                                !.capture = None], "receipt")
    /\ UNCHANGED <<entry, transcript, screen, ready, completion, outside,
                   epoch, nonces, held, history>>

\* release_tmux_panes
Release ==
    /\ At("release")
    /\ AppendFact([facts EXCEPT !.owned = FALSE, !.intent = None,
                                !.capture = None], "receipt")
    /\ held' = IF job'.at = "receipt" THEN None ELSE held
    /\ UNCHANGED <<entry, transcript, screen, ready, completion, outside,
                   epoch, nonces, history>>

\* finish_tmux_pane_cleanup
Receipt ==
    /\ At("receipt")
    /\ \/ /\ facts' = [facts EXCEPT !.cleaning = FALSE]
          /\ job' = Idle
          /\ UNCHANGED faults
       \/ Fault("append") /\ job' = Erred /\ UNCHANGED facts
    /\ UNCHANGED <<entry, transcript, screen, ready, completion, outside,
                   epoch, nonces, held, history>>

-----------------------------------------------------------------------------
(* The end of a driver and the start of the next.                          *)

Crash ==
    /\ ~At("down")
    /\ stops < MaxStops
    /\ stops' = stops + 1
    /\ job' = Down
    /\ UNCHANGED <<durable, outside, epoch, nonces, held, output, killed,
                   prepares, cleanups, faults>>

\* load: the captures are replayed; the pane's pending cleanup is taken up,
\* or one is begun for a pane that has gone.
Load ==
    /\ At("down")
    /\ epoch <= MaxStops
    /\ epoch' = epoch + 1
    /\ held' = facts.capture
    /\ LET start == [Idle EXCEPT !.op = "load", !.at = "inspect"]
       IN  IF facts.cleaning \/ (facts.owned /\ ~pane)
           THEN \/ /\ facts' = [facts EXCEPT !.cleaning = TRUE]
                   /\ job' = start
                   /\ UNCHANGED faults
                \/ /\ ~facts.cleaning
                   /\ Fault("append")
                   /\ UNCHANGED <<facts, job>>
           ELSE job' = Idle /\ UNCHANGED <<facts, faults>>
    /\ UNCHANGED <<entry, transcript, screen, ready, completion, outside,
                   nonces, history>>

-----------------------------------------------------------------------------
Helper(h) == \/ HelperOpen(h) \/ HelperAck(h) \/ HelperCopy(h)
             \/ HelperFinish(h) \/ HelperExit(h)
Helpers == \E h \in DOMAIN helpers : Helper(h)
Preparing == \/ RecordIntent \/ PipePane \/ AwaitAck \/ RecordStarted
             \/ MarkAcknowledged \/ RemoveAck
Cleaning == \/ Inspect \/ Probe \/ Kill \/ Settle \/ AwaitCompletion
            \/ CheckProcess \/ Finalize \/ MarkCleaned \/ RemoveCompletion
            \/ Release \/ Receipt

Next == \/ Helpers \/ Preparing \/ Cleaning
        \/ Prepare \/ CleanUp \/ Load \/ Crash
        \/ Write \/ PaneEnds
        \/ \E h \in DOMAIN helpers : HelperKilled(h)

Spec == Init /\ [][Next]_vars

\* The helpers and the driver's operation are not suspended for ever.
FairSpec == Spec /\ WF_vars(Helpers) /\ WF_vars(Preparing \/ Cleaning)

-----------------------------------------------------------------------------
(* Properties.                                                             *)

Captures == [nonce : Nat, path : Nat, helper : Nat]

\* Every variable holds what the code's types allow.
TypeOK ==
    /\ entry \in [phase : {"none", "starting", "capturing", "complete",
                           "failed"},
                  acked : BOOLEAN, cleanup : {"owned", "failed", "complete"}]
    /\ facts.intent \in Captures /\ facts.capture \in Captures
    /\ facts.cleaning \in BOOLEAN /\ facts.owned \in BOOLEAN
    /\ held \in {None, facts.capture}
    /\ screen \in {"none", "empty", "screen"}
    /\ transcript \in 0..output /\ output \in 0..MaxOutput
    /\ pipe \in DOMAIN helpers \cup {0}
    /\ \A h \in DOMAIN helpers :
          /\ helpers[h].at \in {"open", "ack", "copy", "done", "gone"}
          /\ {helpers[h].queue, helpers[h].bytes} \subseteq Nat

\* A pane is given up only when what became of its capture is on record.
ReleasedIsRecorded ==
    ~facts.owned /\ Started =>
        Recorded /\ entry.phase \in {"complete", "failed"}

\* The driver kills no captured pane without keeping its last screen, and what
\* it does later, after any failure or crash, does not lose it.
ScreenIsKept == killed => screen = "screen"

\* A capture is recorded as complete only when its helper is gone and has
\* written everything it was ever sent.
CompleteIsWhole ==
    [][entry.phase # "complete" /\ entry'.phase = "complete"
       => LET h == facts.capture.helper
          IN  ~Alive(h) /\ helpers[h].bytes = helpers[h].sent]_vars

\* Helpers end with their pane.
HelpersEnd == ~pane ~> \A h \in DOMAIN helpers : ~Alive(h)

\* Whatever the driver waits for, its operation comes to an end.
OperationsEnd == ~At("idle") ~> At("idle") \/ At("down")
=============================================================================
