---------------------------- MODULE CaptureProofs ----------------------------
(***************************************************************************)
(* Theorems of Capture, for any bounds and any kinds of failure.           *)
(***************************************************************************)
EXTENDS Capture, FiniteSetTheorems, TLAPS

-----------------------------------------------------------------------------
(* Types.                                                                  *)

Phases == {"none", "starting", "capturing", "complete", "failed"}
Entries == [phase : Phases, acked : BOOLEAN,
            cleanup : {"owned", "failed", "complete"}]
FactRecords == [intent : Captures, capture : Captures,
                cleaning : BOOLEAN, owned : BOOLEAN]
Places == {"idle", "down", "intent", "pipe", "await", "started", "mark",
           "unlink", "inspect", "probe", "kill", "settle", "wait", "process",
           "finalize", "cleaned", "remove", "release", "receipt"}
Jobs == [op : {"none", "prepare", "cleanup", "load"}, at : Places,
         helper : Nat, published : BOOLEAN, captured : BOOLEAN,
         outcome : {"none", "ok", "error"}]
HelperAt == {"open", "ack", "copy", "done", "gone"}
HelperRecords == [nonce : Nat, path : Nat, at : HelperAt, sent : Nat,
                  queue : Nat, start : Nat, bytes : Nat]

\* The driver's own state and what it keeps on disk.
DriverTyped ==
    /\ entry \in Entries /\ facts \in FactRecords /\ job \in Jobs
    /\ held \in {None, facts.capture}
    /\ screen \in {"none", "empty", "screen"}
    /\ epoch \in Nat /\ nonces \in Nat

-----------------------------------------------------------------------------
(* What an operation does to its records.                                  *)

LEMMA NoneIsCapture == None \in Captures /\ None.helper = 0
BY DEF None, Captures

LEMMA IdleIsJob ==
    /\ Idle \in Jobs /\ Down \in Jobs
    /\ Idle.at = "idle" /\ Down.at = "down"
BY DEF Idle, Down, Jobs, Places

\* An operation that fails is over.
LEMMA ErredStep ==
    ASSUME job' = Erred
    PROVE  job' \in Jobs /\ job'.at \in {"idle", "down"}
BY IdleIsJob DEF Erred

\* An operation that goes on keeps what it knows.
LEMMA GotoStep ==
    ASSUME job \in Jobs, NEW p \in Places, Goto(p)
    PROVE  /\ job' \in Jobs /\ job'.at = p /\ job'.helper = job.helper
           /\ job'.published = job.published
           /\ job'.captured = job.captured
           /\ job'.outcome = job.outcome
BY DEF Goto, Jobs

\* A new operation knows nothing.
LEMMA StartStep ==
    ASSUME NEW o \in {"prepare", "cleanup", "load"}, NEW p \in Places,
           job' = [Idle EXCEPT !.op = o, !.at = p]
    PROVE  /\ job' \in Jobs /\ job'.at = p
           /\ ~job'.published /\ job'.outcome = "none"
BY IdleIsJob DEF Jobs, Idle

LEMMA SetCleaning ==
    ASSUME facts \in FactRecords, NEW b \in BOOLEAN,
           NEW r, r = [facts EXCEPT !.cleaning = b]
    PROVE  /\ r \in FactRecords /\ r.intent = facts.intent
           /\ r.capture = facts.capture
           /\ r.owned = facts.owned /\ r.cleaning = b
BY DEF FactRecords

LEMMA SetReleased ==
    ASSUME facts \in FactRecords,
           NEW r, r = [facts EXCEPT !.owned = FALSE, !.intent = None,
                                    !.capture = None]
    PROVE  /\ r \in FactRecords /\ r.intent = None /\ r.capture = None
           /\ ~r.owned
BY NoneIsCapture DEF FactRecords

LEMMA SetPhase ==
    ASSUME entry \in Entries, NEW p \in Phases, NEW r,
           r = [entry EXCEPT !.phase = p]
    PROVE  /\ r \in Entries /\ r.phase = p /\ r.acked = entry.acked
           /\ r.cleanup = entry.cleanup
BY DEF Entries

LEMMA SetCapturing ==
    ASSUME entry \in Entries, NEW r,
           r = [entry EXCEPT !.phase = "capturing", !.acked = TRUE]
    PROVE  /\ r \in Entries /\ r.phase = "capturing" /\ r.acked
           /\ r.cleanup = entry.cleanup
<1>1. "capturing" \in Phases
  BY DEF Phases
<1>2. QED
  BY <1>1 DEF Entries

LEMMA SetCleanup ==
    ASSUME entry \in Entries, NEW c \in {"owned", "failed", "complete"},
           NEW r, r = [entry EXCEPT !.cleanup = c]
    PROVE  /\ r \in Entries /\ r.phase = entry.phase /\ r.cleanup = c
           /\ r.acked = entry.acked
BY DEF Entries

LEMMA SetIntent ==
    ASSUME facts \in FactRecords, NEW c \in Captures,
           NEW r, r = [facts EXCEPT !.intent = c]
    PROVE  /\ r \in FactRecords /\ r.intent = c
           /\ r.capture = facts.capture
           /\ r.owned = facts.owned /\ r.cleaning = facts.cleaning
BY DEF FactRecords

-----------------------------------------------------------------------------
(* The invariant of the helpers.                                           *)

\* Helpers are numbered, and the pane is piped to one that still reads.
HelpersTyped ==
    /\ \E n \in Nat : helpers \in [1..n -> HelperRecords]
    /\ pipe # 0 => /\ pipe \in DOMAIN helpers
                   /\ helpers[pipe].at \in {"open", "ack", "copy"}
    /\ \A p \in DOMAIN ready : ready[p].helper \in DOMAIN helpers

\* Helper h has written all it was sent and will be sent no more.
Written(h) == /\ h \in DOMAIN helpers
              /\ helpers[h].at \in {"done", "gone"} /\ pipe # h
              /\ helpers[h].bytes = helpers[h].sent
WrittenAndGone(h) == Written(h) /\ helpers[h].at = "gone"

\* A helper that lives has what it was sent in its file or before it; a
\* completion is that of a helper that has written everything.
HelpersInv ==
    /\ \A h \in DOMAIN helpers :
          /\ helpers[h].at # "gone"
                => helpers[h].sent = helpers[h].bytes + helpers[h].queue
          /\ helpers[h].at = "done" => Written(h)
    /\ \A p \in DOMAIN completion : Written(completion[p].helper)

\* The chunks sent to helpers f and not yet written; what is in the transcript
\* and what may still come is no more than the agent wrote.
Queued(f) == UNION {{h} \X (1..f[h].queue) : h \in DOMAIN f}
RoomInv ==
    /\ output \in 0..MaxOutput /\ transcript \in Nat
    /\ IsFiniteSet(Queued(helpers))
    /\ transcript + Cardinality(Queued(helpers)) <= output

HelperInv == HelpersTyped /\ HelpersInv

-----------------------------------------------------------------------------
(* The invariant of the driver.                                            *)

\* An intent is there while its helper is started, and until the capture it
\* became is acknowledged nothing was captured.
IntentInv ==
    /\ job.at \in {"pipe", "await", "started"} => facts.intent # None
    /\ job.at = "intent" => entry.phase = "starting"
    /\ job.at = "mark" => facts.intent = None
    /\ facts.intent # None \/ job.at = "mark"
          => entry.phase \in {"starting", "failed"}

\* A cleanup records what became of the capture before it gives up the pane,
\* and nothing but a cleanup ends an operation on a pane that was given up.
ReleaseInv ==
    /\ Recorded => entry.phase \in {"complete", "failed"}
    /\ job.at = "cleaned" /\ Started => entry.phase \in {"complete", "failed"}
    /\ job.at \in {"remove", "release"} /\ Started => Recorded
    /\ job.at \in {"idle", "down", "inspect", "receipt"} \/ facts.owned
    /\ ~facts.owned /\ Started => Recorded

\* Once a captured pane is killed its screen is in the file, and the operation
\* that settles it knows.
ScreenInv ==
    /\ killed => screen = "screen"
    /\ job.at = "kill" => job.captured /\ (Started => screen = "screen")
    /\ job.at \in {"settle", "wait", "process", "finalize"} /\ killed
          => job.captured

\* What the driver has found out of the helper it holds.
SettledInv ==
    /\ job.at \in {"inspect", "probe", "kill"} => ~job.published
    /\ job.at = "settle" /\ job.published /\ held # None
          => WrittenAndGone(held.helper)
    /\ job.at = "finalize" /\ job.outcome = "ok"
          => held # None /\ WrittenAndGone(held.helper)

DriverInv ==
    DriverTyped /\ IntentInv /\ ReleaseInv /\ ScreenInv /\ SettledInv

IInv == DriverInv /\ HelperInv /\ RoomInv

-----------------------------------------------------------------------------
(* The driver's steps keep its invariant.                                  *)

LEMMA PrepareDriver ==
    ASSUME DriverInv, Prepare
    PROVE  DriverInv'
<1> DEFINE start == [Idle EXCEPT !.op = "prepare"]
           j(p) == [start EXCEPT !.at = p]
           e == [phase |-> "starting", acked |-> FALSE, cleanup |-> "owned"]
<1>1. ASSUME NEW p \in Places
      PROVE  j(p) \in Jobs /\ j(p).at = p
  BY DEF Idle, Jobs
<1>2. {"pipe", "intent"} \subseteq Places
  BY DEF Places
<1>3. e \in Entries /\ e.phase = "starting" /\ e.cleanup = "owned"
  BY DEF Entries, Phases
<1>4. At("idle") /\ facts.owned
  BY DEF Prepare, Request
<1>5. UNCHANGED <<facts, screen, held, epoch, nonces, killed>>
  BY DEF Prepare
<1>6. \/ UNCHANGED <<entry, job>>
      \/ facts.intent # None /\ job' = j("pipe") /\ UNCHANGED entry
      \/ facts.intent = None /\ entry' = e /\ job' = j("intent")
  BY DEF Prepare
<1> HIDE DEF e, j
<1>7. QED
  BY <1>1, <1>2, <1>3, <1>4, <1>5, <1>6
  DEF DriverInv, DriverTyped, IntentInv, ReleaseInv, ScreenInv, SettledInv,
      At, Started, Recorded

LEMMA RecordIntentDriver ==
    ASSUME DriverInv, RecordIntent
    PROVE  DriverInv'
<1> DEFINE c == [nonce |-> AckNonce, path |-> AckPath, helper |-> 0]
           f == [facts EXCEPT !.intent = c]
<1>1. c \in Captures /\ c # None /\ AckNonce \in Nat
  BY DEF Captures, None, AckNonce, AckPath, DriverInv, DriverTyped
<1> HIDE DEF c
<1>2. /\ f \in FactRecords /\ f.intent = c /\ f.capture = facts.capture
      /\ f.owned = facts.owned
  BY <1>1, SetIntent DEF DriverInv, DriverTyped
<1> HIDE DEF f
<1>3. At("intent") /\ nonces' = AckNonce
      /\ UNCHANGED <<entry, screen, held, epoch, killed>>
  BY DEF RecordIntent, history
<1>4. \/ facts' = f /\ Goto("pipe")
      \/ job' = Erred /\ UNCHANGED facts
  BY DEF RecordIntent, AppendFact, f, c
<1>5. "pipe" \in Places
  BY DEF Places
<1>6. QED
  BY <1>1, <1>2, <1>3, <1>4, <1>5, GotoStep, ErredStep
  DEF DriverInv, DriverTyped, IntentInv, ReleaseInv, ScreenInv, SettledInv,
      At, Started, Recorded

LEMMA PipePaneDriver ==
    ASSUME DriverInv, PipePane
    PROVE  DriverInv'
<1>1. At("pipe")
      /\ UNCHANGED <<entry, facts, screen, held, epoch, nonces, killed>>
  BY DEF PipePane, durable, history
<1>2. Goto("await") \/ job' = Erred
  BY DEF PipePane
<1>3. "await" \in Places
  BY DEF Places
<1>4. QED
  BY <1>1, <1>2, <1>3, GotoStep, ErredStep
  DEF DriverInv, DriverTyped, IntentInv, ReleaseInv, ScreenInv, SettledInv,
      At, Started, Recorded

LEMMA AwaitAckDriver ==
    ASSUME DriverInv, HelpersTyped, AwaitAck
    PROVE  DriverInv'
<1> DEFINE h == ready[facts.intent.path].helper
           j == [job EXCEPT !.at = "started", !.helper = h]
<1>1. At("await")
      /\ UNCHANGED <<entry, facts, screen, held, epoch, nonces, killed>>
  BY DEF AwaitAck, durable, history
<1>2. \/ facts.intent.path \in DOMAIN ready /\ job' = j
      \/ job' = Erred
  BY DEF AwaitAck
<1>3. ASSUME facts.intent.path \in DOMAIN ready
      PROVE  h \in Nat
  BY <1>3 DEF HelpersTyped
<1> HIDE DEF h
<1>4. ASSUME h \in Nat
      PROVE  j \in Jobs /\ j.at = "started"
  <2>1. "started" \in Places
    BY DEF Places
  <2>2. QED
    BY <1>4, <2>1 DEF Jobs, DriverInv, DriverTyped
<1> HIDE DEF j
<1>5. QED
  BY <1>1, <1>2, <1>3, <1>4, ErredStep
  DEF DriverInv, DriverTyped, IntentInv, ReleaseInv, ScreenInv, SettledInv,
      At, Started, Recorded

LEMMA RecordStartedDriver ==
    ASSUME DriverInv, RecordStarted
    PROVE  DriverInv'
<1> DEFINE c == [facts.intent EXCEPT !.helper = job.helper]
           f == [facts EXCEPT !.intent = None, !.capture = c]
<1>1. c \in Captures
  BY DEF Captures, DriverInv, DriverTyped, FactRecords, Jobs
<1> HIDE DEF c
<1>2. /\ f \in FactRecords /\ f.intent = None /\ f.capture = c
      /\ f.owned = facts.owned
  <2>1. facts \in FactRecords /\ None \in Captures
    BY NoneIsCapture DEF DriverInv, DriverTyped
  <2>2. QED
    BY <1>1, <2>1 DEF FactRecords
<1> HIDE DEF f
<1>3. At("started") /\ held' = (IF facts' = facts THEN held ELSE c)
      /\ UNCHANGED <<entry, screen, epoch, nonces, killed>>
  BY DEF RecordStarted, history, c
<1>4. \/ facts' = f /\ Goto("mark")
      \/ job' = Erred /\ UNCHANGED facts
  BY DEF RecordStarted, AppendFact, f, c
<1>5. "mark" \in Places
  BY DEF Places
<1>6. QED
  BY <1>1, <1>2, <1>3, <1>4, <1>5, GotoStep, ErredStep
  DEF DriverInv, DriverTyped, IntentInv, ReleaseInv, ScreenInv, SettledInv,
      At, Started, Recorded

LEMMA MarkAcknowledgedDriver ==
    ASSUME DriverInv, MarkAcknowledged
    PROVE  DriverInv'
<1> DEFINE e == [entry EXCEPT !.phase = "capturing", !.acked = TRUE]
<1>1. /\ e \in Entries /\ e.phase = "capturing" /\ e.cleanup = entry.cleanup
  BY SetCapturing DEF DriverInv, DriverTyped
<1> HIDE DEF e
<1>2. At("mark")
      /\ UNCHANGED <<facts, screen, held, epoch, nonces, killed>>
  BY DEF MarkAcknowledged, history
<1>3. \/ entry.phase # "failed" /\ entry' = e /\ Goto("unlink")
      \/ job' = Erred /\ UNCHANGED entry
  BY DEF MarkAcknowledged, CommitEntry, e
<1>4. "unlink" \in Places
  BY DEF Places
<1>5. QED
  BY <1>1, <1>2, <1>3, <1>4, GotoStep, ErredStep
  DEF DriverInv, DriverTyped, IntentInv, ReleaseInv, ScreenInv, SettledInv,
      At, Started, Recorded

LEMMA RemoveAckDriver ==
    ASSUME DriverInv, RemoveAck
    PROVE  DriverInv'
<1>1. At("unlink") /\ job' = Idle
      /\ UNCHANGED <<entry, facts, screen, held, epoch, nonces, killed>>
  BY DEF RemoveAck, history
<1>2. QED
  BY <1>1, IdleIsJob
  DEF DriverInv, DriverTyped, IntentInv, ReleaseInv, ScreenInv, SettledInv,
      At, Started, Recorded

\* A completion that is verified, and whose helper is gone, is all there is.
LEMMA VerifiedWritten ==
    ASSUME HelpersInv, CompletionOf(held) = "verified", HelperGone
    PROVE  WrittenAndGone(held.helper)
<1>1. held.path \in DOMAIN completion
      /\ completion[held.path].helper = held.helper
  BY DEF CompletionOf
<1>2. QED
  BY <1>1 DEF HelpersInv, Written, WrittenAndGone, HelperGone, Alive

LEMMA HelpersStay ==
    ASSUME UNCHANGED <<helpers, pipe>>, NEW h
    PROVE  WrittenAndGone(h)' <=> WrittenAndGone(h)
BY DEF Written, WrittenAndGone

LEMMA CleanUpDriver ==
    ASSUME DriverInv, CleanUp
    PROVE  DriverInv'
<1> DEFINE f == [facts EXCEPT !.cleaning = TRUE]
           j == [Idle EXCEPT !.op = "cleanup", !.at = "inspect"]
<1>1. /\ f \in FactRecords /\ f.intent = facts.intent
      /\ f.capture = facts.capture /\ f.owned = facts.owned
  BY SetCleaning DEF DriverInv, DriverTyped
<1>2. j \in Jobs /\ j.at = "inspect" /\ ~j.published
  BY IdleIsJob DEF Jobs, Idle, Places
<1>3. At("idle")
      /\ UNCHANGED <<entry, screen, held, epoch, nonces, killed>>
  BY DEF CleanUp, Request
<1>4. facts' \in {f, facts} /\ job' \in {j, job}
  BY DEF CleanUp
<1> HIDE DEF f, j
<1>5. QED
  BY <1>1, <1>2, <1>3, <1>4
  DEF DriverInv, DriverTyped, IntentInv, ReleaseInv, ScreenInv, SettledInv,
      At, Started, Recorded

LEMMA LoadDriver ==
    ASSUME DriverInv, Load
    PROVE  DriverInv'
<1> DEFINE f == [facts EXCEPT !.cleaning = TRUE]
           j == [Idle EXCEPT !.op = "load", !.at = "inspect"]
<1>1. /\ f \in FactRecords /\ f.intent = facts.intent
      /\ f.capture = facts.capture /\ f.owned = facts.owned
  BY SetCleaning DEF DriverInv, DriverTyped
<1>2. j \in Jobs /\ j.at = "inspect" /\ ~j.published
  BY IdleIsJob DEF Jobs, Idle, Places
<1>3. At("down") /\ held' = facts.capture /\ epoch' = epoch + 1
      /\ UNCHANGED <<entry, screen, nonces, killed>>
  BY DEF Load, history
<1>4. facts' \in {f, facts} /\ job' \in {j, Idle, job}
  BY DEF Load
<1> HIDE DEF f, j
<1>5. QED
  BY <1>1, <1>2, <1>3, <1>4, IdleIsJob
  DEF DriverInv, DriverTyped, IntentInv, ReleaseInv, ScreenInv, SettledInv,
      At, Started, Recorded

LEMMA InspectDriver ==
    ASSUME DriverInv, HelpersInv, Inspect
    PROVE  DriverInv'
<1> DEFINE b == screen # "none"
           j == [job EXCEPT !.at = "settle", !.published = TRUE,
                            !.captured = b]
<1>1. At("inspect") /\ UNCHANGED <<helpers, pipe>>
      /\ UNCHANGED <<entry, facts, screen, held, epoch, nonces, killed>>
  BY DEF Inspect, durable, outside, history
<1>2. \/ job' = Erred
      \/ ~facts.owned /\ Goto("receipt")
      \/ facts.owned /\ Goto("probe")
      \/ /\ facts.owned /\ CompletionOf(held) = "verified" /\ HelperGone
         /\ job' = j
  BY DEF Inspect, Goto
<1>3. job \in Jobs /\ "settle" \in Places /\ b \in BOOLEAN
  BY DEF DriverInv, DriverTyped, Places
<1>4. j \in Jobs /\ j.at = "settle" /\ (j.captured <=> b)
  BY <1>3 DEF Jobs
<1>5. {"receipt", "probe"} \subseteq Places
  BY DEF Places
<1> HIDE DEF j
<1>6. QED
  BY <1>1, <1>2, <1>4, <1>5, GotoStep, ErredStep, VerifiedWritten, HelpersStay
  DEF DriverInv, DriverTyped, IntentInv, ReleaseInv, ScreenInv, SettledInv,
      At, Started, Recorded

LEMMA ProbeDriver ==
    ASSUME DriverInv, Probe
    PROVE  DriverInv'
<1> DEFINE b == screen # "none"
           j == [job EXCEPT !.at = "settle", !.captured = b]
           k == [job EXCEPT !.at = "kill", !.captured = TRUE]
<1>1. At("probe")
      /\ UNCHANGED <<entry, facts, held, epoch, nonces, killed>>
  BY DEF Probe, history
<1>2. \/ job' = Erred /\ UNCHANGED screen
      \/ job' = j /\ UNCHANGED screen
      \/ job' = k /\ SaveScreen
  BY DEF Probe
<1>3. job \in Jobs /\ {"settle", "kill"} \subseteq Places /\ b \in BOOLEAN
  BY DEF DriverInv, DriverTyped, Places
<1>4. j \in Jobs /\ j.at = "settle" /\ (j.captured <=> b)
      /\ j.published = job.published
  BY <1>3 DEF Jobs
<1>5. k \in Jobs /\ k.at = "kill" /\ k.captured
      /\ k.published = job.published
  BY <1>3 DEF Jobs
<1> HIDE DEF j, k
<1>6. QED
  BY <1>1, <1>2, <1>4, <1>5, ErredStep
  DEF DriverInv, DriverTyped, IntentInv, ReleaseInv, ScreenInv, SettledInv,
      At, Started, Recorded, SaveScreen

LEMMA KillDriver ==
    ASSUME DriverInv, Kill
    PROVE  DriverInv'
<1> DEFINE e == [entry EXCEPT !.cleanup = "failed"]
<1>1. e \in Entries /\ e.phase = entry.phase /\ e.cleanup = "failed"
  BY SetCleanup DEF DriverInv, DriverTyped
<1>2. At("kill") /\ UNCHANGED <<facts, screen, held, epoch, nonces>>
  BY DEF Kill
<1>3. \/ (killed' => Started) /\ Goto("settle") /\ UNCHANGED entry
      \/ entry' \in {e, entry} /\ job' = Erred /\ (killed' => killed)
  BY DEF Kill
<1>4. "settle" \in Places
  BY DEF Places
<1> HIDE DEF e
<1>5. QED
  BY <1>1, <1>2, <1>3, <1>4, GotoStep, ErredStep
  DEF DriverInv, DriverTyped, IntentInv, ReleaseInv, ScreenInv, SettledInv,
      At, Started, Recorded

LEMMA SettleDriver ==
    ASSUME DriverInv, Settle
    PROVE  DriverInv'
<1> DEFINE p == IF ~Started \/ Recorded \/ entry.phase = "complete"
                THEN "cleaned"
                ELSE IF held # None /\ ~job.published
                THEN "wait" ELSE "finalize"
           o == IF held # None /\ job.published THEN "ok" ELSE "none"
           j == [job EXCEPT !.at = p, !.outcome = o]
<1>1. At("settle") /\ job' = j /\ UNCHANGED <<helpers, pipe>>
      /\ UNCHANGED <<entry, facts, screen, held, epoch, nonces, killed>>
  BY DEF Settle, durable, outside, history
<1>2. job \in Jobs /\ p \in Places /\ o \in {"none", "ok", "error"}
  BY DEF DriverInv, DriverTyped, Places
<1>3. /\ p \in {"cleaned", "wait", "finalize"}
      /\ p = "cleaned" => ~Started \/ Recorded \/ entry.phase = "complete"
      /\ o = "ok" => held # None /\ job.published
  OBVIOUS
<1> HIDE DEF p, o
<1>4. j \in Jobs /\ j.at = p /\ j.outcome = o /\ j.captured = job.captured
      /\ j.published = job.published
  BY <1>2 DEF Jobs
<1> HIDE DEF j
<1>5. QED
  BY <1>1, <1>3, <1>4, HelpersStay
  DEF DriverInv, DriverTyped, IntentInv, ReleaseInv, ScreenInv, SettledInv,
      At, Started, Recorded

\* The operation goes on to settle the capture, with what it has found out.
LEMMA OutcomeStep ==
    ASSUME job \in Jobs, NEW o \in {"none", "ok", "error"},
           job' = [job EXCEPT !.at = "finalize", !.outcome = o]
    PROVE  /\ job' \in Jobs /\ job'.at = "finalize" /\ job'.outcome = o
           /\ job'.captured = job.captured
<1>1. "finalize" \in Places
  BY DEF Places
<1>2. QED
  BY <1>1 DEF Jobs

LEMMA AwaitCompletionDriver ==
    ASSUME DriverInv, HelperInv, AwaitCompletion
    PROVE  DriverInv'
<1> DEFINE j(o) == [job EXCEPT !.at = "finalize", !.outcome = o]
<1>1. At("wait") /\ UNCHANGED <<helpers, pipe>>
      /\ UNCHANGED <<entry, facts, screen, held, epoch, nonces, killed>>
  BY DEF AwaitCompletion, durable, outside, history
<1>2. \/ Goto("process")
      \/ job' = j("error")
      \/ CompletionOf(held) = "verified" /\ HelperGone /\ job' = j("ok")
  BY DEF AwaitCompletion
<1>3. job \in Jobs /\ "process" \in Places
  BY DEF DriverInv, DriverTyped, Places
<1>4. ASSUME WrittenAndGone(held.helper)
      PROVE  held # None
  BY <1>4, NoneIsCapture DEF WrittenAndGone, Written, HelperInv, HelpersTyped
<1>5. ASSUME NEW o \in {"error", "ok"}, job' = j(o)
      PROVE  /\ job' \in Jobs /\ job'.at = "finalize" /\ job'.outcome = o
             /\ job'.captured = job.captured
  BY <1>3, <1>5, OutcomeStep
<1> HIDE DEF j
<1>6. QED
  BY <1>1, <1>2, <1>3, <1>4, <1>5, GotoStep, HelpersStay, VerifiedWritten
  DEF DriverInv, DriverTyped, IntentInv, ReleaseInv, ScreenInv, SettledInv,
      At, Started, Recorded, HelperInv

LEMMA CheckProcessDriver ==
    ASSUME DriverInv, CheckProcess
    PROVE  DriverInv'
<1> DEFINE j == [job EXCEPT !.at = "finalize", !.outcome = "error"]
           k == [job EXCEPT !.at = "wait"]
<1>1. At("process")
      /\ UNCHANGED <<entry, facts, screen, held, epoch, nonces, killed>>
  BY DEF CheckProcess, durable, history
<1>2. job' = j \/ job' = k
  BY DEF CheckProcess
<1>3. job \in Jobs /\ {"wait", "finalize"} \subseteq Places
  BY DEF DriverInv, DriverTyped, Places
<1>4. j \in Jobs /\ j.at = "finalize" /\ j.outcome = "error"
      /\ j.captured = job.captured
  BY <1>3 DEF Jobs
<1>5. k \in Jobs /\ k.at = "wait" /\ k.captured = job.captured
  BY <1>3 DEF Jobs
<1> HIDE DEF j, k
<1>6. QED
  BY <1>1, <1>2, <1>4, <1>5
  DEF DriverInv, DriverTyped, IntentInv, ReleaseInv, ScreenInv, SettledInv,
      At, Started, Recorded

LEMMA FinalizeDriver ==
    ASSUME DriverInv, Finalize
    PROVE  DriverInv'
<1> DEFINE e(p) == [entry EXCEPT !.phase = p]
<1>1. ASSUME NEW p \in {"complete", "failed"}
      PROVE  e(p) \in Entries /\ e(p).phase = p /\ e(p).cleanup = entry.cleanup
  BY SetPhase DEF DriverInv, DriverTyped, Phases
<1>2. At("finalize") /\ held' \in {held, None}
      /\ UNCHANGED <<facts, epoch, nonces, killed>>
  BY DEF Finalize, history
<1>3. \/ job' = Erred /\ UNCHANGED <<entry, screen>>
      \/ /\ CanComplete /\ UNCHANGED screen
         /\ \/ entry' = e("complete") /\ Goto("cleaned")
            \/ job' = Erred /\ UNCHANGED entry
      \/ /\ screen' = (IF job.captured THEN screen ELSE "empty")
         /\ \/ entry' = e("failed") /\ Goto("cleaned")
            \/ job' = Erred /\ UNCHANGED entry
  BY DEF Finalize, Complete, FinalizeFailed, CommitEntry
<1>4. "cleaned" \in Places
  BY DEF Places
<1> HIDE DEF e
<1>5. QED
  BY <1>1, <1>2, <1>3, <1>4, GotoStep, ErredStep
  DEF DriverInv, DriverTyped, IntentInv, ReleaseInv, ScreenInv, SettledInv,
      At, Started, Recorded, CanComplete

LEMMA MarkCleanedDriver ==
    ASSUME DriverInv, MarkCleaned
    PROVE  DriverInv'
<1> DEFINE e == [entry EXCEPT !.cleanup = "complete"]
<1>1. e \in Entries /\ e.phase = entry.phase /\ e.cleanup = "complete"
  BY SetCleanup DEF DriverInv, DriverTyped
<1>2. At("cleaned")
      /\ UNCHANGED <<facts, screen, held, epoch, nonces, killed>>
  BY DEF MarkCleaned, history
<1>3. \/ entry' = e /\ Goto("remove")
      \/ (~Started \/ Recorded) /\ Goto("remove") /\ UNCHANGED entry
      \/ job' = Erred /\ UNCHANGED entry
  BY DEF MarkCleaned, CommitEntry
<1>4. "remove" \in Places
  BY DEF Places
<1> HIDE DEF e
<1>5. QED
  BY <1>1, <1>2, <1>3, <1>4, GotoStep, ErredStep
  DEF DriverInv, DriverTyped, IntentInv, ReleaseInv, ScreenInv, SettledInv,
      At, Started, Recorded

LEMMA RemoveCompletionDriver ==
    ASSUME DriverInv, RemoveCompletion
    PROVE  DriverInv'
<1>1. At("remove") /\ Goto("release")
      /\ UNCHANGED <<entry, facts, screen, held, epoch, nonces, killed>>
  BY DEF RemoveCompletion, history
<1>2. "release" \in Places
  BY DEF Places
<1>3. QED
  BY <1>1, <1>2, GotoStep
  DEF DriverInv, DriverTyped, IntentInv, ReleaseInv, ScreenInv, SettledInv,
      At, Started, Recorded

LEMMA ReleaseDriver ==
    ASSUME DriverInv, Release
    PROVE  DriverInv'
<1> DEFINE f == [facts EXCEPT !.owned = FALSE, !.intent = None,
                              !.capture = None]
<1>1. f \in FactRecords /\ f.intent = None /\ f.capture = None /\ ~f.owned
  BY SetReleased DEF DriverInv, DriverTyped
<1>2. At("release")
      /\ held' = (IF job'.at = "receipt" THEN None ELSE held)
      /\ UNCHANGED <<entry, screen, epoch, nonces, killed>>
  BY DEF Release, history
<1>3. \/ facts' = f /\ Goto("receipt")
      \/ job' = Erred /\ UNCHANGED facts
  BY DEF Release, AppendFact
<1>4. "receipt" \in Places
  BY DEF Places
<1> HIDE DEF f
<1>5. QED
  BY <1>1, <1>2, <1>3, <1>4, GotoStep, ErredStep
  DEF DriverInv, DriverTyped, IntentInv, ReleaseInv, ScreenInv, SettledInv,
      At, Started, Recorded

LEMMA ReceiptDriver ==
    ASSUME DriverInv, Receipt
    PROVE  DriverInv'
<1> DEFINE f == [facts EXCEPT !.cleaning = FALSE]
<1>1. /\ f \in FactRecords /\ f.intent = facts.intent
      /\ f.capture = facts.capture /\ f.owned = facts.owned
  BY SetCleaning DEF DriverInv, DriverTyped
<1>2. At("receipt")
      /\ UNCHANGED <<entry, screen, held, epoch, nonces, killed>>
  BY DEF Receipt, history
<1>3. facts' \in {f, facts} /\ (job' = Idle \/ job' = Erred)
  BY DEF Receipt
<1> HIDE DEF f
<1>4. QED
  BY <1>1, <1>2, <1>3, IdleIsJob, ErredStep
  DEF DriverInv, DriverTyped, IntentInv, ReleaseInv, ScreenInv, SettledInv,
      At, Started, Recorded

LEMMA CrashDriver ==
    ASSUME DriverInv, Crash
    PROVE  DriverInv'
<1>1. job' = Down
      /\ UNCHANGED <<entry, facts, screen, held, epoch, nonces, killed>>
  BY DEF Crash, durable
<1>2. QED
  BY <1>1, IdleIsJob
  DEF DriverInv, DriverTyped, IntentInv, ReleaseInv, ScreenInv, SettledInv,
      At, Started, Recorded

-----------------------------------------------------------------------------
(* The steps of helpers, tmux and the agent.                               *)

\* What was written stays written.
Progress == \A g : /\ Written(g) => Written(g)'
                   /\ WrittenAndGone(g) => WrittenAndGone(g)'

LEMMA Outside ==
    ASSUME DriverInv, Progress,
           UNCHANGED <<entry, facts, screen, epoch, nonces, held, job, killed>>
    PROVE  DriverInv'
BY DEF DriverInv, DriverTyped, IntentInv, ReleaseInv, ScreenInv, SettledInv,
       Progress, Started, Recorded

\* Helper h becomes r, which is as far as it was or further, and keeps count.
LEMMA PutHelperAndFiles ==
    ASSUME HelperInv, NEW h \in DOMAIN helpers, NEW r \in HelperRecords,
           helpers' = [helpers EXCEPT ![h] = r],
           pipe' \in {pipe, 0}, pipe' = h => r.at \in {"open", "ack", "copy"},
           \A p \in DOMAIN ready' : ready'[p].helper \in DOMAIN helpers,
           \A p \in DOMAIN completion' :
               \/ Written(completion'[p].helper)
               \/ completion'[p].helper = h /\ r.at = "done",
           r.at # "gone" => r.sent = r.bytes + r.queue,
           r.at = "done" => r.bytes = r.sent,
           helpers[h].at \in {"done", "gone"} =>
               /\ r.at \in {helpers[h].at, "gone"}
               /\ r.bytes = helpers[h].bytes /\ r.sent = helpers[h].sent
    PROVE  HelperInv' /\ Progress
<1>1. PICK n \in Nat : helpers \in [1..n -> HelperRecords]
  BY DEF HelperInv, HelpersTyped
<1>2. helpers' \in [1..n -> HelperRecords]
  BY <1>1
<1>3. /\ DOMAIN helpers' = DOMAIN helpers /\ helpers'[h] = r
      /\ \A g \in DOMAIN helpers \ {h} : helpers'[g] = helpers[g]
  BY <1>1
<1>4. pipe' # 0 => /\ pipe' \in DOMAIN helpers'
                   /\ helpers'[pipe'].at \in {"open", "ack", "copy"}
  BY <1>3 DEF HelperInv, HelpersTyped
<1>5. HelpersTyped'
  BY <1>2, <1>3, <1>4 DEF HelperInv, HelpersTyped
<1>6. Progress
  BY <1>1, <1>3, <1>4 DEF HelperInv, HelpersTyped, Progress, Written,
                          WrittenAndGone
<1>7. \A g \in DOMAIN helpers' : helpers'[g].at = "done" => Written(g)'
  BY <1>1, <1>3, <1>4, <1>6 DEF HelperInv, HelpersInv, Progress, Written
<1>8. \A g \in DOMAIN helpers' : helpers'[g].at # "gone"
         => helpers'[g].sent = helpers'[g].bytes + helpers'[g].queue
  BY <1>3 DEF HelperInv, HelpersInv
<1>9. (\A p \in DOMAIN completion : Written(completion[p].helper))'
  <2>1. \A g : Written(g) \/ (g = h /\ r.at = "done") => Written(g)'
    BY <1>3, <1>6, <1>7 DEF Progress
  <2>2. QED
    BY <2>1 DEF Written
<1>10. QED
  BY <1>5, <1>6, <1>7, <1>8, <1>9 DEF HelperInv, HelpersInv

LEMMA PutHelper ==
    ASSUME HelperInv, NEW h \in DOMAIN helpers, NEW r \in HelperRecords,
           helpers' = [helpers EXCEPT ![h] = r],
           pipe' \in {pipe, 0}, pipe' = h => r.at \in {"open", "ack", "copy"},
           UNCHANGED <<ready, completion>>,
           r.at # "gone" => r.sent = r.bytes + r.queue,
           r.at = "done" => r.bytes = r.sent,
           helpers[h].at \in {"done", "gone"} =>
               /\ r.at \in {helpers[h].at, "gone"}
               /\ r.bytes = helpers[h].bytes /\ r.sent = helpers[h].sent
    PROVE  HelperInv' /\ Progress
<1>1. /\ \A p \in DOMAIN ready' : ready'[p].helper \in DOMAIN helpers
      /\ \A p \in DOMAIN completion' : Written(completion'[p].helper)
  BY DEF HelperInv, HelpersTyped, HelpersInv
<1>2. QED
  BY <1>1, PutHelperAndFiles

LEMMA HelperRecord ==
    ASSUME HelperInv, NEW h \in DOMAIN helpers
    PROVE  helpers[h] \in HelperRecords
BY DEF HelperInv, HelpersTyped

\* A helper that ends takes what it had not written with it.
LEMMA LeaveHelper ==
    ASSUME HelperInv, NEW h \in DOMAIN helpers, Leave(h),
           UNCHANGED <<ready, completion>>
    PROVE  HelperInv' /\ Progress
<1> DEFINE r == [helpers[h] EXCEPT !.at = "gone", !.queue = 0]
<1>1. helpers[h] \in HelperRecords /\ "gone" \in HelperAt
  BY HelperRecord DEF HelperAt
<1>2. helpers' = [helpers EXCEPT ![h] = r] /\ pipe' \in {pipe, 0} /\ pipe' # h
  <2>1. 0 # h
    BY DEF HelperInv, HelpersTyped
  <2>2. QED
    BY <2>1 DEF Leave
<1>3. /\ r \in HelperRecords /\ r.at = "gone" /\ r.bytes = helpers[h].bytes
      /\ r.sent = helpers[h].sent
  BY <1>1 DEF HelperRecords
<1> HIDE DEF r
<1>4. QED
  BY <1>2, <1>3, PutHelper

LEMMA HelperOpenHelper ==
    ASSUME HelperInv, RoomInv, NEW h \in DOMAIN helpers, HelperOpen(h)
    PROVE  HelperInv' /\ Progress
<1> DEFINE r == [helpers[h] EXCEPT !.at = "ack", !.start = transcript]
<1>1. helpers[h] \in HelperRecords /\ "ack" \in HelperAt /\ transcript \in Nat
  BY HelperRecord DEF HelperAt, RoomInv
<1>2. helpers' = [helpers EXCEPT ![h] = r] /\ helpers[h].at = "open"
      /\ UNCHANGED <<pipe, ready, completion>>
  BY DEF HelperOpen, durable
<1>3. /\ r \in HelperRecords /\ r.at = "ack" /\ r.bytes = helpers[h].bytes
      /\ r.sent = helpers[h].sent /\ r.queue = helpers[h].queue
  BY <1>1 DEF HelperRecords
<1> HIDE DEF r
<1>4. QED
  BY <1>2, <1>3, PutHelper DEF HelperInv, HelpersInv

LEMMA HelperCopyHelper ==
    ASSUME HelperInv, NEW h \in DOMAIN helpers, HelperCopy(h)
    PROVE  HelperInv' /\ Progress
<1> DEFINE q == helpers[h].queue - 1
           b == helpers[h].bytes + 1
           r == [helpers[h] EXCEPT !.queue = q, !.bytes = b]
<1>1. helpers[h] \in HelperRecords /\ helpers[h].at = "copy"
      /\ helpers[h].queue > 0
  BY HelperRecord DEF HelperCopy
<1>2. helpers' = [helpers EXCEPT ![h] = r]
      /\ UNCHANGED <<pipe, ready, completion>>
  BY DEF HelperCopy
<1>3. q \in Nat /\ b \in Nat /\ b + q = helpers[h].bytes + helpers[h].queue
  BY <1>1 DEF HelperRecords
<1>4. /\ r \in HelperRecords /\ r.at = helpers[h].at /\ r.bytes = b
      /\ r.sent = helpers[h].sent /\ r.queue = q
  BY <1>1, <1>3 DEF HelperRecords
<1> HIDE DEF r, q, b
<1>5. QED
  BY <1>1, <1>2, <1>3, <1>4, PutHelper DEF HelperInv, HelpersInv

LEMMA WriteHelper ==
    ASSUME HelperInv, Write
    PROVE  HelperInv' /\ Progress
<1>1. UNCHANGED <<pipe, ready, completion>>
  BY DEF Write, durable
<1>2. CASE pipe = 0
  BY <1>1, <1>2 DEF Write, HelperInv, HelpersTyped, HelpersInv, Progress,
                    Written, WrittenAndGone
<1>3. CASE pipe # 0
  <2> DEFINE q == helpers[pipe].queue + 1
             c == helpers[pipe].sent + 1
             r == [helpers[pipe] EXCEPT !.queue = q, !.sent = c]
  <2>1. /\ pipe \in DOMAIN helpers /\ helpers[pipe] \in HelperRecords
        /\ helpers[pipe].at \in {"open", "ack", "copy"}
    BY <1>3, HelperRecord DEF HelperInv, HelpersTyped
  <2>2. helpers' = [helpers EXCEPT ![pipe] = r]
    BY <1>3 DEF Write
  <2>3. q \in Nat /\ c \in Nat
        /\ c = helpers[pipe].bytes + q
    BY <2>1 DEF HelperRecords, HelperInv, HelpersInv
  <2>4. /\ r \in HelperRecords /\ r.at = helpers[pipe].at /\ r.queue = q
        /\ r.sent = c /\ r.bytes = helpers[pipe].bytes
    BY <2>1, <2>3 DEF HelperRecords
  <2> HIDE DEF r, q, c
  <2>5. QED
    BY <1>1, <2>1, <2>2, <2>3, <2>4, PutHelper
<1>4. QED
  BY <1>2, <1>3

\* A pane that ends, or is killed, is piped to nobody.
LEMMA ClosedHelper ==
    ASSUME HelperInv, pipe' = 0, UNCHANGED <<helpers, ready, completion>>
    PROVE  HelperInv' /\ Progress
BY DEF HelperInv, HelpersTyped, HelpersInv, Progress, Written, WrittenAndGone

\* Files are taken away.
LEMMA RemovedHelper ==
    ASSUME HelperInv, NEW p, NEW q, UNCHANGED <<helpers, pipe>>,
           ready' \in {ready, Without(ready, p)},
           completion' \in {completion, Without(completion, q)}
    PROVE  HelperInv' /\ Progress
BY DEF HelperInv, HelpersTyped, HelpersInv, Progress, Written, WrittenAndGone,
       Without

LEMMA HelperAckHelper ==
    ASSUME HelperInv, NEW h \in DOMAIN helpers, HelperAck(h)
    PROVE  HelperInv' /\ Progress
<1> DEFINE r == [helpers[h] EXCEPT !.at = "copy"]
           path == helpers[h].path
           a == [nonce |-> helpers[h].nonce, helper |-> h]
<1>1. helpers[h] \in HelperRecords /\ "copy" \in HelperAt
      /\ helpers[h].at = "ack" /\ UNCHANGED completion
  BY HelperRecord DEF HelperAt, HelperAck
<1>2. CASE Leave(h) /\ UNCHANGED ready
  BY <1>1, <1>2, LeaveHelper
<1>3. CASE /\ ready' = With(ready, path, a)
           /\ helpers' = [helpers EXCEPT ![h] = r]
           /\ UNCHANGED pipe
  <2>1. /\ r \in HelperRecords /\ r.at = "copy" /\ r.bytes = helpers[h].bytes
        /\ r.sent = helpers[h].sent /\ r.queue = helpers[h].queue
    BY <1>1 DEF HelperRecords
  <2> HIDE DEF r
  <2>2. \A p \in DOMAIN ready' : ready'[p].helper \in DOMAIN helpers
    BY <1>3 DEF With, HelperInv, HelpersTyped
  <2>3. \A p \in DOMAIN completion' : Written(completion'[p].helper)
    BY <1>1 DEF HelperInv, HelpersInv
  <2>4. helpers[h].sent = helpers[h].bytes + helpers[h].queue
    BY <1>1 DEF HelperInv, HelpersInv
  <2>5. QED
    BY <1>1, <1>3, <2>1, <2>2, <2>3, <2>4, PutHelperAndFiles
<1>4. QED
  BY <1>2, <1>3 DEF HelperAck

LEMMA HelperFinishHelper ==
    ASSUME HelperInv, NEW h \in DOMAIN helpers, HelperFinish(h)
    PROVE  HelperInv' /\ Progress
<1> DEFINE r == [helpers[h] EXCEPT !.at = "done"]
           path == helpers[h].path
           a == [nonce |-> helpers[h].nonce, helper |-> h,
                 length |-> transcript]
<1>1. /\ helpers[h] \in HelperRecords /\ "done" \in HelperAt
      /\ helpers[h].at = "copy" /\ helpers[h].queue = 0 /\ pipe # h
      /\ UNCHANGED ready
  BY HelperRecord DEF HelperAt, HelperFinish, InputEnds
<1>2. CASE Leave(h) /\ UNCHANGED completion
  BY <1>1, <1>2, LeaveHelper
<1>3. CASE /\ completion' = With(completion, path, a)
           /\ helpers' = [helpers EXCEPT ![h] = r]
           /\ UNCHANGED pipe
  <2>1. /\ r \in HelperRecords /\ r.at = "done" /\ r.bytes = helpers[h].bytes
        /\ r.sent = helpers[h].sent /\ r.queue = helpers[h].queue
    BY <1>1 DEF HelperRecords
  <2> HIDE DEF r
  <2>2. \A p \in DOMAIN ready' : ready'[p].helper \in DOMAIN helpers
    BY <1>1 DEF HelperInv, HelpersTyped
  <2>3. \A p \in DOMAIN completion' :
           \/ Written(completion'[p].helper)
           \/ completion'[p].helper = h /\ r.at = "done"
    BY <1>3, <2>1 DEF With, HelperInv, HelpersInv
  <2>4. r.sent = r.bytes + r.queue /\ r.sent = r.bytes
    BY <1>1, <2>1 DEF HelperInv, HelpersInv, HelperRecords
  <2>5. QED
    BY <1>1, <1>3, <2>1, <2>2, <2>3, <2>4, PutHelperAndFiles
<1>4. QED
  BY <1>2, <1>3 DEF HelperFinish

\* Every step of a helper, its death included.
LEMMA HelperSteps ==
    ASSUME HelperInv, RoomInv, NEW h \in DOMAIN helpers,
           Helper(h) \/ HelperKilled(h)
    PROVE  HelperInv' /\ Progress
<1>1. CASE HelperExit(h) \/ HelperKilled(h)
  BY <1>1, LeaveHelper DEF HelperExit, HelperKilled, durable
<1>2. QED
  BY <1>1, HelperOpenHelper, HelperAckHelper, HelperCopyHelper,
     HelperFinishHelper DEF Helper

\* A new helper has not been sent anything.
LEMMA PipePaneHelper ==
    ASSUME DriverTyped, HelperInv, PipePane
    PROVE  HelperInv' /\ Progress
<1>1. UNCHANGED <<ready, completion>>
  BY DEF PipePane, durable
<1>2. CASE UNCHANGED <<pipe, helpers>>
  BY <1>1, <1>2 DEF HelperInv, HelpersTyped, HelpersInv, Progress, Written,
                    WrittenAndGone
<1>3. CASE pipe' = 0 /\ UNCHANGED helpers
  BY <1>1, <1>3, ClosedHelper
<1>4. ASSUME NEW h, h = Cardinality(DOMAIN helpers) + 1, pipe = 0, pipe' = h,
             helpers' = With(helpers, h,
                    [nonce |-> facts.intent.nonce, path |-> facts.intent.path,
                     at |-> "open", sent |-> 0, queue |-> 0, start |-> 0,
                     bytes |-> 0])
      PROVE  HelperInv' /\ Progress
  <2> DEFINE r == [nonce |-> facts.intent.nonce, path |-> facts.intent.path,
                   at |-> "open", sent |-> 0, queue |-> 0, start |-> 0,
                   bytes |-> 0]
  <2>1. PICK n \in Nat : helpers \in [1..n -> HelperRecords]
    BY DEF HelperInv, HelpersTyped
  <2>2. h = n + 1
    <3>1. DOMAIN helpers = 1..n
      BY <2>1
    <3>2. Cardinality(1..n) = n
      BY <2>1, FS_Interval
    <3>3. QED
      BY <1>4, <3>1, <3>2
  <2>3. /\ r \in HelperRecords /\ r.at = "open" /\ r.sent = 0 /\ r.bytes = 0
        /\ r.queue = 0
    BY DEF DriverTyped, FactRecords, Captures, HelperRecords, HelperAt
  <2>4. helpers' = With(helpers, h, r)
    BY <1>4
  <2> HIDE DEF r
  <2>5. /\ helpers' \in [1..(n + 1) -> HelperRecords]
        /\ DOMAIN helpers' = 1..(n + 1) /\ helpers'[h] = r
        /\ \A g \in 1..n : helpers'[g] = helpers[g]
    BY <2>1, <2>2, <2>3, <2>4 DEF With
  <2>6. HelpersTyped'
    BY <1>1, <1>4, <2>1, <2>2, <2>3, <2>5 DEF HelperInv, HelpersTyped
  <2>7. Progress
    BY <1>4, <2>1, <2>2, <2>5 DEF Progress, Written, WrittenAndGone
  <2>8. HelpersInv'
    BY <1>1, <2>1, <2>2, <2>3, <2>5, <2>7 DEF HelperInv, HelpersInv, Progress
  <2>9. QED
    BY <2>6, <2>7, <2>8 DEF HelperInv
<1>5. PipePaneToggle \/ UNCHANGED <<pipe, helpers>>
  BY DEF PipePane
<1>6. QED
  BY <1>2, <1>3, <1>4, <1>5 DEF PipePaneToggle

-----------------------------------------------------------------------------
(* The transcript holds no more than was written to it.                    *)

LEMMA QueuedMember ==
    ASSUME NEW f, NEW x
    PROVE  x \in Queued(f) <=>
               \E h \in DOMAIN f : \E i \in 1..f[h].queue : x = <<h, i>>
BY DEF Queued

\* No chunk is added.
LEMMA RoomStays ==
    ASSUME RoomInv, Queued(helpers') \subseteq Queued(helpers),
           UNCHANGED <<transcript, output>>
    PROVE  RoomInv'
<1>1. /\ IsFiniteSet(Queued(helpers'))
      /\ Cardinality(Queued(helpers')) <= Cardinality(Queued(helpers))
  BY FS_Subset DEF RoomInv
<1>2. /\ Cardinality(Queued(helpers')) \in Nat
      /\ Cardinality(Queued(helpers)) \in Nat
  BY <1>1, FS_CardinalityType DEF RoomInv
<1>3. QED
  BY <1>1, <1>2 DEF RoomInv

\* Helper h keeps its queue, loses it or takes one chunk from it.
LEMMA PutQueue ==
    ASSUME HelperInv, NEW h \in DOMAIN helpers, NEW r,
           helpers' = [helpers EXCEPT ![h] = r]
    PROVE  \A x : x \in Queued(helpers') <=>
              \/ /\ x \in Queued(helpers)
                 /\ x \notin {h} \X (1..helpers[h].queue)
              \/ x \in {h} \X (1..r.queue)
<1>1. /\ DOMAIN helpers' = DOMAIN helpers /\ helpers'[h] = r
      /\ \A g \in DOMAIN helpers \ {h} : helpers'[g] = helpers[g]
  BY DEF HelperInv, HelpersTyped
<1>2. SUFFICES ASSUME NEW x
               PROVE  x \in Queued(helpers') <=>
                         \/ /\ x \in Queued(helpers)
                            /\ x \notin {h} \X (1..helpers[h].queue)
                         \/ x \in {h} \X (1..r.queue)
  OBVIOUS
<1> DEFINE others == \E g \in DOMAIN helpers \ {h} :
                        x \in {g} \X (1..helpers[g].queue)
<1>3. x \in Queued(helpers) <=> others \/ x \in {h} \X (1..helpers[h].queue)
  BY DEF Queued
<1>4. x \in Queued(helpers') <=> others \/ x \in {h} \X (1..r.queue)
  <2>1. x \in Queued(helpers') <=>
           \E g \in DOMAIN helpers' : x \in {g} \X (1..helpers'[g].queue)
    BY DEF Queued
  <2>2. \A g \in DOMAIN helpers \ {h} :
           {g} \X (1..helpers'[g].queue) = {g} \X (1..helpers[g].queue)
    BY <1>1
  <2>3. QED
    BY <1>1, <2>1, <2>2
<1>5. others => x \notin {h} \X (1..helpers[h].queue)
  OBVIOUS
<1>6. QED
  BY <1>3, <1>4, <1>5

LEMMA LeaveRoom ==
    ASSUME HelperInv, RoomInv, NEW h \in DOMAIN helpers, Leave(h),
           UNCHANGED <<transcript, output>>
    PROVE  RoomInv'
<1> DEFINE r == [helpers[h] EXCEPT !.at = "gone", !.queue = 0]
<1>1. helpers[h] \in HelperRecords
  BY HelperRecord
<1>2. helpers' = [helpers EXCEPT ![h] = r] /\ r.queue = 0
  BY <1>1 DEF Leave, HelperRecords
<1> HIDE DEF r
<1>3. {h} \X (1..r.queue) = {}
  BY <1>2
<1>4. \A x : x \in Queued(helpers') => x \in Queued(helpers)
  BY <1>2, <1>3, PutQueue
<1>5. QED
  BY <1>4, RoomStays

\* A step that leaves the queues alone.
LEMMA PutRoom ==
    ASSUME HelperInv, RoomInv, NEW h \in DOMAIN helpers, NEW r,
           helpers' = [helpers EXCEPT ![h] = r], r.queue = helpers[h].queue,
           UNCHANGED <<transcript, output>>
    PROVE  RoomInv'
<1>1. \A x : x \in Queued(helpers') => x \in Queued(helpers)
  <2>1. \A x : x \in {h} \X (1..helpers[h].queue) => x \in Queued(helpers)
    BY QueuedMember
  <2>2. QED
    BY <2>1, PutQueue
<1>2. QED
  BY <1>1, RoomStays

LEMMA HelperCopyRoom ==
    ASSUME HelperInv, RoomInv, NEW h \in DOMAIN helpers, HelperCopy(h)
    PROVE  RoomInv'
<1> DEFINE q == helpers[h].queue - 1
           b == helpers[h].bytes + 1
           r == [helpers[h] EXCEPT !.queue = q, !.bytes = b]
           x == <<h, helpers[h].queue>>
<1>1. helpers[h] \in HelperRecords
  BY HelperRecord
<1>2. helpers' = [helpers EXCEPT ![h] = r] /\ helpers[h].queue > 0
      /\ transcript' = transcript + 1 /\ UNCHANGED output
  BY DEF HelperCopy, history
<1>3. q \in Nat /\ b \in Nat
  BY <1>1, <1>2 DEF HelperRecords
<1>4. r.queue = q
  BY <1>1, <1>3 DEF HelperRecords
<1> HIDE DEF r
<1>5. x \in Queued(helpers)
  BY <1>1, <1>2, QueuedMember DEF HelperRecords
<1>6. Queued(helpers') = Queued(helpers) \ {x}
  <2>1. helpers[h].queue \in Nat
    BY <1>1 DEF HelperRecords
  <2>2. \A y : y \in {h} \X (1..helpers[h].queue) <=>
           y \in {h} \X (1..q) \/ y = x
    BY <1>2, <2>1
  <2>3. x \notin {h} \X (1..q)
    BY <2>1
  <2>4. \A y : y \in {h} \X (1..helpers[h].queue) => y \in Queued(helpers)
    BY QueuedMember
  <2>5. \A y : y \in Queued(helpers') <=> y \in Queued(helpers) /\ y # x
    BY <1>2, <1>4, <2>2, <2>3, <2>4, PutQueue
  <2>6. QED
    BY <2>5
<1> HIDE DEF x
<1>7. /\ IsFiniteSet(Queued(helpers'))
      /\ Cardinality(Queued(helpers')) = Cardinality(Queued(helpers)) - 1
  BY <1>5, <1>6, FS_RemoveElement DEF RoomInv
<1>8. Cardinality(Queued(helpers)) \in Nat
  BY FS_CardinalityType DEF RoomInv
<1>9. QED
  BY <1>2, <1>7, <1>8 DEF RoomInv

LEMMA WriteRoom ==
    ASSUME HelperInv, RoomInv, Write
    PROVE  RoomInv'
<1>1. output < MaxOutput /\ output' = output + 1 /\ UNCHANGED transcript
  BY DEF Write, durable
<1>2. MaxOutput \in Nat /\ output \in 0..MaxOutput /\ transcript \in Nat
  BY BoundsAssumption DEF RoomInv
<1>3. Cardinality(Queued(helpers)) \in Nat
  BY FS_CardinalityType DEF RoomInv
<1>4. CASE pipe = 0
  BY <1>1, <1>2, <1>3, <1>4 DEF Write, RoomInv
<1>5. CASE pipe # 0
  <2> DEFINE q == helpers[pipe].queue + 1
             c == helpers[pipe].sent + 1
             r == [helpers[pipe] EXCEPT !.queue = q, !.sent = c]
             x == <<pipe, q>>
  <2>1. /\ pipe \in DOMAIN helpers /\ helpers[pipe] \in HelperRecords
    BY <1>5, HelperRecord DEF HelperInv, HelpersTyped
  <2>2. helpers' = [helpers EXCEPT ![pipe] = r]
    BY <1>5 DEF Write
  <2>3. q \in Nat /\ c \in Nat /\ helpers[pipe].queue \in Nat
    BY <2>1 DEF HelperRecords
  <2>4. r.queue = q
    BY <2>1, <2>3 DEF HelperRecords
  <2> HIDE DEF r
  <2>5. \A y : y \in {pipe} \X (1..q) <=>
           y \in {pipe} \X (1..helpers[pipe].queue) \/ y = x
    BY <2>3
  <2>6. \A y : y \in {pipe} \X (1..helpers[pipe].queue) => y \in Queued(helpers)
    BY <2>1, QueuedMember
  <2>7. \A y : y \in Queued(helpers') <=> y \in Queued(helpers) \/ y = x
    BY <2>1, <2>2, <2>4, <2>5, <2>6, PutQueue
  <2>8. x \notin Queued(helpers)
    BY <2>3, QueuedMember
  <2> HIDE DEF x
  <2>9. Queued(helpers') = Queued(helpers) \cup {x}
    BY <2>7
  <2>10. /\ IsFiniteSet(Queued(helpers'))
         /\ Cardinality(Queued(helpers')) = Cardinality(Queued(helpers)) + 1
    BY <2>8, <2>9, FS_AddElement DEF RoomInv
  <2>11. QED
    BY <1>1, <1>2, <1>3, <2>10 DEF RoomInv
<1>6. QED
  BY <1>4, <1>5

LEMMA HelperStepsRoom ==
    ASSUME HelperInv, RoomInv, NEW h \in DOMAIN helpers,
           Helper(h) \/ HelperKilled(h)
    PROVE  RoomInv'
<1>1. helpers[h] \in HelperRecords
  BY HelperRecord
<1>2. ASSUME NEW a \in {"copy", "done"},
             helpers' = [helpers EXCEPT ![h].at = a],
             UNCHANGED <<transcript, output>>
      PROVE  RoomInv'
  <2> DEFINE r == [helpers[h] EXCEPT !.at = a]
  <2>1. helpers' = [helpers EXCEPT ![h] = r] /\ r.queue = helpers[h].queue
    BY <1>1, <1>2 DEF HelperRecords
  <2> HIDE DEF r
  <2>2. QED
    BY <1>2, <2>1, PutRoom
<1>3. CASE HelperOpen(h)
  <2> DEFINE r == [helpers[h] EXCEPT !.at = "ack", !.start = transcript]
  <2>1. helpers' = [helpers EXCEPT ![h] = r] /\ UNCHANGED <<transcript, output>>
    BY <1>3 DEF HelperOpen, durable, history
  <2>2. r.queue = helpers[h].queue
    BY <1>1 DEF HelperRecords
  <2> HIDE DEF r
  <2>3. QED
    BY <2>1, <2>2, PutRoom
<1>4. CASE HelperAck(h)
  BY <1>2, <1>4, LeaveRoom DEF HelperAck, history
<1>5. CASE HelperFinish(h)
  BY <1>2, <1>5, LeaveRoom DEF HelperFinish, history
<1>6. CASE HelperExit(h) \/ HelperKilled(h)
  BY <1>6, LeaveRoom DEF HelperExit, HelperKilled, durable, history
<1>7. QED
  BY <1>3, <1>4, <1>5, <1>6, HelperCopyRoom DEF Helper

LEMMA PipePaneRoom ==
    ASSUME HelperInv, RoomInv, PipePane
    PROVE  RoomInv'
<1>1. UNCHANGED <<transcript, output>>
  BY DEF PipePane, durable, history
<1>2. CASE UNCHANGED helpers
  BY <1>1, <1>2 DEF RoomInv
<1>3. ASSUME NEW h, NEW r, r.queue = 0, helpers' = With(helpers, h, r)
      PROVE  RoomInv'
  <2>1. \A g \in DOMAIN helpers' :
           \/ g \in DOMAIN helpers /\ helpers'[g] = helpers[g]
           \/ helpers'[g].queue = 0
    BY <1>3 DEF With
  <2>2. 1..0 = {}
    OBVIOUS
  <2>3. \A x : x \in Queued(helpers') => x \in Queued(helpers)
    BY <2>1, <2>2 DEF Queued
  <2>4. QED
    BY <1>1, <2>3, RoomStays
<1>4. QED
  BY <1>2, <1>3 DEF PipePane, PipePaneToggle

-----------------------------------------------------------------------------
(* The invariant.                                                          *)

LEMMA InitInv == Init => IInv
<1> SUFFICES ASSUME Init
             PROVE  IInv
  OBVIOUS
<1>1. DriverInv
  BY IdleIsJob, NoneIsCapture
  DEF Init, DriverInv, DriverTyped, IntentInv, ReleaseInv, ScreenInv,
      SettledInv, Started, Recorded, Entries, Phases, FactRecords
<1>2. helpers \in [1..0 -> HelperRecords] /\ DOMAIN helpers = {}
  BY DEF Init, Nothing
<1>3. HelperInv
  BY <1>2 DEF Init, Nothing, HelperInv, HelpersTyped, HelpersInv
<1>4. Queued(helpers) = {}
  BY <1>2 DEF Queued
<1>5. RoomInv
  BY <1>4, FS_EmptySet, BoundsAssumption DEF Init, RoomInv
<1>6. QED
  BY <1>1, <1>3, <1>5 DEF IInv

\* A step of the driver that leaves helpers and transcript alone.
LEMMA DriverAlone ==
    ASSUME HelperInv, RoomInv, NEW p, NEW q, UNCHANGED <<helpers, pipe>>,
           ready' \in {ready, Without(ready, p)},
           completion' \in {completion, Without(completion, q)},
           UNCHANGED <<transcript, output>>
    PROVE  HelperInv' /\ RoomInv'
BY RemovedHelper DEF RoomInv

LEMMA PreparingInv ==
    ASSUME IInv, Preparing \/ Prepare
    PROVE  IInv'
<1>1. DriverInv'
  BY PrepareDriver, RecordIntentDriver, PipePaneDriver, AwaitAckDriver,
     RecordStartedDriver, MarkAcknowledgedDriver, RemoveAckDriver
  DEF IInv, HelperInv, Preparing
<1>2. CASE PipePane
  BY <1>1, <1>2, PipePaneHelper, PipePaneRoom DEF IInv, DriverInv
<1>3. CASE RemoveAck
  BY <1>1, <1>3, DriverAlone DEF IInv, RemoveAck, outside, history
<1>4. ASSUME ~PipePane, ~RemoveAck
      PROVE  UNCHANGED <<helpers, pipe, ready, completion, transcript, output>>
  BY <1>4 DEF Preparing, Prepare, RecordIntent, AwaitAck, RecordStarted,
              MarkAcknowledged, durable, outside, history
<1>5. QED
  BY <1>1, <1>2, <1>3, <1>4, DriverAlone DEF IInv

LEMMA CleaningInv ==
    ASSUME IInv, Cleaning \/ CleanUp \/ Load \/ Crash
    PROVE  IInv'
<1>1. DriverInv'
  BY CleanUpDriver, LoadDriver, CrashDriver, InspectDriver, ProbeDriver,
     KillDriver, SettleDriver, AwaitCompletionDriver, CheckProcessDriver,
     FinalizeDriver, MarkCleanedDriver, RemoveCompletionDriver, ReleaseDriver,
     ReceiptDriver
  DEF IInv, HelperInv, Cleaning
<1>2. CASE Kill
  <2>1. \/ pipe' = 0
        \/ UNCHANGED pipe
    BY <1>2 DEF Kill
  <2>2. UNCHANGED <<helpers, ready, completion, transcript, output>>
    BY <1>2 DEF Kill
  <2>3. HelperInv'
    BY <2>1, <2>2, ClosedHelper, RemovedHelper DEF IInv
  <2>4. QED
    BY <1>1, <2>2, <2>3 DEF IInv, RoomInv
<1>3. CASE RemoveCompletion
  BY <1>1, <1>3, DriverAlone DEF IInv, RemoveCompletion, outside, history
<1>4. ASSUME ~Kill, ~RemoveCompletion
      PROVE  UNCHANGED <<helpers, pipe, ready, completion, transcript, output>>
  BY <1>4 DEF Cleaning, CleanUp, Load, Crash, Inspect, Probe, Settle,
              AwaitCompletion, CheckProcess, Finalize, MarkCleaned, Release,
              Receipt, durable, outside, history
<1>5. QED
  BY <1>1, <1>2, <1>3, <1>4, DriverAlone DEF IInv

LEMMA OutsideInv ==
    ASSUME IInv,
           \/ \E h \in DOMAIN helpers : Helper(h) \/ HelperKilled(h)
           \/ Write \/ PaneEnds
    PROVE  IInv'
<1>1. UNCHANGED <<entry, facts, screen, epoch, nonces, held, job, killed>>
  BY DEF Helper, HelperOpen, HelperAck, HelperCopy, HelperFinish, HelperExit,
         HelperKilled, Write, PaneEnds, durable, driver, history
<1>2. HelperInv' /\ Progress /\ RoomInv'
  <2>1. CASE \E h \in DOMAIN helpers : Helper(h) \/ HelperKilled(h)
    BY <2>1, HelperSteps, HelperStepsRoom DEF IInv
  <2>2. CASE Write
    BY <2>2, WriteHelper, WriteRoom DEF IInv
  <2>3. CASE PaneEnds
    BY <2>3, ClosedHelper DEF IInv, PaneEnds, durable, history, RoomInv
  <2>4. QED
    BY <2>1, <2>2, <2>3
<1>3. QED
  BY <1>1, <1>2, Outside DEF IInv

LEMMA StutterInv ==
    ASSUME IInv, UNCHANGED vars
    PROVE  IInv'
<1>1. Progress
  BY DEF vars, Progress, Written, WrittenAndGone
<1>2. DriverInv'
  BY <1>1, Outside DEF vars, IInv
<1>3. QED
  BY <1>2, DriverAlone DEF vars, IInv

\* The invariant is kept by every step.
LEMMA NextInv == IInv /\ [Next]_vars => IInv'
BY PreparingInv, CleaningInv, OutsideInv, StutterInv DEF Next, Helpers

LEMMA Invariant == Spec => []IInv
BY InitInv, NextInv, PTL DEF Spec

-----------------------------------------------------------------------------
(* The theorems.                                                           *)

\* Every variable of the capture holds what the code's types allow, and the
\* transcript never more than the agent wrote.
THEOREM TypeCorrect == Spec => []TypeOK
<1>1. IInv => TypeOK
  <2> SUFFICES ASSUME IInv
               PROVE  TypeOK
    OBVIOUS
  <2>1. Cardinality(Queued(helpers)) \in Nat
    BY FS_CardinalityType DEF IInv, RoomInv
  <2>2. transcript \in 0..output /\ output \in 0..MaxOutput
    BY <2>1, BoundsAssumption DEF IInv, RoomInv
  <2>3. pipe \in DOMAIN helpers \cup {0}
    BY DEF IInv, HelperInv, HelpersTyped
  <2>4. \A h \in DOMAIN helpers :
           /\ helpers[h].at \in {"open", "ack", "copy", "done", "gone"}
           /\ {helpers[h].queue, helpers[h].bytes} \subseteq Nat
    BY HelperRecord DEF IInv, HelperRecords, HelperAt
  <2>5. QED
    BY <2>2, <2>3, <2>4
    DEF TypeOK, IInv, DriverInv, DriverTyped, Entries, Phases, FactRecords
<1>2. QED
  BY <1>1, Invariant, PTL

\* However preparing and cleaning up are interrupted, repeated or overtaken by
\* a crash, a pane is given up only when the manifest says what became of its
\* capture.
THEOREM Released == Spec => []ReleasedIsRecorded
<1>1. IInv => ReleasedIsRecorded
  BY DEF IInv, DriverInv, ReleaseInv, ReleasedIsRecorded, Recorded
<1>2. QED
  BY <1>1, Invariant, PTL

\* The last screen of a captured pane that the driver kills is never lost.
THEOREM ScreenStays == Spec => []ScreenIsKept
<1>1. IInv => ScreenIsKept
  BY DEF IInv, DriverInv, ScreenInv, ScreenIsKept
<1>2. QED
  BY <1>1, Invariant, PTL

\* A capture becomes complete only when its helper has ended and everything it
\* was sent is in the transcript.
THEOREM CompletesWhole == Spec => CompleteIsWhole
<1> DEFINE Whole == LET h == facts.capture.helper
                    IN  ~Alive(h) /\ helpers[h].bytes = helpers[h].sent
<1>1. ASSUME IInv, [Next]_vars, entry.phase # "complete",
             entry'.phase = "complete"
      PROVE  Whole
  <2>1. ASSUME UNCHANGED entry
        PROVE  FALSE
    BY <1>1, <2>1
  <2>2. Prepare \/ MarkAcknowledged \/ Kill \/ Finalize \/ MarkCleaned
    BY <1>1, <2>1
    DEF Next, Helpers, Helper, HelperOpen, HelperAck, HelperCopy, HelperFinish,
        HelperExit, HelperKilled, Write, PaneEnds, Preparing, RecordIntent,
        PipePane, AwaitAck, RecordStarted, RemoveAck, Cleaning, Inspect, Probe,
        Settle, AwaitCompletion, CheckProcess, RemoveCompletion, Release,
        Receipt, CleanUp, Load, Crash, durable, vars
  <2>3. Finalize
    <3>1. entry \in Entries
      BY <1>1 DEF IInv, DriverInv, DriverTyped
    <3>2. ~Prepare
      BY <1>1, <2>1 DEF Prepare
    <3>3. ~MarkAcknowledged
      BY <1>1, <2>1, <3>1, SetCapturing DEF MarkAcknowledged, CommitEntry
    <3>4. ~Kill
      BY <1>1, <2>1, <3>1, SetCleanup DEF Kill
    <3>5. ~MarkCleaned
      BY <1>1, <2>1, <3>1, SetCleanup DEF MarkCleaned, CommitEntry
    <3>6. QED
      BY <2>2, <3>2, <3>3, <3>4, <3>5
  <2>4. job.outcome = "ok"
    <3>1. entry \in Entries /\ "failed" \in Phases
      BY <1>1 DEF IInv, DriverInv, DriverTyped, Phases
    <3>2. ~FinalizeFailed
      BY <1>1, <2>1, <3>1, SetPhase DEF FinalizeFailed, CommitEntry
    <3>3. QED
      BY <2>3, <3>2 DEF Finalize
  <2>5. At("finalize")
    BY <2>3 DEF Finalize
  <2>6. held # None /\ WrittenAndGone(held.helper) /\ held = facts.capture
    BY <1>1, <2>4, <2>5
    DEF At, IInv, DriverInv, DriverTyped, SettledInv
  <2>7. QED
    BY <2>6 DEF Written, WrittenAndGone, Alive
<1>2. IInv /\ [Next]_vars =>
         [entry.phase # "complete" /\ entry'.phase = "complete" => Whole]_vars
  BY <1>1
<1>3. QED
  BY <1>2, Invariant, PTL DEF Spec, CompleteIsWhole
=============================================================================
