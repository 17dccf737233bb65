----------------------------- MODULE Publication -----------------------------
(***************************************************************************)
(* The driver's commit pipeline: private event log, publication outbox,    *)
(* public journal, publication ledger (driver/publication.rs,              *)
(* run_assets/publication.rs), under I/O failures and crashes.             *)
(*                                                                         *)
(* One mutex guards RuntimeDriverService, so one operation runs at a time  *)
(* and the program counter pc is the place it has reached.  A request is   *)
(* known by its position in issued; the i-th event of the log has sequence *)
(* number i and its value is the request that caused it.  Every event is   *)
(* given a public record (the two Flow events, which have none, are left   *)
(* out).  A fault is an error returned by the file system or the end of    *)
(* the process; MaxFaults bounds them, MaxRequests the requests.           *)
(***************************************************************************)
EXTENDS Naturals, Sequences, SequencesExt, FiniteSets

CONSTANTS Entries,      \* ways a mutation enters: IPC, console, process exit
          MaxRequests,  \* bound on requests, restarts' suspensions included
          MaxBatch,     \* bound on the runtime events of one request
          MaxFaults     \* bound on I/O errors and crashes

ASSUME EntriesAssumption == Entries \subseteq {"ipc", "console", "exit"}
ASSUME BoundsAssumption == /\ MaxRequests \in Nat
                           /\ MaxBatch \in Nat \ {0}
                           /\ MaxFaults \in Nat

VARIABLES
    \* durable
    log,        \* driver/events.jsonl: the request behind each event
    tail,       \* its last line: complete, torn, or a line glued to a torn one
    manifest,   \* run-assets.json: the last request that wrote it
    outbox,     \* driver/publication-outbox, by ordinal
    ledger,     \* driver/publication-ledger, by ordinal
    ordinal,    \* driver/publication-sequence
    journal,    \* records/events.jsonl: what each public record tells of
    \* volatile
    pc,         \* where the operation holding the service lock is
    mem,        \* self.driver: the events the runtime was replayed from
    persisted,  \* self.persisted_event_count
    entry,      \* who issued the operation
    next,       \* next_driver: the events of the candidate state
    ret,        \* where reconciliation and publication return to
    \* history
    issued,     \* kind and size of every request
    ok,         \* requests answered without an error
    faults      \* faults so far

durable == <<log, tail, manifest, outbox, ledger, ordinal, journal>>
operation == <<pc, entry, next, ret>>
history == <<issued, ok, faults>>
vars == <<log, tail, manifest, outbox, ledger, ordinal, journal,
          pc, mem, persisted, entry, next, ret, issued, ok, faults>>

Kinds == {"runtime", "manifest"}
Places == {"down", "load", "reconcile", "ready", "idle", "execute", "check",
           "persist", "create", "apply", "publish", "ack"}
Request == [kind : Kinds, size : 1..MaxBatch]
Transaction == [kind : Kinds, base : Nat, events : Seq(Nat) \ {<<>>},
                ordinal : Nat]
Record == [kind : Kinds, key : Nat, by : Nat]

Batch(r, n) == [i \in 1..n |-> r]
Pending == Head(outbox)
PendingRuntime == outbox # <<>> /\ Pending.kind = "runtime"

\* The public records of a transaction; a runtime record is keyed by the
\* sequence number of its event, a manifest record by the request.
Records(t) ==
    IF t.kind = "runtime"
    THEN [i \in 1..Len(t.events) |->
            [kind |-> "runtime", key |-> t.base + i, by |-> t.events[i]]]
    ELSE [i \in 1..1 |->
            [kind |-> "manifest", key |-> t.events[1], by |-> t.events[1]]]

\* Two records are one when kind and key agree: publication is idempotent.
SameIdentity(r, s) == r.kind = s.kind /\ r.key = s.key
InJournal(r) == \E i \in DOMAIN journal : SameIdentity(journal[i], r)
Announced(t) == \A i \in DOMAIN Records(t) : InJournal(Records(t)[i])

\* The i-th record of t is the first that the journal lacks.
IsNextRecord(i, t) == /\ ~InJournal(Records(t)[i])
                      /\ \A h \in 1..i - 1 : InJournal(Records(t)[h])

\* A journal entry of the same identity must tell the same thing.
Conflicting(t) ==
    \E i \in DOMAIN journal, j \in DOMAIN Records(t) :
        /\ SameIdentity(journal[i], Records(t)[j])
        /\ journal[i] # Records(t)[j]

\* The log holds the transaction's events, or ends where they begin.
Applied(t) ==
    /\ Len(log) >= t.base + Len(t.events)
    /\ SubSeq(log, t.base + 1, t.base + Len(t.events)) = t.events
Replayable(t) ==
    IF t.kind = "runtime" THEN Len(log) = t.base \/ Applied(t)
                          ELSE manifest \in {t.base, t.events[1]}

Init == /\ log = <<>> /\ tail = "clean" /\ manifest = 0
        /\ outbox = <<>> /\ ledger = <<>> /\ ordinal = 0 /\ journal = <<>>
        /\ pc = "down" /\ mem = <<>> /\ persisted = 0
        /\ entry = "none" /\ next = <<>> /\ ret = "none"
        /\ issued = <<>> /\ ok = {} /\ faults = 0

-----------------------------------------------------------------------------
(* How an operation ends.                                                  *)

\* The process is gone and with it everything volatile.
Exit == /\ pc' = "down" /\ entry' = "none" /\ next' = <<>> /\ ret' = "none"
        /\ mem' = <<>> /\ persisted' = 0

\* The service lock is released.
Release == pc' = "idle" /\ entry' = "none" /\ next' = <<>> /\ ret' = "none"

\* An error reaches a client, or ends a process that was loading or exiting.
Fail == /\ faults < MaxFaults
        /\ faults' = faults + 1
        /\ IF ret = "load" \/ pc \in {"load", "ready"}
                           \/ entry \in {"restart", "exit"}
           THEN Exit
           ELSE Release /\ UNCHANGED <<mem, persisted>>
        /\ UNCHANGED <<issued, ok>>

\* The process dies at this step.
Die == /\ faults < MaxFaults
       /\ faults' = faults + 1
       /\ Exit
       /\ UNCHANGED <<issued, ok>>

Issue(who, kind, size) ==
    /\ Len(issued) < MaxRequests
    /\ issued' = Append(issued, [kind |-> kind, size |-> size])
    /\ entry' = who
    /\ UNCHANGED <<ok, faults>>

-----------------------------------------------------------------------------
(* Starting a driver.                                                      *)

StartDriver ==
    /\ pc = "down"
    /\ pc' = "load"
    /\ UNCHANGED <<durable, mem, persisted, entry, next, ret, history>>

\* Mutant: the torn tail stays.
RollForwardKeepsTail(t) ==
    /\ tail # "garbled"
    /\ Replayable(t)
    /\ log' = IF Len(log) = t.base THEN log \o t.events ELSE log
    /\ mem' = log'
    /\ persisted' = Len(log')
    /\ UNCHANGED tail

\* Mutant: a batch the log already holds is appended again.
RollForwardAgain(t) ==
    /\ tail # "garbled"
    /\ Replayable(t)
    /\ tail' = "clean"
    /\ log' = log \o t.events
    /\ mem' = log'
    /\ persisted' = Len(log')

\* Reading the private log truncates a torn tail; a pending batch the log
\* lacks is appended to it, and the runtime is replayed from the result.
RollForward(t) ==
    /\ tail # "garbled"
    /\ Replayable(t)
    /\ tail' = "clean"
    /\ log' = IF Len(log) = t.base THEN log \o t.events ELSE log
    /\ mem' = log'
    /\ persisted' = Len(log')

LoadRecover ==
    /\ pc = "load"
    /\ IF PendingRuntime
       THEN RollForward(Pending)
       ELSE /\ tail # "garbled"
            /\ tail' = "clean"
            /\ mem' = log
            /\ persisted' = Len(log)
            /\ UNCHANGED log
    /\ pc' = "reconcile"
    /\ ret' = "load"
    /\ UNCHANGED <<manifest, outbox, ledger, ordinal, journal,
                   entry, next, history>>

\* repair_publication_projections publishes every acknowledged transaction
\* again.  It appends nothing: their records are there (LedgerIsHistory).

\* The run was not running: the service is ready.
LoadComplete ==
    /\ pc = "ready"
    /\ Release
    /\ UNCHANGED <<durable, mem, persisted, history>>

\* The run was running: the replayed state is paused before it is served.
LoadSuspends ==
    /\ pc = "ready"
    /\ Issue("restart", "runtime", 1)
    /\ next' = mem \o Batch(Len(issued'), 1)
    /\ pc' = "reconcile"
    /\ ret' = "commit"
    /\ UNCHANGED <<durable, mem, persisted>>

-----------------------------------------------------------------------------
(* Reconciling the outbox: at load, before an IPC mutation, in a commit.   *)

\* Mutant: a loading driver serves before the outbox is empty.
ReconcileDoneEarly ==
    /\ pc = "reconcile"
    /\ outbox = <<>> \/ ret = "load"
    /\ \/ ret = "load" /\ pc' = "ready"
       \/ ret = "request" /\ pc' = "execute"
       \/ ret = "commit" /\ pc' = "check"
    /\ ret' = "none"
    /\ UNCHANGED <<durable, mem, persisted, entry, next, history>>

\* Outbox empty: go on with what the reconciliation was for.
ReconcileDone ==
    /\ pc = "reconcile"
    /\ outbox = <<>>
    /\ \/ ret = "load" /\ pc' = "ready"
       \/ ret = "request" /\ pc' = "execute"
       \/ ret = "commit" /\ pc' = "check"
    /\ ret' = "none"
    /\ UNCHANGED <<durable, mem, persisted, entry, next, history>>

\* Mutant: a transaction whose private effect is done counts as published.
ReconcilePrivateOnly ==
    /\ pc = "reconcile"
    /\ outbox # <<>>
    /\ Replayable(Pending)
    /\ IF Pending.kind = "runtime"
       THEN RollForward(Pending) /\ UNCHANGED manifest
       ELSE /\ manifest' = Pending.events[1]
            /\ UNCHANGED <<log, tail, mem, persisted>>
    /\ pc' = "ack"
    /\ UNCHANGED <<outbox, ledger, ordinal, journal, entry, next, ret, history>>

\* The oldest pending transaction: its private effect first.
ReconcilePrivate ==
    /\ pc = "reconcile"
    /\ outbox # <<>>
    /\ Replayable(Pending)
    /\ IF Pending.kind = "runtime"
       THEN RollForward(Pending) /\ UNCHANGED manifest
       ELSE /\ manifest' = Pending.events[1]
            /\ UNCHANGED <<log, tail, mem, persisted>>
    /\ pc' = "publish"
    /\ UNCHANGED <<outbox, ledger, ordinal, journal, entry, next, ret, history>>

PublishNext == /\ ~Conflicting(Pending)
               /\ \E i \in DOMAIN Records(Pending) :
                    /\ IsNextRecord(i, Pending)
                    /\ journal' = Append(journal, Records(Pending)[i])

PublishRecord ==
    /\ pc = "publish"
    /\ PublishNext
    /\ UNCHANGED <<log, tail, manifest, outbox, ledger, ordinal,
                   operation, mem, persisted, history>>

Published ==
    /\ pc = "publish"
    /\ Announced(Pending)
    /\ ~Conflicting(Pending)
    /\ pc' = "ack"
    /\ UNCHANGED <<durable, mem, persisted, entry, next, ret, history>>

\* Mutant: an acknowledged transaction is deleted instead of kept.
DropPending == /\ outbox' = Tail(outbox)
               /\ UNCHANGED ledger

MoveToLedger == /\ outbox' = Tail(outbox)
                /\ ledger' = Append(ledger, Pending)

\* The client is told "ok"; the suspension of an exiting driver ends it.
Reply(state) ==
    /\ ok' = ok \cup {Len(issued)}
    /\ UNCHANGED <<issued, faults>>
    /\ IF entry = "exit" THEN Exit
                         ELSE Release /\ mem' = state /\ UNCHANGED persisted

\* ret is "none" in a commit, else what the reconciliation is for.
Acknowledge ==
    /\ pc = "ack"
    /\ MoveToLedger
    /\ IF ret = "none"
       THEN Reply(mem)
       ELSE /\ pc' = "reconcile"
            /\ UNCHANGED <<mem, persisted, entry, next, ret, history>>
    /\ UNCHANGED <<log, tail, manifest, ordinal, journal>>

-----------------------------------------------------------------------------
(* Requests.                                                               *)

\* Mutant: the handler runs before the outbox is reconciled.
IssueIpcUnreconciled(kind, size) ==
    /\ pc = "idle"
    /\ "ipc" \in Entries
    /\ Issue("ipc", "runtime", size)
    /\ next' = mem \o Batch(Len(issued'), size)
    /\ pc' = "reconcile"
    /\ ret' = "commit"
    /\ UNCHANGED <<durable, mem, persisted>>

\* IPC: handle_request reconciles before the handler reads the runtime.
IssueIpc(kind, size) ==
    /\ pc = "idle"
    /\ "ipc" \in Entries
    /\ Issue("ipc", kind, size)
    /\ pc' = "reconcile"
    /\ ret' = "request"
    /\ UNCHANGED <<durable, mem, persisted, next>>

\* Console commands and the exit's suspension compute the candidate at once
\* and leave the reconciliation to the commit.
IssueDirect(who, size) ==
    /\ pc = "idle"
    /\ Issue(who, "runtime", size)
    /\ next' = mem \o Batch(Len(issued'), size)
    /\ pc' = "reconcile"
    /\ ret' = "commit"
    /\ UNCHANGED <<durable, mem, persisted>>

Current == issued[Len(issued)]

\* The handler: a candidate runtime state for the commit, or a manifest.
Execute ==
    /\ pc = "execute"
    /\ IF Current.kind = "runtime"
       THEN /\ next' = mem \o Batch(Len(issued), Current.size)
            /\ pc' = "reconcile"
            /\ ret' = "commit"
       ELSE /\ pc' = "check"
            /\ UNCHANGED <<next, ret>>
    /\ UNCHANGED <<durable, mem, persisted, entry, history>>

\* The transaction of the operation in hand.
Prepared ==
    IF Current.kind = "runtime"
    THEN [kind |-> "runtime", base |-> persisted,
          events |-> SubSeq(next, persisted + 1, Len(next)),
          ordinal |-> ordinal]
    ELSE [kind |-> "manifest", base |-> manifest,
          events |-> <<Len(issued)>>, ordinal |-> ordinal]

\* Mutant: a candidate without new events is committed.
NothingToCommitOffByOne == Current.kind = "runtime" /\ persisted > Len(next)

NothingToCommit == Current.kind = "runtime" /\ persisted >= Len(next)

CommitNothing ==
    /\ pc = "check"
    /\ NothingToCommit
    /\ Reply(next)
    /\ UNCHANGED durable

\* Seal and preflight leave no trace; a conflict is refused.
Preflight ==
    /\ pc = "check"
    /\ ~NothingToCommit
    /\ ~Conflicting(Prepared)
    /\ pc' = "persist"
    /\ UNCHANGED <<durable, mem, persisted, entry, next, ret, history>>

\* persist_pending: an ordinal first, then the outbox file under it.
TakeOrdinal ==
    /\ pc = "persist"
    /\ outbox = <<>>
    /\ ordinal' = ordinal + 1
    /\ pc' = "create"
    /\ UNCHANGED <<log, tail, manifest, outbox, ledger, journal,
                   mem, persisted, entry, next, ret, history>>

CreatePending ==
    /\ pc = "create"
    /\ outbox' = Append(outbox, Prepared)
    /\ pc' = "apply"
    /\ UNCHANGED <<log, tail, manifest, ledger, ordinal, journal,
                   mem, persisted, entry, next, ret, history>>

\* Mutant: the log becomes the candidate's events.
RewritePrivate ==
    /\ pc = "apply"
    /\ Pending.kind = "runtime"
    /\ log' = next
    /\ persisted' = Len(next)
    /\ mem' = next
    /\ pc' = "publish"
    /\ UNCHANGED <<tail, manifest, outbox, ledger, ordinal, journal,
                   entry, next, ret, history>>

\* The private effect in a commit: the log is appended without being read.
AppendPrivate ==
    /\ pc = "apply"
    /\ Pending.kind = "runtime"
    /\ log' = log \o Pending.events
    /\ tail' = IF tail = "clean" THEN "clean" ELSE "garbled"
    /\ persisted' = Pending.base + Len(Pending.events)
    /\ mem' = next
    /\ pc' = "publish"
    /\ UNCHANGED <<manifest, outbox, ledger, ordinal, journal,
                   entry, next, ret, history>>

WriteManifest ==
    /\ pc = "apply"
    /\ Pending.kind = "manifest"
    /\ manifest' = Pending.events[1]
    /\ pc' = "publish"
    /\ UNCHANGED <<log, tail, outbox, ledger, ordinal, journal,
                   mem, persisted, entry, next, ret, history>>

-----------------------------------------------------------------------------
(* Faults: an error or the end of the process, with or without an effect.  *)

Abort == Fail \/ Die

\* Nothing of the step was done.
StepFails ==
    /\ pc \notin {"down", "idle"}
    /\ Abort
    /\ UNCHANGED durable

CrashIdle == pc = "idle" /\ Die /\ UNCHANGED durable

\* The step about to append a pending batch to the private log.
Appending == /\ PendingRuntime
             /\ Len(log) = Pending.base
             /\ pc \in {"load", "reconcile", "apply"}

\* A short write leaves part of a line.
AppendTorn ==
    /\ Appending
    /\ tail' = IF tail = "torn" /\ pc = "apply" THEN "garbled" ELSE "torn"
    /\ Abort
    /\ UNCHANGED <<log, manifest, outbox, ledger, ordinal, journal>>

\* Mutant: a batch is a line per event.
AppendPartly ==
    /\ Appending
    /\ log' = Append(log, Head(Pending.events))
    /\ tail' = "clean"
    /\ Abort
    /\ UNCHANGED <<manifest, outbox, ledger, ordinal, journal>>

\* The line was written whole and its sync failed.
AppendUnsynced ==
    /\ Appending
    /\ log' = log \o Pending.events
    /\ tail' = IF tail = "torn" /\ pc = "apply" THEN "garbled" ELSE "clean"
    /\ Abort
    /\ UNCHANGED <<manifest, outbox, ledger, ordinal, journal>>

ManifestUnsynced ==
    /\ pc \in {"reconcile", "apply"}
    /\ outbox # <<>>
    /\ Pending.kind = "manifest"
    /\ manifest' = Pending.events[1]
    /\ Abort
    /\ UNCHANGED <<log, tail, outbox, ledger, ordinal, journal>>

OrdinalUnsynced ==
    /\ pc = "persist"
    /\ ordinal' = ordinal + 1
    /\ Abort
    /\ UNCHANGED <<log, tail, manifest, outbox, ledger, journal>>

\* The outbox file was renamed into place and syncing its directory failed.
CreateUnsynced ==
    /\ pc = "create"
    /\ outbox' = Append(outbox, Prepared)
    /\ Abort
    /\ UNCHANGED <<log, tail, manifest, ledger, ordinal, journal>>

PublishUnsynced ==
    /\ pc = "publish"
    /\ PublishNext
    /\ Abort
    /\ UNCHANGED <<log, tail, manifest, outbox, ledger, ordinal>>

AcknowledgeUnsynced ==
    /\ pc = "ack"
    /\ MoveToLedger
    /\ Abort
    /\ UNCHANGED <<log, tail, manifest, ordinal, journal>>

-----------------------------------------------------------------------------
Recovery == StartDriver \/ LoadRecover \/ LoadComplete \/ LoadSuspends
Pipeline == \/ ReconcileDone \/ ReconcilePrivate
            \/ PublishRecord \/ Published \/ Acknowledge
            \/ Execute \/ CommitNothing \/ Preflight
            \/ TakeOrdinal \/ CreatePending \/ AppendPrivate \/ WriteManifest
Clients == \/ \E kind \in Kinds, size \in 1..MaxBatch : IssueIpc(kind, size)
           \/ \E who \in Entries \ {"ipc"}, size \in 1..MaxBatch :
                  IssueDirect(who, size)
Faults == \/ StepFails \/ CrashIdle
          \/ AppendTorn \/ AppendUnsynced \/ ManifestUnsynced
          \/ OrdinalUnsynced \/ CreateUnsynced \/ PublishUnsynced
          \/ AcknowledgeUnsynced

Next == Recovery \/ Pipeline \/ Clients \/ Faults

Spec == Init /\ [][Next]_vars

\* A dead driver is replaced, and a live one goes on with what it is doing.
FairSpec == Spec /\ WF_vars(Recovery \/ Pipeline)

-----------------------------------------------------------------------------
DurableOK ==
    /\ log \in Seq(Nat) /\ tail \in {"clean", "torn", "garbled"}
    /\ manifest \in Nat /\ ordinal \in Nat
    /\ outbox \in Seq(Transaction) /\ ledger \in Seq(Transaction)
    /\ journal \in Seq(Record)
VolatileOK ==
    /\ pc \in Places
    /\ mem \in Seq(Nat) /\ persisted \in Nat /\ next \in Seq(Nat)
    /\ entry \in Entries \cup {"none", "restart"}
    /\ ret \in {"none", "load", "request", "commit"}
HistoryOK == issued \in Seq(Request) /\ ok \subseteq Nat /\ faults \in Nat

\* The type invariant.
TypeOK == DurableOK /\ VolatileOK /\ HistoryOK

(***************************************************************************)
(* Whatever failed and whenever the driver died, the outbox holds at most  *)
(* one transaction and that one can be replayed: the private log or the    *)
(* manifest is as it was before it or as it is after it, never in between, *)
(* and the journal says nothing else of its events                         *)
(* (reconcile_private_runtime_batch never returns its two errors).         *)
(***************************************************************************)
PendingIsReplayable ==
    /\ Len(outbox) <= 1
    /\ \A i \in DOMAIN outbox : Replayable(outbox[i]) /\ ~Conflicting(outbox[i])

(***************************************************************************)
(* A torn last line of the private log always belongs to the pending       *)
(* transaction, so that the next reconciliation truncates it before        *)
(* anything is appended: no line is ever glued to it, although             *)
(* append_private_line does not look at the tail.                          *)
(***************************************************************************)
TornTailIsCovered ==
    tail # "clean" =>
        /\ tail = "torn"
        /\ PendingRuntime
        /\ Len(log) = Pending.base

\* The places of the public journal that tell of events of the log.
Tells == {i \in DOMAIN journal : journal[i].kind = "runtime"}
Told == Cardinality(Tells)
Rank(i) == Cardinality({h \in Tells : h <= i})
Settled == IF PendingRuntime THEN Pending.base ELSE Len(log)

(***************************************************************************)
(* The public journal tells the private log: its runtime records are the   *)
(* events of the log, in their order, without gaps or repetitions, and     *)
(* with nothing pending it tells all of them.                              *)
(***************************************************************************)
JournalTellsLog ==
    /\ Told \in Settled..Len(log)
    /\ \A i \in Tells : /\ journal[i].key = Rank(i)
                        /\ journal[i].by = log[Rank(i)]

Batches == {i \in DOMAIN ledger : ledger[i].kind = "runtime"}
Ends(t) == t.base + Len(t.events)
Ordinals == [i \in DOMAIN (ledger \o outbox) |-> (ledger \o outbox)[i].ordinal]

(***************************************************************************)
(* The ledger is the history of the run: its batches, none of which        *)
(* begins before the one before it ends, are the settled part of the       *)
(* private log without a gap, each of its records is in the journal, and   *)
(* ordinals increase along ledger and outbox and are never handed out      *)
(* twice (transaction_files refuses a repeated one).                       *)
(***************************************************************************)
LedgerIsHistory ==
    /\ \A i \in Batches : Applied(ledger[i]) /\ Ends(ledger[i]) <= Settled
    /\ \A i, j \in Batches : i < j => Ends(ledger[i]) <= ledger[j].base
    /\ \A k \in 1..Settled : \E i \in Batches :
          k \in ledger[i].base + 1..Ends(ledger[i])
    /\ \A i \in DOMAIN ledger : Announced(ledger[i])
    /\ \A i, j \in DOMAIN Ordinals : i < j => Ordinals[i] < Ordinals[j]
    /\ \A i \in DOMAIN Ordinals : Ordinals[i] <= ordinal

(***************************************************************************)
(* Write-ahead: the private log and the manifest change only to what the   *)
(* one pending transaction says, while it is pending; and the outbox takes *)
(* a transaction only when it has none.                                    *)
(***************************************************************************)
WriteAheadStep ==
    /\ log' # log => /\ PendingRuntime
                    /\ log' = log \o Pending.events
                    /\ outbox' = outbox
    /\ manifest' # manifest => /\ outbox # <<>>
                              /\ Pending.kind = "manifest"
                              /\ manifest' = Pending.events[1]
    /\ Len(outbox') > Len(outbox) => outbox = <<>>
WriteAhead == [][WriteAheadStep]_vars

(***************************************************************************)
(* What the runtime in memory holds has been persisted first: its events   *)
(* are the beginning of the private log (docs/architecture.md: "The driver *)
(* persists each publication transaction before applying its private       *)
(* mutation").                                                             *)
(***************************************************************************)
AppliedIsPersisted == IsPrefix(mem, log)

(***************************************************************************)
(* A transaction that was pending when the driver ended is published and   *)
(* acknowledged by the drivers that replace it.                            *)
(***************************************************************************)
PendingIsPublished == pc = "down" /\ outbox # <<>> ~> outbox = <<>>

(***************************************************************************)
(* Seen from the clients the pipeline is a CommittedLog: the commit point  *)
(* is the creation of the outbox file, requests are applied whole and at   *)
(* most once whatever fails, and "ok" is said of nothing unsettled.        *)
(***************************************************************************)
Unapplied == PendingRuntime /\ Len(log) = Pending.base
Abstract == INSTANCE CommittedLog WITH
    Requests <- 1..MaxRequests,
    committed <- IF Unapplied THEN log \o Pending.events ELSE log,
    announced <- Told,
    acked <- Settled,
    answered <- {r \in ok : issued[r].kind = "runtime"}
ImplementsCommittedLog == Abstract!Spec
=============================================================================
