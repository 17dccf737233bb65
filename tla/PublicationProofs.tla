-------------------------- MODULE PublicationProofs --------------------------
(***************************************************************************)
(* Theorems of Publication: its types and steps, then what the public      *)
(* journal and the ledger tell of the private log, and that the pipeline   *)
(* implements CommittedLog.                                                *)
(***************************************************************************)
EXTENDS Publication, SequenceTheorems, FiniteSetTheorems, TLAPS

\* Where the operation is says whether a transaction is pending, and whether
\* there is a request.
Control ==
    /\ Len(outbox) <= 1
    /\ pc \in {"apply", "publish", "ack"} => outbox # <<>>
    /\ pc \in {"ready", "execute", "check", "persist", "create"} => outbox = <<>>
    /\ pc \in {"execute", "check", "persist", "create"}
          \/ ret \in {"request", "commit"} => issued # <<>>
    /\ pc \in {"persist", "create"} => ~NothingToCommit

TypeInv == TypeOK /\ Control

LEMMA PendingType ==
    ASSUME DurableOK, outbox # <<>>
    PROVE  /\ Pending \in Transaction
           /\ Tail(outbox) \in Seq(Transaction)
           /\ Len(Tail(outbox)) = Len(outbox) - 1
<1>1. outbox \in Seq(Transaction)
  BY DEF DurableOK
<1>2. QED
  BY <1>1, HeadTailProperties DEF Pending

LEMMA FirstEvent ==
    ASSUME NEW t \in Transaction
    PROVE  t.events[1] \in Nat
<1>1. t.events \in Seq(Nat) /\ t.events # <<>>
  BY DEF Transaction
<1>2. QED
  BY <1>1, EmptySeq, ElementOfSeq, LenProperties

LEMMA RecordsType ==
    ASSUME NEW t \in Transaction, NEW i \in DOMAIN Records(t)
    PROVE  Records(t)[i] \in Record
<1>1. t.events \in Seq(Nat) /\ t.events # <<>> /\ t.base \in Nat
  BY DEF Transaction
<1>2. t.events[1] \in Nat
  BY <1>1
<1>3. CASE t.kind = "runtime"
  <2>1. DOMAIN Records(t) = 1..Len(t.events)
    BY <1>3 DEF Records
  <2>2. i \in 1..Len(t.events) /\ i \in Nat /\ t.events[i] \in Nat
    BY <2>1, <1>1
  <2>3. Records(t)[i] = [kind |-> "runtime", key |-> t.base + i, by |-> t.events[i]]
    BY <2>1, <2>2, <1>3 DEF Records
  <2>4. QED
    BY <2>2, <2>3, <1>1 DEF Record, Kinds
<1>4. CASE t.kind # "runtime"
  <2>1. i \in 1..1
    BY <1>4 DEF Records
  <2>2. Records(t)[i] = [kind |-> "manifest", key |-> t.events[1], by |-> t.events[1]]
    BY <2>1, <1>4 DEF Records
  <2>3. QED
    BY <2>2, <1>2 DEF Record, Kinds
<1>5. QED
  BY <1>3, <1>4

LEMMA PublishType ==
    ASSUME DurableOK, outbox # <<>>, PublishNext
    PROVE  journal' \in Seq(Record)
<1>1. PICK i \in DOMAIN Records(Pending) :
          journal' = Append(journal, Records(Pending)[i])
  BY DEF PublishNext
<1>2. Records(Pending)[i] \in Record
  BY PendingType, RecordsType
<1>3. QED
  BY <1>1, <1>2, AppendProperties DEF DurableOK

LEMMA BatchType ==
    ASSUME NEW r \in Nat, NEW n \in Nat
    PROVE  Batch(r, n) \in Seq(Nat) /\ Len(Batch(r, n)) = n
BY DEF Batch

LEMMA CurrentType ==
    ASSUME HistoryOK, issued # <<>>
    PROVE  Current \in Request /\ Current.size \in Nat \ {0} /\ Len(issued) \in Nat
<1>1. issued \in Seq(Request) /\ Len(issued) \in 1..Len(issued)
  BY EmptySeq, LenProperties DEF HistoryOK
<1>2. Current \in Request
  BY <1>1, ElementOfSeq DEF Current
<1>3. QED
  BY <1>1, <1>2, BoundsAssumption DEF Request

LEMMA PreparedType ==
    ASSUME TypeOK, issued # <<>>, ~NothingToCommit
    PROVE  Prepared \in Transaction
<1>1. CASE Current.kind = "runtime"
  <2>1. persisted \in Nat /\ next \in Seq(Nat) /\ ordinal \in Nat
    BY DEF TypeOK, VolatileOK, DurableOK
  <2>2. persisted < Len(next)
    BY <1>1, <2>1 DEF NothingToCommit
  <2>3. SubSeq(next, persisted + 1, Len(next)) \in Seq(Nat) \ {<<>>}
    <3>1. /\ persisted + 1 \in 1..Len(next) + 1 /\ Len(next) \in Nat
          /\ \A i \in persisted + 1..Len(next) : next[i] \in Nat
      BY <2>1, <2>2
    <3>2. /\ SubSeq(next, persisted + 1, Len(next)) \in Seq(Nat)
          /\ Len(SubSeq(next, persisted + 1, Len(next))) = Len(next) - persisted
      BY <2>1, <2>2, <3>1
    <3>3. Len(SubSeq(next, persisted + 1, Len(next))) # 0
      BY <3>1, <3>2, <2>1, <2>2
    <3>4. Len(<<>>) = 0
      OBVIOUS
    <3>5. SubSeq(next, persisted + 1, Len(next)) # <<>>
      BY ONLY <3>3, <3>4, Zenon
    <3>6. QED
      BY <3>2, <3>5
  <2>4. QED
    BY <1>1, <2>1, <2>3 DEF Prepared, Transaction, Kinds
<1>2. CASE Current.kind # "runtime"
  <2>1. manifest \in Nat /\ ordinal \in Nat
    BY DEF TypeOK, DurableOK
  <2>2. Len(issued) \in Nat
    BY CurrentType DEF TypeOK
  <2>3. QED
    BY <1>2, <2>1, <2>2 DEF Prepared, Transaction, Kinds
<1>3. QED
  BY <1>1, <1>2

\* Where an operation that failed, or the process with it, is left.
LEMMA AbortType ==
    ASSUME TypeOK, Abort
    PROVE  /\ VolatileOK' /\ HistoryOK' /\ issued' = issued
           /\ pc' \in {"down", "idle"} /\ ret' = "none"
<1>1. CASE Die
  BY <1>1 DEF Die, Exit, TypeOK, VolatileOK, HistoryOK, Places
<1>2. CASE Fail
  <2>1. CASE ret = "load" \/ pc \in {"load", "ready"} \/ entry \in {"restart", "exit"}
    <3>1. Exit /\ UNCHANGED <<issued, ok>> /\ faults' = faults + 1
      BY <1>2, <2>1 DEF Fail
    <3>2. QED
      BY <3>1 DEF Exit, TypeOK, VolatileOK, HistoryOK, Places
  <2>2. CASE ~(ret = "load" \/ pc \in {"load", "ready"} \/ entry \in {"restart", "exit"})
    <3>1. Release /\ UNCHANGED <<mem, persisted, issued, ok>> /\ faults' = faults + 1
      BY <1>2, <2>2 DEF Fail
    <3>2. QED
      BY <3>1 DEF Release, TypeOK, VolatileOK, HistoryOK, Places
  <2>3. QED
    BY <2>1, <2>2
<1>3. QED
  BY <1>1, <1>2 DEF Abort

\* Where an answered operation is left.
LEMMA ReplyType ==
    ASSUME TypeOK, NEW state \in Seq(Nat), Reply(state)
    PROVE  /\ VolatileOK' /\ HistoryOK' /\ issued' = issued
           /\ pc' \in {"down", "idle"} /\ ret' = "none"
<1>1. Len(issued) \in Nat
  BY LenProperties DEF TypeOK, HistoryOK
<1>2. ok' \subseteq Nat
  BY <1>1 DEF Reply, TypeOK, HistoryOK
<1>3. CASE entry = "exit"
  <2>1. Exit /\ UNCHANGED <<issued, faults>>
    BY <1>3 DEF Reply
  <2>2. QED
    BY <1>2, <2>1 DEF Exit, TypeOK, VolatileOK, HistoryOK, Places
<1>4. CASE entry # "exit"
  <2>1. /\ Release /\ mem' = state /\ UNCHANGED persisted
        /\ UNCHANGED <<issued, faults>>
    BY <1>4 DEF Reply
  <2>2. QED
    BY <1>2, <2>1 DEF Release, TypeOK, VolatileOK, HistoryOK, Places
<1>5. QED
  BY <1>3, <1>4

LEMMA IssueType ==
    ASSUME TypeOK, NEW who \in Entries \cup {"restart"},
           NEW kind \in Kinds, NEW size \in 1..MaxBatch, Issue(who, kind, size)
    PROVE  /\ HistoryOK' /\ issued' # <<>> /\ Len(issued') \in Nat
           /\ entry' = who
<1>1. [kind |-> kind, size |-> size] \in Request
  BY DEF Request
<1>2. QED
  BY <1>1, AppendProperties, LenProperties DEF Issue, TypeOK, HistoryOK

-----------------------------------------------------------------------------
LEMMA TypeInit == Init => TypeInv
BY DEF Init, TypeInv, TypeOK, DurableOK, VolatileOK, HistoryOK, Control, Places

LEMMA TypeStep == TypeInv /\ [Next]_vars => TypeInv'
<1> SUFFICES ASSUME TypeInv, [Next]_vars
             PROVE  TypeInv'
  OBVIOUS
<1> USE DEF TypeInv, TypeOK
<1>1. ASSUME StartDriver PROVE TypeInv'
  BY <1>1 DEF StartDriver, durable, history, DurableOK, VolatileOK, HistoryOK,
              Control, Places
<1>2. ASSUME LoadRecover PROVE TypeInv'
  <2>1. log' \in Seq(Nat) /\ mem' \in Seq(Nat) /\ persisted' \in Nat /\ tail' = "clean"
    <3>1. CASE PendingRuntime
      <4>1. RollForward(Pending) /\ Pending.events \in Seq(Nat)
        BY <1>2, <3>1, PendingType DEF LoadRecover, PendingRuntime, Transaction
      <4>2. QED
        BY <4>1, ConcatProperties, LenProperties DEF RollForward, DurableOK
    <3>2. CASE ~PendingRuntime
      BY <1>2, <3>2, LenProperties DEF LoadRecover, DurableOK
    <3>3. QED
      BY <3>1, <3>2
  <2>2. QED
    BY <1>2, <2>1 DEF LoadRecover, history, DurableOK, VolatileOK, HistoryOK, Control, Places
<1>3. ASSUME LoadComplete PROVE TypeInv'
  BY <1>3 DEF LoadComplete, Release, durable, history, DurableOK, VolatileOK, HistoryOK,
              Control, Places
<1>4. ASSUME LoadSuspends PROVE TypeInv'
  <2>1. HistoryOK' /\ issued' # <<>> /\ Len(issued') \in Nat /\ entry' = "restart"
    <3>1. "runtime" \in Kinds /\ 1 \in 1..MaxBatch
      BY BoundsAssumption DEF Kinds
    <3>2. Issue("restart", "runtime", 1)
      BY <1>4 DEF LoadSuspends
    <3>3. QED
      BY <3>1, <3>2, IssueType
  <2>2. next' \in Seq(Nat)
    BY <1>4, <2>1, BatchType, ConcatProperties DEF LoadSuspends, VolatileOK
  <2>3. QED
    BY <1>4, <2>1, <2>2 DEF LoadSuspends, durable, DurableOK, VolatileOK, Control, Places
<1>5. ASSUME ReconcileDone PROVE TypeInv'
  BY <1>5 DEF ReconcileDone, durable, history, DurableOK, VolatileOK, HistoryOK,
              Control, Places
<1>6. ASSUME ReconcilePrivate PROVE TypeInv'
  <2>1. Pending \in Transaction /\ Pending.events \in Seq(Nat) /\ Pending.events # <<>>
    BY <1>6, PendingType DEF ReconcilePrivate, Transaction
  <2>2. /\ log' \in Seq(Nat) /\ mem' \in Seq(Nat) /\ persisted' \in Nat
        /\ tail' \in {"clean", "torn", "garbled"} /\ manifest' \in Nat
    <3>1. CASE Pending.kind = "runtime"
      <4>1. RollForward(Pending) /\ UNCHANGED manifest
        BY <1>6, <3>1 DEF ReconcilePrivate
      <4>2. QED
        BY <4>1, <2>1, ConcatProperties, LenProperties DEF RollForward, DurableOK
    <3>2. CASE Pending.kind # "runtime"
      <4>1. manifest' = Pending.events[1] /\ UNCHANGED <<log, tail, mem, persisted>>
        BY <1>6, <3>2 DEF ReconcilePrivate
      <4>2. QED
        BY <4>1, <2>1 DEF DurableOK, VolatileOK
    <3>3. QED
      BY <3>1, <3>2
  <2>3. QED
    BY <1>6, <2>2 DEF ReconcilePrivate, history, DurableOK, VolatileOK, HistoryOK, Control, Places
<1>7. ASSUME PublishRecord PROVE TypeInv'
  <2>1. journal' \in Seq(Record)
    BY <1>7, PublishType DEF PublishRecord, Control
  <2>2. QED
    BY <1>7, <2>1 DEF PublishRecord, operation, history, DurableOK, VolatileOK, HistoryOK,
                      Control, Current, NothingToCommit
<1>8. ASSUME Published PROVE TypeInv'
  BY <1>8 DEF Published, durable, history, DurableOK, VolatileOK, HistoryOK, Control, Places
<1>9. ASSUME Acknowledge PROVE TypeInv'
  <2>1. /\ outbox' = Tail(outbox) /\ outbox' \in Seq(Transaction)
        /\ Len(outbox') = Len(outbox) - 1 /\ ledger' \in Seq(Transaction)
    BY <1>9, PendingType, AppendProperties DEF Acknowledge, MoveToLedger, Control, DurableOK
  <2>2. Len(outbox') <= 1
    BY <2>1, LenProperties DEF Control, DurableOK
  <2>3. DurableOK'
    BY <1>9, <2>1 DEF Acknowledge, DurableOK
  <2>4. CASE ret = "none"
    <3>1. Reply(mem)
      BY <1>9, <2>4 DEF Acknowledge
    <3>2. VolatileOK' /\ HistoryOK' /\ pc' \in {"down", "idle"} /\ ret' = "none"
      BY <3>1, ReplyType DEF VolatileOK
    <3>3. QED
      BY <2>2, <2>3, <3>2 DEF Control
  <2>5. CASE ret # "none"
    <3>1. pc' = "reconcile" /\ UNCHANGED <<mem, persisted, entry, next, ret, history>>
      BY <1>9, <2>5 DEF Acknowledge
    <3>2. QED
      BY <2>2, <2>3, <3>1 DEF history, VolatileOK, HistoryOK, Control, Places
  <2>6. QED
    BY <2>4, <2>5
<1>10. ASSUME NEW kind \in Kinds, NEW size \in 1..MaxBatch, IssueIpc(kind, size)
       PROVE  TypeInv'
  <2>1. HistoryOK' /\ issued' # <<>> /\ entry' = "ipc" /\ "ipc" \in Entries
    BY <1>10, IssueType DEF IssueIpc
  <2>2. QED
    BY <1>10, <2>1 DEF IssueIpc, durable, DurableOK, VolatileOK, Control, Places
<1>11. ASSUME NEW who \in Entries \ {"ipc"}, NEW size \in 1..MaxBatch,
              IssueDirect(who, size)
       PROVE  TypeInv'
  <2>1. HistoryOK' /\ issued' # <<>> /\ Len(issued') \in Nat /\ entry' = who
    BY <1>11, IssueType DEF IssueDirect, Kinds
  <2>2. next' \in Seq(Nat)
    BY <1>11, <2>1, BatchType, ConcatProperties, BoundsAssumption DEF IssueDirect, VolatileOK
  <2>3. QED
    BY <1>11, <2>1, <2>2 DEF IssueDirect, durable, DurableOK, VolatileOK, Control, Places
<1>12. ASSUME Execute PROVE TypeInv'
  <2>1. issued # <<>>
    BY <1>12 DEF Execute, Control
  <2>2. Batch(Len(issued), Current.size) \in Seq(Nat)
    BY <2>1, CurrentType, BatchType
  <2>3. next' \in Seq(Nat) /\ ret' \in {ret, "commit"} /\ pc' \in {"reconcile", "check"}
    <3>1. CASE Current.kind = "runtime"
      BY <1>12, <2>2, <3>1, ConcatProperties DEF Execute, VolatileOK
    <3>2. CASE Current.kind # "runtime"
      BY <1>12, <3>2 DEF Execute, VolatileOK
    <3>3. QED
      BY <3>1, <3>2
  <2>4. QED
    BY <1>12, <2>1, <2>3 DEF Execute, durable, history, DurableOK, VolatileOK, HistoryOK,
                             Control, Places
<1>13. ASSUME CommitNothing PROVE TypeInv'
  <2>1. VolatileOK' /\ HistoryOK' /\ pc' \in {"down", "idle"} /\ ret' = "none"
    BY <1>13, ReplyType DEF CommitNothing, VolatileOK
  <2>2. QED
    BY <1>13, <2>1 DEF CommitNothing, durable, DurableOK, Control
<1>14. ASSUME Preflight PROVE TypeInv'
  <2>1. pc' = "persist" /\ NothingToCommit' = NothingToCommit /\ ~NothingToCommit
    BY <1>14 DEF Preflight, NothingToCommit, Current, history
  <2>2. QED
    BY <1>14, <2>1 DEF Preflight, durable, history, DurableOK, VolatileOK, HistoryOK,
                       Control, Places
<1>15. ASSUME TakeOrdinal PROVE TypeInv'
  <2>1. pc' = "create" /\ NothingToCommit' = NothingToCommit /\ ~NothingToCommit
    BY <1>15 DEF TakeOrdinal, NothingToCommit, Current, history, Control
  <2>2. QED
    BY <1>15, <2>1 DEF TakeOrdinal, history, DurableOK, VolatileOK, HistoryOK, Control, Places
<1>16. ASSUME CreatePending PROVE TypeInv'
  <2>1. Prepared \in Transaction
    BY <1>16, PreparedType DEF CreatePending, Control
  <2>2. outbox' \in Seq(Transaction) /\ Len(outbox') = 1
    BY <1>16, <2>1, AppendProperties DEF CreatePending, Control, DurableOK
  <2>3. outbox' # <<>>
    BY <2>2
  <2>4. QED
    BY <1>16, <2>2, <2>3 DEF CreatePending, history, DurableOK, VolatileOK, HistoryOK,
                             Control, Places
<1>17. ASSUME AppendPrivate PROVE TypeInv'
  <2>1. Pending.events \in Seq(Nat) /\ Pending.base \in Nat
    BY <1>17, PendingType DEF AppendPrivate, Control, Transaction
  <2>2. log' \in Seq(Nat) /\ persisted' \in Nat
    BY <1>17, <2>1, ConcatProperties, LenProperties DEF AppendPrivate, DurableOK
  <2>3. QED
    BY <1>17, <2>2 DEF AppendPrivate, history, DurableOK, VolatileOK, HistoryOK, Control, Places
<1>18. ASSUME WriteManifest PROVE TypeInv'
  <2>1. outbox # <<>>
    BY <1>18 DEF WriteManifest, Control
  <2>2. Pending.events[1] \in Nat
    BY <2>1, PendingType, FirstEvent
  <2>3. QED
    BY <1>18, <2>2 DEF WriteManifest, history, DurableOK, VolatileOK, HistoryOK, Control, Places
<1>19. ASSUME StepFails PROVE TypeInv'
  BY <1>19, AbortType DEF StepFails, durable, DurableOK, Control
<1>20. ASSUME CrashIdle PROVE TypeInv'
  BY <1>20, AbortType DEF CrashIdle, Abort, durable, DurableOK, Control
<1>21. ASSUME AppendTorn PROVE TypeInv'
  BY <1>21, AbortType DEF AppendTorn, DurableOK, Control
<1>22. ASSUME AppendUnsynced PROVE TypeInv'
  <2>1. Pending.events \in Seq(Nat)
    BY <1>22, PendingType DEF AppendUnsynced, Appending, PendingRuntime, Transaction
  <2>2. log' \in Seq(Nat)
    BY <1>22, <2>1, ConcatProperties DEF AppendUnsynced, DurableOK
  <2>3. QED
    BY <1>22, <2>2, AbortType DEF AppendUnsynced, DurableOK, Control
<1>23. ASSUME ManifestUnsynced PROVE TypeInv'
  <2>1. Pending.events[1] \in Nat
    BY <1>23, PendingType, FirstEvent DEF ManifestUnsynced
  <2>2. QED
    BY <1>23, <2>1, AbortType DEF ManifestUnsynced, DurableOK, Control
<1>24. ASSUME OrdinalUnsynced PROVE TypeInv'
  BY <1>24, AbortType DEF OrdinalUnsynced, DurableOK, Control
<1>25. ASSUME CreateUnsynced PROVE TypeInv'
  <2>1. Prepared \in Transaction
    BY <1>25, PreparedType DEF CreateUnsynced, Control
  <2>2. outbox' \in Seq(Transaction) /\ Len(outbox') = 1
    BY <1>25, <2>1, AppendProperties DEF CreateUnsynced, Control, DurableOK
  <2>3. QED
    BY <1>25, <2>2, AbortType DEF CreateUnsynced, DurableOK, Control
<1>26. ASSUME PublishUnsynced PROVE TypeInv'
  <2>1. journal' \in Seq(Record)
    BY <1>26, PublishType DEF PublishUnsynced, Control
  <2>2. QED
    BY <1>26, <2>1, AbortType DEF PublishUnsynced, DurableOK, Control
<1>27. ASSUME AcknowledgeUnsynced PROVE TypeInv'
  <2>1. /\ outbox' = Tail(outbox) /\ outbox' \in Seq(Transaction)
        /\ Len(outbox') = Len(outbox) - 1 /\ ledger' \in Seq(Transaction)
    BY <1>27, PendingType, AppendProperties
       DEF AcknowledgeUnsynced, MoveToLedger, Control, DurableOK
  <2>2. Len(outbox') <= 1
    BY <2>1, LenProperties DEF Control, DurableOK
  <2>3. QED
    BY <1>27, <2>1, <2>2, AbortType DEF AcknowledgeUnsynced, DurableOK, Control
<1>28. CASE UNCHANGED vars
  BY <1>28 DEF vars, DurableOK, VolatileOK, HistoryOK, Control, NothingToCommit, Current
<1>29. QED
  BY <1>1, <1>2, <1>3, <1>4, <1>5, <1>6, <1>7, <1>8, <1>9, <1>10, <1>11, <1>12, <1>13,
     <1>14, <1>15, <1>16, <1>17, <1>18, <1>19, <1>20, <1>21, <1>22, <1>23, <1>24, <1>25,
     <1>26, <1>27, <1>28
     DEF Next, Recovery, Pipeline, Clients, Faults

(***************************************************************************)
(* The variables keep their types, for every number of requests, events    *)
(* and faults.                                                             *)
(***************************************************************************)
THEOREM TypeCorrect == Spec => []TypeOK
<1>1. TypeInv => TypeOK
  BY DEF TypeInv
<1>2. QED
  BY TypeInit, TypeStep, <1>1, PTL DEF Spec

-----------------------------------------------------------------------------
(***************************************************************************)
(* The private log and its one pending batch.                              *)
(***************************************************************************)
\* The log ends where t begins, or with t.
Before(t) == Len(log) = t.base
After(t) == /\ Len(log) = t.base + Len(t.events)
            /\ \A i \in 1..Len(t.events) : log[t.base + i] = t.events[i]

Committing == pc \in {"apply", "publish", "ack"}

TornInv == tail # "clean" =>
    tail = "torn" /\ PendingRuntime /\ Before(Pending) /\ ~Committing
LogInv == PendingRuntime =>
    /\ Before(Pending) \/ After(Pending)
    /\ pc = "apply" => Before(Pending)
    /\ pc \in {"publish", "ack"} => After(Pending)
ManifestInv == outbox # <<>> /\ Pending.kind # "runtime" =>
    manifest \in {Pending.base, Pending.events[1]}
\* The count the next batch starts from is right unless a batch is pending.
SyncInv ==
    /\ pc \notin {"down", "load"}
    /\ ~PendingRuntime \/ pc \in {"publish", "ack"}
    => persisted = Len(log)
JournalInv == \A i \in DOMAIN journal :
    IF journal[i].kind = "runtime"
    THEN journal[i].key \in 1..Len(log) /\ journal[i].by = log[journal[i].key]
    ELSE journal[i].by = journal[i].key

LEMMA EventsType ==
    ASSUME NEW t \in Transaction
    PROVE  /\ t.events \in Seq(Nat) /\ Len(t.events) \in Nat /\ Len(t.events) > 0
           /\ t.base \in Nat /\ t.kind \in Kinds
<1>1. /\ t.events \in Seq(Nat) /\ t.events # <<>> /\ t.base \in Nat /\ t.kind \in Kinds
  BY DEF Transaction
<1>2. QED
  BY <1>1, EmptySeq, LenProperties

\* Appending a batch where it begins keeps what was there.
LEMMA AppendFacts ==
    ASSUME DurableOK, NEW t \in Transaction, Before(t), log' = log \o t.events
    PROVE  /\ Len(log') = t.base + Len(t.events)
           /\ \A k \in 1..Len(log) : log'[k] = log[k]
           /\ \A i \in 1..Len(t.events) : log'[t.base + i] = t.events[i]
<1>1. log \in Seq(Nat) /\ t.events \in Seq(Nat) /\ Len(t.events) \in Nat
      /\ Len(log) \in Nat /\ t.base = Len(log)
  BY EventsType, LenProperties DEF DurableOK, Before
<1>2. /\ Len(log') = Len(log) + Len(t.events)
      /\ \A k \in 1..Len(log) + Len(t.events) :
            log'[k] = IF k <= Len(log) THEN log[k] ELSE t.events[k - Len(log)]
  BY <1>1, ConcatProperties
<1>3. ASSUME NEW i \in 1..Len(t.events)
      PROVE  log'[t.base + i] = t.events[i]
  <2>1. /\ Len(log) + i \in 1..Len(log) + Len(t.events)
        /\ ~(Len(log) + i <= Len(log)) /\ (Len(log) + i) - Len(log) = i
    BY <1>1
  <2>2. QED
    BY <1>1, <1>2, <2>1
<1>4. ASSUME NEW k \in 1..Len(log)
      PROVE  log'[k] = log[k]
  <2>1. k \in 1..Len(log) + Len(t.events) /\ k <= Len(log)
    BY <1>1
  <2>2. QED
    BY <1>2, <2>1
<1>5. QED
  BY <1>1, <1>2, <1>3, <1>4

LEMMA JournalKept ==
    ASSUME DurableOK, JournalInv, NEW t \in Transaction, Before(t),
           log' = log \o t.events, UNCHANGED journal
    PROVE  JournalInv'
<1> SUFFICES ASSUME NEW i \in DOMAIN journal
             PROVE  IF journal[i].kind = "runtime"
                    THEN /\ journal[i].key \in 1..Len(log')
                         /\ journal[i].by = log'[journal[i].key]
                    ELSE journal[i].by = journal[i].key
  BY DEF JournalInv
<1>1. /\ Len(log') = Len(log) + Len(t.events)
      /\ \A k \in 1..Len(log) : log'[k] = log[k]
      /\ Len(log) \in Nat /\ Len(t.events) \in Nat
  BY AppendFacts, EventsType, LenProperties DEF Before, DurableOK
<1>2. CASE journal[i].kind = "runtime"
  <2>1. journal[i].key \in 1..Len(log) /\ journal[i].by = log[journal[i].key]
    BY <1>2 DEF JournalInv
  <2>2. QED
    BY <1>1, <1>2, <2>1
<1>3. CASE journal[i].kind # "runtime"
  BY <1>3 DEF JournalInv
<1>4. QED
  BY <1>2, <1>3

\* The events of t are in the log where t puts them.
Holds(t) ==
    /\ Ends(t) <= Len(log)
    /\ \A m \in 1..Len(t.events) : log[t.base + m] = t.events[m]

\* What the log holds of t is where Applied looks for it.
LEMMA HoldsIsApplied ==
    ASSUME DurableOK, NEW t \in Transaction, Holds(t)
    PROVE  Applied(t)
<1> DEFINE s == SubSeq(log, t.base + 1, t.base + Len(t.events))
<1>1. /\ t.base \in Nat /\ t.events \in Seq(Nat) /\ Len(t.events) \in Nat
      /\ Len(t.events) > 0 /\ log \in Seq(Nat) /\ Len(log) \in Nat
      /\ t.base + Len(t.events) <= Len(log)
  BY EventsType, LenProperties DEF DurableOK, Holds, Ends
<1>2. \A k \in t.base + 1..t.base + Len(t.events) : log[k] \in Nat
  <2>1. \A k \in t.base + 1..t.base + Len(t.events) : k \in 1..Len(log)
    BY <1>1
  <2>2. QED
    BY <1>1, <2>1, ElementOfSeq
<1>3. /\ s \in Seq(Nat) /\ Len(s) = Len(t.events)
      /\ \A i \in 1..Len(t.events) : s[i] = log[t.base + i]
  <2>1. ASSUME NEW b \in Nat, NEW n \in Nat, n > 0
        PROVE  /\ b + 1 \in Int /\ b + n \in Int /\ b + 1 <= b + n
               /\ (b + n) - (b + 1) + 1 = n
               /\ \A i \in 1..n : (b + 1) + i - 1 = b + i
    BY <2>1
  <2>2. /\ t.base + 1 \in Int /\ t.base + Len(t.events) \in Int
        /\ t.base + 1 <= t.base + Len(t.events)
        /\ (t.base + Len(t.events)) - (t.base + 1) + 1 = Len(t.events)
        /\ \A i \in 1..Len(t.events) : (t.base + 1) + i - 1 = t.base + i
    BY <1>1, <2>1
  <2>3. /\ s \in Seq(Nat)
        /\ Len(s) = (t.base + Len(t.events)) - (t.base + 1) + 1
        /\ \A i \in 1..(t.base + Len(t.events)) - (t.base + 1) + 1 :
              s[i] = log[(t.base + 1) + i - 1]
    BY <1>2, <2>2, SubSeqProperties
  <2>4. QED
    BY <2>2, <2>3
<1>4. \A i \in 1..Len(s) : s[i] = t.events[i]
  BY <1>1, <1>3 DEF Holds
<1>5. s = t.events
  BY <1>1, <1>3, <1>4, SeqEqual
<1>6. QED
  BY <1>1, <1>5 DEF Applied

\* A batch that the log ends with is applied.
LEMMA AfterIsApplied ==
    ASSUME DurableOK, NEW t \in Transaction, After(t)
    PROVE  Applied(t)
<1>1. /\ t.base \in Nat /\ Len(t.events) \in Nat
      /\ Len(log) = t.base + Len(t.events)
  BY EventsType DEF After
<1>2. Holds(t)
  BY <1>1 DEF After, Holds, Ends
<1>3. QED
  BY <1>2, HoldsIsApplied

\* What is pending agrees with what the journal tells.
LEMMA NoConflict ==
    ASSUME DurableOK, JournalInv, NEW t \in Transaction,
           t.kind = "runtime" => Before(t) \/ After(t)
    PROVE  ~Conflicting(t)
<1> SUFFICES ASSUME NEW i \in DOMAIN journal, NEW j \in DOMAIN Records(t),
                    SameIdentity(journal[i], Records(t)[j])
             PROVE  journal[i] = Records(t)[j]
  BY DEF Conflicting
<1>1. journal[i] \in Record /\ Records(t)[j] \in Record
  BY RecordsType DEF DurableOK
<1>2. journal[i].kind = Records(t)[j].kind /\ journal[i].key = Records(t)[j].key
  BY DEF SameIdentity
<1>3. journal[i].by = Records(t)[j].by
  <2>1. CASE t.kind = "runtime"
    <3>1. /\ j \in 1..Len(t.events)
          /\ Records(t)[j] = [kind |-> "runtime", key |-> t.base + j, by |-> t.events[j]]
      BY <2>1 DEF Records
    <3>2. /\ t.base + j \in 1..Len(log) /\ journal[i].by = log[t.base + j]
      BY <1>2, <3>1 DEF JournalInv
    <3>3. After(t)
      BY <2>1, <3>1, <3>2, EventsType DEF Before
    <3>4. QED
      BY <3>1, <3>2, <3>3 DEF After
  <2>2. CASE t.kind # "runtime"
    <3>1. Records(t)[j] = [kind |-> "manifest", key |-> t.events[1], by |-> t.events[1]]
      BY <2>2 DEF Records
    <3>2. QED
      BY <1>2, <3>1 DEF JournalInv
  <2>3. QED
    BY <2>1, <2>2
<1>4. QED
  BY <1>1, <1>2, <1>3 DEF Record

-----------------------------------------------------------------------------
(***************************************************************************)
(* Steps of a kind preserve the invariant alike.                           *)
(***************************************************************************)
StateInv == TornInv /\ LogInv /\ ManifestInv /\ SyncInv /\ JournalInv

\* Nothing durable changes.
LEMMA QuietStep ==
    ASSUME StateInv, UNCHANGED durable,
           ~Committing' \/ (pc = "publish" /\ pc' = "ack"),
           pc' \in {"down", "load"} \/ (UNCHANGED persisted /\ pc \notin {"down", "load"})
    PROVE  StateInv'
<1>1. UNCHANGED <<log, tail, manifest, outbox, journal>>
  BY DEF durable
<1>2. Pending' = Pending /\ PendingRuntime' = PendingRuntime
  BY <1>1 DEF Pending, PendingRuntime
<1>3. TornInv'
  BY <1>1, <1>2 DEF StateInv, TornInv, Before, Committing
<1>4. LogInv'
  BY <1>1, <1>2 DEF StateInv, LogInv, Before, After, Committing
<1>5. ManifestInv'
  BY <1>1, <1>2 DEF StateInv, ManifestInv
<1>6. SyncInv'
  BY <1>1, <1>2 DEF StateInv, SyncInv, Committing
<1>7. JournalInv'
  BY <1>1 DEF StateInv, JournalInv
<1>8. QED
  BY <1>3, <1>4, <1>5, <1>6, <1>7 DEF StateInv

\* A record is published.
LEMMA PublishStep ==
    ASSUME TypeInv, StateInv, pc = "publish", PublishNext,
           UNCHANGED <<log, tail, manifest, outbox>>,
           pc' \in {"down", "load"} \/ (UNCHANGED persisted /\ pc' \in {"idle", "publish"})
    PROVE  StateInv'
<1>1. Pending' = Pending /\ PendingRuntime' = PendingRuntime
  BY DEF Pending, PendingRuntime
<1>2. outbox # <<>> /\ Pending \in Transaction /\ Pending.base \in Nat
  BY PendingType, EventsType DEF TypeInv, TypeOK, Control
<1>3. PICK i \in DOMAIN Records(Pending) :
          journal' = Append(journal, Records(Pending)[i])
  BY DEF PublishNext
<1>4. /\ DOMAIN journal' = 1..Len(journal) + 1 /\ DOMAIN journal = 1..Len(journal)
      /\ \A k \in 1..Len(journal) : journal'[k] = journal[k]
      /\ journal'[Len(journal) + 1] = Records(Pending)[i] /\ Len(journal) \in Nat
  <2>1. Records(Pending)[i] \in Record /\ journal \in Seq(Record)
    BY <1>2, RecordsType DEF TypeInv, TypeOK, DurableOK
  <2>2. QED
    BY <1>3, <2>1
<1>5. LET r == Records(Pending)[i]
      IN  IF r.kind = "runtime" THEN r.key \in 1..Len(log) /\ r.by = log[r.key]
                                ELSE r.by = r.key
  <2>1. CASE Pending.kind = "runtime"
    <3>1. After(Pending)
      BY <1>2, <2>1 DEF StateInv, LogInv, PendingRuntime
    <3>2. /\ i \in 1..Len(Pending.events)
          /\ Records(Pending)[i]
               = [kind |-> "runtime", key |-> Pending.base + i, by |-> Pending.events[i]]
      BY <2>1 DEF Records
    <3>3. Pending.base + i \in 1..Len(log) /\ Pending.events[i] = log[Pending.base + i]
      <4>1. Len(Pending.events) \in Nat /\ Len(log) = Pending.base + Len(Pending.events)
        BY <1>2, <3>1, EventsType DEF After
      <4>2. Pending.base + i \in 1..Len(log)
        BY <1>2, <3>2, <4>1
      <4>3. QED
        BY <3>1, <3>2, <4>2 DEF After
    <3>4. QED
      BY <3>2, <3>3
  <2>2. CASE Pending.kind # "runtime"
    BY <2>2 DEF Records
  <2>3. QED
    BY <2>1, <2>2
<1>6. JournalInv'
  BY <1>4, <1>5 DEF StateInv, JournalInv
<1>7. TornInv' /\ LogInv' /\ ManifestInv'
  BY <1>1 DEF StateInv, TornInv, LogInv, ManifestInv, Before, After, Committing
<1>8. SyncInv'
  BY <1>1 DEF StateInv, SyncInv
<1>9. QED
  BY <1>6, <1>7, <1>8 DEF StateInv

\* The pending transaction moves to the ledger.
LEMMA AcknowledgeStep ==
    ASSUME TypeInv, StateInv, pc = "ack", MoveToLedger,
           UNCHANGED <<log, tail, manifest, journal>>,
           pc' = "down" \/ (UNCHANGED persisted /\ pc' \in {"idle", "reconcile"})
    PROVE  StateInv'
<1>1. outbox' = <<>>
  <2>1. /\ outbox' \in Seq(Transaction) /\ Len(outbox') = Len(outbox) - 1
    BY PendingType DEF TypeInv, TypeOK, Control, MoveToLedger
  <2>2. Len(outbox') = 0
    BY <2>1, LenProperties DEF TypeInv, TypeOK, DurableOK, Control
  <2>3. QED
    BY <2>1, <2>2, EmptySeq
<1>2. ~PendingRuntime'
  BY <1>1 DEF PendingRuntime
<1>3. tail = "clean" /\ persisted = Len(log)
  BY DEF StateInv, TornInv, SyncInv, Committing
<1>4. QED
  BY <1>1, <1>2, <1>3 DEF StateInv, TornInv, LogInv, ManifestInv, SyncInv, JournalInv

\* The outbox file of the prepared transaction appears.
LEMMA CreateStep ==
    ASSUME TypeInv, StateInv, pc = "create", outbox' = Append(outbox, Prepared),
           UNCHANGED <<log, tail, manifest, journal>>,
           pc' = "down" \/ (UNCHANGED persisted /\ pc' \in {"idle", "apply"})
    PROVE  StateInv'
<1>1. outbox = <<>> /\ ~PendingRuntime
  BY DEF TypeInv, Control, PendingRuntime
<1>2. Prepared \in Transaction
  BY PreparedType DEF TypeInv, Control
<1>3. outbox' # <<>> /\ Pending' = Prepared
  BY <1>1, <1>2 DEF Pending
<1>4. tail = "clean" /\ persisted = Len(log)
  BY <1>1 DEF StateInv, TornInv, SyncInv
<1>5. PendingRuntime' => Before(Pending)'
  <2>1. CASE Current.kind = "runtime"
    BY <1>3, <1>4, <2>1 DEF Prepared, Before
  <2>2. CASE Current.kind # "runtime"
    <3>1. Prepared.kind = "manifest"
      BY <2>2 DEF Prepared
    <3>2. QED
      BY <1>3, <3>1 DEF PendingRuntime
  <2>3. QED
    BY <2>1, <2>2
<1>6. Pending'.kind # "runtime" => manifest' \in {Pending'.base, Pending'.events[1]}
  <2>1. CASE Current.kind = "runtime"
    BY <1>3, <2>1 DEF Prepared
  <2>2. CASE Current.kind # "runtime"
    BY <1>3, <2>2 DEF Prepared
  <2>3. QED
    BY <2>1, <2>2
<1>7. TornInv' /\ ManifestInv' /\ JournalInv'
  BY <1>4, <1>6 DEF StateInv, TornInv, ManifestInv, JournalInv
<1>8. LogInv'
  BY <1>5 DEF LogInv
<1>9. SyncInv'
  BY <1>4 DEF SyncInv
<1>10. QED
  BY <1>7, <1>8, <1>9 DEF StateInv

\* The pending batch is appended; persisted follows, or the operation failed.
LEMMA AppendStep ==
    ASSUME TypeInv, StateInv, PendingRuntime, Before(Pending),
           log' = log \o Pending.events, tail' = "clean",
           UNCHANGED <<manifest, outbox, journal>>,
           \/ pc' = "publish" /\ persisted' = Len(log')
           \/ pc' \in {"down", "idle"}
           \/ pc' = "reconcile" /\ persisted' = Len(log')
    PROVE  StateInv'
<1>1. Pending \in Transaction
  BY PendingType DEF TypeInv, TypeOK, PendingRuntime
<1>2. Pending' = Pending /\ PendingRuntime' /\ Pending.kind = "runtime"
  BY DEF Pending, PendingRuntime
<1>3. After(Pending)'
  BY <1>1, <1>2, AppendFacts DEF TypeInv, TypeOK, After
<1>4. JournalInv'
  BY <1>1, JournalKept DEF TypeInv, TypeOK, StateInv
<1>5. TornInv' /\ LogInv' /\ ManifestInv' /\ SyncInv'
  BY <1>2, <1>3 DEF TornInv, LogInv, ManifestInv, SyncInv
<1>6. QED
  BY <1>4, <1>5 DEF StateInv

\* Rolling the pending transaction forward appends it or finds it.
LEMMA RollStep ==
    ASSUME TypeInv, StateInv, PendingRuntime, RollForward(Pending),
           UNCHANGED <<manifest, outbox, journal>>, pc' \in {"reconcile", "publish"}
    PROVE  StateInv'
<1>1. Pending \in Transaction
  BY PendingType DEF TypeInv, TypeOK, PendingRuntime
<1>2. CASE Before(Pending)
  <2>1. log' = log \o Pending.events /\ tail' = "clean" /\ persisted' = Len(log')
    BY <1>2 DEF RollForward, Before
  <2>2. QED
    BY <1>2, <2>1, AppendStep
<1>3. CASE ~Before(Pending)
  <2>1. UNCHANGED log /\ tail' = "clean" /\ persisted' = Len(log')
    BY <1>3 DEF RollForward, Before
  <2>2. After(Pending)
    BY <1>3 DEF StateInv, LogInv
  <2>3. Pending' = Pending /\ PendingRuntime' /\ Pending.kind = "runtime"
    BY DEF Pending, PendingRuntime
  <2>4. After(Pending)'
    BY <2>1, <2>2, <2>3 DEF After
  <2>5. TornInv' /\ LogInv' /\ ManifestInv' /\ SyncInv'
    BY <2>1, <2>3, <2>4 DEF TornInv, LogInv, ManifestInv, SyncInv
  <2>6. JournalInv'
    BY <2>1 DEF StateInv, JournalInv
  <2>7. QED
    BY <2>5, <2>6 DEF StateInv
<1>4. QED
  BY <1>2, <1>3

\* A pending manifest is written; the log is left alone.
LEMMA ManifestStep ==
    ASSUME TypeInv, StateInv, outbox # <<>>, Pending.kind = "manifest",
           manifest' = Pending.events[1],
           UNCHANGED <<log, tail, outbox, journal>>,
           \/ pc' = "down"
           \/ UNCHANGED persisted /\ pc' \in {"idle", "publish"} /\ pc \notin {"down", "load"}
    PROVE  StateInv'
<1>1. Pending' = Pending /\ ~PendingRuntime /\ ~PendingRuntime'
  BY DEF Pending, PendingRuntime
<1>2. TornInv' /\ LogInv' /\ ManifestInv' /\ SyncInv' /\ JournalInv'
  BY <1>1 DEF StateInv, TornInv, LogInv, ManifestInv, SyncInv, JournalInv
<1>3. QED
  BY <1>2 DEF StateInv

\* A failed or dying operation, or an answered one.
LEMMA AbortPlace ==
    ASSUME pc # "down", Abort
    PROVE  pc' = "down" \/ (pc' = "idle" /\ UNCHANGED persisted /\ pc \notin {"down", "load"})
<1>1. CASE Die
  BY <1>1 DEF Die, Exit
<1>2. CASE Fail
  <2>1. CASE ret = "load" \/ pc \in {"load", "ready"} \/ entry \in {"restart", "exit"}
    <3>1. Exit
      BY <1>2, <2>1 DEF Fail
    <3>2. QED
      BY <3>1 DEF Exit
  <2>2. CASE ~(ret = "load" \/ pc \in {"load", "ready"} \/ entry \in {"restart", "exit"})
    <3>1. Release /\ UNCHANGED persisted
      BY <1>2, <2>2 DEF Fail
    <3>2. QED
      BY <2>2, <3>1 DEF Release
  <2>3. QED
    BY <2>1, <2>2
<1>3. QED
  BY <1>1, <1>2 DEF Abort

LEMMA ReplyPlace ==
    ASSUME NEW state, Reply(state)
    PROVE  pc' = "down" \/ (pc' = "idle" /\ UNCHANGED persisted)
<1>1. CASE entry = "exit"
  <2>1. Exit
    BY <1>1 DEF Reply
  <2>2. QED
    BY <2>1 DEF Exit
<1>2. CASE entry # "exit"
  <2>1. Release /\ UNCHANGED persisted
    BY <1>2 DEF Reply
  <2>2. QED
    BY <2>1 DEF Release
<1>3. QED
  BY <1>1, <1>2

-----------------------------------------------------------------------------
LEMMA SafetyInit == Init => StateInv
BY DEF Init, StateInv, TornInv, LogInv, ManifestInv, SyncInv, JournalInv, PendingRuntime

LEMMA SafetyStep == TypeInv /\ StateInv /\ [Next]_vars => StateInv'
<1> SUFFICES ASSUME TypeInv, StateInv, [Next]_vars
             PROVE  StateInv'
  OBVIOUS
<1>1. ASSUME StartDriver PROVE StateInv'
  BY <1>1, QuietStep DEF StartDriver, Committing
<1>2. ASSUME LoadRecover PROVE StateInv'
  <2>1. CASE PendingRuntime
    BY <1>2, <2>1, RollStep DEF LoadRecover
  <2>2. CASE ~PendingRuntime
    <3>1. /\ UNCHANGED <<log, manifest, outbox, journal>> /\ tail' = "clean"
          /\ persisted' = Len(log) /\ ~PendingRuntime'
      BY <1>2, <2>2 DEF LoadRecover, PendingRuntime, Pending
    <3>2. Pending' = Pending
      BY <3>1 DEF Pending
    <3>3. QED
      BY <3>1, <3>2 DEF StateInv, TornInv, LogInv, ManifestInv, SyncInv, JournalInv
  <2>3. QED
    BY <2>1, <2>2
<1>3. ASSUME LoadComplete PROVE StateInv'
  BY <1>3, QuietStep DEF LoadComplete, Release, Committing
<1>4. ASSUME LoadSuspends PROVE StateInv'
  BY <1>4, QuietStep DEF LoadSuspends, Committing
<1>5. ASSUME ReconcileDone PROVE StateInv'
  BY <1>5, QuietStep DEF ReconcileDone, Committing
<1>6. ASSUME ReconcilePrivate PROVE StateInv'
  <2>1. CASE Pending.kind = "runtime"
    <3>1. PendingRuntime
      BY <1>6, <2>1 DEF ReconcilePrivate, PendingRuntime
    <3>2. RollForward(Pending) /\ UNCHANGED <<manifest, outbox, journal>> /\ pc' = "publish"
      BY <1>6, <2>1 DEF ReconcilePrivate
    <3>3. QED
      BY <3>1, <3>2, RollStep
  <2>2. CASE Pending.kind # "runtime"
    <3>1. /\ manifest' = Pending.events[1] /\ UNCHANGED <<log, tail, mem, persisted>>
          /\ UNCHANGED <<outbox, journal>> /\ outbox # <<>> /\ pc = "reconcile" /\ pc' = "publish"
      BY <1>6, <2>2 DEF ReconcilePrivate
    <3>2. Pending.kind = "manifest"
      BY <2>2, <3>1, PendingType DEF TypeInv, TypeOK, Transaction, Kinds
    <3>3. QED
      BY <3>1, <3>2, ManifestStep
  <2>3. QED
    BY <2>1, <2>2
<1>7. ASSUME PublishRecord PROVE StateInv'
  BY <1>7, PublishStep DEF PublishRecord, operation
<1>8. ASSUME Published PROVE StateInv'
  BY <1>8, QuietStep DEF Published
<1>9. ASSUME Acknowledge PROVE StateInv'
  <2>1. pc' = "down" \/ (UNCHANGED persisted /\ pc' \in {"idle", "reconcile"})
    <3>1. CASE ret = "none"
      BY <1>9, <3>1, ReplyPlace DEF Acknowledge
    <3>2. CASE ret # "none"
      BY <1>9, <3>2 DEF Acknowledge
    <3>3. QED
      BY <3>1, <3>2
  <2>2. QED
    BY <1>9, <2>1, AcknowledgeStep DEF Acknowledge
<1>10. ASSUME NEW kind \in Kinds, NEW size \in 1..MaxBatch, IssueIpc(kind, size)
       PROVE  StateInv'
  BY <1>10, QuietStep DEF IssueIpc, Committing
<1>11. ASSUME NEW who \in Entries \ {"ipc"}, NEW size \in 1..MaxBatch,
              IssueDirect(who, size)
       PROVE  StateInv'
  BY <1>11, QuietStep DEF IssueDirect, Committing
<1>12. ASSUME Execute PROVE StateInv'
  <2>1. pc' \in {"reconcile", "check"}
    BY <1>12 DEF Execute
  <2>2. QED
    BY <1>12, <2>1, QuietStep DEF Execute, Committing
<1>13. ASSUME CommitNothing PROVE StateInv'
  <2>1. pc' = "down" \/ (pc' = "idle" /\ UNCHANGED persisted)
    BY <1>13, ReplyPlace DEF CommitNothing
  <2>2. QED
    BY <1>13, <2>1, QuietStep DEF CommitNothing, Committing
<1>14. ASSUME Preflight PROVE StateInv'
  BY <1>14, QuietStep DEF Preflight, Committing
<1>15. ASSUME TakeOrdinal PROVE StateInv'
  BY <1>15 DEF TakeOrdinal, StateInv, TornInv, LogInv, ManifestInv, SyncInv, JournalInv,
               PendingRuntime, Pending, Before, After, Committing
<1>16. ASSUME CreatePending PROVE StateInv'
  BY <1>16, CreateStep DEF CreatePending
<1>17. ASSUME AppendPrivate PROVE StateInv'
  <2>1. outbox # <<>> /\ PendingRuntime
    BY <1>17 DEF AppendPrivate, TypeInv, Control, PendingRuntime
  <2>2. Before(Pending) /\ tail = "clean"
    BY <1>17, <2>1 DEF AppendPrivate, StateInv, LogInv, TornInv, Committing
  <2>3. Pending \in Transaction
    BY <2>1, PendingType DEF TypeInv, TypeOK
  <2>4. persisted' = Len(log')
    BY <1>17, <2>2, <2>3, AppendFacts DEF AppendPrivate, TypeInv, TypeOK
  <2>5. QED
    BY <1>17, <2>1, <2>2, <2>4, AppendStep DEF AppendPrivate
<1>18. ASSUME WriteManifest PROVE StateInv'
  BY <1>18, ManifestStep DEF WriteManifest, TypeInv, Control
<1>19. ASSUME StepFails PROVE StateInv'
  BY <1>19, AbortPlace, QuietStep DEF StepFails, Committing
<1>20. ASSUME CrashIdle PROVE StateInv'
  BY <1>20, AbortPlace, QuietStep DEF CrashIdle, Abort, Committing
<1>21. ASSUME AppendTorn PROVE StateInv'
  <2>1. /\ PendingRuntime /\ Before(Pending) /\ pc # "down"
        /\ UNCHANGED <<log, manifest, outbox, journal>>
    BY <1>21 DEF AppendTorn, Appending, Before
  <2>2. pc' \in {"down", "idle"}
    BY <1>21, <2>1, AbortPlace DEF AppendTorn
  <2>3. tail' = "torn"
    BY <1>21 DEF AppendTorn, StateInv, TornInv, Committing
  <2>4. Pending' = Pending /\ PendingRuntime'
    BY <2>1 DEF Pending, PendingRuntime
  <2>5. QED
    BY <2>1, <2>2, <2>3, <2>4
       DEF StateInv, TornInv, LogInv, ManifestInv, SyncInv, JournalInv, Before, After,
           Committing, PendingRuntime
<1>22. ASSUME AppendUnsynced PROVE StateInv'
  <2>1. /\ PendingRuntime /\ Before(Pending) /\ pc # "down"
        /\ log' = log \o Pending.events /\ UNCHANGED <<manifest, outbox, journal>>
    BY <1>22 DEF AppendUnsynced, Appending, Before
  <2>2. pc' \in {"down", "idle"}
    BY <1>22, <2>1, AbortPlace DEF AppendUnsynced
  <2>3. tail' = "clean"
    BY <1>22 DEF AppendUnsynced, StateInv, TornInv, Committing
  <2>4. QED
    BY <2>1, <2>2, <2>3, AppendStep
<1>23. ASSUME ManifestUnsynced PROVE StateInv'
  <2>1. pc' = "down" \/ (pc' = "idle" /\ UNCHANGED persisted /\ pc \notin {"down", "load"})
    BY <1>23, AbortPlace DEF ManifestUnsynced
  <2>2. QED
    BY <1>23, <2>1, ManifestStep DEF ManifestUnsynced
<1>24. ASSUME OrdinalUnsynced PROVE StateInv'
  <2>1. pc' = "down" \/ (pc' = "idle" /\ UNCHANGED persisted /\ pc \notin {"down", "load"})
    BY <1>24, AbortPlace DEF OrdinalUnsynced
  <2>2. QED
    BY <1>24, <2>1
       DEF OrdinalUnsynced, StateInv, TornInv, LogInv, ManifestInv, SyncInv, JournalInv,
           PendingRuntime, Pending, Before, After, Committing
<1>25. ASSUME CreateUnsynced PROVE StateInv'
  BY <1>25, AbortPlace, CreateStep DEF CreateUnsynced
<1>26. ASSUME PublishUnsynced PROVE StateInv'
  BY <1>26, AbortPlace, PublishStep DEF PublishUnsynced
<1>27. ASSUME AcknowledgeUnsynced PROVE StateInv'
  BY <1>27, AbortPlace, AcknowledgeStep DEF AcknowledgeUnsynced
<1>28. CASE UNCHANGED vars
  BY <1>28 DEF vars, StateInv, TornInv, LogInv, ManifestInv, SyncInv, JournalInv,
               PendingRuntime, Pending, Before, After, Committing
<1>29. QED
  BY <1>1, <1>2, <1>3, <1>4, <1>5, <1>6, <1>7, <1>8, <1>9, <1>10, <1>11, <1>12, <1>13,
     <1>14, <1>15, <1>16, <1>17, <1>18, <1>19, <1>20, <1>21, <1>22, <1>23, <1>24, <1>25,
     <1>26, <1>27, <1>28
     DEF Next, Recovery, Pipeline, Clients, Faults

LEMMA Safety == Spec => [](TypeInv /\ StateInv)
BY TypeInit, TypeStep, SafetyInit, SafetyStep, PTL DEF Spec

(***************************************************************************)
(* A torn line of the private log belongs to the pending transaction and   *)
(* is truncated before anything is appended, for every number of requests, *)
(* batch sizes and faults and however mutations enter.                     *)
(***************************************************************************)
THEOREM TornTails == Spec => []TornTailIsCovered
<1>1. StateInv => TornTailIsCovered
  BY DEF StateInv, TornInv, TornTailIsCovered, Before
<1>2. QED
  BY Safety, <1>1, PTL

(***************************************************************************)
(* At most one transaction is ever pending, and recovery can replay it:    *)
(* neither the private log nor the public journal contradicts it.          *)
(***************************************************************************)
THEOREM Replay == Spec => []PendingIsReplayable
<1>1. ASSUME TypeInv, StateInv
      PROVE  PendingIsReplayable
  <2>1. Len(outbox) <= 1
    BY <1>1 DEF TypeInv, Control
  <2>2. ASSUME NEW i \in DOMAIN outbox
        PROVE  Replayable(outbox[i]) /\ ~Conflicting(outbox[i])
    <3>1. i = 1 /\ outbox # <<>> /\ outbox[i] = Pending
      BY <1>1, <2>1, <2>2 DEF TypeInv, TypeOK, DurableOK, Pending
    <3>2. Pending \in Transaction /\ DurableOK
      BY <1>1, <3>1, PendingType DEF TypeInv, TypeOK
    <3>3. CASE Pending.kind = "runtime"
      <4>1. Before(Pending) \/ After(Pending)
        BY <1>1, <3>1, <3>3 DEF StateInv, LogInv, PendingRuntime
      <4>2. Replayable(Pending)
        BY <3>2, <3>3, <4>1, AfterIsApplied DEF Before, Replayable
      <4>3. QED
        BY <1>1, <3>1, <3>2, <4>1, <4>2, NoConflict DEF StateInv
    <3>4. CASE Pending.kind # "runtime"
      <4>1. Replayable(Pending)
        BY <1>1, <3>1, <3>4 DEF StateInv, ManifestInv, Replayable
      <4>2. QED
        BY <1>1, <3>1, <3>2, <3>4, <4>1, NoConflict DEF StateInv
    <3>5. QED
      BY <3>3, <3>4
  <2>3. QED
    BY <2>1, <2>2 DEF PendingIsReplayable
<1>2. QED
  BY Safety, <1>1, PTL

LEMMA WriteAheadNext == TypeInv /\ StateInv /\ [Next]_vars => [WriteAheadStep]_vars
<1> SUFFICES ASSUME TypeInv, StateInv, Next
             PROVE  WriteAheadStep
  OBVIOUS
<1>1. ASSUME UNCHANGED <<log, manifest, outbox>>
      PROVE  WriteAheadStep
  <2>1. Len(outbox') = Len(outbox) /\ Len(outbox) \in Nat
    BY <1>1, LenProperties DEF TypeInv, TypeOK, DurableOK
  <2>2. QED
    BY <1>1, <2>1 DEF WriteAheadStep
<1>2. ASSUME Recovery
      PROVE  WriteAheadStep
  <2>1. CASE LoadRecover /\ PendingRuntime
    <3>1. /\ UNCHANGED <<manifest, outbox>>
          /\ log' = log \/ log' = log \o Pending.events
      BY <2>1 DEF LoadRecover, RollForward
    <3>2. ~(Len(outbox') > Len(outbox))
      BY <3>1, LenProperties DEF TypeInv, TypeOK, DurableOK
    <3>3. QED
      BY <2>1, <3>1, <3>2 DEF WriteAheadStep
  <2>2. CASE ~(LoadRecover /\ PendingRuntime)
    BY <1>1, <1>2, <2>2
       DEF Recovery, StartDriver, LoadRecover, LoadComplete, LoadSuspends, durable
  <2>3. QED
    BY <2>1, <2>2
<1>3. ASSUME MoveToLedger, outbox # <<>>, UNCHANGED <<log, manifest>>
      PROVE  WriteAheadStep
  <2>1. Len(outbox') = Len(outbox) - 1 /\ Len(outbox) \in Nat
    BY <1>3, PendingType, LenProperties DEF MoveToLedger, TypeInv, TypeOK, DurableOK
  <2>2. QED
    BY <1>3, <2>1 DEF WriteAheadStep
<1>4. ASSUME outbox = <<>>, UNCHANGED <<log, manifest>>
      PROVE  WriteAheadStep
  BY <1>4 DEF WriteAheadStep
<1>5. ASSUME UNCHANGED <<log, outbox>>, outbox # <<>>, Pending.kind = "manifest",
             manifest' = Pending.events[1]
      PROVE  WriteAheadStep
  <2>1. ~(Len(outbox') > Len(outbox))
    BY <1>5, LenProperties DEF TypeInv, TypeOK, DurableOK
  <2>2. QED
    BY <1>5, <2>1 DEF WriteAheadStep
<1>6. ASSUME UNCHANGED <<manifest, outbox>>, PendingRuntime,
             log' = log \/ log' = log \o Pending.events
      PROVE  WriteAheadStep
  <2>1. ~(Len(outbox') > Len(outbox))
    BY <1>6, LenProperties DEF TypeInv, TypeOK, DurableOK
  <2>2. QED
    BY <1>6, <2>1 DEF WriteAheadStep
<1>7. ASSUME Pipeline
      PROVE  WriteAheadStep
  <2>1. CASE ReconcilePrivate
    <3>1. CASE Pending.kind = "runtime"
      BY <1>6, <2>1, <3>1 DEF ReconcilePrivate, RollForward, PendingRuntime
    <3>2. CASE Pending.kind # "runtime"
      <4>1. Pending.kind = "manifest"
        BY <2>1, <3>2, PendingType
           DEF ReconcilePrivate, TypeInv, TypeOK, Transaction, Kinds
      <4>2. QED
        BY <1>5, <2>1, <3>2, <4>1 DEF ReconcilePrivate
    <3>3. QED
      BY <3>1, <3>2
  <2>2. CASE Acknowledge
    BY <1>3, <2>2 DEF Acknowledge, TypeInv, Control
  <2>3. CASE CreatePending
    BY <1>4, <2>3 DEF CreatePending, TypeInv, Control
  <2>4. CASE AppendPrivate
    BY <1>6, <2>4 DEF AppendPrivate, TypeInv, Control, PendingRuntime
  <2>5. CASE WriteManifest
    BY <1>5, <2>5 DEF WriteManifest, TypeInv, Control
  <2>6. CASE \/ ReconcileDone \/ PublishRecord \/ Published \/ Execute
             \/ CommitNothing \/ Preflight \/ TakeOrdinal
    BY <1>1, <2>6 DEF ReconcileDone, PublishRecord, Published, Execute, CommitNothing,
                      Preflight, TakeOrdinal, durable
  <2>7. QED
    BY <1>7, <2>1, <2>2, <2>3, <2>4, <2>5, <2>6 DEF Pipeline
<1>8. ASSUME Clients
      PROVE  WriteAheadStep
  BY <1>1, <1>8 DEF Clients, IssueIpc, IssueDirect, durable
<1>9. ASSUME Faults
      PROVE  WriteAheadStep
  <2>1. CASE StepFails \/ CrashIdle \/ AppendTorn \/ OrdinalUnsynced \/ PublishUnsynced
    BY <1>1, <2>1 DEF StepFails, CrashIdle, AppendTorn, OrdinalUnsynced, PublishUnsynced, durable
  <2>2. CASE AppendUnsynced
    BY <1>6, <2>2 DEF AppendUnsynced, Appending
  <2>3. CASE ManifestUnsynced
    BY <1>5, <2>3 DEF ManifestUnsynced
  <2>4. CASE CreateUnsynced
    BY <1>4, <2>4 DEF CreateUnsynced, TypeInv, Control
  <2>5. CASE AcknowledgeUnsynced
    BY <1>3, <2>5 DEF AcknowledgeUnsynced, TypeInv, Control
  <2>6. QED
    BY <1>9, <2>1, <2>2, <2>3, <2>4, <2>5 DEF Faults
<1>10. QED
  BY <1>2, <1>7, <1>8, <1>9 DEF Next

(***************************************************************************)
(* Nothing private changes but to what the one pending transaction says,   *)
(* at every step of every behaviour.                                       *)
(***************************************************************************)
THEOREM WritesAhead == Spec => WriteAhead
BY Safety, WriteAheadNext, PTL DEF Spec, WriteAhead

-----------------------------------------------------------------------------
(***************************************************************************)
(* Steps, by what they do to the log, the outbox, the ledger and the       *)
(* journal.                                                                *)
(***************************************************************************)
\* None of them changes.
Calm ==
    /\ UNCHANGED <<log, outbox, ledger, journal>>
    /\ ordinal' \in {ordinal, ordinal + 1}
    /\ pc' = "ack" => pc = "ack" \/ (pc = "publish" /\ Announced(Pending))
    /\ pc' = "create" => pc = "create" \/ ordinal' = ordinal + 1

\* The pending batch is appended to the log.
Grows ==
    /\ PendingRuntime /\ Before(Pending) /\ log' = log \o Pending.events
    /\ UNCHANGED <<outbox, ledger, journal, ordinal>>
    /\ pc' \notin {"ack", "create"}

\* A record of the pending transaction is published.
Publishes ==
    /\ pc = "publish" /\ PublishNext
    /\ UNCHANGED <<log, outbox, ledger, ordinal>>
    /\ pc' \notin {"ack", "create"}

\* The pending transaction goes into the ledger.
Settles ==
    /\ pc = "ack" /\ MoveToLedger
    /\ UNCHANGED <<log, journal, ordinal>>
    /\ pc' \notin {"ack", "create"}

\* A transaction is written ahead.
Creates ==
    /\ pc = "create" /\ outbox' = Append(outbox, Prepared)
    /\ UNCHANGED <<log, ledger, journal, ordinal>>
    /\ pc' \notin {"ack", "create"}

Kind == Calm \/ Grows \/ Publishes \/ Settles \/ Creates

LEMMA AbortKind ==
    ASSUME pc # "down", Abort
    PROVE  pc' \notin {"ack", "create"}
BY AbortPlace

LEMMA ReplyKind ==
    ASSUME NEW state, Reply(state)
    PROVE  pc' \notin {"ack", "create"}
BY ReplyPlace

LEMMA RollKind ==
    ASSUME PendingRuntime, RollForward(Pending),
           UNCHANGED <<outbox, ledger, journal, ordinal>>,
           pc' \in {"reconcile", "publish"}
    PROVE  Calm \/ Grows
<1>1. CASE Before(Pending)
  BY <1>1 DEF RollForward, Before, Grows
<1>2. CASE ~Before(Pending)
  BY <1>2 DEF RollForward, Before, Calm
<1>3. QED
  BY <1>1, <1>2

LEMMA StepKind ==
    ASSUME TypeInv, StateInv, [Next]_vars
    PROVE  Kind
<1>1. ASSUME UNCHANGED durable, pc' \notin {"ack", "create"}
      PROVE  Kind
  BY <1>1 DEF durable, Kind, Calm
<1>2. CASE Recovery
  <2>1. CASE LoadRecover /\ PendingRuntime
    BY <2>1, RollKind DEF LoadRecover, Kind
  <2>2. CASE ~(LoadRecover /\ PendingRuntime)
    <3>1. UNCHANGED <<log, outbox, ledger, journal, ordinal>>
          /\ pc' \notin {"ack", "create"}
      BY <1>2, <2>2 DEF Recovery, StartDriver, LoadRecover, LoadComplete,
                        LoadSuspends, durable, Release
    <3>2. QED
      BY <3>1 DEF Kind, Calm
  <2>3. QED
    BY <2>1, <2>2
<1>3. CASE Pipeline
  <2>1. CASE ReconcilePrivate
    <3>1. CASE Pending.kind = "runtime"
      BY <2>1, <3>1, RollKind DEF ReconcilePrivate, PendingRuntime, Kind
    <3>2. CASE Pending.kind # "runtime"
      BY <2>1, <3>2 DEF ReconcilePrivate, Kind, Calm
    <3>3. QED
      BY <3>1, <3>2
  <2>2. CASE PublishRecord
    BY <2>2 DEF PublishRecord, operation, Kind, Publishes
  <2>3. CASE Published
    BY <2>3 DEF Published, durable, Kind, Calm
  <2>4. CASE Acknowledge
    <3>1. pc' \notin {"ack", "create"}
      <4>1. CASE ret = "none"
        BY <2>4, <4>1, ReplyKind DEF Acknowledge
      <4>2. CASE ret # "none"
        BY <2>4, <4>2 DEF Acknowledge
      <4>3. QED
        BY <4>1, <4>2
    <3>2. QED
      BY <2>4, <3>1 DEF Acknowledge, Kind, Settles
  <2>5. CASE TakeOrdinal
    BY <2>5 DEF TakeOrdinal, Kind, Calm
  <2>6. CASE CreatePending
    BY <2>6 DEF CreatePending, Kind, Creates
  <2>7. CASE AppendPrivate
    <3>1. PendingRuntime /\ Before(Pending)
      BY <2>7 DEF AppendPrivate, TypeInv, Control, PendingRuntime, StateInv,
                  LogInv
    <3>2. QED
      BY <2>7, <3>1 DEF AppendPrivate, Kind, Grows
  <2>8. CASE WriteManifest
    BY <2>8 DEF WriteManifest, Kind, Calm
  <2>9. CASE ReconcileDone \/ Execute \/ Preflight
    BY <1>1, <2>9 DEF ReconcileDone, Execute, Preflight
  <2>10. CASE CommitNothing
    BY <1>1, <2>10, ReplyKind DEF CommitNothing
  <2>11. QED
    BY <1>3, <2>1, <2>2, <2>3, <2>4, <2>5, <2>6, <2>7, <2>8, <2>9, <2>10
    DEF Pipeline
<1>4. CASE Clients
  BY <1>1, <1>4 DEF Clients, IssueIpc, IssueDirect
<1>5. CASE Faults
  <2>1. CASE StepFails
    BY <1>1, <2>1, AbortKind DEF StepFails
  <2>2. CASE CrashIdle
    BY <1>1, <2>2, AbortKind DEF CrashIdle, Abort
  <2>3. CASE AppendTorn
    BY <2>3, AbortKind DEF AppendTorn, Appending, Kind, Calm
  <2>4. CASE AppendUnsynced
    BY <2>4, AbortKind DEF AppendUnsynced, Appending, Kind, Grows, Before
  <2>5. CASE ManifestUnsynced
    BY <2>5, AbortKind DEF ManifestUnsynced, Kind, Calm
  <2>6. CASE OrdinalUnsynced
    BY <2>6, AbortKind DEF OrdinalUnsynced, Kind, Calm
  <2>7. CASE CreateUnsynced
    BY <2>7, AbortKind DEF CreateUnsynced, Kind, Creates
  <2>8. CASE PublishUnsynced
    BY <2>8, AbortKind DEF PublishUnsynced, Kind, Publishes
  <2>9. CASE AcknowledgeUnsynced
    BY <2>9, AbortKind DEF AcknowledgeUnsynced, Kind, Settles
  <2>10. QED
    BY <1>5, <2>1, <2>2, <2>3, <2>4, <2>5, <2>6, <2>7, <2>8, <2>9 DEF Faults
<1>6. CASE UNCHANGED vars
  BY <1>6 DEF vars, Kind, Calm
<1>7. QED
  BY <1>2, <1>3, <1>4, <1>5, <1>6 DEF Next

-----------------------------------------------------------------------------
(***************************************************************************)
(* The public journal tells the log.                                       *)
(***************************************************************************)
LEMMA TellsFinite ==
    ASSUME journal \in Seq(Record)
    PROVE  /\ Tells \subseteq 1..Len(journal) /\ IsFiniteSet(Tells)
           /\ Told \in Nat
           /\ \A i : Rank(i) \in Nat /\ Rank(i) <= Told
<1>1. DOMAIN journal = 1..Len(journal) /\ Len(journal) \in Nat
  BY LenProperties
<1>2. IsFiniteSet(1..Len(journal))
  BY <1>1, FS_Interval
<1>3. Tells \subseteq 1..Len(journal)
  BY <1>1 DEF Tells
<1>4. IsFiniteSet(Tells)
  BY <1>2, <1>3, FS_Subset
<1>5. Told \in Nat
  BY <1>4, FS_CardinalityType DEF Told
<1>6. ASSUME NEW i
      PROVE  Rank(i) \in Nat /\ Rank(i) <= Told
  <2> DEFINE S == {h \in Tells : h <= i}
  <2>1. S \subseteq Tells
    OBVIOUS
  <2>2. IsFiniteSet(S) /\ Cardinality(S) <= Cardinality(Tells)
    BY <1>4, <2>1, FS_Subset
  <2>3. Cardinality(S) \in Nat
    BY <2>2, FS_CardinalityType
  <2>4. QED
    BY <2>2, <2>3 DEF Rank, Told
<1>7. QED
  BY <1>3, <1>4, <1>5, <1>6

LEMMA Appended ==
    ASSUME journal \in Seq(Record), NEW r \in Record,
           journal' = Append(journal, r)
    PROVE  /\ Len(journal) \in Nat /\ DOMAIN journal = 1..Len(journal)
           /\ DOMAIN journal' = 1..(Len(journal) + 1)
           /\ journal'[Len(journal) + 1] = r
           /\ \A i \in DOMAIN journal : /\ i \in DOMAIN journal'
                                        /\ journal'[i] = journal[i]
<1>1. /\ Len(journal) \in Nat /\ DOMAIN journal = 1..Len(journal)
      /\ Len(journal') = Len(journal) + 1 /\ journal' \in Seq(Record)
      /\ \A i \in 1..Len(journal) : journal'[i] = journal[i]
      /\ journal'[Len(journal) + 1] = r
  BY AppendProperties, LenProperties
<1>2. DOMAIN journal' = 1..(Len(journal) + 1)
  BY <1>1, LenProperties
<1>3. \A i \in 1..Len(journal) : i \in 1..(Len(journal) + 1)
  BY <1>1
<1>4. QED
  BY <1>1, <1>2, <1>3

\* A record of the manifest does not change what is told of the log.
LEMMA ToldNothing ==
    ASSUME journal \in Seq(Record), NEW r \in Record, r.kind # "runtime",
           journal' = Append(journal, r)
    PROVE  /\ Tells' = Tells /\ Told' = Told
           /\ \A i : Rank(i)' = Rank(i)
<1>1. Tells' = Tells
  <2>1. \A i \in 1..(Len(journal) + 1) :
           i \in 1..Len(journal) \/ i = Len(journal) + 1
    BY Appended
  <2>2. QED
    BY <2>1, Appended DEF Tells
<1>2. QED
  BY <1>1 DEF Told, Rank

\* A record of an event is told after all others.
LEMMA ToldOne ==
    ASSUME journal \in Seq(Record), NEW r \in Record, r.kind = "runtime",
           journal' = Append(journal, r), NEW n, n = Len(journal) + 1
    PROVE  /\ Tells' = Tells \cup {n}
           /\ Told' = Told + 1
           /\ Rank(n)' = Told + 1
           /\ \A i \in Tells : Rank(i)' = Rank(i)
<1>1. n \in Nat /\ Tells \subseteq 1..Len(journal) /\ n \notin Tells
      /\ Len(journal) \in Nat
  BY TellsFinite, LenProperties
<1>2. Tells' = Tells \cup {n}
  <2>1. \A i \in 1..n : i \in 1..Len(journal) \/ i = n
    BY <1>1
  <2>2. n \in DOMAIN journal'
    BY <1>1, Appended
  <2>3. QED
    BY <2>1, <2>2, Appended DEF Tells
<1>3. IsFiniteSet(Tells) /\ Cardinality(Tells \cup {n}) = Cardinality(Tells) + 1
  BY <1>1, TellsFinite, FS_AddElement
<1>4. Told' = Told + 1
  BY <1>2, <1>3 DEF Told
<1>5. {h \in Tells \cup {n} : h <= n} = Tells \cup {n}
  <2>1. \A h \in Tells \cup {n} : h <= n
    BY <1>1
  <2>2. QED
    BY <2>1
<1>6. Rank(n)' = Told + 1
  <2>1. Rank(n)' = Cardinality({h \in Tells' : h <= n})
    BY DEF Rank
  <2>2. QED
    BY <1>2, <1>3, <1>5, <2>1 DEF Told
<1>7. ASSUME NEW i \in Tells
      PROVE  Rank(i)' = Rank(i)
  <2>1. {h \in Tells \cup {n} : h <= i} = {h \in Tells : h <= i}
    BY <1>1
  <2>2. QED
    BY <1>2, <2>1 DEF Rank
<1>8. QED
  BY <1>2, <1>4, <1>6, <1>7

\* The records of the log are numbered as they come, and none is left out.
Keyed ==
    /\ \A i \in Tells : journal[i].key = Rank(i)
    /\ \A k \in 1..Told : \E i \in Tells : journal[i].key = k
TellInv ==
    /\ Keyed
    /\ Told \in Settled..Len(log)
    /\ PendingRuntime /\ pc = "ack" => Told = Len(log)

LEMMA PendingFacts ==
    ASSUME TypeInv, StateInv, outbox # <<>>
    PROVE  /\ Pending \in Transaction /\ Len(log) \in Nat
           /\ Pending.base \in Nat /\ Len(Pending.events) \in Nat
           /\ Len(Pending.events) > 0 /\ Pending.events \in Seq(Nat)
           /\ outbox = <<Pending>>
           /\ PendingRuntime => Before(Pending) \/ After(Pending)
           /\ PendingRuntime /\ pc \in {"publish", "ack"} => After(Pending)
<1>1. Pending \in Transaction /\ Len(log) \in Nat
  BY PendingType, LenProperties DEF TypeInv, TypeOK, DurableOK
<1>2. outbox = <<Pending>>
  <2>1. outbox \in Seq(Transaction) /\ Len(outbox) <= 1
    BY DEF TypeInv, TypeOK, DurableOK, Control
  <2>2. Len(outbox) \in Nat /\ Len(outbox) # 0
    BY <2>1, EmptySeq, LenProperties
  <2>3. Len(outbox) = 1
    <3>1. \A n \in Nat : n <= 1 /\ n # 0 => n = 1
      OBVIOUS
    <3>2. QED
      BY ONLY <2>1, <2>2, <3>1, Zenon
  <2>4. outbox = <<outbox[1]>>
    BY <2>1, <2>3
  <2>5. outbox[1] = Pending
    BY <2>1, <2>3, HeadTailProperties DEF Pending
  <2>6. QED
    BY <2>4, <2>5
<1>3. QED
  BY <1>1, <1>2, EventsType DEF StateInv, LogInv

LEMMA SettleFacts ==
    ASSUME TypeInv, StateInv, Settles
    PROVE  /\ outbox # <<>> /\ outbox' = <<>> /\ ~PendingRuntime'
           /\ ledger' = Append(ledger, Pending)
           /\ Settled' = Len(log)
           /\ Settled = IF PendingRuntime THEN Pending.base ELSE Len(log)
           /\ PendingRuntime => After(Pending)
<1>1. outbox # <<>>
  BY DEF Settles, TypeInv, Control
<1>2. outbox' = <<>>
  <2>1. /\ outbox' \in Seq(Transaction) /\ Len(outbox') = Len(outbox) - 1
    BY <1>1, PendingType DEF TypeInv, TypeOK, Settles, MoveToLedger
  <2>2. Len(outbox') = 0
    BY <2>1, LenProperties DEF TypeInv, TypeOK, DurableOK, Control
  <2>3. QED
    BY <2>1, <2>2, EmptySeq
<1>3. QED
  BY <1>1, <1>2, PendingFacts
  DEF Settles, MoveToLedger, PendingRuntime, Settled

LEMMA CreateFacts ==
    ASSUME TypeInv, StateInv, Creates
    PROVE  /\ outbox = <<>> /\ Prepared \in Transaction
           /\ outbox' = <<Prepared>> /\ Pending' = Prepared
           /\ PendingRuntime' <=> Prepared.kind = "runtime"
           /\ Prepared.kind = "runtime" => Prepared.base = Len(log)
           /\ Prepared.kind = Current.kind /\ Prepared.ordinal = ordinal
           /\ persisted = Len(log)
           /\ Settled = Len(log) /\ Settled' = Len(log) /\ ~PendingRuntime
<1>1. outbox = <<>> /\ ~PendingRuntime /\ issued # <<>> /\ ~NothingToCommit
  BY DEF Creates, TypeInv, Control, PendingRuntime
<1>2. Prepared \in Transaction
  BY <1>1, PreparedType DEF TypeInv
<1>3. outbox' = <<Prepared>>
  BY <1>1, <1>2 DEF Creates
<1>4. Pending' = Prepared /\ outbox' # <<>>
  BY <1>2, <1>3 DEF Pending
<1>5. persisted = Len(log)
  BY <1>1 DEF Creates, StateInv, SyncInv
<1>6. Prepared.ordinal = ordinal /\ Prepared.kind = Current.kind
  <2>1. Current \in Request
    BY <1>1, CurrentType DEF TypeInv, TypeOK
  <2>2. QED
    BY <2>1 DEF Prepared, Request, Kinds
<1>7. Prepared.kind = "runtime" => Prepared.base = Len(log)
  BY <1>5 DEF Prepared
<1>8. PendingRuntime' <=> Prepared.kind = "runtime"
  BY <1>4 DEF PendingRuntime
<1>9. Settled = Len(log) /\ Settled' = Len(log)
  BY <1>1, <1>4, <1>7, <1>8 DEF Settled, Creates
<1>10. QED
  BY <1>1, <1>2, <1>3, <1>4, <1>5, <1>6, <1>7, <1>8, <1>9

LEMMA RuntimeRecords ==
    ASSUME NEW t \in Transaction, t.kind = "runtime"
    PROVE  /\ DOMAIN Records(t) = 1..Len(t.events)
           /\ \A i \in 1..Len(t.events) :
                 Records(t)[i] = [kind |-> "runtime", key |-> t.base + i,
                                  by |-> t.events[i]]
BY DEF Records

\* The journal tells of the k-th event exactly if it tells of k.
LEMMA KeyTold ==
    ASSUME journal \in Seq(Record), Keyed, NEW k \in Nat, k > 0
    PROVE  (\E i \in Tells : journal[i].key = k) <=> k <= Told
<1>1. Told \in Nat /\ \A i : Rank(i) <= Told
  BY TellsFinite
<1>2. ASSUME NEW i \in Tells, journal[i].key = k
      PROVE  k <= Told
  BY <1>1, <1>2 DEF Keyed
<1>3. ASSUME k <= Told
      PROVE  \E i \in Tells : journal[i].key = k
  BY <1>1, <1>3 DEF Keyed
<1>4. QED
  BY <1>2, <1>3

LEMMA InJournalTold ==
    ASSUME TypeInv, Keyed, NEW t \in Transaction, t.kind = "runtime",
           NEW i \in 1..Len(t.events)
    PROVE  InJournal(Records(t)[i]) <=> t.base + i <= Told
<1>1. journal \in Seq(Record)
  BY DEF TypeInv, TypeOK, DurableOK
<1>2. Records(t)[i].kind = "runtime" /\ Records(t)[i].key = t.base + i
  <2>1. Records(t)[i] = [kind |-> "runtime", key |-> t.base + i,
                         by |-> t.events[i]]
    BY RuntimeRecords
  <2>2. QED
    BY <2>1
<1>3. t.base + i \in Nat /\ t.base + i > 0
  BY EventsType
<1>4. InJournal(Records(t)[i]) <=> \E h \in Tells : journal[h].key = t.base + i
  BY <1>2 DEF InJournal, SameIdentity, Tells
<1>5. QED
  BY <1>1, <1>3, <1>4, KeyTold

LEMMA AnnouncedAll ==
    ASSUME TypeInv, StateInv, TellInv, PendingRuntime, After(Pending),
           Announced(Pending)
    PROVE  Told = Len(log)
<1>1. outbox # <<>> /\ Pending.kind = "runtime"
  BY DEF PendingRuntime
<1>2. /\ Pending \in Transaction /\ Len(Pending.events) \in Nat
      /\ Len(Pending.events) > 0 /\ Pending.base \in Nat
  BY <1>1, PendingFacts
<1>3. Len(Pending.events) \in 1..Len(Pending.events)
  BY <1>2
<1>4. InJournal(Records(Pending)[Len(Pending.events)])
  BY <1>1, <1>2, <1>3, RuntimeRecords DEF Announced
<1>5. Pending.base + Len(Pending.events) <= Told
  BY <1>1, <1>2, <1>3, <1>4, InJournalTold DEF TellInv
<1>6. Len(log) <= Told /\ Told \in Settled..Len(log)
  BY <1>5 DEF After, TellInv
<1>7. Len(log) \in Nat /\ Settled \in Nat
  BY <1>1, <1>2, PendingFacts DEF Settled, PendingRuntime
<1>8. QED
  BY <1>6, <1>7

\* The journal is unchanged, and so is what it tells.
LEMMA SameJournal ==
    ASSUME UNCHANGED journal
    PROVE  /\ Tells' = Tells /\ Told' = Told
           /\ \A i : Rank(i)' = Rank(i)
           /\ Keyed' <=> Keyed
           /\ \A r : InJournal(r) => InJournal(r)'
<1>1. Tells' = Tells
  BY DEF Tells
<1>2. Told' = Told /\ \A i : Rank(i)' = Rank(i)
  BY <1>1 DEF Told, Rank
<1>3. Keyed' <=> Keyed
  BY <1>1, <1>2 DEF Keyed
<1>4. QED
  BY <1>1, <1>2, <1>3 DEF InJournal

\* The record that is published is the next of the log.
LEMMA PublishFacts ==
    ASSUME TypeInv, StateInv, Keyed, Settled <= Told, PublishNext, pc = "publish",
           PendingRuntime
    PROVE  \E r \in Record :
              /\ journal' = Append(journal, r)
              /\ r.kind = "runtime" /\ r.key = Told + 1 /\ Told + 1 <= Len(log)
<1>1. outbox # <<>> /\ Pending.kind = "runtime"
  BY DEF PendingRuntime
<1>2. /\ Pending \in Transaction /\ Len(Pending.events) \in Nat
      /\ Pending.base \in Nat /\ After(Pending) /\ Len(log) \in Nat
  BY <1>1, PendingFacts
<1>3. PICK i \in DOMAIN Records(Pending) :
         /\ IsNextRecord(i, Pending)
         /\ journal' = Append(journal, Records(Pending)[i])
  BY DEF PublishNext
<1>4. i \in 1..Len(Pending.events)
  BY <1>1, <1>2, <1>3, RuntimeRecords
<1>5. journal \in Seq(Record) /\ Told \in Nat
  BY TellsFinite DEF TypeInv, TypeOK, DurableOK
<1>6. Pending.base + i > Told
  BY <1>1, <1>2, <1>3, <1>4, <1>5, InJournalTold DEF IsNextRecord
<1>7. Pending.base + i <= Told + 1
  <2>1. CASE i = 1
    BY <1>1, <1>2, <1>5, <2>1 DEF Settled
  <2>2. CASE i > 1
    <3>1. i - 1 \in 1..i - 1 /\ i - 1 \in 1..Len(Pending.events)
      BY <1>2, <1>4, <2>2
    <3>2. InJournal(Records(Pending)[i - 1])
      BY <1>3, <3>1 DEF IsNextRecord
    <3>3. Pending.base + (i - 1) <= Told
      BY <1>1, <1>2, <3>1, <3>2, InJournalTold
    <3>4. QED
      BY <1>2, <1>4, <1>5, <3>3
  <2>3. QED
    BY <1>4, <2>1, <2>2
<1>8. Pending.base + i = Told + 1 /\ Pending.base + i <= Len(log)
  <2>1. Len(log) = Pending.base + Len(Pending.events)
    BY <1>2 DEF After
  <2>2. i \in Nat /\ i <= Len(Pending.events)
    BY <1>2, <1>4
  <2>3. QED
    BY <1>2, <1>5, <1>6, <1>7, <2>1, <2>2
<1>9. Records(Pending)[i] = [kind |-> "runtime", key |-> Pending.base + i,
                             by |-> Pending.events[i]]
  BY <1>1, <1>2, <1>4, RuntimeRecords
<1>10. Records(Pending)[i] \in Record
  BY <1>2, <1>3, RecordsType
<1>11. Records(Pending)[i].kind = "runtime"
       /\ Records(Pending)[i].key = Pending.base + i
  BY <1>9
<1>12. QED
  BY <1>3, <1>8, <1>10, <1>11

LEMMA PublishManifest ==
    ASSUME TypeInv, PublishNext, pc = "publish", ~PendingRuntime
    PROVE  \E r \in Record : /\ journal' = Append(journal, r)
                             /\ r.kind # "runtime"
<1>1. outbox # <<>> /\ Pending.kind # "runtime"
  BY DEF TypeInv, Control, PendingRuntime
<1>2. Pending \in Transaction
  BY <1>1, PendingType DEF TypeInv, TypeOK
<1>3. PICK i \in DOMAIN Records(Pending) :
         journal' = Append(journal, Records(Pending)[i])
  BY DEF PublishNext
<1>4. Records(Pending)[i] \in Record
  BY <1>2, <1>3, RecordsType
<1>5. Records(Pending)[i] = [kind |-> "manifest", key |-> Pending.events[1],
                             by |-> Pending.events[1]]
  BY <1>1, <1>3 DEF Records
<1>6. Records(Pending)[i].kind # "runtime"
  BY <1>5
<1>7. QED
  BY <1>3, <1>4, <1>6

LEMMA KeyedPublish ==
    ASSUME journal \in Seq(Record), Keyed, NEW r \in Record,
           r.kind = "runtime", r.key = Told + 1,
           journal' = Append(journal, r)
    PROVE  Keyed'
<1>0. PICK n : n = Len(journal) + 1
  OBVIOUS
<1>1. /\ Tells' = Tells \cup {n} /\ Told' = Told + 1 /\ Rank(n)' = Told + 1
      /\ \A i \in Tells : Rank(i)' = Rank(i)
  BY <1>0, ToldOne
<1>2. journal'[n] = r /\ \A i \in Tells : journal'[i] = journal[i]
  BY <1>0, Appended DEF Tells
<1>3. ASSUME NEW i \in Tells'
      PROVE  journal'[i].key = Rank(i)'
  <2>1. CASE i \in Tells
    BY <1>1, <1>2, <2>1 DEF Keyed
  <2>2. CASE i = n
    BY <1>1, <1>2, <2>2
  <2>3. QED
    BY <1>1, <2>1, <2>2
<1>4. ASSUME NEW k \in 1..Told'
      PROVE  \E i \in Tells' : journal'[i].key = k
  <2>1. Told \in Nat
    BY TellsFinite
  <2>2. k \in 1..Told \/ k = Told + 1
    BY <1>1, <2>1
  <2>3. CASE k \in 1..Told
    BY <1>1, <1>2, <2>3 DEF Keyed
  <2>4. CASE k = Told + 1
    BY <1>1, <1>2, <2>4
  <2>5. QED
    BY <2>2, <2>3, <2>4
<1>5. QED
  BY <1>3, <1>4 DEF Keyed

LEMMA KeyedManifest ==
    ASSUME journal \in Seq(Record), Keyed, NEW r \in Record,
           r.kind # "runtime", journal' = Append(journal, r)
    PROVE  Keyed' /\ Told' = Told
<1>1. /\ Tells' = Tells /\ Told' = Told
      /\ \A i : Rank(i)' = Rank(i)
  BY ToldNothing
<1>2. \A i \in Tells : journal'[i] = journal[i]
  BY Appended DEF Tells
<1>3. QED
  BY <1>1, <1>2 DEF Keyed

LEMMA TellStep ==
    ASSUME TypeInv, StateInv, TellInv, Kind
    PROVE  TellInv'
<1>1. /\ journal \in Seq(Record) /\ Len(log) \in Nat /\ Told \in Nat
      /\ Settled \in Nat /\ Settled <= Told /\ Told <= Len(log) /\ Keyed
  <2>1. journal \in Seq(Record) /\ Len(log) \in Nat
    BY LenProperties DEF TypeInv, TypeOK, DurableOK
  <2>2. Told \in Nat
    BY <2>1, TellsFinite
  <2>3. Settled \in Nat
    BY <2>1, PendingFacts DEF Settled, PendingRuntime
  <2>4. QED
    BY <2>1, <2>2, <2>3 DEF TellInv
<1>2. CASE Calm
  <2>1. Keyed' /\ Told' = Told
    BY <1>1, <1>2, SameJournal DEF Calm
  <2>2. /\ UNCHANGED <<log, outbox>> /\ Pending' = Pending
        /\ PendingRuntime' = PendingRuntime /\ Settled' = Settled
    BY <1>2 DEF Calm, Pending, PendingRuntime, Settled
  <2>3. ASSUME PendingRuntime, pc' = "ack"
        PROVE  Told = Len(log)
    <3>1. CASE pc = "ack"
      BY <2>3, <3>1 DEF TellInv
    <3>2. CASE pc = "publish" /\ Announced(Pending)
      BY <2>3, <3>2, AnnouncedAll DEF StateInv, LogInv
    <3>3. QED
      BY <1>2, <2>3, <3>1, <3>2 DEF Calm
  <2>4. QED
    BY <1>1, <2>1, <2>2, <2>3 DEF TellInv
<1>3. CASE Grows
  <2>1. Keyed' /\ Told' = Told
    BY <1>1, <1>3, SameJournal DEF Grows
  <2>2. /\ PendingRuntime /\ Pending' = Pending /\ PendingRuntime'
        /\ Settled' = Settled /\ pc' # "ack"
    BY <1>3 DEF Grows, Pending, PendingRuntime, Settled
  <2>3. /\ Pending \in Transaction /\ Len(Pending.events) \in Nat
        /\ Pending.base = Len(log)
    BY <1>3, <2>2, PendingFacts DEF Grows, Before, PendingRuntime
  <2>4. Len(log') = Len(log) + Len(Pending.events)
    BY <1>3, <2>3, AppendFacts DEF Grows, TypeInv, TypeOK
  <2>5. QED
    BY <1>1, <2>1, <2>2, <2>3, <2>4 DEF TellInv
<1>4. CASE Publishes
  <2>1. /\ UNCHANGED <<log, outbox>> /\ Pending' = Pending
        /\ PendingRuntime' = PendingRuntime /\ Settled' = Settled /\ pc' # "ack"
    BY <1>4 DEF Publishes, Pending, PendingRuntime, Settled
  <2>2. CASE PendingRuntime
    <3>1. PICK r \in Record :
             /\ journal' = Append(journal, r)
             /\ r.kind = "runtime" /\ r.key = Told + 1 /\ Told + 1 <= Len(log)
      BY <1>1, <1>4, <2>2, PublishFacts DEF Publishes
    <3>2. Keyed'
      BY <1>1, <3>1, KeyedPublish
    <3>3. \A n : n = Len(journal) + 1 => Told' = Told + 1
      BY <1>1, <3>1, ToldOne
    <3>4. Told' = Told + 1
      BY <3>3
    <3>5. QED
      BY <1>1, <2>1, <3>1, <3>2, <3>4 DEF TellInv
  <2>3. CASE ~PendingRuntime
    <3>1. PICK r \in Record :
             journal' = Append(journal, r) /\ r.kind # "runtime"
      BY <1>4, <2>3, PublishManifest DEF Publishes
    <3>2. Keyed' /\ Told' = Told
      BY <1>1, <3>1, KeyedManifest
    <3>3. QED
      BY <1>1, <2>1, <3>2 DEF TellInv
  <2>4. QED
    BY <2>2, <2>3
<1>5. CASE Settles
  <2>1. Keyed' /\ Told' = Told /\ log' = log
    BY <1>1, <1>5, SameJournal DEF Settles
  <2>2. ~PendingRuntime' /\ Settled' = Len(log)
        /\ Settled = IF PendingRuntime THEN Pending.base ELSE Len(log)
    BY <1>5, SettleFacts
  <2>3. Told = Len(log)
    BY <1>1, <1>5, <2>2 DEF TellInv, Settles
  <2>4. QED
    BY <1>1, <2>1, <2>2, <2>3 DEF TellInv
<1>6. CASE Creates
  <2>1. Keyed' /\ Told' = Told /\ log' = log /\ pc' # "ack"
    BY <1>1, <1>6, SameJournal DEF Creates
  <2>2. Settled = Len(log) /\ Settled' = Len(log)
    BY <1>6, CreateFacts
  <2>3. QED
    BY <1>1, <2>1, <2>2 DEF TellInv
<1>7. QED
  BY <1>2, <1>3, <1>4, <1>5, <1>6 DEF Kind

LEMMA TellInit == Init => TellInv
<1> SUFFICES ASSUME Init
             PROVE  TellInv
  OBVIOUS
<1>1. Tells = {}
  BY DEF Init, Tells
<1>2. Told = 0
  BY <1>1, FS_EmptySet DEF Told
<1>3. Settled = 0 /\ Len(log) = 0 /\ ~PendingRuntime
  BY DEF Init, Settled, PendingRuntime
<1>4. QED
  BY <1>1, <1>2, <1>3 DEF TellInv, Keyed

LEMMA Telling == Spec => []TellInv
<1>1. TypeInv /\ StateInv /\ TellInv /\ [Next]_vars => TellInv'
  BY StepKind, TellStep
<1>2. QED
  BY Safety, TellInit, <1>1, PTL DEF Spec

(***************************************************************************)
(* The public journal tells the private log, in its order and without gaps *)
(* or repetitions, and all of it when nothing is pending: for every number *)
(* of requests, batch sizes and faults and however mutations enter.        *)
(***************************************************************************)
THEOREM JournalTells == Spec => []JournalTellsLog
<1>1. ASSUME TypeInv, StateInv, TellInv
      PROVE  JournalTellsLog
  <2>1. ASSUME NEW i \in Tells
        PROVE  journal[i].key = Rank(i) /\ journal[i].by = log[Rank(i)]
    <3>1. journal[i].key = Rank(i)
      BY <1>1, <2>1 DEF TellInv, Keyed
    <3>2. journal[i].by = log[journal[i].key]
      BY <1>1, <2>1 DEF StateInv, JournalInv, Tells
    <3>3. QED
      BY <3>1, <3>2
  <2>2. QED
    BY <1>1, <2>1 DEF JournalTellsLog, TellInv
<1>2. QED
  BY Safety, Telling, <1>1, PTL

-----------------------------------------------------------------------------
(***************************************************************************)
(* The ledger is the history of the run.                                   *)
(***************************************************************************)
Covered == \A i \in Batches : Holds(ledger[i]) /\ Ends(ledger[i]) <= Settled
Ordered == \A i, j \in Batches : i < j => Ends(ledger[i]) <= ledger[j].base
Gapless == \A k \in 1..Settled : \E i \in Batches :
    k \in ledger[i].base + 1..Ends(ledger[i])
Public == /\ \A i \in DOMAIN ledger : Announced(ledger[i])
          /\ pc = "ack" => Announced(Pending)
LedgerInv == Covered /\ Ordered /\ Gapless /\ Public

\* Whatever a step does, the log keeps its events and the journal its records.
LEMMA KindKeeps ==
    ASSUME TypeInv, StateInv, Kind
    PROVE  /\ Len(log) \in Nat /\ Len(log') \in Nat /\ Len(log) <= Len(log')
           /\ \A k \in 1..Len(log) : log'[k] = log[k]
           /\ \A r : InJournal(r) => InJournal(r)'
<1>1. Len(log) \in Nat
  BY LenProperties DEF TypeInv, TypeOK, DurableOK
<1>2. /\ Len(log') \in Nat /\ Len(log) <= Len(log')
      /\ \A k \in 1..Len(log) : log'[k] = log[k]
  <2>1. CASE UNCHANGED log
    BY <1>1, <2>1
  <2>2. CASE Grows
    <3>1. /\ Pending \in Transaction /\ Len(Pending.events) \in Nat
          /\ Pending.base = Len(log)
      BY <2>2, PendingFacts DEF Grows, Before, PendingRuntime
    <3>2. /\ Len(log') = Len(log) + Len(Pending.events)
          /\ \A k \in 1..Len(log) : log'[k] = log[k]
      BY <2>2, <3>1, AppendFacts DEF Grows, TypeInv, TypeOK
    <3>3. QED
      BY <1>1, <3>1, <3>2
  <2>3. QED
    BY <2>1, <2>2 DEF Kind, Calm, Publishes, Settles, Creates
<1>3. \A r : InJournal(r) => InJournal(r)'
  <2>1. CASE UNCHANGED journal
    BY <2>1, SameJournal
  <2>2. CASE Publishes
    <3>1. outbox # <<>> /\ journal \in Seq(Record)
      BY <2>2 DEF Publishes, TypeInv, Control, TypeOK, DurableOK
    <3>2. PICK i \in DOMAIN Records(Pending) :
             journal' = Append(journal, Records(Pending)[i])
      BY <2>2 DEF Publishes, PublishNext
    <3>3. Records(Pending)[i] \in Record
      BY <3>1, <3>2, PendingFacts, RecordsType
    <3>4. \A h \in DOMAIN journal : h \in DOMAIN journal' /\ journal'[h] = journal[h]
      BY <3>1, <3>2, <3>3, Appended
    <3>5. QED
      BY <3>4 DEF InJournal
  <2>3. QED
    BY <2>1, <2>2 DEF Kind, Calm, Grows, Settles, Creates
<1>4. QED
  BY <1>1, <1>2, <1>3

LEMMA HoldsKept ==
    ASSUME TypeInv, StateInv, Kind, NEW t \in Transaction, Holds(t)
    PROVE  Holds(t)'
<1>1. /\ t.base \in Nat /\ Len(t.events) \in Nat
      /\ Ends(t) = t.base + Len(t.events) /\ Ends(t) <= Len(log)
  BY EventsType DEF Holds, Ends
<1>2. /\ Len(log) \in Nat /\ Len(log') \in Nat /\ Len(log) <= Len(log')
      /\ \A k \in 1..Len(log) : log'[k] = log[k]
  BY KindKeeps
<1>3. ASSUME NEW m \in 1..Len(t.events)
      PROVE  log'[t.base + m] = t.events[m]
  <2>1. t.base + m \in 1..Len(log)
    BY <1>1, <1>2
  <2>2. QED
    BY <1>2, <2>1 DEF Holds
<1>4. Ends(t) <= Len(log')
  BY <1>1, <1>2
<1>5. QED
  BY <1>3, <1>4 DEF Holds

LEMMA AnnouncedKept ==
    ASSUME TypeInv, StateInv, Kind, NEW t, Announced(t)
    PROVE  Announced(t)'
<1>1. Records(t)' = Records(t)
  BY DEF Records
<1>2. QED
  BY <1>1, KindKeeps DEF Announced

LEMMA LedgerSame ==
    ASSUME TypeInv, StateInv, LedgerInv, Kind, UNCHANGED ledger
    PROVE  LedgerInv'
<1>1. Batches' = Batches /\ \A i \in DOMAIN ledger : ledger[i] \in Transaction
  BY ElementOfSeq, LenProperties DEF Batches, TypeInv, TypeOK, DurableOK
<1>2. ~Settles
  <2>1. ASSUME Settles
        PROVE  FALSE
    <3>1. ledger' = Append(ledger, Pending) /\ outbox # <<>>
      BY <2>1, SettleFacts
    <3>2. ledger \in Seq(Transaction) /\ Pending \in Transaction
      BY <3>1, PendingFacts DEF TypeInv, TypeOK, DurableOK
    <3>3. Len(ledger') = Len(ledger) + 1 /\ Len(ledger) \in Nat
      BY <3>1, <3>2, AppendProperties, LenProperties
    <3>4. QED
      BY <3>3
  <2>2. QED
    BY <2>1
<1>3. Settled' = Settled
  <2>1. CASE Creates
    BY <2>1, CreateFacts
  <2>2. CASE Calm \/ Publishes
    BY <2>2 DEF Calm, Publishes, Settled, PendingRuntime, Pending
  <2>3. CASE Grows
    BY <2>3 DEF Grows, Settled, PendingRuntime, Pending
  <2>4. QED
    BY <1>2, <2>1, <2>2, <2>3 DEF Kind
<1>4. Covered'
  <2>1. \A i \in Batches : Holds(ledger[i])'
    <3>1. ASSUME NEW i \in Batches, NEW t, t = ledger[i]
          PROVE  Holds(t)'
      <4>1. t \in Transaction /\ Holds(t)
        BY <1>1, <3>1 DEF Batches, LedgerInv, Covered
      <4>2. QED
        BY <4>1, HoldsKept
    <3>2. QED
      BY <3>1
  <2>2. QED
    BY <1>1, <1>3, <2>1 DEF LedgerInv, Covered
<1>5. Ordered' /\ Gapless'
  BY <1>1, <1>3 DEF LedgerInv, Ordered, Gapless
<1>6. Public'
  <2>1. \A i \in DOMAIN ledger : Announced(ledger[i])'
    <3>1. ASSUME NEW i \in DOMAIN ledger, NEW t, t = ledger[i]
          PROVE  Announced(t)'
      BY <3>1, AnnouncedKept DEF LedgerInv, Public
    <3>2. QED
      BY <3>1
  <2>2. pc' = "ack" => Announced(Pending)'
    <3>1. ASSUME pc' = "ack"
          PROVE  Calm /\ Announced(Pending)
      BY <1>2, <3>1 DEF Kind, Calm, Grows, Publishes, Creates, LedgerInv, Public
    <3>2. ASSUME Calm
          PROVE  Pending' = Pending
      BY <3>2 DEF Calm, Pending
    <3>3. QED
      BY <3>1, <3>2, AnnouncedKept
  <2>3. QED
    BY <2>1, <2>2 DEF Public
<1>7. QED
  BY <1>4, <1>5, <1>6 DEF LedgerInv

\* The pending transaction follows the others in the ledger.
LEMMA LedgerGrows ==
    ASSUME TypeInv, StateInv, LedgerInv, Settles, NEW n, n = Len(ledger) + 1
    PROVE  /\ n \in Nat /\ DOMAIN ledger' = DOMAIN ledger \cup {n}
           /\ DOMAIN ledger = 1..Len(ledger) /\ Len(ledger) \in Nat
           /\ ledger'[n] = Pending
           /\ \A i \in DOMAIN ledger : i < n /\ ledger'[i] = ledger[i]
           /\ \A i \in DOMAIN ledger : ledger[i] \in Transaction
           /\ Batches' = Batches \cup (IF PendingRuntime THEN {n} ELSE {})
<1>1. ledger \in Seq(Transaction) /\ Pending \in Transaction
      /\ ledger' = Append(ledger, Pending) /\ outbox # <<>>
  BY SettleFacts, PendingFacts DEF TypeInv, TypeOK, DurableOK
<1>2. /\ Len(ledger) \in Nat /\ DOMAIN ledger = 1..Len(ledger)
      /\ Len(ledger') = Len(ledger) + 1 /\ ledger' \in Seq(Transaction)
      /\ \A i \in 1..Len(ledger) : ledger'[i] = ledger[i]
      /\ ledger'[Len(ledger) + 1] = Pending
  BY <1>1, AppendProperties, LenProperties
<1>3. DOMAIN ledger' = 1..(Len(ledger) + 1)
  BY <1>2, LenProperties
<1>4. n \in Nat /\ 1..n = (1..Len(ledger)) \cup {n}
      /\ \A i \in 1..Len(ledger) : i < n
  BY <1>2
<1>5. DOMAIN ledger' = DOMAIN ledger \cup {n}
  BY <1>2, <1>3, <1>4
<1>6. \A i \in DOMAIN ledger : ledger[i] \in Transaction
  BY <1>1, ElementOfSeq, LenProperties
<1>7. Batches' = Batches \cup (IF PendingRuntime THEN {n} ELSE {})
  <2>1. PendingRuntime <=> Pending.kind = "runtime"
    BY <1>1 DEF PendingRuntime
  <2>2. \A i : i \in Batches' <=> i \in Batches \/ (i = n /\ PendingRuntime)
    BY <1>2, <1>4, <1>5, <2>1 DEF Batches
  <2>3. QED
    BY <2>2
<1>8. QED
  BY <1>2, <1>4, <1>5, <1>6, <1>7

LEMMA LedgerSettles ==
    ASSUME TypeInv, StateInv, LedgerInv, Settles
    PROVE  LedgerInv'
<1>0. PICK n : n = Len(ledger) + 1
  OBVIOUS
<1>1. /\ n \in Nat /\ DOMAIN ledger' = DOMAIN ledger \cup {n}
      /\ ledger'[n] = Pending
      /\ \A i \in DOMAIN ledger : i < n /\ ledger'[i] = ledger[i]
      /\ \A i \in DOMAIN ledger : ledger[i] \in Transaction
      /\ Batches' = Batches \cup (IF PendingRuntime THEN {n} ELSE {})
      /\ DOMAIN ledger = 1..Len(ledger) /\ Len(ledger) \in Nat
  BY <1>0, LedgerGrows
<1>2. /\ outbox # <<>> /\ log' = log /\ pc' # "ack" /\ pc = "ack"
      /\ Settled' = Len(log) /\ ~PendingRuntime'
      /\ Settled = IF PendingRuntime THEN Pending.base ELSE Len(log)
      /\ PendingRuntime => After(Pending)
      /\ Pending \in Transaction /\ Len(log) \in Nat
      /\ Pending.base \in Nat /\ Len(Pending.events) \in Nat
  BY SettleFacts, PendingFacts DEF Settles
<1>3. Settled \in Nat /\ Settled <= Settled' /\ Settled' \in Nat
  BY <1>2 DEF After
<1>4. Batches \subseteq DOMAIN ledger
  BY DEF Batches
<1>5. PendingRuntime => Holds(Pending) /\ Ends(Pending) = Settled'
                        /\ Settled = Pending.base
  BY <1>2 DEF After, Holds, Ends
<1>6. \A i \in Batches : Ends(ledger[i]) \in Nat /\ Ends(ledger[i]) <= Settled'
  <2>1. ASSUME NEW i \in Batches
        PROVE  Ends(ledger[i]) \in Nat /\ Ends(ledger[i]) <= Settled'
    <3>1. ledger[i] \in Transaction
      BY <1>1, <1>4
    <3>2. Ends(ledger[i]) \in Nat
      BY <3>1, EventsType DEF Ends
    <3>3. Ends(ledger[i]) <= Settled
      BY DEF LedgerInv, Covered
    <3>4. QED
      BY <1>3, <3>2, <3>3
  <2>2. QED
    BY <2>1
<1>7. \A i \in Batches : Holds(ledger[i])'
  <2>1. ASSUME NEW i \in Batches, NEW t, t = ledger[i]
        PROVE  Holds(t)'
    BY <1>2, <2>1 DEF Holds, LedgerInv, Covered
  <2>2. \A i \in Batches : ledger'[i] = ledger[i]
    BY <1>1, <1>4
  <2>3. QED
    BY <2>1, <2>2
<1>8. Covered'
  <2>1. ASSUME NEW i \in Batches'
        PROVE  Holds(ledger[i])' /\ Ends(ledger[i])' <= Settled'
    <3>1. CASE i \in Batches
      BY <1>1, <1>4, <1>6, <1>7, <3>1 DEF Ends
    <3>2. CASE i = n /\ PendingRuntime
      <4>1. Holds(Pending) /\ Ends(Pending) <= Settled'
        BY <1>3, <1>5, <3>2
      <4>2. ASSUME NEW t, t = Pending
            PROVE  Holds(t)' /\ Ends(t) <= Settled'
        BY <1>2, <4>1, <4>2 DEF Holds
      <4>3. QED
        BY <1>1, <3>2, <4>2 DEF Ends
    <3>3. QED
      BY <1>1, <3>1, <3>2
  <2>2. QED
    BY <2>1 DEF Covered
<1>9. Ordered'
  <2>1. ASSUME NEW i \in Batches', NEW j \in Batches', i < j
        PROVE  Ends(ledger'[i]) <= ledger'[j].base
    <3>1. CASE i \in Batches /\ j \in Batches
      BY <1>1, <1>4, <2>1, <3>1 DEF LedgerInv, Ordered
    <3>2. CASE i \in Batches /\ j = n /\ PendingRuntime
      BY <1>1, <1>4, <1>5, <3>2 DEF LedgerInv, Covered
    <3>3. CASE i = n
      <4>1. \A h \in DOMAIN ledger : h < n /\ h \in Nat
        BY <1>1
      <4>2. j = n \/ (j < n /\ j \in Nat)
        BY <1>1, <1>4, <4>1
      <4>3. QED
        BY <1>1, <2>1, <3>3, <4>2
    <3>4. QED
      BY <1>1, <3>1, <3>2, <3>3
  <2>2. QED
    BY <2>1 DEF Ordered, Ends
<1>10. Gapless'
  <2>1. ASSUME NEW k \in 1..Settled'
        PROVE  \E i \in Batches' : k \in ledger'[i].base + 1..Ends(ledger'[i])
    <3>1. CASE k <= Settled
      <4>1. PICK i \in Batches : k \in ledger[i].base + 1..Ends(ledger[i])
        BY <1>3, <3>1 DEF LedgerInv, Gapless
      <4>2. QED
        BY <1>1, <1>4, <4>1
    <3>2. CASE ~(k <= Settled)
      <4>1. PendingRuntime
        BY <1>2, <1>3, <3>2
      <4>2. k \in Pending.base + 1..Ends(Pending)
        BY <1>2, <1>3, <1>5, <3>2, <4>1
      <4>3. QED
        BY <1>1, <4>1, <4>2
    <3>3. QED
      BY <3>1, <3>2
  <2>2. QED
    BY <2>1 DEF Gapless, Ends
<1>11. Public'
  <2>1. ASSUME NEW i \in DOMAIN ledger', NEW t, t = ledger'[i]
        PROVE  Announced(t)'
    <3>1. Announced(t)
      BY <1>1, <1>2, <2>1 DEF LedgerInv, Public
    <3>2. QED
      BY <3>1, AnnouncedKept DEF Kind
  <2>2. QED
    BY <1>2, <2>1 DEF Public
<1>12. QED
  BY <1>8, <1>9, <1>10, <1>11 DEF LedgerInv

\* Ordinals increase along the ledger, and the pending one is above them.
OrdinalInv ==
    /\ \A i, j \in DOMAIN ledger : i < j => ledger[i].ordinal < ledger[j].ordinal
    /\ \A i \in DOMAIN ledger :
          /\ ledger[i].ordinal <= ordinal
          /\ pc = "create" => ledger[i].ordinal < ordinal
          /\ outbox # <<>> => ledger[i].ordinal < Pending.ordinal
    /\ outbox # <<>> => Pending.ordinal <= ordinal

LEMMA OrdinalStep ==
    ASSUME TypeInv, StateInv, LedgerInv, OrdinalInv, Kind
    PROVE  OrdinalInv'
<1>1. /\ ordinal \in Nat /\ DOMAIN ledger = 1..Len(ledger)
      /\ \A i \in DOMAIN ledger : ledger[i].ordinal \in Nat
  <2>1. \A i \in DOMAIN ledger : ledger[i] \in Transaction
    BY ElementOfSeq, LenProperties DEF TypeInv, TypeOK, DurableOK
  <2>2. ordinal \in Nat /\ DOMAIN ledger = 1..Len(ledger)
    BY LenProperties DEF TypeInv, TypeOK, DurableOK
  <2>3. \A t \in Transaction : t.ordinal \in Nat
    BY DEF Transaction
  <2>4. QED
    BY <2>1, <2>2, <2>3
<1>2. outbox # <<>> => Pending.ordinal \in Nat
  BY PendingFacts DEF Transaction
<1>3. CASE Calm
  <2>1. UNCHANGED <<ledger, outbox>> /\ Pending' = Pending
    BY <1>3 DEF Calm, Pending
  <2>2. /\ ordinal' \in Nat /\ ordinal <= ordinal'
        /\ pc' = "create" => pc = "create" \/ ordinal' = ordinal + 1
    BY <1>1, <1>3 DEF Calm
  <2>3. QED
    BY <1>1, <1>2, <2>1, <2>2 DEF OrdinalInv
<1>4. CASE Grows \/ Publishes
  <2>1. UNCHANGED <<ledger, outbox, ordinal>> /\ Pending' = Pending
        /\ pc' # "create"
    BY <1>4 DEF Grows, Publishes, Pending
  <2>2. QED
    BY <2>1 DEF OrdinalInv
<1>5. CASE Settles
  <2>0. PICK n : n = Len(ledger) + 1
    OBVIOUS
  <2>1. /\ n \in Nat /\ DOMAIN ledger' = DOMAIN ledger \cup {n}
        /\ ledger'[n] = Pending
        /\ \A i \in DOMAIN ledger : i < n /\ ledger'[i] = ledger[i]
    BY <1>5, <2>0, LedgerGrows
  <2>2. outbox # <<>> /\ outbox' = <<>> /\ pc' # "create" /\ ordinal' = ordinal
    BY <1>5, SettleFacts DEF Settles
  <2>3. /\ Pending.ordinal <= ordinal
        /\ \A i \in DOMAIN ledger : ledger[i].ordinal < Pending.ordinal
    BY <2>2 DEF OrdinalInv
  <2>4. \A j \in DOMAIN ledger' : ~(n < j)
    BY <1>1, <2>1
  <2>5. ASSUME NEW i \in DOMAIN ledger', NEW j \in DOMAIN ledger', i < j
        PROVE  ledger'[i].ordinal < ledger'[j].ordinal
    <3>1. i \in DOMAIN ledger
      BY <2>1, <2>4, <2>5
    <3>2. CASE j \in DOMAIN ledger
      BY <2>1, <2>5, <3>1, <3>2 DEF OrdinalInv
    <3>3. CASE j = n
      BY <2>1, <2>3, <3>1, <3>3
    <3>4. QED
      BY <2>1, <3>2, <3>3
  <2>6. \A i \in DOMAIN ledger' : ledger'[i].ordinal <= ordinal'
    BY <2>1, <2>2, <2>3 DEF OrdinalInv
  <2>7. QED
    BY <2>2, <2>5, <2>6 DEF OrdinalInv
<1>6. CASE Creates
  <2>1. /\ Pending' = Prepared /\ Prepared.ordinal = ordinal
        /\ UNCHANGED <<ledger, ordinal>> /\ pc = "create" /\ pc' # "create"
    BY <1>6, CreateFacts DEF Creates
  <2>2. QED
    BY <1>1, <2>1 DEF OrdinalInv
<1>7. QED
  BY <1>3, <1>4, <1>5, <1>6 DEF Kind

LEMMA LedgerInit == Init => LedgerInv /\ OrdinalInv
<1> SUFFICES ASSUME Init
             PROVE  LedgerInv /\ OrdinalInv
  OBVIOUS
<1>1. /\ DOMAIN ledger = {} /\ Batches = {} /\ outbox = <<>> /\ pc = "down"
      /\ Settled = 0
  BY DEF Init, Batches, Settled, PendingRuntime
<1>2. QED
  BY <1>1 DEF LedgerInv, Covered, Ordered, Gapless, Public, OrdinalInv

LEMMA Keeping == Spec => [](LedgerInv /\ OrdinalInv)
<1>1. TypeInv /\ StateInv /\ LedgerInv /\ OrdinalInv /\ [Next]_vars
         => (LedgerInv /\ OrdinalInv)'
  <2> SUFFICES ASSUME TypeInv, StateInv, LedgerInv, OrdinalInv, [Next]_vars
               PROVE  (LedgerInv /\ OrdinalInv)'
    OBVIOUS
  <2>1. Kind
    BY StepKind
  <2>2. LedgerInv'
    BY <2>1, LedgerSame, LedgerSettles
    DEF Kind, Calm, Grows, Publishes, Creates
  <2>3. OrdinalInv'
    BY <2>1, OrdinalStep
  <2>4. QED
    BY <2>2, <2>3
<1>2. QED
  BY Safety, LedgerInit, <1>1, PTL DEF Spec

LEMMA OrdinalsIncrease ==
    ASSUME TypeInv, StateInv, OrdinalInv
    PROVE  /\ \A i, j \in DOMAIN Ordinals : i < j => Ordinals[i] < Ordinals[j]
           /\ \A i \in DOMAIN Ordinals : Ordinals[i] <= ordinal
<1>1. ledger \in Seq(Transaction) /\ outbox \in Seq(Transaction)
      /\ DOMAIN ledger = 1..Len(ledger) /\ Len(ledger) \in Nat
  BY LenProperties DEF TypeInv, TypeOK, DurableOK
<1>2. DOMAIN Ordinals = DOMAIN (ledger \o outbox)
      /\ \A i \in DOMAIN Ordinals : Ordinals[i] = (ledger \o outbox)[i].ordinal
  BY DEF Ordinals
<1>3. CASE outbox = <<>>
  <2>1. ledger \o outbox = ledger
    BY <1>1, <1>3, ConcatEmptySeq
  <2>2. QED
    BY <1>2, <2>1 DEF OrdinalInv
<1>4. CASE outbox # <<>>
  <2> DEFINE n == Len(ledger) + 1
  <2>1. outbox = <<Pending>> /\ Pending \in Transaction
    BY <1>4, PendingFacts
  <2>2. Len(outbox) = 1 /\ outbox[1] = Pending
    BY <2>1
  <2>3. /\ Len(ledger \o outbox) = Len(ledger) + Len(outbox)
        /\ ledger \o outbox \in Seq(Transaction)
        /\ \A i \in 1..Len(ledger) + Len(outbox) : (ledger \o outbox)[i] =
              IF i <= Len(ledger) THEN ledger[i] ELSE outbox[i - Len(ledger)]
    BY <1>1, ConcatProperties
  <2>4. DOMAIN (ledger \o outbox) = 1..n
    BY <2>2, <2>3, LenProperties
  <2>5. /\ \A i \in 1..n : i \in 1..Len(ledger) \/ i = n
        /\ \A i \in 1..Len(ledger) : i <= Len(ledger) /\ i < n /\ i \in 1..n
        /\ n \in 1..n /\ ~(n <= Len(ledger)) /\ n - Len(ledger) = 1
    BY <1>1
  <2>6. /\ (ledger \o outbox)[n] = Pending
        /\ \A i \in 1..Len(ledger) : (ledger \o outbox)[i] = ledger[i]
    BY <2>2, <2>3, <2>5
  <2>7. /\ DOMAIN Ordinals = 1..n /\ Ordinals[n] = Pending.ordinal
        /\ \A i \in 1..Len(ledger) : Ordinals[i] = ledger[i].ordinal
    BY <1>2, <2>4, <2>5, <2>6
  <2> HIDE DEF n
  <2>8. ASSUME NEW i \in 1..n, NEW j \in 1..n, i < j
        PROVE  Ordinals[i] < Ordinals[j]
    <3>1. i \in 1..Len(ledger)
      BY <2>5, <2>8
    <3>2. CASE j = n
      BY <1>1, <1>4, <2>7, <3>1, <3>2 DEF OrdinalInv
    <3>3. CASE j \in 1..Len(ledger)
      BY <1>1, <2>7, <2>8, <3>1, <3>3 DEF OrdinalInv
    <3>4. QED
      BY <2>5, <3>2, <3>3
  <2>9. \A i \in 1..n : Ordinals[i] <= ordinal
    BY <1>1, <1>4, <2>5, <2>7 DEF OrdinalInv
  <2>10. QED
    BY <2>7, <2>8, <2>9
<1>5. QED
  BY <1>3, <1>4

(***************************************************************************)
(* The ledger is the history of the run: the settled part of the private   *)
(* log without a gap, all of it in the public journal, under ordinals that *)
(* are never handed out twice, for every number of requests, batch sizes   *)
(* and faults and however mutations enter.                                 *)
(***************************************************************************)
THEOREM LedgerHistory == Spec => []LedgerIsHistory
<1>1. ASSUME TypeInv, StateInv, LedgerInv, OrdinalInv
      PROVE  LedgerIsHistory
  <2>1. ASSUME NEW i \in Batches
        PROVE  Applied(ledger[i]) /\ Ends(ledger[i]) <= Settled
    <3>1. ledger[i] \in Transaction
      BY <1>1, <2>1, ElementOfSeq, LenProperties
      DEF Batches, TypeInv, TypeOK, DurableOK
    <3>2. Holds(ledger[i]) /\ Ends(ledger[i]) <= Settled
      BY <1>1, <2>1 DEF LedgerInv, Covered
    <3>3. QED
      BY <1>1, <3>1, <3>2, HoldsIsApplied DEF TypeInv, TypeOK
  <2>2. QED
    BY <1>1, <2>1, OrdinalsIncrease
    DEF LedgerIsHistory, LedgerInv, Ordered, Gapless, Public
<1>2. QED
  BY Safety, Keeping, <1>1, PTL

-----------------------------------------------------------------------------
(***************************************************************************)
(* Where every mutation is reconciled before its handler reads the         *)
(* runtime, the runtime in memory follows the log and the candidate        *)
(* extends it.                                                             *)
(***************************************************************************)
Own == Batch(Len(issued), Current.size)
Candidate == \/ pc \in {"check", "persist", "create"}
             \/ pc = "reconcile" /\ ret = "commit"

\* The events in memory begin the log, and are all of it when none is pending.
MemInv ==
    /\ Len(mem) <= Len(log) /\ \A k \in 1..Len(mem) : mem[k] = log[k]
    /\ pc \notin {"down", "load"} /\ (~PendingRuntime \/ pc \in {"publish", "ack"})
          => mem = log
\* A commit reconciles nothing: its request did.
PlaceInv ==
    /\ pc \in {"execute", "check", "persist", "create", "apply"} => ret = "none"
    /\ pc = "reconcile" => ret # "none"
    /\ pc \in {"publish", "ack"} => ret # "commit"
    /\ pc = "reconcile" /\ ret = "commit"
          => outbox = <<>> /\ Current.kind = "runtime"
\* The candidate adds the events of its request to the log.
NextInv ==
    /\ Candidate /\ Current.kind = "runtime" => next = log \o Own
    /\ pc = "apply" /\ PendingRuntime => next = log \o Pending.events
\* What a commit has pending is of the request in hand.
HandInv == pc \in {"apply", "publish", "ack"} /\ ret = "none" =>
    /\ issued # <<>> /\ Pending.kind = Current.kind
    /\ Current.kind = "runtime" => Pending.events = Own

\* A request in hand has no event in the log or in the outbox.
InHand == \/ pc \in {"execute", "check", "persist", "create"}
          \/ ret \in {"request", "commit"}
Fresh(s) == \A i \in DOMAIN s : /\ s[i] \in 1..Len(issued)
                                /\ InHand => s[i] # Len(issued)
FreshInv == /\ Fresh(log)
            /\ PendingRuntime => Fresh(Pending.events)
            /\ ok \subseteq 1..Len(issued) /\ Len(issued) <= MaxRequests

IpcInv == MemInv /\ PlaceInv /\ NextInv /\ HandInv /\ FreshInv

\* What a request adds is what it is cut from.
LEMMA Suffix ==
    ASSUME NEW s \in Seq(Nat), NEW t \in Seq(Nat), Len(t) > 0
    PROVE  SubSeq(s \o t, Len(s) + 1, Len(s \o t)) = t
<1> DEFINE u == s \o t
           v == SubSeq(u, Len(s) + 1, Len(u))
<1>1. /\ Len(s) \in Nat /\ Len(t) \in Nat /\ u \in Seq(Nat)
      /\ Len(u) = Len(s) + Len(t)
      /\ \A i \in 1..Len(s) + Len(t) :
            u[i] = IF i <= Len(s) THEN s[i] ELSE t[i - Len(s)]
  BY ConcatProperties, LenProperties
<1>2. \A i \in Len(s) + 1..Len(u) : u[i] \in Nat
  <2>1. \A i \in Len(s) + 1..Len(u) : i \in 1..Len(u)
    BY <1>1
  <2>2. QED
    BY <1>1, <2>1, ElementOfSeq
<1>3. /\ v \in Seq(Nat)
      /\ Len(v) = Len(u) - (Len(s) + 1) + 1
      /\ \A i \in 1..Len(u) - (Len(s) + 1) + 1 : v[i] = u[(Len(s) + 1) + i - 1]
  <2>1. Len(s) + 1 \in Int /\ Len(u) \in Int /\ Len(s) + 1 <= Len(u)
    BY <1>1
  <2>2. /\ v \in Seq(Nat)
        /\ Len(v) = IF Len(s) + 1 <= Len(u) THEN Len(u) - (Len(s) + 1) + 1 ELSE 0
        /\ \A i \in 1..Len(u) - (Len(s) + 1) + 1 : v[i] = u[(Len(s) + 1) + i - 1]
    <3>1. Len(s) + 1 \in Int /\ Len(u) \in Int
      BY <2>1
    <3>2. QED
      BY <1>2, <3>1, SubSeqProperties
  <2>3. QED
    BY <2>1, <2>2
<1>4. Len(v) = Len(t)
  BY <1>1, <1>3
<1>5. ASSUME NEW i \in 1..Len(t)
      PROVE  v[i] = t[i]
  <2>1. /\ i \in 1..Len(u) - (Len(s) + 1) + 1 /\ (Len(s) + 1) + i - 1 = Len(s) + i
        /\ Len(s) + i \in 1..Len(s) + Len(t) /\ ~(Len(s) + i <= Len(s))
        /\ (Len(s) + i) - Len(s) = i
    BY <1>1
  <2>2. v[i] = u[Len(s) + i]
    BY <1>3, <2>1
  <2>3. u[Len(s) + i] = t[i]
    BY <1>1, <2>1
  <2>4. QED
    BY <2>2, <2>3
<1>6. v = t
  <2> HIDE DEF v
  <2>1. QED
    BY <1>3, <1>4, <1>5, SeqEqual
<1>7. QED
  BY <1>6

LEMMA OwnFacts ==
    ASSUME HistoryOK, issued # <<>>
    PROVE  /\ Own \in Seq(Nat) /\ Len(Own) = Current.size /\ Current.size \in 1..MaxBatch
           /\ Len(issued) \in Nat /\ Len(issued) > 0 /\ Current \in Request
           /\ Current.size > 0 /\ Current.size \in Nat
           /\ \A i \in DOMAIN Own : Own[i] = Len(issued)
<1>1. Current \in Request /\ Current.size \in Nat \ {0} /\ Len(issued) \in Nat
  BY CurrentType
<1>2. Current.size \in 1..MaxBatch
  BY <1>1 DEF Request
<1>3. Own \in Seq(Nat) /\ Len(Own) = Current.size
  BY <1>1, BatchType DEF Own
<1>4. \A i \in DOMAIN Own : Own[i] = Len(issued)
  BY DEF Own, Batch
<1>5. Len(issued) > 0
  <2>1. Len(issued) # 0
    BY EmptySeq, LenProperties DEF HistoryOK
  <2>2. QED
    BY <1>1, <2>1
<1>6. QED
  BY <1>1, <1>2, <1>3, <1>4, <1>5

\* A transaction is prepared of the events of the request in hand.
LEMMA PreparedOwn ==
    ASSUME TypeInv, StateInv, NextInv, Creates, Current.kind = "runtime"
    PROVE  Prepared.events = Own /\ next = log \o Own
<1>1. issued # <<>> /\ persisted = Len(log) /\ log \in Seq(Nat)
  BY CreateFacts DEF Creates, TypeInv, Control, TypeOK, DurableOK
<1>2. next = log \o Own
  BY DEF Creates, NextInv, Candidate
<1>3. Own \in Seq(Nat) /\ Len(Own) > 0
  BY <1>1, OwnFacts DEF TypeInv, TypeOK
<1>4. Prepared.events = SubSeq(next, persisted + 1, Len(next))
  BY DEF Prepared
<1>5. QED
  BY <1>1, <1>2, <1>3, <1>4, Suffix

LEMMA MemPrefix ==
    ASSUME TypeInv, StateInv, MemInv, Kind, mem' \in {mem, log', <<>>}
    PROVE  Len(mem') <= Len(log') /\ \A k \in 1..Len(mem') : mem'[k] = log'[k]
<1>1. /\ Len(log) \in Nat /\ Len(log') \in Nat /\ Len(log) <= Len(log')
      /\ \A k \in 1..Len(log) : log'[k] = log[k]
  BY KindKeeps
<1>2. CASE mem' = mem
  <2>1. /\ Len(mem) \in Nat /\ Len(mem) <= Len(log)
        /\ \A k \in 1..Len(mem) : mem[k] = log[k]
    BY LenProperties DEF MemInv, TypeInv, TypeOK, VolatileOK
  <2>2. \A k \in 1..Len(mem) : k \in 1..Len(log)
    BY <1>1, <2>1
  <2>3. Len(mem) <= Len(log')
    BY <1>1, <2>1
  <2>4. QED
    BY <1>1, <1>2, <2>1, <2>2, <2>3
<1>3. CASE mem' = log'
  BY <1>1, <1>3
<1>4. CASE mem' = <<>>
  <2>1. Len(mem') = 0
    BY <1>4
  <2>2. QED
    BY <1>1, <2>1
<1>5. QED
  BY <1>2, <1>3, <1>4

\* No request is issued: what is logged is still of earlier ones.
LEMMA FreshKept ==
    ASSUME TypeInv, StateInv, IpcInv, Kind, UNCHANGED issued,
           InHand' => InHand /\ ~Creates, ok' \subseteq 1..Len(issued)
    PROVE  FreshInv'
<1>1. FreshInv /\ DOMAIN log = 1..Len(log)
  BY LenProperties DEF IpcInv, TypeInv, TypeOK, DurableOK
<1>2. Fresh(log)'
  <2>1. CASE UNCHANGED log
    BY <1>1, <2>1 DEF FreshInv, Fresh
  <2>2. CASE Grows
    <3>1. /\ Pending \in Transaction /\ Len(Pending.events) \in Nat
          /\ Pending.events \in Seq(Nat) /\ log \in Seq(Nat) /\ Len(log) \in Nat
      BY <2>2, PendingFacts DEF Grows, PendingRuntime, TypeInv, TypeOK, DurableOK
    <3>2. /\ Len(log') = Len(log) + Len(Pending.events) /\ log' \in Seq(Nat)
          /\ \A k \in 1..Len(log) + Len(Pending.events) : log'[k] =
                IF k <= Len(log) THEN log[k] ELSE Pending.events[k - Len(log)]
      BY <2>2, <3>1, ConcatProperties DEF Grows
    <3>3. /\ \A i \in 1..Len(log) : log[i] \in 1..Len(issued)
                                    /\ (InHand => log[i] # Len(issued))
          /\ \A i \in 1..Len(Pending.events) :
                Pending.events[i] \in 1..Len(issued)
                /\ (InHand => Pending.events[i] # Len(issued))
      <4>1. DOMAIN Pending.events = 1..Len(Pending.events)
        BY <3>1, LenProperties
      <4>2. PendingRuntime
        BY <2>2 DEF Grows
      <4>3. QED
        BY <1>1, <4>1, <4>2 DEF FreshInv, Fresh
    <3>4. ASSUME NEW k \in 1..Len(log')
          PROVE  log'[k] \in 1..Len(issued) /\ (InHand => log'[k] # Len(issued))
      <4>1. k \in 1..Len(log) + Len(Pending.events)
            /\ (k <= Len(log) => k \in 1..Len(log))
            /\ (~(k <= Len(log)) => k - Len(log) \in 1..Len(Pending.events))
        BY <3>1, <3>2
      <4>2. CASE k <= Len(log)
        <5>1. log'[k] = log[k] /\ k \in 1..Len(log)
          BY <3>2, <4>1, <4>2
        <5>2. QED
          BY <3>3, <5>1
      <4>3. CASE ~(k <= Len(log))
        <5>1. log'[k] = Pending.events[k - Len(log)]
              /\ k - Len(log) \in 1..Len(Pending.events)
          BY <3>2, <4>1, <4>3
        <5>2. QED
          BY <3>3, <5>1
      <4>4. QED
        BY <4>2, <4>3
    <3>5. DOMAIN log' = 1..Len(log')
      BY <3>2, LenProperties
    <3>6. QED
      BY <3>4, <3>5 DEF Fresh
  <2>3. QED
    BY <2>1, <2>2 DEF Kind, Calm, Publishes, Settles, Creates
<1>3. ASSUME PendingRuntime'
      PROVE  Fresh(Pending.events)'
  <2>1. CASE UNCHANGED outbox
    <3>1. Pending' = Pending /\ PendingRuntime
      BY <1>3, <2>1 DEF PendingRuntime, Pending
    <3>2. QED
      BY <1>1, <3>1 DEF FreshInv, Fresh
  <2>2. CASE Settles
    BY <1>3, <2>2, SettleFacts
  <2>3. CASE Creates
    <3>1. Pending' = Prepared /\ Prepared.kind = Current.kind
          /\ Prepared.kind = "runtime" /\ ~InHand' /\ issued # <<>>
      BY <1>3, <2>3, CreateFacts DEF Creates, TypeInv, Control
    <3>2. Pending'.events = Own
      BY <2>3, <3>1, PreparedOwn DEF IpcInv
    <3>3. Len(issued) \in 1..Len(issued)
          /\ \A i \in DOMAIN Own : Own[i] = Len(issued)
      <4>1. Len(issued) \in Nat /\ Len(issued) > 0
            /\ \A i \in DOMAIN Own : Own[i] = Len(issued)
        BY <3>1, OwnFacts DEF TypeInv, TypeOK
      <4>2. QED
        BY <4>1
    <3>4. QED
      BY <3>1, <3>2, <3>3 DEF Fresh
  <2>4. QED
    BY <2>1, <2>2, <2>3 DEF Kind, Calm, Grows, Publishes
<1>4. QED
  BY <1>1, <1>2, <1>3 DEF FreshInv

\* A request is issued: nothing of it is logged yet.
LEMMA FreshIssued ==
    ASSUME TypeInv, FreshInv, UNCHANGED <<log, outbox, ok>>,
           NEW r \in Request, issued' = Append(issued, r),
           Len(issued) < MaxRequests
    PROVE  /\ FreshInv' /\ Current' = r
           /\ Len(issued') = Len(issued) + 1 /\ Len(issued) \in Nat
           /\ \A i \in 1..Len(issued) : issued'[i] = issued[i]
<1>1. /\ Len(issued) \in Nat /\ Len(issued') = Len(issued) + 1
      /\ \A i \in 1..Len(issued) : issued'[i] = issued[i]
      /\ issued'[Len(issued) + 1] = r
  BY AppendProperties, LenProperties DEF TypeInv, TypeOK, HistoryOK
<1>2. \A k \in 1..Len(issued) : k \in 1..Len(issued') /\ k # Len(issued')
  BY <1>1
<1>3. Fresh(log)'
  BY <1>2 DEF FreshInv, Fresh
<1>4. PendingRuntime' = PendingRuntime /\ Pending' = Pending
  BY DEF PendingRuntime, Pending
<1>5. PendingRuntime' => Fresh(Pending.events)'
  BY <1>2, <1>4 DEF FreshInv, Fresh
<1>6. Len(issued') <= MaxRequests /\ ok' \subseteq 1..Len(issued')
  BY <1>1, <1>2, BoundsAssumption DEF FreshInv
<1>7. QED
  BY <1>1, <1>3, <1>5, <1>6 DEF FreshInv, Current

\* The operation ends, and the process with it or not.
LEMMA EndStep ==
    ASSUME TypeInv, StateInv, IpcInv, Kind, UNCHANGED issued,
           ok' \subseteq 1..Len(issued), ret' = "none",
           \/ pc' = "down" /\ mem' = <<>>
           \/ pc' = "idle" /\ pc \notin {"down", "load"} /\ UNCHANGED mem
    PROVE  IpcInv'
<1>1. ~InHand'
  BY DEF InHand
<1>2. FreshInv'
  BY <1>1, FreshKept
<1>3. PlaceInv' /\ NextInv' /\ HandInv'
  BY DEF PlaceInv, NextInv, HandInv, Candidate
<1>4. MemInv'
  <2>1. Len(mem') <= Len(log') /\ \A k \in 1..Len(mem') : mem'[k] = log'[k]
    BY MemPrefix DEF IpcInv
  <2>2. ASSUME pc' = "idle", ~PendingRuntime'
        PROVE  mem' = log'
    <3>1. UNCHANGED mem /\ pc \notin {"down", "load"}
      BY <2>2
    <3>2. ~Grows
      BY <2>2 DEF Grows, PendingRuntime, Pending
    <3>3. UNCHANGED log
      BY <3>2 DEF Kind, Calm, Publishes, Settles, Creates
    <3>4. ~PendingRuntime \/ pc \in {"publish", "ack"}
      <4>1. CASE Calm \/ Publishes
        BY <2>2, <4>1 DEF Calm, Publishes, PendingRuntime, Pending
      <4>2. CASE Settles
        BY <4>2 DEF Settles
      <4>3. CASE Creates
        BY <4>3, CreateFacts
      <4>4. QED
        BY <3>2, <4>1, <4>2, <4>3 DEF Kind
    <3>5. QED
      BY <3>1, <3>3, <3>4 DEF IpcInv, MemInv
  <2>3. QED
    BY <2>1, <2>2 DEF MemInv
<1>5. QED
  BY <1>2, <1>3, <1>4 DEF IpcInv

LEMMA AbortEnds ==
    ASSUME pc # "down", Abort
    PROVE  /\ UNCHANGED <<issued, ok>> /\ ret' = "none"
           /\ \/ pc' = "down" /\ mem' = <<>>
              \/ pc' = "idle" /\ pc \notin {"down", "load"} /\ UNCHANGED mem
<1>1. CASE Die
  BY <1>1 DEF Die, Exit
<1>2. CASE Fail
  <2>1. UNCHANGED <<issued, ok>>
    BY <1>2 DEF Fail
  <2>2. CASE ret = "load" \/ pc \in {"load", "ready"} \/ entry \in {"restart", "exit"}
    <3>1. Exit
      BY <1>2, <2>2 DEF Fail
    <3>2. QED
      BY <2>1, <3>1 DEF Exit
  <2>3. CASE ~(ret = "load" \/ pc \in {"load", "ready"} \/ entry \in {"restart", "exit"})
    <3>1. Release /\ UNCHANGED mem
      BY <1>2, <2>3 DEF Fail
    <3>2. QED
      BY <2>1, <2>3, <3>1 DEF Release
  <2>4. QED
    BY <2>2, <2>3
<1>3. QED
  BY <1>1, <1>2 DEF Abort

LEMMA FaultIpc ==
    ASSUME TypeInv, StateInv, IpcInv, Kind, pc # "down", Abort
    PROVE  IpcInv'
BY AbortEnds, EndStep DEF IpcInv, FreshInv

\* The operation goes on with the same log, outbox, memory and request.
LEMMA QuietIpc ==
    ASSUME TypeInv, StateInv, IpcInv, Kind,
           UNCHANGED <<log, outbox, mem, issued, ok>>,
           pc \notin {"down", "load"},
           pc' \in {"publish", "ack"} => pc \in {"publish", "ack"} \/ mem = log,
           InHand' => InHand
    PROVE  /\ MemInv' /\ FreshInv'
           /\ Pending' = Pending /\ PendingRuntime' = PendingRuntime
           /\ Current' = Current /\ Own' = Own
<1>1. /\ Pending' = Pending /\ PendingRuntime' = PendingRuntime
      /\ Current' = Current
  BY DEF Pending, PendingRuntime, Current
<1>2. Own' = Own
  BY <1>1 DEF Own
<1>3. MemInv'
  BY <1>1 DEF IpcInv, MemInv
<1>4. ~Creates
  <2>1. ASSUME Creates PROVE FALSE
    <3>1. outbox = <<>> /\ outbox' = <<Prepared>>
      BY <2>1, CreateFacts
    <3>2. Len(outbox) = 0 /\ Len(outbox') = 1
      BY <3>1
    <3>3. QED
      BY <3>2
  <2>2. QED
    BY <2>1
<1>5. FreshInv'
  BY <1>4, FreshKept DEF IpcInv, FreshInv
<1>6. QED
  BY <1>1, <1>2, <1>3, <1>5

\* The candidate of a request that was just issued, or is in hand.
LEMMA CandidateFacts ==
    ASSUME TypeInv, IpcInv, outbox = <<>>, pc \notin {"down", "load"}
    PROVE  mem = log /\ ~PendingRuntime
BY DEF IpcInv, MemInv, PendingRuntime

LEMMA RecoveryIpc ==
    ASSUME TypeInv, StateInv, IpcInv, Kind, Recovery
    PROVE  IpcInv'
<1>1. CASE StartDriver
  <2>1. UNCHANGED <<log, outbox, mem, issued, ok, ret>> /\ pc' = "load" /\ pc = "down"
    BY <1>1 DEF StartDriver, durable, history
  <2>2. MemInv' /\ PlaceInv' /\ NextInv' /\ HandInv'
    BY <2>1 DEF IpcInv, MemInv, PlaceInv, NextInv, HandInv, Candidate
  <2>3. Pending' = Pending /\ PendingRuntime' = PendingRuntime
    BY <2>1 DEF Pending, PendingRuntime
  <2>4. FreshInv'
    BY <2>1, <2>3 DEF IpcInv, FreshInv, Fresh, InHand
  <2>5. QED
    BY <2>2, <2>4 DEF IpcInv
<1>2. CASE LoadRecover
  <2>1. /\ mem' = log' /\ UNCHANGED <<issued, ok>> /\ pc' = "reconcile"
        /\ ret' = "load" /\ pc = "load"
    BY <1>2 DEF LoadRecover, RollForward, history
  <2>2. MemInv'
    BY <2>1, MemPrefix DEF IpcInv, MemInv
  <2>3. PlaceInv' /\ NextInv' /\ HandInv'
    BY <2>1 DEF PlaceInv, NextInv, HandInv, Candidate
  <2>4. FreshInv'
    BY <2>1, FreshKept DEF InHand, IpcInv, FreshInv
  <2>5. QED
    BY <2>2, <2>3, <2>4 DEF IpcInv
<1>3. CASE LoadComplete
  <2>1. /\ UNCHANGED <<issued, ok, mem>> /\ pc' = "idle" /\ ret' = "none"
        /\ pc = "ready"
    BY <1>3 DEF LoadComplete, Release, history
  <2>2. QED
    BY <2>1, EndStep DEF IpcInv, FreshInv
<1>4. CASE LoadSuspends
  <2> DEFINE r == [kind |-> "runtime", size |-> 1]
  <2>1. /\ issued' = Append(issued, r) /\ Len(issued) < MaxRequests
        /\ UNCHANGED <<log, outbox, ok, mem>> /\ pc = "ready" /\ outbox = <<>>
        /\ pc' = "reconcile" /\ ret' = "commit"
        /\ next' = mem \o Batch(Len(issued'), 1)
    BY <1>4 DEF LoadSuspends, Issue, durable, TypeInv, Control
  <2>2. r \in Request /\ r.kind = "runtime" /\ r.size = 1
    BY BoundsAssumption DEF Request, Kinds
  <2> HIDE DEF r
  <2>3. FreshInv' /\ Current' = r
    BY <2>1, <2>2, FreshIssued DEF IpcInv
  <2>4. mem = log /\ ~PendingRuntime /\ ~PendingRuntime'
    BY <2>1, CandidateFacts DEF PendingRuntime
  <2>5. MemInv'
    BY <2>1, <2>4 DEF IpcInv, MemInv
  <2>6. PlaceInv' /\ HandInv'
    BY <2>1, <2>2, <2>3 DEF PlaceInv, HandInv
  <2>7. NextInv'
    BY <2>1, <2>2, <2>3, <2>4 DEF NextInv, Own
  <2>8. QED
    BY <2>3, <2>5, <2>6, <2>7 DEF IpcInv
<1>5. QED
  BY <1>1, <1>2, <1>3, <1>4 DEF Recovery

LEMMA ReconcileIpc ==
    ASSUME TypeInv, StateInv, IpcInv, Kind, ReconcileDone \/ ReconcilePrivate
    PROVE  IpcInv'
<1>1. CASE ReconcileDone
  <2>1. /\ UNCHANGED <<log, outbox, mem, issued, ok, next>>
        /\ pc = "reconcile" /\ ret' = "none" /\ outbox = <<>>
        /\ \/ ret = "load" /\ pc' = "ready"
           \/ ret = "request" /\ pc' = "execute"
           \/ ret = "commit" /\ pc' = "check"
    BY <1>1 DEF ReconcileDone, durable, history
  <2>2. InHand' => InHand
    BY <2>1 DEF InHand
  <2>3. /\ MemInv' /\ FreshInv' /\ Current' = Current /\ Own' = Own
        /\ Pending' = Pending /\ PendingRuntime' = PendingRuntime
    BY <2>1, <2>2, QuietIpc
  <2>4. PlaceInv' /\ HandInv'
    BY <2>1 DEF PlaceInv, HandInv
  <2>5. NextInv'
    BY <2>1, <2>3 DEF IpcInv, NextInv, Candidate
  <2>6. QED
    BY <2>3, <2>4, <2>5 DEF IpcInv
<1>2. CASE ReconcilePrivate
  <2>1. /\ UNCHANGED <<outbox, issued, ok, ret>> /\ outbox # <<>>
        /\ pc = "reconcile" /\ pc' = "publish" /\ ret \notin {"none", "commit"}
    BY <1>2 DEF ReconcilePrivate, history, IpcInv, PlaceInv
  <2>2. mem' = log'
    <3>1. CASE Pending.kind = "runtime"
      BY <1>2, <3>1 DEF ReconcilePrivate, RollForward
    <3>2. CASE Pending.kind # "runtime"
      <4>1. ~PendingRuntime /\ UNCHANGED <<log, mem>>
        BY <1>2, <3>2 DEF ReconcilePrivate, PendingRuntime
      <4>2. QED
        BY <2>1, <4>1 DEF IpcInv, MemInv
    <3>3. QED
      BY <3>1, <3>2
  <2>3. MemInv'
    BY <2>2, MemPrefix DEF IpcInv, MemInv
  <2>4. PlaceInv' /\ NextInv' /\ HandInv'
    BY <2>1 DEF PlaceInv, NextInv, HandInv, Candidate
  <2>5. (InHand' => InHand) /\ ~Creates
    BY <2>1 DEF InHand, Creates
  <2>6. FreshInv'
    BY <2>1, <2>5, FreshKept DEF IpcInv, FreshInv
  <2>7. QED
    BY <2>3, <2>4, <2>6 DEF IpcInv
<1>3. QED
  BY <1>1, <1>2

LEMMA PublishIpc ==
    ASSUME TypeInv, StateInv, IpcInv, Kind,
           PublishRecord \/ Published \/ Acknowledge
    PROVE  IpcInv'
<1>1. CASE PublishRecord \/ Published
  <2>1. /\ UNCHANGED <<log, outbox, mem, issued, ok, next, ret>>
        /\ pc = "publish" /\ pc' \in {"publish", "ack"}
    BY <1>1 DEF PublishRecord, Published, operation, durable, history
  <2>2. InHand' => InHand
    BY <2>1 DEF InHand
  <2>3. /\ MemInv' /\ FreshInv' /\ Current' = Current /\ Own' = Own
        /\ Pending' = Pending /\ PendingRuntime' = PendingRuntime
    BY <2>1, <2>2, QuietIpc
  <2>4. PlaceInv' /\ NextInv'
    BY <2>1 DEF IpcInv, PlaceInv, NextInv, Candidate
  <2>5. HandInv'
    BY <2>1, <2>3 DEF IpcInv, HandInv
  <2>6. QED
    BY <2>3, <2>4, <2>5 DEF IpcInv
<1>2. CASE Acknowledge /\ ret = "none"
  <2>1. Reply(mem) /\ pc = "ack" /\ issued # <<>>
    BY <1>2 DEF Acknowledge, IpcInv, HandInv
  <2>2. Len(issued) \in 1..Len(issued)
    <3>1. Len(issued) \in Nat /\ Len(issued) > 0
      BY <2>1, OwnFacts DEF TypeInv, TypeOK
    <3>2. QED
      BY <3>1
  <2>3. UNCHANGED issued /\ ok' \subseteq 1..Len(issued)
    BY <2>1, <2>2 DEF Reply, IpcInv, FreshInv
  <2>4. /\ ret' = "none"
        /\ \/ pc' = "down" /\ mem' = <<>>
           \/ pc' = "idle" /\ UNCHANGED mem
    <3>1. CASE entry = "exit"
      BY <2>1, <3>1 DEF Reply, Exit
    <3>2. CASE entry # "exit"
      BY <2>1, <3>2 DEF Reply, Release
    <3>3. QED
      BY <3>1, <3>2
  <2>5. QED
    BY <2>1, <2>3, <2>4, EndStep
<1>3. CASE Acknowledge /\ ret # "none"
  <2>1. /\ UNCHANGED <<mem, issued, ok, ret, log>> /\ pc = "ack"
        /\ pc' = "reconcile" /\ ret \notin {"none", "commit"}
    BY <1>3 DEF Acknowledge, history, IpcInv, PlaceInv
  <2>2. mem = log
    BY <2>1 DEF IpcInv, MemInv
  <2>3. MemInv'
    BY <2>1, <2>2 DEF IpcInv, MemInv
  <2>4. PlaceInv' /\ NextInv' /\ HandInv'
    BY <2>1 DEF PlaceInv, NextInv, HandInv, Candidate
  <2>5. (InHand' => InHand) /\ ~Creates
    BY <2>1 DEF InHand, Creates
  <2>6. FreshInv'
    BY <2>1, <2>5, FreshKept DEF IpcInv, FreshInv
  <2>7. QED
    BY <2>3, <2>4, <2>6 DEF IpcInv
<1>4. QED
  BY <1>1, <1>2, <1>3

LEMMA IssueStep ==
    ASSUME TypeInv, StateInv, IpcInv,
           NEW kind \in Kinds, NEW size \in 1..MaxBatch, IssueIpc(kind, size)
    PROVE  IpcInv'
<1> DEFINE r == [kind |-> kind, size |-> size]
<1>1. /\ issued' = Append(issued, r) /\ Len(issued) < MaxRequests
      /\ UNCHANGED <<log, outbox, ok, mem>> /\ pc = "idle"
      /\ pc' = "reconcile" /\ ret' = "request"
  BY DEF IssueIpc, Issue, durable
<1>2. r \in Request
  BY DEF Request
<1> HIDE DEF r
<1>3. FreshInv'
  BY <1>1, <1>2, FreshIssued DEF IpcInv
<1>4. PendingRuntime' = PendingRuntime
  BY <1>1 DEF PendingRuntime, Pending
<1>5. MemInv'
  BY <1>1, <1>4 DEF IpcInv, MemInv
<1>6. PlaceInv' /\ NextInv' /\ HandInv'
  BY <1>1 DEF PlaceInv, NextInv, HandInv, Candidate
<1>7. QED
  BY <1>3, <1>5, <1>6 DEF IpcInv

\* A candidate always has events that the log lacks.
LEMMA CommitsSomething ==
    ASSUME TypeInv, StateInv, IpcInv
    PROVE  ~CommitNothing
<1> SUFFICES ASSUME CommitNothing
             PROVE  FALSE
  OBVIOUS
<1>1. pc = "check" /\ outbox = <<>> /\ issued # <<>> /\ ~PendingRuntime
      /\ Current.kind = "runtime" /\ persisted >= Len(next)
  BY DEF CommitNothing, TypeInv, Control, PendingRuntime, NothingToCommit
<1>2. persisted = Len(log) /\ log \in Seq(Nat) /\ Len(log) \in Nat
  BY <1>1, LenProperties DEF StateInv, SyncInv, TypeInv, TypeOK, DurableOK
<1>3. next = log \o Own
  BY <1>1 DEF IpcInv, NextInv, Candidate
<1>4. Own \in Seq(Nat) /\ Len(Own) \in Nat /\ Len(Own) > 0
  BY <1>1, OwnFacts DEF TypeInv, TypeOK
<1>5. Len(next) = Len(log) + Len(Own)
  BY <1>2, <1>3, <1>4, ConcatProperties
<1>6. QED
  BY <1>1, <1>2, <1>4, <1>5

LEMMA CommitIpc ==
    ASSUME TypeInv, StateInv, IpcInv, Kind,
           \/ Execute \/ Preflight \/ TakeOrdinal \/ CreatePending
           \/ AppendPrivate \/ WriteManifest
    PROVE  IpcInv'
<1>1. CASE Execute
  <2>1. /\ UNCHANGED <<log, outbox, mem, issued, ok>> /\ pc = "execute"
        /\ outbox = <<>> /\ pc' \in {"reconcile", "check"} /\ ret = "none"
    BY <1>1 DEF Execute, durable, history, TypeInv, Control, IpcInv, PlaceInv
  <2>2. InHand
    BY <2>1 DEF InHand
  <2>3. /\ MemInv' /\ FreshInv' /\ Current' = Current /\ Own' = Own
    BY <2>1, <2>2, QuietIpc
  <2>4. mem = log /\ ~PendingRuntime
    BY <2>1, CandidateFacts
  <2>5. CASE Current.kind = "runtime"
    <3>1. next' = mem \o Own /\ pc' = "reconcile" /\ ret' = "commit"
      BY <1>1, <2>5 DEF Execute, Own
    <3>2. PlaceInv' /\ HandInv'
      BY <2>1, <2>3, <2>5, <3>1 DEF PlaceInv, HandInv
    <3>3. NextInv'
      BY <2>1, <2>3, <2>4, <3>1 DEF NextInv
    <3>4. QED
      BY <2>3, <3>2, <3>3 DEF IpcInv
  <2>6. CASE Current.kind # "runtime"
    <3>1. pc' = "check" /\ ret' = "none"
      BY <1>1, <2>1, <2>6 DEF Execute
    <3>2. PlaceInv' /\ HandInv' /\ NextInv'
      BY <2>3, <2>6, <3>1 DEF PlaceInv, HandInv, NextInv
    <3>3. QED
      BY <2>3, <3>2 DEF IpcInv
  <2>7. QED
    BY <2>5, <2>6
<1>2. CASE Preflight \/ TakeOrdinal
  <2>1. /\ UNCHANGED <<log, outbox, mem, issued, ok, next, ret>>
        /\ pc \in {"check", "persist"} /\ pc' \in {"persist", "create"}
        /\ ret = "none"
    BY <1>2 DEF Preflight, TakeOrdinal, durable, history, IpcInv, PlaceInv
  <2>2. InHand
    BY <2>1 DEF InHand
  <2>3. /\ MemInv' /\ FreshInv' /\ Current' = Current /\ Own' = Own
    BY <2>1, <2>2, QuietIpc
  <2>4. PlaceInv' /\ HandInv'
    BY <2>1 DEF PlaceInv, HandInv
  <2>5. NextInv'
    BY <2>1, <2>3 DEF IpcInv, NextInv, Candidate
  <2>6. QED
    BY <2>3, <2>4, <2>5 DEF IpcInv
<1>3. CASE CreatePending
  <2>1. /\ UNCHANGED <<log, mem, issued, ok, next, ret>>
        /\ pc = "create" /\ pc' = "apply" /\ ret = "none"
        /\ outbox' = Append(outbox, Prepared)
    BY <1>3 DEF CreatePending, history, IpcInv, PlaceInv
  <2>2. Creates
    BY <1>3 DEF CreatePending, Creates
  <2>3. /\ outbox = <<>> /\ Pending' = Prepared /\ ~PendingRuntime
        /\ Prepared.kind = Current.kind /\ issued # <<>>
        /\ PendingRuntime' <=> Prepared.kind = "runtime"
    BY <2>1, <2>2, CreateFacts DEF TypeInv, Control
  <2>4. Current.kind = "runtime" => Prepared.events = Own /\ next = log \o Own
    BY <2>2, PreparedOwn DEF IpcInv
  <2>5. mem = log
    BY <2>1, <2>3, CandidateFacts
  <2>6. MemInv'
    BY <2>1, <2>5 DEF IpcInv, MemInv
  <2>7. PlaceInv'
    BY <2>1 DEF PlaceInv
  <2>8. Current' = Current /\ Own' = Own
    BY <2>1 DEF Current, Own
  <2>9. NextInv'
    BY <2>1, <2>3, <2>4 DEF NextInv, Candidate
  <2>10. HandInv'
    BY <2>1, <2>3, <2>4, <2>8 DEF HandInv
  <2>11. ~InHand' /\ ok' \subseteq 1..Len(issued)
    BY <2>1 DEF InHand, IpcInv, FreshInv
  <2>12. FreshInv'
    BY <2>1, <2>11, FreshKept
  <2>13. QED
    BY <2>6, <2>7, <2>9, <2>10, <2>12 DEF IpcInv
<1>4. CASE AppendPrivate \/ WriteManifest
  <2>1. /\ UNCHANGED <<outbox, issued, ok, ret>>
        /\ pc = "apply" /\ pc' = "publish" /\ ret = "none"
    BY <1>4 DEF AppendPrivate, WriteManifest, history, IpcInv, PlaceInv
  <2>2. mem' = log'
    <3>1. CASE AppendPrivate
      <4>1. PendingRuntime
        BY <3>1 DEF AppendPrivate, TypeInv, Control, PendingRuntime
      <4>2. QED
        BY <2>1, <3>1, <4>1 DEF AppendPrivate, IpcInv, NextInv
    <3>2. CASE WriteManifest
      <4>1. ~PendingRuntime /\ UNCHANGED <<log, mem>>
        BY <3>2 DEF WriteManifest, PendingRuntime
      <4>2. QED
        BY <2>1, <4>1 DEF IpcInv, MemInv
    <3>3. QED
      BY <1>4, <3>1, <3>2
  <2>3. MemInv'
    BY <2>2, MemPrefix DEF IpcInv, MemInv
  <2>4. Pending' = Pending /\ Current' = Current /\ Own' = Own
    BY <2>1 DEF Pending, Current, Own
  <2>5. PlaceInv' /\ NextInv'
    BY <2>1 DEF PlaceInv, NextInv, Candidate
  <2>6. HandInv'
    BY <2>1, <2>4 DEF IpcInv, HandInv
  <2>7. ~InHand' /\ ok' \subseteq 1..Len(issued)
    BY <2>1 DEF InHand, IpcInv, FreshInv
  <2>8. FreshInv'
    BY <2>1, <2>7, FreshKept
  <2>9. QED
    BY <2>3, <2>5, <2>6, <2>8 DEF IpcInv
<1>5. QED
  BY <1>1, <1>2, <1>3, <1>4

LEMMA IpcStep ==
    ASSUME Entries \subseteq {"ipc"}, TypeInv, StateInv, IpcInv, [Next]_vars
    PROVE  IpcInv'
<1>1. Kind
  BY StepKind
<1>2. CASE Recovery
  BY <1>1, <1>2, RecoveryIpc
<1>3. CASE Pipeline
  BY <1>1, <1>3, ReconcileIpc, PublishIpc, CommitIpc, CommitsSomething
  DEF Pipeline
<1>4. CASE Clients
  BY <1>4, IssueStep DEF Clients
<1>5. CASE Faults
  <2>1. pc # "down" /\ Abort
    BY <1>5 DEF Faults, StepFails, CrashIdle, AppendTorn, AppendUnsynced,
                ManifestUnsynced, OrdinalUnsynced, CreateUnsynced,
                PublishUnsynced, AcknowledgeUnsynced, Appending, Abort
  <2>2. QED
    BY <1>1, <2>1, FaultIpc
<1>6. CASE UNCHANGED vars
  BY <1>6 DEF vars, IpcInv, MemInv, PlaceInv, NextInv, HandInv, FreshInv, Fresh,
              InHand, Candidate, Own, Current, PendingRuntime, Pending
<1>7. QED
  BY <1>2, <1>3, <1>4, <1>5, <1>6 DEF Next

LEMMA IpcInit == Init => IpcInv
<1> SUFFICES ASSUME Init
             PROVE  IpcInv
  OBVIOUS
<1>1. /\ mem = <<>> /\ log = <<>> /\ outbox = <<>> /\ issued = <<>> /\ ok = {}
      /\ pc = "down" /\ ret = "none" /\ Len(log) = 0 /\ DOMAIN log = {}
      /\ Len(mem) = 0 /\ Len(issued) = 0
  BY DEF Init
<1>2. MemInv /\ FreshInv
  BY <1>1, BoundsAssumption DEF MemInv, FreshInv, Fresh, PendingRuntime
<1>3. QED
  BY <1>1, <1>2 DEF IpcInv, PlaceInv, NextInv, HandInv, Candidate

LEMMA IpcSafety ==
    ASSUME Entries \subseteq {"ipc"}
    PROVE  Spec => []IpcInv
<1>1. TypeInv /\ StateInv /\ IpcInv /\ [Next]_vars => IpcInv'
  BY IpcStep
<1>2. QED
  BY Safety, IpcInit, <1>1, PTL DEF Spec

(***************************************************************************)
(* What the runtime in memory holds is the beginning of the private log,   *)
(* whatever failed, where every mutation is reconciled before its handler  *)
(* runs (IPC); the console's and the exit's are not (PublicationConsole).  *)
(***************************************************************************)
THEOREM AppliedPersisted ==
    ASSUME Entries \subseteq {"ipc"}
    PROVE  Spec => []AppliedIsPersisted
<1>1. ASSUME TypeInv, IpcInv
      PROVE  AppliedIsPersisted
  <2>1. /\ mem \in Seq(Nat) /\ log \in Seq(Nat) /\ Len(mem) \in Nat
        /\ Len(log) \in Nat /\ Len(mem) <= Len(log)
        /\ \A k \in 1..Len(mem) : mem[k] = log[k]
    BY <1>1, LenProperties
    DEF TypeInv, TypeOK, DurableOK, VolatileOK, IpcInv, MemInv
  <2>2. SubSeq(mem, 1, Len(mem)) = mem
    BY <2>1, SubSeqFull
  <2>3. \A i \in 1..Len(mem) : log[i] \in Nat
    <3>1. \A i \in 1..Len(mem) : i \in 1..Len(log)
      BY <2>1
    <3>2. QED
      BY <2>1, <3>1, ElementOfSeq
  <2>4. /\ SubSeq(log, 1, Len(mem)) \in Seq(Nat)
        /\ Len(SubSeq(log, 1, Len(mem))) =
              IF 1 <= Len(mem) THEN Len(mem) - 1 + 1 ELSE 0
        /\ \A i \in 1..Len(mem) - 1 + 1 :
              SubSeq(log, 1, Len(mem))[i] = log[1 + i - 1]
    <3>1. 1 \in Int /\ Len(mem) \in Int
      BY <2>1
    <3>2. QED
      BY <2>3, <3>1, SubSeqProperties
  <2>5. /\ Len(SubSeq(log, 1, Len(mem))) = Len(mem)
        /\ \A i \in 1..Len(mem) : i \in 1..Len(mem) - 1 + 1 /\ 1 + i - 1 = i
    BY <2>1, <2>4
  <2>6. \A i \in 1..Len(mem) : mem[i] = SubSeq(log, 1, Len(mem))[i]
    BY <2>1, <2>4, <2>5
  <2>7. mem = SubSeq(log, 1, Len(mem))
    BY <2>1, <2>4, <2>5, <2>6, SeqEqual
  <2>8. QED
    BY <2>1, <2>2, <2>7 DEF AppliedIsPersisted, IsPrefix
<1>2. QED
  BY Safety, IpcSafety, <1>1, PTL

-----------------------------------------------------------------------------
(***************************************************************************)
(* The pipeline implements CommittedLog.                                   *)
(***************************************************************************)
Committed == IF Unapplied THEN log \o Pending.events ELSE log
Answered == {r \in ok : issued[r].kind = "runtime"}

LEMMA Stutters ==
    ASSUME UNCHANGED <<Committed, Told, Settled, Answered>>
    PROVE  [Abstract!Next]_(Abstract!vars)
BY DEF Abstract!vars, Committed, Answered

LEMMA Commits ==
    ASSUME NEW r \in 1..MaxRequests, NEW n \in 1..MaxBatch,
           Settled = Len(Committed), r \notin ToSet(Committed),
           Committed' = Committed \o [i \in 1..n |-> r],
           UNCHANGED <<Told, Settled, Answered>>
    PROVE  [Abstract!Next]_(Abstract!vars)
BY DEF Abstract!Next, Abstract!Commit, Abstract!ToSet, ToSet, Committed, Answered

LEMMA Announces ==
    ASSUME Told < Len(Committed), Told' = Told + 1,
           UNCHANGED <<Committed, Settled, Answered>>
    PROVE  [Abstract!Next]_(Abstract!vars)
BY DEF Abstract!Next, Abstract!Announce, Committed, Answered

LEMMA Acknowledges ==
    ASSUME Settled < Len(Committed), Told = Len(Committed),
           Settled' = Len(Committed),
           Answered' \in {Answered, Answered \cup {Last(Committed)}},
           UNCHANGED <<Committed, Told>>
    PROVE  [Abstract!Next]_(Abstract!vars)
BY DEF Abstract!Next, Abstract!Acknowledge, Abstract!Last, Last, Committed, Answered

\* A client is answered when its transaction is acknowledged.
Answers == /\ pc = "ack" /\ ret = "none" /\ MoveToLedger /\ UNCHANGED issued
           /\ ok' = ok \cup {Len(issued)}

LEMMA AnswerStep ==
    ASSUME Entries \subseteq {"ipc"}, TypeInv, StateInv, IpcInv, [Next]_vars
    PROVE  Answered' = Answered \/ Answers
<1>1. ASSUME UNCHANGED <<issued, ok>>
      PROVE  Answered' = Answered
  BY <1>1 DEF Answered
<1>2. ASSUME NEW r, issued' = Append(issued, r), UNCHANGED ok
      PROVE  Answered' = Answered
  <2>1. issued \in Seq(Request) /\ ok \subseteq 1..Len(issued)
    BY DEF TypeInv, TypeOK, HistoryOK, IpcInv, FreshInv
  <2>2. \A i \in 1..Len(issued) : issued'[i] = issued[i]
    BY <1>2, <2>1
  <2>3. QED
    BY <1>2, <2>1, <2>2 DEF Answered
<1>3. CASE Recovery
  <2>1. CASE LoadSuspends
    BY <1>2, <2>1 DEF LoadSuspends, Issue
  <2>2. CASE StartDriver \/ LoadRecover \/ LoadComplete
    BY <1>1, <2>2 DEF StartDriver, LoadRecover, LoadComplete, history
  <2>3. QED
    BY <1>3, <2>1, <2>2 DEF Recovery
<1>4. CASE Clients
  BY <1>2, <1>4 DEF Clients, IssueIpc, Issue
<1>5. CASE Faults
  <2>1. pc # "down" /\ Abort
    BY <1>5 DEF Faults, StepFails, CrashIdle, AppendTorn, AppendUnsynced,
                ManifestUnsynced, OrdinalUnsynced, CreateUnsynced,
                PublishUnsynced, AcknowledgeUnsynced, Appending, Abort
  <2>2. QED
    BY <1>1, <2>1, AbortEnds
<1>6. CASE Pipeline
  <2>1. CASE Acknowledge
    BY <1>1, <2>1 DEF Acknowledge, Reply, history, Answers
  <2>2. CASE \/ ReconcileDone \/ ReconcilePrivate \/ PublishRecord \/ Published
             \/ Execute \/ Preflight \/ TakeOrdinal \/ CreatePending
             \/ AppendPrivate \/ WriteManifest
    BY <1>1, <2>2
    DEF ReconcileDone, ReconcilePrivate, PublishRecord, Published, Execute,
        Preflight, TakeOrdinal, CreatePending, AppendPrivate, WriteManifest,
        history
  <2>3. QED
    BY <1>6, <2>1, <2>2, CommitsSomething DEF Pipeline
<1>7. CASE UNCHANGED vars
  BY <1>1, <1>7 DEF vars
<1>8. QED
  BY <1>3, <1>4, <1>5, <1>6, <1>7 DEF Next

\* A batch is committed when it is written ahead, and stays committed.
LEMMA CreatesCommits ==
    ASSUME TypeInv, StateInv, IpcInv, Creates, Answered' = Answered
    PROVE  [Abstract!Next]_(Abstract!vars)
<1>1. /\ ~PendingRuntime /\ Pending' = Prepared
      /\ Settled = Len(log) /\ Settled' = Len(log) /\ log' = log
      /\ PendingRuntime' <=> Prepared.kind = "runtime"
      /\ Prepared.kind = "runtime" => Prepared.base = Len(log)
      /\ Prepared.kind = Current.kind /\ pc = "create" /\ issued # <<>>
  BY CreateFacts DEF Creates, TypeInv, Control
<1>2. Told' = Told
  BY SameJournal DEF Creates
<1>3. ~Unapplied /\ Committed = log
  BY <1>1 DEF Unapplied, Committed
<1>4. CASE Current.kind = "runtime"
  <2> DEFINE r == Len(issued)
             n == Current.size
  <2>1. Prepared.events = Own
    BY <1>4, PreparedOwn DEF IpcInv
  <2>2. Unapplied' /\ Committed' = log \o Own
    BY <1>1, <1>4, <2>1 DEF Unapplied, Committed
  <2>3. r \in 1..MaxRequests /\ n \in 1..MaxBatch
    BY <1>1, OwnFacts, BoundsAssumption
    DEF TypeInv, TypeOK, IpcInv, FreshInv
  <2>4. Own = [i \in 1..n |-> r]
    BY DEF Own, Batch
  <2>5. r \notin ToSet(log)
    BY <1>1 DEF IpcInv, FreshInv, Fresh, InHand, ToSet
  <2> HIDE DEF r, n
  <2>6. QED
    BY <1>1, <1>2, <1>3, <2>2, <2>3, <2>4, <2>5, Commits
<1>5. CASE Current.kind # "runtime"
  <2>1. ~Unapplied' /\ Committed' = log
    BY <1>1, <1>5 DEF Unapplied, Committed
  <2>2. QED
    BY <1>1, <1>2, <1>3, <2>1, Stutters
<1>6. QED
  BY <1>4, <1>5

LEMMA SettlesAcknowledges ==
    ASSUME TypeInv, StateInv, TellInv, IpcInv, Settles,
           Answered' = Answered \/ Answers
    PROVE  [Abstract!Next]_(Abstract!vars)
<1>1. /\ outbox # <<>> /\ ~PendingRuntime' /\ Settled' = Len(log) /\ log' = log
      /\ Settled = IF PendingRuntime THEN Pending.base ELSE Len(log)
      /\ PendingRuntime => After(Pending)
      /\ Pending \in Transaction /\ Len(log) \in Nat /\ Pending.base \in Nat
      /\ Len(Pending.events) \in Nat /\ Len(Pending.events) > 0 /\ pc = "ack"
  BY SettleFacts, PendingFacts DEF Settles
<1>2. Told' = Told
  BY SameJournal DEF Settles
<1>3. ~Unapplied /\ ~Unapplied'
  BY <1>1 DEF Unapplied, After
<1>4. Committed = log /\ Committed' = log
  BY <1>1, <1>3 DEF Committed
<1>5. CASE PendingRuntime
  <2>1. Told = Len(log) /\ Settled < Len(log)
    BY <1>1, <1>5 DEF TellInv, After
  <2>2. Answers => Answered' \in {Answered, Answered \cup {Last(log)}}
    <3>1. ASSUME Answers
          PROVE  Answered' \in {Answered, Answered \cup {Last(log)}}
      <4>1. /\ issued # <<>> /\ Current.kind = "runtime" /\ Pending.events = Own
        BY <1>1, <1>5, <3>1 DEF Answers, IpcInv, HandInv, PendingRuntime
      <4>2. Own[Len(Own)] = Len(issued)
        <5>1. Own \in Seq(Nat) /\ Len(Own) \in Nat /\ Len(Own) > 0
              /\ \A i \in DOMAIN Own : Own[i] = Len(issued)
          BY <4>1, OwnFacts DEF TypeInv, TypeOK
        <5>2. Len(Own) \in 1..Len(Own) /\ DOMAIN Own = 1..Len(Own)
          BY <5>1, LenProperties
        <5>3. QED
          BY <5>1, <5>2
      <4>3. Last(log) = Len(issued)
        <5>1. Len(Pending.events) \in 1..Len(Pending.events)
          BY <1>1
        <5>2. /\ Len(log) = Pending.base + Len(Pending.events)
              /\ log[Pending.base + Len(Pending.events)]
                    = Pending.events[Len(Pending.events)]
          BY <1>1, <1>5, <5>1 DEF After
        <5>3. QED
          BY <4>1, <4>2, <5>2 DEF Last
      <4>4. Answered' = Answered \cup {Len(issued)}
        <5>1. issued[Len(issued)].kind = "runtime"
          BY <4>1 DEF Current
        <5>2. QED
          BY <3>1, <5>1 DEF Answers, Answered
      <4>5. QED
        BY <4>3, <4>4
    <3>2. QED
      BY <3>1
  <2>3. Answered' \in {Answered, Answered \cup {Last(log)}}
    BY <2>2
  <2>4. QED
    BY <1>1, <1>2, <1>4, <2>1, <2>3, Acknowledges
<1>6. CASE ~PendingRuntime
  <2>1. Settled' = Settled
    BY <1>1, <1>6
  <2>2. Answered' = Answered
    <3>1. ASSUME Answers
          PROVE  Answered' = Answered
      <4>1. Current.kind # "runtime"
        BY <1>1, <1>6, <3>1 DEF Answers, IpcInv, HandInv, PendingRuntime
      <4>2. issued[Len(issued)].kind # "runtime"
        BY <4>1 DEF Current
      <4>3. QED
        BY <3>1, <4>2 DEF Answers, Answered
    <3>2. QED
      BY <3>1
  <2>3. QED
    BY <1>2, <1>4, <2>1, <2>2, Stutters
<1>7. QED
  BY <1>5, <1>6

LEMMA RefinementStep ==
    ASSUME Entries \subseteq {"ipc"},
           TypeInv, StateInv, TellInv, IpcInv, [Next]_vars
    PROVE  [Abstract!Next]_(Abstract!vars)
<1>1. Kind
  BY StepKind
<1>2. Answered' = Answered \/ Answers
  BY AnswerStep
<1>3. ASSUME pc # "ack" \/ outbox' = outbox
      PROVE  Answered' = Answered
  <2>1. CASE pc # "ack"
    BY <1>2, <2>1 DEF Answers
  <2>2. ASSUME Answers, outbox' = outbox
        PROVE  FALSE
    <3>1. outbox # <<>>
      BY <2>2 DEF Answers, TypeInv, Control
    <3>2. Len(outbox') = Len(outbox) - 1 /\ Len(outbox) \in Nat
      BY <2>2, <3>1, PendingType, LenProperties
      DEF Answers, MoveToLedger, TypeInv, TypeOK, DurableOK
    <3>3. QED
      BY <2>2, <3>2
  <2>3. QED
    BY <1>2, <1>3, <2>1, <2>2
<1>4. CASE Calm
  <2>1. /\ UNCHANGED <<log, outbox>> /\ Pending' = Pending
        /\ PendingRuntime' = PendingRuntime /\ Settled' = Settled
        /\ Committed' = Committed
    BY <1>4 DEF Calm, Pending, PendingRuntime, Settled, Committed, Unapplied
  <2>2. Told' = Told
    BY <1>4, SameJournal DEF Calm
  <2>3. QED
    BY <1>3, <2>1, <2>2, Stutters
<1>5. CASE Grows
  <2>1. /\ UNCHANGED outbox /\ PendingRuntime /\ Pending' = Pending
        /\ PendingRuntime' /\ Settled' = Settled
    BY <1>5 DEF Grows, Pending, PendingRuntime, Settled
  <2>2. /\ Pending \in Transaction /\ Pending.base = Len(log)
        /\ Len(Pending.events) \in Nat /\ Len(Pending.events) > 0
        /\ Len(log) \in Nat
    BY <1>5, <2>1, PendingFacts DEF Grows, Before, PendingRuntime
  <2>3. Len(log') = Pending.base + Len(Pending.events)
    BY <1>5, <2>2, AppendFacts DEF Grows, TypeInv, TypeOK
  <2>4. Unapplied /\ ~Unapplied'
    BY <2>1, <2>2, <2>3 DEF Unapplied
  <2>5. Committed' = Committed
    BY <1>5, <2>4 DEF Committed, Grows
  <2>6. Told' = Told
    BY <1>5, SameJournal DEF Grows
  <2>7. QED
    BY <1>3, <2>1, <2>5, <2>6, Stutters
<1>6. CASE Publishes
  <2>1. /\ UNCHANGED <<log, outbox>> /\ Pending' = Pending
        /\ PendingRuntime' = PendingRuntime /\ Settled' = Settled
        /\ Committed' = Committed /\ journal \in Seq(Record)
    BY <1>6 DEF Publishes, Pending, PendingRuntime, Settled, Committed,
                Unapplied, TypeInv, TypeOK, DurableOK
  <2>2. Answered' = Answered
    BY <1>3, <2>1
  <2>3. CASE PendingRuntime
    <3>1. Settled \in Nat /\ Settled <= Told /\ Told \in Nat
      <4>1. Settled \in Nat /\ Len(log) \in Nat
        BY <2>3, PendingFacts DEF Settled, PendingRuntime
      <4>2. Told \in Nat
        BY <2>1, TellsFinite
      <4>3. QED
        BY <4>1, <4>2 DEF TellInv
    <3>2. PICK r \in Record :
             /\ journal' = Append(journal, r)
             /\ r.kind = "runtime" /\ r.key = Told + 1 /\ Told + 1 <= Len(log)
      BY <1>6, <2>3, <3>1, PublishFacts DEF Publishes, TellInv
    <3>3. \A n : n = Len(journal) + 1 => Told' = Told + 1
      BY <2>1, <3>2, ToldOne
    <3>4. Told' = Told + 1
      BY <3>3
    <3>5. ~Unapplied
      <4>1. After(Pending) /\ Len(Pending.events) \in Nat
            /\ Len(Pending.events) > 0 /\ Pending.base \in Nat
        BY <1>6, <2>3, PendingFacts DEF Publishes, PendingRuntime
      <4>2. QED
        BY <4>1 DEF Unapplied, After
    <3>6. Committed = log /\ Len(log) \in Nat
      BY <2>3, <3>5, PendingFacts DEF Committed, PendingRuntime
    <3>7. Told < Len(Committed)
      BY <3>1, <3>2, <3>6
    <3>8. QED
      BY <2>1, <2>2, <3>4, <3>7, Announces
  <2>4. CASE ~PendingRuntime
    <3>1. PICK r \in Record :
             journal' = Append(journal, r) /\ r.kind # "runtime"
      BY <1>6, <2>4, PublishManifest DEF Publishes
    <3>2. Told' = Told
      BY <2>1, <3>1, ToldNothing
    <3>3. QED
      BY <2>1, <2>2, <3>2, Stutters
  <2>5. QED
    BY <2>3, <2>4
<1>7. CASE Settles
  BY <1>2, <1>7, SettlesAcknowledges
<1>8. CASE Creates
  BY <1>3, <1>8, CreatesCommits DEF Creates
<1>9. QED
  BY <1>1, <1>4, <1>5, <1>6, <1>7, <1>8 DEF Kind

LEMMA RefinementInit == Init => Abstract!Init
<1> SUFFICES ASSUME Init
             PROVE  Abstract!Init
  OBVIOUS
<1>1. log = <<>> /\ outbox = <<>> /\ ok = {} /\ Len(log) = 0
  BY DEF Init
<1>2. Tells = {}
  BY DEF Init, Tells
<1>3. Told = 0
  BY <1>2, FS_EmptySet DEF Told
<1>4. ~PendingRuntime /\ Settled = 0 /\ ~Unapplied
  BY <1>1 DEF PendingRuntime, Settled, Unapplied
<1>5. {r \in ok : issued[r].kind = "runtime"} = {}
  BY <1>1
<1>6. QED
  BY <1>1, <1>3, <1>4, <1>5 DEF Abstract!Init

(***************************************************************************)
(* What the clients see of the pipeline is CommittedLog, whatever failed   *)
(* and whenever the driver died, where every mutation is reconciled before *)
(* its handler runs: a request is committed whole when its outbox file is  *)
(* created, once, and nothing else is committed before it is published and *)
(* acknowledged; "ok" is said of committed and settled requests only.      *)
(***************************************************************************)
THEOREM Implements ==
    ASSUME Entries \subseteq {"ipc"}
    PROVE  Spec => ImplementsCommittedLog
<1>1. TypeInv /\ StateInv /\ TellInv /\ IpcInv /\ [Next]_vars
         => [Abstract!Next]_(Abstract!vars)
  BY RefinementStep
<1>2. QED
  BY Safety, Telling, IpcSafety, RefinementInit, <1>1, PTL
  DEF Spec, ImplementsCommittedLog, Abstract!Spec
=============================================================================
