---------------------------- MODULE JournalTasks ----------------------------
(***************************************************************************)
(* What operations of Journal consist of: the types of transactions and    *)
(* tasks, and that every step leaves tasks in an order that makes sense.   *)
(* JournalProofs rests on it.                                              *)
(***************************************************************************)
EXTENDS Journal, SequenceTheorems, FiniteSetTheorems, WellFoundedInduction,
        TLAPS

-----------------------------------------------------------------------------
(* Types.                                                                  *)

\* What is recorded of the run and of an activation.
RunNames == {"revision", "started", "prepared", "applied", "ended", "paused"}
ActNames == {"starting", "ready", "completed", "closed", "unkilled", "cleaned",
             "agent", "session", "bound", "left", "input", "hook", "compacted",
             "exited"}
Recs == {<<n>> : n \in RunNames} \cup (ActNames \X Activations)
Cleanness == {"owned", "failed", "complete"}
ActStates == [preserved : BOOLEAN, cleanup : Cleanness]
ActMaps == UNION {[D -> ActStates] : D \in SUBSET Activations}
Manifests == [acts : ActMaps, flow : {"none", "prepared", "applied"}]
Logs == [status : {"running", "paused", "ended"},
         exited : SUBSET Activations, revised : BOOLEAN]
FactRecords == [panes : SUBSET Activations, bound : SUBSET Activations,
                cleaning : SUBSET Activations, typed : SUBSET Activations,
                file : BOOLEAN, available : BOOLEAN]
Transactions == [manifest : Manifests, log : Logs, records : Seq(Recs)]

\* Transactions of an activation and of the run.
ActWhats == {"capture", "preserve", "unkilled", "clean", "agent", "session",
             "bound", "left", "input", "hook", "exit"}
RunWhats == {"prepared", "applied", "end", "pause", "revised"}
Publications == (ActWhats \X Activations) \cup (RunWhats \X {0})

PaneTasks == {"cleanup", "kill", "preserve", "clean", "release"}
ActTasks == PaneTasks \cup {"allocate", "bind", "type", "bound"}
RunTasks == {"private", "append", "project", "acknowledge", "outbox", "gate",
             "owed", "repair", "revision", "fail", "file", "available",
             "suspend"}
Tasks == ({"begin"} \X Publications) \cup (ActTasks \X Activations)
           \cup ({"finalize"} \X {"panes", "pending", "exited"})
           \cup (RunTasks \X {0})
Ops == {"none", "down", "activate", "bind", "hook", "deliver", "revise",
        "bind_run", "finish", "stop", "exit", "shutdown", "load"}
Jobs == [op : Ops, todo : Seq(Tasks)]

TypeInv ==
    /\ events \in Seq(Recs) /\ cursor \in -1..Len(events) /\ seal \in Nat
    /\ {torn, fragment, known} \subseteq BOOLEAN
    /\ public \in {"open", "sealed", "corrupt"}
    /\ manifest \in Manifests /\ log \in Logs /\ facts \in FactRecords
    /\ IsFiniteSet(facts.panes) /\ IsFiniteSet(facts.cleaning)
    /\ outbox \in Seq(Transactions) /\ Len(outbox) <= 1
    /\ job \in Jobs

-----------------------------------------------------------------------------
(* Transactions.                                                           *)

LEMMA SetAct ==
    ASSUME NEW m \in Manifests, NEW a,
           NEW field \in {"preserved", "cleanup"}, NEW value,
           field = "preserved" => value \in BOOLEAN,
           field = "cleanup" => value \in Cleanness
    PROVE  [m EXCEPT !.acts[a][field] = value] \in Manifests
<1>1. PICK D \in SUBSET Activations : m.acts \in [D -> ActStates]
  BY DEF Manifests, ActMaps
<1>2. ASSUME NEW r \in ActStates
      PROVE  [r EXCEPT ![field] = value] \in ActStates
  BY <1>2 DEF ActStates
<1>3. [m.acts EXCEPT ![a] = [m.acts[a] EXCEPT ![field] = value]]
         \in [D -> ActStates]
  BY <1>1, <1>2
<1>4. QED
  BY <1>1, <1>3 DEF Manifests, ActMaps

LEMMA AddAct ==
    ASSUME NEW m \in Manifests, NEW a \in Activations, NEW r \in ActStates
    PROVE  [m EXCEPT !.acts = With(@, a, r)] \in Manifests
<1>1. PICK D \in SUBSET Activations : m.acts \in [D -> ActStates]
  BY DEF Manifests, ActMaps
<1>2. With(m.acts, a, r) \in [D \cup {a} -> ActStates]
  BY <1>1 DEF With
<1>3. With(m.acts, a, r) \in ActMaps
  BY <1>2 DEF ActMaps
<1>4. QED
  BY <1>3 DEF Manifests

LEMMA SetFlow ==
    ASSUME NEW m \in Manifests, NEW f \in {"none", "prepared", "applied"}
    PROVE  [m EXCEPT !.flow = f] \in Manifests
BY DEF Manifests

LEMMA SetStatus ==
    ASSUME NEW l \in Logs, NEW s \in {"running", "paused", "ended"}
    PROVE  /\ [l EXCEPT !.status = s] \in Logs
           /\ [l EXCEPT !.status = s].status = s
           /\ [l EXCEPT !.status = s].revised = l.revised
BY DEF Logs

LEMMA SetExited ==
    ASSUME NEW l \in Logs, NEW a \in Activations
    PROVE  /\ [l EXCEPT !.exited = @ \cup {a}] \in Logs
           /\ [l EXCEPT !.exited = @ \cup {a}].status = l.status
           /\ [l EXCEPT !.exited = @ \cup {a}].revised = l.revised
BY DEF Logs

LEMMA SetRevised ==
    ASSUME NEW l \in Logs
    PROVE  /\ [l EXCEPT !.revised = TRUE] \in Logs
           /\ [l EXCEPT !.revised = TRUE].status = l.status
BY DEF Logs

LEMMA ActRecord ==
    ASSUME NEW n \in ActNames, NEW a \in Activations
    PROVE  <<n, a>> \in Recs /\ <<n, a>> # <<"ended">>
<1>1. Len(<<n, a>>) = 2 /\ Len(<<"ended">>) = 1
  OBVIOUS
<1>2. QED
  BY <1>1 DEF Recs

LEMMA OneRecord ==
    ASSUME NEW r \in Recs
    PROVE  /\ <<r>> \in Seq(Recs)
           /\ \A e : Contains(<<r>>, e) <=> e = r
BY DEF Contains

LEMMA TwoRecords ==
    ASSUME NEW r \in Recs, NEW q \in Recs
    PROVE  /\ <<r, q>> \in Seq(Recs)
           /\ \A e : Contains(<<r, q>>, e) <=> e = r \/ e = q
BY DEF Contains

\* Records that do not tell of the end of the run.
Quiet(records) == /\ records \in Seq(Recs)
                  /\ ~Contains(records, <<"ended">>)

LEMMA OneActRecord ==
    ASSUME NEW n \in ActNames, NEW a \in Activations
    PROVE  Quiet(<<<<n, a>>>>)
BY ActRecord, OneRecord DEF Quiet

LEMMA TwoActRecords ==
    ASSUME NEW a \in Activations
    PROVE  /\ Quiet(<<<<"starting", a>>, <<"ready", a>>>>)
           /\ Quiet(<<<<"completed", a>>, <<"closed", a>>>>)
           /\ Quiet(<<<<"hook", a>>, <<"compacted", a>>>>)
<1>1. ASSUME NEW n \in ActNames, NEW k \in ActNames
      PROVE  Quiet(<<<<n, a>>, <<k, a>>>>)
  <2>1. <<n, a>> \in Recs /\ <<n, a>> # <<"ended">>
    BY ActRecord
  <2>2. <<k, a>> \in Recs /\ <<k, a>> # <<"ended">>
    BY ActRecord
  <2>3. QED
    BY <2>1, <2>2, TwoRecords DEF Quiet
<1>2. QED
  BY <1>1 DEF ActNames

LEMMA OneRunRecord ==
    ASSUME NEW n \in RunNames
    PROVE  /\ <<<<n>>>> \in Seq(Recs)
           /\ Contains(<<<<n>>>>, <<"ended">>) => n = "ended"
<1>1. <<n>> \in Recs
  BY DEF Recs
<1>2. QED
  BY <1>1, OneRecord

\* A transaction of the manifest leaves the log alone, one of the log leaves
\* the manifest alone, and only the end of the run ends it.
Publishes(t, what) ==
    /\ t \in Transactions
    /\ ~InLog(what) => t.log = log
    /\ InLog(what) => t.manifest = manifest
    /\ t.log.status = CASE what = "end" -> "ended"
                        [] what = "pause" -> "paused"
                        [] OTHER -> log.status
    /\ t.log.revised => log.revised \/ what = "revised"
    /\ Contains(t.records, <<"ended">>) => what = "end"

LEMMA ManifestTransaction ==
    ASSUME log \in Logs, NEW m \in Manifests,
           NEW records, Quiet(records), NEW what, ~InLog(what)
    PROVE  Publishes(Publishing(m, log, records), what)
<1>1. Publishing(m, log, records) \in Transactions
  BY DEF Publishing, Transactions, Quiet
<1>2. what \notin {"end", "pause"}
  BY DEF InLog
<1>3. QED
  BY <1>1, <1>2 DEF Publishing, Publishes, Quiet

LEMMA LogTransaction ==
    ASSUME manifest \in Manifests, NEW l \in Logs,
           NEW records \in Seq(Recs), NEW what, InLog(what),
           Contains(records, <<"ended">>) => what = "end",
           l.status = CASE what = "end" -> "ended"
                        [] what = "pause" -> "paused"
                        [] OTHER -> log.status,
           l.revised => log.revised \/ what = "revised"
    PROVE  Publishes(Publishing(manifest, l, records), what)
<1>1. Publishing(manifest, l, records) \in Transactions
  BY DEF Publishing, Transactions
<1>2. QED
  BY <1>1 DEF Publishing, Publishes

LEMMA CaptureStartedIs ==
    ASSUME manifest \in Manifests, log \in Logs, NEW a \in Activations
    PROVE  Publishes(CaptureStarted(a), "capture")
<1> DEFINE r == [preserved |-> FALSE, cleanup |-> "owned"]
           m == [manifest EXCEPT !.acts = With(@, a, r)]
           records == <<<<"starting", a>>, <<"ready", a>>>>
<1>1. r \in ActStates
  BY DEF ActStates, Cleanness
<1>2. m \in Manifests
  BY <1>1, AddAct
<1>3. Quiet(records)
  BY TwoActRecords
<1>4. CaptureStarted(a) = Publishing(m, log, records)
  BY DEF CaptureStarted, ProbeRecord
<1> HIDE DEF m, records
<1>5. QED
  BY <1>2, <1>3, <1>4, ManifestTransaction DEF InLog

LEMMA CaptureEndedIs ==
    ASSUME manifest \in Manifests, log \in Logs, NEW a \in Activations
    PROVE  Publishes(CaptureEnded(a), "preserve")
<1> DEFINE m == Acts(a, "preserved", TRUE)
           records == <<<<"completed", a>>, <<"closed", a>>>>
<1>1. m \in Manifests
  BY SetAct DEF Acts
<1>2. Quiet(records)
  BY TwoActRecords
<1>3. CaptureEnded(a) = Publishing(m, log, records)
  BY DEF CaptureEnded, ProbeRecord
<1> HIDE DEF m, records
<1>4. QED
  BY <1>1, <1>2, <1>3, ManifestTransaction DEF InLog

LEMMA PaneCleanedIs ==
    ASSUME manifest \in Manifests, log \in Logs, NEW a \in Activations,
           NEW o \in {"failed", "complete"}, NEW what, ~InLog(what)
    PROVE  Publishes(PaneCleaned(a, o), what)
<1> DEFINE m == Acts(a, "cleanup", o)
           n == IF o = "failed" THEN "unkilled" ELSE "cleaned"
<1>1. m \in Manifests
  BY SetAct DEF Acts, Cleanness
<1>2. n \in ActNames
  BY DEF ActNames
<1> HIDE DEF m, n
<1>3. Publishes(Publishing(m, log, <<<<n, a>>>>), what)
  BY <1>1, <1>2, OneActRecord, ManifestTransaction
<1>4. QED
  BY <1>3 DEF PaneCleaned, m, n

LEMMA SessionIs ==
    ASSUME manifest \in Manifests, log \in Logs, NEW a \in Activations,
           NEW what \in {"session", "bound", "left"}
    PROVE  Publishes(SessionRecord(what, a), what)
BY OneActRecord, ManifestTransaction DEF SessionRecord, ActNames, InLog

LEMMA RecordIs ==
    ASSUME manifest \in Manifests, log \in Logs, NEW a \in Activations
    PROVE  /\ Publishes(ReadyRecord(a), "agent")
           /\ Publishes(InputRecord(a), "input")
           /\ Publishes(HookRecord(a), "hook")
<1>1. Publishes(ReadyRecord(a), "agent")
  BY OneActRecord, ManifestTransaction DEF ReadyRecord, ActNames, InLog
<1>2. Publishes(InputRecord(a), "input")
  BY OneActRecord, ManifestTransaction DEF InputRecord, ActNames, InLog
<1>3. Publishes(HookRecord(a), "hook")
  <2> DEFINE records == <<<<"hook", a>>, <<"compacted", a>>>>
  <2>1. Quiet(records)
    BY TwoActRecords
  <2>2. HookRecord(a) = Publishing(manifest, log, records)
    BY DEF HookRecord
  <2> HIDE DEF records
  <2>3. QED
    BY <2>1, <2>2, ManifestTransaction DEF InLog
<1>4. QED
  BY <1>1, <1>2, <1>3

LEMMA RevisionIs ==
    ASSUME manifest \in Manifests, log \in Logs,
           NEW f \in {"prepared", "applied"}
    PROVE  Publishes(RevisionRecord(f), f)
<1> DEFINE m == [manifest EXCEPT !.flow = f]
<1>1. m \in Manifests
  BY SetFlow
<1> HIDE DEF m
<1>2. Quiet(<<<<f>>>>)
  BY OneRunRecord DEF RunNames, Quiet
<1>3. QED
  BY <1>1, <1>2, ManifestTransaction DEF RevisionRecord, InLog, m

LEMMA RunRecordIs ==
    ASSUME manifest \in Manifests, log \in Logs
    PROVE  /\ Publishes(RunRecord("ended"), "end")
           /\ Publishes(RunRecord("paused"), "pause")
<1> DEFINE l(s) == [log EXCEPT !.status = s]
<1>1. ASSUME NEW s \in {"paused", "ended"}
      PROVE  /\ l(s) \in Logs /\ l(s).status = s
             /\ l(s).revised => log.revised
             /\ <<<<s>>>> \in Seq(Recs)
             /\ Contains(<<<<s>>>>, <<"ended">>) => s = "ended"
  <2>1. l(s) \in Logs /\ l(s).status = s /\ l(s).revised = log.revised
    BY <1>1, SetStatus
  <2>2. s \in RunNames
    BY <1>1 DEF RunNames
  <2>3. QED
    BY <2>1, <2>2, OneRunRecord
<1> HIDE DEF l
<1>2. Publishes(Publishing(manifest, l("ended"), <<<<"ended">>>>), "end")
  BY <1>1, LogTransaction DEF InLog
<1>3. Publishes(Publishing(manifest, l("paused"), <<<<"paused">>>>), "pause")
  BY <1>1, LogTransaction DEF InLog
<1>4. QED
  BY <1>2, <1>3 DEF RunRecord, l

LEMMA ExitIs ==
    ASSUME manifest \in Manifests, log \in Logs, NEW a \in Activations
    PROVE  Publishes(ExitRecord(a), "exit")
<1> DEFINE l == [log EXCEPT !.exited = @ \cup {a}]
<1>1. l \in Logs /\ l.status = log.status /\ l.revised = log.revised
  BY SetExited
<1> HIDE DEF l
<1>2. Publishes(Publishing(manifest, l, <<<<"exited", a>>>>), "exit")
  BY <1>1, OneActRecord, LogTransaction DEF ActNames, InLog, Quiet
<1>3. QED
  BY <1>2 DEF ExitRecord, l

LEMMA FlowIs ==
    ASSUME manifest \in Manifests, log \in Logs
    PROVE  Publishes(FlowRecord, "revised")
<1> DEFINE l == [log EXCEPT !.revised = TRUE]
<1>1. l \in Logs /\ l.status = log.status
  BY SetRevised
<1> HIDE DEF l
<1>2. <<>> \in Seq(Recs) /\ ~Contains(<<>>, <<"ended">>)
  BY DEF Contains
<1>3. Publishes(Publishing(manifest, l, <<>>), "revised")
  BY <1>1, <1>2, LogTransaction DEF InLog
<1>4. QED
  BY <1>3 DEF FlowRecord, l

LEMMA TransactionIs ==
    ASSUME manifest \in Manifests, log \in Logs, NEW p \in Publications
    PROVE  Publishes(Transaction(p[1], p[2]), p[1])
<1> DEFINE a == p[2]
<1>1. CASE p[1] \in ActWhats
  <2>1. a \in Activations
    BY <1>1 DEF Publications, ActWhats, RunWhats
  <2>2. CASE p[1] \in {"capture", "preserve", "unkilled", "clean"}
    BY <2>1, <2>2, CaptureStartedIs, CaptureEndedIs, PaneCleanedIs
    DEF Transaction, InLog
  <2>3. CASE p[1] \in {"agent", "input", "hook", "exit"}
    BY <2>1, <2>3, RecordIs, ExitIs DEF Transaction
  <2>4. CASE p[1] \in {"session", "bound", "left"}
    BY <2>1, <2>4, SessionIs DEF Transaction
  <2>5. QED
    BY <1>1, <2>2, <2>3, <2>4 DEF ActWhats
<1>2. CASE p[1] \in {"prepared", "applied"}
  BY <1>2, RevisionIs DEF Transaction, FlowPrepared, FlowApplied
<1>3. CASE p[1] \in {"end", "pause", "revised"}
  BY <1>3, RunRecordIs, FlowIs DEF Transaction
<1>4. QED
  BY <1>1, <1>2, <1>3 DEF Publications, RunWhats

-----------------------------------------------------------------------------
(* What an operation has left to do.                                       *)

LEMMA LeastExists ==
    ASSUME NEW S \in SUBSET Nat, S # {}
    PROVE  \E m \in S : \A y \in S : m <= y
<1>1. PICK m \in S : \A y \in S : <<y, m>> \notin OpToRel(<, Nat)
  BY NatLessThanWellFounded, WFMin
<1>2. ASSUME NEW y \in S, y < m
      PROVE  FALSE
  <2>1. <<y, m>> \in Nat \X Nat
    OBVIOUS
  <2>2. <<y, m>> \in OpToRel(<, Nat)
    BY <1>2, <2>1 DEF OpToRel
  <2>3. QED
    BY <1>1, <2>2
<1>3. QED
  BY <1>2

\* The tasks r are t and then s from c on.
Follows(r, t, s, c) ==
    /\ r \in Seq(Tasks)
    /\ Len(s) \in Nat /\ DOMAIN s = 1..Len(s)
    /\ Len(t) \in Nat /\ DOMAIN t = 1..Len(t)
    /\ Len(r) \in Nat /\ DOMAIN r = 1..Len(r)
    /\ Len(r) = Len(t) + Len(s) + 1 - c
    /\ \A i \in DOMAIN t : i \in DOMAIN r /\ r[i] = t[i]
    /\ \A k \in c..Len(s) : /\ k + Len(t) + 1 - c \in DOMAIN r
                            /\ r[k + Len(t) + 1 - c] = s[k]
    /\ \A i \in DOMAIN r :
          \/ i \in DOMAIN t /\ r[i] = t[i]
          \/ /\ i > Len(t)
             /\ \E k \in c..Len(s) : /\ k \in DOMAIN s /\ r[i] = s[k]
                                     /\ i = k + Len(t) + 1 - c

\* The operation goes on with t and then its tasks from c on.
GoesOn(t, c) ==
    /\ job' \in Jobs
    /\ Follows(job'.todo, t, job.todo, c)
    /\ job'.op = IF job'.todo # <<>> THEN job.op
                 ELSE IF job.op = "shutdown" THEN "down" ELSE "none"

\* The operation is over, or goes on with a cleanup.
Fails ==
    /\ job' \in Jobs
    /\ \/ /\ job'.todo = <<>>
          /\ job'.op = IF job.op \in {"load", "shutdown"} THEN "down"
                       ELSE "none"
       \/ /\ job.op \in {"stop", "shutdown"} /\ job'.op = job.op
          /\ \E c \in 2..Len(job.todo) :
                /\ job.todo[c][1] = "cleanup"
                /\ Follows(job'.todo, <<>>, job.todo, c)

LEMMA DoesStep ==
    ASSUME job \in Jobs, NEW s \in Seq(Tasks), Does(s)
    PROVE  /\ job' \in Jobs /\ job'.todo = s
           /\ job'.op = IF s # <<>> THEN job.op
                        ELSE IF job.op = "shutdown" THEN "down" ELSE "none"
<1>1. CASE s = <<>>
  BY <1>1 DEF Does, Ended, Down, Idle, Jobs, Ops
<1>2. CASE s # <<>>
  <2>1. job' = [job EXCEPT !.todo = s]
    BY <1>2 DEF Does
  <2>2. QED
    BY <1>2, <2>1 DEF Jobs
<1>3. QED
  BY <1>1, <1>2

LEMMA Place ==
    ASSUME NEW l \in Nat, NEW m \in Nat, NEW c \in 1..(m + 1),
           NEW i \in (l + 1)..(l + m + 1 - c)
    PROVE  \E k \in c..m : i = k + l + 1 - c
<1>1. i - l - 1 + c \in c..m /\ i = (i - l - 1 + c) + l + 1 - c
  OBVIOUS
<1>2. QED
  BY <1>1

LEMMA FollowsAt ==
    ASSUME NEW s \in Seq(Tasks), NEW t \in Seq(Tasks), NEW r \in Seq(Tasks),
           NEW c \in 1..(Len(s) + 1), Len(r) = Len(t) + Len(s) + 1 - c,
           \A i \in 1..Len(t) : r[i] = t[i],
           \A k \in c..Len(s) : r[k + Len(t) + 1 - c] = s[k]
    PROVE  Follows(r, t, s, c)
<1>1. /\ Len(s) \in Nat /\ DOMAIN s = 1..Len(s)
      /\ Len(t) \in Nat /\ DOMAIN t = 1..Len(t)
      /\ Len(r) \in Nat /\ DOMAIN r = 1..Len(r)
  BY LenProperties
<1>2. \A i \in DOMAIN t : i \in DOMAIN r /\ r[i] = t[i]
  BY <1>1
<1>3. \A k \in c..Len(s) : /\ k + Len(t) + 1 - c \in DOMAIN r
                           /\ r[k + Len(t) + 1 - c] = s[k]
  BY <1>1
<1>4. ASSUME NEW i \in DOMAIN r, i > Len(t)
      PROVE  \E k \in c..Len(s) : /\ k \in DOMAIN s /\ r[i] = s[k]
                                  /\ i = k + Len(t) + 1 - c
  <2>1. i \in (Len(t) + 1)..(Len(t) + Len(s) + 1 - c)
    BY <1>1, <1>4
  <2>2. PICK k \in c..Len(s) : i = k + Len(t) + 1 - c
    BY <1>1, <2>1, Place
  <2>3. k \in DOMAIN s /\ r[i] = s[k]
    BY <1>1, <1>3, <2>2
  <2>4. QED
    BY <2>2, <2>3
<1>5. ASSUME NEW i \in DOMAIN r, ~(i > Len(t))
      PROVE  i \in DOMAIN t
  BY <1>1, <1>5
<1>6. QED
  BY <1>1, <1>2, <1>3, <1>4, <1>5 DEF Follows

LEMMA TailFollows ==
    ASSUME NEW s \in Seq(Tasks), s # <<>>, NEW t \in Seq(Tasks)
    PROVE  /\ t \o Tail(s) \in Seq(Tasks)
           /\ Follows(t \o Tail(s), t, s, 2)
<1>1. /\ Tail(s) \in Seq(Tasks) /\ Len(Tail(s)) = Len(s) - 1
      /\ \A i \in 1..Len(Tail(s)) : Tail(s)[i] = s[i + 1]
  BY HeadTailProperties
<1>2. /\ t \o Tail(s) \in Seq(Tasks)
      /\ Len(t \o Tail(s)) = Len(t) + Len(Tail(s))
      /\ \A i \in 1..Len(t) + Len(Tail(s)) :
            (t \o Tail(s))[i] = IF i <= Len(t) THEN t[i]
                                ELSE Tail(s)[i - Len(t)]
  BY <1>1, ConcatProperties
<1>3. Len(t) \in Nat /\ Len(s) \in Nat
  BY LenProperties
<1>4. /\ \A i \in 1..Len(t) : (t \o Tail(s))[i] = t[i]
      /\ \A k \in 2..Len(s) : (t \o Tail(s))[k + Len(t) + 1 - 2] = s[k]
  BY <1>1, <1>2, <1>3
<1>5. 2 \in 1..(Len(s) + 1)
  BY <1>1, <1>3, LenProperties
<1>6. Len(t \o Tail(s)) = Len(t) + Len(s) + 1 - 2
  BY <1>1, <1>2, <1>3
<1> HIDE DEF Follows
<1>7. QED
  BY <1>2, <1>4, <1>5, <1>6, FollowsAt

LEMMA PushStep ==
    ASSUME job \in Jobs, job.todo # <<>>, NEW t \in Seq(Tasks), Push(t)
    PROVE  GoesOn(t, 2)
<1>1. job.todo \in Seq(Tasks)
  BY DEF Jobs
<1>2. QED
  BY <1>1, TailFollows, DoesStep DEF Push, GoesOn

LEMMA Next1Step ==
    ASSUME job \in Jobs, job.todo # <<>>, Next1
    PROVE  GoesOn(<<>>, 2)
<1>1. job.todo \in Seq(Tasks) /\ <<>> \in Seq(Tasks)
  BY DEF Jobs
<1>2. Tail(job.todo) \in Seq(Tasks)
  BY <1>1, HeadTailProperties
<1>3. <<>> \o Tail(job.todo) = Tail(job.todo)
  BY <1>2, ConcatEmptySeq
<1>4. QED
  BY <1>1, <1>3, TailFollows, DoesStep DEF Next1, GoesOn

LEMMA SubSeqFollows ==
    ASSUME NEW s \in Seq(Tasks), NEW c \in 1..(Len(s) + 1)
    PROVE  /\ SubSeq(s, c, Len(s)) \in Seq(Tasks)
           /\ Follows(SubSeq(s, c, Len(s)), <<>>, s, c)
<1> DEFINE r == SubSeq(s, c, Len(s))
           t == <<>>
<1>1. Len(s) \in Nat /\ \A i \in c..Len(s) : s[i] \in Tasks
  BY LenProperties, ElementOfSeq
<1>2. /\ r \in Seq(Tasks)
      /\ Len(r) = IF c <= Len(s) THEN Len(s) - c + 1 ELSE 0
      /\ \A i \in 1..(Len(s) - c + 1) : r[i] = s[c + i - 1]
  BY <1>1, SubSeqProperties
<1>3. t \in Seq(Tasks) /\ Len(t) = 0
  OBVIOUS
<1> HIDE DEF r, t
<1>4. Len(r) = Len(t) + Len(s) + 1 - c
  BY <1>1, <1>2, <1>3
<1>5. \A i \in 1..Len(t) : r[i] = t[i]
  BY <1>3
<1>6. ASSUME NEW k \in c..Len(s)
      PROVE  r[k + Len(t) + 1 - c] = s[k]
  <2>1. k + Len(t) + 1 - c \in 1..(Len(s) - c + 1)
    BY <1>1, <1>3
  <2>2. c + (k + Len(t) + 1 - c) - 1 = k
    BY <1>1, <1>3
  <2>3. QED
    BY <1>2, <2>1, <2>2
<1>7. Follows(r, t, s, c)
  BY <1>2, <1>3, <1>4, <1>5, <1>6, FollowsAt
<1>8. QED
  BY <1>2, <1>7 DEF r, t

LEMMA ErredStep ==
    ASSUME job \in Jobs, job' = Erred
    PROVE  Fails
<1>1. CASE job.op \in {"stop", "shutdown"} /\ Cleanups # {}
  <2> DEFINE c == CHOOSE i \in Cleanups : \A k \in Cleanups : i <= k
             s == SubSeq(job.todo, c, Len(job.todo))
  <2>1. job.todo \in Seq(Tasks) /\ DOMAIN job.todo = 1..Len(job.todo)
        /\ Len(job.todo) \in Nat
    BY LenProperties DEF Jobs
  <2>2. Cleanups \in SUBSET Nat
    BY <2>1 DEF Cleanups
  <2>3. c \in Cleanups
    BY <1>1, <2>2, LeastExists
  <2>4. c \in 2..Len(job.todo) /\ job.todo[c][1] = "cleanup"
    BY <2>1, <2>3 DEF Cleanups
  <2>5. job' = [job EXCEPT !.todo = s]
    BY <1>1 DEF Erred
  <2> HIDE DEF c
  <2>6. s \in Seq(Tasks) /\ Follows(s, <<>>, job.todo, c)
    BY <2>1, <2>4, SubSeqFollows
  <2> HIDE DEF s
  <2>7. job' \in Jobs /\ job'.todo = s /\ job'.op = job.op
    BY <2>5, <2>6 DEF Jobs
  <2>8. QED
    BY <1>1, <2>4, <2>6, <2>7 DEF Fails
<1>2. CASE ~(job.op \in {"stop", "shutdown"} /\ Cleanups # {})
  <2>1. job' = IF job.op \in {"load", "shutdown"} THEN Down ELSE Idle
    BY <1>2 DEF Erred
  <2>2. QED
    BY <2>1 DEF Fails, Down, Idle, Jobs, Ops
<1>3. QED
  BY <1>1, <1>2

\* What follows what in a transaction.
Links == {<<"begin", "private">>, <<"private", "append">>,
          <<"append", "project">>, <<"project", "acknowledge">>}
Sources == {"begin", "private", "append", "project"}
Targets == {"private", "append", "project", "acknowledge"}

\* The tasks of a transaction follow one another.
Linked(s) ==
    \A i \in DOMAIN s : \A l \in Links :
        /\ s[i][1] = l[1] => i + 1 \in DOMAIN s /\ s[i + 1][1] = l[2]
        /\ s[i][1] = l[2] /\ i > 1 => s[i - 1][1] = l[1]

\* A pane is killed as soon as this is the next task, and given up later.
KillFirst(s) ==
    \A i \in DOMAIN s :
        s[i][1] = "kill" => /\ i = 1 /\ 4 \in DOMAIN s
                            /\ s[2][1] = "preserve" /\ s[3][1] = "clean"
                            /\ s[4][1] = "release"

\* A commit to the log.
Commits(t) == t[1] = "begin" /\ InLog(t[2][1])

OfOp(t, op) ==
    /\ t[1] \in {"repair", "suspend"} => op = "load"
    /\ t[1] \in {"bind", "type"} => op \in {"bind", "deliver"}
    /\ t[1] = "available" => op \in {"revise", "bind_run"}
    /\ t[1] = "begin" =>
          /\ t[2][1] = "pause" => op \in {"load", "shutdown"}
          /\ t[2][1] = "revised" => op = "revise"
          /\ t[2][1] = "exit" => op = "exit"
          /\ t[2][1] = "end" => op \in {"finish", "stop"}

\* An operation commits to the log once, and first.
Late == {"cleanup", "finalize", "available", "suspend"}
CommitsFirst(s) ==
    \A i, k \in DOMAIN s :
        Commits(s[i]) => /\ Commits(s[k]) => i = k
                         /\ s[k][1] \in Late => i < k

Shaped(j) ==
    /\ Linked(j.todo) /\ KillFirst(j.todo) /\ CommitsFirst(j.todo)
    /\ \A i \in DOMAIN j.todo : OfOp(j.todo[i], j.op)

\* If tasks are put before s[c], that is not in the middle of a transaction.
CutBefore(t, s, c) == t # <<>> /\ c \in DOMAIN s => s[c][1] \notin Targets

LEMMA LinkedFollows ==
    ASSUME NEW s \in Seq(Tasks), NEW t \in Seq(Tasks), NEW r,
           NEW c \in 1..(Len(s) + 1), Follows(r, t, s, c),
           Linked(s), Linked(t), CutBefore(t, s, c)
    PROVE  Linked(r)
<1>1. /\ Len(s) \in Nat /\ DOMAIN s = 1..Len(s)
      /\ Len(t) \in Nat /\ DOMAIN t = 1..Len(t)
      /\ Len(r) \in Nat /\ DOMAIN r = 1..Len(r)
  BY DEF Follows
<1>2. SUFFICES ASSUME NEW i \in DOMAIN r, NEW l \in Links
               PROVE  /\ r[i][1] = l[1]
                            => i + 1 \in DOMAIN r /\ r[i + 1][1] = l[2]
                      /\ r[i][1] = l[2] /\ i > 1 => r[i - 1][1] = l[1]
  BY DEF Linked
<1>3. l[2] \in Targets
  BY DEF Links, Targets
<1>4. CASE i \in DOMAIN t
  <2>1. r[i] = t[i]
    BY <1>4 DEF Follows
  <2>2. i + 1 \in DOMAIN t => i + 1 \in DOMAIN r /\ r[i + 1] = t[i + 1]
    BY DEF Follows
  <2>3. i > 1 => i - 1 \in DOMAIN t
    BY <1>1, <1>4
  <2>4. i > 1 => r[i - 1] = t[i - 1]
    BY <2>3 DEF Follows
  <2>5. QED
    BY <1>2, <1>4, <2>1, <2>2, <2>4 DEF Linked
<1>5. ASSUME NEW k \in c..Len(s), k \in DOMAIN s, r[i] = s[k], i > Len(t),
             i = k + Len(t) + 1 - c
      PROVE  /\ r[i][1] = l[1]
                   => i + 1 \in DOMAIN r /\ r[i + 1][1] = l[2]
             /\ r[i][1] = l[2] /\ i > 1 => r[i - 1][1] = l[1]
  <2>1. ASSUME k + 1 \in DOMAIN s
        PROVE  i + 1 \in DOMAIN r /\ r[i + 1] = s[k + 1]
    <3>1. k + 1 \in c..Len(s)
      BY <1>1, <2>1
    <3>2. i + 1 = (k + 1) + Len(t) + 1 - c
      BY <1>1, <1>5
    <3>3. QED
      BY <3>1, <3>2, SMTT(30) DEF Follows
  <2>2. r[i][1] = l[1] => i + 1 \in DOMAIN r /\ r[i + 1][1] = l[2]
    <3>1. s[k][1] = l[1] => k + 1 \in DOMAIN s /\ s[k + 1][1] = l[2]
      BY <1>5 DEF Linked
    <3>2. QED
      BY <1>5, <2>1, <3>1
  <2>3. CASE k = c
    <3>1. i > 1 => t # <<>>
      <4>1. i = Len(t) + 1
        BY <1>1, <1>5, <2>3
      <4>2. Len(<<>>) = 0
        OBVIOUS
      <4>3. QED
        BY <1>1, <4>1, <4>2
    <3>2. QED
      BY <1>3, <1>5, <2>2, <2>3, <3>1 DEF CutBefore
  <2>4. CASE k > c
    <3>1. k - 1 \in c..Len(s)
      BY <1>1, <2>4
    <3>2. i - 1 = (k - 1) + Len(t) + 1 - c
      BY <1>1, <1>5
    <3>3. r[i - 1] = s[k - 1]
      BY <3>1, <3>2 DEF Follows
    <3>4. k > 1
      BY <1>1, <2>4
    <3>5. s[k][1] = l[2] => s[k - 1][1] = l[1]
      BY <1>5, <3>4 DEF Linked
    <3>6. QED
      BY <1>5, <2>2, <3>3, <3>5
  <2>5. QED
    BY <1>1, <1>5, <2>3, <2>4
<1>6. QED
  BY <1>4, <1>5 DEF Follows

LEMMA KillFirstFollows ==
    ASSUME NEW s \in Seq(Tasks), NEW t \in Seq(Tasks), NEW r,
           NEW c \in 1..(Len(s) + 1), Follows(r, t, s, c),
           KillFirst(s), KillFirst(t), c = 1 => s[1][1] # "kill"
    PROVE  KillFirst(r)
<1>1. SUFFICES ASSUME NEW i \in DOMAIN r, r[i][1] = "kill"
               PROVE  /\ i = 1 /\ 4 \in DOMAIN r
                      /\ r[2][1] = "preserve" /\ r[3][1] = "clean"
                      /\ r[4][1] = "release"
  BY DEF KillFirst
<1>2. CASE i \in DOMAIN t /\ r[i] = t[i]
  <2>1. /\ i = 1 /\ 4 \in DOMAIN t
        /\ t[2][1] = "preserve" /\ t[3][1] = "clean" /\ t[4][1] = "release"
    BY <1>1, <1>2 DEF KillFirst
  <2>2. 2 \in DOMAIN t /\ 3 \in DOMAIN t
    BY <2>1 DEF Follows
  <2>3. r[2] = t[2] /\ r[3] = t[3] /\ r[4] = t[4] /\ 4 \in DOMAIN r
    BY <2>1, <2>2 DEF Follows
  <2>4. QED
    BY <2>1, <2>3
<1>3. ASSUME NEW k \in c..Len(s), k \in DOMAIN s, r[i] = s[k]
      PROVE  FALSE
  <2>1. k = 1
    BY <1>1, <1>3 DEF KillFirst
  <2>2. c = 1
    BY <2>1
  <2>3. QED
    BY <1>1, <1>3, <2>1, <2>2
<1>4. QED
  BY <1>1, <1>2, <1>3 DEF Follows

\* Tasks that any operation may have, and neither commit nor clean up.
PlainTasks == {"begin", "private", "append", "project", "acknowledge",
               "preserve", "clean", "owed", "revision", "bound", "fail",
               "outbox"}
Plain(t) == \A i \in DOMAIN t : t[i][1] \in PlainTasks /\ ~Commits(t[i])

Early(t) == \A i \in DOMAIN t : ~Commits(t[i]) /\ t[i][1] \notin Late

LEMMA CommitsFirstFollows ==
    ASSUME NEW s \in Seq(Tasks), NEW t \in Seq(Tasks), NEW r,
           NEW c \in 1..(Len(s) + 1), Follows(r, t, s, c),
           CommitsFirst(s), Early(t)
    PROVE  CommitsFirst(r)
<1>1. SUFFICES ASSUME NEW i \in DOMAIN r, NEW k \in DOMAIN r, Commits(r[i])
               PROVE  /\ Commits(r[k]) => i = k
                      /\ r[k][1] \in Late => i < k
  BY DEF CommitsFirst
<1>2. PICK m \in c..Len(s) : /\ m \in DOMAIN s /\ r[i] = s[m]
                             /\ i = m + Len(t) + 1 - c
  BY <1>1 DEF Follows, Early
<1>3. CASE k \in DOMAIN t /\ r[k] = t[k]
  BY <1>1, <1>3 DEF Early
<1>4. ASSUME NEW n \in c..Len(s), n \in DOMAIN s, r[k] = s[n],
             k = n + Len(t) + 1 - c
      PROVE  /\ Commits(r[k]) => i = k
             /\ r[k][1] \in Late => i < k
  <2>1. Commits(s[m])
    BY <1>1, <1>2
  <2>2. Len(t) \in Nat /\ Len(s) \in Nat
    BY DEF Follows
  <2>3. Commits(s[n]) => m = n
    BY <1>2, <1>4, <2>1 DEF CommitsFirst
  <2>4. s[n][1] \in Late => m < n
    BY <1>2, <1>4, <2>1 DEF CommitsFirst
  <2>5. m < n => i < k
    BY <1>2, <1>4, <2>2
  <2>6. QED
    BY <1>2, <1>4, <2>3, <2>4, <2>5
<1>5. QED
  BY <1>1, <1>3, <1>4 DEF Follows

LEMMA PlainOfOp ==
    ASSUME NEW t, t[1] \in PlainTasks, ~Commits(t), NEW op
    PROVE  OfOp(t, op)
BY DEF PlainTasks, Commits, InLog, OfOp

LEMMA ShapedGoesOn ==
    ASSUME job \in Jobs, Shaped(job), NEW t \in Seq(Tasks),
           NEW c \in 1..(Len(job.todo) + 1), GoesOn(t, c),
           Linked(t), Plain(t), CutBefore(t, job.todo, c),
           c = 1 => job.todo[1][1] # "kill"
    PROVE  Shaped(job')
<1> DEFINE s == job.todo
           r == job'.todo
<1>1. s \in Seq(Tasks) /\ Follows(r, t, s, c)
  BY DEF Jobs, GoesOn
<1>2. KillFirst(t) /\ Early(t)
  BY DEF Plain, PlainTasks, KillFirst, Early, Late
<1>3. Linked(r) /\ KillFirst(r) /\ CommitsFirst(r)
  BY <1>1, <1>2, LinkedFollows, KillFirstFollows, CommitsFirstFollows
  DEF Shaped
<1>4. ASSUME NEW i \in DOMAIN r
      PROVE  OfOp(r[i], job'.op)
  <2>1. job'.op = job.op
    <3>1. r # <<>>
      BY <1>4
    <3>2. QED
      BY <3>1 DEF GoesOn
  <2>2. CASE i \in DOMAIN t /\ r[i] = t[i]
    BY <2>2, PlainOfOp DEF Plain
  <2>3. CASE \E k \in DOMAIN s : r[i] = s[k]
    BY <2>1, <2>3 DEF Shaped
  <2>4. QED
    BY <1>1, <1>4, <2>2, <2>3 DEF Follows
<1>5. QED
  BY <1>3, <1>4 DEF Shaped

LEMMA EmptyIsPlain ==
    /\ <<>> \in Seq(Tasks) /\ Linked(<<>>) /\ Plain(<<>>) /\ KillFirst(<<>>)
    /\ CommitsFirst(<<>>) /\ Early(<<>>) /\ \A s, c : CutBefore(<<>>, s, c)
BY DEF Linked, Plain, KillFirst, CommitsFirst, Early, CutBefore

LEMMA ShapedFails ==
    ASSUME job \in Jobs, Shaped(job), Fails
    PROVE  Shaped(job')
<1>1. CASE job'.todo = <<>>
  BY <1>1, EmptyIsPlain DEF Shaped
<1>2. ASSUME NEW c \in 2..Len(job.todo), job'.op = job.op,
             Follows(job'.todo, <<>>, job.todo, c)
      PROVE  Shaped(job')
  <2>1. job.todo \in Seq(Tasks) /\ c \in 1..(Len(job.todo) + 1) /\ c # 1
    BY DEF Jobs
  <2>2. /\ Linked(job'.todo) /\ KillFirst(job'.todo)
        /\ CommitsFirst(job'.todo)
    BY <1>2, <2>1, EmptyIsPlain, LinkedFollows, KillFirstFollows,
       CommitsFirstFollows
    DEF Shaped
  <2>3. ASSUME NEW i \in DOMAIN job'.todo
        PROVE  \E k \in DOMAIN job.todo : job'.todo[i] = job.todo[k]
    BY <1>2, <2>3 DEF Follows
  <2>4. QED
    BY <1>2, <2>2, <2>3 DEF Shaped
<1>3. QED
  BY <1>1, <1>2 DEF Fails

\* Some task before the i-th is one of these.
Before(s, i, names) == \E k \in 1..(i - 1) : s[k][1] \in names

\* Tasks of X come after one of these.
Ordered(s, X, names) ==
    \A i \in DOMAIN s : s[i] \in X => Before(s, i, names)

\* What acts on the pending transaction comes after a look at the outbox.
OnPending == {"project", "acknowledge", "repair"} \X {0}
Guarded(s) == Ordered(s, OnPending, {"outbox", "begin"})

LEMMA TaskIs ==
    ASSUME NEW t \in Tasks
    PROVE  /\ t[1] = "begin" => t[2] \in Publications
           /\ t[1] \in ActTasks => t[2] \in Activations
           /\ t[1] = "finalize" => t[2] \in {"panes", "pending", "exited"}
<1>1. CASE t \in {"begin"} \X Publications
  BY <1>1 DEF ActTasks, PaneTasks
<1>2. CASE t \in ActTasks \X Activations
  BY <1>2 DEF ActTasks, PaneTasks
<1>3. CASE t \in {"finalize"} \X {"panes", "pending", "exited"}
  BY <1>3 DEF ActTasks, PaneTasks
<1>4. CASE t \in RunTasks \X {0}
  BY <1>4 DEF ActTasks, PaneTasks, RunTasks
<1>5. QED
  BY <1>1, <1>2, <1>3, <1>4 DEF Tasks

LEMMA AtHead ==
    ASSUME job \in Jobs, NEW n, At(n)
    PROVE  /\ job.todo \in Seq(Tasks) /\ job.todo # <<>>
           /\ Len(job.todo) \in Nat /\ 1 \in DOMAIN job.todo
           /\ 2 \in 1..(Len(job.todo) + 1)
           /\ job.todo[1] \in Tasks /\ job.todo[1][1] = n
           /\ Of = job.todo[1][2]
<1>1. job.todo \in Seq(Tasks) /\ job.todo # <<>>
  BY DEF Jobs, At
<1>2. Len(job.todo) \in Nat \ {0} /\ DOMAIN job.todo = 1..Len(job.todo)
  BY <1>1, EmptySeq, LenProperties
<1>3. Head(job.todo) = job.todo[1]
  BY <1>1
<1>4. QED
  BY <1>1, <1>2, <1>3, ElementOfSeq DEF At, Of

LEMMA ConcatFollows ==
    ASSUME NEW t \in Seq(Tasks), NEW u \in Seq(Tasks)
    PROVE  Follows(t \o u, t, u, 1)
<1> DEFINE r == t \o u
<1>1. /\ Len(t) \in Nat /\ Len(u) \in Nat
  BY LenProperties
<1>2. /\ r \in Seq(Tasks) /\ Len(r) = Len(t) + Len(u)
      /\ \A i \in 1..Len(t) + Len(u) :
            r[i] = IF i <= Len(t) THEN t[i] ELSE u[i - Len(t)]
  BY ConcatProperties
<1> HIDE DEF r
<1>3. \A i \in 1..Len(t) : r[i] = t[i]
  BY <1>1, <1>2
<1>4. ASSUME NEW k \in 1..Len(u)
      PROVE  r[k + Len(t) + 1 - 1] = u[k]
  <2>1. k + Len(t) + 1 - 1 \in 1..Len(t) + Len(u)
    BY <1>1
  <2>2. ~(k + Len(t) + 1 - 1 <= Len(t)) /\ k + Len(t) + 1 - 1 - Len(t) = k
    BY <1>1
  <2>3. QED
    BY <1>2, <2>1, <2>2
<1>5. Len(r) = Len(t) + Len(u) + 1 - 1 /\ 1 \in 1..(Len(u) + 1)
  BY <1>1, <1>2
<1>6. Follows(r, t, u, 1)
  BY <1>2, <1>3, <1>4, <1>5, FollowsAt
<1>7. QED
  BY <1>6 DEF r

LEMMA OrderedFollows ==
    ASSUME NEW s \in Seq(Tasks), NEW t \in Seq(Tasks), NEW r,
           NEW c \in 1..(Len(s) + 1), Follows(r, t, s, c),
           NEW X, NEW names, Ordered(t, X, names),
           \/ /\ Ordered(s, X, names)
              /\ \A k \in 1..(c - 1) : s[k][1] \notin names
           \/ \E k \in DOMAIN t : t[k][1] \in names
    PROVE  Ordered(r, X, names)
<1>1. SUFFICES ASSUME NEW i \in DOMAIN r, r[i] \in X
               PROVE  Before(r, i, names)
  BY DEF Ordered
<1>2. CASE i \in DOMAIN t /\ r[i] = t[i]
  <2>1. PICK k \in 1..(i - 1) : t[k][1] \in names
    BY <1>1, <1>2 DEF Ordered, Before
  <2>2. k \in DOMAIN t
    BY <1>2, <2>1 DEF Follows
  <2>3. r[k] = t[k]
    BY <2>2 DEF Follows
  <2>4. QED
    BY <2>1, <2>3 DEF Before
<1>3. ASSUME NEW k \in c..Len(s), k \in DOMAIN s, r[i] = s[k],
             i = k + Len(t) + 1 - c, i > Len(t)
      PROVE  Before(r, i, names)
  <2>1. Len(s) \in Nat /\ Len(t) \in Nat /\ DOMAIN t = 1..Len(t)
    BY DEF Follows
  <2>2. ASSUME NEW m \in DOMAIN t, t[m][1] \in names
        PROVE  Before(r, i, names)
    <3>1. r[m] = t[m]
      BY DEF Follows
    <3>2. m \in 1..(i - 1)
      BY <1>3, <2>1
    <3>3. QED
      BY <2>2, <3>1, <3>2 DEF Before
  <2>3. CASE /\ Ordered(s, X, names)
             /\ \A m \in 1..(c - 1) : s[m][1] \notin names
    <3>1. PICK m \in 1..(k - 1) : s[m][1] \in names
      BY <1>1, <1>3, <2>3 DEF Ordered, Before
    <3>2. m \in c..Len(s)
      BY <2>1, <2>3, <3>1
    <3>3. r[m + Len(t) + 1 - c] = s[m]
      BY <3>2 DEF Follows
    <3>4. m + Len(t) + 1 - c \in 1..(i - 1)
      BY <1>3, <2>1, <3>1, <3>2
    <3>5. QED
      BY <3>1, <3>3, <3>4 DEF Before
  <2>4. QED
    BY <2>2, <2>3
<1>4. QED
  BY <1>1, <1>2, <1>3 DEF Follows

LEMMA CutAfter ==
    ASSUME NEW s \in Seq(Tasks), Linked(s), s # <<>>,
           s[1][1] \notin Sources
    PROVE  \A t : CutBefore(t, s, 2)
<1>1. SUFFICES ASSUME 2 \in DOMAIN s, s[2][1] \in Targets
               PROVE  FALSE
  BY DEF CutBefore
<1>2. PICK l \in Links : s[2][1] = l[2]
  BY <1>1 DEF Targets, Links
<1>3. s[1][1] = l[1]
  <2>1. \A i \in DOMAIN s : s[i][1] = l[2] /\ i > 1 => s[i - 1][1] = l[1]
    BY DEF Linked
  <2>2. s[2 - 1][1] = l[1]
    BY <1>1, <1>2, <2>1
  <2>3. QED
    BY <2>2
<1>4. l[1] \in Sources
  BY DEF Links, Sources
<1>5. QED
  BY <1>3, <1>4

LEMMA PublishIs ==
    ASSUME NEW w, NEW a, <<w, a>> \in Publications
    PROVE  /\ Publish(w, a) \in Seq(Tasks)
           /\ Len(Publish(w, a)) = 5 /\ DOMAIN Publish(w, a) = 1..5
           /\ Publish(w, a)[1] = <<"begin", <<w, a>>>>
           /\ Publish(w, a)[2] = <<"private", 0>>
           /\ Publish(w, a)[3] = <<"append", 0>>
           /\ Publish(w, a)[4] = <<"project", 0>>
           /\ Publish(w, a)[5] = <<"acknowledge", 0>>
<1>1. /\ <<"begin", <<w, a>>>> \in Tasks
      /\ <<"private", 0>> \in Tasks /\ <<"append", 0>> \in Tasks
      /\ <<"project", 0>> \in Tasks /\ <<"acknowledge", 0>> \in Tasks
  BY DEF Tasks, RunTasks
<1>2. QED
  BY <1>1 DEF Publish, Task, Step

\* Tasks that an operation may consist of.
Script(t) == /\ t \in Seq(Tasks) /\ Linked(t) /\ Guarded(t)
             /\ t # <<>> => t[1][1] \notin Targets
             /\ \A i \in DOMAIN t : t[i][1] # "kill"

LEMMA ScriptConcat ==
    ASSUME NEW t, NEW u, Script(t), Script(u)
    PROVE  /\ Script(t \o u) /\ Follows(t \o u, t, u, 1)
           /\ \A i \in DOMAIN (t \o u) :
                 \/ \E k \in DOMAIN t : (t \o u)[i] = t[k]
                 \/ \E k \in DOMAIN u : (t \o u)[i] = u[k]
<1>1. t \in Seq(Tasks) /\ u \in Seq(Tasks)
  BY DEF Script
<1>2. Follows(t \o u, t, u, 1) /\ 1 \in 1..(Len(u) + 1)
  BY <1>1, ConcatFollows, LenProperties
<1>3. CutBefore(t, u, 1)
  BY DEF CutBefore, Script
<1>4. Linked(t \o u)
  BY <1>1, <1>2, <1>3, LinkedFollows DEF Script
<1>5. Guarded(t \o u)
  BY <1>1, <1>2, OrderedFollows DEF Script, Guarded
<1>6. \A i \in DOMAIN (t \o u) :
          \/ \E k \in DOMAIN t : (t \o u)[i] = t[k]
          \/ \E k \in DOMAIN u : (t \o u)[i] = u[k]
  BY <1>2 DEF Follows
<1>7. \A i \in DOMAIN (t \o u) : (t \o u)[i][1] # "kill"
  BY <1>6 DEF Script
<1>8. t \o u # <<>> => (t \o u)[1][1] \notin Targets
  <2>1. CASE t = <<>>
    BY <1>1, <2>1, ConcatEmptySeq DEF Script
  <2>2. CASE t # <<>>
    <3>1. Len(t) # 0
      BY <1>1, <2>2, EmptySeq
    <3>2. 1 \in DOMAIN t
      BY <1>2, <3>1 DEF Follows
    <3>3. (t \o u)[1] = t[1]
      BY <1>2, <3>2 DEF Follows
    <3>4. QED
      BY <2>2, <3>3 DEF Script
  <2>3. QED
    BY <2>1, <2>2
<1>9. QED
  BY <1>2, <1>4, <1>5, <1>6, <1>7, <1>8 DEF Script, Follows

LEMMA OneTask ==
    ASSUME NEW x \in Tasks,
           x[1] \notin Sources \cup Targets \cup {"repair", "kill"}
    PROVE  Script(<<x>>) /\ DOMAIN <<x>> = {1} /\ <<x>>[1] = x
<1>1. /\ <<x>> \in Seq(Tasks) /\ DOMAIN <<x>> = {1} /\ <<x>>[1] = x
      /\ <<x>> # <<>>
  OBVIOUS
<1>2. \A l \in Links : l[1] \in Sources /\ l[2] \in Targets
  BY DEF Links, Sources, Targets
<1>3. Linked(<<x>>)
  BY <1>1, <1>2 DEF Linked
<1>4. Guarded(<<x>>)
  BY <1>1 DEF Guarded, Ordered, OnPending, Targets
<1>5. QED
  BY <1>1, <1>3, <1>4 DEF Script

LEMMA PublishScript ==
    ASSUME NEW w, NEW a, <<w, a>> \in Publications
    PROVE  Script(Publish(w, a))
<1> DEFINE t == Publish(w, a)
<1>1. /\ t \in Seq(Tasks) /\ DOMAIN t = 1..5 /\ t[1] = <<"begin", <<w, a>>>>
      /\ t[2] = <<"private", 0>> /\ t[3] = <<"append", 0>>
      /\ t[4] = <<"project", 0>> /\ t[5] = <<"acknowledge", 0>>
  BY PublishIs
<1> HIDE DEF t
<1>2. Linked(t)
  <2>1. SUFFICES ASSUME NEW i \in 1..5, NEW l \in Links
                 PROVE  /\ t[i][1] = l[1]
                              => i + 1 \in 1..5 /\ t[i + 1][1] = l[2]
                        /\ t[i][1] = l[2] /\ i > 1 => t[i - 1][1] = l[1]
    BY <1>1 DEF Linked
  <2>2. /\ t[1][1] = "begin" /\ t[2][1] = "private" /\ t[3][1] = "append"
        /\ t[4][1] = "project" /\ t[5][1] = "acknowledge"
    BY <1>1
  <2>3. CASE i = 1
    BY <2>2, <2>3 DEF Links
  <2>4. CASE i = 2
    BY <2>2, <2>4 DEF Links
  <2>5. CASE i = 3
    BY <2>2, <2>5 DEF Links
  <2>6. CASE i = 4
    BY <2>2, <2>6 DEF Links
  <2>7. CASE i = 5
    BY <2>2, <2>7 DEF Links
  <2>8. QED
    BY <2>3, <2>4, <2>5, <2>6, <2>7
<1>3. Guarded(t)
  BY <1>1 DEF Guarded, Ordered, Before, OnPending
<1>4. t[1][1] \notin Targets /\ \A i \in DOMAIN t : t[i][1] # "kill"
  BY <1>1 DEF Targets
<1>5. Script(t)
  BY <1>1, <1>2, <1>3, <1>4 DEF Script
<1>6. QED
  BY <1>5 DEF t

\* Tasks that a task may be replaced by.
Bundle(t) == Script(t) /\ Plain(t)

LEMMA BundleConcat ==
    ASSUME NEW t, NEW u, Bundle(t), Bundle(u)
    PROVE  Bundle(t \o u)
<1> DEFINE r == t \o u
<1>1. /\ Script(r)
      /\ \A i \in DOMAIN r : \/ \E k \in DOMAIN t : r[i] = t[k]
                            \/ \E k \in DOMAIN u : r[i] = u[k]
  BY ScriptConcat DEF Bundle
<1> HIDE DEF r
<1>2. Plain(r)
  BY <1>1 DEF Plain, Bundle
<1>3. Bundle(r)
  BY <1>1, <1>2 DEF Bundle
<1>4. QED
  BY <1>3 DEF r

LEMMA BundleOne ==
    ASSUME NEW x \in Tasks,
           x[1] \in PlainTasks \ (Sources \cup Targets)
    PROVE  Bundle(<<x>>)
<1>1. Script(<<x>>) /\ DOMAIN <<x>> = {1} /\ <<x>>[1] = x
  BY OneTask DEF PlainTasks
<1>2. ~Commits(x)
  BY DEF Commits, Sources
<1>3. QED
  BY <1>1, <1>2 DEF Bundle, Plain

LEMMA BundlePublish ==
    ASSUME NEW w, NEW a, <<w, a>> \in Publications, ~InLog(w)
    PROVE  Bundle(Publish(w, a))
<1> DEFINE t == Publish(w, a)
<1>1. /\ DOMAIN t = 1..5 /\ t[1] = <<"begin", <<w, a>>>>
      /\ t[2] = <<"private", 0>> /\ t[3] = <<"append", 0>>
      /\ t[4] = <<"project", 0>> /\ t[5] = <<"acknowledge", 0>>
  BY PublishIs
<1>2. Script(t)
  BY PublishScript
<1> HIDE DEF t
<1>3. Plain(t)
  BY <1>1 DEF Plain, PlainTasks, Commits
<1>4. Bundle(t)
  BY <1>2, <1>3 DEF Bundle
<1>5. QED
  BY <1>4 DEF t

LEMMA EmptyIsBundle == Bundle(<<>>)
<1>1. Guarded(<<>>) /\ \A i \in DOMAIN <<>> : <<>>[i][1] # "kill"
  BY DEF Guarded, Ordered
<1>2. QED
  BY <1>1, EmptyIsPlain DEF Bundle, Script

\* The task at hand is done, perhaps by way of others, or waits, or fails.
Moves == \/ Fails
         \/ UNCHANGED job
         \/ \E t : Bundle(t) /\ GoesOn(t, 2)

LEMMA PushMoves ==
    ASSUME job \in Jobs, job.todo # <<>>, NEW t, Bundle(t), Push(t)
    PROVE  Moves
BY PushStep DEF Bundle, Script, Moves

LEMMA NextMoves ==
    ASSUME job \in Jobs, job.todo # <<>>, Next1
    PROVE  Moves
BY Next1Step, EmptyIsBundle DEF Moves

LEMMA EndMoves ==
    ASSUME job \in Jobs, job' = Erred
    PROVE  Moves
BY ErredStep DEF Moves

\* Actions that neither touch the pending transaction nor look for one.
Calm == \/ Gate \/ PublishFlow \/ ReconcileObligations \/ PublishBinding
        \/ RepairProjections \/ Fail \/ Preserve \/ MarkClean \/ ReleasePane
        \/ AllocatePane \/ RecordBinding \/ TypeInput \/ WriteRevision
        \/ PublishAvailable
CalmTasks == {"gate", "revision", "owed", "bound", "repair", "fail",
              "preserve", "clean", "release", "allocate", "bind", "type",
              "file", "available"}

LEMMA DueIs ==
    ASSUME facts \in FactRecords, NEW r \in Due, <<"applied">> \notin Owed
    PROVE  r \in {"bound", "left", "input"} \X Activations
<1>1. r \in Owed /\ r # <<"applied">>
  BY DEF Due
<1>2. facts.bound \subseteq Activations /\ facts.typed \subseteq Activations
  BY DEF FactRecords
<1>3. QED
  BY <1>1, <1>2 DEF Owed

LEMMA CalmMoves ==
    ASSUME job \in Jobs, facts \in FactRecords, Calm
    PROVE  /\ Moves
           /\ job.todo # <<>> /\ job.todo[1][1] \in CalmTasks
<1>1. CASE Gate
  BY <1>1, AtHead, NextMoves, EndMoves DEF Gate, CalmTasks
<1>2. CASE PublishFlow
  <2>1. job.todo # <<>> /\ job.todo[1][1] \in CalmTasks
    BY <1>2, AtHead DEF PublishFlow, CalmTasks
  <2>2. /\ Bundle(Publish("prepared", 0))
        /\ Bundle(Publish("applied", 0))
    BY BundlePublish DEF Publications, RunWhats, InLog
  <2>3. Bundle(Publish("prepared", 0) \o Publish("applied", 0))
    BY <2>2, BundleConcat
  <2>4. CASE Next1
    BY <2>1, <2>4, NextMoves
  <2>5. CASE Push(Publish("applied", 0))
    BY <2>1, <2>2, <2>5, PushMoves
  <2>6. CASE Push(Publish("prepared", 0) \o Publish("applied", 0))
    BY <2>1, <2>3, <2>6, PushMoves
  <2>7. QED
    BY <1>2, <2>1, <2>4, <2>5, <2>6 DEF PublishFlow
<1>3. CASE ReconcileObligations
  <2>1. job.todo # <<>> /\ job.todo[1][1] \in CalmTasks
    BY <1>3, AtHead DEF ReconcileObligations, CalmTasks
  <2>2. CASE Next1
    BY <2>1, <2>2, NextMoves
  <2>3. <<"owed", 0>> \in Tasks /\ <<"revision", 0>> \in Tasks
    BY DEF Tasks, RunTasks
  <2>4. Bundle(<<<<"owed", 0>>>>) /\ Bundle(<<<<"revision", 0>>>>)
    BY <2>3, BundleOne DEF PlainTasks, Sources, Targets
  <2>5. Bundle(<<<<"revision", 0>>>> \o <<<<"owed", 0>>>>)
    BY <2>4, BundleConcat
  <2>6. CASE Push(<<Step("revision"), Step("owed")>>)
    <3>1. <<Step("revision"), Step("owed")>>
            = <<<<"revision", 0>>>> \o <<<<"owed", 0>>>>
      BY DEF Step
    <3>2. QED
      BY <2>1, <2>5, <2>6, <3>1, PushMoves
  <2>7. ASSUME NEW r \in Due, <<"applied">> \notin Owed,
               Push((IF r[1] = "bound" THEN <<Task("bound", r[2])>>
                     ELSE Publish(r[1], r[2])) \o <<Step("owed")>>)
        PROVE  Moves
    <3> DEFINE t == IF r[1] = "bound" THEN <<Task("bound", r[2])>>
                    ELSE Publish(r[1], r[2])
    <3>1. r \in {"bound", "left", "input"} \X Activations
      BY <2>7, DueIs
    <3>2. ASSUME r[1] = "bound"
          PROVE  Bundle(t)
      <4>1. <<"bound", r[2]>> \in Tasks
        BY <3>1 DEF Tasks, ActTasks
      <4>2. Bundle(<<<<"bound", r[2]>>>>)
        BY <4>1, BundleOne DEF PlainTasks, Sources, Targets
      <4>3. QED
        BY <3>2, <4>2 DEF Task
    <3>3. ASSUME r[1] # "bound"
          PROVE  Bundle(t)
      <4>1. <<r[1], r[2]>> \in Publications /\ ~InLog(r[1])
        BY <3>1 DEF Publications, ActWhats, InLog
      <4>2. QED
        BY <3>3, <4>1, BundlePublish
    <3>4. Bundle(t)
      BY <3>2, <3>3
    <3>5. Push(t \o <<<<"owed", 0>>>>)
      BY <2>7 DEF Step
    <3> HIDE DEF t
    <3>6. QED
      BY <2>1, <2>4, <3>4, <3>5, BundleConcat, PushMoves
  <2>8. QED
    BY <1>3, <2>1, <2>2, <2>6, <2>7 DEF ReconcileObligations
<1>4. CASE PublishBinding
  <2>1. /\ job.todo # <<>> /\ job.todo[1][1] \in CalmTasks
        /\ Of \in Activations
    BY <1>4, AtHead, TaskIs DEF PublishBinding, CalmTasks, ActTasks
  <2>2. CASE job' = Erred
    BY <2>1, <2>2, EndMoves
  <2> DEFINE a == Of
             t == Publish("agent", a)
             u == IF <<"session", a>> \in Published THEN <<>>
                  ELSE Publish("session", a)
             v == Publish("bound", a)
  <2>3. Bundle(t) /\ Bundle(Publish("session", a)) /\ Bundle(v)
    BY <2>1, BundlePublish DEF Publications, ActWhats, InLog
  <2>4. Bundle(<<>>)
    BY EmptyIsBundle
  <2>5. Bundle(u)
    BY <2>3, <2>4
  <2>6. CASE Push(t \o u \o v)
    <3> HIDE DEF t, u, v
    <3>1. Bundle(t \o u \o v)
      BY <2>3, <2>5, BundleConcat
    <3>2. QED
      BY <2>1, <2>6, <3>1, PushMoves
  <2>7. QED
    BY <1>4, <2>1, <2>2, <2>6 DEF PublishBinding
<1>5. CASE RepairProjections
  BY <1>5, AtHead, NextMoves DEF RepairProjections, CalmTasks
<1>6. CASE Fail
  BY <1>6, AtHead, EndMoves DEF Fail, CalmTasks
<1>7. CASE Preserve \/ MarkClean
  <2>1. /\ job.todo # <<>> /\ job.todo[1][1] \in CalmTasks
        /\ Of \in Activations
    BY <1>7, AtHead, TaskIs
    DEF Preserve, MarkClean, CalmTasks, ActTasks, PaneTasks
  <2>2. Bundle(Publish("preserve", Of)) /\ Bundle(Publish("clean", Of))
    BY <2>1, BundlePublish DEF Publications, ActWhats, InLog
  <2>3. QED
    BY <1>7, <2>1, <2>2, NextMoves, PushMoves DEF Preserve, MarkClean
<1>8. CASE ReleasePane
  BY <1>8, AtHead, NextMoves DEF ReleasePane, CalmTasks
<1>9. CASE AllocatePane
  BY <1>9, AtHead, NextMoves DEF AllocatePane, CalmTasks
<1>10. CASE RecordBinding
  BY <1>10, AtHead, NextMoves, EndMoves DEF RecordBinding, CalmTasks
<1>11. CASE TypeInput
  BY <1>11, AtHead, NextMoves, EndMoves DEF TypeInput, CalmTasks
<1>12. CASE WriteRevision
  BY <1>12, AtHead, NextMoves, EndMoves DEF WriteRevision, CalmTasks
<1>13. CASE PublishAvailable
  BY <1>13, AtHead, NextMoves, EndMoves DEF PublishAvailable, CalmTasks
<1>14. QED
  BY <1>1, <1>2, <1>3, <1>4, <1>5, <1>6, <1>7, <1>8, <1>9, <1>10, <1>11,
     <1>12, <1>13
  DEF Calm

LEMMA ShapedMoves ==
    ASSUME job \in Jobs, Shaped(job), job.todo # <<>>,
           job.todo[1][1] \notin Sources, Moves
    PROVE  Shaped(job')
<1>1. job.todo \in Seq(Tasks) /\ 2 \in 1..(Len(job.todo) + 1)
  BY EmptySeq, LenProperties DEF Jobs
<1>2. CASE Fails
  BY <1>2, ShapedFails
<1>3. CASE UNCHANGED job
  BY <1>3
<1>4. ASSUME NEW t, Bundle(t), GoesOn(t, 2)
      PROVE  Shaped(job')
  <2>1. CutBefore(t, job.todo, 2)
    BY <1>1, CutAfter DEF Shaped
  <2>2. QED
    BY <1>1, <1>4, <2>1, ShapedGoesOn DEF Bundle, Script
<1>5. QED
  BY <1>2, <1>3, <1>4 DEF Moves

\* The task at hand is done, or waits, or fails.
Steps == Fails \/ UNCHANGED job \/ GoesOn(<<>>, 2)

LEMMA ShapedSteps ==
    ASSUME job \in Jobs, Shaped(job), job.todo # <<>>, Steps
    PROVE  Shaped(job')
<1>1. job.todo \in Seq(Tasks) /\ 2 \in 1..(Len(job.todo) + 1)
  BY EmptySeq, LenProperties DEF Jobs
<1>2. CASE Fails
  BY <1>2, ShapedFails
<1>3. CASE UNCHANGED job
  BY <1>3
<1> DEFINE t == <<>>
<1>4. t \in Seq(Tasks) /\ Linked(t) /\ Plain(t) /\ CutBefore(t, job.todo, 2)
  BY EmptyIsPlain
<1>5. CASE GoesOn(t, 2)
  <2> HIDE DEF t
  <2>1. QED
    BY <1>1, <1>4, <1>5, ShapedGoesOn
<1>6. QED
  BY <1>2, <1>3, <1>5 DEF Steps

LEMMA SuffixFollows ==
    ASSUME NEW s \in Seq(Tasks), NEW t \in Seq(Tasks),
           NEW c \in 1..(Len(s) + 1)
    PROVE  /\ t \o SubSeq(s, c, Len(s)) \in Seq(Tasks)
           /\ Follows(t \o SubSeq(s, c, Len(s)), t, s, c)
<1> DEFINE u == SubSeq(s, c, Len(s))
           r == t \o u
<1>1. u \in Seq(Tasks) /\ Follows(u, <<>>, s, c)
  BY SubSeqFollows
<1>2. Len(s) \in Nat /\ Len(t) \in Nat /\ Len(u) \in Nat
  BY <1>1, LenProperties
<1>3. Len(u) = Len(s) + 1 - c
  <2>1. Len(u) = Len(<<>>) + Len(s) + 1 - c /\ Len(<<>>) = 0
    BY <1>1 DEF Follows
  <2>2. QED
    BY <1>2, <2>1
<1>4. \A k \in c..Len(s) : u[k + 1 - c] = s[k]
  <2>1. \A k \in c..Len(s) : u[k + Len(<<>>) + 1 - c] = s[k]
    BY <1>1 DEF Follows
  <2>2. Len(<<>>) = 0
    OBVIOUS
  <2>3. ASSUME NEW k \in c..Len(s)
        PROVE  k + Len(<<>>) + 1 - c = k + 1 - c
    BY <1>2, <2>2
  <2>4. QED
    BY <2>1, <2>3
<1> HIDE DEF u
<1>5. /\ r \in Seq(Tasks) /\ Len(r) = Len(t) + Len(u)
      /\ \A i \in 1..Len(t) + Len(u) :
            r[i] = IF i <= Len(t) THEN t[i] ELSE u[i - Len(t)]
  BY <1>1, ConcatProperties
<1> HIDE DEF r
<1>6. Len(r) = Len(t) + Len(s) + 1 - c
  BY <1>2, <1>3, <1>5
<1>7. \A i \in 1..Len(t) : r[i] = t[i]
  BY <1>2, <1>5
<1>8. ASSUME NEW k \in c..Len(s)
      PROVE  r[k + Len(t) + 1 - c] = s[k]
  <2>1. k + Len(t) + 1 - c \in 1..Len(t) + Len(u)
    BY <1>2, <1>3
  <2>2. /\ ~(k + Len(t) + 1 - c <= Len(t))
        /\ k + Len(t) + 1 - c - Len(t) = k + 1 - c
    BY <1>2
  <2>3. QED
    BY <1>4, <1>5, <2>1, <2>2, SMTT(30)
<1>9. Follows(r, t, s, c)
  BY <1>5, <1>6, <1>7, <1>8, FollowsAt
<1>10. QED
  BY <1>5, <1>9 DEF r, u

LEMMA CommitsFirstLate ==
    ASSUME NEW s \in Seq(Tasks), NEW t \in Seq(Tasks), NEW r,
           NEW c \in 1..(Len(s) + 1), Follows(r, t, s, c),
           CommitsFirst(t), \A i \in DOMAIN s : ~Commits(s[i])
    PROVE  CommitsFirst(r)
<1>1. SUFFICES ASSUME NEW i \in DOMAIN r, NEW k \in DOMAIN r, Commits(r[i])
               PROVE  /\ Commits(r[k]) => i = k
                      /\ r[k][1] \in Late => i < k
  BY DEF CommitsFirst
<1>2. i \in DOMAIN t /\ r[i] = t[i]
  BY <1>1 DEF Follows
<1>3. CASE k \in DOMAIN t /\ r[k] = t[k]
  BY <1>1, <1>2, <1>3 DEF CommitsFirst
<1>4. ASSUME NEW n \in c..Len(s), n \in DOMAIN s, r[k] = s[n], k > Len(t)
      PROVE  /\ Commits(r[k]) => i = k
             /\ r[k][1] \in Late => i < k
  <2>1. ~Commits(r[k])
    BY <1>4
  <2>2. i < k
    <3>1. Len(t) \in Nat /\ i \in 1..Len(t) /\ k \in 1..Len(r)
      BY <1>2 DEF Follows
    <3>2. QED
      BY <1>4, <3>1
  <2>3. QED
    BY <2>1, <2>2
<1>5. QED
  BY <1>1, <1>3, <1>4 DEF Follows

LEMMA ShapedPush ==
    ASSUME job \in Jobs, Shaped(job), job.todo # <<>>,
           job.todo[1][1] \in Late, NEW t \in Seq(Tasks), GoesOn(t, 2),
           Linked(t), KillFirst(t), CommitsFirst(t),
           \A i \in DOMAIN t : OfOp(t[i], job.op)
    PROVE  Shaped(job')
<1> DEFINE s == job.todo
           r == job'.todo
<1>1. s \in Seq(Tasks) /\ 2 \in 1..(Len(s) + 1) /\ 1 \in DOMAIN s
  BY EmptySeq, LenProperties DEF Jobs
<1>2. Follows(r, t, s, 2)
  BY DEF GoesOn
<1>3. \A i \in DOMAIN s : ~Commits(s[i])
  <2>1. ASSUME NEW i \in DOMAIN s, Commits(s[i])
        PROVE  FALSE
    <3>1. i < 1
      BY <1>1, <2>1 DEF Shaped, CommitsFirst
    <3>2. i \in 1..Len(s)
      BY <1>1, <2>1, LenProperties
    <3>3. QED
      BY <3>1, <3>2
  <2>2. QED
    BY <2>1
<1>4. CommitsFirst(r)
  BY <1>1, <1>2, <1>3, CommitsFirstLate
<1>5. CutBefore(t, s, 2)
  BY <1>1, CutAfter DEF Shaped, Late, Sources
<1>6. Linked(r) /\ KillFirst(r)
  BY <1>1, <1>2, <1>5, LinkedFollows, KillFirstFollows DEF Shaped
<1>7. ASSUME NEW i \in DOMAIN r
      PROVE  OfOp(r[i], job'.op)
  <2>1. job'.op = job.op
    <3>1. r # <<>>
      BY <1>7
    <3>2. QED
      BY <3>1 DEF GoesOn
  <2>2. CASE i \in DOMAIN t /\ r[i] = t[i]
    BY <2>1, <2>2
  <2>3. CASE \E k \in DOMAIN s : r[i] = s[k]
    BY <2>1, <2>3 DEF Shaped
  <2>4. QED
    BY <1>2, <1>7, <2>2, <2>3 DEF Follows
<1>8. QED
  BY <1>4, <1>6, <1>7 DEF Shaped

LEMMA LinkedBack ==
    ASSUME NEW s, Linked(s), NEW i \in DOMAIN s, i > 1, s[i][1] \in Targets
    PROVE  s[i - 1][1] \in Sources
BY DEF Linked, Links, Sources, Targets

LEMMA ChainAt ==
    ASSUME NEW s \in Seq(Tasks), Linked(s), s # <<>>, s[1][1] = "begin"
    PROVE  /\ Len(s) >= 5 /\ 6 \in 1..(Len(s) + 1)
           /\ s[2][1] = "private" /\ s[3][1] = "append"
           /\ s[4][1] = "project" /\ s[5][1] = "acknowledge"
           /\ 6 \in DOMAIN s => s[6][1] \notin Targets
<1>1. DOMAIN s = 1..Len(s) /\ Len(s) \in Nat /\ 1 \in DOMAIN s
  BY EmptySeq, LenProperties
<1>2. ASSUME NEW i \in DOMAIN s, NEW l \in Links
      PROVE  /\ s[i][1] = l[1] => i + 1 \in DOMAIN s /\ s[i + 1][1] = l[2]
             /\ s[i][1] = l[2] /\ i > 1 => s[i - 1][1] = l[1]
  BY DEF Linked
<1>3. /\ <<"begin", "private">> \in Links /\ <<"private", "append">> \in Links
      /\ <<"append", "project">> \in Links
      /\ <<"project", "acknowledge">> \in Links
  BY DEF Links
<1>4. 2 \in DOMAIN s /\ s[2][1] = "private"
  <2>1. 1 + 1 \in DOMAIN s /\ s[1 + 1][1] = <<"begin", "private">>[2]
    BY <1>1, <1>2, <1>3
  <2>2. QED
    BY <2>1
<1>5. 3 \in DOMAIN s /\ s[3][1] = "append"
  <2>1. 2 + 1 \in DOMAIN s /\ s[2 + 1][1] = <<"private", "append">>[2]
    BY <1>2, <1>3, <1>4
  <2>2. QED
    BY <2>1
<1>6. 4 \in DOMAIN s /\ s[4][1] = "project"
  <2>1. 3 + 1 \in DOMAIN s /\ s[3 + 1][1] = <<"append", "project">>[2]
    BY <1>2, <1>3, <1>5
  <2>2. QED
    BY <2>1
<1>7. 5 \in DOMAIN s /\ s[5][1] = "acknowledge"
  <2>1. 4 + 1 \in DOMAIN s /\ s[4 + 1][1] = <<"project", "acknowledge">>[2]
    BY <1>2, <1>3, <1>6
  <2>2. QED
    BY <2>1
<1>8. ASSUME 6 \in DOMAIN s, s[6][1] \in Targets
      PROVE  FALSE
  <2>1. s[6 - 1][1] \in Sources
    BY <1>8, LinkedBack
  <2>2. 6 - 1 = 5
    OBVIOUS
  <2>3. s[5][1] \in Sources
    BY <2>1, <2>2
  <2>4. QED
    BY <1>7, <2>3 DEF Sources
<1>9. QED
  BY <1>1, <1>4, <1>5, <1>6, <1>7, <1>8

\* A transaction stands whole at the head.
ChainEnd(s) == /\ 6 \in 1..(Len(s) + 1)
               /\ 6 \in DOMAIN s => s[6][1] \notin Targets

LEMMA OutboxIsBundle == Bundle(<<<<"outbox", 0>>>>)
BY BundleOne DEF Tasks, RunTasks, PlainTasks, Sources, Targets

LEMMA ShapedBegin ==
    ASSUME job \in Jobs, Shaped(job), Begin
    PROVE  job' \in Jobs /\ Shaped(job')
<1> DEFINE s == job.todo
           t == <<<<"outbox", 0>>>>
<1>1. /\ s \in Seq(Tasks) /\ s # <<>> /\ s[1][1] = "begin"
      /\ 1 \in 1..(Len(s) + 1) /\ job \in Jobs
  BY AtHead DEF Begin
<1>2. Bundle(t) /\ t \in Seq(Tasks) /\ Linked(t) /\ Plain(t)
  BY OutboxIsBundle DEF Bundle, Script
<1>3. ChainEnd(s)
  BY <1>1, ChainAt DEF Shaped, ChainEnd
<1>4. CASE job' = Erred
  BY <1>1, <1>4, ErredStep, ShapedFails DEF Fails
<1>5. CASE Next1
  BY <1>1, <1>5, Next1Step, ShapedSteps DEF Steps, GoesOn
<1>6. CASE Does(<<Step("outbox")>> \o s)
  <2> DEFINE r == t \o s
  <2>1. r \in Seq(Tasks) /\ Follows(r, t, s, 1)
    BY <1>1, <1>2, ConcatFollows DEF Follows
  <2>2. Does(r)
    BY <1>6 DEF Step
  <2> HIDE DEF r, t
  <2>3. GoesOn(t, 1)
    BY <2>1, <2>2, DoesStep DEF GoesOn
  <2>4. CutBefore(t, s, 1)
    BY <1>1 DEF CutBefore, Targets
  <2>5. QED
    BY <1>1, <1>2, <2>3, <2>4, ShapedGoesOn DEF GoesOn
<1>7. CASE Does(<<Step("outbox")>> \o SubSeq(s, 6, Len(s)))
  <2> DEFINE r == t \o SubSeq(s, 6, Len(s))
  <2>1. r \in Seq(Tasks) /\ Follows(r, t, s, 6)
    BY <1>1, <1>2, <1>3, SuffixFollows DEF ChainEnd
  <2>2. Does(r)
    BY <1>7 DEF Step
  <2> HIDE DEF r, t
  <2>3. GoesOn(t, 6)
    BY <2>1, <2>2, DoesStep DEF GoesOn
  <2>4. CutBefore(t, s, 6) /\ 6 \in 1..(Len(s) + 1)
    BY <1>3 DEF CutBefore, ChainEnd
  <2>5. QED
    BY <1>1, <1>2, <2>3, <2>4, ShapedGoesOn DEF GoesOn
<1>8. QED
  BY <1>4, <1>5, <1>6, <1>7 DEF Begin, AfterPending

\* What takes up a pending transaction.
Resume == <<Step("private"), Step("append"), Step("project"),
            Step("acknowledge")>>

LEMMA ResumeIs ==
    /\ Resume \in Seq(Tasks) /\ Linked(Resume) /\ Plain(Resume)
    /\ DOMAIN Resume = 1..4 /\ Len(Resume) = 4 /\ Resume[1][1] = "private"
<1> DEFINE t == Resume
<1>1. /\ t[1] = <<"private", 0>> /\ t[2] = <<"append", 0>>
      /\ t[3] = <<"project", 0>> /\ t[4] = <<"acknowledge", 0>>
      /\ DOMAIN t = 1..4 /\ Len(t) = 4
  BY DEF Resume, Step
<1>2. t \in Seq(Tasks)
  <2>1. /\ <<"private", 0>> \in Tasks /\ <<"append", 0>> \in Tasks
        /\ <<"project", 0>> \in Tasks /\ <<"acknowledge", 0>> \in Tasks
    BY DEF Tasks, RunTasks
  <2>2. QED
    BY <2>1 DEF Resume, Step
<1> HIDE DEF t
<1>3. Linked(t)
  <2>1. SUFFICES ASSUME NEW i \in 1..4, NEW l \in Links
                 PROVE  /\ t[i][1] = l[1]
                              => i + 1 \in 1..4 /\ t[i + 1][1] = l[2]
                        /\ t[i][1] = l[2] /\ i > 1 => t[i - 1][1] = l[1]
    BY <1>1 DEF Linked
  <2>2. /\ t[1][1] = "private" /\ t[2][1] = "append" /\ t[3][1] = "project"
        /\ t[4][1] = "acknowledge"
    BY <1>1
  <2>3. CASE i = 1
    BY <2>2, <2>3 DEF Links
  <2>4. CASE i = 2
    BY <2>2, <2>4 DEF Links
  <2>5. CASE i = 3
    BY <2>2, <2>5 DEF Links
  <2>6. CASE i = 4
    BY <2>2, <2>6 DEF Links
  <2>7. QED
    BY <2>3, <2>4, <2>5, <2>6
<1>4. Plain(t)
  BY <1>1 DEF Plain, PlainTasks, Commits
<1>5. QED
  BY <1>1, <1>2, <1>3, <1>4 DEF t

LEMMA ShapedOutbox ==
    ASSUME job \in Jobs, Shaped(job), ReconcileOutbox
    PROVE  job' \in Jobs /\ Shaped(job')
<1>1. /\ job.todo \in Seq(Tasks) /\ job.todo # <<>>
      /\ job.todo[1][1] = "outbox" /\ 2 \in 1..(Len(job.todo) + 1)
  BY AtHead DEF ReconcileOutbox
<1>2. CASE Next1
  BY <1>1, <1>2, Next1Step, ShapedSteps DEF Steps, GoesOn
<1>3. CASE Push(Resume)
  <2>1. GoesOn(Resume, 2)
    BY <1>1, <1>3, ResumeIs, PushStep
  <2>2. CutBefore(Resume, job.todo, 2)
    BY <1>1, CutAfter DEF Shaped, Sources
  <2>3. QED
    BY <1>1, <2>1, <2>2, ResumeIs, ShapedGoesOn DEF GoesOn
<1>4. QED
  BY <1>2, <1>3 DEF ReconcileOutbox, Resume

\* The panes to clean up, one after the other.
CleanupList(order) == [i \in DOMAIN order |-> Task("cleanup", order[i])]

LEMMA CleanupListIs ==
    ASSUME NEW panes \in SUBSET Activations, IsFiniteSet(panes),
           NEW order \in SetToSeqs(panes)
    PROVE  /\ CleanupList(order) \in Seq(Tasks)
           /\ \A i \in DOMAIN CleanupList(order) :
                 /\ CleanupList(order)[i][1] = "cleanup"
                 /\ CleanupList(order)[i][2] \in panes
           /\ \A i, k \in DOMAIN CleanupList(order) :
                 i # k
                   => CleanupList(order)[i][2] # CleanupList(order)[k][2]
<1> DEFINE n == Cardinality(panes)
           t == CleanupList(order)
<1>1. n \in Nat
  BY FS_CardinalityType
<1>2. /\ order \in [1..n -> panes]
      /\ \A i, k \in 1..n : i # k => order[i] # order[k]
  BY DEF SetToSeqs
<1>3. DOMAIN t = 1..n /\ \A i \in 1..n : t[i] = <<"cleanup", order[i]>>
  BY <1>2 DEF CleanupList, Task
<1> HIDE DEF n
<1>4. \A i \in 1..n : <<"cleanup", order[i]>> \in Tasks
  BY <1>2 DEF Tasks, ActTasks, PaneTasks
<1>5. t \in [1..n -> Tasks]
  BY <1>3, <1>4 DEF CleanupList
<1>6. t \in Seq(Tasks)
  BY <1>1, <1>5, SeqDef
<1> HIDE DEF t
<1>7. \A i \in DOMAIN t : t[i][1] = "cleanup" /\ t[i][2] \in panes
  BY <1>2, <1>3
<1>8. \A i, k \in DOMAIN t : i # k => t[i][2] # t[k][2]
  BY <1>2, <1>3
<1>9. QED
  BY <1>6, <1>7, <1>8 DEF t

\* Tasks of a cleanup, none of them of a transaction.
LEMMA CleanupsShaped ==
    ASSUME NEW t \in Seq(Tasks),
           \A i \in DOMAIN t :
              t[i][1] \in {"cleanup", "preserve", "clean", "release", "kill"}
    PROVE  /\ Linked(t) /\ CommitsFirst(t)
           /\ \A op : \A i \in DOMAIN t : OfOp(t[i], op)
<1>1. Linked(t)
  BY DEF Linked, Links
<1>2. CommitsFirst(t)
  BY DEF CommitsFirst, Commits
<1>3. \A op : \A i \in DOMAIN t : OfOp(t[i], op)
  BY DEF OfOp
<1>4. QED
  BY <1>1, <1>2, <1>3

LEMMA CleanupAllStep ==
    ASSUME TypeInv, CleanupAll
    PROVE  /\ job.todo # <<>> /\ job.todo[1][1] = "finalize"
           /\ \E panes \in SUBSET (facts.panes \cup facts.cleaning) :
                 /\ panes \in SUBSET Activations /\ IsFiniteSet(panes)
                 /\ \E order \in SetToSeqs(panes) :
                       /\ CleanupList(order) \in Seq(Tasks)
                       /\ GoesOn(CleanupList(order), 2)
<1>1. /\ job \in Jobs /\ facts \in FactRecords
      /\ IsFiniteSet(facts.panes) /\ IsFiniteSet(facts.cleaning)
  BY DEF TypeInv
<1>2. /\ job.todo # <<>> /\ job.todo[1][1] = "finalize"
      /\ job.todo[1] \in Tasks /\ Of = job.todo[1][2]
  BY <1>1, AtHead DEF CleanupAll
<1>3. Of \in {"panes", "pending", "exited"}
  BY <1>2, TaskIs
<1> DEFINE panes == CASE Of = "panes" -> facts.panes
                      [] Of = "pending" -> facts.cleaning
                      [] Of = "exited" -> facts.panes \cap log.exited
<1>4. PICK order \in SetToSeqs(panes) : Push(CleanupList(order))
  BY DEF CleanupAll, CleanupList
<1>5. /\ facts.panes \in SUBSET Activations
      /\ facts.cleaning \in SUBSET Activations
  BY <1>1 DEF FactRecords
<1>6. IsFiniteSet(facts.panes \cap log.exited)
  BY <1>1, FS_Subset
<1>7. /\ panes \in SUBSET Activations /\ IsFiniteSet(panes)
      /\ panes \in SUBSET (facts.panes \cup facts.cleaning)
  BY <1>1, <1>3, <1>5, <1>6
<1> HIDE DEF panes
<1>8. CleanupList(order) \in Seq(Tasks)
  BY <1>7, CleanupListIs
<1>9. GoesOn(CleanupList(order), 2)
  BY <1>1, <1>2, <1>4, <1>8, PushStep
<1>10. QED
  BY <1>2, <1>7, <1>8, <1>9

LEMMA ShapedCleanupAll ==
    ASSUME TypeInv, Shaped(job), CleanupAll
    PROVE  job' \in Jobs /\ Shaped(job')
<1>1. job \in Jobs
  BY DEF TypeInv
<1>2. PICK panes \in SUBSET Activations :
        /\ IsFiniteSet(panes)
        /\ \E order \in SetToSeqs(panes) : GoesOn(CleanupList(order), 2)
  BY CleanupAllStep
<1>3. PICK order \in SetToSeqs(panes) : GoesOn(CleanupList(order), 2)
  BY <1>2
<1> DEFINE t == CleanupList(order)
<1>4. t \in Seq(Tasks) /\ \A i \in DOMAIN t : t[i][1] = "cleanup"
  BY <1>2, CleanupListIs
<1>5. GoesOn(t, 2)
  BY <1>3
<1> HIDE DEF t
<1>6. KillFirst(t)
  BY <1>4 DEF KillFirst
<1>7. /\ Linked(t) /\ CommitsFirst(t)
      /\ \A i \in DOMAIN t : OfOp(t[i], job.op)
  BY <1>4, CleanupsShaped
<1>8. job.todo # <<>> /\ job.todo[1][1] \in Late
  BY CleanupAllStep DEF Late
<1>9. QED
  BY <1>1, <1>4, <1>5, <1>6, <1>7, <1>8, ShapedPush DEF GoesOn

\* What the cleanup of a pane consists of.
CleanupOf(a) == <<Task("kill", a), Task("preserve", a), Task("clean", a),
                  Task("release", a)>>

LEMMA CleanupOfIs ==
    ASSUME NEW a \in Activations
    PROVE  /\ CleanupOf(a) \in Seq(Tasks) /\ DOMAIN CleanupOf(a) = 1..4
           /\ CleanupOf(a)[1] = <<"kill", a>>
           /\ CleanupOf(a)[2] = <<"preserve", a>>
           /\ CleanupOf(a)[3] = <<"clean", a>>
           /\ CleanupOf(a)[4] = <<"release", a>>
<1>1. /\ <<"kill", a>> \in Tasks /\ <<"preserve", a>> \in Tasks
      /\ <<"clean", a>> \in Tasks /\ <<"release", a>> \in Tasks
  BY DEF Tasks, ActTasks, PaneTasks
<1>2. QED
  BY <1>1 DEF CleanupOf, Task

LEMMA CleanupIntentStep ==
    ASSUME job \in Jobs, CleanupIntent
    PROVE  /\ job.todo # <<>> /\ job.todo[1] = <<"cleanup", Of>>
           /\ Of \in Activations
           /\ \/ /\ facts' = [facts EXCEPT !.cleaning = @ \cup {Of}]
                 /\ GoesOn(CleanupOf(Of), 2)
              \/ UNCHANGED facts /\ Fails
<1>1. /\ job.todo # <<>> /\ job.todo[1][1] = "cleanup"
      /\ job.todo[1] \in Tasks /\ Of = job.todo[1][2]
  BY AtHead DEF CleanupIntent
<1>2. Of \in Activations
  BY <1>1, TaskIs DEF ActTasks, PaneTasks
<1>3. job.todo[1] = <<"cleanup", Of>>
  <2>1. job.todo[1] \in (ActTasks \X Activations)
    BY <1>1 DEF Tasks, RunTasks
  <2>2. QED
    BY <1>1, <2>1
<1>4. Push(CleanupOf(Of)) => GoesOn(CleanupOf(Of), 2)
  BY <1>1, <1>2, CleanupOfIs, PushStep
<1>5. QED
  BY <1>1, <1>2, <1>3, <1>4, ErredStep DEF CleanupIntent, CleanupOf

LEMMA ShapedCleanupIntent ==
    ASSUME job \in Jobs, Shaped(job), CleanupIntent
    PROVE  job' \in Jobs /\ Shaped(job')
<1> DEFINE t == CleanupOf(Of)
<1>1. /\ job.todo # <<>> /\ job.todo[1][1] \in Late /\ Of \in Activations
      /\ GoesOn(t, 2) \/ Fails
  BY CleanupIntentStep DEF Late
<1>2. CASE Fails
  BY <1>2, ShapedFails DEF Fails
<1>3. CASE GoesOn(t, 2)
  <2>1. /\ t \in Seq(Tasks) /\ DOMAIN t = 1..4 /\ t[1] = <<"kill", Of>>
        /\ t[2] = <<"preserve", Of>> /\ t[3] = <<"clean", Of>>
        /\ t[4] = <<"release", Of>>
    BY <1>1, CleanupOfIs
  <2> HIDE DEF t
  <2>2. KillFirst(t)
    BY <2>1 DEF KillFirst
  <2>3. /\ Linked(t) /\ CommitsFirst(t)
        /\ \A i \in DOMAIN t : OfOp(t[i], job.op)
    BY <2>1, CleanupsShaped
  <2>4. QED
    BY <1>1, <1>3, <2>1, <2>2, <2>3, ShapedPush DEF GoesOn
<1>4. QED
  BY <1>1, <1>2, <1>3

\* A pane that was not killed.
GivenUp(a) == Publish("unkilled", a) \o <<Step("fail")>>

LEMMA GivenUpIs ==
    ASSUME NEW a \in Activations
    PROVE  Bundle(GivenUp(a)) /\ GivenUp(a) # <<>>
<1>1. Bundle(Publish("unkilled", a))
  BY BundlePublish DEF Publications, ActWhats, InLog
<1>2. Bundle(<<Step("fail")>>)
  BY BundleOne DEF Step, Tasks, RunTasks, PlainTasks, Sources, Targets
<1>3. GivenUp(a) # <<>>
  <2>1. Len(Publish("unkilled", a)) = 5
    BY PublishIs DEF Publications, ActWhats
  <2>2. Publish("unkilled", a) # <<>>
    BY <2>1
  <2>3. QED
    BY <1>1, <1>2, <2>2, ConcatEmptySeq DEF GivenUp, Bundle, Script
<1>4. QED
  BY <1>1, <1>2, <1>3, BundleConcat DEF GivenUp

LEMMA KillPaneStep ==
    ASSUME job \in Jobs, Shaped(job), KillPane
    PROVE  /\ job.todo # <<>> /\ job.todo[1][1] = "kill" /\ Of \in Activations
           /\ job.todo[1][2] = Of
           /\ \/ GoesOn(<<>>, 2)
              \/ Fails
              \/ /\ 5 \in 1..(Len(job.todo) + 1)
                 /\ job.todo[2][1] = "preserve" /\ job.todo[3][1] = "clean"
                 /\ job.todo[4][1] = "release"
                 /\ CutBefore(GivenUp(Of), job.todo, 5)
                 /\ GoesOn(GivenUp(Of), 5)
<1> DEFINE s == job.todo
           t == GivenUp(Of)
           r == t \o SubSeq(s, 5, Len(s))
<1>1. /\ s \in Seq(Tasks) /\ s # <<>> /\ s[1][1] = "kill" /\ 1 \in DOMAIN s
      /\ s[1] \in Tasks /\ Of = s[1][2]
  BY AtHead DEF KillPane
<1>2. Of \in Activations
  BY <1>1, TaskIs DEF ActTasks, PaneTasks
<1>3. CASE Next1
  BY <1>1, <1>2, <1>3, Next1Step
<1>4. CASE job' = Erred
  BY <1>1, <1>2, <1>4, ErredStep
<1>5. CASE Does(r)
  <2>1. /\ 4 \in DOMAIN s /\ s[4][1] = "release"
        /\ s[2][1] = "preserve" /\ s[3][1] = "clean"
    BY <1>1 DEF Shaped, KillFirst
  <2>2. 5 \in 1..(Len(s) + 1)
    BY <1>1, <2>1, LenProperties
  <2>3. ASSUME 5 \in DOMAIN s, s[5][1] \in Targets
        PROVE  FALSE
    <3>1. s[5 - 1][1] \in Sources
      BY <2>3, LinkedBack DEF Shaped
    <3>2. 5 - 1 = 4
      OBVIOUS
    <3>3. s[4][1] \in Sources
      BY <3>1, <3>2
    <3>4. QED
      BY <2>1, <3>3 DEF Sources
  <2>4. CutBefore(t, s, 5)
    BY <2>3 DEF CutBefore
  <2>5. t \in Seq(Tasks)
    BY <1>2, GivenUpIs DEF Bundle, Script
  <2>6. r \in Seq(Tasks) /\ Follows(r, t, s, 5)
    BY <1>1, <2>2, <2>5, SuffixFollows
  <2> HIDE DEF r, t
  <2>7. GoesOn(t, 5)
    BY <1>5, <2>6, DoesStep DEF GoesOn
  <2>8. QED
    BY <1>1, <1>2, <2>1, <2>2, <2>4, <2>7 DEF t
<1>6. QED
  BY <1>3, <1>4, <1>5 DEF KillPane, GivenUp

LEMMA ShapedKillPane ==
    ASSUME job \in Jobs, Shaped(job), KillPane
    PROVE  job' \in Jobs /\ Shaped(job')
<1>1. CASE GoesOn(<<>>, 2) \/ Fails
  BY <1>1, KillPaneStep, ShapedSteps DEF Steps, GoesOn, Fails
<1>2. CASE /\ 5 \in 1..(Len(job.todo) + 1)
           /\ CutBefore(GivenUp(Of), job.todo, 5)
           /\ GoesOn(GivenUp(Of), 5)
  <2>1. Bundle(GivenUp(Of))
    BY KillPaneStep, GivenUpIs
  <2>2. QED
    BY <1>2, <2>1, ShapedGoesOn DEF Bundle, Script, GoesOn
<1>3. QED
  BY <1>1, <1>2, KillPaneStep

LEMMA PublishCommits ==
    ASSUME NEW w, NEW a, <<w, a>> \in Publications
    PROVE  CommitsFirst(Publish(w, a))
<1> DEFINE t == Publish(w, a)
<1>1. /\ DOMAIN t = 1..5 /\ t[1] = <<"begin", <<w, a>>>>
      /\ t[2] = <<"private", 0>> /\ t[3] = <<"append", 0>>
      /\ t[4] = <<"project", 0>> /\ t[5] = <<"acknowledge", 0>>
  BY PublishIs
<1> HIDE DEF t
<1>2. \A i \in DOMAIN t : i # 1 => ~Commits(t[i])
  BY <1>1 DEF Commits
<1>3. \A i \in DOMAIN t : t[i][1] \notin Late
  BY <1>1 DEF Late
<1>4. CommitsFirst(t)
  BY <1>2, <1>3 DEF CommitsFirst
<1>5. QED
  BY <1>4 DEF t

LEMMA PublishOfOp ==
    ASSUME NEW w, NEW a, <<w, a>> \in Publications, NEW op,
           OfOp(<<"begin", <<w, a>>>>, op)
    PROVE  \A i \in DOMAIN Publish(w, a) : OfOp(Publish(w, a)[i], op)
<1> DEFINE t == Publish(w, a)
<1>1. /\ DOMAIN t = 1..5 /\ t[1] = <<"begin", <<w, a>>>>
      /\ t[2] = <<"private", 0>> /\ t[3] = <<"append", 0>>
      /\ t[4] = <<"project", 0>> /\ t[5] = <<"acknowledge", 0>>
  BY PublishIs
<1> HIDE DEF t
<1>2. \A i \in DOMAIN t : i # 1 => OfOp(t[i], op)
  BY <1>1 DEF OfOp
<1>3. \A i \in DOMAIN t : OfOp(t[i], op)
  BY <1>1, <1>2
<1>4. QED
  BY <1>3 DEF t

LEMMA SuspendStep ==
    ASSUME job \in Jobs, Suspend
    PROVE  /\ job.todo # <<>> /\ job.todo[1][1] = "suspend"
           /\ \/ GoesOn(<<>>, 2)
              \/ log.status = "running" /\ GoesOn(Publish("pause", 0), 2)
<1>1. job.todo # <<>> /\ job.todo[1][1] = "suspend"
  BY AtHead DEF Suspend
<1>2. Publish("pause", 0) \in Seq(Tasks)
  BY PublishIs DEF Publications, RunWhats
<1>3. QED
  BY <1>1, <1>2, PushStep, Next1Step DEF Suspend

LEMMA ShapedSuspend ==
    ASSUME job \in Jobs, Shaped(job), Suspend
    PROVE  job' \in Jobs /\ Shaped(job')
<1>1. job.todo # <<>> /\ job.todo[1][1] = "suspend"
  BY SuspendStep
<1>2. CASE GoesOn(<<>>, 2)
  BY <1>1, <1>2, ShapedSteps DEF Steps, GoesOn
<1>3. CASE GoesOn(Publish("pause", 0), 2)
  <2> DEFINE t == Publish("pause", 0)
  <2>1. <<"pause", 0>> \in Publications
    BY DEF Publications, RunWhats
  <2>2. job.op = "load"
    <3>1. 1 \in DOMAIN job.todo
      BY <1>1, EmptySeq, LenProperties DEF Jobs
    <3>2. QED
      BY <1>1, <3>1 DEF Shaped, OfOp
  <2>3. Script(t) /\ CommitsFirst(t)
    BY <2>1, PublishScript, PublishCommits
  <2>4. \A i \in DOMAIN t : OfOp(t[i], job.op)
    BY <2>1, <2>2, PublishOfOp DEF OfOp
  <2>5. GoesOn(t, 2)
    BY <1>3
  <2> HIDE DEF t
  <2>6. QED
    BY <1>1, <2>3, <2>4, <2>5, ShapedPush
    DEF Script, KillFirst, GoesOn, Late
<1>4. QED
  BY <1>2, <1>3, SuspendStep

-----------------------------------------------------------------------------
(* What an operation begins with.                                          *)

\* Tasks an operation may have from its beginning.
Begun(t, op) ==
    /\ t \in Seq(Tasks) /\ Linked(t) /\ CommitsFirst(t)
    /\ t # <<>> => t[1][1] \notin Targets
    /\ \A i \in DOMAIN t : t[i][1] # "kill" /\ OfOp(t[i], op)
Tidy(t) == \A i \in DOMAIN t : t[i][1] # "cleanup"

LEMMA BegunConcat ==
    ASSUME NEW t, NEW u, NEW op, Begun(t, op), Begun(u, op),
           Early(t) \/ \A i \in DOMAIN u : ~Commits(u[i])
    PROVE  /\ Begun(t \o u, op) /\ Follows(t \o u, t, u, 1)
           /\ 1 \in 1..(Len(u) + 1)
           /\ Tidy(t) /\ Tidy(u) => Tidy(t \o u)
<1> DEFINE r == t \o u
<1>1. t \in Seq(Tasks) /\ u \in Seq(Tasks)
  BY DEF Begun
<1>2. Follows(r, t, u, 1) /\ 1 \in 1..(Len(u) + 1)
  BY <1>1, ConcatFollows, LenProperties
<1>3. CutBefore(t, u, 1)
  BY DEF CutBefore, Begun
<1>4. r # <<>> => r[1][1] \notin Targets
  <2>1. CASE t = <<>>
    BY <1>1, <2>1, ConcatEmptySeq DEF Begun
  <2>2. CASE t # <<>>
    <3>1. Len(t) # 0
      BY <1>1, <2>2, EmptySeq
    <3>2. 1 \in DOMAIN t
      BY <1>2, <3>1 DEF Follows
    <3>3. r[1] = t[1]
      BY <1>2, <3>2 DEF Follows
    <3>4. QED
      BY <2>2, <3>3 DEF Begun
  <2>3. QED
    BY <2>1, <2>2
<1> HIDE DEF r
<1>5. Linked(r)
  BY <1>1, <1>2, <1>3, LinkedFollows DEF Begun
<1>6. CommitsFirst(r)
  BY <1>1, <1>2, CommitsFirstFollows, CommitsFirstLate DEF Begun
<1>7. \A i \in DOMAIN r : r[i][1] # "kill" /\ OfOp(r[i], op)
  BY <1>2 DEF Follows, Begun
<1>8. Begun(r, op) /\ Follows(r, t, u, 1)
  BY <1>2, <1>4, <1>5, <1>6, <1>7 DEF Begun, Follows
<1>9. Tidy(t) /\ Tidy(u) => Tidy(r)
  BY <1>2 DEF Follows, Tidy
<1>10. QED
  BY <1>2, <1>8, <1>9 DEF r

LEMMA ListBegun ==
    ASSUME NEW t \in Seq(Tasks), NEW op, DOMAIN t = 1..Len(t),
           \A i \in DOMAIN t :
              /\ t[i][1] \notin Sources \cup Targets \cup {"kill"}
              /\ OfOp(t[i], op)
    PROVE  Begun(t, op) /\ \A i \in DOMAIN t : ~Commits(t[i])
<1>1. \A i \in DOMAIN t : ~Commits(t[i])
  BY DEF Commits, Sources
<1>2. Linked(t)
  BY DEF Linked, Links, Sources, Targets
<1>3. CommitsFirst(t)
  BY <1>1 DEF CommitsFirst
<1>4. t # <<>> => 1 \in DOMAIN t
  BY EmptySeq, LenProperties
<1>5. QED
  BY <1>1, <1>2, <1>3, <1>4 DEF Begun

LEMMA OneBegun ==
    ASSUME NEW x \in Tasks, NEW op, OfOp(x, op),
           x[1] \notin Sources \cup Targets \cup {"kill"}
    PROVE  /\ Begun(<<x>>, op) /\ ~Commits(x)
           /\ DOMAIN <<x>> = {1} /\ <<x>>[1] = x
           /\ x[1] \notin Late => Early(<<x>>)
           /\ x[1] # "cleanup" => Tidy(<<x>>)
<1> DEFINE t == <<x>>
<1>1. t \in Seq(Tasks) /\ DOMAIN t = 1..Len(t) /\ DOMAIN t = {1} /\ t[1] = x
  OBVIOUS
<1> HIDE DEF t
<1>2. \A i \in DOMAIN t :
         /\ t[i][1] \notin Sources \cup Targets \cup {"kill"}
         /\ OfOp(t[i], op)
  BY <1>1
<1>3. Begun(t, op) /\ \A i \in DOMAIN t : ~Commits(t[i])
  BY <1>1, <1>2, ListBegun
<1>4. /\ x[1] \notin Late => Early(t)
      /\ x[1] # "cleanup" => Tidy(t)
  BY <1>1, <1>3 DEF Early, Tidy
<1>5. QED
  BY <1>1, <1>3, <1>4 DEF t

LEMMA TwoBegun ==
    ASSUME NEW x \in Tasks, NEW y \in Tasks, NEW op,
           OfOp(x, op), OfOp(y, op),
           {x[1], y[1]} \cap (Sources \cup Targets \cup {"kill"}) = {}
    PROVE  /\ Begun(<<x, y>>, op)
           /\ \A i \in DOMAIN <<x, y>> : ~Commits(<<x, y>>[i])
           /\ DOMAIN <<x, y>> = 1..2 /\ <<x, y>>[1] = x /\ <<x, y>>[2] = y
           /\ x[1] # "cleanup" /\ y[1] # "cleanup" => Tidy(<<x, y>>)
<1> DEFINE t == <<x, y>>
<1>1. /\ t \in Seq(Tasks) /\ DOMAIN t = 1..Len(t) /\ DOMAIN t = 1..2
      /\ t[1] = x /\ t[2] = y
  OBVIOUS
<1> HIDE DEF t
<1>2. \A i \in DOMAIN t : t[i] = x \/ t[i] = y
  <2>1. DOMAIN t = 1..2
    BY <1>1
  <2>2. \A i \in DOMAIN t : i = 1 \/ i = 2
    BY <2>1
  <2>3. QED
    BY <1>1, <2>2
<1>3. Begun(t, op) /\ \A i \in DOMAIN t : ~Commits(t[i])
  <2>1. \A i \in DOMAIN t :
           /\ t[i][1] \notin Sources \cup Targets \cup {"kill"}
           /\ OfOp(t[i], op)
    <3>1. /\ x[1] \notin Sources \cup Targets \cup {"kill"}
          /\ y[1] \notin Sources \cup Targets \cup {"kill"}
      OBVIOUS
    <3>2. QED
      BY <1>2, <3>1, Zenon
  <2>2. QED
    BY <1>1, <2>1, ListBegun
<1>4. x[1] # "cleanup" /\ y[1] # "cleanup" => Tidy(t)
  BY <1>2 DEF Tidy
<1>5. QED
  BY <1>1, <1>3, <1>4 DEF t

LEMMA PublishBegun ==
    ASSUME NEW w, NEW a, <<w, a>> \in Publications, NEW op,
           OfOp(<<"begin", <<w, a>>>>, op)
    PROVE  Begun(Publish(w, a), op) /\ Tidy(Publish(w, a))
<1> DEFINE t == Publish(w, a)
<1>1. Begun(t, op)
  BY PublishScript, PublishCommits, PublishOfOp DEF Begun, Script
<1>2. /\ DOMAIN t = 1..5 /\ t[1] = <<"begin", <<w, a>>>>
      /\ t[2] = <<"private", 0>> /\ t[3] = <<"append", 0>>
      /\ t[4] = <<"project", 0>> /\ t[5] = <<"acknowledge", 0>>
  BY PublishIs
<1> HIDE DEF t
<1>3. Tidy(t)
  BY <1>2 DEF Tidy
<1>4. QED
  BY <1>1, <1>3 DEF t

LEMMA PreludeIs ==
    /\ Prelude \in Seq(Tasks) /\ DOMAIN Prelude = 1..3
    /\ Prelude[1] = <<"outbox", 0>> /\ Prelude[2] = <<"gate", 0>>
    /\ Prelude[3] = <<"owed", 0>>
    /\ \A op : Begun(Prelude, op)
    /\ Early(Prelude)
<1> DEFINE t == Prelude
<1>1. /\ t[1] = <<"outbox", 0>> /\ t[2] = <<"gate", 0>>
      /\ t[3] = <<"owed", 0>> /\ DOMAIN t = 1..3 /\ Len(t) = 3
  BY DEF Prelude, Step
<1>2. t \in Seq(Tasks)
  <2>1. /\ <<"outbox", 0>> \in Tasks /\ <<"gate", 0>> \in Tasks
        /\ <<"owed", 0>> \in Tasks
    BY DEF Tasks, RunTasks
  <2>2. QED
    BY <2>1 DEF Prelude, Step
<1> HIDE DEF t
<1>3. \A i \in DOMAIN t : t[i][1] \notin Sources \cup Targets \cup {"kill"}
  BY <1>1 DEF Sources, Targets
<1>4. \A op : \A i \in DOMAIN t : OfOp(t[i], op)
  BY <1>1 DEF OfOp
<1>5. \A op : Begun(t, op)
  BY <1>1, <1>2, <1>3, <1>4, ListBegun
<1>6. Early(t)
  BY <1>1 DEF Early, Commits, Late
<1>7. QED
  BY <1>1, <1>2, <1>5, <1>6 DEF t

\* Panes to clean up are there, and each is cleaned up once.
PanesOwned(s) ==
    /\ \A i \in DOMAIN s : s[i][1] = "cleanup" => s[i][2] \in facts.panes
    /\ \A i, k \in DOMAIN s :
          i < k /\ s[k][1] = "cleanup"
             => /\ s[i][1] # "finalize"
                /\ s[i][1] \in {"cleanup", "release"} => s[i][2] # s[k][2]

Untidy == {"cleanup", "release", "finalize"}

LEMMA PanesFollows ==
    ASSUME NEW s \in Seq(Tasks), NEW t \in Seq(Tasks), NEW r,
           NEW c \in 1..(Len(s) + 1), Follows(r, t, s, c), PanesOwned(s),
           \A i \in DOMAIN t : t[i][1] \notin Untidy
    PROVE  PanesOwned(r)
<1>1. Len(t) \in Nat /\ Len(s) \in Nat
  BY LenProperties
<1>2. ASSUME NEW i \in DOMAIN r, r[i][1] \in Untidy
      PROVE  \E k \in c..Len(s) : /\ k \in DOMAIN s /\ r[i] = s[k]
                                  /\ i = k + Len(t) + 1 - c
  BY <1>2 DEF Follows
<1>3. ASSUME NEW i \in DOMAIN r, r[i][1] = "cleanup"
      PROVE  r[i][2] \in facts.panes
  BY <1>2, <1>3 DEF Untidy, PanesOwned
<1>4. ASSUME NEW i \in DOMAIN r, NEW k \in DOMAIN r, i < k,
             r[k][1] = "cleanup", r[i][1] \in Untidy
      PROVE  /\ r[i][1] # "finalize"
             /\ r[i][1] \in {"cleanup", "release"} => r[i][2] # r[k][2]
  <2>1. PICK m \in c..Len(s) : /\ m \in DOMAIN s /\ r[i] = s[m]
                               /\ i = m + Len(t) + 1 - c
    BY <1>2, <1>4
  <2>2. PICK n \in c..Len(s) : /\ n \in DOMAIN s /\ r[k] = s[n]
                               /\ k = n + Len(t) + 1 - c
    BY <1>2, <1>4 DEF Untidy
  <2>3. m < n
    BY <1>1, <1>4, <2>1, <2>2
  <2>4. QED
    BY <1>4, <2>1, <2>2, <2>3 DEF PanesOwned
<1>5. QED
  BY <1>3, <1>4 DEF PanesOwned, Untidy

LEMMA NoCleanups ==
    ASSUME NEW t, Tidy(t)
    PROVE  PanesOwned(t)
BY DEF PanesOwned, Tidy

\* A flow is revised once its file is there.
Revised == {<<"begin", <<"revised", 0>>>>}
FileFirst(s) == Ordered(s, Revised, {"file"})

LEMMA RevisesOnly ==
    ASSUME NEW t, NEW op, Begun(t, op), op # "revise"
    PROVE  FileFirst(t)
BY DEF Begun, OfOp, FileFirst, Ordered, Revised

\* An operation begins, by looking at the outbox.
Opens(tasks, op) ==
    /\ job' \in Jobs /\ job'.op = op /\ job'.todo = Prelude \o tasks
    /\ Begun(tasks, op) /\ Begun(job'.todo, op)
    /\ Follows(job'.todo, Prelude, tasks, 1) /\ 1 \in 1..(Len(tasks) + 1)
    /\ job'.todo # <<>> /\ job'.todo[1] = <<"outbox", 0>>

LEMMA OpensStep ==
    ASSUME NEW op \in Ops, NEW tasks, Begun(tasks, op),
           job' = [op |-> op, todo |-> Prelude \o tasks]
    PROVE  Opens(tasks, op)
<1>1. /\ Begun(Prelude \o tasks, op)
      /\ Follows(Prelude \o tasks, Prelude, tasks, 1)
      /\ 1 \in 1..(Len(tasks) + 1)
  BY PreludeIs, BegunConcat
<1>2. job'.todo = Prelude \o tasks /\ job'.op = op
  OBVIOUS
<1>3. job' \in Jobs
  BY <1>1 DEF Jobs, Begun
<1>4. 1 \in DOMAIN Prelude
  BY PreludeIs
<1>5. 1 \in DOMAIN job'.todo /\ job'.todo[1] = <<"outbox", 0>>
  BY <1>1, <1>2, <1>4, PreludeIs DEF Follows
<1>6. job'.todo # <<>>
  BY <1>5
<1>7. QED
  BY <1>1, <1>2, <1>3, <1>5, <1>6 DEF Opens

LEMMA FirstThen ==
    ASSUME NEW op \in Ops, NEW x \in Tasks, OfOp(x, op),
           x[1] \notin Sources \cup Targets \cup Late \cup {"kill"},
           NEW u, Begun(u, op), Tidy(u),
           job' = [op |-> op, todo |-> Prelude \o (<<x>> \o u)]
    PROVE  /\ Opens(<<x>> \o u, op) /\ PanesOwned(<<x>> \o u)
           /\ Follows(<<x>> \o u, <<x>>, u, 1) /\ 1 \in 1..(Len(u) + 1)
<1> DEFINE t == <<x>>
           r == t \o u
<1>1. Begun(t, op) /\ Early(t) /\ Tidy(t)
  BY OneBegun DEF Late
<1> HIDE DEF t
<1>2. /\ Begun(r, op) /\ Tidy(r) /\ Follows(r, t, u, 1)
      /\ 1 \in 1..(Len(u) + 1)
  BY <1>1, BegunConcat
<1>3. job' = [op |-> op, todo |-> Prelude \o r]
  BY DEF t
<1> HIDE DEF r
<1>4. Opens(r, op) /\ PanesOwned(r)
  BY <1>2, <1>3, OpensStep, NoCleanups
<1>5. QED
  BY <1>2, <1>4 DEF t, r

LEMMA ActivateStep ==
    ASSUME NEW a \in Activations, Activate(a)
    PROVE  \E tasks : /\ Opens(tasks, "activate") /\ FileFirst(tasks)
                      /\ PanesOwned(tasks)
<1> DEFINE x == <<"allocate", a>>
           u == Publish("capture", a)
<1>1. x \in Tasks /\ x[1] = "allocate"
  BY DEF Tasks, ActTasks
<1>2. Begun(u, "activate") /\ Tidy(u)
  BY PublishBegun DEF Publications, ActWhats, OfOp
<1>3. job' = [op |-> "activate", todo |-> Prelude \o (<<x>> \o u)]
  BY DEF Activate, Request, Task
<1> HIDE DEF x, u
<1>4. Opens(<<x>> \o u, "activate") /\ PanesOwned(<<x>> \o u)
  BY <1>1, <1>2, <1>3, FirstThen DEF Ops, OfOp, Sources, Targets, Late
<1>5. QED
  BY <1>4, RevisesOnly DEF Opens

LEMMA DeliverStep ==
    ASSUME NEW a \in Activations, Deliver(a)
    PROVE  \E tasks : /\ Opens(tasks, "deliver") /\ FileFirst(tasks)
                      /\ PanesOwned(tasks)
<1> DEFINE x == <<"type", a>>
           u == Publish("input", a)
<1>1. x \in Tasks /\ x[1] = "type"
  BY DEF Tasks, ActTasks
<1>2. Begun(u, "deliver") /\ Tidy(u)
  BY PublishBegun DEF Publications, ActWhats, OfOp
<1>3. job' = [op |-> "deliver", todo |-> Prelude \o (<<x>> \o u)]
  BY DEF Deliver, Request, Task
<1> HIDE DEF x, u
<1>4. Opens(<<x>> \o u, "deliver") /\ PanesOwned(<<x>> \o u)
  BY <1>1, <1>2, <1>3, FirstThen DEF Ops, OfOp, Sources, Targets, Late
<1>5. QED
  BY <1>4, RevisesOnly DEF Opens

LEMMA HookStep ==
    ASSUME NEW a \in Activations, Hook(a)
    PROVE  \E tasks : /\ Opens(tasks, "hook") /\ FileFirst(tasks)
                      /\ PanesOwned(tasks)
<1> DEFINE u == Publish("hook", a)
<1>1. Begun(u, "hook") /\ Tidy(u)
  BY PublishBegun DEF Publications, ActWhats, OfOp
<1>2. job' = [op |-> "hook", todo |-> Prelude \o u]
  BY DEF Hook, Request
<1> HIDE DEF u
<1>3. QED
  BY <1>1, <1>2, OpensStep, NoCleanups, RevisesOnly DEF Ops

LEMMA FinishStep ==
    ASSUME Finish
    PROVE  \E tasks : /\ Opens(tasks, "finish") /\ FileFirst(tasks)
                      /\ PanesOwned(tasks)
<1> DEFINE u == Publish("end", 0)
<1>1. Begun(u, "finish") /\ Tidy(u)
  BY PublishBegun DEF Publications, RunWhats, OfOp
<1>2. job' = [op |-> "finish", todo |-> Prelude \o u]
  BY DEF Finish, Request
<1> HIDE DEF u
<1>3. QED
  BY <1>1, <1>2, OpensStep, NoCleanups, RevisesOnly DEF Ops

LEMMA BindStep ==
    ASSUME NEW a \in Activations, Bind(a)
    PROVE  \E tasks : /\ Opens(tasks, "bind") /\ FileFirst(tasks)
                      /\ PanesOwned(tasks)
<1> DEFINE x == <<"bind", a>>
           y == <<"owed", 0>>
           u == <<x, y>>
<1>1. x \in Tasks /\ y \in Tasks /\ x[1] = "bind" /\ y[1] = "owed"
  BY DEF Tasks, ActTasks, RunTasks
<1>2. job' = [op |-> "bind", todo |-> Prelude \o u]
  BY DEF Bind, Request, Task, Step
<1> HIDE DEF x, y
<1>3. Begun(u, "bind") /\ Tidy(u)
  BY <1>1, TwoBegun DEF OfOp, Sources, Targets
<1> HIDE DEF u
<1>4. QED
  BY <1>2, <1>3, OpensStep, NoCleanups, RevisesOnly DEF Ops

LEMMA RebindStep ==
    ASSUME Rebind
    PROVE  \E tasks : /\ Opens(tasks, "bind_run") /\ FileFirst(tasks)
                      /\ PanesOwned(tasks)
<1> DEFINE x == <<"available", 0>>
           y == <<"revision", 0>>
           u == <<x, y>>
<1>1. x \in Tasks /\ y \in Tasks /\ x[1] = "available" /\ y[1] = "revision"
  BY DEF Tasks, RunTasks
<1>2. job' = [op |-> "bind_run", todo |-> Prelude \o u]
  BY DEF Rebind, Request, Step
<1> HIDE DEF x, y
<1>3. Begun(u, "bind_run") /\ Tidy(u)
  BY <1>1, TwoBegun DEF OfOp, Sources, Targets
<1> HIDE DEF u
<1>4. QED
  BY <1>2, <1>3, OpensStep, NoCleanups, RevisesOnly DEF Ops

LEMMA StopStep ==
    ASSUME StopRun
    PROVE  \E tasks : /\ Opens(tasks, "stop") /\ FileFirst(tasks)
                      /\ PanesOwned(tasks)
<1> DEFINE x == <<"finalize", "panes">>
           t == Publish("end", 0)
           u == <<x>>
           r == t \o u
<1>1. x \in Tasks /\ x[1] = "finalize"
  BY DEF Tasks
<1>2. Begun(t, "stop") /\ Tidy(t)
  BY PublishBegun DEF Publications, RunWhats, OfOp
<1>3. job' = [op |-> "stop", todo |-> Prelude \o r]
  BY DEF StopRun, Request, Task
<1> HIDE DEF x, t
<1>4. /\ Begun(u, "stop") /\ Tidy(u)
      /\ \A i \in DOMAIN u : ~Commits(u[i])
  BY <1>1, OneBegun DEF OfOp, Sources, Targets
<1> HIDE DEF u
<1>5. Begun(r, "stop") /\ Tidy(r)
  BY <1>2, <1>4, BegunConcat
<1> HIDE DEF r
<1>6. QED
  BY <1>3, <1>5, OpensStep, NoCleanups, RevisesOnly DEF Ops

LEMMA ExitStep ==
    ASSUME NEW a \in Activations, Exit(a)
    PROVE  \E tasks : /\ Opens(tasks, "exit") /\ FileFirst(tasks)
                      /\ PanesOwned(tasks)
<1> DEFINE x == <<"owed", 0>>
           y == <<"cleanup", a>>
           t == Publish("exit", a)
           u == <<x, y>>
           r == t \o u
<1>1. /\ x \in Tasks /\ y \in Tasks /\ x[1] = "owed" /\ y[1] = "cleanup"
      /\ y[2] \in facts.panes
  BY DEF Tasks, ActTasks, PaneTasks, RunTasks, Exit
<1>2. <<"exit", a>> \in Publications
  BY DEF Publications, ActWhats
<1>3. Begun(t, "exit")
  BY <1>2, PublishBegun DEF OfOp
<1>4. \A i \in DOMAIN t : t[i][1] \notin Untidy
  <2>1. /\ DOMAIN t = 1..5 /\ t[1][1] = "begin" /\ t[2][1] = "private"
        /\ t[3][1] = "append" /\ t[4][1] = "project"
        /\ t[5][1] = "acknowledge"
    BY <1>2, PublishIs
  <2> HIDE DEF t
  <2>2. QED
    BY <2>1 DEF Untidy
<1>5. job' = [op |-> "exit", todo |-> Prelude \o r]
  BY DEF Exit, Request, Task, Step
<1> HIDE DEF x, y, t
<1>6. /\ Begun(u, "exit") /\ \A i \in DOMAIN u : ~Commits(u[i])
      /\ DOMAIN u = 1..2 /\ u[1] = x /\ u[2] = y
  BY <1>1, TwoBegun DEF OfOp, Sources, Targets
<1> HIDE DEF u
<1>7. PanesOwned(u)
  BY <1>1, <1>6 DEF PanesOwned
<1>8. Begun(r, "exit") /\ Follows(r, t, u, 1) /\ 1 \in 1..(Len(u) + 1)
  BY <1>3, <1>6, BegunConcat
<1>9. PanesOwned(r)
  BY <1>3, <1>4, <1>6, <1>7, <1>8, PanesFollows DEF Begun
<1> HIDE DEF r
<1>10. QED
  BY <1>5, <1>8, <1>9, OpensStep, RevisesOnly DEF Ops

LEMMA ReviseStep ==
    ASSUME Revise
    PROVE  \E tasks : /\ Opens(tasks, "revise") /\ FileFirst(tasks)
                      /\ PanesOwned(tasks)
<1> DEFINE op == "revise"
           x == <<"file", 0>>
           t == Publish("revised", 0)
           y == <<"available", 0>>
           z == <<"revision", 0>>
           u == <<y, z>>
           v == <<x>> \o t
           r == v \o u
<1>1. /\ x \in Tasks /\ y \in Tasks /\ z \in Tasks /\ x[1] = "file"
      /\ y[1] = "available" /\ z[1] = "revision" /\ op \in Ops
  BY DEF Tasks, RunTasks, Ops
<1>2. Begun(t, op) /\ Tidy(t)
  BY PublishBegun DEF Publications, RunWhats, OfOp
<1>3. job' = [op |-> op, todo |-> Prelude \o r]
  BY DEF Revise, Request, Step
<1>4. OfOp(x, op) /\ OfOp(y, op) /\ OfOp(z, op)
  BY DEF OfOp
<1> HIDE DEF x, y, z, t, op
<1>5. /\ Begun(<<x>>, op) /\ Early(<<x>>) /\ Tidy(<<x>>)
      /\ DOMAIN <<x>> = {1} /\ <<x>>[1] = x
  BY <1>1, <1>4, OneBegun DEF Late, Sources, Targets
<1>6. /\ Begun(u, op) /\ Tidy(u) /\ \A i \in DOMAIN u : ~Commits(u[i])
      /\ DOMAIN u = 1..2 /\ u[1] = y /\ u[2] = z
  BY <1>1, <1>4, TwoBegun DEF Sources, Targets
<1>7. /\ Begun(v, op) /\ Tidy(v) /\ Follows(v, <<x>>, t, 1)
      /\ 1 \in 1..(Len(t) + 1)
  BY <1>2, <1>5, BegunConcat
<1>8. FileFirst(v)
  <2>1. Ordered(<<x>>, Revised, {"file"})
    <3>1. x \notin Revised
      BY <1>1 DEF Revised
    <3>2. QED
      BY <1>5, <3>1 DEF Ordered
  <2>2. \E k \in DOMAIN <<x>> : <<x>>[k][1] \in {"file"}
    BY <1>1, <1>5
  <2> DEFINE w == <<x>>
  <2>3. w \in Seq(Tasks) /\ t \in Seq(Tasks)
    BY <1>2, <1>5 DEF Begun
  <2>4. QED
    BY <1>7, <2>1, <2>2, <2>3, OrderedFollows DEF FileFirst
<1> HIDE DEF v, u
<1>9. /\ Begun(r, op) /\ Tidy(r) /\ Follows(r, v, u, 1)
      /\ 1 \in 1..(Len(u) + 1)
  BY <1>6, <1>7, BegunConcat
<1>10. FileFirst(u)
  BY <1>1, <1>6 DEF FileFirst, Ordered, Revised
<1>11. FileFirst(r)
  <2>1. v \in Seq(Tasks) /\ u \in Seq(Tasks)
    BY <1>6, <1>7 DEF Begun
  <2>2. \A k \in 1..(1 - 1) : u[k][1] \notin {"file"}
    OBVIOUS
  <2>3. QED
    BY <1>8, <1>9, <1>10, <2>1, <2>2, OrderedFollows DEF FileFirst
<1> HIDE DEF r
<1>12. Opens(r, op) /\ PanesOwned(r)
  BY <1>1, <1>3, <1>9, OpensStep, NoCleanups
<1>13. QED
  BY <1>11, <1>12 DEF op

LEMMA LoadStep ==
    ASSUME Load
    PROVE  \E tasks : /\ Opens(tasks, "load") /\ FileFirst(tasks)
                      /\ PanesOwned(tasks)
                      /\ \A i \in DOMAIN tasks : tasks[i][1] # "begin"
<1> DEFINE t == <<<<"repair", 0>>, <<"finalize", "pending">>,
                  <<"finalize", "exited">>, <<"suspend", 0>>>>
<1>1. /\ <<"repair", 0>> \in Tasks /\ <<"finalize", "pending">> \in Tasks
      /\ <<"finalize", "exited">> \in Tasks /\ <<"suspend", 0>> \in Tasks
  BY DEF Tasks, RunTasks
<1>2. /\ t \in Seq(Tasks) /\ DOMAIN t = 1..Len(t) /\ DOMAIN t = 1..4
      /\ t[1][1] = "repair" /\ t[2][1] = "finalize" /\ t[3][1] = "finalize"
      /\ t[4][1] = "suspend"
  BY <1>1
<1>3. job' = [op |-> "load", todo |-> Prelude \o t]
  BY DEF Load, Task, Step
<1> HIDE DEF t
<1>4. \A i \in DOMAIN t : t[i][1] \in {"repair", "finalize", "suspend"}
  <2>1. DOMAIN t = 1..4
    BY <1>2
  <2>2. \A i \in DOMAIN t : i = 1 \/ i = 2 \/ i = 3 \/ i = 4
    BY <2>1
  <2>3. QED
    BY <1>2, <2>2
<1>5. \A i \in DOMAIN t :
         /\ t[i][1] \notin Sources \cup Targets \cup {"kill"}
         /\ OfOp(t[i], "load")
  BY <1>4 DEF Sources, Targets, OfOp
<1>6. Begun(t, "load")
  BY <1>2, <1>5, ListBegun
<1>7. Tidy(t) /\ \A i \in DOMAIN t : t[i][1] # "begin"
  BY <1>4 DEF Tidy
<1>8. QED
  BY <1>3, <1>6, <1>7, OpensStep, NoCleanups, RevisesOnly DEF Ops

\* A pause is the first thing a shutdown does, and only of a running run.
PausesFirst(s) ==
    \A i \in DOMAIN s :
        s[i] = <<"begin", <<"pause", 0>>>> => i = 1 /\ log.status = "running"

LEMMA ShutdownStep ==
    ASSUME Shutdown
    PROVE  /\ job' \in Jobs /\ job'.op = "shutdown"
           /\ Begun(job'.todo, "shutdown") /\ Guarded(job'.todo)
           /\ Tidy(job'.todo) /\ PausesFirst(job'.todo)
           /\ job'.todo # <<>> => job'.todo[1][1] \in {"begin", "finalize"}
<1> DEFINE op == "shutdown"
           x == <<"finalize", "panes">>
           p == Publish("pause", 0)
           t == IF log.status = "running" THEN p ELSE <<>>
           u == <<x>>
           r == t \o u
<1>1. x \in Tasks /\ x[1] = "finalize" /\ op \in Ops /\ OfOp(x, op)
      /\ x # <<"begin", <<"pause", 0>>>>
  BY DEF Tasks, Ops, OfOp
<1>2. job' = [op |-> op, todo |-> r]
  BY DEF Shutdown, Task
<1>3. <<"pause", 0>> \in Publications /\ OfOp(<<"begin", <<"pause", 0>>>>, op)
  BY DEF Publications, RunWhats, OfOp
<1> HIDE DEF op, x
<1>4. Begun(p, op) /\ Tidy(p) /\ Script(p)
  BY <1>3, PublishBegun, PublishScript
<1>5. /\ DOMAIN p = 1..5 /\ p[1][1] = "begin" /\ p[2][1] = "private"
      /\ p[3][1] = "append" /\ p[4][1] = "project"
      /\ p[5][1] = "acknowledge"
  BY <1>3, PublishIs
<1> HIDE DEF p
<1>6. PausesFirst(t) /\ (t # <<>> => t[1][1] = "begin")
  <2>1. CASE log.status = "running"
    <3>1. \A i \in DOMAIN p : p[i] = <<"begin", <<"pause", 0>>>> => i = 1
      BY <1>5
    <3>2. QED
      BY <1>5, <2>1, <3>1 DEF PausesFirst
  <2>2. CASE log.status # "running"
    BY <2>2 DEF PausesFirst
  <2>3. QED
    BY <2>1, <2>2
<1>7. Begun(t, op) /\ Tidy(t) /\ Script(t)
  <2>1. Begun(<<>>, op) /\ Tidy(<<>>)
    BY EmptyIsPlain DEF Begun, Tidy
  <2>2. QED
    BY <1>4, <2>1, EmptyIsBundle DEF Bundle
<1>8. /\ Begun(u, op) /\ Tidy(u) /\ ~Commits(x) /\ DOMAIN u = {1} /\ u[1] = x
      /\ Script(u)
  BY <1>1, OneBegun, OneTask DEF Sources, Targets
<1> HIDE DEF t, u
<1>9. /\ Begun(r, op) /\ Tidy(r) /\ Follows(r, t, u, 1) /\ Script(r)
      /\ 1 \in 1..(Len(u) + 1)
  BY <1>7, <1>8, BegunConcat, ScriptConcat
<1>10. PausesFirst(r)
  <2>1. ASSUME NEW i \in DOMAIN r, r[i] = <<"begin", <<"pause", 0>>>>
        PROVE  i \in DOMAIN t /\ r[i] = t[i]
    <3>1. \A k \in DOMAIN u : u[k] # <<"begin", <<"pause", 0>>>>
      BY <1>1, <1>8
    <3>2. QED
      BY <1>9, <2>1, <3>1 DEF Follows
  <2>2. QED
    BY <1>6, <2>1 DEF PausesFirst
<1>11. r # <<>> => r[1][1] \in {"begin", "finalize"}
  <2>1. CASE t = <<>>
    <3>1. r = u
      BY <1>8, <2>1, ConcatEmptySeq DEF Script
    <3>2. QED
      BY <1>1, <1>8, <3>1
  <2>2. CASE t # <<>>
    <3>1. 1 \in DOMAIN t
      BY <1>7, <2>2, EmptySeq, LenProperties DEF Begun
    <3>2. r[1] = t[1]
      BY <1>9, <3>1 DEF Follows
    <3>3. QED
      BY <1>6, <2>2, <3>2
  <2>3. QED
    BY <2>1, <2>2
<1> HIDE DEF r
<1>12. job' \in Jobs
  BY <1>1, <1>2, <1>9 DEF Jobs, Begun
<1>13. QED
  BY <1>2, <1>9, <1>10, <1>11, <1>12 DEF op, Script

LEMMA BegunShaped ==
    ASSUME Begun(job'.todo, job'.op)
    PROVE  Shaped(job')
BY DEF Begun, Shaped, KillFirst

-----------------------------------------------------------------------------
(* Every step keeps an operation in shape.                                 *)

LEMMA OnPendingSteps ==
    ASSUME job \in Jobs,
           \/ ApplyPrivate \/ AppendRecord \/ Project \/ Acknowledge
    PROVE  /\ Steps
           /\ job.todo # <<>> /\ job.todo[1][1] \in Targets
<1>1. CASE ApplyPrivate
  BY <1>1, AtHead, Next1Step, ErredStep DEF ApplyPrivate, Steps, Targets
<1>2. CASE AppendRecord
  BY <1>2, AtHead, Next1Step, ErredStep DEF AppendRecord, Steps, Targets
<1>3. CASE Project
  BY <1>3, AtHead, Next1Step, ErredStep DEF Project, Steps, Targets
<1>4. CASE Acknowledge
  BY <1>4, AtHead, Next1Step, ErredStep DEF Acknowledge, Steps, Targets
<1>5. QED
  BY <1>1, <1>2, <1>3, <1>4

\* The operations but the shutdown, and a driver that starts.
Openings == \/ \E a \in Activations :
                  Activate(a) \/ Bind(a) \/ Hook(a) \/ Deliver(a) \/ Exit(a)
            \/ Revise \/ Rebind \/ Finish \/ StopRun \/ Load

LEMMA OpeningIs ==
    ASSUME Openings
    PROVE  \E tasks, op : /\ Opens(tasks, op) /\ FileFirst(tasks)
                          /\ PanesOwned(tasks)
BY ActivateStep, BindStep, HookStep, DeliverStep, ExitStep, ReviseStep,
   RebindStep, FinishStep, StopStep, LoadStep
DEF Openings

LEMMA StepKinds ==
    ASSUME [Next]_vars
    PROVE  \/ Begin
           \/ ApplyPrivate \/ AppendRecord \/ Project \/ Acknowledge
           \/ ReconcileOutbox
           \/ CleanupAll \/ CleanupIntent \/ KillPane \/ Suspend
           \/ Calm
           \/ Openings \/ Shutdown \/ Crash
           \/ UNCHANGED vars
BY DEF Next, Working, Calm, Openings

LEMMA ShapedNext ==
    ASSUME TypeInv, Shaped(job), [Next]_vars
    PROVE  job' \in Jobs /\ Shaped(job')
<1>1. job \in Jobs /\ facts \in FactRecords
  BY DEF TypeInv
<1>2. CASE Begin
  BY <1>1, <1>2, ShapedBegin
<1>3. CASE ApplyPrivate \/ AppendRecord \/ Project \/ Acknowledge
  BY <1>1, <1>3, OnPendingSteps, ShapedSteps DEF Steps, Fails, GoesOn
<1>4. CASE ReconcileOutbox
  BY <1>1, <1>4, ShapedOutbox
<1>5. CASE CleanupAll
  BY <1>5, ShapedCleanupAll
<1>6. CASE CleanupIntent
  BY <1>1, <1>6, ShapedCleanupIntent
<1>7. CASE KillPane
  BY <1>1, <1>7, ShapedKillPane
<1>8. CASE Suspend
  BY <1>1, <1>8, ShapedSuspend
<1>9. CASE Calm
  <2>1. Moves /\ job.todo # <<>> /\ job.todo[1][1] \in CalmTasks
    BY <1>1, <1>9, CalmMoves
  <2>2. job.todo[1][1] \notin Sources
    BY <2>1 DEF CalmTasks, Sources
  <2>3. QED
    BY <1>1, <2>1, <2>2, ShapedMoves DEF Moves, Fails, GoesOn
<1>10. CASE Openings
  BY <1>10, OpeningIs, BegunShaped DEF Opens
<1>11. CASE Shutdown
  BY <1>11, ShutdownStep, BegunShaped
<1>12. CASE Crash
  <2>1. job' = Down
    BY <1>12 DEF Crash
  <2>2. job'.todo = <<>> /\ job' \in Jobs
    BY <2>1 DEF Down, Jobs, Ops
  <2>3. QED
    BY <2>2, EmptyIsPlain DEF Shaped
<1>13. CASE UNCHANGED vars
  BY <1>1, <1>13 DEF vars
<1>14. QED
  BY <1>2, <1>3, <1>4, <1>5, <1>6, <1>7, <1>8, <1>9, <1>10, <1>11, <1>12,
     <1>13, StepKinds
=============================================================================
