---------------------------- MODULE JournalProofs ----------------------------
(***************************************************************************)
(* Theorems of Journal, for any activations, bounds and kinds of failure.  *)
(***************************************************************************)
EXTENDS JournalTasks

-----------------------------------------------------------------------------
(* Where an operation is.                                                  *)

HeadIn(names) == job.todo # <<>> /\ job.todo[1][1] \in names

LEMMA HeadFollows ==
    ASSUME NEW s \in Seq(Tasks), NEW t \in Seq(Tasks), NEW r,
           NEW c \in 1..(Len(s) + 1), Follows(r, t, s, c),
           t # <<>> => t[1][1] \notin Targets,
           c \in DOMAIN s => s[c][1] \notin Targets
    PROVE  r # <<>> => r[1][1] \notin Targets
<1>1. SUFFICES ASSUME r # <<>>
               PROVE  r[1][1] \notin Targets
  OBVIOUS
<1>2. /\ Len(t) \in Nat /\ DOMAIN t = 1..Len(t)
      /\ Len(s) \in Nat /\ DOMAIN s = 1..Len(s)
      /\ r \in Seq(Tasks) /\ Len(r) \in Nat /\ DOMAIN r = 1..Len(r)
  BY DEF Follows
<1>3. 1 \in DOMAIN r
  BY <1>1, <1>2, EmptySeq
<1>4. CASE 1 \in DOMAIN t /\ r[1] = t[1]
  BY <1>4
<1>5. ASSUME NEW k \in c..Len(s), k \in DOMAIN s, r[1] = s[k], 1 > Len(t),
             1 = k + Len(t) + 1 - c
      PROVE  r[1][1] \notin Targets
  <2>1. k = c
    BY <1>2, <1>5
  <2>2. QED
    BY <1>5, <2>1
<1>6. QED
  BY <1>3, <1>4, <1>5 DEF Follows

LEMMA AfterHead ==
    ASSUME job \in Jobs, Shaped(job), job.todo # <<>>,
           job.todo[1][1] \notin Sources
    PROVE  2 \in DOMAIN job.todo => job.todo[2][1] \notin Targets
<1>1. job.todo \in Seq(Tasks) /\ \A t : CutBefore(t, job.todo, 2)
  BY CutAfter DEF Jobs, Shaped
<1>2. CutBefore(<<0>>, job.todo, 2)
  BY <1>1
<1>3. QED
  BY <1>2 DEF CutBefore

LEMMA FailsAway ==
    ASSUME job \in Jobs, Fails
    PROVE  ~HeadIn(Targets)'
<1>1. CASE job'.todo = <<>>
  BY <1>1 DEF HeadIn
<1>2. ASSUME NEW c \in 2..Len(job.todo), job.todo[c][1] = "cleanup",
             Follows(job'.todo, <<>>, job.todo, c)
      PROVE  ~HeadIn(Targets)'
  <2>1. job.todo \in Seq(Tasks) /\ c \in 1..(Len(job.todo) + 1)
        /\ <<>> \in Seq(Tasks)
    BY DEF Jobs
  <2>2. job.todo[c][1] \notin Targets
    BY <1>2 DEF Targets
  <2>3. QED
    BY <1>2, <2>1, <2>2, HeadFollows DEF HeadIn
<1>3. QED
  BY <1>1, <1>2 DEF Fails

LEMMA GoesAway ==
    ASSUME job \in Jobs, Shaped(job), job.todo # <<>>,
           job.todo[1][1] \notin Sources,
           NEW t \in Seq(Tasks), GoesOn(t, 2), t # <<>> => t[1][1] \notin Targets
    PROVE  ~HeadIn(Targets)'
<1>1. job.todo \in Seq(Tasks) /\ 2 \in 1..(Len(job.todo) + 1)
  BY EmptySeq, LenProperties DEF Jobs
<1>2. Follows(job'.todo, t, job.todo, 2)
  BY DEF GoesOn
<1>3. QED
  BY <1>1, <1>2, AfterHead, HeadFollows DEF HeadIn

\* Steps that leave the transactions alone.
Other == \/ CleanupAll \/ CleanupIntent \/ KillPane \/ Suspend \/ Calm
         \/ Openings \/ Shutdown \/ Crash

LEMMA OtherAway ==
    ASSUME TypeInv, Shaped(job), Other
    PROVE  ~HeadIn(Targets)'
<1>1. job \in Jobs /\ facts \in FactRecords
  BY DEF TypeInv
<1>2. CASE CleanupAll
  <2>1. /\ job.todo # <<>> /\ job.todo[1][1] = "finalize"
        /\ \E panes \in SUBSET Activations :
              /\ IsFiniteSet(panes)
              /\ \E order \in SetToSeqs(panes) :
                    GoesOn(CleanupList(order), 2)
    BY <1>2, CleanupAllStep
  <2>2. PICK panes \in SUBSET Activations :
              /\ IsFiniteSet(panes)
              /\ \E order \in SetToSeqs(panes) :
                    GoesOn(CleanupList(order), 2)
    BY <2>1
  <2>3. PICK order \in SetToSeqs(panes) : GoesOn(CleanupList(order), 2)
    BY <2>2
  <2> DEFINE t == CleanupList(order)
  <2>4. t \in Seq(Tasks) /\ \A i \in DOMAIN t : t[i][1] = "cleanup"
    BY <2>2, CleanupListIs
  <2>5. GoesOn(t, 2)
    BY <2>3
  <2> HIDE DEF t
  <2>6. t # <<>> => t[1][1] \notin Targets
    BY <2>4, EmptySeq, LenProperties DEF Targets
  <2>7. QED
    BY <1>1, <2>1, <2>4, <2>5, <2>6, GoesAway DEF Sources
<1>3. CASE CleanupIntent
  <2> DEFINE t == CleanupOf(Of)
  <2>1. /\ job.todo # <<>> /\ job.todo[1][1] = "cleanup"
        /\ Of \in Activations
        /\ GoesOn(t, 2) \/ Fails
    BY <1>1, <1>3, CleanupIntentStep
  <2>2. t \in Seq(Tasks) /\ t[1] = <<"kill", Of>>
    BY <2>1, CleanupOfIs
  <2> HIDE DEF t
  <2>3. t[1][1] = "kill"
    BY <2>2
  <2>4. QED
    BY <1>1, <2>1, <2>2, <2>3, GoesAway, FailsAway DEF Sources, Targets
<1>4. CASE KillPane
  <2>1. /\ job.todo # <<>> /\ job.todo[1][1] = "kill" /\ Of \in Activations
    BY <1>1, <1>4, KillPaneStep
  <2>2. CASE Fails
    BY <1>1, <2>2, FailsAway
  <2>3. CASE GoesOn(<<>>, 2)
    <3> DEFINE t == <<>>
    <3>1. t \in Seq(Tasks) /\ GoesOn(t, 2) /\ (t # <<>> => t[1][1] \notin Targets)
      BY <2>3
    <3> HIDE DEF t
    <3>2. QED
      BY <1>1, <2>1, <3>1, GoesAway DEF Sources
  <2>4. CASE /\ 5 \in 1..(Len(job.todo) + 1)
             /\ CutBefore(GivenUp(Of), job.todo, 5)
             /\ GoesOn(GivenUp(Of), 5)
    <3> DEFINE t == GivenUp(Of)
    <3>1. /\ t \in Seq(Tasks) /\ t # <<>> /\ t[1][1] \notin Targets
      BY <2>1, GivenUpIs DEF Bundle, Script
    <3>2. job.todo \in Seq(Tasks)
      BY <1>1 DEF Jobs
    <3>3. Follows(job'.todo, t, job.todo, 5) /\ CutBefore(t, job.todo, 5)
      BY <2>4 DEF GoesOn
    <3> HIDE DEF t
    <3>4. QED
      BY <2>4, <3>1, <3>2, <3>3, HeadFollows DEF HeadIn, CutBefore
  <2>5. QED
    BY <1>1, <1>4, <2>2, <2>3, <2>4, KillPaneStep
<1>5. CASE Suspend
  <2>1. /\ job.todo # <<>> /\ job.todo[1][1] = "suspend"
        /\ GoesOn(<<>>, 2) \/ GoesOn(Publish("pause", 0), 2)
    BY <1>1, <1>5, SuspendStep
  <2>2. Script(Publish("pause", 0)) /\ Script(<<>>)
    BY PublishScript, EmptyIsBundle DEF Publications, RunWhats, Bundle
  <2>3. ASSUME NEW t, Script(t), GoesOn(t, 2)
        PROVE  ~HeadIn(Targets)'
    BY <1>1, <2>1, <2>3, GoesAway DEF Script, Sources
  <2>4. QED
    BY <2>1, <2>2, <2>3
<1>6. CASE Calm
  <2>1. Moves /\ job.todo # <<>> /\ job.todo[1][1] \in CalmTasks
    BY <1>1, <1>6, CalmMoves
  <2>2. job.todo[1][1] \notin Sources \cup Targets
    BY <2>1 DEF CalmTasks, Sources, Targets
  <2>3. CASE UNCHANGED job
    BY <2>2, <2>3 DEF HeadIn
  <2>4. ASSUME NEW t, Bundle(t), GoesOn(t, 2)
        PROVE  ~HeadIn(Targets)'
    BY <1>1, <2>1, <2>2, <2>4, GoesAway DEF Bundle, Script
  <2>5. QED
    BY <1>1, <2>1, <2>3, <2>4, FailsAway DEF Moves
<1>7. CASE Openings
  BY <1>7, OpeningIs DEF Opens, HeadIn, Targets
<1>8. CASE Shutdown
  BY <1>8, ShutdownStep DEF HeadIn, Targets
<1>9. CASE Crash
  BY <1>9 DEF Crash, Down, HeadIn
<1>10. QED
  BY <1>2, <1>3, <1>4, <1>5, <1>6, <1>7, <1>8, <1>9 DEF Other

LEMMA NextInLine ==
    ASSUME job \in Jobs, Shaped(job), job.todo # <<>>, GoesOn(<<>>, 2),
           NEW l \in Links, job.todo[1][1] = l[1]
    PROVE  HeadIn({l[2]})'
<1> DEFINE s == job.todo
           r == job'.todo
           t == <<>>
<1>1. DOMAIN s = 1..Len(s) /\ Len(s) \in Nat /\ 1 \in DOMAIN s
  BY EmptySeq, LenProperties DEF Jobs
<1>2. 1 + 1 \in DOMAIN s /\ s[1 + 1][1] = l[2]
  BY <1>1 DEF Shaped, Linked
<1>3. 2 \in 2..Len(s) /\ s[2][1] = l[2]
  BY <1>1, <1>2
<1>4. Follows(r, t, s, 2) /\ Len(t) = 0
  BY DEF GoesOn
<1> HIDE DEF t, r, s
<1>5. 2 + Len(t) + 1 - 2 \in DOMAIN r /\ r[2 + Len(t) + 1 - 2] = s[2]
  BY <1>3, <1>4 DEF Follows
<1>6. 2 + Len(t) + 1 - 2 = 1
  BY <1>4
<1>7. 1 \in DOMAIN r /\ r[1] = s[2]
  BY <1>5, <1>6
<1>8. r # <<>>
  BY <1>7
<1>9. QED
  BY <1>3, <1>7, <1>8 DEF HeadIn, r

-----------------------------------------------------------------------------
(* What a step does to the journal.                                        *)

LEMMA RecoveredStep ==
    ASSUME events \in Seq(Recs), Recovered
    PROVE  /\ UNCHANGED events /\ ~torn' /\ torn' \in {torn, FALSE}
           /\ cursor' = Len(events)
           /\ fragment' \in {fragment, fragment \/ torn}
BY DEF Recovered, CursorMatches, Committed

LEMMA KnownIs ==
    ASSUME events \in Seq(Recs)
    PROVE  Known = events
BY SubSeqFull DEF Known, CursorMatches

LEMMA NewIs ==
    ASSUME events \in Seq(Recs), NEW records
    PROVE  New(records) = {i \in DOMAIN records : ~Contains(events, records[i])}
BY KnownIs DEF New

LEMMA OtherLeaves ==
    ASSUME TypeInv, Other
    PROVE  /\ UNCHANGED <<events, manifest, log, outbox, ledger>>
           /\ torn' => torn
           /\ torn' \in BOOLEAN /\ fragment' \in BOOLEAN
           /\ cursor' \in -1..Len(events) /\ known' \in BOOLEAN
<1>1. /\ events \in Seq(Recs) /\ cursor \in -1..Len(events)
      /\ torn \in BOOLEAN /\ fragment \in BOOLEAN /\ known \in BOOLEAN
      /\ Len(events) \in Nat
  BY LenProperties DEF TypeInv
<1>2. CASE Gate
  <2>1. Recovered /\ UNCHANGED <<private, known>>
    BY <1>2 DEF Gate
  <2>2. UNCHANGED events /\ ~torn' /\ cursor' = Len(events)
    BY <1>1, <2>1, RecoveredStep
  <2>3. torn' \in BOOLEAN /\ fragment' \in BOOLEAN
    BY <1>1, <2>1 DEF Recovered
  <2>4. cursor' \in -1..Len(events)
    BY <1>1, <2>2
  <2>5. QED
    BY <1>1, <2>1, <2>2, <2>3, <2>4 DEF private
<1>3. CASE PublishFlow \/ ReconcileObligations \/ PublishBinding \/ Fail
           \/ Preserve \/ MarkClean
  BY <1>1, <1>3
  DEF PublishFlow, ReconcileObligations, PublishBinding, Fail, Preserve,
      MarkClean, disk, private, memory
<1>4. CASE RepairProjections
  BY <1>1, <1>4 DEF RepairProjections, private, memory
<1>5. CASE ReleasePane \/ AllocatePane \/ RecordBinding \/ TypeInput
           \/ WriteRevision \/ CleanupIntent
  BY <1>1, <1>5
  DEF ReleasePane, AllocatePane, RecordBinding, TypeInput, WriteRevision,
      CleanupIntent, disk, memory
<1>6. CASE PublishAvailable
  BY <1>1, <1>6 DEF PublishAvailable, disk
<1>7. CASE CleanupAll \/ KillPane \/ Suspend
  BY <1>1, <1>7 DEF CleanupAll, KillPane, Suspend, disk, private, memory
<1>8. CASE Openings /\ ~Load
  <2>1. ASSUME NEW op, NEW tasks, Request(op, tasks)
        PROVE  UNCHANGED <<disk, private, memory>>
    BY <2>1 DEF Request
  <2>2. UNCHANGED <<disk, private, memory>>
    BY <1>8, <2>1
    DEF Openings, Activate, Bind, Hook, Deliver, Exit, Revise, Rebind,
        Finish, StopRun
  <2>3. QED
    BY <1>1, <2>2 DEF disk, private, memory
<1>9. CASE Load
  <2>1. known' = Referenced
    BY <1>9 DEF Load
  <2>2. log.revised \in BOOLEAN /\ facts.available \in BOOLEAN
    BY DEF TypeInv, Logs, FactRecords
  <2>3. known' \in BOOLEAN
    BY <2>1, <2>2 DEF Referenced
  <2>4. cursor' = -1 /\ UNCHANGED <<disk, private>>
    BY <1>9 DEF Load
  <2>5. QED
    BY <1>1, <2>3, <2>4 DEF disk, private
<1>10. CASE Shutdown \/ Crash
  BY <1>1, <1>10 DEF Shutdown, Crash, disk, private, memory
<1>11. QED
  BY <1>2, <1>3, <1>4, <1>5, <1>6, <1>7, <1>8, <1>9, <1>10 DEF Other, Calm

LEMMA FactsGrow ==
    ASSUME NEW f \in FactRecords, NEW a \in Activations
    PROVE  /\ [f EXCEPT !.panes = @ \cup {a}] \in FactRecords
           /\ [f EXCEPT !.bound = @ \cup {a}] \in FactRecords
           /\ [f EXCEPT !.typed = @ \cup {a}] \in FactRecords
           /\ [f EXCEPT !.cleaning = @ \cup {a}] \in FactRecords
           /\ [f EXCEPT !.panes = @ \ {a}, !.cleaning = @ \ {a}] \in FactRecords
           /\ [f EXCEPT !.file = TRUE] \in FactRecords
           /\ \A b \in BOOLEAN : [f EXCEPT !.available = b] \in FactRecords
BY DEF FactRecords

LEMMA ActTask ==
    ASSUME job \in Jobs, NEW n \in ActTasks, At(n)
    PROVE  Of \in Activations
BY AtHead, TaskIs

\* What is on record of panes and participants.
FactsGo ==
    \/ UNCHANGED facts
    \/ AllocatePane /\ facts' = [facts EXCEPT !.panes = @ \cup {Of}]
    \/ RecordBinding /\ facts' = [facts EXCEPT !.bound = @ \cup {Of}]
    \/ TypeInput /\ facts' = [facts EXCEPT !.typed = @ \cup {Of}]
    \/ CleanupIntent /\ facts' = [facts EXCEPT !.cleaning = @ \cup {Of}]
    \/ /\ ReleasePane
       /\ facts' = [facts EXCEPT !.panes = @ \ {Of}, !.cleaning = @ \ {Of}]
    \/ WriteRevision /\ facts' = [facts EXCEPT !.file = TRUE]
    \/ /\ PublishAvailable /\ known \in BOOLEAN
       /\ facts' = [facts EXCEPT !.available = @ \/ ~known]

LEMMA OtherFactsGo ==
    ASSUME known \in BOOLEAN, Other
    PROVE  FactsGo
<1>1. CASE PublishFlow \/ ReconcileObligations \/ PublishBinding \/ Fail
           \/ Preserve \/ MarkClean \/ Gate \/ RepairProjections
  BY <1>1
  DEF PublishFlow, ReconcileObligations, PublishBinding, Fail, Preserve,
      MarkClean, Gate, RepairProjections, private, FactsGo
<1>2. CASE ReleasePane \/ AllocatePane \/ RecordBinding \/ TypeInput
           \/ WriteRevision \/ CleanupIntent \/ PublishAvailable
  BY <1>2
  DEF ReleasePane, AllocatePane, RecordBinding, TypeInput, WriteRevision,
      CleanupIntent, PublishAvailable, FactsGo
<1>3. CASE CleanupAll \/ KillPane \/ Suspend
  BY <1>3 DEF CleanupAll, KillPane, Suspend, private, FactsGo
<1>4. CASE Openings
  <2>1. ASSUME NEW op, NEW tasks, Request(op, tasks)
        PROVE  UNCHANGED private
    BY <2>1 DEF Request
  <2>2. UNCHANGED private
    BY <1>4, <2>1
    DEF Openings, Activate, Bind, Hook, Deliver, Exit, Revise, Rebind,
        Finish, StopRun, Load
  <2>3. QED
    BY <2>2 DEF private, FactsGo
<1>5. CASE Shutdown \/ Crash
  BY <1>5 DEF Shutdown, Crash, private, FactsGo
<1>6. QED
  BY <1>1, <1>2, <1>3, <1>4, <1>5 DEF Other, Calm

LEMMA FactsStay ==
    ASSUME TypeInv, FactsGo
    PROVE  /\ facts' \in FactRecords
           /\ IsFiniteSet(facts'.panes) /\ IsFiniteSet(facts'.cleaning)
           /\ facts.file => facts'.file
<1>1. /\ facts \in FactRecords /\ job \in Jobs
      /\ IsFiniteSet(facts.panes) /\ IsFiniteSet(facts.cleaning)
  BY DEF TypeInv
<1>2. CASE UNCHANGED facts
  BY <1>1, <1>2
<1>3. CASE AllocatePane /\ facts' = [facts EXCEPT !.panes = @ \cup {Of}]
  <2>1. Of \in Activations
    BY <1>1, <1>3, ActTask DEF AllocatePane, ActTasks
  <2>2. /\ facts'.panes = facts.panes \cup {Of}
        /\ facts'.cleaning = facts.cleaning /\ facts'.file = facts.file
    BY <1>1, <1>3 DEF FactRecords
  <2>3. IsFiniteSet(facts.panes \cup {Of})
    BY <1>1, FS_AddElement
  <2>4. facts' \in FactRecords
    BY <1>1, <1>3, <2>1, FactsGrow
  <2>5. QED
    BY <1>1, <2>2, <2>3, <2>4
<1>4. CASE RecordBinding /\ facts' = [facts EXCEPT !.bound = @ \cup {Of}]
  <2>1. Of \in Activations
    BY <1>1, <1>4, ActTask DEF RecordBinding, ActTasks
  <2>2. /\ facts'.panes = facts.panes /\ facts'.cleaning = facts.cleaning
        /\ facts'.file = facts.file
    BY <1>1, <1>4 DEF FactRecords
  <2>3. QED
    BY <1>1, <1>4, <2>1, <2>2, FactsGrow
<1>5. CASE TypeInput /\ facts' = [facts EXCEPT !.typed = @ \cup {Of}]
  <2>1. Of \in Activations
    BY <1>1, <1>5, ActTask DEF TypeInput, ActTasks
  <2>2. /\ facts'.panes = facts.panes /\ facts'.cleaning = facts.cleaning
        /\ facts'.file = facts.file
    BY <1>1, <1>5 DEF FactRecords
  <2>3. QED
    BY <1>1, <1>5, <2>1, <2>2, FactsGrow
<1>6. CASE CleanupIntent /\ facts' = [facts EXCEPT !.cleaning = @ \cup {Of}]
  <2>1. Of \in Activations
    BY <1>1, <1>6, ActTask DEF CleanupIntent, ActTasks, PaneTasks
  <2>2. /\ facts'.panes = facts.panes
        /\ facts'.cleaning = facts.cleaning \cup {Of}
        /\ facts'.file = facts.file
    BY <1>1, <1>6 DEF FactRecords
  <2>3. IsFiniteSet(facts.cleaning \cup {Of})
    BY <1>1, FS_AddElement
  <2>4. facts' \in FactRecords
    BY <1>1, <1>6, <2>1, FactsGrow
  <2>5. QED
    BY <1>1, <2>2, <2>3, <2>4
<1>7. CASE /\ ReleasePane
           /\ facts' = [facts EXCEPT !.panes = @ \ {Of}, !.cleaning = @ \ {Of}]
  <2>1. Of \in Activations
    BY <1>1, <1>7, ActTask DEF ReleasePane, ActTasks, PaneTasks
  <2>2. /\ facts'.panes = facts.panes \ {Of}
        /\ facts'.cleaning = facts.cleaning \ {Of}
        /\ facts'.file = facts.file
    BY <1>1, <1>7 DEF FactRecords
  <2>3. IsFiniteSet(facts.panes \ {Of}) /\ IsFiniteSet(facts.cleaning \ {Of})
    BY <1>1, FS_RemoveElement
  <2>4. facts' \in FactRecords
    BY <1>1, <1>7, <2>1, FactsGrow
  <2>5. QED
    BY <1>1, <2>2, <2>3, <2>4
<1>8. CASE WriteRevision /\ facts' = [facts EXCEPT !.file = TRUE]
  <2>1. /\ facts'.panes = facts.panes /\ facts'.cleaning = facts.cleaning
        /\ facts'.file
    BY <1>1, <1>8 DEF FactRecords
  <2>2. facts' \in FactRecords
    BY <1>1, <1>8 DEF FactRecords
  <2>3. QED
    BY <1>1, <2>1, <2>2
<1>9. CASE /\ PublishAvailable /\ known \in BOOLEAN
           /\ facts' = [facts EXCEPT !.available = @ \/ ~known]
  <2>1. /\ facts'.panes = facts.panes /\ facts'.cleaning = facts.cleaning
        /\ facts'.file = facts.file
    BY <1>1, <1>9 DEF FactRecords
  <2>2. facts.available \in BOOLEAN
    BY <1>1 DEF FactRecords
  <2>3. facts' \in FactRecords
    BY <1>1, <1>9, <2>2 DEF FactRecords
  <2>4. QED
    BY <1>1, <2>1, <2>3
<1>10. QED
  BY <1>2, <1>3, <1>4, <1>5, <1>6, <1>7, <1>8, <1>9 DEF FactsGo

-----------------------------------------------------------------------------
(* A torn line.                                                            *)

LEMMA LinkedGuarded ==
    ASSUME NEW s \in Seq(Tasks), Linked(s), s # <<>> => s[1][1] \notin Targets,
           \A i \in DOMAIN s : s[i][1] # "repair"
    PROVE  Guarded(s)
<1>1. SUFFICES ASSUME NEW i \in DOMAIN s, s[i] \in OnPending
               PROVE  Before(s, i, {"outbox", "begin"})
  BY DEF Guarded, Ordered
<1>2. DOMAIN s = 1..Len(s) /\ Len(s) \in Nat /\ s # <<>>
  BY <1>1, LenProperties
<1>3. ASSUME NEW k \in DOMAIN s, NEW l \in Links, s[k][1] = l[2]
      PROVE  k - 1 \in DOMAIN s /\ s[k - 1][1] = l[1]
  <2>1. k # 1
    BY <1>2, <1>3 DEF Links, Targets
  <2>2. k > 1 /\ k - 1 \in DOMAIN s
    BY <1>2, <2>1
  <2>3. QED
    BY <1>3, <2>2 DEF Linked
<1>4. ASSUME NEW k \in DOMAIN s, s[k][1] = "project"
      PROVE  k - 3 \in DOMAIN s /\ s[k - 3][1] = "begin"
  <2>1. k - 1 \in DOMAIN s /\ s[k - 1][1] = "append"
    BY <1>3, <1>4 DEF Links
  <2>2. k - 1 - 1 \in DOMAIN s /\ s[k - 1 - 1][1] = "private"
    BY <1>3, <2>1 DEF Links
  <2>3. k - 1 - 1 - 1 \in DOMAIN s /\ s[k - 1 - 1 - 1][1] = "begin"
    BY <1>3, <2>2 DEF Links
  <2>4. k - 1 - 1 - 1 = k - 3
    BY <1>2
  <2>5. QED
    BY <2>3, <2>4
<1>5. CASE s[i][1] = "project"
  <2>1. s[i - 3][1] = "begin" /\ i - 3 \in 1..(i - 1)
    BY <1>2, <1>4, <1>5
  <2>2. QED
    BY <2>1 DEF Before
<1>6. CASE s[i][1] = "acknowledge"
  <2>1. i - 1 \in DOMAIN s /\ s[i - 1][1] = "project"
    BY <1>3, <1>6 DEF Links
  <2>2. i - 1 - 3 \in DOMAIN s /\ s[i - 1 - 3][1] = "begin"
    BY <1>4, <2>1
  <2>3. i - 1 - 3 \in 1..(i - 1)
    BY <1>2, <2>2
  <2>4. QED
    BY <2>2, <2>3 DEF Before
<1>7. QED
  BY <1>1, <1>5, <1>6 DEF OnPending

LEMMA FailsGuarded ==
    ASSUME job \in Jobs, Shaped(job), Fails
    PROVE  Guarded(job'.todo)
<1>1. job' \in Jobs /\ job'.todo \in Seq(Tasks) /\ Shaped(job')
  BY ShapedFails DEF Fails, Jobs
<1>2. job'.todo # <<>> => job'.todo[1][1] \notin Targets
  BY FailsAway DEF HeadIn
<1>3. \A i \in DOMAIN job'.todo : job'.todo[i][1] # "repair"
  <2>1. CASE job'.todo = <<>>
    BY <2>1
  <2>2. CASE job'.op \in {"stop", "shutdown"}
    BY <1>1, <2>2 DEF Shaped, OfOp
  <2>3. QED
    BY <2>1, <2>2 DEF Fails
<1>4. QED
  BY <1>1, <1>2, <1>3, LinkedGuarded DEF Shaped

LEMMA GuardedGoesOn ==
    ASSUME job \in Jobs, job.todo # <<>>, Guarded(job.todo),
           job.todo[1][1] \notin {"outbox", "begin"},
           NEW t \in Seq(Tasks), Guarded(t), GoesOn(t, 2)
    PROVE  Guarded(job'.todo)
<1>1. job.todo \in Seq(Tasks) /\ 2 \in 1..(Len(job.todo) + 1)
  BY EmptySeq, LenProperties DEF Jobs
<1>2. \A k \in 1..(2 - 1) : job.todo[k][1] \notin {"outbox", "begin"}
  OBVIOUS
<1>3. Follows(job'.todo, t, job.todo, 2)
  BY DEF GoesOn
<1>4. QED
  BY <1>1, <1>2, <1>3, OrderedFollows DEF Guarded

LEMMA EmptyGuarded == Guarded(<<>>) /\ <<>> \in Seq(Tasks)
BY DEF Guarded, Ordered

LEMMA OtherGuarded ==
    ASSUME TypeInv, Shaped(job), Other, Guarded(job.todo)
    PROVE  Guarded(job'.todo)
<1>1. job \in Jobs /\ facts \in FactRecords
  BY DEF TypeInv
<1>2. ASSUME NEW t \in Seq(Tasks),
             \A i \in DOMAIN t : t[i][1] \in {"cleanup", "preserve", "clean",
                                             "release", "kill"}
      PROVE  Guarded(t)
  BY <1>2 DEF Guarded, Ordered, OnPending
<1>3. CASE CleanupAll
  <2>1. /\ job.todo # <<>> /\ job.todo[1][1] = "finalize"
        /\ \E panes \in SUBSET Activations :
              /\ IsFiniteSet(panes)
              /\ \E order \in SetToSeqs(panes) :
                    GoesOn(CleanupList(order), 2)
    BY <1>3, CleanupAllStep
  <2>2. PICK panes \in SUBSET Activations :
              /\ IsFiniteSet(panes)
              /\ \E order \in SetToSeqs(panes) :
                    GoesOn(CleanupList(order), 2)
    BY <2>1
  <2>3. PICK order \in SetToSeqs(panes) : GoesOn(CleanupList(order), 2)
    BY <2>2
  <2> DEFINE t == CleanupList(order)
  <2>4. t \in Seq(Tasks) /\ \A i \in DOMAIN t : t[i][1] = "cleanup"
    BY <2>2, CleanupListIs
  <2>5. GoesOn(t, 2)
    BY <2>3
  <2> HIDE DEF t
  <2>6. Guarded(t)
    BY <1>2, <2>4
  <2>7. QED
    BY <1>1, <2>1, <2>4, <2>5, <2>6, GuardedGoesOn
<1>4. CASE CleanupIntent
  <2> DEFINE t == CleanupOf(Of)
  <2>1. /\ job.todo # <<>> /\ job.todo[1][1] = "cleanup"
        /\ Of \in Activations
        /\ GoesOn(t, 2) \/ Fails
    BY <1>1, <1>4, CleanupIntentStep
  <2>2. /\ t \in Seq(Tasks) /\ DOMAIN t = 1..4 /\ t[1] = <<"kill", Of>>
        /\ t[2] = <<"preserve", Of>> /\ t[3] = <<"clean", Of>>
        /\ t[4] = <<"release", Of>>
    BY <2>1, CleanupOfIs
  <2> HIDE DEF t
  <2>3. Guarded(t)
    BY <1>2, <2>2
  <2>4. QED
    BY <1>1, <2>1, <2>2, <2>3, GuardedGoesOn, FailsGuarded
<1>5. CASE KillPane
  <2>1. /\ job.todo # <<>> /\ job.todo[1][1] = "kill" /\ Of \in Activations
    BY <1>1, <1>5, KillPaneStep
  <2>2. CASE Fails
    BY <1>1, <2>2, FailsGuarded
  <2>3. CASE GoesOn(<<>>, 2)
    BY <1>1, <2>1, <2>3, EmptyGuarded, GuardedGoesOn
  <2>4. CASE GoesOn(GivenUp(Of), 5) /\ 5 \in 1..(Len(job.todo) + 1)
    <3> DEFINE t == GivenUp(Of)
    <3>1. t \in Seq(Tasks) /\ Guarded(t) /\ job.todo \in Seq(Tasks)
      BY <1>1, <2>1, GivenUpIs DEF Bundle, Script, Jobs
    <3>2. Follows(job'.todo, t, job.todo, 5)
      BY <2>4 DEF GoesOn
    <3>3. \E k \in DOMAIN t : t[k][1] \in {"outbox", "begin"}
      <4>1. <<"unkilled", Of>> \in Publications
        BY <2>1 DEF Publications, ActWhats
      <4> DEFINE p == Publish("unkilled", Of)
                 u == <<Step("fail")>>
      <4>2. p \in Seq(Tasks) /\ DOMAIN p = 1..5 /\ p[1][1] = "begin"
        BY <4>1, PublishIs
      <4>3. u \in Seq(Tasks)
        BY DEF Step, Tasks, RunTasks
      <4>4. Follows(t, p, u, 1)
        BY <4>2, <4>3, ConcatFollows DEF GivenUp
      <4> HIDE DEF p, u, t
      <4>5. 1 \in DOMAIN p
        BY <4>2
      <4>6. 1 \in DOMAIN t /\ t[1] = p[1]
        BY <4>4, <4>5 DEF Follows
      <4>7. QED
        BY <4>2, <4>6
    <3> HIDE DEF t
    <3>4. QED
      BY <2>4, <3>1, <3>2, <3>3, OrderedFollows DEF Guarded
  <2>5. QED
    BY <1>1, <1>5, <2>2, <2>3, <2>4, KillPaneStep
<1>6. CASE Suspend
  <2>1. /\ job.todo # <<>> /\ job.todo[1][1] = "suspend"
        /\ GoesOn(<<>>, 2) \/ GoesOn(Publish("pause", 0), 2)
    BY <1>1, <1>6, SuspendStep
  <2>2. Script(Publish("pause", 0)) /\ Script(<<>>)
    BY PublishScript, EmptyIsBundle DEF Publications, RunWhats, Bundle
  <2>3. ASSUME NEW t, Script(t), GoesOn(t, 2)
        PROVE  Guarded(job'.todo)
    BY <1>1, <2>1, <2>3, GuardedGoesOn DEF Script
  <2>4. QED
    BY <2>1, <2>2, <2>3
<1>7. CASE Calm
  <2>1. Moves /\ job.todo # <<>> /\ job.todo[1][1] \in CalmTasks
    BY <1>1, <1>7, CalmMoves
  <2>2. job.todo[1][1] \notin {"outbox", "begin"}
    BY <2>1 DEF CalmTasks
  <2>3. ASSUME NEW t, Bundle(t), GoesOn(t, 2)
        PROVE  Guarded(job'.todo)
    BY <1>1, <2>1, <2>2, <2>3, GuardedGoesOn DEF Bundle, Script
  <2>4. QED
    BY <1>1, <2>1, <2>3, FailsGuarded DEF Moves
<1>8. CASE Openings
  <2>1. PICK tasks, op : Opens(tasks, op)
    BY <1>8, OpeningIs
  <2>2. /\ Prelude \in Seq(Tasks) /\ 1 \in DOMAIN Prelude
        /\ Prelude[1][1] = "outbox"
    BY PreludeIs
  <2>3. Ordered(Prelude, OnPending, {"outbox", "begin"})
    BY PreludeIs DEF Ordered, OnPending
  <2>4. tasks \in Seq(Tasks)
    BY <2>1 DEF Opens, Begun
  <2>5. QED
    BY <2>1, <2>2, <2>3, <2>4, OrderedFollows DEF Guarded, Opens
<1>9. CASE Shutdown
  BY <1>9, ShutdownStep
<1>10. CASE Crash
  BY <1>10, EmptyGuarded DEF Crash, Down
<1>11. QED
  BY <1>3, <1>4, <1>5, <1>6, <1>7, <1>8, <1>9, <1>10 DEF Other

-----------------------------------------------------------------------------
(* The steps of a transaction.                                             *)

LEMMA PendingIs ==
    ASSUME TypeInv, outbox # <<>>
    PROVE  /\ outbox[1] \in Transactions /\ Len(outbox) = 1
           /\ outbox[1].manifest \in Manifests /\ outbox[1].log \in Logs
           /\ outbox[1].records \in Seq(Recs)
           /\ outbox = <<outbox[1]>>
<1>1. outbox \in Seq(Transactions) /\ Len(outbox) <= 1
  BY DEF TypeInv
<1>2. Len(outbox) = 1
  <2>1. Len(outbox) \in Nat /\ Len(outbox) # 0
    BY <1>1, EmptySeq, LenProperties
  <2>2. Len(outbox) <= 1
    BY <1>1
  <2>3. \A n \in Nat : n # 0 /\ n <= 1 => n = 1
    OBVIOUS
  <2>4. QED
    BY <2>1, <2>2, <2>3
<1>3. outbox[1] \in Transactions
  BY <1>1, <1>2, ElementOfSeq
<1>4. outbox = <<outbox[1]>>
  BY <1>1, <1>2, SeqEqual
<1>5. QED
  BY <1>2, <1>3, <1>4 DEF Transactions

LEMMA BeginHead ==
    ASSUME job \in Jobs, Begin
    PROVE  /\ job.todo \in Seq(Tasks) /\ job.todo # <<>>
           /\ job.todo[1][1] = "begin" /\ job.todo[1][2] = Of
           /\ Of \in Publications
BY AtHead, TaskIs DEF Begin

\* A transaction begins, or one is pending, or the step fails.
BeginsOne ==
    /\ outbox = <<>>
    /\ outbox' = <<Transaction(Of[1], Of[2])>>
    /\ ~torn' /\ cursor' = Len(events)
    /\ IF InLog(Of[1]) THEN Quarantined(log.status = "ended")
                       ELSE UNCHANGED seal
    /\ GoesOn(<<>>, 2) /\ HeadIn({"private"})'
BeginsNone ==
    /\ outbox = <<>> /\ UNCHANGED outbox
    /\ \/ Recovered /\ ~torn' /\ cursor' = Len(events)
       \/ UNCHANGED <<torn, cursor>>
    /\ \/ UNCHANGED seal
       \/ InLog(Of[1]) /\ Quarantined(log.status = "ended")
    /\ Fails
BeginsLater ==
    /\ outbox # <<>> /\ UNCHANGED <<outbox, torn, seal, cursor>>
    /\ \/ ~InLog(Of[1]) /\ Fails
       \/ InLog(Of[1]) /\ GoesOn(<<<<"outbox", 0>>>>, 1) /\ outbox[1].log = log
       \/ InLog(Of[1]) /\ GoesOn(<<<<"outbox", 0>>>>, 6)

LEMMA BeginIs ==
    ASSUME TypeInv, Shaped(job), Begin
    PROVE  /\ UNCHANGED <<events, manifest, log, facts, ledger, public, known>>
           /\ fragment' \in BOOLEAN /\ torn' \in BOOLEAN
           /\ BeginsOne \/ BeginsNone \/ BeginsLater
<1>1. /\ job \in Jobs /\ job.todo # <<>> /\ job.todo[1][1] = "begin"
      /\ job.todo \in Seq(Tasks) /\ events \in Seq(Recs)
      /\ torn \in BOOLEAN /\ fragment \in BOOLEAN
  BY BeginHead DEF TypeInv
<1>2. CASE outbox # <<>>
  <2>1. /\ IF InLog(Of[1]) THEN Does(AfterPending) ELSE job' = Erred
        /\ UNCHANGED <<disk, private, cursor, known>>
    BY <1>2 DEF Begin
  <2> DEFINE t == <<<<"outbox", 0>>>>
             s == job.todo
  <2>2. Bundle(t) /\ t \in Seq(Tasks)
    BY OutboxIsBundle DEF Bundle, Script
  <2>3. 6 \in 1..(Len(s) + 1)
    BY <1>1, ChainAt DEF Shaped
  <2>4. ASSUME Does(<<Step("outbox")>> \o s)
        PROVE  GoesOn(t, 1)
    <3> DEFINE r == t \o s
    <3>1. r \in Seq(Tasks) /\ Follows(r, t, s, 1)
      BY <1>1, <2>2, ConcatFollows DEF Follows
    <3>2. Does(r)
      BY <2>4 DEF Step
    <3> HIDE DEF r, t
    <3>3. QED
      BY <1>1, <3>1, <3>2, DoesStep DEF GoesOn
  <2>5. ASSUME Does(<<Step("outbox")>> \o SubSeq(s, 6, Len(s)))
        PROVE  GoesOn(t, 6)
    <3> DEFINE r == t \o SubSeq(s, 6, Len(s))
    <3>1. r \in Seq(Tasks) /\ Follows(r, t, s, 6)
      BY <1>1, <2>2, <2>3, SuffixFollows
    <3>2. Does(r)
      BY <2>5 DEF Step
    <3> HIDE DEF r, t
    <3>3. QED
      BY <1>1, <3>1, <3>2, DoesStep DEF GoesOn
  <2>6. job' = Erred => Fails
    BY <1>1, ErredStep
  <2>7. BeginsLater
    BY <1>2, <2>1, <2>4, <2>5, <2>6
    DEF AfterPending, BeginsLater, disk, private
  <2>8. QED
    BY <1>1, <2>1, <2>7 DEF disk, private
<1>3. CASE outbox = <<>> /\ Recovered
  <2>1. UNCHANGED events /\ ~torn' /\ cursor' = Len(events)
    BY <1>1, <1>3, RecoveredStep
  <2>2. fragment' \in BOOLEAN /\ torn' \in BOOLEAN
    BY <1>1, <1>3, RecoveredStep DEF Recovered
  <2>3. ASSUME Next1
        PROVE  GoesOn(<<>>, 2) /\ HeadIn({"private"})'
    <3>1. GoesOn(<<>>, 2)
      BY <1>1, <2>3, Next1Step
    <3>2. <<"begin", "private">> \in Links
      BY DEF Links
    <3>3. HeadIn({<<"begin", "private">>[2]})'
      BY <1>1, <3>1, <3>2, NextInLine
    <3>4. QED
      BY <3>1, <3>3 DEF HeadIn
  <2>4. job' = Erred => Fails
    BY <1>1, ErredStep
  <2>5. CASE UNCHANGED <<disk, private, cursor>> /\ job' = Erred
    BY <1>1, <1>3, <2>2, <2>4, <2>5 DEF BeginsNone, Begin, disk, private
  <2>6. CASE /\ UNCHANGED <<public, manifest, log, facts, ledger>>
             /\ IF InLog(Of[1]) THEN Quarantined(log.status = "ended")
                                ELSE UNCHANGED seal
             /\ \/ job' = Erred /\ UNCHANGED outbox
                \/ outbox' = <<Transaction(Of[1], Of[2])>> /\ Next1
    BY <1>3, <2>1, <2>2, <2>3, <2>4, <2>6 DEF BeginsNone, BeginsOne, Begin
  <2>7. QED
    BY <1>3, <2>5, <2>6 DEF Begin
<1>4. CASE outbox = <<>> /\ ~Recovered
  <2>1. job' = Erred /\ UNCHANGED <<disk, private, cursor, known>>
    BY <1>4 DEF Begin
  <2>2. Fails
    BY <1>1, <2>1, ErredStep
  <2>3. QED
    BY <1>1, <1>4, <2>1, <2>2 DEF BeginsNone, disk, private
<1>5. QED
  BY <1>2, <1>3, <1>4

LEMMA ApplyIs ==
    ASSUME TypeInv, Shaped(job), ApplyPrivate
    PROVE  /\ UNCHANGED <<events, torn, fragment, seal, public, facts, outbox,
                          ledger, cursor, known>>
           /\ HeadIn({"private"})
           /\ \/ /\ manifest' = outbox[1].manifest /\ log' = outbox[1].log
                 /\ GoesOn(<<>>, 2) /\ HeadIn({"append"})'
              \/ UNCHANGED <<manifest, log>> /\ Fails
<1>1. /\ job \in Jobs /\ job.todo # <<>> /\ job.todo[1][1] = "private"
  BY AtHead DEF ApplyPrivate, TypeInv
<1>2. UNCHANGED <<events, torn, fragment, seal, public, facts, outbox,
                  ledger, cursor, known>>
  BY DEF ApplyPrivate, disk, memory
<1>3. HeadIn({"private"})
  BY <1>1 DEF HeadIn
<1>4. ASSUME Next1
      PROVE  GoesOn(<<>>, 2) /\ HeadIn({"append"})'
  <2>1. GoesOn(<<>>, 2)
    BY <1>1, <1>4, Next1Step
  <2>2. <<"private", "append">> \in Links
    BY DEF Links
  <2>3. HeadIn({<<"private", "append">>[2]})'
    BY <1>1, <2>1, <2>2, NextInLine
  <2>4. QED
    BY <2>1, <2>3 DEF HeadIn
<1>5. QED
  BY <1>1, <1>2, <1>3, <1>4, ErredStep DEF ApplyPrivate

LEMMA AppendIs ==
    ASSUME TypeInv, Shaped(job), AppendRecord
    PROVE  /\ UNCHANGED <<fragment, seal, public, manifest, log, facts, outbox,
                          ledger, known>>
           /\ HeadIn({"append"})
           /\ \/ /\ \A i \in DOMAIN outbox[1].records :
                       Contains(events, outbox[1].records[i])
                 /\ UNCHANGED <<events, torn, cursor>>
                 /\ GoesOn(<<>>, 2) /\ HeadIn({"project"})'
              \/ /\ seal = 0
                 /\ \E i \in DOMAIN outbox[1].records :
                       /\ ~Contains(events, outbox[1].records[i])
                       /\ events' = Append(events, outbox[1].records[i])
                 /\ UNCHANGED torn
                 /\ \/ cursor' = Len(events') /\ UNCHANGED job
                    \/ UNCHANGED cursor /\ Fails
              \/ /\ seal = 0 /\ UNCHANGED <<events, cursor>>
                 /\ torn' \in {torn, TRUE} /\ Fails
<1>1. /\ job \in Jobs /\ job.todo # <<>> /\ job.todo[1][1] = "append"
      /\ events \in Seq(Recs)
  BY AtHead DEF AppendRecord, TypeInv
<1>2. UNCHANGED <<fragment, seal, public, manifest, log, facts, outbox,
                  ledger, known>>
  BY DEF AppendRecord, private
<1>3. HeadIn({"append"})
  BY <1>1 DEF HeadIn
<1>4. ASSUME Next1
      PROVE  GoesOn(<<>>, 2) /\ HeadIn({"project"})'
  <2>1. GoesOn(<<>>, 2)
    BY <1>1, <1>4, Next1Step
  <2>2. <<"append", "project">> \in Links
    BY DEF Links
  <2>3. HeadIn({<<"append", "project">>[2]})'
    BY <1>1, <2>1, <2>2, NextInLine
  <2>4. QED
    BY <2>1, <2>3 DEF HeadIn
<1> DEFINE records == outbox[1].records
           new == New(records)
<1>5. new = {i \in DOMAIN records : ~Contains(events, records[i])}
  BY <1>1, NewIs
<1> HIDE DEF new
<1>6. CASE new = {} /\ Next1 /\ UNCHANGED <<events, torn, cursor, faults>>
  <2>1. \A i \in DOMAIN records : Contains(events, records[i])
    BY <1>5, <1>6
  <2>2. QED
    BY <1>2, <1>3, <1>4, <1>6, <2>1
<1>7. ASSUME NEW i \in new, ~Refused(new),
             \/ AppendLine(records[i]) /\ cursor' = Len(events')
                   /\ UNCHANGED <<job, faults>>
             \/ Fault("io") /\ job' = Erred /\ UNCHANGED <<events, torn, cursor>>
             \/ Fault("torn") /\ job' = Erred /\ torn' = TRUE
                   /\ UNCHANGED <<events, cursor>>
             \/ Fault("kept") /\ job' = Erred /\ AppendLine(records[i])
                   /\ UNCHANGED cursor
      PROVE  /\ seal = 0
             /\ \/ /\ \E k \in DOMAIN records :
                         /\ ~Contains(events, records[k])
                         /\ events' = Append(events, records[k])
                   /\ UNCHANGED torn
                   /\ \/ cursor' = Len(events') /\ UNCHANGED job
                      \/ UNCHANGED cursor /\ Fails
                \/ /\ UNCHANGED <<events, cursor>>
                   /\ torn' \in {torn, TRUE} /\ Fails
  <2>1. seal = 0
    BY <1>7 DEF Refused
  <2>2. i \in DOMAIN records /\ ~Contains(events, records[i])
    BY <1>5, <1>7
  <2>3. job' = Erred => Fails
    BY <1>1, ErredStep
  <2> HIDE DEF records
  <2>4. QED
    BY <1>7, <2>1, <2>2, <2>3 DEF AppendLine
<1>8. \/ new = {} /\ Next1 /\ UNCHANGED <<events, torn, cursor, faults>>
      \/ \E i \in new :
            /\ ~Refused(new)
            /\ \/ AppendLine(records[i]) /\ cursor' = Len(events')
                     /\ UNCHANGED <<job, faults>>
               \/ Fault("io") /\ job' = Erred
                     /\ UNCHANGED <<events, torn, cursor>>
               \/ Fault("torn") /\ job' = Erred /\ torn' = TRUE
                     /\ UNCHANGED <<events, cursor>>
               \/ Fault("kept") /\ job' = Erred /\ AppendLine(records[i])
                     /\ UNCHANGED cursor
  BY DEF AppendRecord, new
<1>9. QED
  BY <1>2, <1>3, <1>6, <1>7, <1>8

LEMMA ProjectIs ==
    ASSUME TypeInv, Shaped(job), Project
    PROVE  /\ UNCHANGED <<events, torn, fragment, manifest, log, facts, outbox,
                          ledger, cursor, known>>
           /\ HeadIn({"project"})
           /\ public' \in {public, "open", "sealed", "corrupt"}
           /\ \/ /\ SealIfComplete(outbox[1].manifest)
                 /\ GoesOn(<<>>, 2) /\ HeadIn({"acknowledge"})'
              \/ /\ SealIfComplete(outbox[1].manifest) \/ UNCHANGED seal
                 /\ Fails
<1>1. /\ job \in Jobs /\ job.todo # <<>> /\ job.todo[1][1] = "project"
  BY AtHead DEF Project, TypeInv
<1>2. UNCHANGED <<events, torn, fragment, manifest, log, facts, outbox,
                  ledger, cursor, known>>
  BY DEF Project, private, memory
<1>3. HeadIn({"project"})
  BY <1>1 DEF HeadIn
<1>4. ASSUME Next1
      PROVE  GoesOn(<<>>, 2) /\ HeadIn({"acknowledge"})'
  <2>1. GoesOn(<<>>, 2)
    BY <1>1, <1>4, Next1Step
  <2>2. <<"project", "acknowledge">> \in Links
    BY DEF Links
  <2>3. HeadIn({<<"project", "acknowledge">>[2]})'
    BY <1>1, <2>1, <2>2, NextInLine
  <2>4. QED
    BY <2>1, <2>3 DEF HeadIn
<1>5. public' \in {public, "open", "sealed", "corrupt"}
  BY DEF Project, Summary
<1>6. QED
  BY <1>1, <1>2, <1>3, <1>4, <1>5, ErredStep DEF Project

LEMMA DoneAway ==
    ASSUME job \in Jobs, Shaped(job), job.todo # <<>>,
           job.todo[1][1] \notin Sources, GoesOn(<<>>, 2)
    PROVE  ~HeadIn(Targets)'
<1> DEFINE t == <<>>
<1>1. t \in Seq(Tasks) /\ GoesOn(t, 2) /\ (t # <<>> => t[1][1] \notin Targets)
  OBVIOUS
<1> HIDE DEF t
<1>2. QED
  BY <1>1, GoesAway

LEMMA AcknowledgeIs ==
    ASSUME TypeInv, Shaped(job), Acknowledge
    PROVE  /\ UNCHANGED <<events, torn, fragment, seal, public, manifest, log,
                          facts, cursor, known>>
           /\ HeadIn({"acknowledge"}) /\ ~HeadIn(Targets)'
           /\ \/ /\ outbox' = <<>> /\ ledger' = ledger \o outbox
                 /\ GoesOn(<<>>, 2)
              \/ UNCHANGED <<outbox, ledger>> /\ Fails
<1>1. /\ job \in Jobs /\ job.todo # <<>> /\ job.todo[1][1] = "acknowledge"
  BY AtHead DEF Acknowledge, TypeInv
<1>2. UNCHANGED <<events, torn, fragment, seal, public, manifest, log,
                  facts, cursor, known>>
  BY DEF Acknowledge, disk, memory
<1>3. HeadIn({"acknowledge"})
  BY <1>1 DEF HeadIn
<1>4. \/ outbox' = <<>> /\ ledger' = ledger \o outbox /\ GoesOn(<<>>, 2)
      \/ UNCHANGED <<outbox, ledger>> /\ Fails
  BY <1>1, Next1Step, ErredStep DEF Acknowledge
<1>5. ~HeadIn(Targets)'
  BY <1>1, <1>4, DoneAway, FailsAway DEF Sources
<1>6. QED
  BY <1>2, <1>3, <1>4, <1>5

LEMMA OutboxIs ==
    ASSUME TypeInv, Shaped(job), ReconcileOutbox
    PROVE  /\ UNCHANGED <<events, public, manifest, log, facts, outbox, ledger,
                          known>>
           /\ HeadIn({"outbox"}) /\ fragment' \in BOOLEAN
           /\ torn' \in BOOLEAN
           /\ \/ /\ outbox = <<>> /\ UNCHANGED <<torn, seal, cursor>>
                 /\ GoesOn(<<>>, 2) /\ ~HeadIn(Targets)'
              \/ /\ outbox # <<>> /\ ~torn' /\ cursor' = Len(events)
                 /\ seal' = 0
                 /\ GoesOn(Resume, 2) /\ HeadIn({"private"})'
<1>1. /\ job \in Jobs /\ job.todo # <<>> /\ job.todo[1][1] = "outbox"
      /\ events \in Seq(Recs) /\ torn \in BOOLEAN /\ fragment \in BOOLEAN
  BY AtHead DEF ReconcileOutbox, TypeInv
<1>2. HeadIn({"outbox"})
  BY <1>1 DEF HeadIn
<1>3. CASE outbox = <<>>
  <2>1. Next1 /\ UNCHANGED <<disk, cursor, private, known>>
    BY <1>3 DEF ReconcileOutbox
  <2>2. GoesOn(<<>>, 2)
    BY <1>1, <2>1, Next1Step
  <2>3. ~HeadIn(Targets)'
    BY <1>1, <2>2, DoneAway DEF Sources
  <2>4. QED
    BY <1>1, <1>2, <1>3, <2>1, <2>2, <2>3 DEF disk, private
<1>4. CASE outbox # <<>>
  <2>1. /\ Recovered /\ Quarantined(FALSE) /\ Push(Resume)
        /\ UNCHANGED <<public, private, known>>
    BY <1>4 DEF ReconcileOutbox, Resume
  <2>2. UNCHANGED events /\ ~torn' /\ cursor' = Len(events)
    BY <1>1, <2>1, RecoveredStep
  <2>3. fragment' \in BOOLEAN /\ torn' \in BOOLEAN
    BY <1>1, <2>1, RecoveredStep DEF Recovered
  <2>4. seal' = 0
    BY <2>1 DEF Quarantined
  <2> DEFINE t == Resume
  <2>5. /\ t \in Seq(Tasks) /\ t[1][1] = "private" /\ Len(t) = 4
        /\ 1 \in DOMAIN t
    BY ResumeIs
  <2>6. GoesOn(t, 2)
    BY <1>1, <2>1, <2>5, PushStep
  <2> HIDE DEF t
  <2>7. 1 \in DOMAIN job'.todo /\ job'.todo[1] = t[1]
    BY <2>5, <2>6 DEF GoesOn, Follows
  <2>8. HeadIn({"private"})'
    BY <2>5, <2>7 DEF HeadIn
  <2>9. QED
    BY <1>2, <1>4, <2>1, <2>2, <2>3, <2>4, <2>6, <2>8 DEF private, t
<1>5. QED
  BY <1>3, <1>4

\* A seal that matches is kept if the run has ended.
Rechecked ==
    seal' = IF seal # 0 /\ seal = Len(events) /\ log.status = "ended"
            THEN seal ELSE 0

LEMMA QuarantinedIs ==
    ASSUME events \in Seq(Recs), Quarantined(log.status = "ended")
    PROVE  Rechecked
BY KnownIs DEF Quarantined, Sealed, Rechecked

LEMMA OtherSeal ==
    ASSUME TypeInv, Other
    PROVE  /\ public' \in {"open", "sealed", "corrupt"}
           /\ \/ UNCHANGED seal
              \/ Gate /\ ~torn' /\ Rechecked
              \/ /\ RepairProjections
                 /\ seal' \in {seal, Len(events)}
                 /\ seal' # seal => seal = 0
<1>1. /\ events \in Seq(Recs) /\ public \in {"open", "sealed", "corrupt"}
  BY DEF TypeInv
<1>2. CASE Gate
  <2>1. Recovered /\ Quarantined(log.status = "ended") /\ UNCHANGED public
    BY <1>2 DEF Gate
  <2>2. ~torn' /\ Rechecked
    BY <1>1, <2>1, RecoveredStep, QuarantinedIs
  <2>3. QED
    BY <1>1, <1>2, <2>1, <2>2
<1>3. CASE PublishFlow \/ ReconcileObligations \/ PublishBinding \/ Fail
           \/ Preserve \/ MarkClean
  BY <1>1, <1>3
  DEF PublishFlow, ReconcileObligations, PublishBinding, Fail, Preserve,
      MarkClean, disk
<1>4. CASE RepairProjections
  <2>1. public' \in {"open", "sealed", "corrupt"}
    BY <1>4 DEF RepairProjections, Summary
  <2>2. seal' \in {seal, Len(events)} /\ (seal' # seal => seal = 0)
    BY <1>4 DEF RepairProjections
  <2>3. QED
    BY <1>4, <2>1, <2>2
<1>5. CASE ReleasePane \/ AllocatePane \/ RecordBinding \/ TypeInput
           \/ WriteRevision \/ CleanupIntent
  BY <1>1, <1>5
  DEF ReleasePane, AllocatePane, RecordBinding, TypeInput, WriteRevision,
      CleanupIntent, disk
<1>6. CASE PublishAvailable
  BY <1>1, <1>6 DEF PublishAvailable, disk
<1>7. CASE CleanupAll \/ KillPane \/ Suspend
  BY <1>1, <1>7 DEF CleanupAll, KillPane, Suspend, disk
<1>8. CASE Openings /\ ~Load
  <2>1. ASSUME NEW op, NEW tasks, Request(op, tasks)
        PROVE  UNCHANGED disk
    BY <2>1 DEF Request
  <2>2. UNCHANGED disk
    BY <1>8, <2>1
    DEF Openings, Activate, Bind, Hook, Deliver, Exit, Revise, Rebind,
        Finish, StopRun
  <2>3. QED
    BY <1>1, <2>2 DEF disk
<1>9. CASE Load \/ Shutdown \/ Crash
  BY <1>1, <1>9 DEF Load, Shutdown, Crash, disk
<1>10. QED
  BY <1>2, <1>3, <1>4, <1>5, <1>6, <1>7, <1>8, <1>9 DEF Other, Calm

-----------------------------------------------------------------------------
(* The pending transaction at its steps.                                   *)

\* It has taken effect, and all of its records are in the journal.
Applied == manifest = outbox[1].manifest /\ log = outbox[1].log
Recorded == \A i \in DOMAIN outbox[1].records :
                Contains(events, outbox[1].records[i])
PlaceInv ==
    /\ HeadIn(Targets) => outbox # <<>>
    /\ HeadIn({"append", "project", "acknowledge"}) => Applied
    /\ HeadIn({"project", "acknowledge"}) => Recorded
    /\ HeadIn({"acknowledge"}) => (Terminal(manifest) => seal # 0)

LEMMA HeadKinds ==
    /\ HeadIn({"append", "project", "acknowledge"}) => HeadIn(Targets)
    /\ HeadIn({"project", "acknowledge"}) => HeadIn(Targets)
    /\ HeadIn({"private"}) => HeadIn(Targets)
    /\ HeadIn({"append"}) => HeadIn(Targets)
    /\ HeadIn({"project"}) => HeadIn(Targets)
    /\ HeadIn({"acknowledge"}) => HeadIn(Targets)
BY DEF HeadIn, Targets

LEMMA TypeNext ==
    ASSUME TypeInv, Shaped(job), PlaceInv, [Next]_vars
    PROVE  TypeInv'
<1>1. job' \in Jobs
  BY ShapedNext
<1>2. /\ events \in Seq(Recs) /\ cursor \in -1..Len(events) /\ seal \in Nat
      /\ torn \in BOOLEAN /\ fragment \in BOOLEAN /\ known \in BOOLEAN
      /\ public \in {"open", "sealed", "corrupt"}
      /\ manifest \in Manifests /\ log \in Logs /\ facts \in FactRecords
      /\ IsFiniteSet(facts.panes) /\ IsFiniteSet(facts.cleaning)
      /\ outbox \in Seq(Transactions) /\ Len(outbox) <= 1
      /\ job \in Jobs /\ Len(events) \in Nat
  BY LenProperties DEF TypeInv
<1>3. Len(events) \in -1..Len(events)
  BY <1>2
<1>4. CASE Begin
  <2>1. Of \in Publications
    BY <1>2, <1>4, BeginHead
  <2> DEFINE t == Transaction(Of[1], Of[2])
  <2>2. t \in Transactions
    BY <1>2, <2>1, TransactionIs DEF Publishes
  <2> HIDE DEF t
  <2>3. <<t>> \in Seq(Transactions) /\ Len(<<t>>) <= 1
    BY <2>2
  <2>4. /\ UNCHANGED <<events, manifest, log, facts, public, known>>
        /\ fragment' \in BOOLEAN /\ torn' \in BOOLEAN
        /\ BeginsOne \/ BeginsNone \/ BeginsLater
    BY <1>4, BeginIs
  <2>5. /\ outbox' = outbox \/ outbox' = <<t>>
        /\ cursor' = cursor \/ cursor' = Len(events)
    BY <2>4 DEF BeginsOne, BeginsNone, BeginsLater, t
  <2>6. seal' \in {seal, 0}
    BY <2>4 DEF BeginsOne, BeginsNone, BeginsLater, Quarantined
  <2>7. /\ outbox' \in Seq(Transactions) /\ Len(outbox') <= 1
    BY <1>2, <2>3, <2>5
  <2>8. cursor' \in -1..Len(events) /\ seal' \in Nat
    BY <1>2, <1>3, <2>5, <2>6
  <2>9. QED
    BY <1>1, <1>2, <2>4, <2>7, <2>8 DEF TypeInv
<1>5. CASE ApplyPrivate
  <2>1. outbox # <<>>
    BY <1>5, ApplyIs, HeadKinds DEF PlaceInv
  <2>2. outbox[1].manifest \in Manifests /\ outbox[1].log \in Logs
    BY <2>1, PendingIs
  <2>3. manifest' \in Manifests /\ log' \in Logs
    BY <1>2, <1>5, <2>2, ApplyIs
  <2>4. UNCHANGED <<events, torn, fragment, seal, public, facts, outbox,
                    cursor, known>>
    BY <1>5, ApplyIs
  <2>5. QED
    BY <1>1, <1>2, <2>3, <2>4 DEF TypeInv
<1>6. CASE AppendRecord
  <2>1. outbox # <<>>
    BY <1>6, AppendIs, HeadKinds DEF PlaceInv
  <2>2. outbox[1].records \in Seq(Recs)
    BY <2>1, PendingIs
  <2>3. UNCHANGED <<fragment, seal, public, manifest, log, facts, outbox,
                    known>>
    BY <1>6, AppendIs
  <2>4. torn' \in BOOLEAN
    BY <1>2, <1>6, AppendIs
  <2>5. events' \in Seq(Recs) /\ cursor' \in -1..Len(events')
    <3>1. CASE UNCHANGED <<events, cursor>>
      BY <1>2, <3>1
    <3>2. ASSUME NEW i \in DOMAIN outbox[1].records,
                 events' = Append(events, outbox[1].records[i]),
                 cursor' = Len(events') \/ UNCHANGED cursor
          PROVE  events' \in Seq(Recs) /\ cursor' \in -1..Len(events')
      <4>1. outbox[1].records[i] \in Recs
        BY <2>2, <3>2, ElementOfSeq, LenProperties
      <4>2. events' \in Seq(Recs) /\ Len(events') = Len(events) + 1
        BY <1>2, <3>2, <4>1, AppendProperties
      <4>3. QED
        BY <1>2, <3>2, <4>2
    <3>3. QED
      BY <1>6, <3>1, <3>2, AppendIs
  <2>6. QED
    BY <1>1, <1>2, <2>3, <2>4, <2>5 DEF TypeInv
<1>7. CASE Project
  <2>1. /\ UNCHANGED <<events, torn, fragment, manifest, log, facts, outbox,
                       cursor, known>>
        /\ public' \in {public, "open", "sealed", "corrupt"}
    BY <1>7, ProjectIs
  <2>2. seal' \in {seal, Len(events)}
    BY <1>7, ProjectIs DEF SealIfComplete
  <2>3. QED
    BY <1>1, <1>2, <2>1, <2>2 DEF TypeInv
<1>8. CASE Acknowledge
  <2>1. UNCHANGED <<events, torn, fragment, seal, public, manifest, log,
                    facts, cursor, known>>
    BY <1>8, AcknowledgeIs
  <2>2. outbox' = <<>> \/ UNCHANGED outbox
    BY <1>8, AcknowledgeIs
  <2>3. outbox' \in Seq(Transactions) /\ Len(outbox') <= 1
    <3>1. <<>> \in Seq(Transactions) /\ Len(<<>>) <= 1
      OBVIOUS
    <3>2. QED
      BY <1>2, <2>2, <3>1
  <2>4. QED
    BY <1>1, <1>2, <2>1, <2>3 DEF TypeInv
<1>9. CASE ReconcileOutbox
  <2>1. /\ UNCHANGED <<events, public, manifest, log, facts, outbox, known>>
        /\ fragment' \in BOOLEAN
        /\ torn' \in BOOLEAN /\ cursor' \in {cursor, Len(events)}
        /\ seal' \in {seal, 0}
    BY <1>9, OutboxIs
  <2>2. QED
    BY <1>1, <1>2, <1>3, <2>1 DEF TypeInv
<1>10. CASE Other
  <2>1. /\ UNCHANGED <<events, manifest, log, outbox>>
        /\ torn' \in BOOLEAN /\ fragment' \in BOOLEAN
        /\ cursor' \in -1..Len(events) /\ known' \in BOOLEAN
    BY <1>10, OtherLeaves
  <2>2. public' \in {"open", "sealed", "corrupt"}
    BY <1>10, OtherSeal
  <2>3. seal' \in {seal, 0, Len(events)}
    BY <1>10, OtherSeal DEF Rechecked
  <2>4. /\ facts' \in FactRecords
        /\ IsFiniteSet(facts'.panes) /\ IsFiniteSet(facts'.cleaning)
    BY <1>2, <1>10, OtherFactsGo, FactsStay
  <2>5. QED
    BY <1>1, <1>2, <2>1, <2>2, <2>3, <2>4 DEF TypeInv
<1>11. CASE UNCHANGED vars
  BY <1>11 DEF vars, TypeInv
<1>12. QED
  BY <1>4, <1>5, <1>6, <1>7, <1>8, <1>9, <1>10, <1>11, StepKinds DEF Other

LEMMA HeadPushed ==
    ASSUME job \in Jobs, NEW t \in Seq(Tasks), NEW c, GoesOn(t, c), t # <<>>
    PROVE  job'.todo # <<>> /\ job'.todo[1] = t[1]
<1>1. 1 \in DOMAIN t
  BY EmptySeq, LenProperties
<1>2. 1 \in DOMAIN job'.todo /\ job'.todo[1] = t[1]
  BY <1>1 DEF GoesOn, Follows
<1>3. QED
  BY <1>2

LEMMA AwayPlaces ==
    ASSUME ~HeadIn(Targets)'
    PROVE  PlaceInv'
BY DEF PlaceInv, HeadIn, Targets

LEMMA BeginsAway ==
    ASSUME TypeInv, BeginsNone \/ BeginsLater
    PROVE  ~HeadIn(Targets)'
<1>1. job \in Jobs
  BY DEF TypeInv
<1>2. CASE Fails
  BY <1>1, <1>2, FailsAway
<1>3. ASSUME NEW c, GoesOn(<<<<"outbox", 0>>>>, c)
      PROVE  ~HeadIn(Targets)'
  <2> DEFINE t == <<<<"outbox", 0>>>>
  <2>1. t \in Seq(Tasks) /\ t # <<>> /\ t[1][1] = "outbox"
    BY OutboxIsBundle DEF Bundle, Script
  <2>2. GoesOn(t, c)
    BY <1>3
  <2> HIDE DEF t
  <2>3. QED
    BY <1>1, <2>1, <2>2, HeadPushed DEF HeadIn, Targets
<1>4. QED
  BY <1>2, <1>3 DEF BeginsNone, BeginsLater

LEMMA PlaceNext ==
    ASSUME TypeInv, Shaped(job), PlaceInv, [Next]_vars
    PROVE  PlaceInv'
<1>1. job \in Jobs /\ events \in Seq(Recs)
  BY DEF TypeInv
<1>2. ASSUME HeadIn({"private"})', outbox' # <<>>
      PROVE  PlaceInv'
  BY <1>2 DEF PlaceInv, HeadIn
<1>3. ASSUME Fails
      PROVE  PlaceInv'
  BY <1>1, <1>3, FailsAway, AwayPlaces
<1>4. CASE Begin
  <2>1. BeginsOne \/ BeginsNone \/ BeginsLater
    BY <1>4, BeginIs
  <2>2. CASE BeginsOne
    <3>1. outbox' # <<>> /\ HeadIn({"private"})'
      BY <2>2 DEF BeginsOne
    <3>2. QED
      BY <1>2, <3>1
  <2>3. QED
    BY <2>1, <2>2, BeginsAway, AwayPlaces
<1>5. CASE ApplyPrivate
  <2>1. outbox # <<>> /\ UNCHANGED outbox
    BY <1>5, ApplyIs, HeadKinds DEF PlaceInv
  <2>2. CASE /\ manifest' = outbox[1].manifest /\ log' = outbox[1].log
             /\ HeadIn({"append"})'
    BY <2>1, <2>2 DEF PlaceInv, HeadIn, Applied
  <2>3. QED
    BY <1>3, <1>5, <2>2, ApplyIs
<1>6. CASE AppendRecord
  <2>1. /\ outbox # <<>> /\ UNCHANGED <<outbox, manifest, log>> /\ Applied
        /\ HeadIn({"append"})
    BY <1>6, AppendIs, HeadKinds DEF PlaceInv, HeadIn
  <2>2. Applied'
    BY <2>1 DEF Applied
  <2>3. CASE UNCHANGED job
    <3>1. HeadIn({"append"})'
      BY <2>1, <2>3 DEF HeadIn
    <3>2. QED
      BY <2>1, <2>2, <3>1 DEF PlaceInv, HeadIn
  <2>4. CASE Recorded /\ UNCHANGED events /\ HeadIn({"project"})'
    <3>1. Recorded'
      BY <2>1, <2>4 DEF Recorded
    <3>2. QED
      BY <2>1, <2>2, <2>4, <3>1 DEF PlaceInv, HeadIn
  <2>5. QED
    BY <1>3, <1>6, <2>3, <2>4, AppendIs DEF Recorded
<1>7. CASE Project
  <2>1. /\ outbox # <<>> /\ UNCHANGED <<outbox, manifest, log, events>>
        /\ Applied /\ Recorded
    BY <1>7, ProjectIs, HeadKinds DEF PlaceInv, HeadIn
  <2>2. Applied' /\ Recorded'
    BY <2>1 DEF Applied, Recorded
  <2>3. CASE SealIfComplete(outbox[1].manifest) /\ HeadIn({"acknowledge"})'
    <3>1. ASSUME Terminal(manifest)'
          PROVE  seal' # 0
      <4>1. Terminal(outbox[1].manifest) /\ Contains(events, <<"ended">>)
        BY <2>1, <3>1 DEF Terminal, Applied
      <4>2. Len(events) # 0
        BY <4>1 DEF Contains
      <4>3. QED
        BY <2>3, <4>1, <4>2 DEF SealIfComplete
    <3>2. QED
      BY <2>1, <2>2, <2>3, <3>1 DEF PlaceInv, HeadIn
  <2>4. QED
    BY <1>3, <1>7, <2>3, ProjectIs
<1>8. CASE Acknowledge
  BY <1>8, AcknowledgeIs, AwayPlaces
<1>9. CASE ReconcileOutbox
  <2>1. CASE ~HeadIn(Targets)'
    BY <2>1, AwayPlaces
  <2>2. CASE outbox' # <<>> /\ HeadIn({"private"})'
    BY <1>2, <2>2
  <2>3. QED
    BY <1>9, <2>1, <2>2, OutboxIs
<1>10. CASE Other
  BY <1>10, OtherAway, AwayPlaces
<1>11. CASE UNCHANGED vars
  BY <1>11 DEF vars, PlaceInv, HeadIn, Applied, Recorded, Terminal
<1>12. QED
  BY <1>4, <1>5, <1>6, <1>7, <1>8, <1>9, <1>10, <1>11, StepKinds DEF Other

-----------------------------------------------------------------------------
(* A torn line is put aside before anything is projected.                  *)

\* Only the pending transaction may have left a torn line, and whatever is
\* done next comes after recovery.
TornInv == torn => outbox # <<>> /\ Guarded(job.todo)

LEMMA NotTorn ==
    ASSUME job \in Jobs, TornInv, HeadIn({"project", "acknowledge", "repair"})
    PROVE  ~torn
<1>1. SUFFICES ASSUME Guarded(job.todo)
               PROVE  FALSE
  BY DEF TornInv
<1>2. job.todo \in Seq(Tasks) /\ job.todo # <<>>
  BY DEF Jobs, HeadIn
<1>3. 1 \in DOMAIN job.todo /\ job.todo[1] \in Tasks
  BY <1>2, EmptySeq, LenProperties, ElementOfSeq
<1>4. job.todo[1][1] \in {"project", "acknowledge", "repair"}
  BY DEF HeadIn
<1>5. job.todo[1] \in OnPending
  BY <1>3, <1>4 DEF Tasks, ActTasks, PaneTasks, RunTasks, OnPending
<1>6. Before(job.todo, 1, {"outbox", "begin"})
  BY <1>1, <1>3, <1>5 DEF Guarded, Ordered
<1>7. QED
  BY <1>6 DEF Before

LEMMA StepGuarded ==
    ASSUME job \in Jobs, Shaped(job), Guarded(job.todo), job.todo # <<>>,
           job.todo[1][1] \notin {"outbox", "begin"}, Steps
    PROVE  Guarded(job'.todo)
<1>1. CASE GoesOn(<<>>, 2)
  <2> DEFINE t == <<>>
  <2>1. Guarded(t) /\ t \in Seq(Tasks) /\ GoesOn(t, 2)
    BY <1>1, EmptyGuarded
  <2> HIDE DEF t
  <2>2. QED
    BY <2>1, GuardedGoesOn
<1>2. QED
  BY <1>1, FailsGuarded DEF Steps

LEMMA OutboxGuarded ==
    ASSUME job \in Jobs, Guarded(job.todo), NEW c \in 1..(Len(job.todo) + 1),
           GoesOn(<<<<"outbox", 0>>>>, c)
    PROVE  Guarded(job'.todo)
<1> DEFINE t == <<<<"outbox", 0>>>>
<1>1. t \in Seq(Tasks) /\ Guarded(t) /\ 1 \in DOMAIN t /\ t[1][1] = "outbox"
  BY OutboxIsBundle DEF Bundle, Script
<1>2. Follows(job'.todo, t, job.todo, c) /\ job.todo \in Seq(Tasks)
  BY DEF GoesOn, Jobs
<1> HIDE DEF t
<1>3. \E k \in DOMAIN t : t[k][1] \in {"outbox", "begin"}
  BY <1>1
<1>4. QED
  BY <1>1, <1>2, <1>3, OrderedFollows DEF Guarded

LEMMA TornNext ==
    ASSUME TypeInv, Shaped(job), PlaceInv, TornInv, [Next]_vars
    PROVE  TornInv'
<1>1. /\ job \in Jobs /\ job.todo \in Seq(Tasks)
      /\ Len(job.todo) \in Nat
  BY LenProperties DEF TypeInv, Jobs
<1>2. CASE Begin
  <2>1. BeginsOne \/ BeginsNone \/ BeginsLater
    BY <1>2, BeginIs
  <2>2. CASE BeginsOne
    BY <2>2 DEF BeginsOne, TornInv
  <2>3. CASE BeginsNone
    BY <2>3 DEF BeginsNone, TornInv
  <2>4. CASE BeginsLater
    <3>1. outbox # <<>> /\ UNCHANGED <<outbox, torn>>
      BY <2>4 DEF BeginsLater
    <3>2. ASSUME torn
          PROVE  Guarded(job'.todo)
      <4>1. Guarded(job.todo)
        BY <3>2 DEF TornInv
      <4>2. CASE Fails
        BY <1>1, <4>2, FailsGuarded
      <4>3. 1 \in 1..(Len(job.todo) + 1) /\ 6 \in 1..(Len(job.todo) + 1)
        BY <1>1, <1>2, BeginHead, ChainAt DEF Shaped
      <4>4. CASE GoesOn(<<<<"outbox", 0>>>>, 1)
        BY <1>1, <4>1, <4>3, <4>4, OutboxGuarded
      <4>5. CASE GoesOn(<<<<"outbox", 0>>>>, 6)
        BY <1>1, <4>1, <4>3, <4>5, OutboxGuarded
      <4>6. QED
        BY <2>4, <4>2, <4>4, <4>5 DEF BeginsLater
    <3>3. QED
      BY <3>1, <3>2 DEF TornInv
  <2>5. QED
    BY <2>1, <2>2, <2>3, <2>4
<1>3. CASE ApplyPrivate \/ Project
  <2>1. /\ UNCHANGED <<torn, outbox>> /\ Steps
        /\ HeadIn({"private", "project"})
    BY <1>3, ApplyIs, ProjectIs DEF Steps, HeadIn
  <2>2. Guarded(job.todo) => Guarded(job'.todo)
    BY <1>1, <2>1, StepGuarded DEF HeadIn
  <2>3. QED
    BY <2>1, <2>2 DEF TornInv
<1>4. CASE AppendRecord
  <2>1. outbox # <<>> /\ UNCHANGED outbox /\ HeadIn({"append"})
    BY <1>4, AppendIs, HeadKinds DEF PlaceInv
  <2>2. CASE Fails
    BY <1>1, <2>1, <2>2, FailsGuarded DEF TornInv
  <2>3. CASE UNCHANGED torn /\ Steps
    <3>1. Guarded(job.todo) => Guarded(job'.todo)
      BY <1>1, <2>1, <2>3, StepGuarded DEF HeadIn
    <3>2. QED
      BY <2>1, <2>3, <3>1 DEF TornInv
  <2>4. QED
    BY <1>4, <2>2, <2>3, AppendIs DEF Steps
<1>5. CASE Acknowledge
  <2>1. ~torn /\ UNCHANGED torn
    BY <1>1, <1>5, AcknowledgeIs, NotTorn DEF HeadIn
  <2>2. QED
    BY <2>1 DEF TornInv
<1>6. CASE ReconcileOutbox
  BY <1>6, OutboxIs DEF TornInv
<1>7. CASE Other
  BY <1>7, OtherLeaves, OtherGuarded DEF TornInv
<1>8. CASE UNCHANGED vars
  BY <1>8 DEF vars, TornInv
<1>9. QED
  BY <1>2, <1>3, <1>4, <1>5, <1>6, <1>7, <1>8, StepKinds DEF Other

-----------------------------------------------------------------------------
(* The seal.                                                               *)

LEMMA BeginSeal ==
    ASSUME TypeInv, Shaped(job), Begin
    PROVE  /\ UNCHANGED events
           /\ UNCHANGED seal \/ Rechecked
           /\ ~torn' \/ UNCHANGED torn
<1>1. events \in Seq(Recs)
  BY DEF TypeInv
<1>2. BeginsOne \/ BeginsNone \/ BeginsLater
  BY BeginIs
<1>3. UNCHANGED events
  BY BeginIs
<1>4. ~torn' \/ UNCHANGED torn
  BY <1>2 DEF BeginsOne, BeginsNone, BeginsLater
<1>5. UNCHANGED seal \/ Rechecked
  BY <1>1, <1>2, QuarantinedIs DEF BeginsOne, BeginsNone, BeginsLater
<1>6. QED
  BY <1>3, <1>4, <1>5

LEMMA SealNext ==
    ASSUME TypeInv, Shaped(job), PlaceInv, TornInv, SealIsFinal, [Next]_vars
    PROVE  SealIsFinal'
<1>1. job \in Jobs
  BY DEF TypeInv
<1>2. CASE Begin
  BY <1>2, BeginSeal DEF Rechecked, SealIsFinal
<1>3. CASE ApplyPrivate
  BY <1>3, ApplyIs DEF SealIsFinal
<1>4. CASE AppendRecord
  BY <1>4, AppendIs DEF SealIsFinal
<1>5. CASE Project
  <2>1. ~torn /\ UNCHANGED <<torn, events>>
    BY <1>1, <1>5, ProjectIs, NotTorn DEF HeadIn
  <2>2. seal' \in {seal, Len(events)}
    BY <1>5, ProjectIs DEF SealIfComplete
  <2>3. QED
    BY <2>1, <2>2 DEF SealIsFinal
<1>6. CASE Acknowledge
  BY <1>6, AcknowledgeIs DEF SealIsFinal
<1>7. CASE ReconcileOutbox
  BY <1>7, OutboxIs DEF SealIsFinal
<1>8. CASE Other
  <2>1. UNCHANGED events /\ (torn' => torn)
    BY <1>8, OtherLeaves
  <2>2. CASE UNCHANGED seal
    BY <2>1, <2>2 DEF SealIsFinal
  <2>3. CASE ~torn' /\ Rechecked
    BY <2>1, <2>3 DEF SealIsFinal, Rechecked
  <2>4. CASE RepairProjections /\ seal' \in {seal, Len(events)}
    <3>1. HeadIn({"repair"})
      BY <1>1, <2>4, AtHead DEF RepairProjections, HeadIn
    <3>2. ~torn
      BY <1>1, <3>1, NotTorn DEF HeadIn
    <3>3. QED
      BY <2>1, <2>4, <3>2 DEF SealIsFinal
  <2>5. QED
    BY <1>8, <2>2, <2>3, <2>4, OtherSeal
<1>9. CASE UNCHANGED vars
  BY <1>9 DEF vars, SealIsFinal
<1>10. QED
  BY <1>2, <1>3, <1>4, <1>5, <1>6, <1>7, <1>8, <1>9, StepKinds DEF Other

-----------------------------------------------------------------------------
(* A run that has ended stays so.                                          *)

\* Only a running run is paused; a pause that waits for its turn knows the log
\* as it is.
Pause == <<"begin", <<"pause", 0>>>>
PauseInv ==
    \A i \in DOMAIN job.todo :
        job.todo[i] = Pause
          => /\ log.status = "running"
             /\ i = 1 \/ outbox = <<>> \/ outbox[1].log = log

LEMMA PauseFollows ==
    ASSUME job \in Jobs, NEW t \in Seq(Tasks),
           NEW c \in 1..(Len(job.todo) + 1),
           Follows(job'.todo, t, job.todo, c),
           \A i \in DOMAIN t :
               t[i] = Pause => i = 1 /\ log'.status = "running",
           \A k \in c..Len(job.todo) :
               job.todo[k] = Pause
                 => /\ log'.status = "running"
                    /\ outbox' = <<>> \/ outbox'[1].log = log'
    PROVE  PauseInv'
<1>1. SUFFICES ASSUME NEW i \in DOMAIN job'.todo, job'.todo[i] = Pause
               PROVE  /\ log'.status = "running"
                      /\ i = 1 \/ outbox' = <<>> \/ outbox'[1].log = log'
  BY DEF PauseInv
<1>2. CASE i \in DOMAIN t /\ job'.todo[i] = t[i]
  BY <1>1, <1>2
<1>3. ASSUME NEW k \in c..Len(job.todo), k \in DOMAIN job.todo,
             job'.todo[i] = job.todo[k]
      PROVE  /\ log'.status = "running"
             /\ outbox' = <<>> \/ outbox'[1].log = log'
  BY <1>1, <1>3
<1>4. QED
  BY <1>1, <1>2, <1>3 DEF Follows

\* What an operation does next pauses the run first, if at all.
PauseGoes ==
    \/ Fails \/ UNCHANGED job
    \/ \E t \in Seq(Tasks), c \in 2..(Len(job.todo) + 1) :
          GoesOn(t, c) /\ PausesFirst(t)
    \/ job' \in Jobs /\ PausesFirst(job'.todo)

LEMMA PauseKept ==
    ASSUME job \in Jobs, PauseInv, PauseGoes, UNCHANGED log,
           outbox' = <<>> \/ UNCHANGED outbox
    PROVE  PauseInv'
<1>1. /\ DOMAIN job.todo = 1..Len(job.todo) /\ Len(job.todo) \in Nat
      /\ job.todo \in Seq(Tasks)
  BY LenProperties DEF Jobs
<1>2. <<>> \in Seq(Tasks) /\ PausesFirst(<<>>)
  BY DEF PausesFirst
<1>3. ASSUME NEW t \in Seq(Tasks), NEW c \in 2..(Len(job.todo) + 1),
             Follows(job'.todo, t, job.todo, c), PausesFirst(t)
      PROVE  PauseInv'
  <2>1. \A i \in DOMAIN t : t[i] = Pause => i = 1 /\ log'.status = "running"
    BY <1>3 DEF PausesFirst, Pause
  <2>2. ASSUME NEW k \in c..Len(job.todo), job.todo[k] = Pause
        PROVE  /\ log'.status = "running"
               /\ outbox' = <<>> \/ outbox'[1].log = log'
    <3>1. k \in DOMAIN job.todo /\ k # 1
      BY <1>1, <1>3
    <3>2. QED
      BY <2>2, <3>1 DEF PauseInv
  <2>3. c \in 1..(Len(job.todo) + 1)
    BY <1>1, <1>3
  <2>4. QED
    BY <1>3, <2>1, <2>2, <2>3, PauseFollows
<1>4. CASE Fails
  <2>1. CASE job'.todo = <<>>
    BY <2>1 DEF PauseInv
  <2>2. ASSUME NEW c \in 2..Len(job.todo),
               Follows(job'.todo, <<>>, job.todo, c)
        PROVE  PauseInv'
    <3>1. c \in 2..(Len(job.todo) + 1)
      BY <1>1, <2>2
    <3>2. QED
      BY <1>2, <1>3, <2>2, <3>1
  <2>3. QED
    BY <1>4, <2>1, <2>2 DEF Fails
<1>5. CASE UNCHANGED job
  BY <1>5 DEF PauseInv
<1>6. CASE PausesFirst(job'.todo)
  BY <1>6 DEF PauseInv, PausesFirst, Pause
<1>7. QED
  BY <1>3, <1>4, <1>5, <1>6 DEF PauseGoes, GoesOn

LEMMA PlainPauses ==
    ASSUME NEW t, Plain(t)
    PROVE  PausesFirst(t)
<1>1. \A i \in DOMAIN t : t[i] # Pause
  BY DEF Plain, Commits, InLog, Pause
<1>2. QED
  BY <1>1 DEF PausesFirst, Pause

LEMMA OpeningPauses ==
    ASSUME Openings
    PROVE  job' \in Jobs /\ PausesFirst(job'.todo)
<1>1. CASE Load
  <2>1. PICK tasks : /\ Opens(tasks, "load")
                     /\ \A i \in DOMAIN tasks : tasks[i][1] # "begin"
    BY <1>1, LoadStep
  <2>2. \A i \in DOMAIN Prelude : Prelude[i][1] # "begin"
    BY PreludeIs
  <2>3. \A i \in DOMAIN job'.todo : job'.todo[i][1] # "begin"
    BY <2>1, <2>2 DEF Opens, Follows
  <2>4. QED
    BY <2>1, <2>3 DEF Opens, PausesFirst
<1>2. CASE Openings /\ ~Load
  <2>1. PICK tasks, op : Opens(tasks, op) /\ op \notin {"load", "shutdown"}
    BY <1>2, ActivateStep, BindStep, HookStep, DeliverStep, ExitStep,
       ReviseStep, RebindStep, FinishStep, StopStep
    DEF Openings
  <2>2. \A i \in DOMAIN job'.todo : job'.todo[i] # Pause
    BY <2>1 DEF Opens, Begun, OfOp, Pause
  <2>3. QED
    BY <2>1, <2>2 DEF Opens, PausesFirst, Pause
<1>3. QED
  BY <1>1, <1>2

LEMMA OtherPauses ==
    ASSUME TypeInv, Shaped(job), Other
    PROVE  PauseGoes
<1>1. job \in Jobs /\ facts \in FactRecords /\ job.todo \in Seq(Tasks)
      /\ Len(job.todo) \in Nat
  BY LenProperties DEF TypeInv, Jobs
<1>2. ASSUME NEW t \in Seq(Tasks), GoesOn(t, 2), PausesFirst(t),
             job.todo # <<>>
      PROVE  PauseGoes
  <2>1. 2 \in 2..(Len(job.todo) + 1)
    BY <1>1, <1>2, EmptySeq
  <2>2. QED
    BY <1>2, <2>1 DEF PauseGoes
<1>3. ASSUME NEW t \in Seq(Tasks),
             \A i \in DOMAIN t : t[i][1] \in {"cleanup", "preserve", "clean",
                                             "release", "kill"}
      PROVE  PausesFirst(t)
  BY <1>3 DEF PausesFirst
<1>4. <<>> \in Seq(Tasks) /\ PausesFirst(<<>>)
  BY DEF PausesFirst
<1>5. CASE CleanupAll
  <2>1. /\ job.todo # <<>>
        /\ \E panes \in SUBSET Activations :
              /\ IsFiniteSet(panes)
              /\ \E order \in SetToSeqs(panes) :
                    GoesOn(CleanupList(order), 2)
    BY <1>5, CleanupAllStep DEF TypeInv
  <2>2. PICK panes \in SUBSET Activations :
              /\ IsFiniteSet(panes)
              /\ \E order \in SetToSeqs(panes) :
                    GoesOn(CleanupList(order), 2)
    BY <2>1
  <2>3. PICK order \in SetToSeqs(panes) : GoesOn(CleanupList(order), 2)
    BY <2>2
  <2> DEFINE t == CleanupList(order)
  <2>4. t \in Seq(Tasks) /\ \A i \in DOMAIN t : t[i][1] = "cleanup"
    BY <2>2, CleanupListIs
  <2>5. GoesOn(t, 2)
    BY <2>3
  <2> HIDE DEF t
  <2>6. PausesFirst(t)
    BY <1>3, <2>4
  <2>7. QED
    BY <1>2, <2>1, <2>4, <2>5, <2>6
<1>6. CASE CleanupIntent
  <2> DEFINE t == CleanupOf(Of)
  <2>1. /\ job.todo # <<>> /\ Of \in Activations
        /\ GoesOn(t, 2) \/ Fails
    BY <1>1, <1>6, CleanupIntentStep
  <2>2. /\ t \in Seq(Tasks) /\ DOMAIN t = 1..4 /\ t[1] = <<"kill", Of>>
        /\ t[2] = <<"preserve", Of>> /\ t[3] = <<"clean", Of>>
        /\ t[4] = <<"release", Of>>
    BY <2>1, CleanupOfIs
  <2> HIDE DEF t
  <2>3. PausesFirst(t)
    BY <1>3, <2>2
  <2>4. QED
    BY <1>2, <2>1, <2>2, <2>3 DEF PauseGoes
<1>7. CASE KillPane
  <2>1. job.todo # <<>> /\ Of \in Activations
    BY <1>1, <1>7, KillPaneStep
  <2>2. CASE GoesOn(<<>>, 2)
    BY <1>2, <1>4, <2>1, <2>2
  <2>3. CASE 5 \in 1..(Len(job.todo) + 1) /\ GoesOn(GivenUp(Of), 5)
    <3> DEFINE t == GivenUp(Of)
    <3>1. t \in Seq(Tasks) /\ PausesFirst(t)
      BY <2>1, GivenUpIs, PlainPauses DEF Bundle, Script
    <3> HIDE DEF t
    <3>2. 5 \in 2..(Len(job.todo) + 1)
      BY <1>1, <2>3
    <3>3. GoesOn(t, 5)
      BY <2>3 DEF t
    <3>4. QED
      BY <3>1, <3>2, <3>3 DEF PauseGoes
  <2>4. QED
    BY <1>1, <1>7, <2>2, <2>3, KillPaneStep DEF PauseGoes
<1>8. CASE Suspend
  <2>1. job.todo # <<>>
    BY <1>1, <1>8, SuspendStep
  <2>2. CASE GoesOn(<<>>, 2)
    BY <1>2, <1>4, <2>1, <2>2
  <2>3. CASE log.status = "running" /\ GoesOn(Publish("pause", 0), 2)
    <3> DEFINE t == Publish("pause", 0)
    <3>1. /\ t \in Seq(Tasks) /\ DOMAIN t = 1..5 /\ t[2] = <<"private", 0>>
          /\ t[3] = <<"append", 0>> /\ t[4] = <<"project", 0>>
          /\ t[5] = <<"acknowledge", 0>>
      BY PublishIs DEF Publications, RunWhats
    <3>2. GoesOn(t, 2)
      BY <2>3
    <3> HIDE DEF t
    <3>3. \A i \in DOMAIN t : t[i] = Pause => i = 1
      BY <3>1 DEF Pause
    <3>4. PausesFirst(t)
      BY <2>3, <3>3 DEF PausesFirst, Pause
    <3>5. QED
      BY <1>2, <2>1, <3>1, <3>2, <3>4
  <2>4. QED
    BY <1>1, <1>8, <2>2, <2>3, SuspendStep
<1>9. CASE Calm
  <2>1. Moves /\ job.todo # <<>>
    BY <1>1, <1>9, CalmMoves
  <2>2. ASSUME NEW t, Bundle(t), GoesOn(t, 2)
        PROVE  PauseGoes
    BY <1>2, <2>1, <2>2, PlainPauses DEF Bundle, Script
  <2>3. QED
    BY <2>1, <2>2 DEF Moves, PauseGoes
<1>10. CASE Openings
  BY <1>10, OpeningPauses DEF PauseGoes
<1>11. CASE Shutdown
  BY <1>11, ShutdownStep DEF PauseGoes
<1>12. CASE Crash
  <2>1. job'.todo = <<>> /\ job' \in Jobs
    BY <1>12 DEF Crash, Down, Jobs, Ops
  <2>2. QED
    BY <1>4, <2>1 DEF PauseGoes
<1>13. QED
  BY <1>5, <1>6, <1>7, <1>8, <1>9, <1>10, <1>11, <1>12 DEF Other

LEMMA StepPauses ==
    ASSUME job \in Jobs, job.todo # <<>>, Steps
    PROVE  PauseGoes
<1>1. 2 \in 2..(Len(job.todo) + 1)
  BY EmptySeq, LenProperties DEF Jobs
<1>2. <<>> \in Seq(Tasks) /\ PausesFirst(<<>>)
  BY DEF PausesFirst
<1>3. QED
  BY <1>1, <1>2 DEF Steps, PauseGoes

LEMMA PauseNext ==
    ASSUME TypeInv, Shaped(job), PlaceInv, PauseInv, [Next]_vars
    PROVE  PauseInv'
<1>1. /\ job \in Jobs /\ job.todo \in Seq(Tasks) /\ Len(job.todo) \in Nat
      /\ manifest \in Manifests /\ log \in Logs
      /\ DOMAIN job.todo = 1..Len(job.todo)
  BY LenProperties DEF TypeInv, Jobs
<1>2. CASE Begin
  <2>1. /\ BeginsOne \/ BeginsNone \/ BeginsLater
        /\ UNCHANGED log
    BY <1>2, BeginIs
  <2>2. /\ job.todo # <<>> /\ job.todo[1][1] = "begin" /\ job.todo[1][2] = Of
        /\ Of \in Publications
    BY <1>1, <1>2, BeginHead
  <2>3. 1 \in DOMAIN job.todo /\ 2 \in 1..(Len(job.todo) + 1)
        /\ 1 \in 1..(Len(job.todo) + 1)
    BY <1>1, <2>2, EmptySeq
  <2>4. ASSUME NEW k \in DOMAIN job.todo, k # 1, job.todo[k] = Pause
        PROVE  ~InLog(Of[1])
    <3>1. Commits(job.todo[k])
      BY <2>4 DEF Pause, Commits, InLog
    <3>2. ~Commits(job.todo[1])
      BY <2>3, <2>4, <3>1 DEF Shaped, CommitsFirst
    <3>3. QED
      BY <2>2, <3>2 DEF Commits
  <2>5. CASE BeginsOne
    <3> DEFINE t == Transaction(Of[1], Of[2])
    <3>1. ~InLog(Of[1]) => t.log = log
      BY <1>1, <2>2, TransactionIs DEF Publishes
    <3>2. outbox' = <<t>> /\ GoesOn(<<>>, 2)
      BY <2>5 DEF BeginsOne
    <3> HIDE DEF t
    <3>3. ASSUME NEW k \in 2..Len(job.todo), job.todo[k] = Pause
          PROVE  log'.status = "running" /\ outbox'[1].log = log'
      <4>1. k \in DOMAIN job.todo /\ k # 1
        BY <1>1
      <4>2. log.status = "running"
        BY <3>3, <4>1 DEF PauseInv
      <4>3. t.log = log
        BY <2>4, <3>1, <3>3, <4>1
      <4>4. QED
        BY <2>1, <3>2, <4>2, <4>3
    <3>4. Follows(job'.todo, <<>>, job.todo, 2) /\ <<>> \in Seq(Tasks)
      BY <3>2 DEF GoesOn
    <3> DEFINE e == <<>>
    <3>5. \A i \in DOMAIN e : e[i] = Pause => i = 1 /\ log'.status = "running"
      OBVIOUS
    <3>6. e \in Seq(Tasks) /\ Follows(job'.todo, e, job.todo, 2)
      BY <3>4
    <3> HIDE DEF e
    <3>7. QED
      BY <1>1, <2>3, <3>3, <3>5, <3>6, PauseFollows
  <2>6. CASE BeginsNone \/ (BeginsLater /\ Fails)
    <3>1. Fails /\ UNCHANGED outbox
      BY <2>6 DEF BeginsNone, BeginsLater
    <3>2. QED
      BY <1>1, <2>1, <3>1, PauseKept DEF PauseGoes
  <2> DEFINE u == <<<<"outbox", 0>>>>
  <2>7. /\ u \in Seq(Tasks)
        /\ \A i \in DOMAIN u : u[i] = Pause => i = 1 /\ log'.status = "running"
    BY OutboxIsBundle DEF Bundle, Script, Pause
  <2> HIDE DEF u
  <2>8. CASE UNCHANGED outbox /\ GoesOn(u, 1) /\ outbox[1].log = log
    <3>1. Follows(job'.todo, u, job.todo, 1)
      BY <2>8 DEF GoesOn
    <3>2. ASSUME NEW k \in 1..Len(job.todo), job.todo[k] = Pause
          PROVE  log'.status = "running" /\ outbox'[1].log = log'
      <4>1. log.status = "running"
        BY <1>1, <3>2 DEF PauseInv
      <4>2. QED
        BY <2>1, <2>8, <4>1
    <3>3. QED
      BY <1>1, <2>3, <2>7, <3>1, <3>2, PauseFollows
  <2>9. CASE InLog(Of[1]) /\ GoesOn(u, 6)
    <3>1. Follows(job'.todo, u, job.todo, 6)
      BY <2>9 DEF GoesOn
    <3>2. 6 \in 1..(Len(job.todo) + 1)
      BY <1>1, <2>2, ChainAt DEF Shaped
    <3>3. ASSUME NEW k \in 6..Len(job.todo)
          PROVE  job.todo[k] # Pause
      <4>1. k \in DOMAIN job.todo /\ k # 1
        BY <1>1
      <4>2. QED
        BY <2>4, <2>9, <4>1
    <3>4. QED
      BY <1>1, <2>7, <3>1, <3>2, <3>3, PauseFollows
  <2>10. BeginsLater
           => \/ BeginsLater /\ Fails
              \/ UNCHANGED outbox /\ GoesOn(u, 1) /\ outbox[1].log = log
              \/ InLog(Of[1]) /\ GoesOn(u, 6)
    BY DEF BeginsLater, u
  <2>11. QED
    BY <2>1, <2>5, <2>6, <2>8, <2>9, <2>10
<1>3. CASE ApplyPrivate
  <2>1. /\ outbox # <<>> /\ UNCHANGED outbox /\ job.todo # <<>>
    BY <1>3, ApplyIs, HeadKinds DEF PlaceInv, HeadIn
  <2>2. CASE UNCHANGED log /\ Fails
    BY <1>1, <2>1, <2>2, PauseKept DEF PauseGoes
  <2>3. CASE log' = outbox[1].log /\ GoesOn(<<>>, 2)
    <3>1. ASSUME NEW k \in 2..Len(job.todo), job.todo[k] = Pause
          PROVE  log'.status = "running" /\ outbox'[1].log = log'
      <4>1. k \in DOMAIN job.todo /\ k # 1
        BY <1>1
      <4>2. log.status = "running" /\ outbox[1].log = log
        BY <2>1, <3>1, <4>1 DEF PauseInv
      <4>3. QED
        BY <2>1, <2>3, <4>2
    <3> DEFINE e == <<>>
    <3>2. \A i \in DOMAIN e : e[i] = Pause => i = 1 /\ log'.status = "running"
      OBVIOUS
    <3>3. e \in Seq(Tasks) /\ Follows(job'.todo, e, job.todo, 2)
      BY <2>3 DEF GoesOn
    <3> HIDE DEF e
    <3>4. 2 \in 1..(Len(job.todo) + 1)
      BY <1>1, <2>1, EmptySeq
    <3>5. QED
      BY <1>1, <3>1, <3>2, <3>3, <3>4, PauseFollows
  <2>4. QED
    BY <1>3, <2>2, <2>3, ApplyIs
<1>4. CASE AppendRecord \/ Project \/ Acknowledge
  <2>1. UNCHANGED log /\ (outbox' = <<>> \/ UNCHANGED outbox)
    BY <1>4, AppendIs, ProjectIs, AcknowledgeIs
  <2>2. job.todo # <<>> /\ Steps
    BY <1>1, <1>4, OnPendingSteps
  <2>3. QED
    BY <1>1, <2>1, <2>2, StepPauses, PauseKept
<1>5. CASE ReconcileOutbox
  <2>1. UNCHANGED <<log, outbox>> /\ job.todo # <<>>
    BY <1>5, OutboxIs DEF HeadIn
  <2>2. CASE GoesOn(<<>>, 2)
    BY <1>1, <2>1, <2>2, StepPauses, PauseKept DEF Steps
  <2>3. CASE GoesOn(Resume, 2)
    <3>1. 2 \in 2..(Len(job.todo) + 1)
      BY <1>1, <2>1, EmptySeq
    <3>2. Resume \in Seq(Tasks) /\ PausesFirst(Resume)
      BY ResumeIs, PlainPauses
    <3>3. PauseGoes
      BY <2>3, <3>1, <3>2 DEF PauseGoes
    <3>4. QED
      BY <1>1, <2>1, <3>3, PauseKept
  <2>4. QED
    BY <1>5, <2>2, <2>3, OutboxIs
<1>6. CASE Other
  BY <1>1, <1>6, OtherLeaves, OtherPauses, PauseKept
<1>7. CASE UNCHANGED vars
  BY <1>7 DEF vars, PauseInv
<1>8. QED
  BY <1>2, <1>3, <1>4, <1>5, <1>6, <1>7, StepKinds DEF Other

\* The end of a run is in the journal once it is, or will be, in the log.
EndedInv ==
    /\ Contains(events, <<"ended">>)
         => \/ log.status = "ended"
            \/ outbox # <<>> /\ outbox[1].log.status = "ended"
    /\ outbox # <<>>
         => /\ log.status = "ended" => outbox[1].log.status = "ended"
            /\ Contains(outbox[1].records, <<"ended">>)
                 => outbox[1].log.status = "ended"

LEMMA EndedNext ==
    ASSUME TypeInv, Shaped(job), PlaceInv, PauseInv, EndedInv, [Next]_vars
    PROVE  EndedInv'
<1>1. /\ job \in Jobs /\ manifest \in Manifests /\ log \in Logs
      /\ events \in Seq(Recs)
  BY DEF TypeInv
<1>2. ASSUME UNCHANGED <<events, log, outbox>>
      PROVE  EndedInv'
  BY <1>2 DEF EndedInv
<1>3. CASE Begin
  <2>1. UNCHANGED <<events, log>>
    BY <1>3, BeginIs
  <2>2. CASE BeginsOne
    <3> DEFINE t == Transaction(Of[1], Of[2])
    <3>1. /\ job.todo # <<>> /\ job.todo[1] \in Tasks
          /\ job.todo[1][1] = "begin" /\ job.todo[1][2] = Of
          /\ Of \in Publications /\ 1 \in DOMAIN job.todo
      BY <1>1, <1>3, BeginHead, AtHead DEF Begin
    <3>2. Publishes(t, Of[1])
      BY <1>1, <3>1, TransactionIs
    <3>3. outbox = <<>> /\ outbox' = <<t>>
      BY <2>2 DEF BeginsOne
    <3> HIDE DEF t
    <3>4. outbox' # <<>> /\ outbox'[1] = t
      BY <3>3
    <3>5. log.status = "ended" => Of[1] # "pause"
      <4>1. SUFFICES ASSUME Of[1] = "pause"
                     PROVE  log.status = "running"
        OBVIOUS
      <4>2. Of = <<"pause", 0>>
        BY <3>1, <4>1 DEF Publications, ActWhats
      <4>3. job.todo[1] = Pause
        BY <3>1, <4>2 DEF Pause, Tasks, ActTasks, PaneTasks, RunTasks
      <4>4. QED
        BY <3>1, <4>3 DEF PauseInv
    <3>6. log.status = "ended" => t.log.status = "ended"
      BY <3>2, <3>5 DEF Publishes
    <3>7. Contains(t.records, <<"ended">>) => t.log.status = "ended"
      BY <3>2 DEF Publishes
    <3>8. QED
      BY <2>1, <3>3, <3>4, <3>6, <3>7 DEF EndedInv
  <2>3. QED
    BY <1>2, <1>3, <2>1, <2>2, BeginIs DEF BeginsNone, BeginsLater
<1>4. CASE ApplyPrivate
  <2>1. outbox # <<>> /\ UNCHANGED <<events, outbox>>
    BY <1>4, ApplyIs, HeadKinds DEF PlaceInv
  <2>2. log' = outbox[1].log \/ UNCHANGED log
    BY <1>4, ApplyIs
  <2>3. QED
    BY <2>1, <2>2 DEF EndedInv
<1>5. CASE AppendRecord
  <2>1. outbox # <<>> /\ UNCHANGED <<log, outbox>>
    BY <1>5, AppendIs, HeadKinds DEF PlaceInv
  <2>2. CASE UNCHANGED events
    BY <1>2, <2>1, <2>2
  <2>3. ASSUME NEW i \in DOMAIN outbox[1].records,
               events' = Append(events, outbox[1].records[i])
        PROVE  EndedInv'
    <3> DEFINE r == outbox[1].records[i]
    <3>1. /\ Len(events') = Len(events) + 1 /\ Len(events) \in Nat
          /\ \A k \in 1..Len(events) : events'[k] = events[k]
          /\ events'[Len(events) + 1] = r
      <4>1. r \in Recs
        BY <2>1, <2>3, PendingIs, ElementOfSeq, LenProperties
      <4> HIDE DEF r
      <4>2. events' = Append(events, r)
        BY <2>3 DEF r
      <4>3. QED
        BY <1>1, <4>1, <4>2, AppendProperties, LenProperties
    <3> HIDE DEF r
    <3>2. Contains(events', <<"ended">>)
            => Contains(events, <<"ended">>) \/ r = <<"ended">>
      <4>1. Contains(events, <<"ended">>) <=>
              \E k \in 1..Len(events) : events[k] = <<"ended">>
        BY DEF Contains
      <4>2. Contains(events', <<"ended">>) <=>
              \E k \in 1..Len(events') : events'[k] = <<"ended">>
        BY DEF Contains
      <4>3. \A k \in 1..Len(events') :
               k \in 1..Len(events) \/ k = Len(events) + 1
        BY <3>1
      <4>4. QED
        BY <3>1, <4>1, <4>2, <4>3
    <3>3. r = <<"ended">> => Contains(outbox[1].records, <<"ended">>)
      <4>1. DOMAIN outbox[1].records = 1..Len(outbox[1].records)
        BY <2>1, PendingIs, LenProperties
      <4>2. QED
        BY <2>3, <4>1 DEF r, Contains
    <3>4. QED
      BY <2>1, <3>2, <3>3 DEF EndedInv
  <2>4. QED
    BY <1>5, <2>2, <2>3, AppendIs
<1>6. CASE Project \/ ReconcileOutbox \/ Other
  BY <1>2, <1>6, ProjectIs, OutboxIs, OtherLeaves
<1>7. CASE Acknowledge
  <2>1. UNCHANGED <<events, log>> /\ (outbox' = <<>> \/ UNCHANGED outbox)
    BY <1>7, AcknowledgeIs
  <2>2. outbox # <<>> /\ log = outbox[1].log
    BY <1>7, AcknowledgeIs, HeadKinds DEF PlaceInv, Applied, HeadIn
  <2>3. QED
    BY <2>1, <2>2 DEF EndedInv
<1>8. CASE UNCHANGED vars
  BY <1>2, <1>8 DEF vars
<1>9. QED
  BY <1>3, <1>4, <1>5, <1>6, <1>7, <1>8, StepKinds DEF Other

LEMMA TerminalNext ==
    ASSUME TypeInv, Shaped(job), PlaceInv, EndedInv, SealIsFinal,
           TerminalIsSealed, [Next]_vars
    PROVE  TerminalIsSealed'
<1>1. ASSUME outbox = <<>>, UNCHANGED <<events, manifest>>,
             UNCHANGED seal \/ Rechecked \/ (seal' # seal => seal = 0)
      PROVE  TerminalIsSealed'
  <2>1. SUFFICES ASSUME Terminal(manifest)'
                 PROVE  seal' # 0
    BY DEF TerminalIsSealed
  <2>2. Terminal(manifest)
    BY <1>1, <2>1 DEF Terminal
  <2>3. seal # 0 /\ seal = Len(events)
    BY <1>1, <2>2 DEF TerminalIsSealed, SealIsFinal
  <2>4. log.status = "ended"
    BY <1>1, <2>2 DEF Terminal, EndedInv
  <2>5. QED
    BY <1>1, <2>3, <2>4 DEF Rechecked
<1>2. ASSUME outbox' # <<>>
      PROVE  TerminalIsSealed'
  BY <1>2 DEF TerminalIsSealed
<1>3. CASE Begin
  <2>1. UNCHANGED <<events, manifest>> /\ (UNCHANGED seal \/ Rechecked)
    BY <1>3, BeginIs, BeginSeal
  <2>2. CASE BeginsOne
    <3>1. outbox' # <<>>
      BY <2>2 DEF BeginsOne
    <3>2. QED
      BY <1>2, <3>1
  <2>3. CASE BeginsNone
    BY <1>1, <2>1, <2>3 DEF BeginsNone
  <2>4. CASE BeginsLater
    BY <1>2, <2>4 DEF BeginsLater
  <2>5. QED
    BY <1>3, <2>2, <2>3, <2>4, BeginIs
<1>4. CASE ApplyPrivate \/ AppendRecord \/ Project
  <2>1. outbox # <<>> /\ UNCHANGED outbox
    BY <1>4, ApplyIs, AppendIs, ProjectIs, HeadKinds DEF PlaceInv
  <2>2. QED
    BY <1>2, <2>1
<1>5. CASE Acknowledge
  <2>1. UNCHANGED <<events, manifest, seal>> /\ HeadIn({"acknowledge"})
    BY <1>5, AcknowledgeIs
  <2>2. Terminal(manifest) => seal # 0
    BY <2>1 DEF PlaceInv
  <2>3. QED
    BY <2>1, <2>2 DEF TerminalIsSealed, Terminal
<1>6. CASE ReconcileOutbox
  <2>1. UNCHANGED <<events, manifest, outbox>>
    BY <1>6, OutboxIs
  <2>2. CASE outbox = <<>> /\ UNCHANGED seal
    BY <1>1, <2>1, <2>2
  <2>3. QED
    BY <1>2, <1>6, <2>1, <2>2, OutboxIs
<1>7. CASE Other
  <2>1. UNCHANGED <<events, manifest, outbox>>
    BY <1>7, OtherLeaves
  <2>2. UNCHANGED seal \/ Rechecked \/ (seal' # seal => seal = 0)
    BY <1>7, OtherSeal
  <2>3. QED
    BY <1>1, <1>2, <2>1, <2>2
<1>8. CASE UNCHANGED vars
  BY <1>8 DEF vars, TerminalIsSealed, Terminal
<1>9. QED
  BY <1>3, <1>4, <1>5, <1>6, <1>7, <1>8, StepKinds DEF Other

-----------------------------------------------------------------------------
(* A flow is revised once the file of its revision is there.               *)

FileInv ==
    \/ facts.file
    \/ /\ ~log.revised
       /\ outbox # <<>> => ~outbox[1].log.revised
       /\ FileFirst(job.todo)

LEMMA FileGoes ==
    ASSUME job \in Jobs, FileFirst(job.todo), NEW t \in Seq(Tasks),
           \A i \in DOMAIN t : t[i] \notin Revised,
           NEW c \in 1..(Len(job.todo) + 1), GoesOn(t, c),
           \A k \in 1..(c - 1) : job.todo[k][1] # "file"
    PROVE  FileFirst(job'.todo)
<1>1. job.todo \in Seq(Tasks) /\ Follows(job'.todo, t, job.todo, c)
  BY DEF Jobs, GoesOn
<1>2. Ordered(t, Revised, {"file"})
  BY DEF Ordered
<1>3. \A k \in 1..(c - 1) : job.todo[k][1] \notin {"file"}
  OBVIOUS
<1>4. QED
  BY <1>1, <1>2, <1>3, OrderedFollows DEF FileFirst

LEMMA FileFails ==
    ASSUME job \in Jobs, Shaped(job), Fails
    PROVE  FileFirst(job'.todo)
<1>1. CASE job'.todo = <<>>
  BY <1>1 DEF FileFirst, Ordered
<1>2. CASE job'.op \in {"stop", "shutdown"}
  BY <1>2, ShapedFails DEF Shaped, OfOp, FileFirst, Ordered, Revised
<1>3. QED
  BY <1>1, <1>2 DEF Fails

LEMMA NoRevision ==
    ASSUME NEW t, Plain(t)
    PROVE  \A i \in DOMAIN t : t[i] \notin Revised
BY DEF Plain, Commits, InLog, Revised

LEMMA FileSteps ==
    ASSUME job \in Jobs, Shaped(job), job.todo # <<>>, FileFirst(job.todo),
           job.todo[1][1] # "file", Steps
    PROVE  FileFirst(job'.todo)
<1> DEFINE t == <<>>
<1>1. t \in Seq(Tasks) /\ \A i \in DOMAIN t : t[i] \notin Revised
  OBVIOUS
<1>2. 2 \in 1..(Len(job.todo) + 1)
  BY EmptySeq, LenProperties DEF Jobs
<1>3. \A k \in 1..(2 - 1) : job.todo[k][1] # "file"
  OBVIOUS
<1>4. CASE GoesOn(t, 2)
  <2> HIDE DEF t
  <2>1. QED
    BY <1>1, <1>2, <1>3, <1>4, FileGoes
<1>5. QED
  BY <1>4, FileFails DEF Steps

LEMMA CalmHead ==
    ASSUME job \in Jobs, Calm, ~WriteRevision
    PROVE  job.todo[1][1] # "file"
<1>1. PICK n \in CalmTasks \ {"file"} : At(n)
  BY DEF Calm, CalmTasks, Gate, PublishFlow, ReconcileObligations,
         PublishBinding, RepairProjections, Fail, Preserve, MarkClean,
         ReleasePane, AllocatePane, RecordBinding, TypeInput,
         PublishAvailable
<1>2. QED
  BY <1>1, AtHead

LEMMA OtherFile ==
    ASSUME TypeInv, Shaped(job), FileFirst(job.todo), Other, ~facts'.file
    PROVE  FileFirst(job'.todo)
<1>1. /\ job \in Jobs /\ facts \in FactRecords /\ job.todo \in Seq(Tasks)
      /\ Len(job.todo) \in Nat
  BY LenProperties DEF TypeInv, Jobs
<1>2. ASSUME NEW t \in Seq(Tasks), \A i \in DOMAIN t : t[i] \notin Revised,
             GoesOn(t, 2), job.todo # <<>>, job.todo[1][1] # "file"
      PROVE  FileFirst(job'.todo)
  <2>1. 2 \in 1..(Len(job.todo) + 1)
    BY <1>1, <1>2, EmptySeq
  <2>2. \A k \in 1..(2 - 1) : job.todo[k][1] # "file"
    BY <1>2
  <2>3. QED
    BY <1>1, <1>2, <2>1, <2>2, FileGoes
<1>3. CASE CleanupAll
  <2>1. /\ job.todo # <<>> /\ job.todo[1][1] = "finalize"
        /\ \E panes \in SUBSET Activations :
              /\ IsFiniteSet(panes)
              /\ \E order \in SetToSeqs(panes) :
                    GoesOn(CleanupList(order), 2)
    BY <1>3, CleanupAllStep
  <2>2. PICK panes \in SUBSET Activations :
              /\ IsFiniteSet(panes)
              /\ \E order \in SetToSeqs(panes) :
                    GoesOn(CleanupList(order), 2)
    BY <2>1
  <2>3. PICK order \in SetToSeqs(panes) : GoesOn(CleanupList(order), 2)
    BY <2>2
  <2> DEFINE t == CleanupList(order)
  <2>4. t \in Seq(Tasks) /\ \A i \in DOMAIN t : t[i][1] = "cleanup"
    BY <2>2, CleanupListIs
  <2>5. GoesOn(t, 2)
    BY <2>3
  <2> HIDE DEF t
  <2>6. \A i \in DOMAIN t : t[i] \notin Revised
    BY <2>4 DEF Revised
  <2>7. QED
    BY <1>2, <2>1, <2>4, <2>5, <2>6
<1>4. CASE CleanupIntent
  <2> DEFINE t == CleanupOf(Of)
  <2>1. /\ job.todo # <<>> /\ job.todo[1][1] = "cleanup"
        /\ Of \in Activations
        /\ GoesOn(t, 2) \/ Fails
    BY <1>1, <1>4, CleanupIntentStep
  <2>2. /\ t \in Seq(Tasks) /\ DOMAIN t = 1..4 /\ t[1] = <<"kill", Of>>
        /\ t[2] = <<"preserve", Of>> /\ t[3] = <<"clean", Of>>
        /\ t[4] = <<"release", Of>>
    BY <2>1, CleanupOfIs
  <2> HIDE DEF t
  <2>3. \A i \in DOMAIN t : t[i] \notin Revised
    BY <2>2 DEF Revised
  <2>4. QED
    BY <1>1, <1>2, <2>1, <2>2, <2>3, FileFails
<1>5. CASE KillPane
  <2>1. job.todo # <<>> /\ Of \in Activations /\ job.todo[1][1] = "kill"
    BY <1>1, <1>5, KillPaneStep
  <2>2. CASE GoesOn(<<>>, 2) \/ Fails
    BY <1>1, <2>1, <2>2, FileSteps DEF Steps
  <2>3. CASE /\ 5 \in 1..(Len(job.todo) + 1) /\ GoesOn(GivenUp(Of), 5)
             /\ job.todo[2][1] = "preserve" /\ job.todo[3][1] = "clean"
             /\ job.todo[4][1] = "release"
    <3> DEFINE t == GivenUp(Of)
    <3>1. t \in Seq(Tasks) /\ \A i \in DOMAIN t : t[i] \notin Revised
      BY <2>1, GivenUpIs, NoRevision DEF Bundle, Script
    <3>2. GoesOn(t, 5)
      BY <2>3
    <3> HIDE DEF t
    <3>3. \A k \in 1..(5 - 1) : k = 1 \/ k = 2 \/ k = 3 \/ k = 4
      OBVIOUS
    <3>4. \A k \in 1..(5 - 1) : job.todo[k][1] # "file"
      BY <2>1, <2>3, <3>3
    <3>5. QED
      BY <1>1, <2>3, <3>1, <3>2, <3>4, FileGoes
  <2>4. QED
    BY <1>1, <1>5, <2>2, <2>3, KillPaneStep
<1>6. CASE Suspend
  <2>1. job.todo # <<>> /\ job.todo[1][1] = "suspend"
    BY <1>1, <1>6, SuspendStep
  <2>2. CASE GoesOn(<<>>, 2)
    BY <1>1, <2>1, <2>2, FileSteps DEF Steps
  <2>3. CASE GoesOn(Publish("pause", 0), 2)
    <3> DEFINE t == Publish("pause", 0)
    <3>1. /\ t \in Seq(Tasks) /\ DOMAIN t = 1..5
          /\ t[1] = <<"begin", <<"pause", 0>>>> /\ t[2] = <<"private", 0>>
          /\ t[3] = <<"append", 0>> /\ t[4] = <<"project", 0>>
          /\ t[5] = <<"acknowledge", 0>>
      BY PublishIs DEF Publications, RunWhats
    <3>2. GoesOn(t, 2)
      BY <2>3
    <3> HIDE DEF t
    <3>3. \A i \in DOMAIN t : t[i] \notin Revised
      BY <3>1 DEF Revised
    <3>4. QED
      BY <1>2, <2>1, <3>1, <3>2, <3>3
  <2>4. QED
    BY <1>1, <1>6, <2>2, <2>3, SuspendStep
<1>7. CASE Calm
  <2>1. Moves /\ job.todo # <<>>
    BY <1>1, <1>7, CalmMoves
  <2>2. ASSUME NEW t, Bundle(t), GoesOn(t, 2), ~WriteRevision
        PROVE  FileFirst(job'.todo)
    BY <1>1, <1>2, <1>7, <2>1, <2>2, CalmHead, NoRevision DEF Bundle, Script
  <2>3. CASE WriteRevision
    <3>1. job' = Erred
      BY <2>3 DEF WriteRevision, FactRecords, TypeInv
    <3>2. QED
      BY <1>1, <3>1, ErredStep, FileFails
  <2>4. CASE UNCHANGED job
    BY <2>4
  <2>5. QED
    BY <1>1, <2>1, <2>2, <2>3, <2>4, FileFails DEF Moves
<1>8. CASE Openings
  <2>1. PICK tasks, op : Opens(tasks, op) /\ FileFirst(tasks)
    BY <1>8, OpeningIs
  <2>2. /\ tasks \in Seq(Tasks) /\ Prelude \in Seq(Tasks)
        /\ Follows(job'.todo, Prelude, tasks, 1)
        /\ 1 \in 1..(Len(tasks) + 1)
    BY <2>1, PreludeIs DEF Opens, Begun
  <2>3. Ordered(Prelude, Revised, {"file"})
    <3>1. \A i \in DOMAIN Prelude : Prelude[i] \notin Revised
      BY PreludeIs DEF Revised
    <3>2. QED
      BY <3>1 DEF Ordered
  <2>4. \A k \in 1..(1 - 1) : tasks[k][1] \notin {"file"}
    OBVIOUS
  <2>5. QED
    BY <2>1, <2>2, <2>3, <2>4, OrderedFollows DEF FileFirst
<1>9. CASE Shutdown
  BY <1>9, ShutdownStep, RevisesOnly
<1>10. CASE Crash
  <2>1. job'.todo = <<>>
    BY <1>10 DEF Crash, Down
  <2>2. QED
    BY <2>1 DEF FileFirst, Ordered
<1>11. QED
  BY <1>3, <1>4, <1>5, <1>6, <1>7, <1>8, <1>9, <1>10 DEF Other

LEMMA FileNext ==
    ASSUME TypeInv, Shaped(job), PlaceInv, FileInv, [Next]_vars
    PROVE  FileInv'
<1>1. /\ job \in Jobs /\ job.todo \in Seq(Tasks) /\ Len(job.todo) \in Nat
      /\ manifest \in Manifests /\ log \in Logs /\ known \in BOOLEAN
      /\ DOMAIN job.todo = 1..Len(job.todo)
  BY LenProperties DEF TypeInv, Jobs
<1>2. facts.file => facts'.file
  <2>1. CASE Other
    BY <1>1, <2>1, OtherFactsGo, FactsStay
  <2>2. CASE ~Other
    BY <2>2, BeginIs, ApplyIs, AppendIs, ProjectIs, AcknowledgeIs, OutboxIs,
       StepKinds
    DEF Other, vars
  <2>3. QED
    BY <2>1, <2>2
<1>3. SUFFICES ASSUME ~facts'.file, ~log.revised, FileFirst(job.todo),
                      outbox # <<>> => ~outbox[1].log.revised
               PROVE  /\ ~log'.revised
                      /\ outbox' # <<>> => ~outbox'[1].log.revised
                      /\ FileFirst(job'.todo)
  BY <1>2 DEF FileInv
<1>4. CASE Begin
  <2>1. /\ BeginsOne \/ BeginsNone \/ BeginsLater
        /\ UNCHANGED log
    BY <1>4, BeginIs
  <2>2. /\ job.todo # <<>> /\ job.todo[1][1] = "begin" /\ job.todo[1][2] = Of
        /\ Of \in Publications
    BY <1>1, <1>4, BeginHead
  <2>3. 1 \in DOMAIN job.todo /\ 1 \in 1..(Len(job.todo) + 1)
    BY <1>1, <2>2, EmptySeq
  <2>4. CASE BeginsOne
    <3> DEFINE t == Transaction(Of[1], Of[2])
    <3>1. Publishes(t, Of[1])
      BY <1>1, <2>2, TransactionIs
    <3>2. outbox' = <<t>> /\ GoesOn(<<>>, 2)
      BY <2>4 DEF BeginsOne
    <3> HIDE DEF t
    <3>3. Of[1] # "revised"
      <4>1. SUFFICES ASSUME Of[1] = "revised"
                     PROVE  FALSE
        OBVIOUS
      <4>2. Of = <<"revised", 0>>
        BY <2>2, <4>1 DEF Publications, ActWhats
      <4>3. job.todo[1] \in Tasks
        BY <1>1, <1>4, AtHead DEF Begin
      <4>4. job.todo[1] \in Revised
        BY <2>2, <4>2, <4>3
        DEF Revised, Tasks, ActTasks, PaneTasks, RunTasks
      <4>5. Before(job.todo, 1, {"file"})
        BY <1>3, <2>3, <4>4 DEF FileFirst, Ordered
      <4>6. QED
        BY <4>5 DEF Before
    <3>4. ~t.log.revised
      BY <1>3, <3>1, <3>3 DEF Publishes
    <3>5. FileFirst(job'.todo)
      BY <1>1, <1>3, <2>2, <3>2, FileSteps DEF Steps
    <3>6. QED
      BY <1>3, <2>1, <3>2, <3>4, <3>5
  <2>5. CASE BeginsNone \/ (BeginsLater /\ Fails)
    <3>1. Fails /\ UNCHANGED outbox
      BY <2>5 DEF BeginsNone, BeginsLater
    <3>2. QED
      BY <1>1, <1>3, <2>1, <3>1, FileFails
  <2>6. ASSUME NEW c \in {1, 6}, GoesOn(<<<<"outbox", 0>>>>, c),
               UNCHANGED outbox
        PROVE  FileFirst(job'.todo)
    <3> DEFINE u == <<<<"outbox", 0>>>>
    <3>1. u \in Seq(Tasks) /\ \A i \in DOMAIN u : u[i] \notin Revised
      BY OutboxIsBundle DEF Bundle, Script, Revised
    <3>2. GoesOn(u, c)
      BY <2>6
    <3> HIDE DEF u
    <3>3. c \in 1..(Len(job.todo) + 1)
      BY <1>1, <2>2, <2>3, ChainAt DEF Shaped
    <3>4. \A k \in 1..(c - 1) : k = 1 \/ k = 2 \/ k = 3 \/ k = 4 \/ k = 5
      BY <2>6
    <3>5. \A k \in 1..(c - 1) : job.todo[k][1] # "file"
      BY <1>1, <2>2, <3>4, ChainAt DEF Shaped
    <3>6. QED
      BY <1>1, <1>3, <3>1, <3>2, <3>3, <3>5, FileGoes
  <2>7. CASE BeginsLater /\ ~Fails
    <3>1. UNCHANGED outbox
          /\ \E c \in {1, 6} : GoesOn(<<<<"outbox", 0>>>>, c)
      BY <2>7 DEF BeginsLater
    <3>2. QED
      BY <1>3, <2>1, <2>6, <3>1
  <2>8. QED
    BY <2>1, <2>4, <2>5, <2>7
<1>5. CASE ApplyPrivate \/ AppendRecord \/ Project \/ Acknowledge
  <2>1. /\ Steps /\ job.todo # <<>> /\ job.todo[1][1] \in Targets
    BY <1>1, <1>5, OnPendingSteps
  <2>2. FileFirst(job'.todo)
    BY <1>1, <1>3, <2>1, FileSteps DEF Targets
  <2>3. outbox # <<>> /\ (outbox' = <<>> \/ UNCHANGED outbox)
    BY <1>5, <2>1, ApplyIs, AppendIs, ProjectIs, AcknowledgeIs
    DEF PlaceInv, HeadIn
  <2>4. log' = log \/ log' = outbox[1].log
    BY <1>5, ApplyIs, AppendIs, ProjectIs, AcknowledgeIs
  <2>5. QED
    BY <1>3, <2>2, <2>3, <2>4
<1>6. CASE ReconcileOutbox
  <2>1. UNCHANGED <<log, outbox>> /\ job.todo # <<>>
        /\ job.todo[1][1] = "outbox"
    BY <1>6, OutboxIs DEF HeadIn
  <2>2. CASE GoesOn(<<>>, 2)
    BY <1>1, <1>3, <2>1, <2>2, FileSteps DEF Steps
  <2>3. CASE GoesOn(Resume, 2)
    <3>1. 2 \in 1..(Len(job.todo) + 1)
      BY <1>1, <2>1, EmptySeq
    <3>2. /\ Resume \in Seq(Tasks)
          /\ \A i \in DOMAIN Resume : Resume[i] \notin Revised
      BY ResumeIs, NoRevision
    <3>3. \A k \in 1..(2 - 1) : job.todo[k][1] # "file"
      BY <2>1
    <3>4. FileFirst(job'.todo)
      BY <1>1, <1>3, <2>3, <3>1, <3>2, <3>3, FileGoes
    <3>5. QED
      BY <1>3, <2>1, <3>4
  <2>4. QED
    BY <1>3, <1>6, <2>1, <2>2, <2>3, OutboxIs
<1>7. CASE Other
  BY <1>3, <1>7, OtherLeaves, OtherFile
<1>8. CASE UNCHANGED vars
  BY <1>3, <1>8 DEF vars
<1>9. QED
  BY <1>4, <1>5, <1>6, <1>7, <1>8, StepKinds DEF Other

-----------------------------------------------------------------------------
(* A pane is cleaned up while it is there.                                 *)

PanesInv == PanesOwned(job.todo) /\ facts.cleaning \subseteq facts.panes

LEMMA PanesGoes ==
    ASSUME job \in Jobs, PanesOwned(job.todo), NEW t \in Seq(Tasks),
           \A i \in DOMAIN t : t[i][1] \notin Untidy,
           NEW c \in 1..(Len(job.todo) + 1), GoesOn(t, c)
    PROVE  PanesOwned(job'.todo)
<1>1. job.todo \in Seq(Tasks) /\ Follows(job'.todo, t, job.todo, c)
  BY DEF Jobs, GoesOn
<1>2. QED
  BY <1>1, PanesFollows

LEMMA PanesFails ==
    ASSUME job \in Jobs, PanesOwned(job.todo), Fails
    PROVE  PanesOwned(job'.todo)
<1>1. CASE job'.todo = <<>>
  BY <1>1 DEF PanesOwned
<1>2. ASSUME NEW c \in 2..Len(job.todo),
             Follows(job'.todo, <<>>, job.todo, c)
      PROVE  PanesOwned(job'.todo)
  <2> DEFINE e == <<>>
  <2>1. /\ job.todo \in Seq(Tasks) /\ c \in 1..(Len(job.todo) + 1)
    BY DEF Jobs, Follows
  <2>2. e \in Seq(Tasks) /\ \A i \in DOMAIN e : e[i][1] \notin Untidy
    OBVIOUS
  <2>3. Follows(job'.todo, e, job.todo, c)
    BY <1>2
  <2> HIDE DEF e
  <2>4. QED
    BY <2>1, <2>2, <2>3, PanesFollows
<1>3. QED
  BY <1>1, <1>2 DEF Fails

LEMMA PlainTidy ==
    ASSUME NEW t, Plain(t)
    PROVE  \A i \in DOMAIN t : t[i][1] \notin Untidy
BY DEF Plain, PlainTasks, Untidy

LEMMA PanesSteps ==
    ASSUME job \in Jobs, job.todo # <<>>, PanesOwned(job.todo), Steps
    PROVE  PanesOwned(job'.todo)
<1> DEFINE t == <<>>
<1>1. t \in Seq(Tasks) /\ \A i \in DOMAIN t : t[i][1] \notin Untidy
  OBVIOUS
<1>2. 2 \in 1..(Len(job.todo) + 1)
  BY EmptySeq, LenProperties DEF Jobs
<1>3. CASE GoesOn(t, 2)
  <2> HIDE DEF t
  <2>1. QED
    BY <1>1, <1>2, <1>3, PanesGoes
<1>4. QED
  BY <1>3, PanesFails DEF Steps

LEMMA PanesCleanupAll ==
    ASSUME TypeInv, PanesInv, CleanupAll
    PROVE  PanesOwned(job'.todo)
<1>1. /\ job.todo \in Seq(Tasks) /\ DOMAIN job.todo = 1..Len(job.todo)
      /\ Len(job.todo) \in Nat
  BY LenProperties DEF TypeInv, Jobs
<1>2. /\ job.todo # <<>> /\ job.todo[1][1] = "finalize"
      /\ \E panes \in SUBSET (facts.panes \cup facts.cleaning) :
            /\ panes \in SUBSET Activations /\ IsFiniteSet(panes)
            /\ \E order \in SetToSeqs(panes) : GoesOn(CleanupList(order), 2)
  BY CleanupAllStep
<1>3. PICK panes \in SUBSET (facts.panes \cup facts.cleaning) :
            /\ panes \in SUBSET Activations /\ IsFiniteSet(panes)
            /\ \E order \in SetToSeqs(panes) : GoesOn(CleanupList(order), 2)
  BY <1>2
<1>4. PICK order \in SetToSeqs(panes) : GoesOn(CleanupList(order), 2)
  BY <1>3
<1> DEFINE t == CleanupList(order)
           r == job'.todo
<1>5. /\ \A i \in DOMAIN t : t[i][1] = "cleanup" /\ t[i][2] \in panes
      /\ \A i, k \in DOMAIN t : i # k => t[i][2] # t[k][2]
  BY <1>3, CleanupListIs
<1>6. Follows(r, t, job.todo, 2)
  BY <1>4 DEF GoesOn
<1> HIDE DEF t, r
<1>7. 1 \in DOMAIN job.todo
  BY <1>1, <1>2, EmptySeq
<1>8. \A k \in 2..Len(job.todo) : job.todo[k][1] # "cleanup"
  <2>1. SUFFICES ASSUME NEW k \in 2..Len(job.todo),
                        job.todo[k][1] = "cleanup"
                 PROVE  FALSE
    OBVIOUS
  <2>2. k \in DOMAIN job.todo /\ 1 < k
    BY <1>1
  <2>3. QED
    BY <1>2, <1>7, <2>1, <2>2 DEF PanesInv, PanesOwned
<1>9. \A i \in DOMAIN r : r[i][1] = "cleanup" => i \in DOMAIN t /\ r[i] = t[i]
  <2>1. SUFFICES ASSUME NEW i \in DOMAIN r, r[i][1] = "cleanup"
                 PROVE  i \in DOMAIN t /\ r[i] = t[i]
    OBVIOUS
  <2>2. \/ i \in DOMAIN t /\ r[i] = t[i]
        \/ \E k \in 2..Len(job.todo) : r[i] = job.todo[k]
    BY <1>6 DEF Follows
  <2>3. QED
    BY <1>8, <2>1, <2>2
<1>10. panes \subseteq facts.panes
  BY <1>3 DEF PanesInv
<1>11. ASSUME NEW i \in DOMAIN r, NEW k \in DOMAIN r, i < k,
              r[k][1] = "cleanup"
       PROVE  /\ r[i][1] # "finalize"
              /\ r[i][1] \in {"cleanup", "release"} => r[i][2] # r[k][2]
  <2>1. k \in DOMAIN t /\ r[k] = t[k]
    BY <1>9, <1>11
  <2>2. i \in DOMAIN t /\ r[i] = t[i]
    BY <1>6, <1>11, <2>1 DEF Follows
  <2>3. i # k
    BY <1>6, <1>11 DEF Follows
  <2>4. QED
    BY <1>5, <2>1, <2>2, <2>3
<1>12. PanesOwned(r)
  BY <1>5, <1>9, <1>10, <1>11 DEF PanesOwned
<1>13. QED
  BY <1>12 DEF r

LEMMA PanesCleanup ==
    ASSUME job \in Jobs, PanesInv, CleanupIntent
    PROVE  PanesOwned(job'.todo) /\ Of \in facts.panes
<1> DEFINE t == CleanupOf(Of)
           s == job.todo
           r == job'.todo
<1>1. /\ s # <<>> /\ s[1] = <<"cleanup", Of>> /\ Of \in Activations
      /\ GoesOn(t, 2) \/ Fails
  BY CleanupIntentStep
<1>2. /\ s \in Seq(Tasks) /\ DOMAIN s = 1..Len(s) /\ Len(s) \in Nat
      /\ 1 \in DOMAIN s
  BY <1>1, EmptySeq, LenProperties DEF Jobs
<1>3. PanesOwned(s)
  BY DEF PanesInv
<1>4. Of \in facts.panes
  BY <1>1, <1>2, <1>3 DEF PanesOwned
<1>5. CASE GoesOn(t, 2)
  <2>1. /\ DOMAIN t = 1..4 /\ t[1] = <<"kill", Of>>
        /\ t[2] = <<"preserve", Of>> /\ t[3] = <<"clean", Of>>
        /\ t[4] = <<"release", Of>>
    BY <1>1, CleanupOfIs
  <2>2. Follows(r, t, s, 2)
    BY <1>5 DEF GoesOn
  <2> HIDE DEF t, r, s
  <2>3. \A i \in DOMAIN t : /\ t[i][1] \notin {"cleanup", "finalize"}
                            /\ t[i][2] = Of
    BY <2>1
  <2>4. ASSUME NEW n \in DOMAIN s, n > 1, s[n][1] = "cleanup"
        PROVE  s[n][2] # Of
    BY <1>1, <1>2, <1>3, <2>4 DEF PanesOwned
  <2>5. ASSUME NEW k \in DOMAIN r, r[k][1] = "cleanup"
        PROVE  \E n \in 2..Len(s) : /\ n \in DOMAIN s /\ r[k] = s[n]
                                    /\ k = n + Len(t) + 1 - 2
    BY <2>2, <2>3, <2>5 DEF Follows
  <2>6. ASSUME NEW i \in DOMAIN r, NEW k \in DOMAIN r, i < k,
               r[k][1] = "cleanup"
        PROVE  /\ r[i][1] # "finalize"
               /\ r[i][1] \in {"cleanup", "release"} => r[i][2] # r[k][2]
    <3>1. PICK n \in 2..Len(s) : /\ n \in DOMAIN s /\ r[k] = s[n]
                                 /\ k = n + Len(t) + 1 - 2
      BY <2>5, <2>6
    <3>2. CASE i \in DOMAIN t /\ r[i] = t[i]
      BY <1>2, <2>3, <2>4, <2>6, <3>1, <3>2
    <3>3. ASSUME NEW m \in 2..Len(s), m \in DOMAIN s, r[i] = s[m],
                 i = m + Len(t) + 1 - 2
          PROVE  /\ r[i][1] # "finalize"
                 /\ r[i][1] \in {"cleanup", "release"} => r[i][2] # r[k][2]
      <4>1. m < n
        BY <1>2, <2>2, <2>6, <3>1, <3>3, SMTT(30) DEF Follows
      <4>2. s[n][1] = "cleanup"
        BY <2>6, <3>1
      <4>3. QED
        BY <1>3, <3>1, <3>3, <4>1, <4>2 DEF PanesOwned
    <3>4. QED
      BY <2>2, <3>2, <3>3 DEF Follows
  <2>7. \A i \in DOMAIN r : r[i][1] = "cleanup" => r[i][2] \in facts.panes
    BY <1>3, <2>5 DEF PanesOwned
  <2>8. PanesOwned(r)
    BY <2>6, <2>7 DEF PanesOwned
  <2>9. QED
    BY <1>4, <2>8 DEF r
<1>6. QED
  BY <1>1, <1>3, <1>4, <1>5, PanesFails

LEMMA PanesReleased ==
    ASSUME TypeInv, PanesInv, ReleasePane
    PROVE  PanesInv'
<1> DEFINE s == job.todo
           r == job'.todo
           t == <<>>
<1>1. /\ job \in Jobs /\ s \in Seq(Tasks) /\ s # <<>> /\ 1 \in DOMAIN s
      /\ s[1][1] = "release" /\ s[1][2] = Of
      /\ 2 \in 1..(Len(s) + 1)
  BY AtHead DEF TypeInv, ReleasePane
<1>2. GoesOn(t, 2)
  BY <1>1, Next1Step DEF ReleasePane
<1>3. /\ facts'.panes = facts.panes \ {Of}
      /\ facts'.cleaning = facts.cleaning \ {Of}
  BY DEF ReleasePane, TypeInv, FactRecords
<1>4. Follows(r, t, s, 2) /\ PanesOwned(s)
  BY <1>2 DEF GoesOn, PanesInv
<1>5. PanesOwned(r)
  BY <1>1, <1>2, PanesSteps DEF PanesInv, Steps
<1>6. ASSUME NEW k \in DOMAIN r, r[k][1] = "cleanup"
      PROVE  r[k][2] # Of
  <2>1. DOMAIN t = {}
    OBVIOUS
  <2> HIDE DEF t
  <2>2. PICK n \in 2..Len(s) : n \in DOMAIN s /\ r[k] = s[n]
    BY <1>4, <2>1 DEF Follows
  <2>3. 1 < n
    BY <1>4 DEF Follows
  <2>4. s[1][2] # s[n][2]
    BY <1>1, <1>4, <1>6, <2>2, <2>3 DEF PanesOwned
  <2>5. QED
    BY <1>1, <2>2, <2>4
<1> HIDE DEF r, s, t
<1>7. /\ \A i \in DOMAIN r : r[i][1] = "cleanup" => r[i][2] \in facts'.panes
      /\ \A i, k \in DOMAIN r :
            i < k /\ r[k][1] = "cleanup"
               => /\ r[i][1] # "finalize"
                  /\ r[i][1] \in {"cleanup", "release"} => r[i][2] # r[k][2]
  BY <1>3, <1>5, <1>6 DEF PanesOwned
<1>8. PanesOwned(job.todo)'
  BY <1>7 DEF PanesOwned, r
<1>9. QED
  BY <1>3, <1>8 DEF PanesInv

LEMMA OtherOwned ==
    ASSUME TypeInv, Shaped(job), PanesInv, Other
    PROVE  PanesOwned(job'.todo)
<1>1. /\ job \in Jobs /\ facts \in FactRecords /\ job.todo \in Seq(Tasks)
      /\ Len(job.todo) \in Nat /\ PanesOwned(job.todo)
  BY LenProperties DEF TypeInv, Jobs, PanesInv
<1>2. ASSUME NEW t \in Seq(Tasks), \A i \in DOMAIN t : t[i][1] \notin Untidy,
             GoesOn(t, 2), job.todo # <<>>
      PROVE  PanesOwned(job'.todo)
  <2>1. 2 \in 1..(Len(job.todo) + 1)
    BY <1>1, <1>2, EmptySeq
  <2>2. QED
    BY <1>1, <1>2, <2>1, PanesGoes
<1>3. CASE CleanupAll
  BY <1>3, PanesCleanupAll
<1>4. CASE CleanupIntent
  BY <1>1, <1>4, PanesCleanup
<1>5. CASE KillPane
  <2>1. job.todo # <<>> /\ Of \in Activations
    BY <1>1, <1>5, KillPaneStep
  <2>2. CASE GoesOn(<<>>, 2) \/ Fails
    BY <1>1, <2>1, <2>2, PanesSteps DEF Steps
  <2>3. CASE 5 \in 1..(Len(job.todo) + 1) /\ GoesOn(GivenUp(Of), 5)
    <3> DEFINE t == GivenUp(Of)
    <3>1. t \in Seq(Tasks) /\ \A i \in DOMAIN t : t[i][1] \notin Untidy
      BY <2>1, GivenUpIs, PlainTidy DEF Bundle, Script
    <3>2. GoesOn(t, 5)
      BY <2>3
    <3> HIDE DEF t
    <3>3. QED
      BY <1>1, <2>3, <3>1, <3>2, PanesGoes
  <2>4. QED
    BY <1>1, <1>5, <2>2, <2>3, KillPaneStep
<1>6. CASE Suspend
  <2>1. job.todo # <<>>
    BY <1>1, <1>6, SuspendStep
  <2>2. CASE GoesOn(<<>>, 2)
    BY <1>1, <2>1, <2>2, PanesSteps DEF Steps
  <2>3. CASE GoesOn(Publish("pause", 0), 2)
    <3> DEFINE t == Publish("pause", 0)
    <3>1. /\ t \in Seq(Tasks) /\ DOMAIN t = 1..5
          /\ t[1] = <<"begin", <<"pause", 0>>>> /\ t[2] = <<"private", 0>>
          /\ t[3] = <<"append", 0>> /\ t[4] = <<"project", 0>>
          /\ t[5] = <<"acknowledge", 0>>
      BY PublishIs DEF Publications, RunWhats
    <3>2. GoesOn(t, 2)
      BY <2>3
    <3> HIDE DEF t
    <3>3. \A i \in DOMAIN t : t[i][1] \notin Untidy
      BY <3>1 DEF Untidy
    <3>4. QED
      BY <1>2, <2>1, <3>1, <3>2, <3>3
  <2>4. QED
    BY <1>1, <1>6, <2>2, <2>3, SuspendStep
<1>7. CASE Calm
  <2>1. Moves /\ job.todo # <<>>
    BY <1>1, <1>7, CalmMoves
  <2>2. ASSUME NEW t, Bundle(t), GoesOn(t, 2)
        PROVE  PanesOwned(job'.todo)
    BY <1>2, <2>1, <2>2, PlainTidy DEF Bundle, Script
  <2>3. CASE UNCHANGED job
    BY <1>1, <2>3
  <2>4. QED
    BY <1>1, <2>1, <2>2, <2>3, PanesFails DEF Moves
<1>8. CASE Openings
  <2>1. PICK tasks, op : Opens(tasks, op) /\ PanesOwned(tasks)
    BY <1>8, OpeningIs
  <2>2. /\ tasks \in Seq(Tasks) /\ Prelude \in Seq(Tasks)
        /\ Follows(job'.todo, Prelude, tasks, 1)
        /\ 1 \in 1..(Len(tasks) + 1)
    BY <2>1, PreludeIs DEF Opens, Begun
  <2>3. \A i \in DOMAIN Prelude : Prelude[i][1] \notin Untidy
    BY PreludeIs DEF Untidy
  <2>4. QED
    BY <2>1, <2>2, <2>3, PanesFollows
<1>9. CASE Shutdown
  BY <1>9, ShutdownStep, NoCleanups
<1>10. CASE Crash
  <2>1. job'.todo = <<>>
    BY <1>10 DEF Crash, Down
  <2>2. QED
    BY <2>1 DEF PanesOwned
<1>11. QED
  BY <1>3, <1>4, <1>5, <1>6, <1>7, <1>8, <1>9, <1>10 DEF Other

LEMMA PanesKept ==
    ASSUME PanesOwned(job'.todo), facts.panes \subseteq facts'.panes,
           facts'.cleaning \subseteq facts'.panes
    PROVE  PanesInv'
BY DEF PanesOwned, PanesInv

LEMMA PanesNext ==
    ASSUME TypeInv, Shaped(job), PanesInv, [Next]_vars
    PROVE  PanesInv'
<1>1. /\ job \in Jobs /\ job.todo \in Seq(Tasks) /\ Len(job.todo) \in Nat
      /\ known \in BOOLEAN /\ facts \in FactRecords
      /\ DOMAIN job.todo = 1..Len(job.todo)
      /\ PanesOwned(job.todo) /\ facts.cleaning \subseteq facts.panes
  BY LenProperties DEF TypeInv, Jobs, PanesInv
<1>2. ASSUME PanesOwned(job'.todo), UNCHANGED facts
      PROVE  PanesInv'
  BY <1>1, <1>2, PanesKept
<1>3. CASE Begin
  <2>1. /\ BeginsOne \/ BeginsNone \/ BeginsLater
        /\ UNCHANGED facts
    BY <1>3, BeginIs
  <2>2. job.todo # <<>> /\ job.todo[1][1] = "begin"
    BY <1>1, <1>3, BeginHead
  <2>3. ASSUME NEW c \in {1, 6}, GoesOn(<<<<"outbox", 0>>>>, c)
        PROVE  PanesOwned(job'.todo)
    <3> DEFINE u == <<<<"outbox", 0>>>>
    <3>1. u \in Seq(Tasks) /\ \A i \in DOMAIN u : u[i][1] \notin Untidy
      BY OutboxIsBundle DEF Bundle, Script, Untidy
    <3>2. GoesOn(u, c)
      BY <2>3
    <3> HIDE DEF u
    <3>3. c \in 1..(Len(job.todo) + 1)
      BY <1>1, <2>2, ChainAt DEF Shaped
    <3>4. QED
      BY <1>1, <3>1, <3>2, <3>3, PanesGoes
  <2>4. \/ GoesOn(<<>>, 2) \/ Fails
        \/ \E c \in {1, 6} : GoesOn(<<<<"outbox", 0>>>>, c)
    BY <2>1 DEF BeginsOne, BeginsNone, BeginsLater
  <2>5. PanesOwned(job'.todo)
    BY <1>1, <2>2, <2>3, <2>4, PanesSteps DEF Steps
  <2>6. QED
    BY <1>2, <2>1, <2>5
<1>4. CASE ApplyPrivate \/ AppendRecord \/ Project \/ Acknowledge
  <2>1. Steps /\ job.todo # <<>>
    BY <1>1, <1>4, OnPendingSteps
  <2>2. UNCHANGED facts
    BY <1>4, ApplyIs, AppendIs, ProjectIs, AcknowledgeIs
  <2>3. QED
    BY <1>1, <1>2, <2>1, <2>2, PanesSteps
<1>5. CASE ReconcileOutbox
  <2>1. UNCHANGED facts /\ job.todo # <<>>
    BY <1>5, OutboxIs DEF HeadIn
  <2>2. CASE GoesOn(<<>>, 2)
    BY <1>1, <1>2, <2>1, <2>2, PanesSteps DEF Steps
  <2>3. CASE GoesOn(Resume, 2)
    <3>1. 2 \in 1..(Len(job.todo) + 1)
      BY <1>1, <2>1, EmptySeq
    <3>2. /\ Resume \in Seq(Tasks)
          /\ \A i \in DOMAIN Resume : Resume[i][1] \notin Untidy
      BY ResumeIs, PlainTidy
    <3>3. QED
      BY <1>1, <1>2, <2>1, <2>3, <3>1, <3>2, PanesGoes
  <2>4. QED
    BY <1>5, <2>2, <2>3, OutboxIs
<1>6. CASE ReleasePane
  BY <1>6, PanesReleased
<1>7. CASE Other /\ ~ReleasePane
  <2>1. PanesOwned(job'.todo) /\ FactsGo
    BY <1>1, <1>7, OtherOwned, OtherFactsGo
  <2>2. CASE CleanupIntent
    <3>1. facts' = [facts EXCEPT !.cleaning = @ \cup {Of}] \/ UNCHANGED facts
      BY <2>2 DEF CleanupIntent
    <3>2. /\ facts'.panes = facts.panes
          /\ facts'.cleaning \subseteq facts.cleaning \cup {Of}
      BY <1>1, <3>1 DEF FactRecords
    <3>3. Of \in facts.panes
      BY <1>1, <2>2, PanesCleanup
    <3>4. QED
      BY <1>1, <2>1, <3>2, <3>3, PanesKept
  <2>3. CASE ~CleanupIntent
    <3>1. /\ facts.panes \subseteq facts'.panes
          /\ facts'.cleaning = facts.cleaning
      BY <1>1, <1>7, <2>1, <2>3 DEF FactsGo, FactRecords
    <3>2. QED
      BY <1>1, <2>1, <3>1, PanesKept
  <2>4. QED
    BY <2>2, <2>3
<1>8. CASE UNCHANGED vars
  BY <1>2, <1>1, <1>8 DEF vars
<1>9. QED
  BY <1>3, <1>4, <1>5, <1>6, <1>7, <1>8, StepKinds DEF Other

-----------------------------------------------------------------------------
(* No record is lost or repeated.                                          *)

LEMMA Appended ==
    ASSUME events \in Seq(Recs), NEW r \in Recs, events' = Append(events, r)
    PROVE  /\ Len(events') = Len(events) + 1 /\ Len(events) \in Nat
           /\ DOMAIN events = 1..Len(events)
           /\ DOMAIN events' = 1..(Len(events) + 1)
           /\ \A k \in 1..Len(events) : events'[k] = events[k]
           /\ events'[Len(events) + 1] = r
BY AppendProperties, LenProperties

LEMMA AppendedPrefix ==
    ASSUME events \in Seq(Recs), NEW r \in Recs, events' = Append(events, r)
    PROVE  IsPrefix(events, events')
<1> DEFINE n == Len(events)
<1>1. /\ Len(events') = n + 1 /\ n \in Nat
      /\ \A k \in 1..n : events'[k] = events[k]
      /\ events' \in Seq(Recs)
  BY Appended, AppendProperties
<1>2. SubSeq(events, 1, n) = events
  BY SubSeqFull
<1>3. /\ SubSeq(events', 1, n) \in Seq(Recs)
      /\ Len(SubSeq(events', 1, n)) = n
      /\ \A i \in 1..n : SubSeq(events', 1, n)[i] = events'[i]
  <2>1. \A i \in 1..n : events'[i] \in Recs
    BY <1>1, ElementOfSeq
  <2> DEFINE s == SubSeq(events', 1, n)
  <2>2. /\ s \in Seq(Recs)
        /\ Len(s) = IF 1 <= n THEN n - 1 + 1 ELSE 0
        /\ \A i \in 1..(n - 1 + 1) : s[i] = events'[1 + i - 1]
    BY <1>1, <2>1, SubSeqProperties
  <2> HIDE DEF s
  <2>3. Len(s) = n
    BY <1>1, <2>2
  <2>4. \A i \in 1..n : s[i] = events'[i]
    BY <1>1, <2>2
  <2>5. QED
    BY <2>2, <2>3, <2>4 DEF s
<1>4. SubSeq(events', 1, n) = events
  BY <1>1, <1>3, SeqEqual
<1>5. n <= Len(events')
  BY <1>1
<1>6. QED
  BY <1>2, <1>4, <1>5 DEF IsPrefix

LEMMA AppendedOnce ==
    ASSUME events \in Seq(Recs), NEW r \in Recs, events' = Append(events, r),
           ~Contains(events, r), IsInjective(events)
    PROVE  IsInjective(events')
<1> DEFINE n == Len(events)
<1>1. /\ n \in Nat /\ DOMAIN events = 1..n /\ DOMAIN events' = 1..(n + 1)
      /\ \A k \in 1..n : events'[k] = events[k]
      /\ events'[n + 1] = r
  BY Appended
<1>2. \A k \in 1..n : events[k] # r
  BY DEF Contains
<1> HIDE DEF n
<1>3. \A k \in 1..(n + 1) : k \in 1..n \/ k = n + 1
  BY <1>1
<1>4. QED
  BY <1>1, <1>2, <1>3 DEF IsInjective

LEMMA PrefixOfItself ==
    ASSUME events \in Seq(Recs), UNCHANGED events
    PROVE  IsPrefix(events, events')
BY LenProperties DEF IsPrefix

LEMMA EventsStep ==
    ASSUME TypeInv, Shaped(job), PlaceInv, [Next]_vars
    PROVE  \/ UNCHANGED events
           \/ /\ AppendRecord
              /\ \E r \in Recs : /\ ~Contains(events, r)
                                 /\ events' = Append(events, r)
<1>1. CASE AppendRecord
  <2>1. outbox # <<>>
    BY <1>1, AppendIs, HeadKinds DEF PlaceInv
  <2>2. outbox[1].records \in Seq(Recs)
    BY <2>1, PendingIs
  <2>3. \A i \in DOMAIN outbox[1].records : outbox[1].records[i] \in Recs
    BY <2>2, ElementOfSeq, LenProperties
  <2>4. QED
    BY <1>1, <2>3, AppendIs
<1>2. CASE Begin \/ ApplyPrivate \/ Project \/ Acknowledge \/ ReconcileOutbox
           \/ Other
  BY <1>2, BeginIs, ApplyIs, ProjectIs, AcknowledgeIs, OutboxIs, OtherLeaves
<1>3. CASE UNCHANGED vars
  BY <1>3 DEF vars
<1>4. QED
  BY <1>1, <1>2, <1>3, StepKinds DEF Other

LEMMA EventsNext ==
    ASSUME TypeInv, Shaped(job), PlaceInv, IsInjective(events), [Next]_vars
    PROVE  IsPrefix(events, events') /\ IsInjective(events')
<1>1. events \in Seq(Recs)
  BY DEF TypeInv
<1>2. CASE UNCHANGED events
  BY <1>1, <1>2, PrefixOfItself
<1>3. ASSUME NEW r \in Recs, ~Contains(events, r),
             events' = Append(events, r)
      PROVE  IsPrefix(events, events') /\ IsInjective(events')
  BY <1>1, <1>3, AppendedPrefix, AppendedOnce
<1>4. QED
  BY <1>2, <1>3, EventsStep

-----------------------------------------------------------------------------
(* The theorems.                                                           *)

JournalInv == /\ TypeInv /\ Shaped(job) /\ PlaceInv /\ TornInv
              /\ PauseInv /\ EndedInv /\ FileInv /\ PanesInv
              /\ IsInjective(events)
              /\ SealIsFinal /\ TerminalIsSealed

LEMMA InitTyped ==
    ASSUME Init
    PROVE  TypeInv
<1> DEFINE r == <<"revision">>
           s == <<"started">>
<1>1. r \in Recs /\ s \in Recs
  BY DEF Recs, RunNames
<1>2. events = <<r, s>>
  BY DEF Init
<1> HIDE DEF r, s
<1>3. events \in Seq(Recs) /\ Len(events) = 2
  BY <1>1, <1>2
<1>4. cursor \in -1..Len(events) /\ seal \in Nat
  BY <1>3 DEF Init
<1>5. Empty \in ActMaps
  BY DEF Empty, ActMaps
<1>6. manifest \in Manifests
  BY <1>5 DEF Init, Manifests
<1>7. log \in Logs
  BY DEF Init, Logs
<1>8. facts \in FactRecords /\ facts.panes = {} /\ facts.cleaning = {}
  BY DEF Init, FactRecords
<1>9. IsFiniteSet(facts.panes) /\ IsFiniteSet(facts.cleaning)
  BY <1>8, FS_EmptySet
<1>10. outbox \in Seq(Transactions) /\ Len(outbox) <= 1
  BY DEF Init
<1>11. job \in Jobs
  BY DEF Init, Idle, Jobs, Ops
<1>12. /\ {torn, fragment, known} \subseteq BOOLEAN
       /\ public \in {"open", "sealed", "corrupt"}
  BY DEF Init
<1>13. QED
  BY <1>3, <1>4, <1>6, <1>7, <1>8, <1>9, <1>10, <1>11, <1>12 DEF TypeInv

LEMMA JournalInit ==
    ASSUME Init
    PROVE  JournalInv
<1>1. TypeInv
  BY InitTyped
<1>2. job.todo = <<>> /\ outbox = <<>>
  BY DEF Init, Idle
<1>3. Shaped(job)
  BY <1>2, EmptyIsPlain DEF Shaped
<1>4. PlaceInv /\ TornInv /\ PauseInv
  BY <1>2 DEF PlaceInv, HeadIn, TornInv, PauseInv, Init
<1>5. events[1] = <<"revision">> /\ events[2] = <<"started">>
      /\ DOMAIN events = 1..2 /\ Len(events) = 2
  BY DEF Init
<1>6. ~Contains(events, <<"ended">>)
  <2>1. \A i \in 1..2 : i = 1 \/ i = 2
    OBVIOUS
  <2>2. QED
    BY <1>5, <2>1 DEF Contains
<1>7. EndedInv /\ TerminalIsSealed
  BY <1>2, <1>6 DEF EndedInv, TerminalIsSealed, Terminal
<1>8. FileInv /\ PanesInv
  BY <1>2 DEF FileInv, FileFirst, Ordered, PanesInv, PanesOwned, Init
<1>9. SealIsFinal
  BY DEF SealIsFinal, Init
<1>10. IsInjective(events)
  BY <1>5 DEF IsInjective
<1>11. QED
  BY <1>1, <1>3, <1>4, <1>7, <1>8, <1>9, <1>10 DEF JournalInv

LEMMA JournalStep ==
    ASSUME JournalInv, [Next]_vars
    PROVE  JournalInv'
<1>1. TypeInv' /\ Shaped(job)'
  BY ShapedNext, TypeNext DEF JournalInv
<1>2. PlaceInv' /\ TornInv' /\ PauseInv' /\ EndedInv'
  BY PlaceNext, TornNext, PauseNext, EndedNext DEF JournalInv
<1>3. FileInv' /\ PanesInv' /\ IsInjective(events)'
  BY FileNext, PanesNext, EventsNext DEF JournalInv
<1>4. SealIsFinal' /\ TerminalIsSealed'
  BY SealNext, TerminalNext DEF JournalInv
<1>5. QED
  BY <1>1, <1>2, <1>3, <1>4 DEF JournalInv

LEMMA Invariant == Spec => []JournalInv
<1>1. Init => JournalInv
  BY JournalInit
<1>2. JournalInv /\ [Next]_vars => JournalInv'
  BY JournalStep
<1>3. QED
  BY <1>1, <1>2, PTL DEF Spec

\* Every variable of the journal and of the driver holds what the code's types
\* allow, no flow is revised without its file, and only panes the driver owns
\* are being cleaned up.
THEOREM TypeCorrect == Spec => []TypeOK
<1>1. JournalInv => TypeOK
  <2> SUFFICES ASSUME JournalInv
               PROVE  TypeOK
    OBVIOUS
  <2>1. seal \in 0..Len(events)
    BY LenProperties DEF JournalInv, TypeInv, SealIsFinal
  <2>2. /\ DOMAIN manifest.acts \subseteq Activations
        /\ \A a \in DOMAIN manifest.acts :
              manifest.acts[a] \in [preserved : BOOLEAN,
                                    cleanup : {"owned", "failed", "complete"}]
        /\ manifest.flow \in {"none", "prepared", "applied"}
    BY DEF JournalInv, TypeInv, Manifests, ActMaps, ActStates, Cleanness
  <2>3. log.revised => facts.file
    BY DEF JournalInv, FileInv
  <2>4. facts.cleaning \subseteq facts.panes
    BY DEF JournalInv, PanesInv
  <2>5. QED
    BY <2>1, <2>2, <2>3, <2>4
    DEF TypeOK, JournalInv, TypeInv, Logs, FactRecords
<1>2. QED
  BY <1>1, Invariant, PTL

\* Nothing is ever added to a sealed journal, and none is sealed with a torn
\* line, whatever failed or was taken up again.
THEOREM SealFinal == Spec => []SealIsFinal
<1>1. JournalInv => SealIsFinal
  BY DEF JournalInv
<1>2. QED
  BY <1>1, Invariant, PTL

\* The journal of a run that has ended and is cleaned up is sealed when nothing
\* is pending.
THEOREM TerminalSealed == Spec => []TerminalIsSealed
<1>1. JournalInv => TerminalIsSealed
  BY DEF JournalInv
<1>2. QED
  BY <1>1, Invariant, PTL

\* A committed record stays where it is, and none is committed twice.
THEOREM CommittedKept == Spec => CommittedStays
<1>1. JournalInv /\ [Next]_vars
        => [IsPrefix(events, events') /\ IsInjective(events')]_vars
  BY EventsNext DEF JournalInv
<1>2. QED
  BY <1>1, Invariant, PTL DEF Spec, CommittedStays

-----------------------------------------------------------------------------
(* What is owed is told before the run changes.                            *)

\* Tasks that commit to the log, and operations that change the run.
CommitTasks == {t \in Tasks : Commits(t)}
Changing == {"finish", "stop", "exit", "revise"}
Clear(s) == \A i \in DOMAIN s : s[i] \notin CommitTasks
OwedInFront(s) == Ordered(s, CommitTasks, {"owed"})

\* An operation goes on with other tasks, none of which commits, and does not
\* skip a look at what is owed.
Proceeds(t, c) ==
    /\ t \in Seq(Tasks) /\ c \in 1..(Len(job.todo) + 1) /\ GoesOn(t, c)
    /\ job.todo # <<>>
    /\ job.op # "load" => Clear(t)
    /\ \A k \in 1..(c - 1) : k > 1 => job.todo[k][1] # "owed"

LEMMA ClearOwes ==
    ASSUME NEW s, Clear(s)
    PROVE  OwedInFront(s)
BY DEF Clear, OwedInFront, Ordered

LEMMA PlainClear ==
    ASSUME NEW t, Plain(t)
    PROVE  Clear(t)
BY DEF Plain, Clear, CommitTasks

LEMMA ClearProceeds ==
    ASSUME job \in Jobs, job.todo # <<>>, NEW t \in Seq(Tasks), GoesOn(t, 2),
           job.op # "load" => Clear(t)
    PROVE  Proceeds(t, 2)
<1>1. 2 \in 1..(Len(job.todo) + 1)
  BY EmptySeq, LenProperties DEF Jobs
<1>2. \A k \in 1..(2 - 1) : ~(k > 1)
  OBVIOUS
<1>3. QED
  BY <1>1, <1>2 DEF Proceeds

LEMMA DoneProceeds ==
    ASSUME job \in Jobs, job.todo # <<>>, GoesOn(<<>>, 2)
    PROVE  Proceeds(<<>>, 2)
<1> DEFINE t == <<>>
<1>1. t \in Seq(Tasks) /\ Clear(t) /\ GoesOn(t, 2)
  BY DEF Clear
<1> HIDE DEF t
<1>2. Proceeds(t, 2)
  BY <1>1, ClearProceeds
<1>3. QED
  BY <1>2 DEF t

LEMMA FailsClear ==
    ASSUME job \in Jobs, Shaped(job), Fails
    PROVE  Clear(job'.todo)
<1>1. CASE job'.todo = <<>>
  BY <1>1 DEF Clear
<1>2. ASSUME NEW c \in 2..Len(job.todo), job.todo[c][1] = "cleanup",
             Follows(job'.todo, <<>>, job.todo, c)
      PROVE  Clear(job'.todo)
  <2> DEFINE s == job.todo
             r == job'.todo
  <2>1. /\ Len(s) \in Nat /\ DOMAIN s = 1..Len(s) /\ DOMAIN <<>> = {}
        /\ s[c][1] \in Late /\ CommitsFirst(s)
    BY <1>2 DEF Follows, Late, Shaped
  <2>2. c \in DOMAIN s
    BY <1>2, <2>1
  <2>3. ASSUME NEW i \in DOMAIN r, r[i] \in CommitTasks
        PROVE  FALSE
    <3>1. PICK k \in c..Len(s) : k \in DOMAIN s /\ r[i] = s[k]
      BY <1>2, <2>1 DEF Follows
    <3>2. Commits(s[k])
      BY <2>3, <3>1 DEF CommitTasks
    <3>3. k < c
      BY <2>1, <2>2, <3>1, <3>2 DEF CommitsFirst
    <3>4. QED
      BY <2>1, <3>1, <3>3
  <2>4. QED
    BY <2>3 DEF Clear
<1>3. QED
  BY <1>1, <1>2 DEF Fails

LEMMA ClearKept ==
    ASSUME NEW t, NEW c, Proceeds(t, c), job.op # "load", Clear(job.todo)
    PROVE  Clear(job'.todo)
BY DEF Proceeds, GoesOn, Follows, Clear

\* Once the operation has committed, or comes to what it does afterwards.
LEMMA ClearAfter ==
    ASSUME job \in Jobs, Shaped(job), NEW t, NEW c, Proceeds(t, c), c # 1,
           job.op # "load",
           Commits(job.todo[1]) \/ job.todo[1][1] \in Late
    PROVE  Clear(job'.todo)
<1> DEFINE s == job.todo
           r == job'.todo
<1>1. /\ Follows(r, t, s, c) /\ Clear(t) /\ CommitsFirst(s)
      /\ s \in Seq(Tasks) /\ s # <<>>
      /\ c \in 1..(Len(s) + 1)
  BY DEF Proceeds, GoesOn, Shaped, Jobs
<1>2. /\ Len(s) \in Nat /\ DOMAIN s = 1..Len(s) /\ 1 \in DOMAIN s
  BY <1>1, EmptySeq, LenProperties
<1>3. ASSUME NEW i \in DOMAIN r, r[i] \in CommitTasks
      PROVE  FALSE
  <2>1. PICK k \in c..Len(s) : k \in DOMAIN s /\ r[i] = s[k]
    BY <1>1, <1>3 DEF Follows, Clear
  <2>2. Commits(s[k])
    BY <1>3, <2>1 DEF CommitTasks
  <2>3. k > 1
    BY <1>1, <1>2, <2>1
  <2>4. k = 1 \/ k < 1
    BY <1>1, <1>2, <2>1, <2>2 DEF CommitsFirst
  <2>5. QED
    BY <1>2, <2>1, <2>3, <2>4
<1>4. QED
  BY <1>3 DEF Clear

LEMMA OwedKept ==
    ASSUME job \in Jobs, NEW t, NEW c, Proceeds(t, c), job.op # "load",
           OwedInFront(job.todo), job.todo[1][1] # "owed"
    PROVE  OwedInFront(job'.todo)
<1>1. /\ job.todo \in Seq(Tasks) /\ t \in Seq(Tasks)
      /\ c \in 1..(Len(job.todo) + 1)
      /\ Follows(job'.todo, t, job.todo, c)
      /\ Clear(t)
  BY DEF Jobs, Proceeds, GoesOn
<1>2. Ordered(t, CommitTasks, {"owed"})
  BY <1>1, ClearOwes DEF OwedInFront
<1>3. \A k \in 1..(c - 1) : job.todo[k][1] \notin {"owed"}
  <2>1. \A k \in 1..(c - 1) : k = 1 \/ k > 1
    OBVIOUS
  <2>2. QED
    BY <2>1 DEF Proceeds
<1>4. QED
  BY <1>1, <1>2, <1>3, OrderedFollows DEF OwedInFront

LEMMA OtherProceeds ==
    ASSUME TypeInv, Shaped(job),
           CleanupAll \/ CleanupIntent \/ KillPane \/ Suspend \/ Calm
    PROVE  Fails \/ UNCHANGED job \/ \E t, c : Proceeds(t, c)
<1>1. /\ job \in Jobs /\ facts \in FactRecords /\ job.todo \in Seq(Tasks)
      /\ Len(job.todo) \in Nat
  BY LenProperties DEF TypeInv, Jobs
<1>2. CASE CleanupAll
  <2>1. /\ job.todo # <<>>
        /\ \E panes \in SUBSET Activations :
              /\ IsFiniteSet(panes)
              /\ \E order \in SetToSeqs(panes) :
                    GoesOn(CleanupList(order), 2)
    BY <1>2, CleanupAllStep
  <2>2. PICK panes \in SUBSET Activations :
              /\ IsFiniteSet(panes)
              /\ \E order \in SetToSeqs(panes) :
                    GoesOn(CleanupList(order), 2)
    BY <2>1
  <2>3. PICK order \in SetToSeqs(panes) : GoesOn(CleanupList(order), 2)
    BY <2>2
  <2> DEFINE t == CleanupList(order)
  <2>4. t \in Seq(Tasks) /\ \A i \in DOMAIN t : t[i][1] = "cleanup"
    BY <2>2, CleanupListIs
  <2>5. GoesOn(t, 2)
    BY <2>3
  <2> HIDE DEF t
  <2>6. Clear(t)
    BY <2>4 DEF Clear, CommitTasks, Commits
  <2>7. QED
    BY <1>1, <2>1, <2>4, <2>5, <2>6, ClearProceeds
<1>3. CASE CleanupIntent
  <2> DEFINE t == CleanupOf(Of)
  <2>1. /\ job.todo # <<>> /\ Of \in Activations /\ (GoesOn(t, 2) \/ Fails)
    BY <1>1, <1>3, CleanupIntentStep
  <2>2. /\ t \in Seq(Tasks) /\ DOMAIN t = 1..4 /\ t[1] = <<"kill", Of>>
        /\ t[2] = <<"preserve", Of>> /\ t[3] = <<"clean", Of>>
        /\ t[4] = <<"release", Of>>
    BY <2>1, CleanupOfIs
  <2> HIDE DEF t
  <2>3. Clear(t)
    BY <2>2 DEF Clear, CommitTasks, Commits
  <2>4. QED
    BY <1>1, <2>1, <2>2, <2>3, ClearProceeds
<1>4. CASE KillPane
  <2>1. job.todo # <<>> /\ Of \in Activations
    BY <1>1, <1>4, KillPaneStep
  <2>2. CASE GoesOn(<<>>, 2)
    BY <1>1, <2>1, <2>2, DoneProceeds
  <2>3. CASE /\ 5 \in 1..(Len(job.todo) + 1) /\ GoesOn(GivenUp(Of), 5)
             /\ job.todo[2][1] = "preserve" /\ job.todo[3][1] = "clean"
             /\ job.todo[4][1] = "release"
    <3> DEFINE t == GivenUp(Of)
    <3>1. t \in Seq(Tasks) /\ Clear(t)
      BY <2>1, GivenUpIs, PlainClear DEF Bundle, Script
    <3>2. GoesOn(t, 5)
      BY <2>3
    <3> HIDE DEF t
    <3>3. \A k \in 1..(5 - 1) : k > 1 => k = 2 \/ k = 3 \/ k = 4
      OBVIOUS
    <3>4. \A k \in 1..(5 - 1) : k > 1 => job.todo[k][1] # "owed"
      BY <2>3, <3>3
    <3>5. Proceeds(t, 5)
      BY <2>1, <2>3, <3>1, <3>2, <3>4 DEF Proceeds
    <3>6. QED
      BY <3>5
  <2>4. QED
    BY <1>1, <1>4, <2>2, <2>3, KillPaneStep
<1>5. CASE Suspend
  <2>1. job.todo # <<>> /\ job.todo[1][1] = "suspend"
    BY <1>1, <1>5, SuspendStep
  <2>2. 1 \in DOMAIN job.todo
    BY <1>1, <2>1, EmptySeq
  <2>3. job.op = "load"
    BY <2>1, <2>2 DEF Shaped, OfOp
  <2>4. CASE GoesOn(<<>>, 2)
    BY <1>1, <2>1, <2>4, DoneProceeds
  <2>5. CASE GoesOn(Publish("pause", 0), 2)
    <3> DEFINE t == Publish("pause", 0)
    <3>1. t \in Seq(Tasks) /\ GoesOn(t, 2)
      BY <2>5, PublishIs DEF Publications, RunWhats
    <3> HIDE DEF t
    <3>2. QED
      BY <1>1, <2>1, <2>3, <3>1, ClearProceeds
  <2>6. QED
    BY <1>1, <1>5, <2>4, <2>5, SuspendStep
<1>6. CASE Calm
  <2>1. Moves /\ job.todo # <<>>
    BY <1>1, <1>6, CalmMoves
  <2>2. ASSUME NEW t, Bundle(t), GoesOn(t, 2)
        PROVE  Proceeds(t, 2)
    BY <1>1, <2>1, <2>2, PlainClear, ClearProceeds DEF Bundle, Script
  <2>3. QED
    BY <2>1, <2>2 DEF Moves
<1>7. QED
  BY <1>2, <1>3, <1>4, <1>5, <1>6

LEMMA BeginProceeds ==
    ASSUME TypeInv, Shaped(job), Begin
    PROVE  \/ BeginsOne /\ Proceeds(<<>>, 2)
           \/ Fails
           \/ BeginsLater /\ InLog(Of[1]) /\ HeadIn({"outbox"})'
                /\ (outbox[1].log = log \/ \E t : Proceeds(t, 6))
                /\ \E t, c : Proceeds(t, c)
<1>1. /\ job \in Jobs /\ job.todo \in Seq(Tasks) /\ job.todo # <<>>
      /\ job.todo[1][1] = "begin" /\ Linked(job.todo)
  BY BeginHead DEF TypeInv, Shaped
<1>2. CASE BeginsOne
  BY <1>1, <1>2, DoneProceeds DEF BeginsOne
<1>3. CASE BeginsNone \/ Fails
  BY <1>3 DEF BeginsNone
<1>4. ASSUME BeginsLater, NEW c \in {1, 6}, GoesOn(<<<<"outbox", 0>>>>, c)
      PROVE  HeadIn({"outbox"})' /\ \E t : Proceeds(t, c)
  <2> DEFINE u == <<<<"outbox", 0>>>>
  <2>1. /\ u \in Seq(Tasks) /\ Clear(u) /\ 1 \in DOMAIN u
        /\ u[1] = <<"outbox", 0>>
    BY OutboxIsBundle, PlainClear DEF Bundle, Script
  <2>2. GoesOn(u, c)
    BY <1>4
  <2> HIDE DEF u
  <2>3. 1 \in DOMAIN job'.todo /\ job'.todo[1] = <<"outbox", 0>>
    BY <2>1, <2>2 DEF GoesOn, Follows
  <2>4. job'.todo # <<>>
    BY <2>3
  <2>5. c \in 1..(Len(job.todo) + 1)
    BY <1>1, <1>4, ChainAt, EmptySeq, LenProperties
  <2>6. \A k \in 1..(c - 1) : k = 1 \/ k = 2 \/ k = 3 \/ k = 4 \/ k = 5
    BY <1>4
  <2>7. \A k \in 1..(c - 1) : job.todo[k][1] # "owed"
    BY <1>1, <2>6, ChainAt
  <2>8. Proceeds(u, c)
    BY <1>1, <2>1, <2>2, <2>5, <2>7 DEF Proceeds
  <2>9. QED
    BY <2>3, <2>4, <2>8 DEF HeadIn
<1>5. CASE BeginsLater /\ ~Fails
  BY <1>4, <1>5 DEF BeginsLater
<1>6. QED
  BY <1>2, <1>3, <1>5, BeginIs

LEMMA JobGoes ==
    ASSUME TypeInv, Shaped(job), [Next]_vars
    PROVE  \/ Openings \/ Shutdown \/ Crash \/ UNCHANGED job \/ Fails
           \/ \E t, c : Proceeds(t, c)
<1>1. job \in Jobs
  BY DEF TypeInv
<1>2. CASE Begin
  BY <1>2, BeginProceeds
<1>3. CASE ApplyPrivate \/ AppendRecord \/ Project \/ Acknowledge
  BY <1>1, <1>3, OnPendingSteps, DoneProceeds DEF Steps
<1>4. CASE ReconcileOutbox
  <2>1. job.todo # <<>> /\ (GoesOn(<<>>, 2) \/ GoesOn(Resume, 2))
    BY <1>4, OutboxIs DEF HeadIn
  <2>2. Resume \in Seq(Tasks) /\ Clear(Resume)
    BY ResumeIs, PlainClear
  <2>3. QED
    BY <1>1, <2>1, <2>2, DoneProceeds, ClearProceeds
<1>5. CASE UNCHANGED vars
  BY <1>5 DEF vars
<1>6. QED
  BY <1>2, <1>3, <1>4, <1>5, OtherProceeds, StepKinds

\* Whatever was published is in the journal.
HeardInv == /\ ledger \in Seq(Transactions)
            /\ \A e \in Published : Contains(events, e)

\* What the driver has on record is in the journal.
Told ==
    /\ \A a \in facts.bound :
          /\ Contains(events, <<"bound", a>>)
          /\ a \in log.exited => Contains(events, <<"left", a>>)
    /\ \A a \in facts.typed : Contains(events, <<"input", a>>)
    /\ known => Contains(events, <<"applied">>)

\* No change of the log is pending.
Settled == outbox # <<>> => outbox[1].log = log

LEMMA EventsGrow ==
    ASSUME TypeInv, Shaped(job), PlaceInv, [Next]_vars, NEW e,
           Contains(events, e)
    PROVE  Contains(events', e)
<1>1. events \in Seq(Recs)
  BY DEF TypeInv
<1>2. CASE UNCHANGED events
  BY <1>2
<1>3. ASSUME NEW r \in Recs, events' = Append(events, r)
      PROVE  Contains(events', e)
  BY <1>1, <1>3, Appended DEF Contains
<1>4. QED
  BY <1>2, <1>3, EventsStep

LEMMA Acknowledged ==
    ASSUME TypeInv, Shaped(job), PlaceInv, HeardInv, Acknowledge,
           outbox' = <<>>
    PROVE  HeardInv'
<1>1. /\ UNCHANGED events /\ HeadIn({"acknowledge"})
      /\ outbox # <<>> /\ Recorded
  BY AcknowledgeIs, HeadKinds DEF PlaceInv, HeadIn
<1> DEFINE o == outbox[1]
           n == Len(ledger)
<1>2. o \in Transactions /\ outbox = <<o>> /\ Len(outbox) = 1
  BY <1>1, PendingIs
<1>3. ledger' = ledger \o outbox
  BY <1>1, AcknowledgeIs
<1>4. ledger \in Seq(Transactions) /\ n \in Nat /\ DOMAIN ledger = 1..n
  BY LenProperties DEF HeardInv
<1>5. /\ ledger' \in Seq(Transactions) /\ DOMAIN ledger' = 1..(n + 1)
      /\ \A i \in 1..n : ledger'[i] = ledger[i]
      /\ ledger'[n + 1] = o
  <2>1. outbox \in Seq(Transactions) /\ outbox[1] = o
    BY DEF TypeInv
  <2> HIDE DEF o
  <2>2. /\ ledger' \in Seq(Transactions) /\ Len(ledger') = n + 1
        /\ \A i \in 1..(n + 1) :
              ledger'[i] = IF i <= n THEN ledger[i] ELSE outbox[i - n]
    BY <1>2, <1>3, <1>4, <2>1, ConcatProperties
  <2>3. DOMAIN ledger' = 1..(n + 1)
    BY <2>2, LenProperties
  <2>4. n + 1 \in 1..(n + 1) /\ ~(n + 1 <= n) /\ n + 1 - n = 1
    BY <1>4
  <2>5. ledger'[n + 1] = o
    BY <2>1, <2>2, <2>4
  <2>6. \A i \in 1..n : ledger'[i] = ledger[i]
    BY <1>4, <2>2
  <2>7. QED
    BY <2>2, <2>3, <2>5, <2>6
<1>6. ASSUME NEW e, e \in Published'
      PROVE  Contains(events, e)
  <2>1. PICK i \in 1..(n + 1) : e \in ToSet(ledger'[i].records)
    BY <1>5, <1>6 DEF Published
  <2>2. CASE i = n + 1
    <3>1. e \in ToSet(o.records)
      BY <1>5, <2>1, <2>2
    <3>2. QED
      BY <1>1, <3>1 DEF ToSet, Recorded
  <2>3. CASE i \in 1..n
    <3>1. e \in Published
      BY <1>4, <1>5, <2>1, <2>3 DEF Published
    <3>2. QED
      BY <3>1 DEF HeardInv
  <2>4. QED
    BY <1>4, <2>2, <2>3
<1>7. QED
  BY <1>1, <1>5, <1>6 DEF HeardInv

LEMMA HeardNext ==
    ASSUME TypeInv, Shaped(job), PlaceInv, HeardInv, [Next]_vars
    PROVE  HeardInv'
<1>1. CASE UNCHANGED ledger
  <2>1. ledger' \in Seq(Transactions) /\ Published' = Published
    BY <1>1 DEF HeardInv, Published
  <2>2. QED
    BY <2>1, EventsGrow DEF HeardInv
<1>2. CASE Acknowledge /\ outbox' = <<>>
  BY <1>2, Acknowledged
<1>3. CASE Other
  BY <1>1, <1>3, OtherLeaves
<1>4. CASE UNCHANGED vars
  BY <1>1, <1>4 DEF vars
<1>5. QED
  BY <1>1, <1>2, <1>3, <1>4, BeginIs, ApplyIs, AppendIs, ProjectIs,
     AcknowledgeIs, OutboxIs, StepKinds
  DEF Other

LEMMA NothingOwed ==
    ASSUME HeardInv, Owed = {}
    PROVE  Told
<1>1. \A a \in facts.bound : <<"bound", a>> \in Published
  BY DEF Owed
<1>2. \A a \in facts.bound \cap log.exited : <<"left", a>> \in Published
  BY DEF Owed
<1>3. \A a \in facts.typed : <<"input", a>> \in Published
  BY DEF Owed
<1>4. known => <<"applied">> \in Published
  BY DEF Owed
<1>5. QED
  BY <1>1, <1>2, <1>3, <1>4 DEF HeardInv, Told

\* How operations begin.
LEMMA OpeningOp ==
    ASSUME Openings
    PROVE  /\ job'.op \notin {"none", "down"} /\ UNCHANGED private
           /\ job'.op = "load" \/ (job = Idle /\ UNCHANGED known)
<1>1. ASSUME NEW op, NEW tasks, Request(op, tasks)
      PROVE  /\ job = Idle /\ job'.op = op /\ UNCHANGED <<private, known>>
  BY <1>1 DEF Request, memory
<1>2. CASE Load
  BY <1>2 DEF Load
<1> DEFINE Asks(op) == \E tasks : Request(op, tasks)
<1>3. ASSUME NEW op, Asks(op), op \notin {"none", "down"}
      PROVE  /\ job'.op \notin {"none", "down"} /\ UNCHANGED private
             /\ job = Idle /\ UNCHANGED known
  BY <1>1, <1>3
<1>4. ASSUME NEW a \in Activations,
             Activate(a) \/ Bind(a) \/ Hook(a) \/ Deliver(a) \/ Exit(a)
      PROVE  \/ Asks("activate") \/ Asks("bind") \/ Asks("hook")
             \/ Asks("deliver") \/ Asks("exit")
  BY <1>4 DEF Activate, Bind, Hook, Deliver, Exit
<1>5. CASE Revise \/ Rebind \/ Finish \/ StopRun
  <2>1. Asks("revise") \/ Asks("bind_run") \/ Asks("finish") \/ Asks("stop")
    BY <1>5 DEF Revise, Rebind, Finish, StopRun
  <2> HIDE DEF Asks
  <2>2. QED
    BY <1>3, <2>1
<1> HIDE DEF Asks
<1>6. QED
  BY <1>2, <1>3, <1>4, <1>5 DEF Openings

\* Bindings, inputs and a revised flow come on record with their tasks.
FactsHold == /\ facts'.bound = facts.bound /\ facts'.typed = facts.typed
             /\ UNCHANGED known

LEMMA FactsKept ==
    ASSUME TypeInv, Shaped(job), [Next]_vars
    PROVE  \/ FactsHold
           \/ job'.op = "load"
           \/ HeadIn({"bind", "type", "available"})
<1>1. facts \in FactRecords /\ job \in Jobs /\ known \in BOOLEAN
  BY DEF TypeInv
<1>2. CASE RecordBinding \/ TypeInput \/ PublishAvailable
  BY <1>1, <1>2, AtHead
  DEF RecordBinding, TypeInput, PublishAvailable, HeadIn
<1>3. CASE /\ CleanupAll \/ CleanupIntent \/ KillPane \/ Suspend \/ Calm
           /\ ~(RecordBinding \/ TypeInput \/ PublishAvailable)
  <2>1. UNCHANGED known
    BY <1>3
    DEF CleanupAll, CleanupIntent, KillPane, Suspend, Calm, Gate, PublishFlow,
        ReconcileObligations, PublishBinding, RepairProjections, Fail,
        Preserve, MarkClean, ReleasePane, AllocatePane, WriteRevision, memory
  <2>2. facts'.bound = facts.bound /\ facts'.typed = facts.typed
    BY <1>1, <1>3, OtherFactsGo DEF FactsGo, Other, FactRecords
  <2>3. QED
    BY <2>1, <2>2 DEF FactsHold
<1>4. CASE Begin \/ ApplyPrivate \/ AppendRecord \/ Project \/ Acknowledge
           \/ ReconcileOutbox
  BY <1>4, BeginIs, ApplyIs, AppendIs, ProjectIs, AcknowledgeIs, OutboxIs
  DEF FactsHold
<1>5. CASE Openings
  BY <1>5, OpeningOp DEF private, FactsHold
<1>6. CASE Shutdown \/ Crash
  BY <1>6 DEF Shutdown, Crash, private, memory, FactsHold
<1>7. CASE UNCHANGED vars
  BY <1>7 DEF vars, FactsHold
<1>8. QED
  BY <1>2, <1>3, <1>4, <1>5, <1>6, <1>7, StepKinds

LEMMA ToldKept ==
    ASSUME TypeInv, Shaped(job), PlaceInv, [Next]_vars, Told, FactsHold,
           UNCHANGED log
    PROVE  Told'
BY EventsGrow DEF Told, FactsHold

\* The log changes when the pending transaction takes effect.
LEMMA LogChanges ==
    ASSUME TypeInv, Shaped(job), PlaceInv, [Next]_vars
    PROVE  \/ UNCHANGED log
           \/ /\ outbox # <<>> /\ UNCHANGED outbox
              /\ log' = outbox[1].log
<1>1. CASE ApplyPrivate
  BY <1>1, ApplyIs, HeadKinds DEF PlaceInv
<1>2. CASE Other
  BY <1>2, OtherLeaves
<1>3. CASE UNCHANGED vars
  BY <1>3 DEF vars
<1>4. QED
  BY <1>1, <1>2, <1>3, BeginIs, AppendIs, ProjectIs, AcknowledgeIs, OutboxIs,
     StepKinds
  DEF Other

LEMMA SettledStep ==
    ASSUME TypeInv, Shaped(job), PlaceInv, [Next]_vars, Settled
    PROVE  /\ UNCHANGED log
           /\ Settled' \/ (Begin /\ BeginsOne /\ InLog(Of[1]))
<1>1. UNCHANGED log
  BY LogChanges DEF Settled
<1>2. CASE outbox' = <<>> \/ UNCHANGED outbox
  BY <1>1, <1>2 DEF Settled
<1>3. CASE Begin
  <2>1. CASE BeginsOne /\ ~InLog(Of[1])
    <3>1. Publishes(Transaction(Of[1], Of[2]), Of[1])
      BY <1>3, BeginHead, TransactionIs DEF TypeInv
    <3>2. QED
      BY <1>1, <2>1, <3>1 DEF BeginsOne, Publishes, Settled
  <2>2. QED
    BY <1>1, <1>2, <1>3, <2>1, BeginIs DEF BeginsNone, BeginsLater
<1>4. CASE Other
  BY <1>1, <1>2, <1>4, OtherLeaves
<1>5. CASE UNCHANGED vars
  BY <1>1, <1>2, <1>5 DEF vars
<1>6. QED
  BY <1>1, <1>2, <1>3, <1>4, <1>5, ApplyIs, AppendIs, ProjectIs,
     AcknowledgeIs, OutboxIs, StepKinds
  DEF Other

\* A change of the log that is pending is about to be taken up.
PendInv ==
    \/ Settled
    \/ HeadIn({"outbox", "private"})
    \/ job.todo = <<>>
    \/ job.op = "shutdown"
    \/ job.op = "stop" /\ Clear(job.todo)

\* Before an operation changes the log it looks at what is owed, or it has
\* looked and nothing came up since.
GateInv ==
    job.op \in Changing => OwedInFront(job.todo) \/ (Told /\ Settled)

\* A change that is pending was made when nothing was owed, or does not depend
\* on it.
OwedInv == Settled \/ Told \/ job.op \in {"down", "load", "shutdown"}

RestInv == job.op \in {"none", "down"} => job.todo = <<>>

\* The other steps of an operation.
OtherTasks == CleanupAll \/ CleanupIntent \/ KillPane \/ Suspend \/ Calm

LEMMA OtherHead ==
    ASSUME TypeInv, OtherTasks
    PROVE  /\ job.todo # <<>> /\ 1 \in DOMAIN job.todo
           /\ ~HeadIn({"outbox", "private"}) /\ Other
           /\ UNCHANGED <<log, outbox>>
<1>1. job \in Jobs /\ facts \in FactRecords
  BY DEF TypeInv
<1>2. Calm => job.todo # <<>> /\ ~HeadIn({"outbox", "private"})
  BY <1>1, CalmMoves DEF HeadIn, CalmTasks
<1>3. CleanupAll \/ CleanupIntent \/ KillPane \/ Suspend
        => \E n \in {"finalize", "cleanup", "kill", "suspend"} : At(n)
  BY DEF CleanupAll, CleanupIntent, KillPane, Suspend
<1>4. job.todo # <<>> /\ ~HeadIn({"outbox", "private"})
  BY <1>1, <1>2, <1>3, AtHead DEF OtherTasks, HeadIn
<1>5. 1 \in DOMAIN job.todo
  BY <1>1, <1>4, EmptySeq, LenProperties DEF Jobs
<1>6. Other
  BY DEF Other, OtherTasks
<1>7. QED
  BY <1>4, <1>5, <1>6, OtherLeaves

LEMMA KindsOfSteps ==
    ASSUME [Next]_vars
    PROVE  \/ Begin
           \/ ApplyPrivate \/ AppendRecord \/ Project \/ Acknowledge
           \/ ReconcileOutbox
           \/ OtherTasks
           \/ Openings \/ Shutdown \/ Crash
           \/ UNCHANGED vars
BY StepKinds DEF OtherTasks

LEMMA AppliedSettled ==
    ASSUME PlaceInv, HeadIn({"append", "project", "acknowledge"})
    PROVE  Settled
BY DEF PlaceInv, Applied, Settled

LEMMA AfterApplying ==
    ASSUME TypeInv, Shaped(job), PlaceInv,
           AppendRecord \/ Project \/ Acknowledge
    PROVE  Settled'
<1>1. UNCHANGED log /\ (outbox' = <<>> \/ UNCHANGED outbox)
  BY AppendIs, ProjectIs, AcknowledgeIs
<1>2. HeadIn({"append", "project", "acknowledge"})
  BY AppendIs, ProjectIs, AcknowledgeIs DEF HeadIn
<1>3. QED
  BY <1>1, <1>2, AppliedSettled DEF Settled

LEMMA PendNext ==
    ASSUME TypeInv, Shaped(job), PlaceInv, PendInv, [Next]_vars
    PROVE  PendInv'
<1>1. job \in Jobs
  BY DEF TypeInv
<1>2. ASSUME HeadIn({"outbox"})' \/ HeadIn({"private"})'
      PROVE  PendInv'
  BY <1>2 DEF PendInv, HeadIn
<1>3. ASSUME Fails
      PROVE  PendInv'
  BY <1>1, <1>3, FailsClear DEF Fails, PendInv
<1>4. CASE Begin
  BY <1>2, <1>3, <1>4, BeginProceeds DEF BeginsOne
<1>5. CASE ApplyPrivate
  <2>1. CASE log' = outbox[1].log /\ UNCHANGED outbox
    BY <2>1 DEF PendInv, Settled
  <2>2. QED
    BY <1>3, <1>5, <2>1, ApplyIs
<1>6. CASE AppendRecord \/ Project \/ Acknowledge
  BY <1>6, AfterApplying DEF PendInv
<1>7. CASE ReconcileOutbox
  <2>1. CASE outbox = <<>> /\ UNCHANGED outbox
    BY <2>1 DEF PendInv, Settled
  <2>2. QED
    BY <1>2, <1>7, <2>1, OutboxIs
<1>8. CASE Openings
  BY <1>2, <1>8, OpeningIs DEF Opens, HeadIn
<1>9. CASE Shutdown
  BY <1>9, ShutdownStep DEF PendInv
<1>10. CASE Crash
  BY <1>10 DEF Crash, Down, PendInv
<1>11. CASE OtherTasks
  <2>1. /\ job.todo # <<>> /\ ~HeadIn({"outbox", "private"})
        /\ UNCHANGED <<log, outbox>>
    BY <1>11, OtherHead
  <2>2. CASE Settled
    BY <2>1, <2>2 DEF Settled, PendInv
  <2>3. CASE /\ ~Settled
             /\ job.op = "shutdown" \/ (job.op = "stop" /\ Clear(job.todo))
    <3>1. CASE UNCHANGED job
      BY <2>3, <3>1 DEF PendInv
    <3>2. ASSUME NEW t, NEW c, Proceeds(t, c)
          PROVE  PendInv'
      <4>1. job'.todo = <<>> \/ job'.op = job.op
        BY <3>2 DEF Proceeds, GoesOn
      <4>2. CASE job.op = "shutdown"
        BY <4>1, <4>2 DEF PendInv
      <4>3. CASE job.op = "stop" /\ Clear(job.todo)
        BY <3>2, <4>1, <4>3, ClearKept DEF PendInv
      <4>4. QED
        BY <2>3, <4>2, <4>3
    <3>3. QED
      BY <1>3, <1>11, <3>1, <3>2, OtherProceeds DEF OtherTasks
  <2>4. QED
    BY <2>1, <2>2, <2>3 DEF PendInv
<1>12. CASE UNCHANGED vars
  BY <1>12 DEF vars, PendInv, Settled, HeadIn, Clear
<1>13. QED
  BY <1>4, <1>5, <1>6, <1>7, <1>8, <1>9, <1>10, <1>11, <1>12, KindsOfSteps

LEMMA RestNext ==
    ASSUME TypeInv, Shaped(job), RestInv, [Next]_vars
    PROVE  RestInv'
<1>1. CASE Openings
  BY <1>1, OpeningOp DEF RestInv
<1>2. CASE Shutdown
  BY <1>2, ShutdownStep DEF RestInv
<1>3. CASE Crash
  BY <1>3 DEF Crash, Down, RestInv
<1>4. CASE Fails \/ UNCHANGED job
  BY <1>4 DEF Fails, RestInv
<1>5. ASSUME NEW t, NEW c, Proceeds(t, c)
      PROVE  RestInv'
  BY <1>5 DEF Proceeds, GoesOn, RestInv
<1>6. QED
  BY <1>1, <1>2, <1>3, <1>4, <1>5, JobGoes

\* A commit at the head of an operation that changes the run finds all told.
LEMMA CommitTold ==
    ASSUME TypeInv, Shaped(job), GateInv, Begin, InLog(Of[1]),
           job.op \notin {"load", "shutdown"}
    PROVE  Told
<1>1. /\ job.todo \in Seq(Tasks) /\ job.todo # <<>>
      /\ job.todo[1][1] = "begin" /\ job.todo[1][2] = Of
  BY BeginHead DEF TypeInv
<1>2. 1 \in DOMAIN job.todo /\ job.todo[1] \in Tasks
  BY <1>1, EmptySeq, LenProperties, ElementOfSeq
<1>3. job.todo[1] \in CommitTasks
  BY <1>1, <1>2 DEF CommitTasks, Commits
<1>4. OfOp(job.todo[1], job.op)
  BY <1>2 DEF Shaped
<1>5. job.op \in Changing
  BY <1>1, <1>4 DEF OfOp, InLog, Changing
<1>6. ~OwedInFront(job.todo)
  <2>1. ~Before(job.todo, 1, {"owed"})
    BY DEF Before
  <2>2. QED
    BY <1>2, <1>3, <2>1 DEF OwedInFront, Ordered
<1>7. QED
  BY <1>5, <1>6 DEF GateInv

\* An operation that may leave a change pending whatever is owed stays one.
LEMMA UntoldOp ==
    ASSUME TypeInv, Shaped(job), PlaceInv, PendInv, RestInv, [Next]_vars,
           ~Settled, ~Settled', job.op \in {"down", "load", "shutdown"}
    PROVE  job'.op \in {"down", "load", "shutdown"}
<1>1. job \in Jobs /\ outbox # <<>>
  BY DEF TypeInv, Settled
<1>2. ASSUME Fails, job.todo # <<>>
      PROVE  job'.op \in {"down", "load", "shutdown"}
  BY <1>2 DEF Fails, RestInv
<1>3. CASE Begin
  <2>1. CASE Fails
    BY <1>1, <1>2, <1>3, <2>1, BeginHead
  <2>2. ASSUME HeadIn({"outbox"})', NEW t, NEW c, Proceeds(t, c)
        PROVE  job'.op = job.op
    BY <2>2 DEF Proceeds, GoesOn, HeadIn
  <2>3. QED
    BY <1>1, <1>3, <2>1, <2>2, BeginProceeds DEF BeginsOne
<1>4. CASE ApplyPrivate
  <2>1. ~(log' = outbox[1].log /\ UNCHANGED outbox)
    BY DEF Settled
  <2>2. QED
    BY <1>2, <1>4, <2>1, ApplyIs DEF HeadIn
<1>5. CASE AppendRecord \/ Project \/ Acknowledge
  BY <1>5, AfterApplying
<1>6. CASE ReconcileOutbox
  <2>1. GoesOn(Resume, 2) /\ HeadIn({"private"})'
    BY <1>1, <1>6, OutboxIs
  <2>2. QED
    BY <2>1 DEF GoesOn, HeadIn
<1>7. CASE Openings
  BY <1>7, OpeningOp DEF Idle
<1>8. CASE Shutdown
  BY <1>8, ShutdownStep
<1>9. CASE Crash
  BY <1>9 DEF Crash, Down
<1>10. CASE OtherTasks
  <2>1. job.todo # <<>> /\ job.op = "shutdown"
    BY <1>10, OtherHead DEF PendInv
  <2>2. ASSUME NEW t, NEW c, Proceeds(t, c)
        PROVE  job'.op \in {"down", "load", "shutdown"}
    BY <2>1, <2>2 DEF Proceeds, GoesOn
  <2>3. QED
    BY <1>2, <1>10, <2>1, <2>2, OtherProceeds DEF OtherTasks
<1>11. CASE UNCHANGED vars
  BY <1>11 DEF vars
<1>12. QED
  BY <1>3, <1>4, <1>5, <1>6, <1>7, <1>8, <1>9, <1>10, <1>11, KindsOfSteps

LEMMA OwedNext ==
    ASSUME TypeInv, Shaped(job), PlaceInv, PendInv, RestInv, GateInv, OwedInv,
           [Next]_vars
    PROVE  OwedInv'
<1>1. job \in Jobs
  BY DEF TypeInv
<1>2. SUFFICES ASSUME ~Settled', job'.op # "load"
               PROVE  Told' \/ job'.op \in {"down", "shutdown"}
  BY DEF OwedInv
<1>3. CASE Settled
  <2>1. Begin /\ BeginsOne /\ InLog(Of[1]) /\ UNCHANGED log
    BY <1>2, <1>3, SettledStep
  <2>2. job'.op = job.op
    BY <2>1 DEF BeginsOne, GoesOn, HeadIn
  <2>3. CASE job.op = "shutdown"
    BY <2>2, <2>3
  <2>4. CASE job.op # "shutdown"
    <3>1. Told
      BY <1>2, <2>1, <2>2, <2>4, CommitTold
    <3>2. FactsHold
      BY <2>1, BeginIs DEF FactsHold
    <3>3. QED
      BY <2>1, <3>1, <3>2, ToldKept
  <2>5. QED
    BY <2>3, <2>4
<1>4. CASE ~Settled /\ job.op \in {"down", "load", "shutdown"}
  BY <1>2, <1>4, UntoldOp
<1>5. CASE ~Settled /\ Told
  <2>1. UNCHANGED log
    <3>1. ~(log' = outbox[1].log /\ UNCHANGED outbox)
      BY <1>2 DEF Settled
    <3>2. QED
      BY <3>1, LogChanges
  <2>2. ~HeadIn({"bind", "type", "available"})
    <3>1. SUFFICES ASSUME HeadIn({"bind", "type", "available"})
                   PROVE  FALSE
      OBVIOUS
    <3>2. job.op \in {"shutdown", "stop"}
      BY <1>5, <3>1 DEF PendInv, HeadIn
    <3>3. 1 \in DOMAIN job.todo
      BY <1>1, <3>1, EmptySeq, LenProperties DEF Jobs, HeadIn
    <3>4. QED
      BY <3>1, <3>2, <3>3 DEF Shaped, OfOp, HeadIn
  <2>3. QED
    BY <1>2, <1>5, <2>1, <2>2, FactsKept, ToldKept
<1>6. QED
  BY <1>3, <1>4, <1>5 DEF OwedInv

LEMMA OwedStep ==
    ASSUME TypeInv, Shaped(job), ReconcileObligations
    PROVE  /\ UNCHANGED <<events, log, facts, outbox, known>>
           /\ HeadIn({"owed"})
           /\ \/ Owed = {} /\ Proceeds(<<>>, 2)
              \/ \E t : /\ Proceeds(t, 2) /\ Clear(t)
                        /\ \E k \in DOMAIN t : t[k][1] = "owed"
<1>1. job \in Jobs /\ facts \in FactRecords /\ job.todo # <<>>
  BY AtHead DEF TypeInv, ReconcileObligations
<1>2. HeadIn({"owed"}) /\ UNCHANGED <<events, log, facts, outbox, known>>
  BY <1>1, AtHead
  DEF ReconcileObligations, HeadIn, disk, private, memory
<1> DEFINE o == <<<<"owed", 0>>>>
<1>3. Bundle(o) /\ o \in Seq(Tasks) /\ 1 \in DOMAIN o /\ o[1][1] = "owed"
  <2>1. <<"owed", 0>> \in Tasks
    BY DEF Tasks, RunTasks
  <2>2. QED
    BY <2>1, BundleOne DEF PlainTasks, Sources, Targets
<1>4. o = <<Step("owed")>>
  BY DEF Step
<1> HIDE DEF o
<1>5. ASSUME NEW u, Bundle(u), Push(u \o o)
      PROVE  \E t : /\ Proceeds(t, 2) /\ Clear(t)
                    /\ \E k \in DOMAIN t : t[k][1] = "owed"
  <2> DEFINE t == u \o o
  <2>1. Bundle(t) /\ t \in Seq(Tasks) /\ Follows(t, u, o, 1)
    BY <1>3, <1>5, BundleConcat, ConcatFollows DEF Bundle, Script
  <2>2. Push(t)
    BY <1>5
  <2> HIDE DEF t
  <2>3. Clear(t) /\ Proceeds(t, 2)
    BY <1>1, <2>1, <2>2, PlainClear, PushStep, ClearProceeds DEF Bundle
  <2>4. \E k \in DOMAIN t : t[k][1] = "owed"
    <3>1. Len(o) >= 1
      BY <1>3, LenProperties
    <3>2. 1 \in 1..Len(o)
      BY <1>3, <3>1, LenProperties
    <3>3. 1 + Len(u) + 1 - 1 \in DOMAIN t /\ t[1 + Len(u) + 1 - 1] = o[1]
      BY <2>1, <3>2 DEF Follows
    <3>4. QED
      BY <1>3, <3>3
  <2>5. QED
    BY <2>3, <2>4
<1>6. CASE Owed = {} /\ Next1
  BY <1>1, <1>2, <1>6, Next1Step, DoneProceeds
<1>7. CASE Push(<<Step("revision"), Step("owed")>>)
  <2> DEFINE u == <<<<"revision", 0>>>>
  <2>1. <<"revision", 0>> \in Tasks
    BY DEF Tasks, RunTasks
  <2>2. Bundle(u)
    BY <2>1, BundleOne DEF PlainTasks, Sources, Targets
  <2>3. <<Step("revision"), Step("owed")>> = u \o o
    BY DEF Step, o
  <2> HIDE DEF u
  <2>4. QED
    BY <1>2, <1>5, <1>7, <2>2, <2>3
<1>8. ASSUME NEW r \in Due, <<"applied">> \notin Owed,
             Push((IF r[1] = "bound" THEN <<Task("bound", r[2])>>
                   ELSE Publish(r[1], r[2])) \o <<Step("owed")>>)
      PROVE  \E t : /\ Proceeds(t, 2) /\ Clear(t)
                    /\ \E k \in DOMAIN t : t[k][1] = "owed"
  <2> DEFINE u == IF r[1] = "bound" THEN <<Task("bound", r[2])>>
                  ELSE Publish(r[1], r[2])
  <2>1. r \in {"bound", "left", "input"} \X Activations
    BY <1>1, <1>8, DueIs
  <2>2. r[1] = "bound" => Bundle(u)
    <3>1. <<"bound", r[2]>> \in Tasks
      BY <2>1 DEF Tasks, ActTasks
    <3>2. Bundle(<<<<"bound", r[2]>>>>)
      BY <3>1, BundleOne DEF PlainTasks, Sources, Targets
    <3>3. QED
      BY <3>2 DEF Task
  <2>3. r[1] # "bound" => Bundle(u)
    <3>1. <<r[1], r[2]>> \in Publications /\ ~InLog(r[1])
      BY <2>1 DEF Publications, ActWhats, InLog
    <3>2. QED
      BY <3>1, BundlePublish
  <2>4. Push(u \o o)
    BY <1>4, <1>8
  <2> HIDE DEF u
  <2>5. QED
    BY <1>5, <2>2, <2>3, <2>4
<1>9. QED
  BY <1>2, <1>6, <1>7, <1>8 DEF ReconcileObligations

\* Only one action looks at what is owed.
LEMMA OwedAction ==
    ASSUME job \in Jobs, [Next]_vars, HeadIn({"owed"})
    PROVE  \/ ReconcileObligations
           \/ Openings \/ Shutdown \/ Crash \/ UNCHANGED vars
<1>1. CASE Begin \/ ApplyPrivate \/ AppendRecord \/ Project \/ Acknowledge
           \/ ReconcileOutbox \/ Gate
  <2>1. \E n \in {"begin", "private", "append", "project", "acknowledge",
                  "outbox", "gate"} : At(n)
    BY <1>1
    DEF Begin, ApplyPrivate, AppendRecord, Project, Acknowledge,
        ReconcileOutbox, Gate
  <2>2. QED
    BY <2>1, AtHead DEF HeadIn
<1>2. CASE RepairProjections \/ CleanupAll \/ CleanupIntent \/ KillPane
           \/ Fail \/ Preserve \/ MarkClean \/ ReleasePane \/ AllocatePane
  <2>1. \E n \in {"repair", "finalize", "cleanup", "kill", "fail", "preserve",
                  "clean", "release", "allocate"} : At(n)
    BY <1>2
    DEF RepairProjections, CleanupAll, CleanupIntent, KillPane, Fail,
        Preserve, MarkClean, ReleasePane, AllocatePane
  <2>2. QED
    BY <2>1, AtHead DEF HeadIn
<1>3. CASE RecordBinding \/ Suspend \/ PublishFlow \/ TypeInput
           \/ PublishBinding \/ WriteRevision \/ PublishAvailable
  <2>1. \E n \in {"bind", "suspend", "revision", "type", "bound", "file",
                  "available"} : At(n)
    BY <1>3
    DEF RecordBinding, Suspend, PublishFlow, TypeInput, PublishBinding,
        WriteRevision, PublishAvailable
  <2>2. QED
    BY <2>1, AtHead DEF HeadIn
<1>4. QED
  BY <1>1, <1>2, <1>3 DEF Next, Working, Openings

LEMMA LateClear ==
    ASSUME job \in Jobs, Shaped(job), HeadIn(Late)
    PROVE  Clear(job.todo)
<1>1. DOMAIN job.todo = 1..Len(job.todo) /\ Len(job.todo) \in Nat
      /\ 1 \in DOMAIN job.todo
  BY EmptySeq, LenProperties DEF Jobs, HeadIn
<1>2. ASSUME NEW i \in DOMAIN job.todo, Commits(job.todo[i])
      PROVE  i < 1
  BY <1>1, <1>2 DEF Shaped, CommitsFirst, HeadIn
<1>3. QED
  BY <1>1, <1>2 DEF Clear, CommitTasks

LEMMA OpeningOwes ==
    ASSUME Openings
    PROVE  OwedInFront(job'.todo)
<1>1. PICK tasks, op : Opens(tasks, op)
  BY OpeningIs
<1>2. /\ tasks \in Seq(Tasks) /\ Prelude \in Seq(Tasks)
      /\ Follows(job'.todo, Prelude, tasks, 1) /\ 1 \in 1..(Len(tasks) + 1)
  BY <1>1, PreludeIs DEF Opens, Begun
<1>3. Ordered(Prelude, CommitTasks, {"owed"})
  BY PreludeIs DEF Early, CommitTasks, Ordered
<1>4. 3 \in DOMAIN Prelude /\ Prelude[3][1] \in {"owed"}
  BY PreludeIs
<1>5. QED
  BY <1>2, <1>3, <1>4, OrderedFollows DEF OwedInFront

LEMMA GateNext ==
    ASSUME TypeInv, Shaped(job), PlaceInv, HeardInv, PendInv, GateInv,
           [Next]_vars
    PROVE  GateInv'
<1>1. job \in Jobs
  BY DEF TypeInv
<1>2. SUFFICES ASSUME job'.op \in Changing
               PROVE  OwedInFront(job'.todo) \/ (Told' /\ Settled')
  BY DEF GateInv
<1>3. CASE Openings
  BY <1>3, OpeningOwes
<1>4. CASE Shutdown \/ Crash
  BY <1>2, <1>4, ShutdownStep DEF Crash, Down, Changing
<1>5. CASE Fails
  BY <1>1, <1>5, FailsClear, ClearOwes
<1>6. CASE ~Openings /\ ~Shutdown /\ ~Crash /\ ~Fails
  <2>1. UNCHANGED job \/ \E t, c : Proceeds(t, c)
    BY <1>6, JobGoes
  <2>2. job.op = job'.op
    BY <1>2, <2>1 DEF Proceeds, GoesOn, Changing
  <2>3. job.op \in Changing /\ job.op # "load" /\ job.op # "shutdown"
    BY <1>2, <2>2 DEF Changing
  <2>4. Clear(job.todo) => OwedInFront(job'.todo)
    BY <2>1, <2>3, ClearKept, ClearOwes
  <2>5. CASE ReconcileObligations
    <3>1. CASE Owed = {}
      <4>1. Told
        BY <3>1, NothingOwed
      <4>2. Settled \/ Clear(job.todo)
        BY <2>3, <2>5, OwedStep DEF PendInv, HeadIn
      <4>3. Settled => Told' /\ Settled'
        BY <2>5, <4>1, OwedStep DEF Told, Settled
      <4>4. QED
        BY <2>4, <4>2, <4>3
    <3>2. ASSUME NEW t, Proceeds(t, 2), Clear(t),
                 \E k \in DOMAIN t : t[k][1] = "owed"
          PROVE  OwedInFront(job'.todo)
      <4>1. /\ job.todo \in Seq(Tasks) /\ t \in Seq(Tasks)
            /\ 2 \in 1..(Len(job.todo) + 1)
            /\ Follows(job'.todo, t, job.todo, 2)
        BY <1>1, <3>2 DEF Jobs, Proceeds, GoesOn
      <4>2. Ordered(t, CommitTasks, {"owed"})
        BY <3>2, ClearOwes DEF OwedInFront
      <4>3. \E k \in DOMAIN t : t[k][1] \in {"owed"}
        BY <3>2
      <4>4. QED
        BY <4>1, <4>2, <4>3, OrderedFollows DEF OwedInFront
    <3>3. QED
      BY <2>5, <3>1, <3>2, OwedStep
  <2>6. CASE ~ReconcileObligations /\ OwedInFront(job.todo)
    <3>1. CASE UNCHANGED job
      BY <2>6, <3>1
    <3>2. ASSUME NEW t, NEW c, Proceeds(t, c), ~UNCHANGED job
          PROVE  OwedInFront(job'.todo)
      <4>1. job.todo # <<>> /\ ~HeadIn({"owed"})
        BY <1>1, <1>6, <2>6, <3>2, OwedAction DEF Proceeds, vars
      <4>2. job.todo[1][1] # "owed"
        BY <4>1 DEF HeadIn
      <4>3. QED
        BY <1>1, <2>3, <2>6, <3>2, <4>2, OwedKept
    <3>3. QED
      BY <2>1, <3>1, <3>2
  <2>7. CASE Told /\ Settled
    <3>1. CASE Begin /\ BeginsOne /\ InLog(Of[1])
      <4>1. Proceeds(<<>>, 2)
        BY <1>1, <3>1, BeginHead, DoneProceeds DEF BeginsOne
      <4>2. Commits(job.todo[1])
        BY <1>1, <3>1, BeginHead DEF Commits
      <4>3. 2 # 1
        OBVIOUS
      <4>4. QED
        BY <1>1, <2>3, <4>1, <4>2, <4>3, ClearAfter, ClearOwes
    <3>2. CASE ~(Begin /\ BeginsOne /\ InLog(Of[1]))
      <4>1. Settled' /\ UNCHANGED log
        BY <2>7, <3>2, SettledStep
      <4>2. CASE FactsHold
        BY <2>7, <4>1, <4>2, ToldKept
      <4>3. CASE HeadIn({"bind", "type", "available"})
        <5>1. 1 \in DOMAIN job.todo
          BY <1>1, <4>3, EmptySeq, LenProperties DEF Jobs, HeadIn
        <5>2. OfOp(job.todo[1], job.op)
          BY <5>1 DEF Shaped
        <5>3. job.todo[1][1] = "available"
          BY <2>3, <4>3, <5>2 DEF HeadIn, OfOp, Changing
        <5>4. HeadIn(Late)
          BY <4>3, <5>3 DEF HeadIn, Late
        <5>5. QED
          BY <1>1, <2>4, <5>4, LateClear
      <4>4. QED
        BY <2>2, <2>3, <4>2, <4>3, FactsKept
    <3>3. QED
      BY <3>1, <3>2
  <2>8. QED
    BY <2>3, <2>5, <2>6, <2>7 DEF GateInv
<1>7. QED
  BY <1>3, <1>4, <1>5, <1>6

\* What a commit to the log depends on.
CommitInv == HeardInv /\ PendInv /\ GateInv /\ OwedInv /\ RestInv

LEMMA CommitInit ==
    ASSUME Init
    PROVE  CommitInv
<1>1. outbox = <<>> /\ job.todo = <<>>
  BY DEF Init, Idle
<1>2. PendInv /\ OwedInv /\ RestInv /\ GateInv
  BY <1>1 DEF PendInv, OwedInv, RestInv, Settled, GateInv, OwedInFront, Ordered
<1> DEFINE r == <<"revision">>
           s == <<"started">>
           t == Publishing(manifest, log, <<r>>)
           u == Publishing(manifest, log, <<s>>)
<1>3. /\ r \in Recs /\ s \in Recs /\ manifest \in Manifests /\ log \in Logs
  BY InitTyped DEF TypeInv, Recs, RunNames
<1>4. events = <<r, s>> /\ ledger = <<t, u>>
  BY DEF Init
<1> HIDE DEF r, s
<1>5. /\ t \in Transactions /\ t.records = <<r>>
      /\ u \in Transactions /\ u.records = <<s>>
  BY <1>3 DEF Publishing, Transactions
<1>6. ToSet(t.records) = {r} /\ ToSet(u.records) = {s}
  BY <1>5 DEF ToSet
<1> HIDE DEF t, u
<1>7. /\ ledger \in Seq(Transactions) /\ DOMAIN ledger = 1..2
      /\ ledger[1] = t /\ ledger[2] = u
  BY <1>4, <1>5
<1>8. \A i \in 1..2 : i = 1 \/ i = 2
  OBVIOUS
<1>9. \A e \in Published : e = r \/ e = s
  BY <1>6, <1>7, <1>8 DEF Published
<1>10. Contains(events, r) /\ Contains(events, s)
  <2>1. 1 \in 1..Len(events) /\ events[1] = r
    BY <1>4
  <2>2. 2 \in 1..Len(events) /\ events[2] = s
    BY <1>4
  <2>3. QED
    BY <2>1, <2>2 DEF Contains
<1>11. HeardInv
  BY <1>7, <1>9, <1>10 DEF HeardInv
<1>12. QED
  BY <1>2, <1>11 DEF CommitInv

LEMMA CommitStep ==
    ASSUME JournalInv, CommitInv, [Next]_vars
    PROVE  CommitInv'
<1>1. TypeInv /\ Shaped(job) /\ PlaceInv
  BY DEF JournalInv
<1>2. HeardInv' /\ PendInv' /\ GateInv'
  BY <1>1, HeardNext, PendNext, GateNext DEF CommitInv
<1>3. OwedInv' /\ RestInv'
  BY <1>1, OwedNext, RestNext DEF CommitInv
<1>4. QED
  BY <1>2, <1>3 DEF CommitInv

\* An operation that changes the run changes the log when all is told.
LEMMA ChangesTold ==
    ASSUME JournalInv, CommitInv, [Next]_vars, log' # log,
           job.op \in Changing
    PROVE  Told
<1>1. TypeInv /\ Shaped(job) /\ PlaceInv
  BY DEF JournalInv
<1>2. ~Settled
  BY <1>1, LogChanges DEF Settled
<1>3. QED
  BY <1>2 DEF CommitInv, OwedInv, Changing

\* Nobody changes the run while a fact the driver has on record is missing from
\* the journal, whatever failed before and whichever change was left pending.
THEOREM OwedAreTold == Spec => OwedFirst
<1> DEFINE P == log' # log /\ job.op \in {"finish", "stop", "exit", "revise"}
                  => /\ \A a \in facts.bound :
                           /\ Contains(events, <<"bound", a>>)
                           /\ a \in log.exited
                                => Contains(events, <<"left", a>>)
                     /\ \A a \in facts.typed : Contains(events, <<"input", a>>)
                     /\ known => Contains(events, <<"applied">>)
<1>1. JournalInv /\ CommitInv /\ [Next]_vars => [P]_vars
  BY ChangesTold DEF Changing, Told
<1>2. Init => CommitInv
  BY CommitInit
<1>3. JournalInv /\ CommitInv /\ [Next]_vars => CommitInv'
  BY CommitStep
<1> HIDE DEF P
<1>4. Spec => [][P]_vars
  BY <1>1, <1>2, <1>3, Invariant, PTL DEF Spec
<1>5. QED
  BY <1>4 DEF OwedFirst, P
=============================================================================
