---------------------------- MODULE AttachProofs ----------------------------
(***************************************************************************)
(* Theorems of Attach, for any number of servers, drivers and tokens.      *)
(***************************************************************************)
EXTENDS Attach, TLAPS

-----------------------------------------------------------------------------
(* What a step does to the servers and the drivers.                        *)

Thens == {"none", "token", "ready", "drop", "kill", "idle"}
ServerRecords ==
    [at : ServerAt, locked : BOOLEAN, then : Thens,
     driver : Drivers \cup {0}, owned : Drivers \cup {0},
     token : Tokens \cup {0}]
DriverRecords == [at : DriverAt, token : Tokens \cup {0}, asked : BOOLEAN,
                  prior : Drivers \cup {0}]

ServersTyped == servers \in [Servers -> ServerRecords]
DriversTyped == drivers \in [Drivers -> DriverRecords]
FilesTyped == /\ token \in Tokens \cup {0}
              /\ {sock, operator} \subseteq Drivers \cup {0}
              /\ {ipc, manifest, bound, fresh, left} \subseteq BOOLEAN

Cleanups == {"stale", "unlink", "files"}
AfterCleanup == {"token", "ready", "drop", "idle"}

\* A cleanup knows what comes after it, without which its last step would send
\* the server to a place there is not.
CleanupGoesOn ==
    \A s \in Servers : servers[s].at \in Cleanups
                          => servers[s].then \in AfterCleanup

TypeInv == FilesTyped /\ DriversTyped /\ ServersTyped /\ CleanupGoesOn

\* Server s moves on: it takes the lock only if that is free, and the others
\* stay where they are.
Turns(s) ==
    /\ ServersTyped'
    /\ servers'[s].at \in Cleanups => servers'[s].then \in AfterCleanup
    /\ servers'[s].locked => servers[s].locked \/ LockFree
    /\ \A t \in Servers \ {s} :
          /\ servers'[t].at = servers[t].at
          /\ servers'[t].then = servers[t].then
          /\ servers'[t].locked = servers[t].locked

LEMMA PutTurns ==
    ASSUME TypeInv, NEW s \in Servers, NEW r \in ServerRecords,
           servers' = [servers EXCEPT ![s] = r],
           r.at \in Cleanups => r.then \in AfterCleanup,
           r.locked => servers[s].locked \/ LockFree
    PROVE  Turns(s)
BY DEF Turns, TypeInv, ServersTyped

LEMMA GoesTurns ==
    ASSUME TypeInv, NEW s \in Servers, NEW a \in ServerAt, Goes(s, a),
           a \in Cleanups => servers[s].then \in AfterCleanup
    PROVE  Turns(s)
BY DEF Goes, Turns, TypeInv, ServersTyped, ServerRecords

LEMMA DropTurns ==
    ASSUME TypeInv, NEW s \in Servers, Drop(s)
    PROVE  Turns(s)
BY DEF Drop, Idle, Turns, TypeInv, ServersTyped, ServerRecords, ServerAt,
       Thens, Cleanups

LEMMA CleanTurns ==
    ASSUME TypeInv, NEW s \in Servers, NEW n \in AfterCleanup, Clean(s, n)
    PROVE  Turns(s)
<1>1. "stale" \in ServerAt /\ n \in Thens
  BY DEF ServerAt, Thens, AfterCleanup
<1>2. QED
  BY <1>1 DEF Clean, Turns, TypeInv, ServersTyped, ServerRecords

LEMMA AttachedTurns ==
    ASSUME TypeInv, NEW s \in Servers, Attached(s, "request")
    PROVE  Turns(s)
<1> DEFINE r == [servers[s] EXCEPT !.at = "request", !.token = token,
                                  !.locked = FALSE]
<1>1. "request" \in ServerAt \ Cleanups /\ token \in Tokens \cup {0}
  BY DEF ServerAt, Cleanups, TypeInv, FilesTyped
<1>2. servers[s] \in ServerRecords
  BY DEF TypeInv, ServersTyped
<1>3. servers' = [servers EXCEPT ![s] = r]
  BY DEF Attached, TypeInv, ServersTyped
<1>4. r \in ServerRecords
  BY <1>1, <1>2 DEF ServerRecords
<1>5. r.at = "request" /\ r.locked = FALSE
  BY <1>2 DEF ServerRecords
<1> HIDE DEF r
<1>6. QED
  BY <1>1, <1>3, <1>4, <1>5, PutTurns

\* Driver d moves on: the others stay where they are, or are gone.
DriverTurns(d) ==
    /\ DriversTyped'
    /\ \A e \in Drivers \ {d} : drivers'[e].at \in {"gone", drivers[e].at}

LEMMA MovesTurns ==
    ASSUME TypeInv, NEW d \in Drivers, NEW a \in DriverAt, Moves(d, a)
    PROVE  DriverTurns(d) /\ drivers'[d].at = a
BY DEF Moves, DriverTurns, TypeInv, DriversTyped, DriverRecords

\* A driver whose pane is killed is gone, or where it was.
LEMMA HungUpDriver ==
    ASSUME TypeInv, NEW d \in Drivers
    PROVE  /\ HungUp(d) \in DriverRecords
           /\ HungUp(d).at \in {"gone", drivers[d].at}
<1> DEFINE r == [drivers[d] EXCEPT !.asked = TRUE]
<1>1. drivers[d] \in DriverRecords
  BY DEF TypeInv, DriversTyped
<1>2. r \in DriverRecords /\ r.at = drivers[d].at
  BY <1>1 DEF DriverRecords
<1>3. Gone \in DriverRecords /\ Gone.at = "gone"
  BY DEF Gone, DriverRecords, DriverAt
<1>4. HungUp(d) \in {Gone, r}
  BY DEF HungUp
<1> HIDE DEF r
<1>5. QED
  BY <1>2, <1>3, <1>4

LEMMA ExitsTurns ==
    ASSUME TypeInv, NEW d \in Drivers, Exits(d)
    PROVE  DriverTurns(d) /\ drivers'[d].at = "gone"
BY DEF Exits, Gone, DriverTurns, TypeInv, DriversTyped, DriverRecords, DriverAt

LEMMA LoadTurns ==
    ASSUME TypeInv, NEW d \in Drivers,
           drivers' = [drivers EXCEPT ![d].at = "registering",
                                      ![d].prior = operator]
    PROVE  DriverTurns(d) /\ drivers'[d].at = "registering"
<1> DEFINE r == [drivers[d] EXCEPT !.at = "registering", !.prior = operator]
<1>1. drivers[d] \in DriverRecords /\ operator \in Drivers \cup {0}
      /\ "registering" \in DriverAt
  BY DEF TypeInv, DriversTyped, FilesTyped, DriverAt
<1>2. drivers' = [drivers EXCEPT ![d] = r]
  BY DEF TypeInv, DriversTyped
<1>3. r \in DriverRecords /\ r.at = "registering"
  BY <1>1 DEF DriverRecords
<1> HIDE DEF r
<1>4. QED
  BY <1>2, <1>3 DEF DriverTurns, TypeInv, DriversTyped

LEMMA RegisterTurns ==
    ASSUME TypeInv, NEW d \in Drivers,
           drivers' = [e \in Drivers |->
              IF e = d THEN [drivers[d] EXCEPT !.at = "binding", !.prior = 0]
              ELSE IF e = drivers[d].prior THEN HungUp(e) ELSE drivers[e]]
    PROVE  DriverTurns(d) /\ drivers'[d].at = "binding"
<1> DEFINE r == [drivers[d] EXCEPT !.at = "binding", !.prior = 0]
<1>1. drivers[d] \in DriverRecords /\ "binding" \in DriverAt
  BY DEF TypeInv, DriversTyped, DriverAt
<1>2. r \in DriverRecords /\ r.at = "binding"
  BY <1>1 DEF DriverRecords
<1>3. drivers' = [e \in Drivers |->
             IF e = d THEN r
             ELSE IF e = drivers[d].prior THEN HungUp(e) ELSE drivers[e]]
  OBVIOUS
<1> HIDE DEF r
<1>4. \A e \in Drivers : drivers[e] \in DriverRecords
  BY DEF TypeInv, DriversTyped
<1>5. \A e \in Drivers : HungUp(e) \in DriverRecords
                         /\ HungUp(e).at \in {"gone", drivers[e].at}
  BY HungUpDriver
<1>6. \A e \in Drivers : drivers'[e] \in DriverRecords
  BY <1>2, <1>3, <1>4, <1>5
<1>7. DriversTyped'
  BY <1>3, <1>6 DEF DriversTyped
<1>8. \A e \in Drivers \ {d} : drivers'[e].at \in {"gone", drivers[e].at}
  BY <1>3, <1>5
<1>9. QED
  BY <1>2, <1>3, <1>7, <1>8 DEF DriverTurns

-----------------------------------------------------------------------------
(* The steps of a server.                                                  *)

\* Server s goes on with what it knows of the drivers replaced.
LEMMA KnowsTurns ==
    ASSUME TypeInv, NEW s \in Servers, NEW a \in ServerAt \ Cleanups,
           NEW n \in Thens, NEW d \in Drivers \cup {0},
           NEW o \in Drivers \cup {0},
           servers' = [servers EXCEPT ![s].at = a, ![s].then = n,
                                      ![s].driver = d, ![s].owned = o]
    PROVE  Turns(s)
<1> DEFINE r == [servers[s] EXCEPT !.at = a, !.then = n,
                                  !.driver = d, !.owned = o]
<1>1. servers[s] \in ServerRecords
  BY DEF TypeInv, ServersTyped
<1>2. servers' = [servers EXCEPT ![s] = r]
  BY DEF TypeInv, ServersTyped
<1>3. r \in ServerRecords
  BY <1>1 DEF ServerRecords
<1>4. r.at = a /\ r.locked = servers[s].locked
  BY <1>1 DEF ServerRecords
<1> HIDE DEF r
<1>5. QED
  BY <1>2, <1>3, <1>4, PutTurns

LEMMA AskTurns ==
    ASSUME TypeInv, NEW s \in Servers, AskShutdown(s)
    PROVE  Turns(s)
<1> DEFINE n == servers[s].then
           d == servers[s].driver
<1>1. /\ n \in Thens /\ d \in Drivers \cup {0} /\ operator \in Drivers \cup {0}
      /\ servers[s] \in ServerRecords
  BY DEF TypeInv, ServersTyped, ServerRecords, FilesTyped
<1>2. "kill" \in Thens /\ {"await", "kill"} \subseteq ServerAt \ Cleanups
  BY DEF Thens, ServerAt, Cleanups
<1>3. ASSUME NEW a \in {"await", "kill"},
             servers' = [servers EXCEPT ![s].at = a, ![s].then = "kill",
                                        ![s].owned = operator]
      PROVE  Turns(s)
  <2>1. servers' = [servers EXCEPT ![s].at = a, ![s].then = "kill",
                                   ![s].driver = d, ![s].owned = operator]
    BY <1>1, <1>3 DEF TypeInv, ServersTyped, ServerRecords
  <2> HIDE DEF d
  <2>2. QED
    BY <1>1, <1>2, <2>1, KnowsTurns
<1>4. QED
  BY <1>3 DEF AskShutdown

LEMMA ShutdownTurns ==
    ASSUME TypeInv, NEW s \in Servers, AwaitShutdown(s)
    PROVE  Turns(s)
<1> DEFINE n == servers[s].then
<1>1. /\ n \in Thens /\ operator \in Drivers \cup {0}
      /\ servers[s] \in ServerRecords
  BY DEF TypeInv, ServersTyped, ServerRecords, FilesTyped
<1>2. "kill" \in ServerAt \ Cleanups
  BY DEF ServerAt, Cleanups
<1>3. CASE Clean(s, "idle")
  BY <1>3, CleanTurns DEF AfterCleanup
<1>4. CASE Goes(s, "kill")
  BY <1>2, <1>4, GoesTurns
<1>5. CASE servers' = [servers EXCEPT ![s].at = "kill", ![s].driver = 0,
                                     ![s].owned = operator]
  <2>1. servers' = [servers EXCEPT ![s].at = "kill", ![s].then = n,
                                   ![s].driver = 0, ![s].owned = operator]
    BY <1>1, <1>5 DEF TypeInv, ServersTyped, ServerRecords
  <2> HIDE DEF n
  <2>2. QED
    BY <1>1, <1>2, <2>1, KnowsTurns
<1>6. QED
  BY <1>3, <1>4, <1>5 DEF AwaitShutdown

LEMMA KillTurns ==
    ASSUME TypeInv, NEW s \in Servers, AfterKill(s)
    PROVE  Turns(s)
<1> DEFINE d == servers[s].driver
           o == servers[s].owned
<1>1. /\ d \in Drivers \cup {0} /\ o \in Drivers \cup {0}
      /\ servers[s] \in ServerRecords
  BY DEF TypeInv, ServersTyped, ServerRecords
<1>2. "await" \in ServerAt \ Cleanups /\ "stale" \in ServerAt
      /\ "idle" \in Thens /\ {"drop", "idle"} \subseteq AfterCleanup
  BY DEF ServerAt, Cleanups, Thens, AfterCleanup
<1>3. CASE servers[s].then \in {"drop", "idle"}
  <2>1. Goes(s, "stale")
    BY <1>3 DEF AfterKill
  <2>2. QED
    BY <1>2, <1>3, <2>1, GoesTurns
<1>4. CASE servers[s].then \notin {"drop", "idle"}
  <2>1. servers' = [servers EXCEPT ![s].at = "await", ![s].then = "idle",
                                   ![s].driver = d, ![s].owned = o]
    BY <1>1, <1>4 DEF AfterKill, TypeInv, ServersTyped, ServerRecords
  <2> HIDE DEF d, o
  <2>2. QED
    BY <1>1, <1>2, <2>1, KnowsTurns
<1>5. QED
  BY <1>3, <1>4

LEMMA RequestTurns ==
    ASSUME TypeInv, NEW s \in Servers, Request(s)
    PROVE  Turns(s)
<1> DEFINE x == [Idle EXCEPT !.at = "lock"]
           y == [Idle EXCEPT !.at = "stale", !.then = "token"]
           r == IF manifest THEN x ELSE y
<1>1. servers' = [servers EXCEPT ![s] = r]
  BY DEF Request
<1>2. Idle \in ServerRecords /\ ~Idle.locked
  BY DEF Idle, ServerRecords, ServerAt, Thens
<1>3. "lock" \in ServerAt \ Cleanups /\ "stale" \in ServerAt
      /\ "token" \in Thens \cap AfterCleanup
  BY DEF ServerAt, Thens, Cleanups, AfterCleanup
<1>4. x \in ServerRecords /\ x.at = "lock" /\ x.locked = Idle.locked
  BY <1>2, <1>3 DEF ServerRecords
<1>5. y \in ServerRecords /\ y.then = "token" /\ y.locked = Idle.locked
  BY <1>2, <1>3 DEF ServerRecords
<1> HIDE DEF x, y
<1>6. r \in ServerRecords /\ ~r.locked
      /\ (r.at \in Cleanups => r.then \in AfterCleanup)
  BY <1>2, <1>3, <1>4, <1>5
<1> HIDE DEF r
<1>7. QED
  BY <1>1, <1>6, PutTurns

LEMMA TakeLockTurns ==
    ASSUME TypeInv, NEW s \in Servers, TakeLock(s)
    PROVE  Turns(s)
<1>1. CASE Drop(s)
  BY <1>1, DropTurns
<1>2. CASE /\ LockFree
           /\ servers' = [servers EXCEPT ![s].at = "client",
                                         ![s].locked = TRUE]
  <2>1. "client" \in ServerAt \ Cleanups
    BY DEF ServerAt, Cleanups
  <2>2. QED
    BY <1>2, <2>1 DEF Turns, TypeInv, ServersTyped, ServerRecords
<1>3. QED
  BY <1>1, <1>2 DEF TakeLock

LEMMA ProbeTurns ==
    ASSUME TypeInv, NEW s \in Servers, Probe(s)
    PROVE  Turns(s)
<1>1. CASE Drop(s)
  BY <1>1, DropTurns
<1>2. CASE Clean(s, "token")
  BY <1>2, CleanTurns DEF AfterCleanup
<1>3. CASE servers' = [servers EXCEPT ![s].at = "stale", ![s].then = "token",
                                     ![s].locked = FALSE]
  <2> DEFINE r == [servers[s] EXCEPT !.at = "stale", !.then = "token",
                                     !.locked = FALSE]
  <2>1. servers[s] \in ServerRecords
    BY DEF TypeInv, ServersTyped
  <2>2. servers' = [servers EXCEPT ![s] = r]
    BY <1>3 DEF TypeInv, ServersTyped
  <2>3. "stale" \in ServerAt /\ "token" \in Thens /\ "token" \in AfterCleanup
    BY DEF ServerAt, Thens, AfterCleanup
  <2>4. r \in ServerRecords
    BY <2>1, <2>3 DEF ServerRecords
  <2>5. r.then = "token" /\ r.locked = FALSE
    BY <2>1 DEF ServerRecords
  <2> HIDE DEF r
  <2>6. QED
    BY <2>2, <2>3, <2>4, <2>5, PutTurns
<1>4. QED
  BY <1>1, <1>2, <1>3 DEF Probe

LEMMA CleanupTurns ==
    ASSUME TypeInv, NEW s \in Servers,
           CheckSocket(s) \/ RemoveSocket(s) \/ CleanFiles(s)
    PROVE  Turns(s)
<1>1. servers[s].at \in Cleanups /\ servers[s].then \in AfterCleanup
  BY DEF CheckSocket, RemoveSocket, CleanFiles, At, Cleanups, TypeInv,
         CleanupGoesOn
<1>2. ASSUME NEW live, Abandon(s, live)
      PROVE  Turns(s)
  <2>1. {"token", "undo", "files"} \subseteq ServerAt
    BY DEF ServerAt
  <2>2. QED
    BY <1>1, <1>2, <2>1, GoesTurns, DropTurns DEF Abandon
<1>3. ASSUME NEW a \in {"token", "ready", "files", "unlink"}, Goes(s, a)
      PROVE  Turns(s)
  BY <1>1, <1>3, GoesTurns DEF ServerAt
<1>4. CASE CheckSocket(s)
  BY <1>2, <1>3, <1>4 DEF CheckSocket
<1>5. CASE RemoveSocket(s)
  BY <1>2, <1>3, <1>5 DEF RemoveSocket
<1>6. CASE CleanFiles(s)
  BY <1>1, <1>3, <1>6, DropTurns DEF CleanFiles, AfterCleanup
<1>7. QED
  BY <1>4, <1>5, <1>6

LEMMA StartsTurns ==
    ASSUME TypeInv, NEW s \in Servers, NEW d \in Drivers,
           NEW a \in ServerAt \ Cleanups, NEW n \in Thens, Starts(d, s, a, n)
    PROVE  Turns(s)
<1> DEFINE r == [servers[s] EXCEPT !.at = a, !.then = n, !.driver = d]
           q(t) == [servers[t] EXCEPT !.driver = Except(@, d),
                                      !.owned = Except(@, d)]
<1>1. \A t \in Servers : servers[t] \in ServerRecords
  BY DEF TypeInv, ServersTyped
<1>2. r \in ServerRecords /\ r.at = a /\ r.locked = servers[s].locked
  BY <1>1 DEF ServerRecords
<1>3. ASSUME NEW t \in Servers
      PROVE  /\ q(t) \in ServerRecords
             /\ q(t).at = servers[t].at
             /\ q(t).then = servers[t].then
             /\ q(t).locked = servers[t].locked
  BY <1>1 DEF ServerRecords, Except
<1>4. servers' = [t \in Servers |-> IF t = s THEN r ELSE q(t)]
  BY DEF Starts
<1> HIDE DEF r, q
<1>5. QED
  BY <1>1, <1>2, <1>3, <1>4 DEF Turns, ServersTyped

LEMMA LaunchTurns ==
    ASSUME TypeInv, NEW s \in Servers, Launch(s)
    PROVE  Turns(s)
<1>1. {"ready", "kill"} \subseteq ServerAt \ Cleanups
      /\ {"drop", "idle"} \subseteq Thens \cap AfterCleanup
      /\ servers[s].then \in Thens
  BY DEF ServerAt, Cleanups, Thens, AfterCleanup, TypeInv, ServersTyped,
     ServerRecords
<1>2. CASE \E n \in {"drop", "idle"} : Clean(s, n)
  BY <1>1, <1>2, CleanTurns
<1>3. CASE \E d \in Drivers : Starts(d, s, "ready", servers[s].then)
  BY <1>1, <1>3, StartsTurns
<1>4. CASE \E d \in Drivers, n \in {"drop", "idle"} : Starts(d, s, "kill", n)
  BY <1>1, <1>4, StartsTurns
<1>5. QED
  BY <1>2, <1>3, <1>4 DEF Launch

LEMMA ReadyTurns ==
    ASSUME TypeInv, NEW s \in Servers, AwaitReady(s)
    PROVE  Turns(s)
<1>1. CASE Clean(s, "ready")
  BY <1>1, CleanTurns DEF AfterCleanup
<1>2. CASE Goes(s, "undo")
  BY <1>2, GoesTurns DEF ServerAt, Cleanups
<1>3. CASE servers' = [servers EXCEPT ![s].token = token,
                ![s].at = IF servers[s].locked THEN "confirm" ELSE "bind"]
  <2> DEFINE a == IF servers[s].locked THEN "confirm" ELSE "bind"
  <2>1. a \in ServerAt \ Cleanups /\ token \in Tokens \cup {0}
    BY DEF ServerAt, Cleanups, TypeInv, FilesTyped
  <2>2. servers' = [servers EXCEPT ![s].token = token, ![s].at = a]
    BY <1>3
  <2> DEFINE r == [servers[s] EXCEPT !.token = token, !.at = a]
  <2> HIDE DEF a
  <2>3. servers[s] \in ServerRecords
    BY DEF TypeInv, ServersTyped
  <2>4. servers' = [servers EXCEPT ![s] = r]
    BY <2>2 DEF TypeInv, ServersTyped
  <2>5. r \in ServerRecords
    BY <2>1, <2>3 DEF ServerRecords
  <2>6. r.at = a /\ r.locked = servers[s].locked
    BY <2>3 DEF ServerRecords
  <2> HIDE DEF r
  <2>7. QED
    BY <2>1, <2>4, <2>5, <2>6, PutTurns
<1>4. QED
  BY <1>1, <1>2, <1>3 DEF AwaitReady

LEMMA ConfirmTurns ==
    ASSUME TypeInv, NEW s \in Servers, Confirm(s)
    PROVE  Turns(s)
<1>1. CASE Drop(s)
  BY <1>1, DropTurns
<1>2. CASE servers' = [servers EXCEPT ![s].at = "request", ![s].locked = FALSE]
  <2>1. "request" \in ServerAt \ Cleanups
    BY DEF ServerAt, Cleanups
  <2> DEFINE r == [servers[s] EXCEPT !.at = "request", !.locked = FALSE]
  <2>2. servers[s] \in ServerRecords
    BY DEF TypeInv, ServersTyped
  <2>3. servers' = [servers EXCEPT ![s] = r]
    BY <1>2 DEF TypeInv, ServersTyped
  <2>4. r \in ServerRecords
    BY <2>1, <2>2 DEF ServerRecords
  <2>5. r.at = "request" /\ r.locked = FALSE
    BY <2>2 DEF ServerRecords
  <2> HIDE DEF r
  <2>6. QED
    BY <2>1, <2>3, <2>4, <2>5, PutTurns
<1>3. QED
  BY <1>1, <1>2 DEF Confirm

\* Every step of a server is a turn of its own.
LEMMA ServerTurns ==
    ASSUME TypeInv, NEW s \in Servers,
           Request(s) \/ ServerStep(s) \/ ServerEnds(s)
    PROVE  Turns(s)
<1>1. ASSUME NEW a \in {"probe", "launch", "bind", "undo"}, Goes(s, a)
      PROVE  Turns(s)
  BY <1>1, GoesTurns DEF ServerAt, Cleanups
<1>2. CASE FindClient(s)
  BY <1>1, <1>2, AttachedTurns DEF FindClient
<1>3. CASE WriteToken(s)
  BY <1>1, <1>3, DropTurns DEF WriteToken
<1>4. CASE Proxy(s)
  BY <1>1, <1>4, DropTurns DEF Proxy
<1>5. CASE BindRun(s)
  BY <1>1, <1>5, DropTurns DEF BindRun
<1>6. CASE KillDriverPane(s)
  BY <1>6, KillTurns DEF KillDriverPane
<1>7. CASE ServerEnds(s)
  BY <1>7, DropTurns DEF ServerEnds
<1>8. QED
  BY <1>2, <1>3, <1>4, <1>5, <1>6, <1>7, RequestTurns, TakeLockTurns,
     ProbeTurns, CleanupTurns, LaunchTurns, ReadyTurns, ConfirmTurns, AskTurns,
     ShutdownTurns
     DEF ServerStep

-----------------------------------------------------------------------------
(* The files and the drivers.                                              *)

\* No driver begins to finalise.
NoneFinalizes == \A d \in Drivers : Finalizing(d)' => Finalizing(d)

LEMMA DriversStay ==
    ASSUME TypeInv, UNCHANGED drivers
    PROVE  DriversTyped' /\ NoneFinalizes
BY DEF TypeInv, DriversTyped, NoneFinalizes, Finalizing

LEMMA LaunchDrivers ==
    ASSUME TypeInv, NEW s \in Servers, Launch(s)
    PROVE  DriversTyped' /\ NoneFinalizes /\ operator' \in Drivers \cup {0}
<1>1. ASSUME NEW d \in Drivers, NEW a, NEW n, Starts(d, s, a, n)
      PROVE  DriversTyped' /\ NoneFinalizes /\ operator' \in Drivers \cup {0}
  <2> DEFINE r == [Gone EXCEPT !.at = "starting"]
             q(e) == [drivers[e] EXCEPT !.prior = Except(@, d)]
  <2>1. "starting" \in DriverAt /\ Gone \in DriverRecords
    BY DEF DriverAt, DriverRecords, Gone
  <2>2. r \in DriverRecords /\ r.at = "starting"
    BY <2>1 DEF DriverRecords
  <2>3. ASSUME NEW e \in Drivers
        PROVE  q(e) \in DriverRecords /\ q(e).at = drivers[e].at
    BY DEF TypeInv, DriversTyped, DriverRecords, Except
  <2>4. drivers' = [e \in Drivers |-> IF e = d THEN r ELSE q(e)]
    BY <1>1 DEF Starts
  <2>5. operator' \in Drivers \cup {0}
    BY <1>1 DEF Starts, Except, TypeInv, FilesTyped
  <2> HIDE DEF r, q
  <2>6. QED
    BY <2>2, <2>3, <2>4, <2>5 DEF DriversTyped, NoneFinalizes, Finalizing
<1>2. CASE UNCHANGED <<drivers, operator>>
  BY <1>2, DriversStay DEF TypeInv, FilesTyped
<1>3. QED
  BY <1>1, <1>2 DEF Launch

\* A driver is asked to end.
LEMMA AskedDrivers ==
    ASSUME TypeInv, NEW d \in Drivers,
           drivers' = [drivers EXCEPT ![d].asked = TRUE]
    PROVE  DriversTyped' /\ NoneFinalizes
BY DEF TypeInv, DriversTyped, DriverRecords, NoneFinalizes, Finalizing

\* Panes are killed, and nobody begins to finalise because of it.
LEMMA KillDrivers ==
    ASSUME TypeInv, NEW panes, Kill(panes)
    PROVE  DriversTyped' /\ NoneFinalizes
BY HungUpDriver
   DEF Kill, TypeInv, DriversTyped, NoneFinalizes, Finalizing

\* A server changes no more of the files than their types allow, and no driver
\* finalises because of it.
LEMMA ServerKeeps ==
    ASSUME TypeInv, NEW s \in Servers,
           Request(s) \/ ServerStep(s) \/ ServerEnds(s)
    PROVE  FilesTyped' /\ DriversTyped' /\ NoneFinalizes
<1>1. FilesTyped
  BY DEF TypeInv
<1>2. CASE CleanFiles(s) \/ RemoveSocket(s) \/ WriteToken(s) \/ BindRun(s)
  <2>1. FilesTyped'
    BY <1>1, <1>2 DEF FilesTyped, CleanFiles, RemoveSocket, WriteToken,
       NewTokens, BindRun, run, files, past
  <2>2. UNCHANGED drivers
    BY <1>2 DEF CleanFiles, RemoveSocket, WriteToken, BindRun
  <2>3. QED
    BY <2>1, <2>2, DriversStay
<1>3. CASE Launch(s)
  BY <1>1, <1>3, LaunchDrivers DEF Launch, FilesTyped, files, past
<1>4. CASE KillDriverPane(s)
  <2>1. left' \in BOOLEAN /\ UNCHANGED <<files, run, fresh>>
    BY <1>1, <1>4 DEF KillDriverPane, FilesTyped
  <2>2. DriversTyped' /\ NoneFinalizes
    BY <1>4, KillDrivers DEF KillDriverPane
  <2>3. QED
    BY <1>1, <2>1, <2>2 DEF FilesTyped, files, run
<1>5. CASE AskShutdown(s)
  <2>1. FilesTyped'
    BY <1>1, <1>5 DEF AskShutdown, FilesTyped, files, run, past
  <2>2. CASE UNCHANGED drivers
    BY <2>1, <2>2, DriversStay
  <2>3. CASE sock # 0 /\ drivers' = [drivers EXCEPT ![sock].asked = TRUE]
    <3>1. sock \in Drivers
      BY <1>1, <2>3 DEF FilesTyped
    <3>2. QED
      BY <2>1, <2>3, <3>1, AskedDrivers
  <2>4. QED
    BY <1>5, <2>2, <2>3 DEF AskShutdown, Answering, Live
<1>6. CASE ServerEnds(s)
  <2>1. left' \in BOOLEAN /\ UNCHANGED <<files, run, fresh, drivers>>
    BY <1>1, <1>6 DEF ServerEnds, Launched, FilesTyped
  <2>2. QED
    BY <1>1, <2>1, DriversStay DEF FilesTyped, files, run
<1>7. CASE UNCHANGED <<files, run, drivers, past>>
  BY <1>1, <1>7, DriversStay DEF FilesTyped, files, run, past
<1>8. QED
  BY <1>2, <1>3, <1>4, <1>5, <1>6, <1>7
     DEF ServerStep, Request, TakeLock, FindClient, Probe,
         CheckSocket, AwaitReady, Confirm, Proxy, AwaitShutdown

\* Only a driver that finds the lock free begins to finalise.
LEMMA DriverTurn ==
    ASSUME TypeInv, NEW d \in Drivers, DriverStep(d) \/ Quit(d) \/ DriverDies(d)
    PROVE  /\ DriverTurns(d)
           /\ Finalizing(d)' => Finalizing(d) \/ LockFree
<1>1. CASE Exits(d)
  BY <1>1, ExitsTurns DEF Finalizing
<1>2. ASSUME NEW a \in {"loading", "metadata", "serving", "draining"},
             Moves(d, a)
      PROVE  DriverTurns(d) /\ ~Finalizing(d)'
  <2>1. a \in DriverAt
    BY DEF DriverAt
  <2>2. QED
    BY <1>2, <2>1, MovesTurns DEF Finalizing
<1>3. ASSUME NEW a \in {"finalizing", "closing", "leaving"}, Moves(d, a)
      PROVE  DriverTurns(d)
  <2>1. a \in DriverAt
    BY DEF DriverAt
  <2>2. QED
    BY <1>3, <2>1, MovesTurns
<1>4. CASE StartDriver(d)
  <2>1. CASE ~Exits(d)
    <3> DEFINE a == IF sock = 0 THEN "loading" ELSE "clearing"
    <3>1. a \in DriverAt \ {"finalizing", "closing", "leaving"}
          /\ token \in Tokens \cup {0}
      BY DEF DriverAt, TypeInv, FilesTyped
    <3>2. drivers' = [drivers EXCEPT ![d].token = token, ![d].at = a]
      BY <1>4, <2>1 DEF StartDriver
    <3> HIDE DEF a
    <3>3. QED
      BY <3>1, <3>2 DEF DriverTurns, TypeInv, DriversTyped, DriverRecords,
         Finalizing
  <2>2. QED
    BY <1>1, <2>1
<1>5. CASE Quit(d)
  BY <1>5, AskedDrivers
     DEF Quit, DriverTurns, NoneFinalizes, TypeInv, DriversTyped
<1>6. CASE StopListening(d)
  BY <1>1, <1>3, <1>6 DEF StopListening
<1>7. CASE FinishDriver(d)
  BY <1>3, <1>7 DEF FinishDriver, Runs, Finalizing
<1>8. CASE CloseSocket(d)
  BY <1>3, <1>8 DEF CloseSocket, Runs, Finalizing
<1>9. CASE LoadRun(d)
  BY <1>1, <1>9, LoadTurns DEF LoadRun, Finalizing
<1>10. CASE RegisterPane(d)
  BY <1>1, <1>10, RegisterTurns DEF RegisterPane, Finalizing
<1>11. CASE ClearSocket(d) \/ BindSocket(d) \/ WriteMetadata(d)
           \/ Drain(d) \/ LeaveRun(d) \/ DriverDies(d)
  BY <1>1, <1>2, <1>11 DEF ClearSocket, BindSocket, WriteMetadata, Drain,
     LeaveRun, DriverDies
<1>12. QED
  BY <1>4, <1>5, <1>6, <1>7, <1>8, <1>9, <1>10, <1>11 DEF DriverStep

LEMMA DriverFiles ==
    ASSUME TypeInv, NEW d \in Drivers, DriverStep(d) \/ Quit(d) \/ DriverDies(d)
    PROVE  FilesTyped' /\ UNCHANGED servers
<1> USE DEF FilesTyped
<1>1. FilesTyped /\ drivers[d].token \in Tokens \cup {0}
  BY DEF TypeInv, DriversTyped, DriverRecords
<1>2. CASE ClearSocket(d) \/ BindSocket(d) \/ CloseSocket(d)
  BY <1>1, <1>2 DEF ClearSocket, BindSocket, CloseSocket, run, past
<1>3. CASE LoadRun(d) \/ RegisterPane(d) \/ FinishDriver(d)
  BY <1>1, <1>3 DEF LoadRun, RegisterPane, FinishDriver, files, past
<1>4. CASE WriteMetadata(d) \/ LeaveRun(d)
  BY <1>1, <1>4 DEF WriteMetadata, LeaveRun, run, past
<1>5. CASE UNCHANGED <<files, run, servers, past>>
  BY <1>1, <1>5 DEF files, run, past
<1>6. QED
  BY <1>2, <1>3, <1>4, <1>5
     DEF DriverStep, StartDriver, Drain, StopListening, Quit, DriverDies

-----------------------------------------------------------------------------
(* The theorems.                                                           *)

LEMMA TypeInit == Init => TypeInv
<1> SUFFICES ASSUME Init
             PROVE  TypeInv
  OBVIOUS
<1>1. fresh \in BOOLEAN /\ (~fresh => 1 \in Drivers /\ 1 \in Tokens)
  BY IdsAssumption, FirstAssumption DEF Init
<1>2. FilesTyped
  BY <1>1 DEF Init, FilesTyped
<1> DEFINE r == [Gone EXCEPT !.at = "serving", !.token = 1]
<1>3. Gone \in DriverRecords /\ (~fresh => r \in DriverRecords)
  BY <1>1 DEF DriverRecords, DriverAt, Gone
<1>4. DriversTyped
  BY <1>3 DEF Init, DriversTyped
<1>5. ServersTyped /\ CleanupGoesOn
  BY DEF Init, Idle, ServersTyped, ServerRecords, ServerAt, Thens,
     CleanupGoesOn, Cleanups
<1>6. QED
  BY <1>2, <1>4, <1>5 DEF TypeInv

LEMMA TypeStep == TypeInv /\ [Next]_vars => TypeInv'
<1> SUFFICES ASSUME TypeInv, [Next]_vars
             PROVE  TypeInv'
  OBVIOUS
<1>1. ASSUME NEW s \in Servers, Request(s) \/ ServerStep(s) \/ ServerEnds(s)
      PROVE  TypeInv'
  BY <1>1, ServerTurns, ServerKeeps DEF Turns, TypeInv, CleanupGoesOn
<1>2. ASSUME NEW d \in Drivers, DriverStep(d) \/ Quit(d) \/ DriverDies(d)
      PROVE  TypeInv'
  BY <1>2, DriverTurn, DriverFiles
     DEF DriverTurns, TypeInv, ServersTyped, CleanupGoesOn
<1>3. CASE UNCHANGED vars
  BY <1>3 DEF vars, TypeInv, FilesTyped, ServersTyped, DriversTyped,
     CleanupGoesOn
<1>4. QED
  BY <1>1, <1>2, <1>3 DEF Next

\* Files, processes and what servers remember keep their types, whatever fails:
\* no cleanup sends its server to a place there is not, and no server signals a
\* driver that never was.
THEOREM TypeCorrect == Spec => []TypeOK
<1>1. TypeInv => TypeOK
  BY DEF TypeInv, FilesTyped, ServersTyped, ServerRecords, Thens, DriversTyped,
     DriverRecords, TypeOK
<1>2. QED
  BY <1>1, TypeInit, TypeStep, PTL DEF Spec

\* At most one process holds attach.lock: a server that attaches, or a driver
\* that finalises.
OneHolds ==
    /\ \A s, t \in Servers : servers[s].locked /\ servers[t].locked => s = t
    /\ \A d, e \in Drivers : Finalizing(d) /\ Finalizing(e) => d = e
    /\ \A s \in Servers, d \in Drivers : ~(servers[s].locked /\ Finalizing(d))

LEMMA HoldsInit == Init => OneHolds
BY DEF Init, OneHolds, Idle, Gone, Finalizing

LEMMA HoldsStep == TypeInv /\ OneHolds /\ [Next]_vars => OneHolds'
<1> SUFFICES ASSUME TypeInv, OneHolds, [Next]_vars
             PROVE  OneHolds'
  OBVIOUS
<1>1. ASSUME NEW s \in Servers, Request(s) \/ ServerStep(s) \/ ServerEnds(s)
      PROVE  OneHolds'
  <2>1. Turns(s) /\ NoneFinalizes
    BY <1>1, ServerTurns, ServerKeeps
  <2>2. QED
    BY <2>1 DEF Turns, NoneFinalizes, OneHolds, LockFree
<1>2. ASSUME NEW d \in Drivers, DriverStep(d) \/ Quit(d) \/ DriverDies(d)
      PROVE  OneHolds'
  <2>1. /\ DriverTurns(d) /\ UNCHANGED servers
        /\ Finalizing(d)' => Finalizing(d) \/ LockFree
    BY <1>2, DriverTurn, DriverFiles
  <2>2. QED
    BY <2>1 DEF DriverTurns, Finalizing, OneHolds, LockFree
<1>3. CASE UNCHANGED vars
  BY <1>3 DEF vars, OneHolds, Finalizing
<1>4. QED
  BY <1>1, <1>2, <1>3 DEF Next

\* Servers that attach and drivers that end exclude each other, though whatever
\* ends a process releases its lock: no server looks at the files of a run while
\* another replaces them or a driver takes them down.
THEOREM LockIsExclusive == Spec => []OneHolds
<1> QED
  BY TypeInit, TypeStep, HoldsInit, HoldsStep, PTL DEF Spec
=============================================================================
