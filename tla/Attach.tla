------------------------------- MODULE Attach -------------------------------
(***************************************************************************)
(* How MCP servers reach the driver of a run and replace it                *)
(* (mcp/driver_attach.rs, mcp/driver_run_flow.rs), and how a driver comes  *)
(* up and goes down (run_driver).  A driver is a process in a tmux pane.   *)
(* It is reached through three files under the private runtime root: the   *)
(* socket it has bound, ipc.json, and the token a request must carry.      *)
(* Servers and drivers share a lock file, attach.lock: a server holds it   *)
(* while it attaches or replaces, a driver while it goes down.  The first  *)
(* launch of a run is made without it.                                     *)
(*                                                                         *)
(* Deadlines are nondeterministic: one that is missed while the other side *)
(* is still making progress is a fault "slow", of which there are          *)
(* MaxFaults; one that waits for something that cannot happen passes.      *)
(***************************************************************************)
EXTENDS Naturals

CONSTANTS Servers,      \* MCP servers
          Starting,     \* the servers that are asked to start the run
          Drivers,      \* places for driver processes: no more run at once
          Tokens,       \* tokens, enough to have a new one
          Fresh,        \* whether the run has just been named, or is served
          FaultKinds,   \* what may fail
          MaxFaults,    \* bound on failures
          MaxStops      \* bound on processes that are ended, of a run just
                        \* named and of one that is served

ASSUME FaultsAssumption ==
    FaultKinds \subseteq {"slow", "tmux", "load", "refused", "server", "driver"}
ASSUME IdsAssumption ==
    /\ Starting \subseteq Servers
    /\ Drivers \subseteq Nat \ {0} /\ Tokens \subseteq Nat \ {0}
    /\ Fresh \subseteq BOOLEAN
    /\ MaxFaults \in Nat /\ MaxStops \in [BOOLEAN -> Nat]
\* The driver that serves at first, and its token.
ASSUME FirstAssumption == FALSE \in Fresh => 1 \in Drivers /\ 1 \in Tokens

VARIABLES
    token,      \* the token in ipc-token, 0 if there is no such file
    ipc,        \* whether ipc.json exists
    sock,       \* the driver that has bound the socket file, 0 if there is none
    manifest,   \* whether the run has a root and a manifest
    bound,      \* whether the run is bound: events.jsonl exists
    operator,   \* the driver whose pane the driver log says is the operator's
    drivers,    \* the driver processes
    servers,    \* what each server is doing
    \* history, kept for the properties
    fresh,      \* whether the run had just been named
    left,       \* whether a server has left a driver that it had launched
    faults, stops

files == <<token, ipc, sock>>
run == <<manifest, bound, operator>>
past == <<fresh, left>>
vars == <<token, ipc, sock, manifest, bound, operator, drivers, servers,
          fresh, left, faults, stops>>

\* prior and owned are the operator that the driver or the server has read of in
\* the log, driver is the one the server has launched.
Gone == [at |-> "gone", token |-> 0, asked |-> FALSE, prior |-> 0]
Idle == [at |-> "idle", locked |-> FALSE, then |-> "none",
         driver |-> 0, owned |-> 0, token |-> 0]

\* The run is about to be started, or is served by a driver.
Init ==
    /\ fresh \in Fresh
    /\ token = IF fresh THEN 0 ELSE 1
    /\ ipc = ~fresh
    /\ sock = IF fresh THEN 0 ELSE 1
    /\ manifest = ~fresh /\ bound = ~fresh
    /\ operator = IF fresh THEN 0 ELSE 1
    /\ drivers = [d \in Drivers |->
                    IF d = 1 /\ ~fresh
                    THEN [Gone EXCEPT !.at = "serving", !.token = 1] ELSE Gone]
    /\ servers = [s \in Servers |-> Idle]
    /\ left = FALSE
    /\ faults = 0 /\ stops = 0

Fault(kind) == /\ kind \in FaultKinds
               /\ faults < MaxFaults
               /\ faults' = faults + 1

Stop(kind) == /\ kind \in FaultKinds
              /\ stops < MaxStops[fresh]
              /\ stops' = stops + 1

-----------------------------------------------------------------------------
(* The endpoint.                                                           *)

Listening(d) == drivers[d].at \in {"metadata", "serving", "draining"}

\* The socket file exists and accepts connections.
Live == sock # 0 /\ Listening(sock)

\* DriverClient::from_run_root_for_run finds what it needs.
Endpoint == ipc /\ token # 0 /\ sock # 0

\* A request with token t is answered.
Answering(t) == /\ Live
                /\ drivers[sock].at # "metadata"
                /\ drivers[sock].token = t

\* It is not, or too late.
Unanswered(t) == IF Answering(t) THEN Fault("slow") ELSE UNCHANGED faults

Finalizing(d) == drivers[d].at \in {"finalizing", "closing", "leaving"}
LockFree == /\ \A d \in Drivers : ~Finalizing(d)
            /\ \A s \in Servers : ~servers[s].locked

\* Mutant: a socket that is in use is removed too.
RemovableAlways == TRUE

\* What is taken for a stale socket.
Removable == ~Live

-----------------------------------------------------------------------------
(* A server.                                                               *)

At(s, at) == servers[s].at = at
Goes(s, at) == servers' = [servers EXCEPT ![s].at = at]
Drop(s) == servers' = [servers EXCEPT ![s] = Idle]

\* cleanup_stale_driver_ipc, and what to do after it.
Clean(s, then) ==
    servers' = [servers EXCEPT ![s].at = "stale", ![s].then = then]

\* run_flow, or another tool of the run.  They differ as long as the run is not
\* bound: only run_flow launches its first driver and binds it.
Request(s) ==
    /\ At(s, "idle")
    /\ manifest \/ s \in Starting
    /\ servers' = [servers EXCEPT ![s] =
          IF manifest THEN [Idle EXCEPT !.at = "lock"]
          ELSE [Idle EXCEPT !.at = "stale", !.then = "token"]]
    /\ UNCHANGED <<files, run, drivers, past, faults, stops>>

\* acquire_driver_attach_lock
TakeLock(s) ==
    /\ At(s, "lock")
    /\ \/ /\ LockFree
          /\ servers' = [servers EXCEPT ![s].at = "client", ![s].locked = TRUE]
       \/ ~LockFree /\ Drop(s)
    /\ UNCHANGED <<files, run, drivers, past, faults, stops>>

Attached(s, at) ==
    servers' = [servers EXCEPT ![s].at = at, ![s].token = token,
                               ![s].locked = FALSE]

\* The authenticated status probe.
FindClient(s) ==
    /\ At(s, "client")
    /\ \/ /\ Endpoint /\ Answering(token)
          /\ Attached(s, "request")
          /\ UNCHANGED faults
       \/ /\ ~(Endpoint /\ Answering(token))
          /\ Goes(s, "probe")
          /\ UNCHANGED faults
       \/ /\ Endpoint /\ Answering(token)
          /\ Fault("slow")
          /\ Goes(s, "probe")
    /\ UNCHANGED <<files, run, drivers, past, stops>>

\* A live endpoint is left alone; a run that was never bound has nothing to
\* recover, run_flow launches its driver.
Probe(s) ==
    /\ At(s, "probe")
    /\ \/ Live /\ Drop(s)
       \/ ~Live /\ bound /\ Clean(s, "token")
       \/ /\ ~Live /\ ~bound
          /\ \/ /\ s \in Starting
                /\ servers' = [servers EXCEPT ![s].at = "stale",
                                ![s].then = "token", ![s].locked = FALSE]
             \/ Drop(s)
    /\ UNCHANGED <<files, run, drivers, past, faults, stops>>

\* The rest of what the server does after a cleanup that went wrong.
Abandon(s, live) ==
    CASE servers[s].then = "token" /\ ~live /\ ~servers[s].locked ->
            Goes(s, "token")
      [] servers[s].then = "ready" -> Goes(s, "undo")
      [] servers[s].then = "idle" /\ live -> Goes(s, "files")
      [] OTHER -> Drop(s)

\* The socket is looked at: a live one stays, and is an error except for
\* cleanup_driver_ipc_artifacts.  Without a manifest run_flow and the cleanup
\* of its launch leave it alone.
CheckSocket(s) ==
    /\ At(s, "stale")
    /\ \/ /\ ~manifest
          /\ Goes(s, IF servers[s].then = "token" THEN "token" ELSE "files")
       \/ manifest /\ sock = 0 /\ Goes(s, "files")
       \/ manifest /\ sock # 0 /\ Removable /\ Goes(s, "unlink")
       \/ manifest /\ sock # 0 /\ ~Removable /\ Abandon(s, TRUE)
    /\ UNCHANGED <<files, run, drivers, past, faults, stops>>

\* The socket that was found stale is removed, or another one by now.
RemoveSocket(s) ==
    /\ At(s, "unlink")
    /\ IF sock # 0 THEN sock' = 0 /\ Goes(s, "files")
                   ELSE Abandon(s, FALSE) /\ UNCHANGED sock
    /\ UNCHANGED <<token, ipc, run, drivers, past, faults, stops>>

\* ipc.json and the token.
CleanFiles(s) ==
    /\ At(s, "files")
    /\ ipc' = FALSE /\ token' = 0
    /\ IF servers[s].then \in {"idle", "drop"} THEN Drop(s)
                                               ELSE Goes(s, servers[s].then)
    /\ UNCHANGED <<sock, run, drivers, past, faults, stops>>

\* generate_driver_token: the least of the tokens that nobody has.
NewTokens ==
    LET free == Tokens \ ({drivers[d].token : d \in Drivers}
                            \cup {servers[s].token : s \in Servers})
    IN  {t \in free : \A u \in free : t <= u}

\* write_driver_token: the file must not exist.
WriteToken(s) ==
    /\ At(s, "token")
    /\ IF token = 0 THEN token' \in NewTokens /\ Goes(s, "launch")
                    ELSE Drop(s) /\ UNCHANGED token
    /\ UNCHANGED <<ipc, sock, run, drivers, past, faults, stops>>

\* What is known of the place of d is not of the new process there.
Except(e, d) == IF e = d THEN 0 ELSE e

\* A process starts in the place of d; server s, which launched it, goes on.
Starts(d, s, at, then) ==
    /\ drivers[d].at = "gone"
    /\ drivers' = [e \in Drivers |->
          IF e = d THEN [Gone EXCEPT !.at = "starting"]
          ELSE [drivers[e] EXCEPT !.prior = Except(@, d)]]
    /\ servers' = [t \in Servers |->
          IF t = s
          THEN [servers[s] EXCEPT !.at = at, !.then = then, !.driver = d]
          ELSE [servers[t] EXCEPT !.driver = Except(@, d),
                                  !.owned = Except(@, d)]]
    /\ operator' = Except(operator, d)

\* launch_driver_pane.  A launch that tmux reports as failed may have started
\* the driver all the same: its pane is killed before the files go.
Launch(s) ==
    /\ At(s, "launch")
    /\ LET failed == IF servers[s].locked THEN "drop" ELSE "idle"
       IN  \/ /\ \E d \in Drivers : Starts(d, s, "ready", servers[s].then)
              /\ UNCHANGED faults
           \/ /\ Fault("tmux")
              /\ \E d \in Drivers : Starts(d, s, "kill", failed)
           \/ /\ Fault("tmux")
              /\ Clean(s, failed)
              /\ UNCHANGED <<drivers, operator>>
    /\ UNCHANGED <<files, manifest, bound, past, stops>>

\* The driver a server has launched is there.
Launched(s) == servers[s].driver # 0 /\ drivers[servers[s].driver].at # "gone"

\* Some driver may come up yet.
ComingUp ==
    \E d \in Drivers : drivers[d].at \in
        {"starting", "clearing", "loading", "registering", "binding",
         "metadata"}

\* wait_for_driver_client: poll until the driver answers.
AwaitReady(s) ==
    /\ At(s, "ready")
    /\ \/ /\ Endpoint /\ Answering(token)
          /\ servers' = [servers EXCEPT ![s].token = token,
                ![s].at = IF servers[s].locked THEN "confirm" ELSE "bind"]
          /\ UNCHANGED faults
       \/ /\ ipc /\ ~(Endpoint /\ Answering(token))
          /\ Clean(s, "ready")
          /\ UNCHANGED faults
       \/ /\ Endpoint /\ Answering(token)
          /\ Fault("slow")
          /\ Clean(s, "ready")
       \/ /\ ~ipc
          /\ IF ComingUp THEN Fault("slow") ELSE UNCHANGED faults
          /\ Goes(s, "undo")
    /\ UNCHANGED <<files, run, drivers, past, stops>>

\* The last status probe of an attach.
Confirm(s) ==
    /\ At(s, "confirm")
    /\ \/ /\ Answering(servers[s].token)
          /\ servers' = [servers EXCEPT ![s].at = "request",
                                         ![s].locked = FALSE]
          /\ UNCHANGED faults
       \/ /\ Unanswered(servers[s].token)
          /\ Drop(s)
    /\ UNCHANGED <<files, run, drivers, past, stops>>

\* The tool is proxied; run_flow binds the run again or for the first time.
Proxy(s) ==
    /\ At(s, "request")
    /\ \/ /\ Answering(servers[s].token)
          /\ Drop(s) \/ (~bound /\ s \in Starting /\ Goes(s, "bind"))
          /\ UNCHANGED faults
       \/ /\ Unanswered(servers[s].token)
          /\ Drop(s)
    /\ UNCHANGED <<files, run, drivers, past, stops>>

\* bind_run.  A review that does not approve, or no answer, undoes the start.
BindRun(s) ==
    /\ At(s, "bind")
    /\ \/ /\ Answering(servers[s].token)
          /\ bound' = TRUE
          /\ Drop(s)
          /\ UNCHANGED faults
       \/ /\ Answering(servers[s].token)
          /\ ~bound
          /\ Fault("refused")
          /\ Goes(s, "undo")
          /\ UNCHANGED bound
       \/ /\ Unanswered(servers[s].token)
          /\ Goes(s, "undo")
          /\ UNCHANGED bound
    /\ UNCHANGED <<files, manifest, operator, drivers, past, stops>>

-----------------------------------------------------------------------------
(* cleanup_driver_startup                                                  *)

\* The log is read for the operator's pane, and the driver asked to shut down by
\* the client, or by one made from the files.
AskShutdown(s) ==
    /\ At(s, "undo")
    /\ LET t == IF servers[s].token # 0 THEN servers[s].token ELSE token
           reached == (servers[s].token # 0 \/ Endpoint) /\ Answering(t)
           Asks(at) == servers' = [servers EXCEPT ![s].at = at,
                             ![s].then = "kill", ![s].owned = operator]
       IN  \/ /\ reached
              /\ drivers' = [drivers EXCEPT ![sock].asked = TRUE]
              /\ Asks("await")
              /\ UNCHANGED faults
           \/ /\ IF reached THEN Fault("slow") ELSE UNCHANGED faults
              /\ Asks("kill")
              /\ UNCHANGED drivers
    /\ UNCHANGED <<files, run, past, stops>>

\* Some driver is about to remove ipc.json, and can.
GoingDown(s) == /\ ~servers[s].locked
                /\ \E d \in Drivers : drivers[d].asked \/ Finalizing(d)

\* wait_for_driver_shutdown, after the request and before the files go.  When a
\* driver has gone down as it was asked to, only what the log still says is the
\* operator's pane is killed.
AwaitShutdown(s) ==
    /\ At(s, "await")
    /\ \/ /\ ~ipc
          /\ IF servers[s].then = "kill"
             THEN servers' = [servers EXCEPT ![s].at = "kill",
                                 ![s].driver = 0, ![s].owned = operator]
             ELSE Clean(s, "idle")
          /\ UNCHANGED faults
       \/ /\ ipc
          /\ IF GoingDown(s) THEN Fault("slow") ELSE UNCHANGED faults
          /\ IF servers[s].then = "kill" THEN Goes(s, "kill")
                                         ELSE Clean(s, "idle")
    /\ UNCHANGED <<files, run, drivers, past, stops>>

\* A driver after its pane was killed: the hangup ends a process that has not
\* installed its handlers, and asks another to end.
HungUp(d) == IF drivers[d].at \in {"gone", "starting"} THEN Gone
             ELSE [drivers[d] EXCEPT !.asked = TRUE]
Kill(panes) ==
    drivers' = [d \in Drivers |->
                  IF d \in panes THEN HungUp(d) ELSE drivers[d]]

\* After the panes of a launch that failed come the files; after those of a
\* startup, the wait for the driver.
AfterKill(s) ==
    IF servers[s].then \in {"drop", "idle"} THEN Goes(s, "stale")
    ELSE servers' = [servers EXCEPT ![s].at = "await", ![s].then = "idle"]

\* Mutant: the pane of a driver that does not go down is left.
KillDriverPaneNever(s) ==
    /\ At(s, "kill")
    /\ AfterKill(s)
    /\ UNCHANGED <<files, run, drivers, past, faults, stops>>

\* The panes of the driver that was launched and of the operator are killed.
\* The agents' panes, which go with them, are Delivery's.
KillDriverPane(s) ==
    /\ At(s, "kill")
    /\ LET panes == {servers[s].driver, servers[s].owned} \ {0}
       IN  \/ Kill(panes) /\ UNCHANGED <<left, faults>>
           \/ \E p \in panes :
                 /\ drivers[p].at # "gone"
                 /\ Fault("tmux")
                 /\ Kill(panes \ {p})
                 /\ left' = TRUE
    /\ AfterKill(s)
    /\ UNCHANGED <<files, run, fresh, stops>>

\* The server's client goes away, and the server with it, while the driver it
\* has launched may still come up.
ServerEnds(s) ==
    /\ ~At(s, "idle")
    /\ Stop("server")
    /\ Drop(s)
    /\ left' = (left \/ Launched(s))
    /\ UNCHANGED <<files, run, drivers, fresh, faults>>

-----------------------------------------------------------------------------
(* A driver: run_driver.                                                   *)

Runs(d, at) == drivers[d].at = at
Moves(d, at) == drivers' = [drivers EXCEPT ![d].at = at]
Exits(d) == drivers' = [drivers EXCEPT ![d] = Gone]

\* The token is read, the signal handlers are installed and the socket is looked
\* at: a live one is another driver's.
StartDriver(d) ==
    /\ Runs(d, "starting")
    /\ IF token = 0 \/ (sock # 0 /\ ~Removable) THEN Exits(d)
       ELSE drivers' = [drivers EXCEPT ![d].token = token,
               ![d].at = IF sock = 0 THEN "loading" ELSE "clearing"]
    /\ UNCHANGED <<files, run, servers, past, faults, stops>>

\* The stale socket is removed; that it has gone is an error.
ClearSocket(d) ==
    /\ Runs(d, "clearing")
    /\ IF sock # 0 THEN sock' = 0 /\ Moves(d, "loading")
                   ELSE Exits(d) /\ UNCHANGED sock
    /\ UNCHANGED <<token, ipc, run, servers, past, faults, stops>>

\* RuntimeDriverService::load, up to its last step: the logs are read.
LoadRun(d) ==
    /\ Runs(d, "loading")
    /\ \/ /\ drivers' = [drivers EXCEPT ![d].at = "registering",
                                        ![d].prior = operator]
          /\ UNCHANGED faults
       \/ Fault("load") /\ Exits(d)
    /\ manifest' = TRUE
    /\ UNCHANGED <<files, bound, operator, servers, past, stops>>

\* register_configured_operator_pane: the pane of the operator the log has told
\* of is killed, and the driver's own takes its place.
RegisterPane(d) ==
    /\ Runs(d, "registering")
    /\ \/ /\ drivers' = [e \in Drivers |->
                IF e = d THEN [drivers[d] EXCEPT !.at = "binding", !.prior = 0]
                ELSE IF e = drivers[d].prior THEN HungUp(e) ELSE drivers[e]]
          /\ operator' = d
          /\ UNCHANGED faults
       \/ /\ drivers[d].prior # 0
          /\ Fault("tmux")
          /\ Exits(d)
          /\ UNCHANGED operator
    /\ UNCHANGED <<files, manifest, bound, servers, past, stops>>

BindSocket(d) ==
    /\ Runs(d, "binding")
    /\ IF sock = 0 THEN sock' = d /\ Moves(d, "metadata")
                   ELSE Exits(d) /\ UNCHANGED sock
    /\ UNCHANGED <<token, ipc, run, servers, past, faults, stops>>

\* write_ipc_metadata: the token must be the driver's, or be missing.  A driver
\* that may not serve closes its socket and removes it.
WriteMetadata(d) ==
    /\ Runs(d, "metadata")
    /\ IF token \in {0, drivers[d].token}
       THEN /\ token' = drivers[d].token
            /\ ipc' = TRUE
            /\ Moves(d, "serving")
            /\ UNCHANGED sock
       ELSE /\ Exits(d)
            /\ sock' = IF sock = d THEN 0 ELSE sock
            /\ UNCHANGED <<token, ipc>>
    /\ UNCHANGED <<run, servers, past, faults, stops>>

\* The console's quit, or a signal.
Quit(d) ==
    /\ Runs(d, "serving")
    /\ ~drivers[d].asked
    /\ Stop("driver")
    /\ drivers' = [drivers EXCEPT ![d].asked = TRUE]
    /\ UNCHANGED <<files, run, servers, past, faults>>

Drain(d) ==
    /\ Runs(d, "serving")
    /\ drivers[d].asked
    /\ Moves(d, "draining")
    /\ UNCHANGED <<files, run, servers, past, faults, stops>>

\* It keeps answering until it has the lock; without the lock it ends at once.
StopListening(d) ==
    /\ Runs(d, "draining")
    /\ \/ LockFree /\ Moves(d, "finalizing")
       \/ ~LockFree /\ Exits(d)
    /\ UNCHANGED <<files, run, servers, past, faults, stops>>

\* finalize_for_exit, which releases the driver's pane, and what is left of the
\* socket is looked at.
FinishDriver(d) ==
    /\ Runs(d, "finalizing")
    /\ operator' = 0
    /\ Moves(d, IF sock # 0 /\ Removable THEN "closing" ELSE "leaving")
    /\ UNCHANGED <<files, manifest, bound, servers, past, faults, stops>>

CloseSocket(d) ==
    /\ Runs(d, "closing")
    /\ sock' = 0
    /\ Moves(d, "leaving")
    /\ UNCHANGED <<token, ipc, run, servers, past, faults, stops>>

\* The files go, and the lock with the process.
LeaveRun(d) ==
    /\ Runs(d, "leaving")
    /\ ipc' = FALSE /\ token' = 0
    /\ Exits(d)
    /\ UNCHANGED <<sock, run, servers, past, faults, stops>>

DriverDies(d) ==
    /\ ~Runs(d, "gone")
    /\ Stop("driver")
    /\ Exits(d)
    /\ UNCHANGED <<files, run, servers, past, faults>>

-----------------------------------------------------------------------------
ServerStep(s) ==
    \/ TakeLock(s) \/ FindClient(s) \/ Probe(s) \/ CheckSocket(s)
    \/ RemoveSocket(s) \/ CleanFiles(s) \/ WriteToken(s) \/ Launch(s)
    \/ AwaitReady(s) \/ Confirm(s) \/ Proxy(s) \/ BindRun(s)
    \/ AskShutdown(s) \/ AwaitShutdown(s) \/ KillDriverPane(s)

DriverStep(d) ==
    \/ StartDriver(d) \/ ClearSocket(d) \/ CloseSocket(d) \/ LeaveRun(d)
    \/ LoadRun(d) \/ RegisterPane(d) \/ BindSocket(d) \/ WriteMetadata(d)
    \/ Drain(d) \/ StopListening(d) \/ FinishDriver(d)

Next ==
    \/ \E s \in Servers : Request(s) \/ ServerStep(s) \/ ServerEnds(s)
    \/ \E d \in Drivers : DriverStep(d) \/ Quit(d) \/ DriverDies(d)

Spec == Init /\ [][Next]_vars

\* Processes go on with what they have begun, and somebody wants something of
\* the run again and again.
FairSpec ==
    /\ Spec
    /\ \A s \in Servers : WF_vars(ServerStep(s)) /\ WF_vars(Request(s))
    /\ \A d \in Drivers : WF_vars(DriverStep(d))

-----------------------------------------------------------------------------
(* Properties.                                                             *)

ServerAt == {"idle", "lock", "client", "probe", "stale", "unlink", "files",
             "token", "launch",
             "ready", "confirm", "request", "bind", "undo", "await", "kill"}
DriverAt == {"gone", "starting", "clearing", "loading", "registering",
             "binding", "metadata", "serving", "draining", "finalizing",
             "closing", "leaving"}

\* Every variable holds what the code's types allow.
TypeOK ==
    /\ token \in Tokens \cup {0}
    /\ {sock, operator} \subseteq Drivers \cup {0}
    /\ {ipc, manifest, bound, fresh, left} \subseteq BOOLEAN
    /\ drivers \in [Drivers -> [at : DriverAt, token : Tokens \cup {0},
                                asked : BOOLEAN, prior : Drivers \cup {0}]]
    /\ servers \in [Servers ->
          [at : ServerAt, locked : BOOLEAN,
           then : {"none", "token", "ready", "drop", "kill", "idle"},
           driver : Drivers \cup {0}, owned : Drivers \cup {0},
           token : Tokens \cup {0}]]

\* The next three are promised of a run that is being served at first, until a
\* server leaves a driver that it has launched and that may still come up: the
\* next server takes such a driver for dead as long as it has not bound its
\* socket, removes its files and starts another.  And of one failure: with two,
\* a driver that was given up on and lives on may have found a stale socket, and
\* remove the one that another driver has bound meanwhile.
Kept == ~fresh /\ ~left

\* At most one driver ever serves at a time, though servers replace drivers that
\* die and give up on those that are late, and drivers clear away what they take
\* for stale.
OneServes ==
    Kept => \A d, e \in Drivers : Listening(d) /\ Listening(e) => d = e

\* A driver that serves can be reached until it is asked to end: no cleanup
\* takes the socket, the metadata or the token of another driver.
ServingIsReached ==
    Kept => \A d \in Drivers :
        drivers[d].at = "serving" /\ ~drivers[d].asked
            => sock = d /\ ipc /\ token = drivers[d].token

\* The run is reached again and again: no failed replacement leaves it without a
\* driver for good, or with one that answers nobody.
Reached == \E s \in Servers : At(s, "request") /\ Answering(servers[s].token)
RunComesBack == []<>(Kept => Reached)

\* The documentation says of the tools of a run that they "authenticate and
\* attach to the run's driver", and that, if it exits, the server "serializes
\* replacement startup and replays durable state" (docs/architecture.md):
\* whatever driver a server has left, a run that was bound is reached again.
AlwaysAttached == []<>(~fresh => Reached)
=============================================================================
