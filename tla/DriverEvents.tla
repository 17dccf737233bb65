---------------------------- MODULE DriverEvents ----------------------------
(***************************************************************************)
(* The driver-event log of a run (driver-events.jsonl) and the state a     *)
(* starting driver replays from it (driver/persistence.rs): panes and      *)
(* their allocation generations, inputs under way and inputs submitted.    *)
(* The capture events, the operator's pane and the flow revisions, which   *)
(* the other fields do not depend on, are left out.                        *)
(***************************************************************************)
EXTENDS Integers, Sequences

CONSTANTS Activations,  \* activations that are given panes
          Messages,     \* identities of participant messages
          Commands      \* tmux bindings a request may ask for

\* Roles an activation is actuated by, in their order; a message is the role
\* of its own delivery.
Roles == {"launch", "prompt"}
ASSUME RolesAssumption == /\ Messages \cap Roles = {}
                          /\ "none" \notin Commands

\* What an input is delivered to: an activation, a role, a pane generation.
Keys == Activations \X (Roles \cup Messages) \X Nat

With(f, k, v) == [x \in DOMAIN f \cup {k} |-> IF x = k THEN v ELSE f[x]]
Without(f, k) == [x \in DOMAIN f \ {k} |-> f[x]]
Nothing == [x \in {} |-> 0]

\* Both sets forget the generations of a released pane's activation.
Forget(S, a) == {x \in S : x[1] # a}

\* What a service holds before any event.
Blank == [tmux        |-> "none",   \* the bound command, or "none"
          panes       |-> Nothing,  \* generation of the pane owned
          generations |-> Nothing,  \* last generation allocated
          allocating  |-> Nothing,  \* pending_tmux_allocations
          cleaning    |-> Nothing,  \* pending_tmux_cleanups: the generation
          ambiguous   |-> Nothing,  \* barriers: the event that started each
          submitted   |-> Nothing,  \* submitted deliveries: the same
          launched    |-> {},       \* agent_launch_submitted_activations
          settled     |-> {},       \* settled_actuation_activations
          started     |-> {},       \* participant_bindings
          bound       |-> {}]       \* those with a native session

-----------------------------------------------------------------------------
(* One event replayed.                                                     *)

\* Mutant: only submissions are replayed.
BarrierUnread(s, k, n) == s

Barrier(s, k, n) == [s EXCEPT !.ambiguous = With(@, k, n),
                              !.submitted = Without(@, k)]

\* delivery_event_matches: an outcome counts only against the barrier of the
\* same start.
Matches(s, k, n) == k \in DOMAIN s.ambiguous /\ s.ambiguous[k] = n

Submission(s, k, n) ==
    IF ~Matches(s, k, n)
    THEN s
    ELSE [s EXCEPT !.ambiguous = Without(@, k),
                   !.submitted = With(@, k, n),
                   !.launched = IF k[2] \in Roles
                                THEN @ \cup {<<k[1], k[3]>>} ELSE @,
                   !.settled = IF k[2] = "prompt"
                               THEN @ \cup {<<k[1], k[3]>>} ELSE @]

Refusal(s, k, n) ==
    IF ~Matches(s, k, n)
    THEN s
    ELSE [s EXCEPT !.ambiguous = Without(@, k),
                   !.submitted = Without(@, k)]

\* barriers is a function from keys to the events that started them.
Released(s, a, barriers) ==
    [s EXCEPT !.panes = Without(@, a),
              !.allocating = Without(@, a),
              !.launched = Forget(@, a),
              !.settled = Forget(@, a),
              !.submitted = [k \in DOMAIN @ \ DOMAIN barriers |-> @[k]],
              !.ambiguous = [k \in DOMAIN @ \cup DOMAIN barriers |->
                                IF k \in DOMAIN barriers
                                THEN barriers[k] ELSE @[k]]]

\* Mutant: the allocation stays pending.
AllocatedPending(s, a, g) == [s EXCEPT !.panes = With(@, a, g),
                                       !.generations = With(@, a, g)]

Allocated(s, a, g) == [s EXCEPT !.panes = With(@, a, g),
                                !.generations = With(@, a, g),
                                !.allocating = Without(@, a)]

\* Mutant: receipts are written and never read.
ReceiptUnread(s, a, g) == s

Receipt(s, a, g) ==
    IF a \in DOMAIN s.cleaning /\ s.cleaning[a] = g
    THEN [s EXCEPT !.cleaning = Without(@, a)] ELSE s

\* A participant is started with its pane, and bound to a session.
ParticipantStarted(s, p) == [s EXCEPT !.started = @ \cup {p}]
ParticipantBound(s, p) == [s EXCEPT !.bound = @ \cup {p}]

\* from_payload: the event that started a delivery is named, or is this one.
StartedAt(e) == IF "started" \in DOMAIN e THEN e.started ELSE e.seq

\* The body of replay_driver_events' loop.
Replayed(s, e) ==
    CASE e.kind = "tmux_bound" ->
            [s EXCEPT !.tmux = e.command, !.panes = Nothing]
      [] e.kind = "tmux_pane_allocation_intent" ->
            [s EXCEPT !.allocating = With(@, e.act, e.intent)]
      [] e.kind = "tmux_pane_allocated" ->
            IF s.tmux = "none" THEN s ELSE Allocated(s, e.act, e.gen)
      [] e.kind = "tmux_pane_cleanup_intent" ->
            [s EXCEPT !.cleaning = With(@, e.act, e.gen)]
      [] e.kind = "tmux_pane_cleanup_receipt" -> Receipt(s, e.act, e.gen)
      [] e.kind = "tmux_panes_released" ->
            IF s.tmux = "none" THEN s ELSE Released(s, e.act, e.barriers)
      [] e.kind = "input_delivery_started" -> Barrier(s, e.key, StartedAt(e))
      [] e.kind = "input_delivery_submitted" -> Submission(s, e.key, e.started)
      [] e.kind = "input_delivery_not_submitted" -> Refusal(s, e.key, e.started)
      [] e.kind = "participant_started" ->
            ParticipantStarted(s, <<e.act, e.gen>>)
      [] e.kind = "participant_bound" ->
            ParticipantBound(s, <<e.act, e.gen>>)

\* The state replayed from a log.
Replay(log) ==
    LET upTo[i \in 0..Len(log)] ==
            IF i = 0 THEN Blank ELSE Replayed(upTo[i - 1], log[i])
    IN  upTo[Len(log)]
=============================================================================
