---------------------------- MODULE MCRuntimeFlow ----------------------------
(***************************************************************************)
(* Instances of RuntimeFlow for TLC: flows small enough to exhaust whose   *)
(* routes compete for lanes, for the limit and for the actions of a tick.  *)
(***************************************************************************)
EXTENDS RuntimeFlow

On(fact, node) == [on |-> fact, when |-> Values, each |-> NoFact, node |-> node]
Each(fact, when, artifact, node) ==
    [on |-> fact, when |-> when, each |-> artifact, node |-> node]

\* Lock k1 fans an artifact out while the board says so, lock k2 drops the
\* fan-out for a second route to the same node.
FlowRoutes ==
    [k \in {"k1", "k2"} |->
        IF k = "k1" THEN <<Each("go", {1}, "list", "work"), On("list", "sum")>>
                    ELSE <<On("list", "sum"), On("go", "sum")>>]

\* To stop, the first node needs an artifact, the last one an effect.
FlowNeeds ==
    [n \in {"plan", "work", "sum"} |->
        CASE n = "plan" -> {"list"} [] n = "work" -> {}
          [] n = "sum" -> {"seen"}]

\* One lock with one route, whose node needs an effect to stop.
ChainRoutes == [k \in {"k1"} |-> <<On("list", "sum")>>]
ChainNeeds ==
    [n \in {"plan", "sum"} |-> IF n = "plan" THEN {"list"} ELSE {"seen"}]

AnyRequest ==
    {"artifact", "board", "effect", "observe", "participant_stop", "exited",
     "activate", "fanout", "revise", "pause", "resume", "stop", "complete",
     "reconcile", "exit", "crash"}
\* Participants that end only as they were told to.
NoExited == AnyRequest \ {"exited"}

\* The run is bound with lock k1 and the lower limit; it gets the other ones by
\* a revision and by a resumption.
LowInit == Init /\ lock = "k1" /\ \A l \in Limits : limit <= l
LowSpec == LowInit /\ [][Next]_vars
=============================================================================
