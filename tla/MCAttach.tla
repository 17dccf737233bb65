----------------------------- MODULE MCAttach -----------------------------
(* Instances of Attach for TLC. *)
EXTENDS Attach
CONSTANTS s1, s2
OneServer == {s1}
TwoServers == {s1, s2}
AnyFault == {"slow", "tmux", "load", "refused", "server", "driver"}
\* None ends of a run just named, two of a run that is served.
TwoStops == [new \in BOOLEAN |-> IF new THEN 0 ELSE 2]
=============================================================================
