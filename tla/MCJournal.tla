----------------------------- MODULE MCJournal -----------------------------
(* Instances of Journal for TLC. *)
EXTENDS Journal, TLC
CONSTANTS a1, a2
One == {a1}
Two == {a1, a2}
Symmetry == Permutations(Two)
NoFaults == {}
AnyFault == {"io", "torn", "kept", "tmux"}
=============================================================================
