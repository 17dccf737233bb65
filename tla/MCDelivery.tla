----------------------------- MODULE MCDelivery -----------------------------
(***************************************************************************)
(* Instances of Delivery for TLC.  One activation has every step of a      *)
(* cleanup, an allocation and a delivery to fail or crash in.              *)
(***************************************************************************)
EXTENDS Delivery

CONSTANTS a1, m1, c1
OneActivation == {a1}
NoMessages == {}
OneMessage == {m1}
OneCommand == {c1}
NoFaults == {}
AnyFault == {"append_lost", "append_kept", "tmux", "commit"}
=============================================================================
