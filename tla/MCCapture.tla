----------------------------- MODULE MCCapture -----------------------------
(* Instances of Capture for TLC. *)
EXTENDS Capture
AnyFault == {"append", "commit", "tmux", "timeout", "helper"}
=============================================================================
