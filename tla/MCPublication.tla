---------------------------- MODULE MCPublication ----------------------------
(***************************************************************************)
(* Instances of Publication for TLC.  Three requests let one fail, one     *)
(* find what it left and one come after; two events make batches that can  *)
(* be applied in part; two faults let the recovery of the first fail.      *)
(***************************************************************************)
EXTENDS Publication

IpcEntries == {"ipc"}
ConsoleEntries == {"ipc", "console"}
AllEntries == {"ipc", "console", "exit"}
=============================================================================
