---------------------------- MODULE CommittedLog ----------------------------
(***************************************************************************)
(* What the driver's commit pipeline promises a client, without files,     *)
(* crashes or a program counter.  A request commits all of its runtime     *)
(* events or none, once; the next one commits only when the public journal *)
(* has heard of everything before it; a client that is told "ok" has its   *)
(* events committed, published and acknowledged.                           *)
(***************************************************************************)
EXTENDS Naturals, Sequences, SequencesExt

CONSTANTS Requests,     \* identities of the requests clients may issue
          MaxBatch      \* most runtime events one request may produce

VARIABLES committed,    \* request that caused each committed runtime event
          announced,    \* how many of them the public journal tells of
          acked,        \* how many belong to acknowledged transactions
          answered      \* requests whose client was told "ok"

vars == <<committed, announced, acked, answered>>

Init == /\ committed = <<>>
        /\ announced = 0
        /\ acked = 0
        /\ answered = {}

\* A fresh request commits its whole batch once everything earlier is settled.
Commit(r, n) ==
    /\ acked = Len(committed)
    /\ r \notin ToSet(committed)
    /\ committed' = committed \o [i \in 1..n |-> r]
    /\ UNCHANGED <<announced, acked, answered>>

\* The public journal learns of the committed events one by one, in order.
Announce ==
    /\ announced < Len(committed)
    /\ announced' = announced + 1
    /\ UNCHANGED <<committed, acked, answered>>

\* The batch is settled; its client hears of it now, or never.
Acknowledge ==
    /\ acked < Len(committed)
    /\ announced = Len(committed)
    /\ acked' = Len(committed)
    /\ answered' \in {answered, answered \cup {Last(committed)}}
    /\ UNCHANGED <<committed, announced>>

Next == \/ \E r \in Requests, n \in 1..MaxBatch : Commit(r, n)
        \/ Announce
        \/ Acknowledge

Spec == Init /\ [][Next]_vars
=============================================================================
