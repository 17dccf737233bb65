------------------------------ MODULE InputOnce ------------------------------
(***************************************************************************)
(* What the driver promises of the inputs it types into tmux panes: an     *)
(* input is typed once, and again only after an operator has said that it  *)
(* did not arrive.  There is no log, no pane and no crash here.            *)
(***************************************************************************)
EXTENDS Naturals

CONSTANT Inputs         \* what may be typed

VARIABLE typed          \* how often each was, since an operator's word

Init == typed = [i \in Inputs |-> 0]

Type(i) == /\ typed[i] = 0
           /\ typed' = [typed EXCEPT ![i] = 1]

\* An operator has evidence that the input did not arrive.
Clear(i) == typed' = [typed EXCEPT ![i] = 0]

Next == \E i \in Inputs : Type(i) \/ Clear(i)

Spec == Init /\ [][Next]_typed
=============================================================================
