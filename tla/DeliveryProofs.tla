--------------------------- MODULE DeliveryProofs ---------------------------
(***************************************************************************)
(* Proofs about Delivery, for any activations, messages, commands, bounds  *)
(* and kinds of failure: inputs are typed once, a reconciliation leaves no *)
(* activation behind, and a restart takes up what the service had.         *)
(*                                                                         *)
(* What keeps an input from being typed again is in the service's fields   *)
(* while the driver lives and in its log when it dies, and the two differ  *)
(* when an append has failed with its line durable.  Safe says of either   *)
(* that it accounts for every input typed into a pane that it owns or may  *)
(* own, Agree how far the log may be ahead of the service, and both hold   *)
(* through every event (Both).  Control, Allots and Actuates say where an  *)
(* operation may be and what it knows there, Attended that it has lost     *)
(* sight of no activation.                                                 *)
(*                                                                         *)
(* The second half is about the log itself: what an event does to each     *)
(* field of the state it is replayed to (Steps), and what a step of the    *)
(* driver writes (WritesKeeps).  From these follow that log and service    *)
(* are the same unless an append has failed (SyncInv), that barriers and   *)
(* submissions are numbered apart (NumberInv), that the log leads to every *)
(* pane there is (OrphanInv), and that a driver which starts refuses none  *)
(* of the cleanups it finds in it (RestartInv).                            *)
(***************************************************************************)
EXTENDS Delivery, TLAPS

-----------------------------------------------------------------------------
(* Replay.                                                                 *)

\* f holds the states replayed from the first i events of a log.
Replays(f, log) ==
    f = [i \in 0..Len(log) |->
            IF i = 0 THEN Blank ELSE Replayed(f[i - 1], log[i])]

\* There is one such function, which Replay therefore evaluates.
Replayable(log) ==
    /\ \E S : log \in Seq(S)
    /\ \E f : Replays(f, log) /\ \A g : Replays(g, log) => g = f

\* Where that function is unique, Replay is its last value.
LEMMA ReplayIs ==
    ASSUME NEW log, NEW f, Replays(f, log), \A g : Replays(g, log) => g = f
    PROVE  Replay(log) = f[Len(log)]
<1>1. (CHOOSE g : Replays(g, log)) = f
  OBVIOUS
<1>2. Replay(log) = (CHOOSE g : Replays(g, log))[Len(log)]
  BY DEF Replay, Replays
<1>3. QED
  BY <1>1, <1>2

\* Nothing replays to Blank.
LEMMA ReplayNone == Replayable(<<>>) /\ Replay(<<>>) = Blank
<1> DEFINE f == [i \in 0..0 |-> Blank]
<1>1. <<>> \in Seq({}) /\ Len(<<>>) = 0
  OBVIOUS
<1>2. Replays(f, <<>>)
  BY <1>1 DEF Replays
<1>3. \A g : Replays(g, <<>>) => g = f
  BY <1>1 DEF Replays
<1>4. f[0] = Blank
  OBVIOUS
<1> HIDE DEF f
<1>5. QED
  BY <1>1, <1>2, <1>3, <1>4, ReplayIs DEF Replayable

\* A line appended is one event replayed.
LEMMA ReplayAppend ==
    ASSUME NEW log, NEW e, Replayable(log)
    PROVE  /\ Replayable(Append(log, e))
           /\ Replay(Append(log, e)) = Replayed(Replay(log), e)
<1> DEFINE n == Len(log)
           new == Append(log, e)
<1>1. PICK S : log \in Seq(S)
  BY DEF Replayable
<1>2. n \in Nat /\ log \in Seq(S \cup {e})
  BY <1>1
<1>3. new \in Seq(S \cup {e}) /\ Len(new) = n + 1
      /\ (\A i \in 1..n : new[i] = log[i]) /\ new[n + 1] = e
  BY <1>2
<1>4. PICK f : Replays(f, log) /\ \A g : Replays(g, log) => g = f
  BY DEF Replayable
<1> DEFINE h == [i \in 0..n + 1 |-> IF i <= n THEN f[i]
                                     ELSE Replayed(f[n], e)]
<1> HIDE DEF n, new
<1>5. /\ f[0] = Blank
      /\ \A i \in 1..n : f[i] = Replayed(f[i - 1], log[i])
      /\ f = [i \in 0..n |-> f[i]]
  BY <1>2, <1>4 DEF Replays, n
<1>6. Replays(h, new)
  <2>1. ASSUME NEW i \in 0..n + 1
        PROVE  h[i] = IF i = 0 THEN Blank ELSE Replayed(h[i - 1], new[i])
    <3>1. CASE i = 0
      BY <1>2, <1>5, <3>1
    <3>2. CASE i \in 1..n
      <4>1. /\ i - 1 \in 0..n + 1 /\ i - 1 <= n
            /\ i \in 0..n + 1 /\ i <= n /\ i # 0
        BY <1>2, <3>2
      <4>2. h[i] = f[i] /\ h[i - 1] = f[i - 1]
        BY <4>1
      <4>3. QED
        BY <1>3, <1>5, <3>2, <4>1, <4>2
    <3>3. CASE i = n + 1
      <4>1. /\ i - 1 = n /\ n \in 0..n + 1 /\ n <= n
            /\ ~(i <= n) /\ i # 0
        BY <1>2, <3>3
      <4>2. h[i] = Replayed(f[n], e) /\ h[i - 1] = f[n]
        BY <4>1
      <4>3. QED
        BY <1>3, <3>3, <4>1, <4>2
    <3>4. QED
      BY <1>2, <3>1, <3>2, <3>3
  <2>2. QED
    BY <1>3, <2>1 DEF Replays
<1>7. ASSUME NEW g, Replays(g, new)
      PROVE  g = h
  <2> DEFINE r == [i \in 0..n |-> g[i]]
  <2>1. /\ g[0] = Blank
        /\ \A i \in 1..n + 1 : g[i] = Replayed(g[i - 1], new[i])
        /\ g = [i \in 0..n + 1 |-> g[i]]
    BY <1>2, <1>3, <1>7 DEF Replays
  <2>2. Replays(r, log)
    <3>1. ASSUME NEW i \in 0..n
          PROVE  r[i] = IF i = 0 THEN Blank ELSE Replayed(r[i - 1], log[i])
      <4>1. CASE i = 0
        BY <2>1, <4>1
      <4>2. CASE i # 0
        <5>1. i \in 1..n /\ i \in 1..n + 1 /\ i - 1 \in 0..n
          BY <1>2, <4>2
        <5>2. r[i] = g[i] /\ r[i - 1] = g[i - 1]
          BY <5>1
        <5>3. QED
          BY <1>3, <2>1, <4>2, <5>1, <5>2
      <4>3. QED
        BY <4>1, <4>2
    <3>2. QED
      BY <3>1 DEF Replays, n
  <2>3. \A i \in 0..n : g[i] = f[i]
    BY <1>4, <2>2
  <2>4. ASSUME NEW i \in 0..n + 1
        PROVE  g[i] = h[i]
    <3>1. CASE i \in 0..n
      BY <1>2, <2>3, <3>1
    <3>2. CASE i = n + 1
      <4>1. /\ i - 1 = n /\ i \in 1..n + 1 /\ n \in 0..n /\ ~(i <= n)
        BY <1>2, <3>2
      <4>2. g[i] = Replayed(f[n], e)
        BY <1>3, <2>1, <2>3, <3>2, <4>1
      <4>3. QED
        BY <4>1, <4>2
    <3>3. QED
      BY <1>2, <3>1, <3>2
  <2>5. QED
    BY <2>1, <2>4
<1>8. h[n + 1] = Replayed(f[n], e) /\ f[n] = Replay(log)
  BY <1>2, <1>4, ReplayIs DEF n
<1> HIDE DEF h
<1>9. QED
  BY <1>3, <1>6, <1>7, <1>8, ReplayIs DEF Replayable, new

-----------------------------------------------------------------------------
(* What a service holds, and when it is safe to go on from it.             *)

\* The record of Blank, whatever its fields hold.
Shape(s) ==
    s = [tmux |-> s.tmux, panes |-> s.panes, generations |-> s.generations,
         allocating |-> s.allocating, cleaning |-> s.cleaning,
         ambiguous |-> s.ambiguous, submitted |-> s.submitted,
         launched |-> s.launched, settled |-> s.settled,
         started |-> s.started, bound |-> s.bound]

Numbered(s) ==
    /\ DOMAIN s.panes \subseteq Activations
    /\ DOMAIN s.allocating \subseteq Activations
    /\ \A a \in DOMAIN s.panes : s.panes[a] \in Nat
    /\ \A a \in DOMAIN s.generations : s.generations[a] \in Nat
    /\ \A a \in DOMAIN s.allocating :
          /\ s.allocating[a].gen \in Nat
          /\ s.allocating[a].command # "none"

\* The inputs of activations that were typed, by the counts y.
RoleKeys == Activations \X Roles \X Generations
Sent(y) == {k \in RoleKeys : y[k] # 0}

WasSubmitted(s, k) ==
    \/ k[2] = "launch" /\ <<k[1], k[3]>> \in s.launched
    \/ k[2] = "prompt" /\ <<k[1], k[3]>> \in s.settled

\* An input that was typed into a pane that is owned is in doubt or known.
RolesKept(s, y) ==
    \A k \in Sent(y) : k[1] \in DOMAIN s.panes /\ s.panes[k[1]] = k[3]
                          => k \in DOMAIN s.ambiguous \/ WasSubmitted(s, k)

MessagesKept(s, y) ==
    \A m \in Messages : y[m] # 0
        => \E k \in DOMAIN s.ambiguous \cup DOMAIN s.submitted : k[2] = m

\* Generations only grow: none that was typed into comes back.
GenerationsKept(s, y) ==
    \A k \in Sent(y) : k[1] \in DOMAIN s.generations
                          /\ k[3] <= s.generations[k[1]]

PanesKnown(s) ==
    \A a \in DOMAIN s.panes :
        /\ a \in DOMAIN s.generations /\ s.panes[a] <= s.generations[a]
        /\ a \notin DOMAIN s.allocating
        /\ s.tmux # "none"

IntentsNew(s, y) ==
    \A a \in DOMAIN s.allocating :
        /\ a \in DOMAIN s.generations
              => s.generations[a] <= s.allocating[a].gen
        /\ \A k \in Sent(y) : k[1] = a => k[3] # s.allocating[a].gen

Safe(s, y) ==
    /\ Shape(s) /\ Numbered(s)
    /\ RolesKept(s, y) /\ MessagesKept(s, y) /\ GenerationsKept(s, y)
    /\ PanesKnown(s) /\ IntentsNew(s, y)
    /\ s.settled \subseteq s.launched

\* What the service holds, h, and what its log replays to, l, which a failed
\* append may have taken further.
Agree(h, l) ==
    /\ h.tmux # "none" => l.tmux # "none"
    /\ \A a \in DOMAIN h.panes :
          /\ a \notin DOMAIN l.allocating
          /\ a \in DOMAIN l.generations /\ h.panes[a] <= l.generations[a]
    /\ \A a \in DOMAIN l.generations :
          /\ a \in DOMAIN h.allocating
                => l.generations[a] <= h.allocating[a].gen
          /\ a \notin DOMAIN h.allocating
                => /\ a \in DOMAIN h.generations
                   /\ l.generations[a] <= h.generations[a]
    /\ \A a \in DOMAIN l.panes \ DOMAIN h.panes : a \in DOMAIN h.allocating

Both(h, l, y) == Safe(h, y) /\ Safe(l, y) /\ Agree(h, l)

\* A run in which nothing was typed.
LEMMA BlankSafe ==
    ASSUME NEW y, \A i \in InputIds : y[i] = 0
    PROVE  Both(Blank, Blank, y)
<1>1. Sent(y) = {} /\ \A m \in Messages : y[m] = 0
  BY DEF Sent, RoleKeys, InputIds
<1>2. QED
  BY <1>1 DEF Both, Agree, Safe, Shape, Numbered, RolesKept, MessagesKept,
              GenerationsKept, PanesKnown, IntentsNew, Blank, Nothing

\* A driver that starts holds what the log replays to.
LEMMA LoadedBoth ==
    ASSUME NEW l, NEW y, Safe(l, y)
    PROVE  Both(l, l, y)
BY DEF Both, Agree, Safe, PanesKnown, IntentsNew, Numbered

-----------------------------------------------------------------------------
(* What each event does to both.                                           *)

\* Nothing that matters here.
Like(s, t) ==
    /\ Shape(t)
    /\ t.tmux = s.tmux /\ t.panes = s.panes /\ t.generations = s.generations
    /\ t.allocating = s.allocating /\ t.ambiguous = s.ambiguous
    /\ t.submitted = s.submitted /\ t.launched = s.launched
    /\ t.settled = s.settled

\* What is safe stays so when nothing that matters changes.
LEMMA LikeSafe ==
    ASSUME NEW s, NEW t, NEW y, Safe(s, y), Like(s, t)
    PROVE  Safe(t, y)
BY DEF Like, Safe, Numbered, RolesKept, MessagesKept, GenerationsKept,
       PanesKnown, IntentsNew, WasSubmitted

LEMMA LikeBoth ==
    ASSUME NEW h, NEW l, NEW t, NEW u, NEW y, Both(h, l, y),
           Like(h, t), Like(l, u)
    PROVE  Both(t, u, y)
<1>1. Safe(t, y) /\ Safe(u, y)
  BY LikeSafe DEF Both
<1>2. Agree(t, u)
  BY DEF Both, Agree, Like
<1>3. QED
  BY <1>1, <1>2 DEF Both

\* tmux_bound, replayed.
BoundTo(s, c) == [s EXCEPT !.tmux = c, !.panes = Nothing]

\* tmux_bound forgets every pane.
LEMMA BoundSafe ==
    ASSUME NEW s, NEW y, Safe(s, y), NEW c, NEW t, t = BoundTo(s, c)
    PROVE  /\ Safe(t, y) /\ t.tmux = c /\ DOMAIN t.panes = {}
           /\ t.allocating = s.allocating /\ t.generations = s.generations
<1>1. /\ Shape(t) /\ t.tmux = c /\ t.panes = Nothing
      /\ t.allocating = s.allocating /\ t.generations = s.generations
      /\ t.ambiguous = s.ambiguous /\ t.submitted = s.submitted
      /\ t.launched = s.launched /\ t.settled = s.settled
  BY DEF BoundTo, Shape, Safe
<1>2. DOMAIN t.panes = {}
  BY <1>1 DEF Nothing
<1>3. QED
  BY <1>1, <1>2 DEF Safe, Numbered, RolesKept, MessagesKept,
              GenerationsKept, PanesKnown, IntentsNew, WasSubmitted

\* The service that keeps its panes.
LEMMA RenamedSafe ==
    ASSUME NEW s, NEW y, Safe(s, y), NEW c, c # "none", NEW t,
           t = [s EXCEPT !.tmux = c]
    PROVE  /\ Safe(t, y) /\ t.tmux = c /\ t.panes = s.panes
           /\ t.allocating = s.allocating /\ t.generations = s.generations
<1>1. /\ Shape(t) /\ t.tmux = c /\ t.panes = s.panes
      /\ t.allocating = s.allocating /\ t.generations = s.generations
      /\ t.ambiguous = s.ambiguous /\ t.submitted = s.submitted
      /\ t.launched = s.launched /\ t.settled = s.settled
  BY DEF Shape, Safe
<1>2. QED
  BY <1>1 DEF Safe, Numbered, RolesKept, MessagesKept,
              GenerationsKept, PanesKnown, IntentsNew, WasSubmitted

\* The service may have been told of it or not, and keep its panes or not.
LEMMA BoundBoth ==
    ASSUME NEW h, NEW l, NEW y, Both(h, l, y), NEW c, c # "none", NEW t,
           \/ t = h
           \/ t = BoundTo(h, c)
           \/ t = [h EXCEPT !.tmux = c]
    PROVE  Both(t, BoundTo(l, c), y)
<1> DEFINE u == BoundTo(l, c)
<1>1. /\ Safe(u, y) /\ u.tmux = c /\ DOMAIN u.panes = {}
      /\ u.allocating = l.allocating /\ u.generations = l.generations
  BY BoundSafe DEF Both
<1>2. CASE t = h
  BY <1>1, <1>2 DEF Both, Agree
<1>3. CASE t = BoundTo(h, c)
  <2>1. /\ Safe(t, y) /\ t.tmux = c /\ DOMAIN t.panes = {}
        /\ t.allocating = h.allocating /\ t.generations = h.generations
    BY <1>3, BoundSafe DEF Both
  <2>2. QED
    BY <1>1, <2>1 DEF Both, Agree
<1>4. CASE t = [h EXCEPT !.tmux = c]
  <2>1. /\ Safe(t, y) /\ t.tmux = c /\ t.panes = h.panes
        /\ t.allocating = h.allocating /\ t.generations = h.generations
    BY <1>4, RenamedSafe DEF Both
  <2>2. QED
    BY <1>1, <2>1 DEF Both, Agree
<1>5. QED
  BY <1>2, <1>3, <1>4

\* tmux_pane_allocation_intent, replayed.
Wanted(s, a, i) == [s EXCEPT !.allocating = With(@, a, i)]

\* An intent of a generation that nothing was typed into.
LEMMA IntendedSafe ==
    ASSUME NEW s, NEW y, Safe(s, y),
           NEW a \in Activations, NEW i, i.gen \in Nat, i.command # "none",
           a \notin DOMAIN s.panes,
           a \in DOMAIN s.generations => s.generations[a] <= i.gen,
           \A k \in Sent(y) : k[1] = a => k[3] # i.gen,
           NEW t, t = Wanted(s, a, i)
    PROVE  /\ Safe(t, y) /\ t.tmux = s.tmux /\ t.panes = s.panes
           /\ t.allocating = With(s.allocating, a, i)
           /\ t.generations = s.generations
<1>1. /\ Shape(t) /\ t.tmux = s.tmux /\ t.panes = s.panes
      /\ t.allocating = With(s.allocating, a, i)
      /\ t.generations = s.generations
      /\ t.ambiguous = s.ambiguous /\ t.submitted = s.submitted
      /\ t.launched = s.launched /\ t.settled = s.settled
  BY DEF Wanted, Shape, Safe
<1>2. /\ DOMAIN t.allocating = DOMAIN s.allocating \cup {a}
      /\ t.allocating[a] = i
      /\ \A b \in DOMAIN s.allocating \ {a} :
            t.allocating[b] = s.allocating[b]
  BY <1>1 DEF With
<1>3. Numbered(t) /\ PanesKnown(t)
  BY <1>1, <1>2 DEF Safe, Numbered, PanesKnown
<1>4. IntentsNew(t, y)
  BY <1>1, <1>2 DEF Safe, IntentsNew
<1>5. QED
  BY <1>1, <1>3, <1>4 DEF Safe, RolesKept, MessagesKept, GenerationsKept,
                          WasSubmitted

\* The generation after the last, of an activation that has no pane.
LEMMA IntendedBoth ==
    ASSUME NEW h, NEW l, NEW y, Both(h, l, y),
           NEW a \in Activations, NEW i,
           a \notin DOMAIN h.panes, a \notin DOMAIN h.allocating,
           i.gen = IF a \in DOMAIN h.generations
                   THEN h.generations[a] + 1 ELSE 0,
           i.command # "none",
           NEW t, t = h \/ t = Wanted(h, a, i)
    PROVE  Both(t, Wanted(l, a, i), y)
<1> DEFINE u == Wanted(l, a, i)
<1>1. a \notin DOMAIN l.panes
  BY DEF Both, Agree
<1>2. i.gen \in Nat
  BY DEF Both, Safe, Numbered
<1>3. \A k \in Sent(y) : k[1] = a => k[3] # i.gen
  <2>1. \A k \in Sent(y) : k[3] \in Int
    BY DEF Sent, RoleKeys, Generations
  <2>2. QED
    BY <2>1 DEF Both, Safe, GenerationsKept, Numbered
<1>4. a \in DOMAIN l.generations => l.generations[a] <= i.gen
  BY DEF Both, Agree, Safe, Numbered
<1>5. a \in DOMAIN h.generations => h.generations[a] <= i.gen
  BY DEF Both, Safe, Numbered
<1>6. /\ Safe(u, y) /\ u.tmux = l.tmux /\ u.panes = l.panes
      /\ u.allocating = With(l.allocating, a, i)
      /\ u.generations = l.generations
  BY <1>1, <1>2, <1>3, <1>4, IntendedSafe DEF Both
<1>7. DOMAIN u.allocating = DOMAIN l.allocating \cup {a}
  BY <1>6 DEF With
<1>8. CASE t = h
  BY <1>6, <1>7, <1>8 DEF Both, Agree
<1>9. CASE t = Wanted(h, a, i)
  <2>1. /\ Safe(t, y) /\ t.tmux = h.tmux /\ t.panes = h.panes
        /\ t.allocating = With(h.allocating, a, i)
        /\ t.generations = h.generations
    BY <1>9, <1>2, <1>3, <1>5, IntendedSafe DEF Both
  <2>2. /\ DOMAIN t.allocating = DOMAIN h.allocating \cup {a}
        /\ t.allocating[a] = i
        /\ \A b \in DOMAIN h.allocating \ {a} :
              t.allocating[b] = h.allocating[b]
    BY <2>1 DEF With
  <2>3. Agree(t, u)
    BY <1>4, <1>6, <1>7, <2>1, <2>2 DEF Both, Agree
  <2>4. QED
    BY <1>6, <2>1, <2>3 DEF Both
<1>10. QED
  BY <1>8, <1>9

\* tmux_pane_allocated.
LEMMA AllocatedSafe ==
    ASSUME NEW s, NEW y, Safe(s, y),
           NEW a \in Activations, NEW g \in Nat,
           s.tmux # "none",
           a \in DOMAIN s.generations => s.generations[a] <= g,
           \A k \in Sent(y) : k[1] = a => k[3] # g,
           NEW t, t = Allocated(s, a, g)
    PROVE  /\ Safe(t, y) /\ t.tmux = s.tmux
           /\ t.panes = With(s.panes, a, g)
           /\ t.allocating = Without(s.allocating, a)
           /\ t.generations = With(s.generations, a, g)
<1>1. /\ Shape(t) /\ t.tmux = s.tmux
      /\ t.panes = With(s.panes, a, g)
      /\ t.allocating = Without(s.allocating, a)
      /\ t.generations = With(s.generations, a, g)
      /\ t.ambiguous = s.ambiguous /\ t.submitted = s.submitted
      /\ t.launched = s.launched /\ t.settled = s.settled
  BY DEF Allocated, Shape, Safe
<1>2. /\ DOMAIN t.panes = DOMAIN s.panes \cup {a} /\ t.panes[a] = g
      /\ \A b \in DOMAIN s.panes \ {a} : t.panes[b] = s.panes[b]
  BY <1>1 DEF With
<1>3. /\ DOMAIN t.generations = DOMAIN s.generations \cup {a}
      /\ t.generations[a] = g
      /\ \A b \in DOMAIN s.generations \ {a} :
            t.generations[b] = s.generations[b]
  BY <1>1 DEF With
<1>4. /\ DOMAIN t.allocating = DOMAIN s.allocating \ {a}
      /\ \A b \in DOMAIN t.allocating : t.allocating[b] = s.allocating[b]
  BY <1>1 DEF Without
<1>5. Numbered(t)
  BY <1>2, <1>3, <1>4 DEF Safe, Numbered
<1>6. PanesKnown(t)
  BY <1>1, <1>2, <1>3, <1>4 DEF Safe, PanesKnown
<1>7. IntentsNew(t, y)
  BY <1>3, <1>4 DEF Safe, IntentsNew
<1>8. GenerationsKept(t, y)
  <2>1. \A k \in Sent(y) : k[3] \in Int
    BY DEF Sent, RoleKeys, Generations
  <2>2. QED
    BY <1>3, <2>1 DEF Safe, GenerationsKept, Numbered
<1>9. RolesKept(t, y)
  BY <1>1, <1>2 DEF Safe, RolesKept, WasSubmitted
<1>10. QED
  BY <1>1, <1>5, <1>6, <1>7, <1>8, <1>9 DEF Safe, MessagesKept

\* A pane that was wanted, once the binding is known.
LEMMA AllocatedBoth ==
    ASSUME NEW h, NEW l, NEW y, Both(h, l, y), h.tmux # "none",
           NEW a \in DOMAIN h.allocating, NEW g, g = h.allocating[a].gen,
           NEW t, t = h \/ t = Allocated(h, a, g)
    PROVE  Both(t, Allocated(l, a, g), y)
<1> DEFINE u == Allocated(l, a, g)
<1>1. /\ g \in Nat /\ a \in Activations
      /\ \A k \in Sent(y) : k[1] = a => k[3] # g
      /\ a \in DOMAIN h.generations => h.generations[a] <= g
      /\ a \in DOMAIN l.generations => l.generations[a] <= g
      /\ l.tmux # "none"
  BY DEF Both, Agree, Safe, Numbered, IntentsNew
<1>2. /\ Safe(u, y) /\ u.tmux = l.tmux
      /\ u.panes = With(l.panes, a, g)
      /\ u.allocating = Without(l.allocating, a)
      /\ u.generations = With(l.generations, a, g)
  BY <1>1, AllocatedSafe DEF Both
<1>3. /\ DOMAIN u.panes = DOMAIN l.panes \cup {a}
      /\ DOMAIN u.allocating = DOMAIN l.allocating \ {a}
      /\ DOMAIN u.generations = DOMAIN l.generations \cup {a}
      /\ u.generations[a] = g
      /\ \A b \in DOMAIN l.generations \ {a} :
            u.generations[b] = l.generations[b]
  BY <1>2 DEF With, Without
<1>4. CASE t = h
  <2>1. a \notin DOMAIN h.panes
    BY DEF Both, Safe, PanesKnown
  <2>2. Agree(h, u)
    BY <1>1, <1>2, <1>3, <2>1 DEF Both, Agree
  <2>3. QED
    BY <1>2, <1>4, <2>2 DEF Both
<1>5. CASE t = Allocated(h, a, g)
  <2>1. /\ Safe(t, y) /\ t.tmux = h.tmux
        /\ t.panes = With(h.panes, a, g)
        /\ t.allocating = Without(h.allocating, a)
        /\ t.generations = With(h.generations, a, g)
    BY <1>1, <1>5, AllocatedSafe DEF Both
  <2>2. /\ DOMAIN t.panes = DOMAIN h.panes \cup {a} /\ t.panes[a] = g
        /\ \A b \in DOMAIN h.panes \ {a} : t.panes[b] = h.panes[b]
    BY <2>1 DEF With
  <2>3. /\ DOMAIN t.allocating = DOMAIN h.allocating \ {a}
        /\ \A b \in DOMAIN t.allocating : t.allocating[b] = h.allocating[b]
    BY <2>1 DEF Without
  <2>4. /\ DOMAIN t.generations = DOMAIN h.generations \cup {a}
        /\ t.generations[a] = g
        /\ \A b \in DOMAIN h.generations \ {a} :
              t.generations[b] = h.generations[b]
    BY <2>1 DEF With
  <2>5. Agree(t, u)
    BY <1>1, <1>2, <1>3, <2>1, <2>2, <2>3, <2>4 DEF Both, Agree
  <2>6. QED
    BY <1>2, <2>1, <2>5 DEF Both
<1>6. QED
  BY <1>4, <1>5

\* Bounds are numbers, and so are generations.
LEMMA GenerationsNat == Generations \subseteq Nat
BY BoundsAssumption DEF Generations

\* The update of the service by release_tmux_panes.
GivenUp(s, a, barriers) ==
    [WithBarriers(s, barriers) EXCEPT !.panes = Without(@, a),
                                      !.launched = Forget(@, a),
                                      !.settled = Forget(@, a)]

LEMMA WithBarriersSafe ==
    ASSUME NEW s, Shape(s), NEW b, NEW w, w = WithBarriers(s, b)
    PROVE  /\ Shape(w) /\ w.tmux = s.tmux /\ w.panes = s.panes
           /\ w.allocating = s.allocating /\ w.generations = s.generations
           /\ DOMAIN w.ambiguous = DOMAIN s.ambiguous \cup DOMAIN b
           /\ DOMAIN w.submitted = DOMAIN s.submitted \ DOMAIN b
           /\ w.launched = s.launched /\ w.settled = s.settled
BY DEF WithBarriers, Shape

\* tmux_panes_released: barriers only add to what is in doubt.
LEMMA ReleasedSafe ==
    ASSUME NEW s, NEW y, Safe(s, y), NEW a, NEW barriers, NEW t,
           \/ t = Released(s, a, barriers)
           \/ t = GivenUp(s, a, barriers)
    PROVE  /\ Safe(t, y) /\ t.tmux = s.tmux
           /\ t.panes = Without(s.panes, a)
           /\ t.allocating \in {s.allocating, Without(s.allocating, a)}
           /\ t.generations = s.generations
<1>1. /\ Shape(t) /\ t.tmux = s.tmux
      /\ t.panes = Without(s.panes, a)
      /\ t.allocating \in {s.allocating, Without(s.allocating, a)}
      /\ t.generations = s.generations
      /\ DOMAIN t.ambiguous = DOMAIN s.ambiguous \cup DOMAIN barriers
      /\ DOMAIN t.submitted = DOMAIN s.submitted \ DOMAIN barriers
      /\ t.launched = Forget(s.launched, a)
      /\ t.settled = Forget(s.settled, a)
  <2>1. CASE t = Released(s, a, barriers)
    BY <2>1 DEF Released, Shape, Safe
  <2>2. CASE t = GivenUp(s, a, barriers)
    <3> DEFINE w == WithBarriers(s, barriers)
    <3>1. /\ Shape(w) /\ w.tmux = s.tmux /\ w.panes = s.panes
          /\ w.allocating = s.allocating /\ w.generations = s.generations
          /\ DOMAIN w.ambiguous = DOMAIN s.ambiguous \cup DOMAIN barriers
          /\ DOMAIN w.submitted = DOMAIN s.submitted \ DOMAIN barriers
          /\ w.launched = s.launched /\ w.settled = s.settled
      BY WithBarriersSafe DEF Safe
    <3>2. t = [w EXCEPT !.panes = Without(@, a), !.launched = Forget(@, a),
                        !.settled = Forget(@, a)]
      BY <2>2 DEF GivenUp
    <3> HIDE DEF w
    <3>3. QED
      BY <3>1, <3>2 DEF Shape
  <2>3. QED
    BY <2>1, <2>2
<1>2. /\ DOMAIN t.panes = DOMAIN s.panes \ {a}
      /\ \A b \in DOMAIN t.panes : t.panes[b] = s.panes[b]
      /\ DOMAIN t.allocating \subseteq DOMAIN s.allocating
      /\ \A b \in DOMAIN t.allocating : t.allocating[b] = s.allocating[b]
  BY <1>1 DEF Without
<1>3. Numbered(t) /\ PanesKnown(t) /\ IntentsNew(t, y)
  BY <1>1, <1>2 DEF Safe, Numbered, PanesKnown, IntentsNew
<1>4. RolesKept(t, y)
  BY <1>1, <1>2 DEF Safe, RolesKept, WasSubmitted, Forget
<1>5. MessagesKept(t, y)
  BY <1>1 DEF Safe, MessagesKept
<1>6. t.settled \subseteq t.launched
  BY <1>1 DEF Safe, Forget
<1>7. QED
  BY <1>1, <1>3, <1>4, <1>5, <1>6 DEF Safe, GenerationsKept

\* What a log that has bound tmux makes of the event.
ReleasedBy(l, a, barriers) ==
    IF l.tmux = "none" THEN l ELSE Released(l, a, barriers)

\* A pane released, in the service too or only in the log.
LEMMA ReleasedBoth ==
    ASSUME NEW h, NEW l, NEW y, Both(h, l, y), NEW a, NEW barriers, NEW t,
           \/ t = h
           \/ t = GivenUp(h, a, barriers)
    PROVE  Both(t, ReleasedBy(l, a, barriers), y)
<1> DEFINE u == ReleasedBy(l, a, barriers)
<1>1. /\ Safe(u, y) /\ u.tmux = l.tmux
      /\ DOMAIN u.panes = DOMAIN l.panes \ {a}
      /\ DOMAIN u.allocating \subseteq DOMAIN l.allocating
      /\ u.generations = l.generations
  <2>1. CASE l.tmux = "none"
    <3>1. DOMAIN l.panes = {}
      BY <2>1 DEF Both, Safe, PanesKnown
    <3>2. QED
      BY <2>1, <3>1 DEF ReleasedBy, Both
  <2>2. CASE l.tmux # "none"
    <3>1. /\ Safe(u, y) /\ u.tmux = l.tmux
          /\ u.panes = Without(l.panes, a)
          /\ u.allocating \in {l.allocating, Without(l.allocating, a)}
          /\ u.generations = l.generations
      <4>1. u = Released(l, a, barriers) /\ Safe(l, y)
        BY <2>2 DEF ReleasedBy, Both
      <4> HIDE DEF u
      <4>2. QED
        BY <4>1, ReleasedSafe
    <3>2. QED
      BY <3>1 DEF Without
  <2>3. QED
    BY <2>1, <2>2
<1>2. CASE t = h
  BY <1>1, <1>2 DEF Both, Agree
<1>3. CASE t # h
  <2>1. /\ Safe(t, y) /\ t.tmux = h.tmux
        /\ t.panes = Without(h.panes, a)
        /\ t.allocating \in {h.allocating, Without(h.allocating, a)}
        /\ t.generations = h.generations
    <3>1. t = GivenUp(h, a, barriers) /\ Safe(h, y)
      BY <1>3 DEF Both
    <3>2. QED
      BY <3>1, ReleasedSafe
  <2>2. t.allocating = h.allocating
    <3> DEFINE w == WithBarriers(h, barriers)
    <3>1. Shape(w) /\ w.allocating = h.allocating
      BY WithBarriersSafe DEF Both, Safe
    <3>2. t = [w EXCEPT !.panes = Without(@, a), !.launched = Forget(@, a),
                        !.settled = Forget(@, a)]
      BY <1>3 DEF GivenUp
    <3> HIDE DEF w
    <3>3. QED
      BY <3>1, <3>2 DEF Shape
  <2>3. /\ DOMAIN t.panes = DOMAIN h.panes \ {a}
        /\ \A b \in DOMAIN t.panes : t.panes[b] = h.panes[b]
    BY <2>1 DEF Without
  <2>4. Agree(t, u)
    BY <1>1, <2>1, <2>2, <2>3 DEF Both, Agree
  <2>5. QED
    BY <1>1, <2>1, <2>4 DEF Both
<1>4. QED
  BY <1>2, <1>3

\* Inputs change and panes do not.
SamePanes(s, t) ==
    /\ t.tmux = s.tmux /\ t.panes = s.panes
    /\ t.allocating = s.allocating /\ t.generations = s.generations

LEMMA SamePanesBoth ==
    ASSUME NEW h, NEW l, NEW y, Both(h, l, y), NEW z,
           NEW t, Safe(t, z), SamePanes(h, t),
           NEW u, Safe(u, z), SamePanes(l, u)
    PROVE  Both(t, u, z)
BY DEF Both, Agree, SamePanes

\* input_delivery_started.
LEMMA BarrierSafe ==
    ASSUME NEW s, NEW y, Safe(s, y), NEW k, NEW n, NEW t,
           t = Barrier(s, k, n)
    PROVE  /\ Safe(t, y) /\ SamePanes(s, t)
           /\ k \in DOMAIN t.ambiguous
           /\ t.launched = s.launched /\ t.settled = s.settled
<1>1. /\ Shape(t) /\ SamePanes(s, t)
      /\ t.ambiguous = With(s.ambiguous, k, n)
      /\ t.submitted = Without(s.submitted, k)
      /\ t.launched = s.launched /\ t.settled = s.settled
  BY DEF Barrier, Shape, Safe, SamePanes
<1>2. /\ DOMAIN t.ambiguous = DOMAIN s.ambiguous \cup {k}
      /\ DOMAIN t.submitted = DOMAIN s.submitted \ {k}
  BY <1>1 DEF With, Without
<1>3. RolesKept(t, y)
  BY <1>1, <1>2 DEF Safe, RolesKept, WasSubmitted, SamePanes
<1>4. MessagesKept(t, y)
  BY <1>2 DEF Safe, MessagesKept
<1>5. Numbered(t) /\ GenerationsKept(t, y) /\ PanesKnown(t)
      /\ IntentsNew(t, y)
  BY <1>1 DEF Safe, Numbered, GenerationsKept, PanesKnown, IntentsNew,
              SamePanes
<1>6. QED
  BY <1>1, <1>2, <1>3, <1>4, <1>5 DEF Safe

\* input_delivery_submitted, against the barrier it names.
SubmittedNow(s, k, n) ==
    [s EXCEPT !.ambiguous = Without(@, k), !.submitted = With(@, k, n),
              !.launched = IF k[2] \in Roles
                           THEN @ \cup {<<k[1], k[3]>>} ELSE @,
              !.settled = IF k[2] = "prompt"
                          THEN @ \cup {<<k[1], k[3]>>} ELSE @]

\* What was in doubt is known to be submitted.
LEMMA SubmittedSafe ==
    ASSUME NEW s, NEW y, Safe(s, y), NEW k, NEW n, NEW t,
           t = SubmittedNow(s, k, n)
    PROVE  /\ Safe(t, y) /\ SamePanes(s, t)
           /\ s.launched \subseteq t.launched
           /\ k[2] \in Roles => <<k[1], k[3]>> \in t.launched
           /\ k[2] # "prompt" => t.settled = s.settled
<1>1. /\ Shape(t) /\ SamePanes(s, t)
      /\ t.ambiguous = Without(s.ambiguous, k)
      /\ t.submitted = With(s.submitted, k, n)
      /\ t.launched = IF k[2] \in Roles
                      THEN s.launched \cup {<<k[1], k[3]>>} ELSE s.launched
      /\ t.settled = IF k[2] = "prompt"
                     THEN s.settled \cup {<<k[1], k[3]>>} ELSE s.settled
  BY DEF SubmittedNow, Shape, Safe, SamePanes
<1>2. /\ DOMAIN t.ambiguous = DOMAIN s.ambiguous \ {k}
      /\ DOMAIN t.submitted = DOMAIN s.submitted \cup {k}
  BY <1>1 DEF With, Without
<1>3. "prompt" \in Roles /\ "launch" \in Roles
  BY DEF Roles
<1>4. t.settled \subseteq t.launched
  BY <1>1, <1>3 DEF Safe
<1>5. ASSUME NEW j \in Sent(y), j[1] \in DOMAIN t.panes,
             t.panes[j[1]] = j[3]
      PROVE  j \in DOMAIN t.ambiguous \/ WasSubmitted(t, j)
  <2>1. CASE j = k
    <3>1. j[2] \in {"launch", "prompt"}
      BY DEF Sent, RoleKeys, Roles
    <3>2. QED
      BY <1>1, <1>3, <2>1, <3>1 DEF WasSubmitted
  <2>2. CASE j # k
    <3>1. j \in DOMAIN s.ambiguous \/ WasSubmitted(s, j)
      BY <1>1, <1>5 DEF Safe, RolesKept, SamePanes
    <3>2. QED
      BY <1>1, <1>2, <2>2, <3>1 DEF WasSubmitted
  <2>3. QED
    BY <2>1, <2>2
<1>6. MessagesKept(t, y)
  BY <1>2 DEF Safe, MessagesKept
<1>7. Numbered(t) /\ GenerationsKept(t, y) /\ PanesKnown(t)
      /\ IntentsNew(t, y)
  BY <1>1 DEF Safe, Numbered, GenerationsKept, PanesKnown, IntentsNew,
              SamePanes
<1>8. QED
  BY <1>1, <1>3, <1>4, <1>5, <1>6, <1>7 DEF Safe, RolesKept

\* input_delivery_not_submitted: the input is forgotten, and its count.
RefusedNow(s, k) == [s EXCEPT !.ambiguous = Without(@, k),
                              !.submitted = Without(@, k)]

\* The counts z are those of y, some of them set to zero.
Fewer(z, y) ==
    \A i \in InputIds : z[i] # 0 => y[i] # 0

LEMMA FewerSent ==
    ASSUME NEW y, NEW z, Fewer(z, y)
    PROVE  /\ Sent(z) \subseteq Sent(y)
           /\ \A m \in Messages : z[m] # 0 => y[m] # 0
BY DEF Fewer, Sent, RoleKeys, InputIds

LEMMA FewerSafe ==
    ASSUME NEW s, NEW y, NEW z, Safe(s, y), Fewer(z, y)
    PROVE  Safe(s, z)
BY FewerSent DEF Safe, RolesKept, MessagesKept, GenerationsKept, IntentsNew

\* A refused input was cleared, and is not sent any more.
LEMMA RefusedSafe ==
    ASSUME NEW s, NEW y, NEW z, Safe(s, y), Fewer(z, y),
           NEW k, Input(k) \in InputIds => z[Input(k)] = 0,
           NEW t, t = RefusedNow(s, k)
    PROVE  Safe(t, z) /\ SamePanes(s, t)
<1>1. /\ Shape(t) /\ SamePanes(s, t)
      /\ t.ambiguous = Without(s.ambiguous, k)
      /\ t.submitted = Without(s.submitted, k)
      /\ t.launched = s.launched /\ t.settled = s.settled
  BY DEF RefusedNow, Shape, Safe, SamePanes
<1>2. /\ DOMAIN t.ambiguous = DOMAIN s.ambiguous \ {k}
      /\ DOMAIN t.submitted = DOMAIN s.submitted \ {k}
  BY <1>1 DEF Without
<1>3. Safe(s, z)
  BY FewerSafe
<1>4. ASSUME NEW j \in Sent(z)
      PROVE  j # k
  <2>1. j[2] \notin Messages /\ z[j] # 0 /\ j \in InputIds
    BY RolesAssumption DEF Sent, RoleKeys, InputIds
  <2>2. QED
    BY <2>1 DEF Input
<1>5. RolesKept(t, z)
  BY <1>1, <1>2, <1>3, <1>4 DEF Safe, RolesKept, WasSubmitted, SamePanes
<1>6. ASSUME NEW m \in Messages, z[m] # 0
      PROVE  \E j \in DOMAIN t.ambiguous \cup DOMAIN t.submitted : j[2] = m
  <2>1. PICK j \in DOMAIN s.ambiguous \cup DOMAIN s.submitted : j[2] = m
    BY <1>3, <1>6 DEF Safe, MessagesKept
  <2>2. j # k
    BY <1>6, <2>1 DEF Input, InputIds
  <2>3. QED
    BY <1>2, <2>1, <2>2
<1>7. Numbered(t) /\ GenerationsKept(t, z) /\ PanesKnown(t)
      /\ IntentsNew(t, z)
  BY <1>1, <1>3 DEF Safe, Numbered, GenerationsKept, PanesKnown, IntentsNew,
                    SamePanes
<1>8. QED
  BY <1>1, <1>3, <1>5, <1>6, <1>7 DEF Safe, MessagesKept

\* An input is typed into the pane its barrier stands for.
LEMMA TypedSafe ==
    ASSUME NEW s, NEW y, NEW z, Safe(s, y), NEW k,
           k[2] \in Messages \/ k \in Activations \X Roles \X Nat,
           k \in DOMAIN s.ambiguous,
           \A i \in InputIds : i # Input(k) => z[i] = y[i],
           k[1] \in DOMAIN s.generations, k[3] <= s.generations[k[1]],
           k[1] \notin DOMAIN s.allocating
    PROVE  Safe(s, z)
<1>1. ASSUME NEW j \in Sent(z), j # k
      PROVE  j \in Sent(y)
  <2>1. j \in RoleKeys /\ z[j] # 0 /\ j \in InputIds
    BY DEF Sent, RoleKeys, InputIds
  <2>2. CASE j = Input(k)
    <3>1. j \in Messages
      BY <1>1, <2>2 DEF Input
    <3>2. j \in Activations \X Roles \X Nat
      BY <2>1, GenerationsNat DEF RoleKeys
    <3>3. QED
      BY <3>1, <3>2, MessagesAssumption
  <2>3. CASE j # Input(k)
    BY <2>1, <2>3 DEF Sent
  <2>4. QED
    BY <2>2, <2>3
<1>2. RolesKept(s, z)
  BY <1>1 DEF Safe, RolesKept
<1>3. ASSUME NEW m \in Messages, z[m] # 0
      PROVE  \E j \in DOMAIN s.ambiguous \cup DOMAIN s.submitted : j[2] = m
  <2>1. m \in InputIds
    BY DEF InputIds
  <2>2. CASE m = Input(k)
    <3>1. k[2] = m \/ (k = m /\ k \in Activations \X Roles \X Nat)
      BY <2>2 DEF Input
    <3>2. QED
      BY <3>1, MessagesAssumption
  <2>3. CASE m # Input(k)
    BY <1>3, <2>1, <2>3 DEF Safe, MessagesKept
  <2>4. QED
    BY <2>2, <2>3
<1>4. GenerationsKept(s, z) /\ IntentsNew(s, z)
  BY <1>1 DEF Safe, GenerationsKept, IntentsNew
<1>5. QED
  BY <1>2, <1>3, <1>4 DEF Safe, MessagesKept

-----------------------------------------------------------------------------
(* What a line of the log does when it is replayed.                        *)

\* The line that append_driver_event writes.
Line(event, n) == [x \in DOMAIN event \cup {"seq"} |->
                      IF x = "seq" THEN n ELSE event[x]]

LEMMA ReplayedBound ==
    ASSUME NEW l, NEW c, NEW n, NEW e, e = Line(TmuxBound(c), n)
    PROVE  Replayed(l, e) = BoundTo(l, c)
<1>1. e.kind = "tmux_bound" /\ e.command = c
  BY DEF Line, TmuxBound
<1>2. QED
  BY <1>1 DEF Replayed, BoundTo

LEMMA ReplayedIntent ==
    ASSUME NEW l, NEW a, NEW i, NEW n, NEW e,
           e = Line([kind |-> "tmux_pane_allocation_intent", act |-> a,
                     intent |-> i], n)
    PROVE  Replayed(l, e) = Wanted(l, a, i)
<1>1. e.kind = "tmux_pane_allocation_intent" /\ e.act = a /\ e.intent = i
  BY DEF Line
<1>2. QED
  BY <1>1 DEF Replayed, Wanted

LEMMA ReplayedAllocated ==
    ASSUME NEW l, l.tmux # "none", NEW a, NEW g, NEW n, NEW e,
           e = Line([kind |-> "tmux_pane_allocated", act |-> a, gen |-> g], n)
    PROVE  Replayed(l, e) = Allocated(l, a, g)
<1>1. e.kind = "tmux_pane_allocated" /\ e.act = a /\ e.gen = g
  BY DEF Line
<1>2. QED
  BY <1>1 DEF Replayed

LEMMA ReplayedReleased ==
    ASSUME NEW l, NEW a, NEW b, NEW n, NEW e,
           e = Line([kind |-> "tmux_panes_released", act |-> a,
                     barriers |-> b], n)
    PROVE  Replayed(l, e) = ReleasedBy(l, a, b)
<1>1. e.kind = "tmux_panes_released" /\ e.act = a /\ e.barriers = b
  BY DEF Line
<1>2. QED
  BY <1>1 DEF Replayed, ReleasedBy

LEMMA ReplayedStarted ==
    ASSUME NEW l, NEW k, NEW n, NEW e,
           e = Line([kind |-> "input_delivery_started", key |-> k], n)
    PROVE  Replayed(l, e) = Barrier(l, k, n)
<1>1. e.kind = "input_delivery_started" /\ e.key = k /\ e.seq = n
      /\ "started" \notin DOMAIN e
  BY DEF Line
<1>2. QED
  BY <1>1 DEF Replayed, StartedAt

LEMMA ReplayedSubmitted ==
    ASSUME NEW l, NEW k, NEW m, NEW n, NEW e,
           e = Line([kind |-> "input_delivery_submitted", key |-> k,
                     started |-> m], n)
    PROVE  Replayed(l, e) \in {l, SubmittedNow(l, k, m)}
<1>1. e.kind = "input_delivery_submitted" /\ e.key = k /\ e.started = m
  BY DEF Line
<1>2. Replayed(l, e) = Submission(l, k, m)
  BY <1>1 DEF Replayed
<1>3. QED
  BY <1>2 DEF Submission, SubmittedNow

LEMMA ReplayedRefused ==
    ASSUME NEW l, NEW k, NEW m, NEW n, NEW e,
           e = Line([kind |-> "input_delivery_not_submitted", key |-> k,
                     started |-> m], n)
    PROVE  Replayed(l, e) \in {l, RefusedNow(l, k)}
<1>1. e.kind = "input_delivery_not_submitted" /\ e.key = k /\ e.started = m
  BY DEF Line
<1>2. Replayed(l, e) = Refusal(l, k, m)
  BY <1>1 DEF Replayed
<1>3. QED
  BY <1>2 DEF Refusal, RefusedNow

\* The events of cleanups and participants.
LEMMA ReplayedLike ==
    ASSUME NEW l, Shape(l), NEW n, NEW kind, NEW a, NEW g,
           kind \in {"tmux_pane_cleanup_intent", "tmux_pane_cleanup_receipt",
                     "participant_started", "participant_bound"},
           NEW e, e = Line([kind |-> kind, act |-> a, gen |-> g], n)
    PROVE  Like(l, Replayed(l, e))
<1>1. e.kind = kind /\ e.act = a /\ e.gen = g
  BY DEF Line
<1>2. CASE kind = "tmux_pane_cleanup_intent"
  <2>1. Replayed(l, e) = [l EXCEPT !.cleaning = With(@, a, g)]
    BY <1>1, <1>2 DEF Replayed
  <2>2. QED
    BY <2>1 DEF Shape, Like
<1>3. CASE kind = "tmux_pane_cleanup_receipt"
  <2>1. Replayed(l, e) \in {l, [l EXCEPT !.cleaning = Without(@, a)]}
    BY <1>1, <1>3 DEF Replayed, Receipt
  <2>2. QED
    BY <2>1 DEF Shape, Like
<1>4. CASE kind = "participant_started"
  <2>1. Replayed(l, e) = [l EXCEPT !.started = @ \cup {<<a, g>>}]
    BY <1>1, <1>4 DEF Replayed, ParticipantStarted
  <2>2. QED
    BY <2>1 DEF Shape, Like
<1>5. CASE kind = "participant_bound"
  <2>1. Replayed(l, e) = [l EXCEPT !.bound = @ \cup {<<a, g>>}]
    BY <1>1, <1>5 DEF Replayed, ParticipantBound
  <2>2. QED
    BY <2>1 DEF Shape, Like
<1>6. QED
  BY <1>2, <1>3, <1>4, <1>5

-----------------------------------------------------------------------------
(* The operation under way.                                                *)

Allocations == {"allocate", "create", "window", "publish"}
Actuations == {"pick", "prepare", "launch", "prompt"}
Deliveries == {"start", "type", "record", "publishing", "finish"}
Cleanups == {"intent", "kill", "release", "receipt"}
Reconciling == {"bind", "request"}

\* The record of Idle, whatever its fields hold.
Framed == job = [op |-> job.op, phase |-> job.phase, todo |-> job.todo,
                 act |-> job.act, role |-> job.role, back |-> job.back,
                 command |-> job.command, warned |-> job.warned]

\* Which operations reach which phases, and where a cleanup returns to.
Control ==
    /\ Framed
    /\ At("idle") => job = Idle
    /\ At("down") => job = Down
    /\ At("exit") => job.op \in {"load", "shutdown"}
    /\ job.phase \in {"cleanups", "exits", "suspend"} => job.op = "load"
    /\ At("stale") => job.op \in {"load", "bind"}
    /\ At("finalize") => job.op \in {"finalize", "shutdown"}
    /\ At("bind") => job.op \in Reconciling
    /\ job.phase \in Allocations => job.op \in Reconciling
    /\ job.phase \in Actuations \cup {"pause"}
          => job.op \in Reconciling \cup {"session"}
    /\ job.phase \in Deliveries
          => job.op \in Reconciling \cup {"session", "message"}
    /\ At("resume") => job.op = "resolve"
    /\ job.phase \in Cleanups =>
          \/ job.op = "load" /\ job.back \in {"cleanups", "stale", "exits"}
          \/ job.op = "bind" /\ job.back = "stale"
          \/ job.op \in {"finalize", "shutdown"} /\ job.back = "finalize"
          \/ job.op = "exited" /\ job.back = "idle"
    /\ job.phase \in {"idle", "down", "exit", "cleanups", "exits", "suspend",
                      "stale", "finalize", "bind", "pause", "resume"}
                        \cup Allocations \cup Actuations \cup Deliveries
                        \cup Cleanups

\* What an allocation has in hand.
Allots ==
    /\ job.op \in Reconciling /\ ~At("pause")
          => job.command # "none" /\ job.todo \subseteq Activations
    /\ job.phase \in {"create", "window", "publish"}
          => job.act \in DOMAIN live.allocating
    /\ At("publish") => live.tmux # "none"

\* The pane that is actuated, and the input it is about to get.
Launching == \/ job.phase \in {"prepare", "launch"}
             \/ job.phase \in Deliveries /\ job.role = "launch"

Actuates ==
    /\ job.phase \in {"prepare", "launch", "prompt"} \cup Deliveries
          => job.act \in Owned
    /\ At("launch") => job.role = "launch"
    /\ At("prompt") => job.role = "prompt"
    /\ job.phase \in Deliveries
          => job.role \in IF job.op = "message" THEN Messages ELSE Roles
    /\ Launching \/ At("prompt") => Pane(job.act) \notin live.settled
    /\ job.phase \in {"start", "type"} /\ Input(Key) \in InputIds
          => typed[Input(Key)] = 0
    /\ At("type") => Key \in DOMAIN live.ambiguous

\* What a restart would hold, and what the service holds or will.
Logged == Replay(dlog)
Held == IF At("down") THEN Logged ELSE live

Barred == At("type") => Key \in DOMAIN Logged.ambiguous

Stored == /\ Replayable(dlog) /\ faults \in Nat
          /\ typed \in [InputIds -> {0, 1}]
          /\ Both(Held, Logged, typed)

OnceInv == Stored /\ Control /\ Allots /\ Actuates /\ Barred

\* No activation that goes on is lost sight of while the run is reconciled.
Attended ==
    /\ job.op \in Reconciling /\ job.phase \in Allocations =>
          \A a \in Running :
              \/ a \in Owned \cup job.todo
              \/ ~At("allocate") /\ a = job.act
    /\ job.op \in Reconciling /\ job.phase \in Actuations \cup Deliveries =>
          \/ job.warned
          \/ \A a \in Running :
                /\ a \in Owned
                /\ \/ a \in job.todo
                   \/ Pane(a) \in live.launched
                   \/ Launching /\ a = job.act

-----------------------------------------------------------------------------
(* What the steps have in common.                                          *)

\* Faults are counted.
LEMMA Counted ==
    ASSUME faults \in Nat, NEW kind, UNCHANGED budget \/ Fault(kind)
    PROVE  faults' \in Nat
BY DEF budget, Fault

LEMMA FaultCounts ==
    ASSUME faults \in Nat, NEW kind, Fault(kind)
    PROVE  faults' # faults
BY DEF Fault

\* An append writes its line and the service follows, or fails with the line
\* written or not.
LEMMA Appended ==
    ASSUME Stored, NEW event, NEW update, NEW then,
           AppendEvent(event, update, then)
    PROVE  /\ faults' \in Nat
           /\ \/ /\ dlog' # dlog /\ Replayable(dlog')
                 /\ Logged' = Replayed(Logged, Line(event, count + 1))
                 /\ \/ live' = update /\ job' = then /\ faults' = faults
                    \/ live' = live /\ job' = Erred /\ faults' # faults
              \/ /\ dlog' = dlog /\ live' = live /\ job' = Erred
                 /\ faults' # faults
<1> DEFINE line == Line(event, count + 1)
<1>1. /\ Replayable(Append(dlog, line))
      /\ Replay(Append(dlog, line)) = Replayed(Logged, line)
  BY ReplayAppend DEF Stored, Logged
<1>2. Append(dlog, line) # dlog
  <2>1. PICK S : dlog \in Seq(S)
    BY DEF Stored, Replayable
  <2>2. Len(Append(dlog, line)) = Len(dlog) + 1 /\ Len(dlog) \in Nat
    BY <2>1
  <2>3. QED
    BY <2>2
<1>3. \/ /\ dlog' = Append(dlog, line) /\ live' = update /\ job' = then
         /\ UNCHANGED budget
      \/ /\ Fault("append_lost") /\ job' = Erred
         /\ UNCHANGED <<dlog, live, count>>
      \/ /\ Fault("append_kept") /\ dlog' = Append(dlog, line)
         /\ job' = Erred /\ UNCHANGED <<live, count>>
  BY DEF AppendEvent, Line
<1> HIDE DEF line
<1>4. faults \in Nat
  BY DEF Stored
<1>5. CASE /\ dlog' = Append(dlog, line) /\ live' = update /\ job' = then
           /\ UNCHANGED budget
  BY <1>1, <1>2, <1>4, <1>5 DEF budget, Logged, line
<1>6. CASE /\ Fault("append_lost") /\ job' = Erred
           /\ UNCHANGED <<dlog, live, count>>
  BY <1>4, <1>6, Counted, FaultCounts
<1>7. CASE /\ Fault("append_kept") /\ dlog' = Append(dlog, line)
           /\ job' = Erred /\ UNCHANGED <<live, count>>
  BY <1>1, <1>2, <1>4, <1>7, Counted, FaultCounts DEF Logged, line
<1>8. QED
  BY <1>3, <1>5, <1>6, <1>7

\* A step after which the driver is up.
LEMMA StoredNow ==
    ASSUME Replayable(dlog'), faults' \in Nat,
           typed' \in [InputIds -> {0, 1}], ~At("down")',
           Both(live', Logged', typed')
    PROVE  Stored'
BY DEF Stored, Held

\* A step that writes nothing.
LEMMA StoredStill ==
    ASSUME Stored, dlog' = dlog, typed' = typed, faults' \in Nat, Held' = Held
    PROVE  Stored' /\ Logged' = Logged
BY DEF Stored, Logged

\* Between the phases that type, allocate or actuate.
Waits == /\ job.phase \in {"idle", "down", "exit", "cleanups", "exits",
                           "suspend", "stale", "finalize", "bind", "pause",
                           "resume"} \cup Cleanups
         /\ job.op \in Reconciling /\ ~At("pause")
               => job.command # "none" /\ job.todo \subseteq Activations

\* Elsewhere an operation has nothing in hand.
LEMMA WaitsInv ==
    ASSUME Waits'
    PROVE  Allots' /\ Actuates' /\ Barred' /\ Attended'
BY DEF Waits, Allots, Actuates, Barred, Attended, Cleanups, Allocations,
       Actuations, Deliveries, Launching, At

\* The operation ends, or the process does.
LEMMA EndsWell ==
    ASSUME job' \in {Idle, Down}
    PROVE  Control' /\ Waits'
BY DEF Control, Framed, Waits, Idle, Down, At, Reconciling, Cleanups,
       Allocations, Actuations, Deliveries

\* An operation is one of those that know where to go when they fail.
LEMMA OpsTyped ==
    ASSUME Control
    PROVE  job.op \in Ops
BY DEF Control, Ops, ErrorPhase, At, Reconciling, Cleanups, Allocations,
       Actuations, Deliveries, Idle, Down

\* An operation that fails.
LEMMA ErredWell ==
    ASSUME job.op \in Ops, job' = Erred
    PROVE  /\ Control' /\ Waits' /\ ~At("down")'
           /\ job.op \in Reconciling => job' # Idle
<1>1. job.op \in {"none", "load", "bind", "request", "session", "message",
                  "resolve", "exited", "finalize", "shutdown"}
  BY DEF Ops, ErrorPhase
<1>2. CASE job.op = "load"
  <2>1. job' = [op |-> job.op, phase |-> "exit", todo |-> {},
                act |-> "none", role |-> "none", back |-> "idle",
                command |-> "none", warned |-> FALSE]
    <3>1. ErrorPhase[job.op] = "exit"
      BY <1>2 DEF ErrorPhase
    <3>2. job' = [Idle EXCEPT !.op = job.op, !.phase = "exit",
                              !.todo = {}]
      BY <1>2, <3>1 DEF Erred
    <3>3. QED
      BY <3>2 DEF Idle
  <2>2. /\ job'.op = job.op /\ job'.phase = "exit"
        /\ Framed'
    BY <2>1 DEF Framed
  <2>3. Control' /\ ~At("down")'
    BY <1>2, <2>2 DEF Control, At, Reconciling, Cleanups, Allocations,
                      Actuations, Deliveries
  <2>4. Waits'
    BY <1>2, <2>2 DEF Waits, At, Reconciling
  <2>5. job' # Idle
    BY <2>2 DEF Idle
  <2>6. QED
    BY <2>3, <2>4, <2>5
<1>3. CASE job.op \in Reconciling
  <2>1. job' = [op |-> job.op, phase |-> "pause", todo |-> {},
                act |-> "none", role |-> "none", back |-> "idle",
                command |-> "none", warned |-> FALSE]
    <3>1. ErrorPhase[job.op] = "pause"
      BY <1>3 DEF ErrorPhase, Reconciling
    <3>2. job' = [Idle EXCEPT !.op = job.op, !.phase = "pause",
                              !.todo = {}]
      BY <1>3, <3>1 DEF Erred, Reconciling
    <3>3. QED
      BY <3>2 DEF Idle
  <2>2. /\ job'.op = job.op /\ job'.phase = "pause"
        /\ Framed'
    BY <2>1 DEF Framed
  <2>3. Control' /\ ~At("down")'
    BY <1>3, <2>2 DEF Control, At, Reconciling, Cleanups, Allocations,
                      Actuations, Deliveries
  <2>4. Waits'
    BY <1>3, <2>2 DEF Waits, At, Reconciling
  <2>5. job' # Idle
    BY <2>2 DEF Idle
  <2>6. QED
    BY <2>3, <2>4, <2>5
<1>4. CASE job.op \in {"none", "session", "message", "resolve", "exited"}
  BY <1>4, EndsWell DEF Erred, ErrorPhase, Idle, At, Reconciling
<1>5. CASE job.op \in {"finalize", "shutdown"}
  <2>1. job' = [op |-> job.op, phase |-> "finalize", todo |-> job.todo,
                act |-> "none", role |-> "none", back |-> "idle",
                command |-> "none", warned |-> FALSE]
    <3>1. ErrorPhase[job.op] = "finalize"
      BY <1>5 DEF ErrorPhase
    <3>2. job' = [Idle EXCEPT !.op = job.op, !.phase = "finalize",
                              !.todo = job.todo]
      BY <1>5, <3>1 DEF Erred
    <3>3. QED
      BY <3>2 DEF Idle
  <2>2. /\ job'.op = job.op /\ job'.phase = "finalize"
        /\ Framed'
    BY <2>1 DEF Framed
  <2>3. Control' /\ ~At("down")'
    BY <1>5, <2>2 DEF Control, At, Reconciling, Cleanups, Allocations,
                      Actuations, Deliveries
  <2>4. Waits'
    BY <1>5, <2>2 DEF Waits, At, Reconciling
  <2>5. job' # Idle
    BY <2>2 DEF Idle
  <2>6. QED
    BY <2>3, <2>4, <2>5
<1>6. QED
  BY <1>1, <1>2, <1>3, <1>4, <1>5 DEF Reconciling

\* The invariant, and what holds between driver, log and operation.
Inv == OnceInv /\ Attended

\* The whole, where an operation has nothing in hand.
LEMMA WaitingInv ==
    ASSUME Stored', Control', Waits'
    PROVE  Inv'
BY WaitsInv DEF Inv, OnceInv

\* A step that only moves the operation.
LEMMA MovedInv ==
    ASSUME Inv, dlog' = dlog, live' = live, typed' = typed, faults' \in Nat,
           ~At("down"), ~At("down")', Control', Waits'
    PROVE  Inv'
<1>1. Held' = Held
  BY DEF Held
<1>2. Stored'
  BY <1>1, StoredStill DEF Inv, OnceInv
<1>3. QED
  BY <1>2, WaitingInv

-----------------------------------------------------------------------------
(* Cleanups.                                                               *)

LEMMA InvWaits ==
    ASSUME Inv, job.phase \in {"idle", "down", "exit", "cleanups", "exits",
                               "suspend", "stale", "finalize", "bind",
                               "pause", "resume"} \cup Cleanups
    PROVE  Waits
BY DEF Inv, OnceInv, Allots, Waits

\* The record moves on, with the same operation.
Moves(phase, todo, act, back) ==
    /\ Framed'
    /\ job'.op = job.op /\ job'.phase = phase /\ job'.todo = todo
    /\ job'.act = act /\ job'.role = job.role /\ job'.back = back
    /\ job'.command = job.command /\ job'.warned = job.warned

LEMMA GotoMoves ==
    ASSUME Framed, NEW p, job' = [job EXCEPT !.phase = p]
    PROVE  Moves(p, job.todo, job.act, job.back)
BY DEF Framed, Moves

LEMMA CleanUpMoves ==
    ASSUME Framed, NEW a, NEW first, CleanUp(a, first)
    PROVE  Moves(first, job.todo \ {a}, a, job.phase)
BY DEF Framed, Moves, CleanUp

\* The next phase of a cleanup.
LEMMA CleanupGoesOn ==
    ASSUME Inv, job.phase \in Cleanups, NEW p \in Cleanups,
           Moves(p, job.todo, job.act, job.back)
    PROVE  Control' /\ Waits' /\ ~At("down")'
<1>1. Waits
  BY InvWaits
<1>2. Control' /\ ~At("down")'
  BY DEF Inv, OnceInv, Control, Moves, At, Cleanups, Allocations,
         Actuations, Deliveries
<1>3. Waits'
  BY <1>1 DEF Waits, Moves, At, Cleanups
<1>4. QED
  BY <1>2, <1>3

\* The first phase of a cleanup, on the way of a start or of an end.
LEMMA CleanupBegins ==
    ASSUME Inv, NEW todo \in SUBSET job.todo, NEW a,
           NEW p \in {"intent", "kill"},
           job.phase \in {"cleanups", "stale", "exits", "finalize"},
           Moves(p, todo, a, job.phase)
    PROVE  Control' /\ Waits' /\ ~At("down")'
<1>1. Waits
  BY InvWaits
<1>2. Control' /\ ~At("down")'
  BY DEF Inv, OnceInv, Control, Moves, At, Cleanups, Allocations,
         Actuations, Deliveries
<1>3. Waits'
  BY <1>1 DEF Waits, Moves, At, Cleanups
<1>4. QED
  BY <1>2, <1>3

\* A cleanup that fails.
LEMMA CleanupErrs ==
    ASSUME Inv, job.phase \in Cleanups, job' = Erred
    PROVE  Control' /\ Waits' /\ ~At("down")'
<1>1. job.op \in Ops
  BY OpsTyped DEF Inv, OnceInv
<1>2. QED
  BY <1>1, ErredWell

\* An event of a cleanup, whose outcome is that of its append.
LEMMA CleanupAppends ==
    ASSUME Inv, job.phase \in Cleanups, NEW event, NEW update, NEW then,
           AppendEvent(event, update, then), UNCHANGED typed,
           job' = then => Control' /\ Waits' /\ ~At("down")',
           \A u \in {live, update} :
              Both(u, Replayed(Logged, Line(event, count + 1)), typed)
    PROVE  Inv'
<1> DEFINE e == Line(event, count + 1)
<1>1. /\ faults' \in Nat
      /\ \/ /\ Replayable(dlog') /\ Logged' = Replayed(Logged, e)
            /\ \/ live' = update /\ job' = then
               \/ live' = live /\ job' = Erred
         \/ dlog' = dlog /\ live' = live /\ job' = Erred
  BY Appended DEF Inv, OnceInv
<1> HIDE DEF e
<1>2. Control' /\ Waits' /\ ~At("down")'
  BY <1>1, CleanupErrs
<1>3. CASE dlog' = dlog /\ live' = live
  <2>1. ~At("down")
    BY DEF At, Cleanups
  <2>2. QED
    BY <1>1, <1>2, <1>3, <2>1, MovedInv
<1>4. CASE /\ Replayable(dlog') /\ Logged' = Replayed(Logged, e)
           /\ live' \in {live, update}
  <2>1. Both(live', Logged', typed')
    BY <1>4 DEF e
  <2>2. typed' \in [InputIds -> {0, 1}]
    BY DEF Inv, OnceInv, Stored
  <2>3. Stored'
    BY <1>1, <1>2, <1>4, <2>1, <2>2, StoredNow
  <2>4. QED
    BY <1>2, <2>3, WaitingInv
<1>5. QED
  BY <1>1, <1>3, <1>4

\* A driver that is up holds its fields.
LEMMA LiveBoth ==
    ASSUME Inv, ~At("down")
    PROVE  Both(live, Logged, typed) /\ Shape(live) /\ Shape(Logged)
BY DEF Inv, OnceInv, Stored, Held, Both, Safe

LEMMA CleanupIntentInv ==
    ASSUME Inv, CleanupIntent
    PROVE  Inv'
<1> DEFINE a == job.act
           then == [job EXCEPT !.phase = "kill"]
           event == [kind |-> "tmux_pane_cleanup_intent", act |-> a,
                     gen |-> live.panes[a]]
           update == [live EXCEPT !.cleaning = With(@, a, live.panes[a])]
<1>1. At("intent") /\ job.phase \in Cleanups /\ ~At("down") /\ Framed
  BY DEF CleanupIntent, At, Cleanups, Inv, OnceInv, Control
<1>2. ASSUME job' = then
      PROVE  Control' /\ Waits' /\ ~At("down")'
  <2>1. Moves("kill", job.todo, job.act, job.back)
    BY <1>1, <1>2, GotoMoves
  <2>2. QED
    BY <1>1, <2>1, CleanupGoesOn DEF Cleanups
<1>3. CASE /\ job' \in {then, Erred}
           /\ UNCHANGED <<dlog, service, budget, typed>>
  <2>1. Control' /\ Waits' /\ ~At("down")'
    BY <1>1, <1>2, <1>3, CleanupErrs
  <2>2. faults' \in Nat
    BY <1>3 DEF Inv, OnceInv, Stored, budget
  <2>3. QED
    BY <1>1, <1>3, <2>1, <2>2, MovedInv DEF service
<1>4. CASE AppendEvent(event, update, then) /\ UNCHANGED typed
  <2>1. Like(live, update) /\ Like(live, live)
    BY <1>1, LiveBoth DEF Like, Shape
  <2>2. Like(Logged, Replayed(Logged, Line(event, count + 1)))
    BY <1>1, LiveBoth, ReplayedLike
  <2>3. \A u \in {live, update} :
           Both(u, Replayed(Logged, Line(event, count + 1)), typed)
    BY <1>1, <2>1, <2>2, LiveBoth, LikeBoth
  <2> HIDE DEF event, update, then
  <2>4. QED
    BY <1>1, <1>2, <1>4, <2>3, CleanupAppends
<1>5. QED
  BY <1>3, <1>4 DEF CleanupIntent

LEMMA KillPaneInv ==
    ASSUME Inv, KillPane
    PROVE  Inv'
<1>1. /\ At("kill") /\ job.phase \in Cleanups /\ ~At("down") /\ Framed
      /\ faults \in Nat
  BY DEF KillPane, At, Cleanups, Inv, OnceInv, Control, Stored
<1>2. /\ UNCHANGED <<files, runtime, service, typed>>
      /\ \/ Goto("receipt") /\ UNCHANGED budget
         \/ job' = Erred /\ UNCHANGED budget
         \/ Goto("release") /\ UNCHANGED budget
         \/ Fault("tmux") /\ job' = Erred
  BY DEF KillPane, KillFailed
<1>3. faults' \in Nat
  BY <1>1, <1>2, Counted
<1>4. CASE job' = Erred
  <2>1. Control' /\ Waits' /\ ~At("down")'
    BY <1>1, <1>4, CleanupErrs
  <2>2. QED
    BY <1>1, <1>2, <1>3, <2>1, MovedInv DEF files, service
<1>5. ASSUME NEW p \in {"receipt", "release"}, Goto(p)
      PROVE  Inv'
  <2>1. Moves(p, job.todo, job.act, job.back)
    BY <1>1, <1>5, GotoMoves DEF Goto
  <2>2. Control' /\ Waits' /\ ~At("down")'
    BY <1>1, <1>5, <2>1, CleanupGoesOn DEF Cleanups
  <2>3. QED
    BY <1>1, <1>2, <1>3, <2>2, MovedInv DEF files, service
<1>6. QED
  BY <1>2, <1>4, <1>5

LEMMA ReleasePaneInv ==
    ASSUME Inv, ReleasePane
    PROVE  Inv'
<1> DEFINE a == job.act
           barriers == ReleasedBarriers(a)
           then == [job EXCEPT !.phase = "receipt"]
           event == [kind |-> "tmux_panes_released", act |-> a,
                     barriers |-> barriers]
           update == GivenUp(live, a, barriers)
<1>1. At("release") /\ job.phase \in Cleanups /\ ~At("down") /\ Framed
  BY DEF ReleasePane, At, Cleanups, Inv, OnceInv, Control
<1>2. ASSUME job' = then
      PROVE  Control' /\ Waits' /\ ~At("down")'
  <2>1. Moves("receipt", job.todo, job.act, job.back)
    BY <1>1, <1>2, GotoMoves
  <2>2. QED
    BY <1>1, <2>1, CleanupGoesOn DEF Cleanups
<1>3. AppendEvent(event, update, then) /\ UNCHANGED typed
  BY DEF ReleasePane, GivenUp
<1>4. Replayed(Logged, Line(event, count + 1))
         = ReleasedBy(Logged, a, barriers)
  BY ReplayedReleased
<1> HIDE DEF barriers
<1>5. \A u \in {live, update} :
         Both(u, Replayed(Logged, Line(event, count + 1)), typed)
  BY <1>1, <1>4, LiveBoth, ReleasedBoth
<1> HIDE DEF event, update, then
<1>6. QED
  BY <1>1, <1>2, <1>3, <1>5, CleanupAppends

LEMMA CleanupReceiptInv ==
    ASSUME Inv, CleanupReceipt
    PROVE  Inv'
<1> DEFINE a == job.act
           g == live.cleaning[a]
           then == IF job.back = "idle" THEN Idle
                   ELSE [job EXCEPT !.phase = job.back, !.act = "none",
                                    !.back = "idle"]
           event == [kind |-> "tmux_pane_cleanup_receipt", act |-> a,
                     gen |-> g]
           update == [live EXCEPT !.cleaning = Without(@, a)]
<1>1. /\ At("receipt") /\ job.phase \in Cleanups /\ ~At("down") /\ Framed
      /\ Control
  BY DEF CleanupReceipt, At, Cleanups, Inv, OnceInv, Control
<1>2. ASSUME job' = then
      PROVE  Control' /\ Waits' /\ ~At("down")'
  <2>1. CASE job.back = "idle"
    BY <1>2, <2>1, EndsWell DEF Idle, At
  <2>2. CASE job.back # "idle"
    <3>1. Moves(job.back, job.todo, "none", "idle")
      BY <1>1, <1>2, <2>2 DEF Framed, Moves
    <3>2. \/ job.op = "load" /\ job.back \in {"cleanups", "stale", "exits"}
          \/ job.op = "bind" /\ job.back = "stale"
          \/ job.op \in {"finalize", "shutdown"} /\ job.back = "finalize"
      BY <1>1, <2>2 DEF Control
    <3>3. Control' /\ ~At("down")'
      BY <3>1, <3>2 DEF Control, Moves, At, Cleanups, Allocations,
                        Actuations, Deliveries, Reconciling
    <3>4. Waits
      BY <1>1, InvWaits
    <3>5. Waits'
      BY <1>1, <3>1, <3>2, <3>4 DEF Waits, Moves, At, Cleanups
    <3>6. QED
      BY <3>3, <3>5
  <2>3. QED
    BY <2>1, <2>2
<1>3. AppendEvent(event, update, then) /\ UNCHANGED typed
  BY DEF CleanupReceipt
<1>4. Like(live, update) /\ Like(live, live)
  BY <1>1, LiveBoth DEF Like, Shape
<1>5. Like(Logged, Replayed(Logged, Line(event, count + 1)))
  BY <1>1, LiveBoth, ReplayedLike
<1>6. \A u \in {live, update} :
         Both(u, Replayed(Logged, Line(event, count + 1)), typed)
  BY <1>1, <1>4, <1>5, LiveBoth, LikeBoth
<1> HIDE DEF event, update, then
<1>7. QED
  BY <1>1, <1>2, <1>3, <1>6, CleanupAppends

\* A shutdown or an end of the run.
LEMMA FinalizeInv ==
    ASSUME Inv, Finalize
    PROVE  Inv'
<1>1. /\ At("finalize") /\ ~At("down") /\ Framed /\ Control
      /\ UNCHANGED resting /\ faults' \in Nat
  BY DEF Finalize, At, Inv, OnceInv, Control, Stored, resting, budget
<1>2. ASSUME NEW a \in job.todo, CleanUp(a, "intent")
      PROVE  Control' /\ Waits' /\ ~At("down")'
  <2>1. Moves("intent", job.todo \ {a}, a, job.phase)
    BY <1>1, <1>2, CleanUpMoves
  <2>2. job.phase \in {"cleanups", "stale", "exits", "finalize"}
    BY <1>1 DEF At
  <2>3. QED
    BY <2>1, <2>2, CleanupBegins
<1>3. ASSUME job' = [Idle EXCEPT !.op = "shutdown", !.phase = "exit"]
      PROVE  Control' /\ Waits' /\ ~At("down")'
  BY <1>3 DEF Idle, Control, Framed, Waits, At, Cleanups, Allocations,
              Actuations, Deliveries, Reconciling
<1>4. ASSUME job' = Idle
      PROVE  Control' /\ Waits' /\ ~At("down")'
  BY <1>4, EndsWell DEF Idle, At
<1>5. Control' /\ Waits' /\ ~At("down")'
  BY <1>2, <1>3, <1>4 DEF Finalize
<1>6. QED
  BY <1>1, <1>5, MovedInv DEF resting, files, service

-----------------------------------------------------------------------------
(* Starts and ends of the driver.                                          *)

\* A step of the outside, or of the runtime.
LEMMA StillInv ==
    ASSUME Inv, dlog' = dlog, live' = live, typed' = typed, job' = job,
           done' = done, faults' = faults
    PROVE  Inv'
BY DEF Inv, OnceInv, Stored, Control, Framed, Allots, Actuates, Barred,
       Attended, Held, Logged, Launching, At, Running, Owned, Pane, Key,
       KeyOf

\* A phase of the start follows, with the same operation.
LEMMA StartGoesOn ==
    ASSUME Inv, job.op = "load", NEW p \in {"stale", "exits", "suspend"},
           NEW todo, Moves(p, todo, job.act, job.back)
    PROVE  Control' /\ Waits' /\ ~At("down")'
BY DEF Control, Waits, Moves, At, Cleanups, Allocations, Actuations,
       Deliveries, Reconciling

LEMMA LoadInv ==
    ASSUME Inv, Load
    PROVE  Inv'
<1>1. /\ At("down") /\ live' = Logged /\ faults' \in Nat
      /\ UNCHANGED <<dlog, typed>>
  BY DEF Load, Inv, OnceInv, Stored, Logged, files, budget
<1>2. job' = [Idle EXCEPT !.op = "load", !.phase = "cleanups",
                          !.todo = DOMAIN live'.cleaning]
  BY DEF Load
<1>3. /\ Framed' /\ job'.op = "load" /\ job'.phase = "cleanups"
  BY <1>2 DEF Idle, Framed
<1>4. Control' /\ Waits' /\ ~At("down")'
  BY <1>3 DEF Control, Waits, At, Cleanups, Allocations, Actuations,
              Deliveries, Reconciling
<1>5. Held' = Held
  BY <1>1, <1>4 DEF Held, Logged
<1>6. Stored'
  BY <1>1, <1>5, StoredStill DEF Inv, OnceInv
<1>7. QED
  BY <1>4, <1>6, WaitingInv

LEMMA LoadCleanupsInv ==
    ASSUME Inv, LoadCleanups
    PROVE  Inv'
<1>1. /\ At("cleanups") /\ ~At("down") /\ Framed /\ job.op = "load"
      /\ UNCHANGED resting /\ faults' \in Nat
  BY DEF LoadCleanups, At, Inv, OnceInv, Control, Stored, resting, budget
<1>2. ASSUME NEW a \in job.todo, CleanUp(a, "kill")
      PROVE  Control' /\ Waits' /\ ~At("down")'
  <2>1. Moves("kill", job.todo \ {a}, a, job.phase)
    BY <1>1, <1>2, CleanUpMoves
  <2>2. job.phase \in {"cleanups", "stale", "exits", "finalize"}
    BY <1>1 DEF At
  <2>3. QED
    BY <2>1, <2>2, CleanupBegins
<1>3. ASSUME job' = [job EXCEPT !.phase = "stale", !.todo = Owned]
      PROVE  Control' /\ Waits' /\ ~At("down")'
  <2>1. Moves("stale", Owned, job.act, job.back)
    BY <1>1, <1>3 DEF Framed, Moves
  <2>2. QED
    BY <1>1, <2>1, StartGoesOn
<1>4. Control' /\ Waits' /\ ~At("down")'
  BY <1>2, <1>3 DEF LoadCleanups
<1>5. QED
  BY <1>1, <1>4, MovedInv DEF resting, files, service

LEMMA StaleInv ==
    ASSUME Inv, Stale
    PROVE  Inv'
<1>1. /\ At("stale") /\ ~At("down") /\ Framed /\ job.op \in {"load", "bind"}
      /\ faults \in Nat
      /\ UNCHANGED <<files, runtime, alive, service, typed>>
  BY DEF Stale, At, Inv, OnceInv, Control, Stored
<1> DEFINE gone == {a \in job.todo \cap Owned : Pane(a) \notin alive}
<1>2. gone \subseteq job.todo
  OBVIOUS
<1>3. \/ /\ UNCHANGED budget
         /\ \E a \in gone :
               job' = [job EXCEPT !.phase = "intent", !.act = a,
                                  !.back = "stale", !.todo = gone \ {a}]
      \/ /\ UNCHANGED budget /\ job.op = "load"
         /\ job' = [job EXCEPT !.phase = "exits", !.todo = Exits]
      \/ /\ UNCHANGED budget /\ job.op # "load"
         /\ job' = [job EXCEPT !.phase = "allocate", !.todo = Running]
      \/ Fault("tmux") /\ job' = Erred
  BY DEF Stale
<1> HIDE DEF gone
<1>4. faults' \in Nat
  BY <1>1, <1>3, Counted
<1>5. ASSUME NEW a \in gone,
             job' = [job EXCEPT !.phase = "intent", !.act = a,
                                !.back = "stale", !.todo = gone \ {a}]
      PROVE  Inv'
  <2>1. Moves("intent", gone \ {a}, a, job.phase)
    BY <1>1, <1>5 DEF Framed, Moves, At
  <2>2. job.phase \in {"cleanups", "stale", "exits", "finalize"}
    BY <1>1 DEF At
  <2>3. Control' /\ Waits' /\ ~At("down")'
    BY <1>2, <2>1, <2>2, CleanupBegins
  <2>4. QED
    BY <1>1, <1>4, <2>3, MovedInv DEF files, service
<1>6. CASE /\ job.op = "load"
           /\ job' = [job EXCEPT !.phase = "exits", !.todo = Exits]
  <2>1. Moves("exits", Exits, job.act, job.back)
    BY <1>1, <1>6 DEF Framed, Moves
  <2>2. Control' /\ Waits' /\ ~At("down")'
    BY <1>6, <2>1, StartGoesOn
  <2>3. QED
    BY <1>1, <1>4, <2>2, MovedInv DEF files, service
<1>7. CASE /\ job.op # "load"
           /\ job' = [job EXCEPT !.phase = "allocate", !.todo = Running]
  <2>1. Moves("allocate", Running, job.act, job.back) /\ job.op = "bind"
    BY <1>1, <1>7 DEF Framed, Moves
  <2>2. Control' /\ ~At("down")'
    BY <2>1 DEF Control, Moves, At, Cleanups, Allocations, Actuations,
                Deliveries, Reconciling
  <2>3. Stored'
    BY <1>1, <1>4, <2>2, StoredStill DEF Inv, OnceInv, files, service, Held
  <2>4. job.command # "none" /\ Running \subseteq Activations
    BY <1>1, <2>1 DEF Inv, OnceInv, Allots, Reconciling, At, Running
  <2>5. Allots' /\ Actuates' /\ Barred'
    BY <2>1, <2>4 DEF Moves, Allots, Actuates, Barred, At, Deliveries,
                      Launching
  <2>6. Running' = Running
    BY <1>1 DEF Running, runtime
  <2>7. Attended'
    BY <2>1, <2>6 DEF Moves, Attended, At, Actuations, Deliveries
  <2>8. QED
    BY <2>2, <2>3, <2>5, <2>7 DEF Inv, OnceInv
<1>8. CASE job' = Erred
  <2>1. job.op \in Ops
    BY OpsTyped DEF Inv, OnceInv
  <2>2. Control' /\ Waits' /\ ~At("down")'
    BY <1>8, <2>1, ErredWell
  <2>3. QED
    BY <1>1, <1>4, <2>2, MovedInv DEF files, service
<1>9. QED
  BY <1>3, <1>5, <1>6, <1>7, <1>8

LEMMA LoadExitsInv ==
    ASSUME Inv, LoadExits
    PROVE  Inv'
<1>1. /\ At("exits") /\ ~At("down") /\ Framed /\ job.op = "load"
      /\ UNCHANGED resting /\ faults' \in Nat
  BY DEF LoadExits, At, Inv, OnceInv, Control, Stored, resting, budget
<1>2. ASSUME NEW a \in job.todo, CleanUp(a, "intent")
      PROVE  Control' /\ Waits' /\ ~At("down")'
  <2>1. Moves("intent", job.todo \ {a}, a, job.phase)
    BY <1>1, <1>2, CleanUpMoves
  <2>2. job.phase \in {"cleanups", "stale", "exits", "finalize"}
    BY <1>1 DEF At
  <2>3. QED
    BY <2>1, <2>2, CleanupBegins
<1>3. ASSUME Goto("suspend")
      PROVE  Control' /\ Waits' /\ ~At("down")'
  <2>1. Moves("suspend", job.todo, job.act, job.back)
    BY <1>1, <1>3, GotoMoves DEF Goto
  <2>2. QED
    BY <1>1, <2>1, StartGoesOn
<1>4. Control' /\ Waits' /\ ~At("down")'
  BY <1>2, <1>3 DEF LoadExits
<1>5. QED
  BY <1>1, <1>4, MovedInv DEF resting, files, service

LEMMA SuspendInv ==
    ASSUME Inv, Suspend
    PROVE  Inv'
<1>1. /\ At("suspend") /\ ~At("down") /\ job.op = "load" /\ faults \in Nat
      /\ UNCHANGED <<files, service, typed>>
      /\ \/ job' = Idle /\ UNCHANGED budget
         \/ Fault("commit") /\ job' = Erred
  BY DEF Suspend, At, Inv, OnceInv, Control, Stored
<1>2. faults' \in Nat
  BY <1>1, Counted
<1>3. job.op \in Ops
  BY OpsTyped DEF Inv, OnceInv
<1>4. job' = Idle => ~At("down")'
  BY DEF Idle, At
<1>5. Control' /\ Waits' /\ ~At("down")'
  BY <1>1, <1>3, <1>4, EndsWell, ErredWell
<1>6. QED
  BY <1>1, <1>2, <1>5, MovedInv DEF files, service

\* The process is gone, and what its log replays to is what counts.
LEMMA LeaveInv ==
    ASSUME Inv, Leave, faults' \in Nat
    PROVE  Inv'
<1>1. job' = Down /\ UNCHANGED <<dlog, typed>>
  BY DEF Leave, files
<1>2. Control' /\ Waits'
  BY <1>1, EndsWell
<1>3. Logged' = Logged /\ Held' = Logged
  BY <1>1 DEF Held, Logged, At, Down, Idle
<1>4. Both(Logged, Logged, typed)
  BY LoadedBoth DEF Inv, OnceInv, Stored, Both
<1>5. Stored'
  BY <1>1, <1>3, <1>4 DEF Inv, OnceInv, Stored
<1>6. QED
  BY <1>2, <1>5, WaitingInv

LEMMA ShutdownInv ==
    ASSUME Inv, Shutdown
    PROVE  Inv'
<1>1. /\ At("idle") /\ ~At("down") /\ faults' \in Nat
      /\ UNCHANGED <<files, service, typed>>
  BY DEF Shutdown, At, Inv, OnceInv, Stored
<1>2. \/ job' = [Idle EXCEPT !.op = "shutdown", !.phase = "finalize",
                             !.todo = Owned]
      \/ job' = [Idle EXCEPT !.op = "shutdown", !.phase = "exit"]
  BY DEF Shutdown
<1>3. Framed' /\ job'.op = "shutdown" /\ job'.phase \in {"finalize", "exit"}
  BY <1>2 DEF Idle, Framed
<1>4. Control' /\ Waits' /\ ~At("down")'
  BY <1>3 DEF Control, Waits, At, Cleanups, Allocations, Actuations,
              Deliveries, Reconciling
<1>5. QED
  BY <1>1, <1>4, MovedInv DEF files, service

-----------------------------------------------------------------------------
(* Allocation.                                                             *)

\* A step that appends an event, and the next phase when it does.
LEMMA AppendInv ==
    ASSUME Inv, ~At("down"), NEW event, NEW update, NEW then,
           AppendEvent(event, update, then), UNCHANGED typed,
           \A u \in {live, update} :
              Both(u, Replayed(Logged, Line(event, count + 1)), typed),
           (live' = update /\ job' = then
            /\ Logged' = Replayed(Logged, Line(event, count + 1)))
              => /\ Control' /\ ~At("down")'
                 /\ Allots' /\ Actuates' /\ Barred' /\ Attended'
    PROVE  Inv'
<1> DEFINE e == Line(event, count + 1)
<1>1. /\ faults' \in Nat
      /\ \/ /\ Replayable(dlog') /\ Logged' = Replayed(Logged, e)
            /\ \/ live' = update /\ job' = then
               \/ live' = live /\ job' = Erred
         \/ dlog' = dlog /\ live' = live /\ job' = Erred
  BY Appended DEF Inv, OnceInv
<1> HIDE DEF e
<1>2. job' = Erred => Control' /\ Waits' /\ ~At("down")'
  <2>1. job.op \in Ops
    BY OpsTyped DEF Inv, OnceInv
  <2>2. QED
    BY <2>1, ErredWell
<1>3. CASE dlog' = dlog /\ live' = live /\ job' = Erred
  BY <1>1, <1>2, <1>3, MovedInv
<1>4. CASE /\ Replayable(dlog') /\ Logged' = Replayed(Logged, e)
           /\ \/ live' = update /\ job' = then
              \/ live' = live /\ job' = Erred
  <2>1. Both(live', Logged', typed')
    BY <1>4 DEF e
  <2>2. typed' \in [InputIds -> {0, 1}]
    BY DEF Inv, OnceInv, Stored
  <2>3. /\ Control' /\ ~At("down")'
        /\ Allots' /\ Actuates' /\ Barred' /\ Attended'
    BY <1>2, <1>4, WaitsInv DEF e
  <2>4. Stored'
    BY <1>1, <1>4, <2>1, <2>2, <2>3, StoredNow
  <2>5. QED
    BY <2>3, <2>4 DEF Inv, OnceInv
<1>5. QED
  BY <1>1, <1>3, <1>4

\* An allocation goes on with another phase.
LEMMA AllocationGoesOn ==
    ASSUME Inv, job.op \in Reconciling, job.command # "none",
           NEW todo \in SUBSET Activations, NEW act, NEW p \in Allocations,
           Moves(p, todo, act, job.back),
           p \in {"create", "window", "publish"}
              => act \in DOMAIN live'.allocating,
           p = "publish" => live'.tmux # "none",
           \A a \in Running : \/ a \in DOMAIN live'.panes \cup todo
                              \/ p # "allocate" /\ a = act,
           done' = done
    PROVE  /\ Control' /\ ~At("down")'
           /\ Allots' /\ Actuates' /\ Barred' /\ Attended'
<1>1. Control' /\ ~At("down")'
  BY DEF Control, Moves, At, Cleanups, Allocations, Actuations, Deliveries,
         Reconciling
<1>2. Allots'
  BY DEF Moves, Allots, At
<1>3. Actuates' /\ Barred'
  BY DEF Moves, Actuates, Barred, At, Allocations, Deliveries, Launching
<1>4. Running' = Running /\ Owned' = DOMAIN live'.panes
  BY DEF Running, Owned
<1>5. Attended'
  BY <1>4 DEF Moves, Attended, At, Allocations, Actuations, Deliveries
<1>6. QED
  BY <1>1, <1>2, <1>3, <1>5

\* A step that writes nothing and goes on.
LEMMA StillStored ==
    ASSUME Inv, ~At("down"), UNCHANGED <<dlog, service, typed>>,
           faults' \in Nat, ~At("down")', Control', Allots', Actuates',
           Barred', Attended'
    PROVE  Inv'
BY StoredStill DEF Inv, OnceInv, Held, service

LEMMA BindFirstInv ==
    ASSUME Inv, BindFirst
    PROVE  Inv'
<1> DEFINE p == IF job.op = "bind" THEN "stale" ELSE "allocate"
           then == [job EXCEPT !.todo = Running,
                               !.phase = IF job.op = "bind" THEN "stale"
                                         ELSE "allocate"]
           update == [live EXCEPT !.tmux = job.command, !.panes = Nothing]
           event == TmuxBound(job.command)
<1>1. /\ At("bind") /\ ~At("down") /\ Framed /\ job.op \in Reconciling
      /\ job.command # "none"
      /\ UNCHANGED typed /\ done' = done
  BY DEF BindFirst, At, Inv, OnceInv, Control, Allots, runtime
<1>2. Running \in SUBSET Activations /\ job.command # "none"
  BY <1>1, RolesAssumption DEF Running
<1>3. ASSUME job' = then
      PROVE  /\ Control' /\ ~At("down")'
             /\ Allots' /\ Actuates' /\ Barred' /\ Attended'
  <2>1. Moves(p, Running, job.act, job.back)
    BY <1>1, <1>3 DEF Framed, Moves
  <2>2. CASE job.op = "bind"
    <3>1. Moves("stale", Running, job.act, job.back)
      BY <2>1, <2>2
    <3>2. Control' /\ ~At("down")'
      BY <2>2, <3>1 DEF Control, Moves, At, Cleanups, Allocations,
                        Actuations, Deliveries, Reconciling
    <3>3. Waits'
      BY <1>1, <1>2, <3>1 DEF Waits, Moves, At
    <3>4. QED
      BY <3>2, <3>3, WaitsInv
  <2>3. CASE job.op # "bind"
    <3>1. Moves("allocate", Running, job.act, job.back)
      BY <2>1, <2>3
    <3>2. QED
      BY <1>1, <1>2, <3>1, AllocationGoesOn DEF Allocations
  <2>4. QED
    BY <2>2, <2>3
<1>4. CASE /\ job' = then
           /\ UNCHANGED <<dlog, service, budget>>
  <2>1. faults' \in Nat
    BY <1>4 DEF Inv, OnceInv, Stored, budget
  <2>2. QED
    BY <1>1, <1>3, <1>4, <2>1, StillStored
<1>5. CASE AppendEvent(event, update, then)
  <2>1. Replayed(Logged, Line(event, count + 1))
           = BoundTo(Logged, job.command)
    BY ReplayedBound
  <2>2. update = BoundTo(live, job.command)
    BY DEF BoundTo
  <2> HIDE DEF event, update, then
  <2>3. \A u \in {live, update} :
           Both(u, Replayed(Logged, Line(event, count + 1)), typed)
    BY <1>1, <1>2, <2>1, <2>2, LiveBoth, BoundBoth
  <2>4. (live' = update /\ job' = then
         /\ Logged' = Replayed(Logged, Line(event, count + 1)))
           => /\ Control' /\ ~At("down")'
              /\ Allots' /\ Actuates' /\ Barred' /\ Attended'
    BY <1>3
  <2>5. QED
    BY <1>1, <1>5, <2>3, <2>4, AppendInv
<1>6. QED
  BY <1>4, <1>5 DEF BindFirst

LEMMA AllocateInv ==
    ASSUME Inv, Allocate
    PROVE  Inv'
<1>1. /\ At("allocate") /\ ~At("down") /\ Framed /\ job.op \in Reconciling
      /\ job.command # "none" /\ job.todo \subseteq Activations
      /\ UNCHANGED typed /\ done' = done
      /\ \A a \in Running : a \in Owned \cup job.todo
  BY DEF Allocate, At, Inv, OnceInv, Control, Allots, Attended, Allocations,
         runtime
<1>2. ASSUME NEW a \in job.todo \ Owned,
             LET then == [job EXCEPT !.phase = "create", !.act = a,
                                     !.todo = @ \ {a}]
                 intent == [gen |-> NextGeneration(a), command |-> job.command]
             IN  IF a \in DOMAIN live.allocating
                 THEN /\ job' = then
                      /\ UNCHANGED <<dlog, service, budget>>
                 ELSE AppendEvent([kind |-> "tmux_pane_allocation_intent",
                                   act |-> a, intent |-> intent],
                                  [live EXCEPT !.allocating =
                                     With(@, a, intent)],
                                  then)
      PROVE  Inv'
  <2> DEFINE then == [job EXCEPT !.phase = "create", !.act = a,
                                 !.todo = @ \ {a}]
             i == [gen |-> NextGeneration(a), command |-> job.command]
             event == [kind |-> "tmux_pane_allocation_intent", act |-> a,
                       intent |-> i]
             update == [live EXCEPT !.allocating = With(@, a, i)]
  <2>1. ASSUME job' = then, a \in DOMAIN live'.allocating,
               live'.panes = live.panes
        PROVE  /\ Control' /\ ~At("down")'
               /\ Allots' /\ Actuates' /\ Barred' /\ Attended'
    <3>1. Moves("create", job.todo \ {a}, a, job.back)
      BY <1>1, <2>1 DEF Framed, Moves
    <3>2. \A b \in Running : \/ b \in DOMAIN live'.panes \cup (job.todo \ {a})
                             \/ "create" # "allocate" /\ b = a
      BY <1>1, <2>1 DEF Owned
    <3>3. job.todo \ {a} \in SUBSET Activations /\ "create" \in Allocations
      BY <1>1 DEF Allocations
    <3>4. QED
      BY <1>1, <2>1, <3>1, <3>2, <3>3, AllocationGoesOn
  <2>2. CASE /\ job' = then /\ a \in DOMAIN live.allocating
             /\ UNCHANGED <<dlog, service, budget>>
    <3>1. faults' \in Nat
      BY <2>2 DEF Inv, OnceInv, Stored, budget
    <3>2. /\ Control' /\ ~At("down")'
          /\ Allots' /\ Actuates' /\ Barred' /\ Attended'
      BY <2>1, <2>2 DEF service
    <3>3. QED
      BY <1>1, <2>2, <3>1, <3>2, StillStored
  <2>3. CASE /\ a \notin DOMAIN live.allocating
             /\ AppendEvent(event, update, then)
    <3>1. Replayed(Logged, Line(event, count + 1)) = Wanted(Logged, a, i)
      BY ReplayedIntent
    <3>2. update = Wanted(live, a, i)
      BY DEF Wanted
    <3>3. /\ a \in Activations /\ a \notin DOMAIN live.panes
          /\ i.command # "none"
          /\ i.gen = IF a \in DOMAIN live.generations
                     THEN live.generations[a] + 1 ELSE 0
      BY <1>1 DEF NextGeneration, Owned
    <3>4. update.panes = live.panes /\ a \in DOMAIN update.allocating
      BY <1>1, LiveBoth DEF Shape, With
    <3> HIDE DEF event, update, then, i
    <3>5. \A u \in {live, update} :
             Both(u, Replayed(Logged, Line(event, count + 1)), typed)
      BY <1>1, <2>3, <3>1, <3>2, <3>3, LiveBoth, IntendedBoth
    <3>6. (live' = update /\ job' = then
           /\ Logged' = Replayed(Logged, Line(event, count + 1)))
             => /\ Control' /\ ~At("down")'
                /\ Allots' /\ Actuates' /\ Barred' /\ Attended'
      BY <2>1, <3>4
    <3>7. QED
      BY <1>1, <2>3, <3>5, <3>6, AppendInv
  <2>4. QED
    BY <1>2, <2>2, <2>3
<1>3. CASE /\ job.todo \subseteq Owned
           /\ job' = [job EXCEPT !.phase = "pick", !.act = "none",
                                 !.todo = PendingActuations]
           /\ UNCHANGED <<dlog, service, budget>>
  <2>1. Moves("pick", PendingActuations, "none", job.back)
    BY <1>1, <1>3 DEF Framed, Moves
  <2>2. Control' /\ ~At("down")'
    BY <1>1, <2>1 DEF Control, Moves, At, Cleanups, Allocations, Actuations,
                      Deliveries, Reconciling
  <2>3. PendingActuations \subseteq Activations
    BY DEF PendingActuations, Running
  <2>4. Allots' /\ Actuates' /\ Barred'
    BY <1>1, <2>1, <2>3 DEF Moves, Allots, Actuates, Barred, At, Deliveries,
                            Launching
  <2>5. Running' = Running /\ Owned' = Owned /\ live' = live
    BY <1>1, <1>3 DEF Running, Owned, service
  <2>6. live.settled \subseteq live.launched
    BY <1>1, LiveBoth DEF Both, Safe
  <2>7. ASSUME NEW a \in Running
        PROVE  a \in Owned /\ (a \in job'.todo \/ Pane(a) \in live.launched)
    BY <1>1, <1>3, <2>1, <2>6 DEF PendingActuations, Moves
  <2>8. \A a : Pane(a)' = Pane(a)
    BY <2>5 DEF Pane
  <2>9. Attended'
    BY <2>1, <2>5, <2>7, <2>8 DEF Moves, Attended, At, Allocations
  <2>10. faults' \in Nat
    BY <1>3 DEF Inv, OnceInv, Stored, budget
  <2>11. QED
    BY <1>1, <1>3, <2>2, <2>4, <2>9, <2>10, StillStored
<1>4. QED
  BY <1>2, <1>3 DEF Allocate

\* What is known where an allocation is made.
LEMMA AllocatingNow ==
    ASSUME Inv, job.phase \in {"create", "window", "publish"}
    PROVE  /\ ~At("down") /\ Framed /\ job.op \in Reconciling
           /\ job.command # "none" /\ job.todo \in SUBSET Activations
           /\ job.act \in DOMAIN live.allocating
           /\ \A a \in Running : a \in Owned \cup job.todo \/ a = job.act
BY DEF Inv, OnceInv, Control, Allots, Attended, At, Allocations, Reconciling

LEMMA CreatePaneInv ==
    ASSUME Inv, CreatePane
    PROVE  Inv'
<1>1. /\ At("create") /\ faults \in Nat
      /\ UNCHANGED <<dlog, service, typed>> /\ done' = done /\ live' = live
      /\ \/ Goto("window") /\ UNCHANGED budget
         \/ Fault("tmux") /\ job' = Erred
  BY DEF CreatePane, Inv, OnceInv, Stored, files, runtime, service
<1>2. faults' \in Nat
  BY <1>1, Counted
<1>3. /\ ~At("down") /\ Framed /\ job.op \in Reconciling
      /\ job.command # "none" /\ job.todo \in SUBSET Activations
      /\ job.act \in DOMAIN live.allocating
      /\ \A a \in Running : a \in Owned \cup job.todo \/ a = job.act
  BY <1>1, AllocatingNow DEF At
<1>4. CASE Goto("window")
  <2>1. Moves("window", job.todo, job.act, job.back)
    BY <1>3, <1>4, GotoMoves DEF Goto
  <2>2. /\ "window" \in Allocations
        /\ \A a \in Running : \/ a \in DOMAIN live'.panes \cup job.todo
                              \/ "window" # "allocate" /\ a = job.act
    BY <1>1, <1>3 DEF Allocations, Owned
  <2>3. /\ Control' /\ ~At("down")'
        /\ Allots' /\ Actuates' /\ Barred' /\ Attended'
    BY <1>1, <1>3, <2>1, <2>2, AllocationGoesOn
  <2>4. QED
    BY <1>1, <1>2, <1>3, <2>3, StillStored
<1>5. CASE job' = Erred
  <2>1. job.op \in Ops
    BY OpsTyped DEF Inv, OnceInv
  <2>2. Control' /\ Waits' /\ ~At("down")'
    BY <1>5, <2>1, ErredWell
  <2>3. QED
    BY <1>1, <1>2, <1>3, <2>2, MovedInv
<1>6. QED
  BY <1>1, <1>4, <1>5

LEMMA BindWindowInv ==
    ASSUME Inv, BindWindow
    PROVE  Inv'
<1> DEFINE c == Intent.command
           then == [job EXCEPT !.phase = "publish"]
           update == [live EXCEPT !.tmux = Intent.command]
           event == TmuxBound(Intent.command)
<1>1. At("window") /\ UNCHANGED typed /\ done' = done
  BY DEF BindWindow, runtime
<1>2. /\ ~At("down") /\ Framed /\ job.op \in Reconciling
      /\ job.command # "none" /\ job.todo \in SUBSET Activations
      /\ job.act \in DOMAIN live.allocating
      /\ \A a \in Running : a \in Owned \cup job.todo \/ a = job.act
  BY <1>1, AllocatingNow DEF At
<1>3. c # "none"
  BY <1>2, LiveBoth, RolesAssumption DEF Both, Safe, Numbered, Intent
<1>4. ASSUME job' = then, live'.tmux # "none", live'.panes = live.panes,
             live'.allocating = live.allocating
      PROVE  /\ Control' /\ ~At("down")'
             /\ Allots' /\ Actuates' /\ Barred' /\ Attended'
  <2>1. Moves("publish", job.todo, job.act, job.back)
    BY <1>2, <1>4, GotoMoves
  <2>2. /\ "publish" \in Allocations
        /\ \A a \in Running : \/ a \in DOMAIN live'.panes \cup job.todo
                              \/ "publish" # "allocate" /\ a = job.act
    BY <1>2, <1>4 DEF Allocations, Owned
  <2>3. QED
    BY <1>1, <1>2, <1>4, <2>1, <2>2, AllocationGoesOn
<1>5. CASE /\ live.tmux = c /\ Goto("publish")
           /\ UNCHANGED <<dlog, service, budget>>
  <2>1. faults' \in Nat
    BY <1>5 DEF Inv, OnceInv, Stored, budget
  <2>2. /\ Control' /\ ~At("down")'
        /\ Allots' /\ Actuates' /\ Barred' /\ Attended'
    BY <1>3, <1>4, <1>5 DEF service, Goto
  <2>3. QED
    BY <1>1, <1>2, <1>5, <2>1, <2>2, StillStored
<1>6. CASE AppendEvent(event, update, then)
  <2>1. Replayed(Logged, Line(event, count + 1)) = BoundTo(Logged, c)
    BY ReplayedBound
  <2>2. /\ update = [live EXCEPT !.tmux = c]
        /\ update.tmux = c /\ update.panes = live.panes
        /\ update.allocating = live.allocating
    BY <1>2, LiveBoth DEF Shape
  <2> HIDE DEF event, update, then, c
  <2>3. \A u \in {live, update} :
           Both(u, Replayed(Logged, Line(event, count + 1)), typed)
    BY <1>2, <1>3, <2>1, <2>2, LiveBoth, BoundBoth
  <2>4. (live' = update /\ job' = then
         /\ Logged' = Replayed(Logged, Line(event, count + 1)))
           => /\ Control' /\ ~At("down")'
              /\ Allots' /\ Actuates' /\ Barred' /\ Attended'
    BY <1>3, <1>4, <2>2
  <2>5. QED
    BY <1>1, <1>2, <1>6, <2>3, <2>4, AppendInv
<1>7. QED
  BY <1>5, <1>6 DEF BindWindow

LEMMA PublishPaneInv ==
    ASSUME Inv, PublishPane
    PROVE  Inv'
<1> DEFINE a == job.act
           g == Intent.gen
           then == [job EXCEPT !.phase = "allocate", !.act = "none"]
           update == Allocated(live, a, g)
           event == [kind |-> "tmux_pane_allocated", act |-> a, gen |-> g]
<1>1. /\ At("publish") /\ UNCHANGED typed /\ done' = done
      /\ AppendEvent(event, update, then)
  BY DEF PublishPane, runtime, Allocated
<1>2. /\ ~At("down") /\ Framed /\ job.op \in Reconciling
      /\ job.command # "none" /\ job.todo \in SUBSET Activations
      /\ a \in DOMAIN live.allocating
      /\ \A b \in Running : b \in Owned \cup job.todo \/ b = a
  BY <1>1, AllocatingNow DEF At
<1>3. live.tmux # "none" /\ Logged.tmux # "none" /\ g = live.allocating[a].gen
  <2>1. live.tmux # "none"
    BY <1>1 DEF Inv, OnceInv, Allots
  <2>2. QED
    BY <1>2, <2>1, LiveBoth DEF Both, Agree, Intent
<1>4. DOMAIN update.panes = Owned \cup {a}
  BY <1>2, LiveBoth DEF Shape, Allocated, With, Owned
<1>5. Replayed(Logged, Line(event, count + 1)) = Allocated(Logged, a, g)
  BY <1>3, ReplayedAllocated
<1>6. ASSUME job' = then, live' = update
      PROVE  /\ Control' /\ ~At("down")'
             /\ Allots' /\ Actuates' /\ Barred' /\ Attended'
  <2>1. Moves("allocate", job.todo, "none", job.back)
    BY <1>2, <1>6 DEF Framed, Moves
  <2>2. /\ "allocate" \in Allocations
        /\ \A b \in Running : \/ b \in DOMAIN live'.panes \cup job.todo
                              \/ "allocate" # "allocate" /\ b = "none"
    BY <1>2, <1>4, <1>6 DEF Allocations
  <2> HIDE DEF update, then
  <2>3. QED
    BY <1>1, <1>2, <2>1, <2>2, AllocationGoesOn
<1> HIDE DEF event, update, then, g
<1>7. \A u \in {live, update} :
         Both(u, Replayed(Logged, Line(event, count + 1)), typed)
  <2>1. update = Allocated(live, a, g)
    BY DEF update, g
  <2>2. QED
    BY <1>2, <1>3, <1>5, <2>1, LiveBoth, AllocatedBoth
<1>8. (live' = update /\ job' = then
       /\ Logged' = Replayed(Logged, Line(event, count + 1)))
         => /\ Control' /\ ~At("down")'
            /\ Allots' /\ Actuates' /\ Barred' /\ Attended'
  BY <1>6
<1>9. QED
  BY <1>1, <1>2, <1>7, <1>8, AppendInv

-----------------------------------------------------------------------------
(* Actuation.                                                              *)

\* What is known of the pane that is actuated.
LEMMA ActuatingNow ==
    ASSUME Inv, job.phase \in Actuations \cup Deliveries
    PROVE  /\ ~At("down") /\ Framed
           /\ job.op \in Reconciling \cup {"session", "message"}
           /\ job.phase \in Actuations => job.op # "message"
           /\ job.op \in Reconciling
                 => job.command # "none" /\ job.todo \subseteq Activations
           /\ ~At("pick") => job.act \in Owned
           /\ job.op \in Reconciling =>
                 \/ job.warned
                 \/ \A a \in Running :
                       /\ a \in Owned
                       /\ \/ a \in job.todo
                          \/ Pane(a) \in live.launched
                          \/ Launching /\ a = job.act
BY DEF Inv, OnceInv, Control, Allots, Actuates, Attended, At, Allocations,
       Reconciling, Actuations, Deliveries

\* A phase of actuation or delivery follows another.
LEMMA ActControl ==
    ASSUME Inv, job.phase \in Actuations \cup Deliveries, Framed',
           job'.op = job.op, job'.command = job.command,
           job'.phase \in Actuations \cup Deliveries,
           job'.phase \in Actuations => job.op # "message",
           job'.todo \subseteq job.todo
    PROVE  Control' /\ ~At("down")' /\ Allots'
<1>1. /\ job.op \in Reconciling \cup {"session", "message"}
      /\ job.op \in Reconciling
            => job.command # "none" /\ job.todo \subseteq Activations
  BY ActuatingNow
<1>2. Control' /\ ~At("down")'
  BY <1>1 DEF Control, At, Cleanups, Allocations, Actuations, Deliveries,
              Reconciling
<1>3. Allots'
  BY <1>1 DEF Allots, At, Actuations, Deliveries
<1>4. QED
  BY <1>2, <1>3

\* Panes stay where they are.
LEMMA SamePlaces ==
    ASSUME live'.panes = live.panes, done' = done
    PROVE  Running' = Running /\ Owned' = Owned
           /\ (\A a : Pane(a)' = Pane(a))
           /\ \A a, r : KeyOf(a, r)' = KeyOf(a, r)
BY DEF Running, Owned, Pane, KeyOf

\* The next activation.
LEMMA PickedGoesOn ==
    ASSUME Inv, job.phase \in Actuations \cup Deliveries, job.op # "message",
           done' = done, live'.panes = live.panes,
           live.launched \subseteq live'.launched,
           \/ job' = Warned
           \/ /\ job' = Picked
              /\ Launching => Pane(job.act) \in live'.launched
    PROVE  /\ Control' /\ ~At("down")'
           /\ Allots' /\ Actuates' /\ Barred' /\ Attended'
<1>1. Framed
  BY ActuatingNow
<1>2. /\ Framed' /\ job'.op = job.op /\ job'.phase = "pick"
      /\ job'.todo = job.todo /\ job'.command = job.command
      /\ job' = Warned => job'.warned
      /\ job' = Picked => job'.warned = job.warned
  BY <1>1 DEF Framed, Warned, Picked
<1>3. Control' /\ ~At("down")' /\ Allots'
  BY <1>2, ActControl DEF Actuations
<1>4. Actuates' /\ Barred'
  BY <1>2 DEF Actuates, Barred, At, Deliveries, Launching
<1>5. Running' = Running /\ Owned' = Owned /\ \A a : Pane(a)' = Pane(a)
  BY SamePlaces
<1>6. job.op \in Reconciling =>
         \/ job.warned
         \/ \A a \in Running :
               /\ a \in Owned
               /\ \/ a \in job.todo
                  \/ Pane(a) \in live.launched
                  \/ Launching /\ a = job.act
  BY ActuatingNow
<1>7. Attended'
  BY <1>2, <1>5, <1>6 DEF Attended, At, Allocations
<1>8. QED
  BY <1>3, <1>4, <1>7

LEMMA PickInv ==
    ASSUME Inv, Pick
    PROVE  Inv'
<1>1. /\ At("pick") /\ job.phase \in Actuations /\ UNCHANGED resting
      /\ faults' \in Nat /\ done' = done /\ live' = live
  BY DEF Pick, At, Actuations, Inv, OnceInv, Stored, resting, budget,
         runtime, service
<1>2. /\ ~At("down") /\ Framed
      /\ job.op \in Reconciling \cup {"session"}
      /\ ~Launching
      /\ job.op \in Reconciling =>
            \/ job.warned
            \/ \A a \in Running :
                  a \in Owned /\ (a \in job.todo \/ Pane(a) \in live.launched)
  BY <1>1, ActuatingNow DEF At, Launching, Deliveries
<1>3. Running' = Running /\ Owned' = Owned /\ \A a : Pane(a)' = Pane(a)
  BY <1>1, SamePlaces
<1>4. UNCHANGED <<dlog, service, typed>>
  BY <1>1 DEF resting, files
<1>5. ASSUME NEW a \in job.todo,
             job' = IF a \in done \/ (a \in Owned /\ Pane(a) \in live.settled)
                    THEN [job EXCEPT !.todo = @ \ {a}]
                    ELSE IF a \notin Owned
                    THEN [job EXCEPT !.todo = @ \ {a}, !.warned = TRUE]
                    ELSE [job EXCEPT !.phase = "prepare", !.act = a,
                                     !.todo = @ \ {a}]
      PROVE  Inv'
  <2>1. CASE /\ a \in done \/ (a \in Owned /\ Pane(a) \in live.settled)
             /\ job' = [job EXCEPT !.todo = @ \ {a}]
    <3>1. Moves("pick", job.todo \ {a}, job.act, job.back)
      BY <1>1, <1>2, <2>1 DEF Framed, Moves, At
    <3>2. Control' /\ ~At("down")' /\ Allots'
      BY <1>1, <1>2, <3>1, ActControl DEF Moves, Actuations, Reconciling
    <3>3. Actuates' /\ Barred'
      BY <3>1 DEF Actuates, Barred, At, Deliveries, Launching, Moves
    <3>4. a \in Running => Pane(a) \in live.launched
      BY <1>2, <2>1, LiveBoth DEF Running, Both, Safe
    <3>5. Attended'
      BY <1>1, <1>2, <1>3, <3>1, <3>4 DEF Attended, At, Allocations, Moves
    <3>6. QED
      BY <1>1, <1>2, <1>4, <3>2, <3>3, <3>5, StillStored
  <2>2. CASE job' = [job EXCEPT !.todo = @ \ {a}, !.warned = TRUE]
    <3>1. /\ Framed' /\ job'.op = job.op /\ job'.phase = "pick"
          /\ job'.todo = job.todo \ {a} /\ job'.command = job.command
          /\ job'.warned
      BY <1>1, <1>2, <2>2 DEF Framed, At
    <3>2. Control' /\ ~At("down")' /\ Allots'
      BY <1>1, <1>2, <3>1, ActControl DEF Actuations, Reconciling
    <3>3. Actuates' /\ Barred' /\ Attended'
      BY <3>1 DEF Actuates, Barred, At, Deliveries, Launching, Attended,
                  Allocations
    <3>4. QED
      BY <1>1, <1>2, <1>4, <3>2, <3>3, StillStored
  <2>3. CASE /\ a \in Owned /\ Pane(a) \notin live.settled
             /\ job' = [job EXCEPT !.phase = "prepare", !.act = a,
                                   !.todo = @ \ {a}]
    <3>1. Moves("prepare", job.todo \ {a}, a, job.back)
      BY <1>1, <1>2, <2>3 DEF Framed, Moves, At
    <3>2. Control' /\ ~At("down")' /\ Allots'
      BY <1>1, <1>2, <3>1, ActControl DEF Moves, Actuations, Reconciling
    <3>3. Actuates' /\ Barred'
      BY <1>1, <1>3, <2>3, <3>1 DEF Actuates, Barred, At, Deliveries,
                                    Launching, Moves
    <3>4. Attended'
      BY <1>1, <1>2, <1>3, <3>1 DEF Attended, At, Allocations, Moves,
                                    Launching
    <3>5. QED
      BY <1>1, <1>2, <1>4, <3>2, <3>3, <3>4, StillStored
  <2>4. QED
    BY <1>5, <2>1, <2>2, <2>3
<1>6. CASE job' = IF job.warned THEN [job EXCEPT !.phase = "pause"] ELSE Idle
  <2>1. CASE job' = [job EXCEPT !.phase = "pause"]
    <3>1. Moves("pause", job.todo, job.act, job.back)
      BY <1>2, <2>1, GotoMoves
    <3>2. Control' /\ Waits' /\ ~At("down")'
      BY <1>2, <3>1 DEF Control, Waits, Moves, At, Cleanups, Allocations,
                        Actuations, Deliveries, Reconciling
    <3>3. QED
      BY <1>1, <1>2, <1>4, <3>2, MovedInv
  <2>2. CASE job' = Idle
    <3>1. Control' /\ Waits' /\ ~At("down")'
      BY <2>2, EndsWell DEF Idle, At
    <3>2. QED
      BY <1>1, <1>2, <1>4, <3>1, MovedInv
  <2>3. QED
    BY <1>6, <2>1, <2>2
<1>7. QED
  BY <1>5, <1>6 DEF Pick

LEMMA PrepareInv ==
    ASSUME Inv, Prepare
    PROVE  Inv'
<1> DEFINE p == Pane(job.act)
           then == [job EXCEPT !.phase = "launch", !.role = "launch"]
           update == ParticipantStarted(live, p)
           event == [kind |-> "participant_started", act |-> p[1],
                     gen |-> p[2]]
<1>1. /\ At("prepare") /\ job.phase \in Actuations /\ UNCHANGED typed
      /\ done' = done /\ faults \in Nat
  BY DEF Prepare, At, Actuations, Inv, OnceInv, Stored, runtime
<1>2. /\ ~At("down") /\ Framed
      /\ job.op \in Reconciling \cup {"session"}
      /\ job.act \in Owned /\ p \notin live.settled
      /\ job.op \in Reconciling =>
            \/ job.warned
            \/ \A a \in Running :
                  /\ a \in Owned
                  /\ \/ a \in job.todo
                     \/ Pane(a) \in live.launched
                     \/ Launching /\ a = job.act
  <2>1. p \notin live.settled
    BY <1>1 DEF Inv, OnceInv, Actuates, Launching, At
  <2>2. QED
    BY <1>1, <2>1, ActuatingNow DEF At
<1>3. ASSUME job' = then, live'.panes = live.panes,
             live'.settled = live.settled, live'.launched = live.launched
      PROVE  /\ Control' /\ ~At("down")'
             /\ Allots' /\ Actuates' /\ Barred' /\ Attended'
  <2>1. /\ Framed' /\ job'.op = job.op /\ job'.phase = "launch"
        /\ job'.todo = job.todo /\ job'.command = job.command
        /\ job'.role = "launch" /\ job'.act = job.act
        /\ job'.warned = job.warned
    BY <1>2, <1>3 DEF Framed
  <2>2. Control' /\ ~At("down")' /\ Allots'
    BY <1>1, <1>2, <2>1, ActControl DEF Actuations, Reconciling
  <2>3. Running' = Running /\ Owned' = Owned /\ \A a : Pane(a)' = Pane(a)
    BY <1>1, <1>3, SamePlaces
  <2>4. Actuates' /\ Barred'
    BY <1>2, <1>3, <2>1, <2>3 DEF Actuates, Barred, At, Deliveries, Launching
  <2>5. Attended'
    BY <1>2, <1>3, <2>1, <2>3 DEF Attended, At, Allocations, Launching
  <2>6. QED
    BY <2>2, <2>4, <2>5
<1>4. CASE job' \in {then, Erred} /\ UNCHANGED <<dlog, service, budget>>
  <2>1. faults' \in Nat
    BY <1>1, <1>4 DEF budget
  <2>2. CASE job' = then
    <3>1. /\ Control' /\ ~At("down")'
          /\ Allots' /\ Actuates' /\ Barred' /\ Attended'
      BY <1>3, <1>4, <2>2 DEF service
    <3>2. QED
      BY <1>1, <1>2, <1>4, <2>1, <3>1, StillStored
  <2>3. CASE job' = Erred
    <3>1. job.op \in Ops
      BY OpsTyped DEF Inv, OnceInv
    <3>2. Control' /\ Waits' /\ ~At("down")'
      BY <2>3, <3>1, ErredWell
    <3>3. QED
      BY <1>1, <1>2, <1>4, <2>1, <3>2, MovedInv DEF service
  <2>4. QED
    BY <1>4, <2>2, <2>3
<1>5. CASE AppendEvent(event, update, then)
  <2>1. /\ Like(live, update) /\ Like(live, live)
        /\ update.panes = live.panes /\ update.settled = live.settled
        /\ update.launched = live.launched
    BY <1>2, LiveBoth DEF Like, Shape, ParticipantStarted
  <2>2. Like(Logged, Replayed(Logged, Line(event, count + 1)))
    BY <1>2, LiveBoth, ReplayedLike
  <2> HIDE DEF event, update, then
  <2>3. \A u \in {live, update} :
           Both(u, Replayed(Logged, Line(event, count + 1)), typed)
    BY <1>2, <2>1, <2>2, LiveBoth, LikeBoth
  <2>4. (live' = update /\ job' = then
         /\ Logged' = Replayed(Logged, Line(event, count + 1)))
           => /\ Control' /\ ~At("down")'
              /\ Allots' /\ Actuates' /\ Barred' /\ Attended'
    BY <1>3, <2>1
  <2>5. QED
    BY <1>1, <1>2, <1>5, <2>3, <2>4, AppendInv
<1>6. QED
  BY <1>4, <1>5 DEF Prepare

\* What follows within the delivery of an input, or leads to it.
LEMMA DeliveryGoesOn ==
    ASSUME Inv, job.phase \in {"launch", "prompt"} \cup Deliveries,
           NEW p \in Deliveries, Moves(p, job.todo, job.act, job.back),
           done' = done, live'.panes = live.panes,
           live.launched \subseteq live'.launched,
           live'.settled = live.settled,
           p \in {"start", "type"} /\ Input(Key) \in InputIds
              => typed'[Input(Key)] = 0,
           p = "type" => /\ Key \in DOMAIN live'.ambiguous
                         /\ Key \in DOMAIN Logged'.ambiguous
    PROVE  /\ Control' /\ ~At("down")'
           /\ Allots' /\ Actuates' /\ Barred' /\ Attended'
<1>1. /\ job.phase \in Actuations \cup Deliveries
      /\ ~At("pick") /\ ~At("prepare")
  BY DEF Actuations, Deliveries, At
<1>2. /\ Framed' /\ job'.op = job.op /\ job'.phase = p
      /\ job'.todo = job.todo /\ job'.command = job.command
      /\ job'.role = job.role /\ job'.act = job.act
      /\ job'.warned = job.warned
  BY DEF Moves
<1>3. p \notin Actuations /\ p \notin Allocations
      /\ p \notin {"prepare", "launch", "prompt", "pick"}
  BY DEF Deliveries, Actuations, Allocations
<1>4. Control' /\ ~At("down")' /\ Allots'
  BY <1>1, <1>2, <1>3, ActControl
<1>5. /\ Running' = Running /\ Owned' = Owned
      /\ (\A a : Pane(a)' = Pane(a))
      /\ \A a, r : KeyOf(a, r)' = KeyOf(a, r)
  BY SamePlaces
<1>6. Key' = Key /\ Pane(job.act)' = Pane(job.act)
  BY <1>2 DEF Key, KeyOf, Pane
<1>7. job.role = "launch" <=> Launching
  BY <1>1 DEF Launching, At, Inv, OnceInv, Actuates, Deliveries
<1>8. Launching' <=> Launching
  BY <1>2, <1>3, <1>7 DEF Launching
<1>9. job.act \in Owned
  BY <1>1, ActuatingNow
<1>10. job.role \in IF job.op = "message" THEN Messages ELSE Roles
  <2>1. CASE job.phase \in Deliveries
    BY <2>1 DEF Inv, OnceInv, Actuates
  <2>2. CASE job.phase \in {"launch", "prompt"}
    <3>1. job.op # "message"
      BY <2>2, <1>1, ActuatingNow DEF Actuations
    <3>2. QED
      BY <2>2, <3>1 DEF Inv, OnceInv, Actuates, At, Roles
  <2>3. QED
    BY <2>1, <2>2
<1>11. Launching => Pane(job.act) \notin live.settled
  BY DEF Inv, OnceInv, Actuates
<1>12. Actuates'
  <2>1. p \in {"start", "type"} /\ Input(Key)' \in InputIds'
           => typed'[Input(Key)'] = 0
    BY <1>6 DEF Input, InputIds, Generations, Roles
  <2>2. QED
    BY <1>2, <1>3, <1>5, <1>6, <1>8, <1>9, <1>10, <1>11, <2>1
       DEF Actuates, At
<1>13. Barred'
  BY <1>2, <1>6 DEF Barred, At
<1>14. Attended'
  <2>1. job.op \in Reconciling =>
           \/ job.warned
           \/ \A a \in Running :
                 /\ a \in Owned
                 /\ \/ a \in job.todo
                    \/ Pane(a) \in live.launched
                    \/ Launching /\ a = job.act
    BY <1>1, ActuatingNow
  <2>2. QED
    BY <1>2, <1>3, <1>5, <1>8, <2>1 DEF Attended, At
<1>15. QED
  BY <1>4, <1>12, <1>13, <1>14

\* The launch is submitted, and the prompt is next.
LEMMA PromptGoesOn ==
    ASSUME Inv, job.phase \in {"launch", "prompt"} \cup Deliveries,
           job.op # "message", job' = ToPrompt, done' = done,
           live'.panes = live.panes, live.launched \subseteq live'.launched,
           Pane(job.act) \in live'.launched,
           Pane(job.act) \notin live'.settled
    PROVE  /\ Control' /\ ~At("down")'
           /\ Allots' /\ Actuates' /\ Barred' /\ Attended'
<1>1. /\ job.phase \in Actuations \cup Deliveries /\ ~At("pick") /\ Framed
  BY ActuatingNow DEF Actuations, Deliveries, At
<1>2. /\ Framed' /\ job'.op = job.op /\ job'.phase = "prompt"
      /\ job'.todo = job.todo /\ job'.command = job.command
      /\ job'.role = "prompt" /\ job'.act = job.act
      /\ job'.warned = job.warned
  BY <1>1 DEF Framed, ToPrompt
<1>3. Control' /\ ~At("down")' /\ Allots'
  BY <1>1, <1>2, ActControl DEF Actuations
<1>4. Running' = Running /\ Owned' = Owned /\ \A a : Pane(a)' = Pane(a)
  BY SamePlaces
<1>5. Pane(job.act)' = Pane(job.act)
  BY <1>2 DEF Pane
<1>6. job.act \in Owned
  BY <1>1, ActuatingNow
<1>7. Actuates' /\ Barred'
  BY <1>2, <1>4, <1>5, <1>6 DEF Actuates, Barred, At, Deliveries, Launching
<1>8. job.op \in Reconciling =>
         \/ job.warned
         \/ \A a \in Running :
               /\ a \in Owned
               /\ \/ a \in job.todo
                  \/ Pane(a) \in live.launched
                  \/ Launching /\ a = job.act
  BY <1>1, ActuatingNow
<1>9. Attended'
  BY <1>2, <1>4, <1>8 DEF Attended, At, Allocations
<1>10. QED
  BY <1>3, <1>7, <1>9

\* What was not submitted and is not in doubt was not typed.
LEMMA NotTyped ==
    ASSUME Inv, job.phase \in {"launch", "prompt"},
           Key \notin DOMAIN live.ambiguous,
           ~WasSubmitted(live, Key), Input(Key) \in InputIds
    PROVE  typed[Input(Key)] = 0
<1>1. ~At("down") /\ job.act \in Owned /\ job.role \in Roles
  BY ActuatingNow DEF Actuations, At, Inv, OnceInv, Actuates, Roles
<1>2. Safe(live, typed)
  BY <1>1, LiveBoth DEF Both
<1>3. Key = <<job.act, job.role, live.panes[job.act]>>
  BY DEF Key, KeyOf
<1>4. Key \in Activations \X Roles \X Nat
  BY <1>1, <1>2, <1>3 DEF Safe, Numbered, Owned
<1>5. Input(Key) = Key
  BY <1>1, <1>3, RolesAssumption DEF Input
<1>6. Key \in RoleKeys
  BY <1>4, <1>5, MessagesAssumption DEF InputIds, RoleKeys
<1>7. Key \notin Sent(typed)
  BY <1>1, <1>2, <1>3 DEF Safe, RolesKept, Owned
<1>8. QED
  BY <1>5, <1>6, <1>7 DEF Sent

\* An input in doubt is finished from the ledger, or waits for a word.
LEMMA RecoverGoesOn ==
    ASSUME Inv, job.phase \in {"launch", "prompt"}, job' = Recover,
           UNCHANGED resting
    PROVE  Inv'
<1>1. /\ UNCHANGED <<dlog, service, typed>> /\ faults' \in Nat
      /\ done' = done /\ live' = live
  BY DEF resting, files, service, runtime, budget, Inv, OnceInv, Stored
<1>2. ~At("down") /\ Framed /\ job.op # "message"
      /\ job.phase \in Actuations
  BY ActuatingNow DEF Actuations
<1>3. CASE job' = [job EXCEPT !.phase = "finish"]
  <2>1. Moves("finish", job.todo, job.act, job.back)
    BY <1>2, <1>3, GotoMoves
  <2>2. "finish" \in Deliveries
    BY DEF Deliveries
  <2>3. /\ Control' /\ ~At("down")'
        /\ Allots' /\ Actuates' /\ Barred' /\ Attended'
    BY <1>1, <2>1, <2>2, DeliveryGoesOn
  <2>4. QED
    BY <1>1, <1>2, <2>3, StillStored
<1>4. CASE job' = Warned
  <2>1. /\ Control' /\ ~At("down")'
        /\ Allots' /\ Actuates' /\ Barred' /\ Attended'
    BY <1>1, <1>2, <1>4, PickedGoesOn
  <2>2. QED
    BY <1>1, <1>2, <2>1, StillStored
<1>5. QED
  BY <1>3, <1>4 DEF Recover

\* A delivery begins for an input that was not typed.
LEMMA StartsInv ==
    ASSUME Inv, job.phase \in {"launch", "prompt"}, UNCHANGED resting,
           job' = [job EXCEPT !.phase = "start"],
           Key \notin DOMAIN live.ambiguous, ~WasSubmitted(live, Key)
    PROVE  Inv'
<1>1. /\ UNCHANGED <<dlog, service, typed>> /\ faults' \in Nat
      /\ done' = done /\ live' = live
  BY DEF resting, files, service, runtime, budget, Inv, OnceInv, Stored
<1>2. ~At("down") /\ Framed
  BY ActuatingNow DEF Actuations
<1>3. Moves("start", job.todo, job.act, job.back)
  BY <1>2, GotoMoves
<1>4. "start" \in Deliveries /\ "start" # "type"
  BY DEF Deliveries
<1>5. Input(Key) \in InputIds => typed'[Input(Key)] = 0
  BY <1>1, NotTyped
<1>6. /\ Control' /\ ~At("down")'
      /\ Allots' /\ Actuates' /\ Barred' /\ Attended'
  BY <1>1, <1>3, <1>4, <1>5, DeliveryGoesOn
<1>7. QED
  BY <1>1, <1>2, <1>6, StillStored

LEMMA LaunchInv ==
    ASSUME Inv, Launch
    PROVE  Inv'
<1>1. /\ At("launch") /\ job.phase \in {"launch", "prompt"}
      /\ UNCHANGED resting
  BY DEF Launch, At
<1>2. /\ UNCHANGED <<dlog, service, typed>> /\ faults' \in Nat
      /\ done' = done /\ live' = live
  BY <1>1 DEF resting, files, service, runtime, budget, Inv, OnceInv, Stored
<1>3. /\ ~At("down") /\ job.op # "message" /\ job.role = "launch"
      /\ Pane(job.act) \notin live.settled
  BY <1>1, ActuatingNow DEF Actuations, At, Inv, OnceInv, Actuates, Launching
<1>4. CASE Pane(job.act) \in live.launched /\ job' = ToPrompt
  <2>1. /\ Control' /\ ~At("down")'
        /\ Allots' /\ Actuates' /\ Barred' /\ Attended'
    BY <1>1, <1>2, <1>3, <1>4, PromptGoesOn
  <2>2. QED
    BY <1>2, <1>3, <2>1, StillStored
<1>5. CASE /\ Pane(job.act) \notin live.launched
           /\ Key \notin DOMAIN live.ambiguous
           /\ job' = [job EXCEPT !.phase = "start"]
  <2>1. ~WasSubmitted(live, Key)
    BY <1>3, <1>5 DEF WasSubmitted, Key, KeyOf, Pane
  <2>2. QED
    BY <1>1, <1>5, <2>1, StartsInv
<1>6. CASE job' = Recover
  BY <1>1, <1>6, RecoverGoesOn
<1>7. QED
  BY <1>4, <1>5, <1>6 DEF Launch

LEMMA PromptInv ==
    ASSUME Inv, Prompt
    PROVE  Inv'
<1>1. /\ At("prompt") /\ job.phase \in {"launch", "prompt"}
      /\ UNCHANGED resting
  BY DEF Prompt, At
<1>2. /\ UNCHANGED <<dlog, service, typed>> /\ faults' \in Nat
      /\ done' = done /\ live' = live
  BY <1>1 DEF resting, files, service, runtime, budget, Inv, OnceInv, Stored
<1>3. /\ ~At("down") /\ job.op # "message" /\ job.role = "prompt"
      /\ Pane(job.act) \notin live.settled /\ ~Launching
      /\ job.phase \in Actuations
  BY <1>1, ActuatingNow DEF Actuations, At, Inv, OnceInv, Actuates,
                            Launching, Deliveries
<1>4. CASE job' = Recover
  BY <1>1, <1>4, RecoverGoesOn
<1>5. CASE job' = Picked
  <2>1. /\ Control' /\ ~At("down")'
        /\ Allots' /\ Actuates' /\ Barred' /\ Attended'
    BY <1>2, <1>3, <1>5, PickedGoesOn
  <2>2. QED
    BY <1>2, <1>3, <2>1, StillStored
<1>6. CASE /\ Key \notin DOMAIN live.ambiguous
           /\ job' = [job EXCEPT !.phase = "start"]
  <2>1. ~WasSubmitted(live, Key)
    BY <1>3 DEF WasSubmitted, Key, KeyOf, Pane
  <2>2. QED
    BY <1>1, <1>6, <2>1, StartsInv
<1>7. QED
  BY <1>4, <1>5, <1>6 DEF Prompt

-----------------------------------------------------------------------------
(* Deliveries.                                                             *)

\* What is known where an input is delivered.
LEMMA DeliveringNow ==
    ASSUME Inv, job.phase \in Deliveries
    PROVE  /\ ~At("down") /\ Framed /\ job.act \in Owned
           /\ job.role \in IF job.op = "message" THEN Messages ELSE Roles
           /\ Key = <<job.act, job.role, live.panes[job.act]>>
           /\ Pane(job.act) = <<Key[1], Key[3]>>
           /\ Launching <=> job.role = "launch"
           /\ Launching => Pane(job.act) \notin live.settled
           /\ Both(live, Logged, typed)
<1>1. ~At("down") /\ Framed /\ job.act \in Owned
  BY ActuatingNow DEF At, Deliveries
<1>2. Both(live, Logged, typed)
  BY <1>1, LiveBoth
<1>3. Key = <<job.act, job.role, live.panes[job.act]>>
  BY DEF Key, KeyOf
<1>4. job.role \in IF job.op = "message" THEN Messages ELSE Roles
  BY DEF Inv, OnceInv, Actuates
<1>5. Launching => Pane(job.act) \notin live.settled
  BY DEF Inv, OnceInv, Actuates
<1>6. job.phase \notin {"prepare", "launch"}
  BY DEF Deliveries
<1>7. Launching <=> job.role = "launch"
  BY <1>6 DEF Launching
<1>8. Pane(job.act) = <<Key[1], Key[3]>>
  BY <1>3 DEF Pane
<1>9. QED
  BY <1>1, <1>2, <1>3, <1>4, <1>5, <1>7, <1>8

LEMMA StartDeliveryInv ==
    ASSUME Inv, StartDelivery
    PROVE  Inv'
<1> DEFINE event == [kind |-> "input_delivery_started", key |-> Key]
           update == Barrier(live, Key, count + 1)
           then == [job EXCEPT !.phase = "type"]
           logged == Barrier(Logged, Key, count + 1)
<1>1. /\ At("start") /\ job.phase \in Deliveries /\ UNCHANGED typed
      /\ done' = done
      /\ AppendEvent(event, update, then)
  BY DEF StartDelivery, At, Deliveries, runtime, Barrier
<1>2. ~At("down") /\ Framed /\ Both(live, Logged, typed)
  BY <1>1, DeliveringNow
<1>3. Replayed(Logged, Line(event, count + 1)) = logged
  BY ReplayedStarted
<1>4. /\ Safe(update, typed) /\ SamePanes(live, update)
      /\ Key \in DOMAIN update.ambiguous
      /\ update.launched = live.launched /\ update.settled = live.settled
  BY <1>2, BarrierSafe DEF Both
<1>5. /\ Safe(logged, typed) /\ SamePanes(Logged, logged)
      /\ Key \in DOMAIN logged.ambiguous
  BY <1>2, BarrierSafe DEF Both
<1>6. Safe(live, typed) /\ SamePanes(live, live)
  BY <1>2 DEF Both, SamePanes
<1>7. Input(Key) \in InputIds => typed[Input(Key)] = 0
  BY <1>1 DEF Inv, OnceInv, Actuates, At
<1>8. job' = then => Moves("type", job.todo, job.act, job.back)
  BY <1>2, GotoMoves
<1> HIDE DEF event, update, then, logged
<1>9. \A u \in {live, update} :
         Both(u, Replayed(Logged, Line(event, count + 1)), typed)
  BY <1>2, <1>3, <1>4, <1>5, <1>6, SamePanesBoth
<1>10. ASSUME live' = update, job' = then,
              Logged' = Replayed(Logged, Line(event, count + 1))
       PROVE  /\ Control' /\ ~At("down")'
              /\ Allots' /\ Actuates' /\ Barred' /\ Attended'
  <2>1. Moves("type", job.todo, job.act, job.back)
    BY <1>8, <1>10
  <2>2. /\ Key \in DOMAIN live'.ambiguous /\ Key \in DOMAIN Logged'.ambiguous
    BY <1>3, <1>4, <1>5, <1>10
  <2>3. /\ live'.panes = live.panes /\ live.launched \subseteq live'.launched
        /\ live'.settled = live.settled
    BY <1>4, <1>10 DEF SamePanes
  <2>4. Input(Key) \in InputIds => typed'[Input(Key)] = 0
    BY <1>1, <1>7
  <2>5. "type" \in Deliveries
    BY DEF Deliveries
  <2>6. QED
    BY <1>1, <2>1, <2>2, <2>3, <2>4, <2>5, DeliveryGoesOn
<1>11. QED
  BY <1>1, <1>2, <1>9, <1>10, AppendInv

\* A count that was zero becomes one.
LEMMA CountedOnce ==
    ASSUME NEW S, NEW f \in [S -> {0, 1}], NEW i, i \in S => f[i] = 0,
           NEW g, g = [f EXCEPT ![i] = @ + 1]
    PROVE  g \in [S -> {0, 1}] /\ \A j \in S : j # i => g[j] = f[j]
<1>1. DOMAIN f = S
  OBVIOUS
<1>2. CASE i \in S
  BY <1>2
<1>3. CASE i \notin S
  BY <1>3
<1>4. QED
  BY <1>2, <1>3

\* Whether or not the keys arrive.
LEMMA TypedStored ==
    ASSUME Inv, At("type"), UNCHANGED <<dlog, service>>, faults' \in Nat,
           Typed \/ UNCHANGED typed, ~At("down")'
    PROVE  Stored' /\ Logged' = Logged
<1>1. job.phase \in Deliveries
  BY DEF At, Deliveries
<1>2. /\ ~At("down") /\ job.act \in Owned
      /\ job.role \in IF job.op = "message" THEN Messages ELSE Roles
      /\ Key = <<job.act, job.role, live.panes[job.act]>>
      /\ Both(live, Logged, typed)
  BY <1>1, DeliveringNow
<1>3. Logged' = Logged /\ live' = live /\ Replayable(dlog')
  BY DEF Logged, service, Inv, OnceInv, Stored
<1>4. typed \in [InputIds -> {0, 1}]
  BY DEF Inv, OnceInv, Stored
<1>5. CASE UNCHANGED typed
  BY <1>2, <1>3, <1>4, <1>5, StoredNow
<1>6. CASE Typed
  <2>1. typed' = [typed EXCEPT ![Input(Key)] = @ + 1]
    BY <1>6 DEF Typed
  <2>2. Input(Key) \in InputIds => typed[Input(Key)] = 0
    BY DEF Inv, OnceInv, Actuates, At
  <2>3. typed' \in [InputIds -> {0, 1}]
    BY <1>4, <2>1, <2>2, CountedOnce
  <2>4. \A i \in InputIds : i # Input(Key) => typed'[i] = typed[i]
    BY <1>4, <2>1, <2>2, CountedOnce
  <2>5. Key \in DOMAIN live.ambiguous /\ Key \in DOMAIN Logged.ambiguous
    BY DEF Inv, OnceInv, Actuates, Barred
  <2>6. /\ job.act \in Activations /\ live.panes[job.act] \in Nat
        /\ job.act \in DOMAIN live.generations
        /\ live.panes[job.act] <= live.generations[job.act]
        /\ job.act \notin DOMAIN live.allocating
    BY <1>2 DEF Both, Safe, Numbered, PanesKnown, Owned
  <2>7. /\ job.act \in DOMAIN Logged.generations
        /\ live.panes[job.act] <= Logged.generations[job.act]
        /\ job.act \notin DOMAIN Logged.allocating
    BY <1>2 DEF Both, Agree, Owned
  <2>8. Key[2] \in Messages \/ Key \in Activations \X Roles \X Nat
    BY <1>2, <2>6
  <2>9. Safe(live, typed) /\ Safe(Logged, typed) /\ Agree(live, Logged)
    BY <1>2 DEF Both
  <2>10. Key[1] = job.act /\ Key[3] = live.panes[job.act]
    BY <1>2
  <2>11. Safe(live, typed')
    BY <2>4, <2>5, <2>6, <2>8, <2>9, <2>10, TypedSafe
  <2>12. Safe(Logged, typed')
    BY <2>4, <2>5, <2>7, <2>8, <2>9, <2>10, TypedSafe
  <2>13. Both(live', Logged', typed')
    BY <1>3, <2>9, <2>11, <2>12 DEF Both
  <2>14. QED
    BY <1>3, <2>3, <2>13, StoredNow
<1>7. QED
  BY <1>5, <1>6

\* The input stays in doubt.
LEMMA DoubtGoesOn ==
    ASSUME Inv, job.phase \in Deliveries, job' = InDoubt, done' = done,
           live' = live
    PROVE  /\ Control' /\ ~At("down")'
           /\ Allots' /\ Actuates' /\ Barred' /\ Attended'
<1>1. CASE job.op = "message"
  <2>1. job' = Idle
    BY <1>1 DEF InDoubt
  <2>2. Control' /\ Waits' /\ ~At("down")'
    BY <2>1, EndsWell DEF Idle, At
  <2>3. QED
    BY <2>2, WaitsInv
<1>2. CASE job.op # "message"
  <2>1. job' = Warned
    BY <1>2 DEF InDoubt
  <2>2. QED
    BY <1>2, <2>1, PickedGoesOn
<1>3. QED
  BY <1>1, <1>2

LEMMA TypeInputInv ==
    ASSUME Inv, TypeInput
    PROVE  Inv'
<1>1. /\ At("type") /\ job.phase \in Deliveries /\ faults \in Nat
      /\ UNCHANGED <<dlog, service>> /\ live' = live /\ done' = done
      /\ Typed \/ UNCHANGED typed
      /\ UNCHANGED budget \/ Fault("tmux")
      /\ Goto("record") \/ job' = InDoubt
  BY DEF TypeInput, At, Deliveries, files, service, runtime, Inv, OnceInv,
         Stored
<1>2. faults' \in Nat
  BY <1>1, Counted
<1>3. /\ Control' /\ ~At("down")'
      /\ Allots' /\ Actuates' /\ Barred' /\ Attended'
  <2>1. CASE Goto("record")
    <3>1. Framed
      BY <1>1, DeliveringNow
    <3>2. Moves("record", job.todo, job.act, job.back)
      BY <2>1, <3>1, GotoMoves DEF Goto
    <3>3. "record" \in Deliveries
      BY DEF Deliveries
    <3>4. QED
      BY <1>1, <3>2, <3>3, DeliveryGoesOn
  <2>2. CASE job' = InDoubt
    BY <1>1, <2>2, DoubtGoesOn
  <2>3. QED
    BY <1>1, <2>1, <2>2
<1>4. Stored'
  BY <1>1, <1>2, <1>3, TypedStored
<1>5. QED
  BY <1>3, <1>4 DEF Inv, OnceInv

LEMMA RecordInputInv ==
    ASSUME Inv, RecordInput
    PROVE  Inv'
<1>1. /\ job.phase \in Deliveries /\ faults \in Nat
      /\ UNCHANGED <<dlog, service, typed>> /\ live' = live /\ done' = done
      /\ Goto("publishing") \/ job' = InDoubt
  BY DEF RecordInput, At, Deliveries, files, service, runtime, Inv, OnceInv,
         Stored
<1>2. UNCHANGED budget \/ Fault("append_lost") \/ Fault("append_kept")
  BY DEF RecordInput
<1>3. faults' \in Nat
  BY <1>1, <1>2, Counted
<1>4. ~At("down") /\ Framed
  BY <1>1, DeliveringNow
<1>5. /\ Control' /\ ~At("down")'
      /\ Allots' /\ Actuates' /\ Barred' /\ Attended'
  <2>1. CASE Goto("publishing")
    <3>1. Moves("publishing", job.todo, job.act, job.back)
      BY <1>4, <2>1, GotoMoves DEF Goto
    <3>2. "publishing" \in Deliveries
      BY DEF Deliveries
    <3>3. QED
      BY <1>1, <3>1, <3>2, DeliveryGoesOn
  <2>2. CASE job' = InDoubt
    BY <1>1, <2>2, DoubtGoesOn
  <2>3. QED
    BY <1>1, <2>1, <2>2
<1>6. QED
  BY <1>1, <1>3, <1>4, <1>5, StillStored

LEMMA PublishInputInv ==
    ASSUME Inv, PublishInput
    PROVE  Inv'
<1>1. /\ job.phase \in Deliveries /\ faults \in Nat
      /\ UNCHANGED <<dlog, service, typed>> /\ live' = live /\ done' = done
      /\ \/ Goto("finish") /\ UNCHANGED budget
         \/ Fault("commit") /\ job' = Erred
  BY DEF PublishInput, At, Deliveries, files, service, runtime, Inv, OnceInv,
         Stored
<1>2. faults' \in Nat
  BY <1>1, Counted
<1>3. ~At("down") /\ Framed
  BY <1>1, DeliveringNow
<1>4. CASE Goto("finish")
  <2>1. Moves("finish", job.todo, job.act, job.back)
    BY <1>3, <1>4, GotoMoves DEF Goto
  <2>2. "finish" \in Deliveries
    BY DEF Deliveries
  <2>3. /\ Control' /\ ~At("down")'
        /\ Allots' /\ Actuates' /\ Barred' /\ Attended'
    BY <1>1, <2>1, <2>2, DeliveryGoesOn
  <2>4. QED
    BY <1>1, <1>2, <1>3, <2>3, StillStored
<1>5. CASE job' = Erred
  <2>1. job.op \in Ops
    BY OpsTyped DEF Inv, OnceInv
  <2>2. Control' /\ Waits' /\ ~At("down")'
    BY <1>5, <2>1, ErredWell
  <2>3. QED
    BY <1>1, <1>2, <1>3, <2>2, MovedInv
<1>6. QED
  BY <1>1, <1>4, <1>5

LEMMA FinishDeliveryInv ==
    ASSUME Inv, FinishDelivery
    PROVE  Inv'
<1> DEFINE n == live.ambiguous[Key]
           event == FinishEvent(Key)
           update == SubmittedNow(live, Key, n)
           later == SubmittedNow(Logged, Key, n)
<1>1. /\ At("finish") /\ job.phase \in Deliveries /\ UNCHANGED typed
      /\ done' = done
      /\ AppendEvent(event, update, Over)
  BY DEF FinishDelivery, At, Deliveries, runtime, Finished, SubmittedNow
<1>2. /\ ~At("down") /\ Framed /\ Both(live, Logged, typed)
      /\ job.role \in IF job.op = "message" THEN Messages ELSE Roles
      /\ Key = <<job.act, job.role, live.panes[job.act]>>
      /\ Pane(job.act) = <<Key[1], Key[3]>>
      /\ Launching <=> job.role = "launch"
      /\ Launching => Pane(job.act) \notin live.settled
  BY <1>1, DeliveringNow
<1>3. Replayed(Logged, Line(event, count + 1)) \in {Logged, later}
  BY ReplayedSubmitted DEF FinishEvent
<1>4. /\ Safe(update, typed) /\ SamePanes(live, update)
      /\ live.launched \subseteq update.launched
      /\ Key[2] \in Roles => <<Key[1], Key[3]>> \in update.launched
      /\ Key[2] # "prompt" => update.settled = live.settled
  BY <1>2, SubmittedSafe DEF Both
<1>5. Safe(later, typed) /\ SamePanes(Logged, later)
  BY <1>2, SubmittedSafe DEF Both
<1>6. /\ Safe(live, typed) /\ SamePanes(live, live)
      /\ Safe(Logged, typed) /\ SamePanes(Logged, Logged)
  BY <1>2 DEF Both, SamePanes
<1> HIDE DEF event, update, later
<1>7. \A u \in {live, update} :
         Both(u, Replayed(Logged, Line(event, count + 1)), typed)
  BY <1>2, <1>3, <1>4, <1>5, <1>6, SamePanesBoth
<1>8. ASSUME live' = update, job' = Over,
             Logged' = Replayed(Logged, Line(event, count + 1))
      PROVE  /\ Control' /\ ~At("down")'
             /\ Allots' /\ Actuates' /\ Barred' /\ Attended'
  <2>1. /\ live'.panes = live.panes /\ live.launched \subseteq live'.launched
    BY <1>4, <1>8 DEF SamePanes
  <2>2. CASE job.op = "message"
    <3>1. job' = Idle
      BY <1>2, <1>8, <2>2, RolesAssumption DEF Over, Roles
    <3>2. Control' /\ Waits' /\ ~At("down")'
      BY <3>1, EndsWell DEF Idle, At
    <3>3. QED
      BY <3>2, WaitsInv
  <2>3. CASE job.op # "message" /\ job.role = "launch"
    <3>1. job' = ToPrompt
      BY <1>8, <2>3 DEF Over
    <3>2. Key[2] = "launch" /\ "launch" \in Roles
      BY <1>2, <2>3 DEF Roles
    <3>3. /\ Pane(job.act) \in live'.launched
          /\ Pane(job.act) \notin live'.settled
      BY <1>2, <1>4, <1>8, <2>3, <3>2
    <3>4. QED
      BY <1>1, <2>1, <2>3, <3>1, <3>3, PromptGoesOn
  <2>4. CASE job.op # "message" /\ job.role = "prompt"
    <3>1. job' = Picked
      BY <1>8, <2>4 DEF Over
    <3>2. ~Launching
      BY <1>2, <2>4
    <3>3. QED
      BY <1>1, <2>1, <2>4, <3>1, <3>2, PickedGoesOn
  <2>5. QED
    BY <1>2, <2>2, <2>3, <2>4 DEF Roles
<1>9. QED
  BY <1>1, <1>2, <1>7, <1>8, AppendInv

-----------------------------------------------------------------------------
(* Requests.                                                               *)

\* The operations that a request starts.
LEMMA BeginsWell ==
    ASSUME \/ \E S : job' = [Idle EXCEPT !.op = "finalize",
                                         !.phase = "finalize", !.todo = S]
           \/ \E o \in Reconciling : \E c : c # "none" /\
                job' = [Idle EXCEPT !.op = o, !.phase = "bind",
                                    !.command = c]
           \/ job' = [Idle EXCEPT !.op = "resolve", !.phase = "resume"]
           \/ \E a : job' = [Idle EXCEPT !.op = "exited",
                                         !.phase = "intent", !.act = a]
    PROVE  Control' /\ Waits' /\ ~At("down")'
<1>1. CASE \E S : job' = [Idle EXCEPT !.op = "finalize",
                                    !.phase = "finalize", !.todo = S]
  <2>1. Framed' /\ job'.op = "finalize" /\ job'.phase = "finalize"
    BY <1>1 DEF Idle, Framed
  <2>2. QED
    BY <2>1 DEF Control, Waits, At, Cleanups, Allocations, Actuations,
                Deliveries, Reconciling
<1>2. CASE \E o \in Reconciling : \E c : c # "none" /\
             job' = [Idle EXCEPT !.op = o, !.phase = "bind", !.command = c]
  <2>1. /\ Framed' /\ job'.op \in Reconciling /\ job'.phase = "bind"
        /\ job'.command # "none" /\ job'.todo \subseteq Activations
    BY <1>2 DEF Idle, Framed
  <2>2. QED
    BY <2>1 DEF Control, Waits, At, Cleanups, Allocations, Actuations,
                Deliveries
<1>3. CASE job' = [Idle EXCEPT !.op = "resolve", !.phase = "resume"]
  <2>1. Framed' /\ job'.op = "resolve" /\ job'.phase = "resume"
    BY <1>3 DEF Idle, Framed
  <2>2. QED
    BY <2>1 DEF Control, Waits, At, Cleanups, Allocations, Actuations,
                Deliveries, Reconciling
<1>4. CASE \E a : job' = [Idle EXCEPT !.op = "exited",
                                    !.phase = "intent", !.act = a]
  <2>1. /\ Framed' /\ job'.op = "exited" /\ job'.phase = "intent"
        /\ job'.back = "idle"
    BY <1>4 DEF Idle, Framed
  <2>2. QED
    BY <2>1 DEF Control, Waits, At, Cleanups, Allocations, Actuations,
                Deliveries, Reconciling
<1>5. QED
  BY <1>1, <1>2, <1>3, <1>4

\* What a request has reconciled begins with a binding, or is nothing.
LEMMA ReconcileWell ==
    ASSUME Inv, ~At("down"), NEW running, Reconcile(running)
    PROVE  Control' /\ Waits' /\ ~At("down")'
<1>1. \A c \in BindingsFor(running) : c # "none"
  BY LiveBoth DEF BindingsFor, Both, Safe, Numbered
<1>2. CASE job' = Idle
  <2>1. ~At("down")'
    BY <1>2 DEF Idle, At
  <2>2. QED
    BY <1>2, <2>1, EndsWell
<1>3. CASE job' # Idle
  <2>1. \E c : c # "none" /\ job' = [Idle EXCEPT !.op = "request",
                                      !.phase = "bind", !.command = c]
    BY <1>1, <1>3 DEF Reconcile
  <2>2. "request" \in Reconciling
    BY DEF Reconciling
  <2>3. QED
    BY <2>1, <2>2, BeginsWell
<1>4. QED
  BY <1>2, <1>3

\* A request that writes no event.
LEMMA RequestInv ==
    ASSUME Inv, ~At("down"), UNCHANGED <<files, service, typed>>,
           faults' \in Nat, Control' /\ Waits' /\ ~At("down")'
    PROVE  Inv'
BY MovedInv DEF files, service

\* Where requests are taken up.
LEMMA IdleNow ==
    ASSUME Inv, At("idle")
    PROVE  ~At("down") /\ job = Idle /\ faults \in Nat
BY DEF Inv, OnceInv, Control, Stored, At

\* And where they end.
LEMMA IdleWell ==
    ASSUME job' = Idle
    PROVE  Control' /\ Waits' /\ ~At("down")'
BY EndsWell DEF Idle, At

LEMMA PauseRunInv ==
    ASSUME Inv, PauseRun
    PROVE  Inv'
<1>1. /\ At("pause") /\ ~At("down") /\ faults \in Nat
      /\ UNCHANGED <<files, service, typed>>
      /\ UNCHANGED budget \/ Fault("commit")
      /\ job' \in {Idle, BindCleanup}
  BY DEF PauseRun, At, Inv, OnceInv, Stored
<1>2. faults' \in Nat
  BY <1>1, Counted
<1>3. Control' /\ Waits' /\ ~At("down")'
  BY <1>1, IdleWell, BeginsWell DEF BindCleanup
<1>4. QED
  BY <1>1, <1>2, <1>3, RequestInv

LEMMA BindRunInv ==
    ASSUME Inv, BindRun
    PROVE  Inv'
<1>1. /\ ~At("down") /\ UNCHANGED <<files, service, typed>> /\ faults' \in Nat
  BY IdleNow DEF BindRun
<1>2. PICK c \in Commands :
         job' = [Idle EXCEPT !.op = "bind", !.phase = "bind", !.command = c]
  BY DEF BindRun
<1>3. "bind" \in Reconciling /\ c # "none"
  BY RolesAssumption DEF Reconciling
<1>4. Control' /\ Waits' /\ ~At("down")'
  BY <1>2, <1>3, BeginsWell
<1>5. QED
  BY <1>1, <1>4, RequestInv

LEMMA RequestsInv ==
    ASSUME Inv, Request \/ Pause \/ Resume \/ EndRun
    PROVE  Inv'
<1>1. /\ ~At("down") /\ job = Idle /\ UNCHANGED <<files, service, typed>>
      /\ faults' \in Nat
  BY IdleNow DEF Request, Pause, Resume, EndRun, resting, budget
<1>2. Control' /\ Waits' /\ ~At("down")'
  <2>1. CASE Request
    BY <1>1, <2>1, ReconcileWell DEF Request
  <2>2. CASE Pause
    BY <1>1, <2>2, IdleWell DEF Pause
  <2>3. CASE Resume
    BY <2>3, BeginsWell DEF Resume
  <2>4. CASE EndRun
    BY <2>4, BeginsWell DEF EndRun
  <2>5. QED
    BY <2>1, <2>2, <2>3, <2>4
<1>3. QED
  BY <1>1, <1>2, RequestInv

LEMMA ResumeRunInv ==
    ASSUME Inv, ResumeRun
    PROVE  Inv'
<1>1. /\ ~At("down") /\ faults \in Nat /\ UNCHANGED <<files, service, typed>>
      /\ UNCHANGED budget \/ Fault("commit")
      /\ job' = Idle \/ Reconcile(Running)
  BY DEF ResumeRun, At, Inv, OnceInv, Stored
<1>2. faults' \in Nat
  BY <1>1, Counted
<1>3. Control' /\ Waits' /\ ~At("down")'
  BY <1>1, IdleWell, ReconcileWell
<1>4. QED
  BY <1>1, <1>2, <1>3, RequestInv

LEMMA ResolveSubmittedInv ==
    ASSUME Inv, NEW k, Resolve(k, "submitted")
    PROVE  Inv'
<1> DEFINE n == live.ambiguous[k]
           event == FinishEvent(k)
           update == SubmittedNow(live, k, n)
           later == SubmittedNow(Logged, k, n)
           then == [Idle EXCEPT !.op = "resolve", !.phase = "resume"]
<1>1. /\ At("idle") /\ UNCHANGED typed
      /\ AppendEvent(event, update, then)
  BY DEF Resolve, Finished, SubmittedNow
<1>2. ~At("down") /\ Both(live, Logged, typed)
  BY <1>1, IdleNow, LiveBoth
<1>3. Replayed(Logged, Line(event, count + 1)) \in {Logged, later}
  BY ReplayedSubmitted DEF FinishEvent
<1>4. Safe(update, typed) /\ SamePanes(live, update)
  BY <1>2, SubmittedSafe DEF Both
<1>5. Safe(later, typed) /\ SamePanes(Logged, later)
  BY <1>2, SubmittedSafe DEF Both
<1>6. /\ Safe(live, typed) /\ SamePanes(live, live)
      /\ Safe(Logged, typed) /\ SamePanes(Logged, Logged)
  BY <1>2 DEF Both, SamePanes
<1>7. job' = then => Control' /\ Waits' /\ ~At("down")'
  BY BeginsWell
<1> HIDE DEF event, update, later, then
<1>8. \A u \in {live, update} :
         Both(u, Replayed(Logged, Line(event, count + 1)), typed)
  BY <1>2, <1>3, <1>4, <1>5, <1>6, SamePanesBoth
<1>9. ASSUME live' = update, job' = then,
             Logged' = Replayed(Logged, Line(event, count + 1))
      PROVE  /\ Control' /\ ~At("down")'
             /\ Allots' /\ Actuates' /\ Barred' /\ Attended'
  BY <1>7, <1>9, WaitsInv
<1>10. QED
  BY <1>1, <1>2, <1>8, <1>9, AppendInv

LEMMA ResolveRefusedInv ==
    ASSUME Inv, NEW k, Resolve(k, "not_submitted")
    PROVE  Inv'
<1> DEFINE n == live.ambiguous[k]
           event == [kind |-> "input_delivery_not_submitted", key |-> k,
                     started |-> n]
           update == RefusedNow(live, k)
           later == RefusedNow(Logged, k)
           then == [Idle EXCEPT !.op = "resolve", !.phase = "resume"]
<1>1. /\ At("idle")
      /\ AppendEvent(event, update, then)
      /\ typed' = IF dlog' = dlog THEN typed
                  ELSE [typed EXCEPT ![Input(k)] = 0]
  BY DEF Resolve, RefusedNow
<1>2. ~At("down") /\ job = Idle /\ Both(live, Logged, typed) /\ Stored
  BY <1>1, IdleNow, LiveBoth DEF Inv, OnceInv
<1>3. Replayed(Logged, Line(event, count + 1)) \in {Logged, later}
  BY ReplayedRefused
<1>4. job' = then => Control' /\ Waits' /\ ~At("down")'
  BY BeginsWell
<1>5. job' = Erred => Control' /\ Waits' /\ ~At("down")'
  BY <1>2, OpsTyped, ErredWell DEF Inv, OnceInv
<1> HIDE DEF event, update, later, then
<1>6. /\ faults' \in Nat
      /\ \/ /\ dlog' # dlog /\ Replayable(dlog')
            /\ Logged' = Replayed(Logged, Line(event, count + 1))
            /\ \/ live' = update /\ job' = then
               \/ live' = live /\ job' = Erred
         \/ dlog' = dlog /\ live' = live /\ job' = Erred
  BY <1>1, <1>2, Appended
<1>7. Control' /\ Waits' /\ ~At("down")'
  BY <1>4, <1>5, <1>6
<1>8. CASE dlog' = dlog /\ live' = live
  BY <1>1, <1>2, <1>6, <1>7, <1>8, MovedInv
<1>9. CASE /\ dlog' # dlog /\ Replayable(dlog')
           /\ Logged' = Replayed(Logged, Line(event, count + 1))
           /\ live' \in {live, update}
  <2>1. typed \in [InputIds -> {0, 1}]
    BY <1>2 DEF Stored
  <2>2. typed' = [typed EXCEPT ![Input(k)] = 0]
    BY <1>1, <1>9
  <2>3. /\ typed' \in [InputIds -> {0, 1}] /\ Fewer(typed', typed)
        /\ Input(k) \in InputIds => typed'[Input(k)] = 0
    BY <2>1, <2>2 DEF Fewer
  <2>4. Safe(live, typed) /\ Safe(Logged, typed)
    BY <1>2 DEF Both
  <2>5. Safe(live, typed') /\ Safe(Logged, typed')
    BY <2>3, <2>4, FewerSafe
  <2>6. Safe(update, typed') /\ SamePanes(live, update)
    BY <2>3, <2>4, RefusedSafe DEF update
  <2>7. Safe(later, typed') /\ SamePanes(Logged, later)
    BY <2>3, <2>4, RefusedSafe DEF later
  <2>8. SamePanes(live, live) /\ SamePanes(Logged, Logged)
    BY DEF SamePanes
  <2>9. Both(live', Logged', typed')
    BY <1>2, <1>3, <1>9, <2>5, <2>6, <2>7, <2>8, SamePanesBoth
  <2>10. Stored'
    BY <1>6, <1>7, <1>9, <2>3, <2>9, StoredNow
  <2>11. QED
    BY <1>7, <2>10, WaitingInv
<1>10. QED
  BY <1>6, <1>8, <1>9

LEMMA SendMessageInv ==
    ASSUME Inv, NEW a \in Activations, NEW m \in Messages, SendMessage(a, m)
    PROVE  Inv'
<1>1. /\ ~At("down") /\ UNCHANGED <<dlog, service, typed>> /\ faults' \in Nat
      /\ a \in Owned /\ live' = live
      /\ \A k \in DOMAIN live.ambiguous \cup DOMAIN live.submitted : k[2] # m
  BY IdleNow DEF SendMessage, resting, budget, files, service
<1>2. job' = [Idle EXCEPT !.op = "message", !.phase = "start",
                          !.act = a, !.role = m]
  BY DEF SendMessage
<1>3. /\ Framed' /\ job'.op = "message" /\ job'.phase = "start"
      /\ job'.act = a /\ job'.role = m
  BY <1>2 DEF Idle, Framed
<1>4. typed[m] = 0
  BY <1>1, LiveBoth DEF Both, Safe, MessagesKept
<1>5. Control' /\ ~At("down")'
  BY <1>3 DEF Control, At, Cleanups, Allocations, Actuations, Deliveries,
              Reconciling
<1>6. Allots' /\ Attended' /\ Barred'
  BY <1>3 DEF Allots, Attended, Barred, At, Reconciling
<1>7. Key' = <<a, m, live.panes[a]>>
  BY <1>1, <1>3 DEF Key, KeyOf
<1>8. Input(Key)' = m
  BY <1>7 DEF Input
<1>9. ~Launching'
  BY <1>3, RolesAssumption DEF Launching, Roles
<1>10. Actuates'
  BY <1>1, <1>3, <1>4, <1>8, <1>9 DEF Actuates, At, Owned
<1>11. QED
  BY <1>1, <1>5, <1>6, <1>10, StillStored

LEMMA BindParticipantInv ==
    ASSUME Inv, NEW a, BindParticipant(a)
    PROVE  Inv'
<1> DEFINE p == Pane(a)
           then == IF run = "running"
                   THEN [Idle EXCEPT !.op = "session", !.phase = "pick",
                                     !.todo = {a}]
                   ELSE Idle
           update == ParticipantBound(live, p)
           event == [kind |-> "participant_bound", act |-> p[1],
                     gen |-> p[2]]
<1>1. /\ At("idle") /\ UNCHANGED typed
      /\ \/ job' = then /\ UNCHANGED <<dlog, service, budget>>
         \/ AppendEvent(event, update, then)
  BY DEF BindParticipant
<1>2. ~At("down") /\ faults \in Nat
  BY <1>1, IdleNow
<1>3. job' = then => /\ Control' /\ ~At("down")'
                     /\ Allots' /\ Actuates' /\ Barred' /\ Attended'
  <2>1. CASE job' = Idle
    BY <2>1, IdleWell, WaitsInv
  <2>2. CASE job' = [Idle EXCEPT !.op = "session", !.phase = "pick",
                                 !.todo = {a}]
    <3>1. Framed' /\ job'.op = "session" /\ job'.phase = "pick"
      BY <2>2 DEF Idle, Framed
    <3>2. Control' /\ ~At("down")'
      BY <3>1 DEF Control, At, Cleanups, Allocations, Actuations, Deliveries,
                  Reconciling
    <3>3. Allots' /\ Actuates' /\ Barred' /\ Attended'
      BY <3>1 DEF Allots, Actuates, Barred, Attended, At, Reconciling,
                  Deliveries, Launching
    <3>4. QED
      BY <3>2, <3>3
  <2>3. QED
    BY <2>1, <2>2
<1>4. Like(live, update) /\ Like(live, live)
  BY <1>2, LiveBoth DEF Like, Shape, ParticipantBound
<1>5. Like(Logged, Replayed(Logged, Line(event, count + 1)))
  BY <1>2, LiveBoth, ReplayedLike
<1> HIDE DEF event, update, then
<1>6. \A u \in {live, update} :
         Both(u, Replayed(Logged, Line(event, count + 1)), typed)
  BY <1>2, <1>4, <1>5, LiveBoth, LikeBoth
<1>7. CASE job' = then /\ UNCHANGED <<dlog, service, budget>>
  <2>1. faults' \in Nat
    BY <1>2, <1>7 DEF budget
  <2>2. QED
    BY <1>1, <1>2, <1>3, <1>7, <2>1, StillStored
<1>8. CASE AppendEvent(event, update, then)
  BY <1>1, <1>2, <1>3, <1>6, <1>8, AppendInv
<1>9. QED
  BY <1>1, <1>7, <1>8

LEMMA AgentsInv ==
    ASSUME Inv, NEW a,
           ParticipantStop(a) \/ ParticipantExited(a) \/ FinalizeExited(a)
    PROVE  Inv'
<1>1. ~At("down") /\ job = Idle /\ faults \in Nat
  BY IdleNow DEF ParticipantStop, ParticipantExited, FinalizeExited
<1>2. /\ UNCHANGED <<dlog, service, typed>> /\ faults' \in Nat
  BY <1>1 DEF ParticipantStop, ParticipantExited, FinalizeExited, resting,
              budget, files
<1>3. Control' /\ Waits' /\ ~At("down")'
  <2>1. CASE ParticipantStop(a) \/ ParticipantExited(a)
    BY <1>1, <2>1, IdleWell DEF ParticipantStop, ParticipantExited
  <2>2. CASE FinalizeExited(a)
    BY <2>2, BeginsWell DEF FinalizeExited
  <2>3. QED
    BY <2>1, <2>2
<1>4. QED
  BY <1>1, <1>2, <1>3, MovedInv DEF service

LEMMA ProcessInv ==
    ASSUME Inv, Exit \/ Crash \/ PaneKilled
    PROVE  Inv'
<1>1. faults' = faults /\ faults \in Nat
  BY DEF Exit, Crash, PaneKilled, budget, Inv, OnceInv, Stored
<1>2. CASE Exit \/ Crash
  BY <1>1, <1>2, LeaveInv DEF Exit, Crash
<1>3. CASE PaneKilled
  BY <1>1, <1>3, StillInv DEF PaneKilled, files, runtime, service
<1>4. QED
  BY <1>2, <1>3

-----------------------------------------------------------------------------
(* The invariant.                                                          *)

\* A run that was just created.
LEMMA InitInv == Init => Inv
<1> SUFFICES ASSUME Init PROVE Inv
  OBVIOUS
<1>1. /\ dlog = <<>> /\ live = Blank /\ job = Idle /\ faults = 0
      /\ typed = [i \in InputIds |-> 0]
  BY DEF Init
<1>2. Replayable(dlog) /\ Logged = Blank
  BY <1>1, ReplayNone DEF Logged
<1>3. Both(Blank, Blank, typed)
  BY <1>1, BlankSafe
<1>4. Held = Blank
  BY <1>1, <1>2 DEF Held
<1>5. Stored
  BY <1>1, <1>2, <1>3, <1>4 DEF Stored
<1>6. /\ Framed /\ job.phase = "idle" /\ job.op = "none"
  BY <1>1 DEF Idle, Framed
<1>7. Control
  BY <1>1, <1>6 DEF Control, At, Cleanups, Allocations, Actuations,
                    Deliveries, Reconciling
<1>8. Allots /\ Actuates /\ Barred /\ Attended
  BY <1>6 DEF Allots, Actuates, Barred, Attended, At, Reconciling,
              Deliveries, Launching
<1>9. QED
  BY <1>5, <1>7, <1>8 DEF Inv, OnceInv

\* Every step.
LEMMA NextInv == Inv /\ [Next]_vars => Inv'
<1> SUFFICES ASSUME Inv, [Next]_vars PROVE Inv'
  OBVIOUS
<1>1. CASE Cleaning
  BY <1>1, CleanupIntentInv, KillPaneInv, ReleasePaneInv, CleanupReceiptInv,
     FinalizeInv DEF Cleaning
<1>2. CASE Starting
  BY <1>2, LoadInv, LoadCleanupsInv, StaleInv, LoadExitsInv, SuspendInv
     DEF Starting
<1>3. CASE Allocating
  BY <1>3, BindFirstInv, AllocateInv, CreatePaneInv, BindWindowInv,
     PublishPaneInv DEF Allocating
<1>4. CASE Actuating
  BY <1>4, PickInv, PrepareInv, LaunchInv, PromptInv, PauseRunInv
     DEF Actuating
<1>5. CASE Delivering
  BY <1>5, StartDeliveryInv, TypeInputInv, RecordInputInv, PublishInputInv,
     FinishDeliveryInv DEF Delivering
<1>6. CASE Requests
  BY <1>6, BindRunInv, RequestsInv, ResumeRunInv, ResolveSubmittedInv,
     ResolveRefusedInv, SendMessageInv DEF Requests, Outcomes
<1>7. CASE Agents
  BY <1>7, BindParticipantInv, AgentsInv DEF Agents
<1>8. CASE Shutdown \/ Exit \/ Crash \/ PaneKilled
  BY <1>8, ShutdownInv, ProcessInv
<1>9. CASE UNCHANGED vars
  BY <1>9, StillInv DEF vars
<1>10. QED
  BY <1>1, <1>2, <1>3, <1>4, <1>5, <1>6, <1>7, <1>8, <1>9 DEF Next

\* The invariant holds whatever fails and whenever the driver dies: the
\* service, or its log when there is none, accounts for every input typed.
THEOREM Invariance == Spec => []Inv
<1>1. QED
  BY InitInv, NextInv, PTL DEF Spec

-----------------------------------------------------------------------------
(* Inputs are typed once.                                                  *)

\* Only the keys themselves and an operator's word change the counts.
LEMMA CountsKept ==
    ASSUME Next, ~TypeInput,
           ~ \E k \in DOMAIN live.ambiguous : Resolve(k, "not_submitted")
    PROVE  UNCHANGED typed
<1>1. CASE Cleaning
  BY <1>1 DEF Cleaning, CleanupIntent, KillPane, ReleasePane, CleanupReceipt,
              Finalize, resting
<1>2. CASE Starting
  BY <1>2 DEF Starting, Load, LoadCleanups, Stale, LoadExits, Suspend, resting
<1>3. CASE Allocating
  BY <1>3 DEF Allocating, BindFirst, Allocate, CreatePane, BindWindow,
              PublishPane
<1>4. CASE Actuating
  BY <1>4 DEF Actuating, Pick, Prepare, Launch, Prompt, PauseRun, resting
<1>5. CASE Delivering
  BY <1>5 DEF Delivering, StartDelivery, RecordInput, PublishInput,
              FinishDelivery
<1>6. CASE Requests
  <2>1. ASSUME NEW k, Resolve(k, "submitted")
        PROVE  UNCHANGED typed
    BY <2>1 DEF Resolve
  <2>2. QED
    BY <1>6, <2>1 DEF Requests, BindRun, Request, Pause, Resume, ResumeRun,
                      EndRun, Outcomes, SendMessage, resting
<1>7. CASE Agents
  BY <1>7 DEF Agents, BindParticipant, ParticipantStop, ParticipantExited,
              FinalizeExited, resting
<1>8. CASE Shutdown \/ Exit \/ Crash \/ PaneKilled
  BY <1>8 DEF Shutdown, Exit, Crash, PaneKilled, Leave
<1>9. QED
  BY <1>1, <1>2, <1>3, <1>4, <1>5, <1>6, <1>7, <1>8 DEF Next

\* The keys are sent to one that was not typed.
LEMMA TypeOnce ==
    ASSUME Inv, TypeInput
    PROVE  [Once!Next]_typed
<1> DEFINE i == Input(Key)
<1>1. At("type") /\ (Typed \/ UNCHANGED typed)
  BY DEF TypeInput
<1>2. typed \in [InputIds -> {0, 1}]
  BY DEF Inv, OnceInv, Stored
<1>3. i \in InputIds => typed[i] = 0
  BY <1>1 DEF Inv, OnceInv, Actuates, At
<1>4. Typed => typed' = [typed EXCEPT ![i] = @ + 1]
  BY DEF Typed
<1> HIDE DEF i
<1>5. CASE Typed /\ i \in InputIds
  <2>1. typed' = [typed EXCEPT ![i] = 1]
    BY <1>2, <1>3, <1>4, <1>5
  <2>2. QED
    BY <1>3, <1>5, <2>1 DEF Once!Next, Once!Type
<1>6. CASE Typed /\ i \notin InputIds
  BY <1>2, <1>4, <1>6
<1>7. QED
  BY <1>1, <1>5, <1>6

\* An operator's word clears one input.
LEMMA ClearOnce ==
    ASSUME Inv, NEW k, Resolve(k, "not_submitted")
    PROVE  [Once!Next]_typed
<1> DEFINE i == Input(k)
<1>1. typed' = typed \/ typed' = [typed EXCEPT ![i] = 0]
  BY DEF Resolve
<1>2. typed \in [InputIds -> {0, 1}]
  BY DEF Inv, OnceInv, Stored
<1> HIDE DEF i
<1>3. CASE typed' = [typed EXCEPT ![i] = 0] /\ i \in InputIds
  BY <1>3 DEF Once!Next, Once!Clear
<1>4. CASE typed' = [typed EXCEPT ![i] = 0] /\ i \notin InputIds
  BY <1>2, <1>4
<1>5. QED
  BY <1>1, <1>3, <1>4

\* The driver types an input once, and again only when an operator has said
\* that it did not arrive (start_input_delivery, resolve_delivery): it
\* implements InputOnce, across failed appends, crashes and restarts.
THEOREM InputOnceImplemented == Spec => ImplementsInputOnce
<1>1. Init => Once!Init
  BY DEF Init, Once!Init
<1>2. Inv /\ [Next]_vars => [Once!Next]_typed
  <2> SUFFICES ASSUME Inv, [Next]_vars PROVE [Once!Next]_typed
    OBVIOUS
  <2>1. CASE UNCHANGED vars
    BY <2>1 DEF vars
  <2>2. CASE Next
    BY <2>2, TypeOnce, ClearOnce, CountsKept
  <2>3. QED
    BY <2>1, <2>2
<1>3. QED
  BY <1>1, <1>2, Invariance, PTL DEF Spec, ImplementsInputOnce, Once!Spec

-----------------------------------------------------------------------------
(* No activation is left behind.                                           *)

\* The operation goes on, or it fails.
GoesOn == job'.op = job.op \/ job' = Erred

\* An operation that goes on or fails is not over.
LEMMA GoingOn ==
    ASSUME Inv, job.op \in Reconciling, GoesOn
    PROVE  job' # Idle
<1>1. job.op \in Ops
  BY OpsTyped DEF Inv, OnceInv
<1>2. CASE job'.op = job.op
  BY <1>2 DEF Idle, Reconciling
<1>3. CASE job' = Erred
  BY <1>1, <1>3, ErredWell
<1>4. QED
  BY <1>2, <1>3 DEF GoesOn

\* So is one that appends.
LEMMA AppendGoesOn ==
    ASSUME NEW event, NEW update, NEW then, then.op = job.op,
           AppendEvent(event, update, then)
    PROVE  GoesOn
BY DEF AppendEvent, GoesOn

LEMMA CleaningGoesOn ==
    ASSUME Inv, job.op \in Reconciling, Cleaning
    PROVE  GoesOn
<1>1. Framed /\ ~At("finalize") /\ (At("receipt") => job.back # "idle")
  BY DEF Inv, OnceInv, Control, At, Reconciling, Cleanups
<1>2. \A p : [job EXCEPT !.phase = p].op = job.op
  BY <1>1 DEF Framed
<1>3. CASE CleanupIntent
  BY <1>2, <1>3, AppendGoesOn DEF CleanupIntent, GoesOn
<1>4. CASE KillPane
  BY <1>2, <1>4 DEF KillPane, KillFailed, Goto, GoesOn
<1>5. CASE ReleasePane
  BY <1>2, <1>5, AppendGoesOn DEF ReleasePane
<1>6. CASE CleanupReceipt
  <2> DEFINE then == [job EXCEPT !.phase = job.back, !.act = "none",
                                 !.back = "idle"]
  <2>1. then.op = job.op
    BY <1>1 DEF Framed
  <2>2. job.back # "idle"
    BY <1>1, <1>6 DEF CleanupReceipt
  <2>3. \E event, update : AppendEvent(event, update, then)
    BY <1>6, <2>2 DEF CleanupReceipt
  <2> HIDE DEF then
  <2>4. QED
    BY <2>1, <2>3, AppendGoesOn
<1>7. CASE Finalize
  BY <1>1, <1>7 DEF Finalize
<1>8. QED
  BY <1>3, <1>4, <1>5, <1>6, <1>7 DEF Cleaning

LEMMA StartingGoesOn ==
    ASSUME Inv, job.op \in Reconciling, Starting
    PROVE  GoesOn
<1>1. Framed /\ ~At("down") /\ ~At("cleanups") /\ ~At("exits")
      /\ ~At("suspend")
  BY DEF Inv, OnceInv, Control, At, Reconciling, Down, Idle
<1>2. Stale
  BY <1>1 DEF Starting, Load, LoadCleanups, LoadExits, Suspend
<1> DEFINE gone == {a \in job.todo \cap Owned : Pane(a) \notin alive}
<1>3. \/ \E a \in gone : job' = [job EXCEPT !.phase = "intent", !.act = a,
                                            !.back = "stale",
                                            !.todo = gone \ {a}]
      \/ job' = [job EXCEPT !.phase = "exits", !.todo = Exits]
      \/ job' = [job EXCEPT !.phase = "allocate", !.todo = Running]
      \/ job' = Erred
  BY <1>2 DEF Stale
<1> HIDE DEF gone
<1>4. job'.op = job.op \/ job' = Erred
  BY <1>1, <1>3 DEF Framed
<1>5. QED
  BY <1>4 DEF GoesOn

LEMMA AllocatingGoesOn ==
    ASSUME Inv, job.op \in Reconciling, Allocating
    PROVE  GoesOn
<1>1. Framed
  BY DEF Inv, OnceInv, Control
<1>2. /\ \A p : [job EXCEPT !.phase = p].op = job.op
      /\ \A p, a : [job EXCEPT !.phase = p, !.act = a].op = job.op
  BY <1>1 DEF Framed
<1>3. CASE BindFirst
  <2> DEFINE then == [job EXCEPT !.todo = Running,
                                 !.phase = IF job.op = "bind" THEN "stale"
                                           ELSE "allocate"]
  <2>1. then.op = job.op
    BY <1>1 DEF Framed
  <2>2. \/ \E event, update : AppendEvent(event, update, then)
        \/ job' = then
    BY <1>3 DEF BindFirst
  <2> HIDE DEF then
  <2>3. QED
    BY <2>1, <2>2, AppendGoesOn DEF GoesOn
<1>4. CASE Allocate
  <2> DEFINE then(a) == [job EXCEPT !.phase = "create", !.act = a,
                                    !.todo = @ \ {a}]
             next == [job EXCEPT !.phase = "pick", !.act = "none",
                                 !.todo = PendingActuations]
  <2>1. next.op = job.op /\ \A a : then(a).op = job.op
    BY <1>1 DEF Framed
  <2>2. \/ \E a, event, update : AppendEvent(event, update, then(a))
        \/ \E a : job' = then(a)
        \/ job' = next
    BY <1>4 DEF Allocate
  <2> HIDE DEF then, next
  <2>3. QED
    BY <2>1, <2>2, AppendGoesOn DEF GoesOn
<1>5. CASE CreatePane
  BY <1>2, <1>5 DEF CreatePane, Goto, GoesOn
<1>6. CASE BindWindow
  BY <1>2, <1>6, AppendGoesOn DEF BindWindow, Goto, GoesOn
<1>7. CASE PublishPane
  BY <1>2, <1>7, AppendGoesOn DEF PublishPane
<1>8. QED
  BY <1>3, <1>4, <1>5, <1>6, <1>7 DEF Allocating

LEMMA ActuatingGoesOn ==
    ASSUME Inv, job.op \in Reconciling, Actuating, ~Pick, ~PauseRun
    PROVE  GoesOn
<1>1. Framed
  BY DEF Inv, OnceInv, Control
<1>2. /\ \A p : [job EXCEPT !.phase = p].op = job.op
      /\ \A p, r : [job EXCEPT !.phase = p, !.role = r].op = job.op
      /\ Picked.op = job.op /\ Warned.op = job.op /\ ToPrompt.op = job.op
  BY <1>1 DEF Framed, Picked, Warned, ToPrompt
<1>3. CASE Prepare
  <2> DEFINE then == [job EXCEPT !.phase = "launch", !.role = "launch"]
  <2>1. then.op = job.op
    BY <1>2
  <2>2. \/ \E event, update : AppendEvent(event, update, then)
        \/ job' = then
        \/ job' = Erred
    BY <1>3 DEF Prepare
  <2> HIDE DEF then
  <2>3. QED
    BY <2>1, <2>2, AppendGoesOn DEF GoesOn
<1>4. CASE Launch
  BY <1>2, <1>4 DEF Launch, Recover, GoesOn
<1>5. CASE Prompt
  BY <1>2, <1>5 DEF Prompt, Recover, GoesOn
<1>6. QED
  BY <1>3, <1>4, <1>5 DEF Actuating

LEMMA DeliveringGoesOn ==
    ASSUME Inv, job.op \in Reconciling, Delivering
    PROVE  GoesOn
<1>1. Framed /\ job.op # "message"
  BY DEF Inv, OnceInv, Control, Reconciling
<1>2. /\ \A p : [job EXCEPT !.phase = p].op = job.op
      /\ Picked.op = job.op /\ Warned.op = job.op /\ ToPrompt.op = job.op
      /\ InDoubt = Warned
  BY <1>1 DEF Framed, Picked, Warned, ToPrompt, InDoubt
<1>3. CASE StartDelivery
  BY <1>2, <1>3, AppendGoesOn DEF StartDelivery
<1>4. CASE TypeInput
  BY <1>2, <1>4 DEF TypeInput, Goto, GoesOn
<1>5. CASE RecordInput
  BY <1>2, <1>5 DEF RecordInput, Goto, GoesOn
<1>6. CASE PublishInput
  BY <1>2, <1>6 DEF PublishInput, Goto, GoesOn
<1>7. CASE FinishDelivery
  <2>1. job.phase \in Deliveries
    BY <1>7 DEF FinishDelivery, At, Deliveries
  <2>2. job.role \in Roles
    BY <1>1, <2>1 DEF Inv, OnceInv, Actuates
  <2>3. Over.op = job.op
    BY <1>1, <1>2, <2>2 DEF Over, Roles
  <2>4. QED
    BY <1>7, <2>3, AppendGoesOn DEF FinishDelivery
<1>8. QED
  BY <1>3, <1>4, <1>5, <1>6, <1>7 DEF Delivering

\* A reconciliation ends where it picks activations, or where it pauses.
LEMMA ReconcilingEnds ==
    ASSUME Inv, Next, job.op \in Reconciling, job' = Idle
    PROVE  Pick \/ PauseRun
<1>1. ~GoesOn
  BY GoingOn
<1>2. ~At("idle") /\ ~At("resume")
  BY DEF Inv, OnceInv, Control, At, Idle, Reconciling
<1>3. ~Shutdown /\ ~Exit /\ ~Crash /\ ~PaneKilled
  <2>1. ~Shutdown
    BY <1>2 DEF Shutdown
  <2>2. Idle # Down
    BY DEF Idle, Down
  <2>3. ~Exit /\ ~Crash
    BY <2>2 DEF Exit, Crash, Leave
  <2>4. ~PaneKilled
    BY DEF PaneKilled, Idle, Reconciling
  <2>5. QED
    BY <2>1, <2>3, <2>4
<1>4. ~Requests /\ ~Agents
  BY <1>2 DEF Requests, BindRun, Request, Pause, Resume, ResumeRun, EndRun,
              Resolve, SendMessage, Agents, BindParticipant, ParticipantStop,
              ParticipantExited, FinalizeExited
<1>5. ~Cleaning /\ ~Starting /\ ~Allocating /\ ~Delivering
  BY <1>1, CleaningGoesOn, StartingGoesOn, AllocatingGoesOn,
     DeliveringGoesOn
<1>6. QED
  BY <1>1, <1>3, <1>4, <1>5, ActuatingGoesOn DEF Next

\* Where it is over, the last activation was picked.
LEMMA AllAttended ==
    ASSUME Inv, Next, job.op \in Reconciling, job' = Idle,
           run' = "running", faults' = faults
    PROVE  \A a \in Running : a \in Owned /\ Pane(a) \in live.launched
<1>1. ~PauseRun
  <2>1. faults \in Nat
    BY DEF Inv, OnceInv, Stored
  <2>2. ~Fault("commit")
    BY <2>1, FaultCounts
  <2>3. QED
    BY <2>2 DEF PauseRun
<1>2. Pick
  BY <1>1, ReconcilingEnds
<1>3. At("pick") /\ job.phase \in Actuations /\ ~Launching /\ Framed
  BY <1>2 DEF Pick, At, Actuations, Launching, Deliveries, Inv, OnceInv,
              Control
<1>4. job.todo = {} /\ ~job.warned
  <2>1. /\ \A S : [job EXCEPT !.todo = S] # Idle
        /\ \A S : [job EXCEPT !.todo = S, !.warned = TRUE] # Idle
        /\ \A S, a : [job EXCEPT !.phase = "prepare", !.act = a,
                                 !.todo = S] # Idle
        /\ [job EXCEPT !.phase = "pause"] # Idle
    BY <1>3 DEF Framed, Idle, Reconciling
  <2>2. QED
    BY <1>2, <2>1 DEF Pick
<1>5. QED
  BY <1>3, <1>4, ActuatingNow

\* When bind_run or a reconciliation is over and the run goes on, every running
\* activation has a pane whose launch was submitted (requires_pause,
\* pause_for_reconciliation).
THEOREM NoActivationLeft == Spec => NoneLeftBehind
<1>1. Inv /\ [Next]_vars =>
         [/\ job.op \in {"bind", "request"} /\ job' = Idle
          /\ run' = "running" /\ faults' = faults
          => \A a \in Running : a \in Owned /\ Pane(a) \in live.launched]_vars
  BY AllAttended DEF Reconciling
<1>2. QED
  BY <1>1, Invariance, PTL DEF Spec, NoneLeftBehind

-----------------------------------------------------------------------------
(* What a restart would hold, field by field.                              *)

\* A run is bound to one agent command in one window.
OneBinding == \A c, d \in Commands : c = d

IsFcn(f) == f = [x \in DOMAIN f |-> f[x]]

\* Fields are functions, and bindings are those that may be asked for.
Whole(s) ==
    /\ IsFcn(s.panes) /\ IsFcn(s.allocating) /\ IsFcn(s.cleaning)
    /\ s.tmux \in Commands \cup {"none"}
    /\ \A a \in DOMAIN s.allocating : s.allocating[a].command \in Commands

Seated ==
    /\ job.op \in Reconciling /\ ~At("pause") => job.command \in Commands
    /\ At("release") => job.act \in Owned /\ Pane(job.act) \notin alive
    /\ job.phase \in {"type", "record", "publishing", "finish"}
          => Key \in DOMAIN live.ambiguous

\* What a cleanup has in hand, and what waits for one.
Queued ==
    /\ At("intent") => job.act \in Owned
    /\ job.phase \in {"kill", "release", "receipt"}
          => job.act \in DOMAIN live.cleaning
    /\ job.phase \in {"exits", "finalize"} => job.todo \subseteq Owned
    /\ At("cleanups") => job.todo \subseteq DOMAIN live.cleaning
    /\ job.phase \in Cleanups /\ job.back \in {"exits", "finalize"}
          => job.todo \subseteq Owned \ {job.act}
    /\ job.phase \in Cleanups /\ job.back = "cleanups"
          => job.todo \subseteq DOMAIN live.cleaning \ {job.act}

\* The lines of the log are its lines, if no failed append has left one.
Counts == count \in Nat /\ Len(dlog) \in Nat /\ count <= Len(dlog)

\* Inputs are the same on both sides, and so is all else with one binding.
Synced(h, l) ==
    /\ h.tmux = l.tmux /\ h.ambiguous = l.ambiguous
    /\ h.submitted = l.submitted
    /\ OneBinding => h = l

SyncInv ==
    /\ Whole(Logged)
    /\ ~At("down") => /\ Whole(live) /\ Counts
                      /\ count = Len(dlog) => Synced(live, Logged)
    /\ Seated /\ Queued

\* Barriers and submissions are numbered apart, by the first n events.
Distinct(s, n) ==
    /\ DOMAIN s.ambiguous \cap DOMAIN s.submitted = {}
    /\ \A k \in DOMAIN s.ambiguous : s.ambiguous[k] \in 1..n
    /\ \A k \in DOMAIN s.submitted : s.submitted[k] \in 1..n
    /\ \A j, k \in DOMAIN s.ambiguous :
          s.ambiguous[j] = s.ambiguous[k] => j = k
    /\ \A j, k \in DOMAIN s.submitted :
          s.submitted[j] = s.submitted[k] => j = k
    /\ \A j \in DOMAIN s.ambiguous, k \in DOMAIN s.submitted :
          s.ambiguous[j] # s.submitted[k]

NumberInv == /\ Distinct(Logged, Len(dlog)) /\ Distinct(live, Len(dlog))
             /\ ~At("down") => count = Len(dlog)

\* Panes that are owned or wanted.
Kept(s) == {<<a, s.panes[a]>> : a \in DOMAIN s.panes}
           \cup {<<a, s.allocating[a].gen>> : a \in DOMAIN s.allocating}

\* The log is where the service is, or ahead of it by an intent or a pane.
Follows(h, l) ==
    /\ h.tmux = "none" => DOMAIN l.panes = {}
    /\ \A a \in DOMAIN h.allocating :
          \/ a \in DOMAIN l.allocating
             /\ l.allocating[a].gen = h.allocating[a].gen
          \/ a \in DOMAIN l.panes /\ l.panes[a] = h.allocating[a].gen
    /\ \A a \in DOMAIN l.allocating :
          l.allocating[a].gen =
             IF a \in DOMAIN h.allocating THEN h.allocating[a].gen
             ELSE IF a \in DOMAIN h.generations THEN h.generations[a] + 1
             ELSE 0
    /\ \A a \in DOMAIN l.panes :
          l.panes[a] = IF a \in DOMAIN h.panes THEN h.panes[a]
                       ELSE h.allocating[a].gen

OrphanInv == /\ alive \subseteq Kept(Logged)
             /\ ~At("down") => Follows(live, Logged)

-----------------------------------------------------------------------------
(* What is written to the log, and what the service makes of it.           *)

WritesBinding(event, update) ==
    \E c \in Commands :
        /\ c # live.tmux /\ event = TmuxBound(c)
        /\ \/ At("bind") /\ c = job.command /\ update = BoundTo(live, c)
           \/ At("window") /\ update = [live EXCEPT !.tmux = c]

WritesIntent(event, update) ==
    \E a \in Activations, c \in Commands :
        LET i == [gen |-> NextGeneration(a), command |-> c]
        IN  /\ At("allocate") /\ a \in job.todo
            /\ a \notin Owned /\ a \notin DOMAIN live.allocating
            /\ event = [kind |-> "tmux_pane_allocation_intent", act |-> a,
                        intent |-> i]
            /\ update = Wanted(live, a, i)

WritesPane(event, update) ==
    \E a \in DOMAIN live.allocating :
        LET g == live.allocating[a].gen
        IN  /\ At("publish") /\ a = job.act /\ live.tmux # "none"
            /\ event = [kind |-> "tmux_pane_allocated", act |-> a, gen |-> g]
            /\ update = Allocated(live, a, g)

WritesRelease(event, update) ==
    \E a \in Owned :
        /\ At("release") /\ a = job.act
        /\ event = [kind |-> "tmux_panes_released", act |-> a,
                    barriers |-> ReleasedBarriers(a)]
        /\ update = GivenUp(live, a, ReleasedBarriers(a))

WritesCleanup(event, update) ==
    \E a, g :
        \/ /\ At("intent") /\ a \in Owned /\ g = live.panes[a]
           /\ a \notin DOMAIN live.cleaning
           /\ event = [kind |-> "tmux_pane_cleanup_intent", act |-> a,
                       gen |-> g]
           /\ update = [live EXCEPT !.cleaning = With(@, a, g)]
        \/ /\ At("receipt") /\ a = job.act /\ a \in DOMAIN live.cleaning
           /\ event = [kind |-> "tmux_pane_cleanup_receipt", act |-> a,
                       gen |-> g]
           /\ g = live.cleaning[a]
           /\ update = [live EXCEPT !.cleaning = Without(@, a)]

WritesParticipant(event, update) ==
    \E a, g :
        /\ a \in Owned
        /\ g = live.panes[a]
        /\ \/ /\ event = [kind |-> "participant_started", act |-> a, gen |-> g]
              /\ update = ParticipantStarted(live, <<a, g>>)
           \/ /\ event = [kind |-> "participant_bound", act |-> a, gen |-> g]
              /\ update = ParticipantBound(live, <<a, g>>)

WritesStart(event, update) ==
    \E a \in Owned, r \in Roles \cup Messages :
        LET k == KeyOf(a, r)
        IN  /\ event = [kind |-> "input_delivery_started", key |-> k]
            /\ update = Barrier(live, k, count + 1)

WritesOutcome(event, update) ==
    \E k \in DOMAIN live.ambiguous :
        LET n == live.ambiguous[k]
        IN  \/ /\ event = [kind |-> "input_delivery_submitted", key |-> k,
                           started |-> n]
               /\ update = SubmittedNow(live, k, n)
            \/ /\ event = [kind |-> "input_delivery_not_submitted",
                           key |-> k, started |-> n]
               /\ update = RefusedNow(live, k)

Writes(event, update) ==
    \/ WritesBinding(event, update) \/ WritesIntent(event, update)
    \/ WritesPane(event, update) \/ WritesRelease(event, update)
    \/ WritesCleanup(event, update) \/ WritesParticipant(event, update)
    \/ WritesStart(event, update) \/ WritesOutcome(event, update)

\* A step of an operation writes one event or none.
Stepwise ==
    \/ \E event, update, then : /\ AppendEvent(event, update, then)
                                /\ Writes(event, update)
    \/ UNCHANGED <<dlog, service>>

\* Where nothing is in hand.
LEMMA SeatedElse ==
    ASSUME job'.phase \notin {"release", "type", "record", "publishing",
                              "finish"},
           job'.op \in Reconciling /\ job'.phase # "pause"
              => job'.command \in Commands
    PROVE  Seated'
BY DEF Seated, At

LEMMA SeatedErred ==
    ASSUME Inv, job' = Erred
    PROVE  Seated'
<1>1. job.op \in Ops
  BY OpsTyped DEF Inv, OnceInv
<1>2. /\ job'.phase = "idle" /\ job'.op = "none"
      \/ /\ job'.phase = ErrorPhase[job.op] /\ job'.op = job.op
  BY DEF Erred, Idle
<1>3. ErrorPhase[job.op] \in {"idle", "exit", "pause", "finalize"}
  BY <1>1 DEF Ops, ErrorPhase
<1>4. job.op \in Reconciling => ErrorPhase[job.op] = "pause"
  BY DEF ErrorPhase, Reconciling
<1>5. QED
  BY <1>2, <1>3, <1>4, SeatedElse DEF Reconciling

LEMMA SeatedIdle ==
    ASSUME job' \in {Idle, Down}
    PROVE  Seated'
BY SeatedElse DEF Idle, Down, Reconciling

\* The operation goes on elsewhere.
LEMMA SeatedMoves ==
    ASSUME Inv, SyncInv, ~At("pause"), job'.op = job.op,
           job'.command = job.command,
           job'.phase \notin {"release", "type", "record", "publishing",
                              "finish"}
    PROVE  Seated'
BY SeatedElse DEF SyncInv, Seated

LEMMA AppendSeated ==
    ASSUME Inv, NEW event, NEW update, NEW then,
           AppendEvent(event, update, then),
           job' = then /\ live' = update => Seated'
    PROVE  Seated'
BY SeatedErred DEF AppendEvent

LEMMA CleaningSteps ==
    ASSUME Inv, SyncInv, Cleaning
    PROVE  Stepwise /\ Seated'
<1>1. Framed
  BY DEF Inv, OnceInv, Control
<1>2. CASE CleanupIntent
  <2> DEFINE a == job.act
             event == [kind |-> "tmux_pane_cleanup_intent", act |-> a,
                       gen |-> live.panes[a]]
             update == [live EXCEPT !.cleaning = With(@, a, live.panes[a])]
             then == [job EXCEPT !.phase = "kill"]
  <2>1. job' = then => Seated'
    <3>1. job' = then => /\ job'.op = job.op /\ job'.command = job.command
                         /\ job'.phase = "kill"
      BY <1>1 DEF Framed
    <3>2. ~At("pause")
      BY <1>2 DEF CleanupIntent, At
    <3>3. QED
      BY <3>1, <3>2, SeatedMoves
  <2>2. CASE job' \in {then, Erred} /\ UNCHANGED <<dlog, service>>
    BY <2>1, <2>2, SeatedErred DEF Stepwise
  <2>3. CASE a \notin DOMAIN live.cleaning /\ AppendEvent(event, update, then)
    <3>1. Writes(event, update)
      <4>1. At("intent") /\ a \in Owned
        BY <1>2 DEF CleanupIntent, SyncInv, Queued
      <4>2. QED
        BY <2>3, <4>1 DEF Writes, WritesCleanup
    <3> HIDE DEF event, update, then
    <3>2. QED
      BY <2>1, <2>3, <3>1, AppendSeated DEF Stepwise
  <2>4. QED
    BY <1>2, <2>2, <2>3 DEF CleanupIntent
<1>3. CASE KillPane
  <2>1. UNCHANGED <<dlog, service>> /\ At("kill")
    BY <1>3 DEF KillPane, files
  <2>2. CASE job' = Erred
    BY <2>1, <2>2, SeatedErred DEF Stepwise
  <2>3. CASE Goto("receipt")
    <3>1. Moves("receipt", job.todo, job.act, job.back)
      BY <1>1, <2>3, GotoMoves DEF Goto
    <3>2. Seated'
      BY <2>1, <3>1, SeatedMoves DEF Moves, At
    <3>3. QED
      BY <2>1, <3>2 DEF Stepwise
  <2>4. CASE /\ Goto("release") /\ job.act \in Owned
             /\ alive' = alive \ {Pane(job.act)}
    <3>1. Moves("release", job.todo, job.act, job.back)
      BY <1>1, <2>4, GotoMoves DEF Goto
    <3>2. /\ job'.act = job.act /\ job'.op = job.op
          /\ job'.command = job.command /\ job'.phase = "release"
      BY <3>1 DEF Moves
    <3>3. Owned' = Owned /\ Pane(job.act) = <<job.act, live.panes[job.act]>>
          /\ Pane(job.act)' = <<job'.act, live.panes[job'.act]>>
      BY <2>1 DEF Owned, Pane, service
    <3>4. job'.act \in Owned' /\ Pane(job.act)' \notin alive'
      BY <2>4, <3>2, <3>3
    <3>5. Seated'
      BY <2>1, <3>2, <3>4 DEF Seated, SyncInv, At
    <3>6. QED
      BY <2>1, <3>5 DEF Stepwise
  <2>5. QED
    BY <1>3, <2>2, <2>3, <2>4 DEF KillPane, KillFailed, Killed
<1>4. CASE ReleasePane
  <2> DEFINE a == job.act
             event == [kind |-> "tmux_panes_released", act |-> a,
                       barriers |-> ReleasedBarriers(a)]
             update == GivenUp(live, a, ReleasedBarriers(a))
             then == [job EXCEPT !.phase = "receipt"]
  <2>1. At("release") /\ AppendEvent(event, update, then) /\ a \in Owned
    BY <1>4 DEF ReleasePane, GivenUp, SyncInv, Seated
  <2>2. Writes(event, update)
    BY <2>1 DEF Writes, WritesRelease
  <2>3. job' = then => Seated'
    <3>1. job' = then => /\ job'.op = job.op /\ job'.command = job.command
                         /\ job'.phase = "receipt"
      BY <1>1 DEF Framed
    <3>2. QED
      BY <2>1, <3>1, SeatedMoves DEF At
  <2> HIDE DEF event, update, then
  <2>4. QED
    BY <2>1, <2>2, <2>3, AppendSeated DEF Stepwise
<1>5. CASE CleanupReceipt
  <2> DEFINE a == job.act
             g == live.cleaning[a]
             event == [kind |-> "tmux_pane_cleanup_receipt", act |-> a,
                       gen |-> g]
             update == [live EXCEPT !.cleaning = Without(@, a)]
             next == [job EXCEPT !.phase = job.back, !.act = "none",
                                 !.back = "idle"]
             then == IF job.back = "idle" THEN Idle ELSE next
  <2>1. At("receipt") /\ AppendEvent(event, update, then)
    BY <1>5 DEF CleanupReceipt
  <2>2. Writes(event, update)
    <3>1. a \in DOMAIN live.cleaning
      BY <2>1 DEF SyncInv, Queued, At
    <3>2. QED
      BY <2>1, <3>1 DEF Writes, WritesCleanup
  <2>3. job' = next /\ job.back # "idle" => Seated'
    <3>1. job' = next => /\ job'.op = job.op /\ job'.command = job.command
                         /\ job'.phase = job.back
      BY <1>1 DEF Framed
    <3>2. job.back \in {"cleanups", "stale", "exits", "finalize", "idle"}
      BY <2>1 DEF Inv, OnceInv, Control, At, Cleanups
    <3>3. QED
      BY <2>1, <3>1, <3>2, SeatedMoves DEF At
  <2>4. job' = then => Seated'
    BY <2>3, SeatedIdle
  <2> HIDE DEF event, update, then
  <2>5. QED
    BY <2>1, <2>2, <2>4, AppendSeated DEF Stepwise
<1>6. CASE Finalize
  <2>1. UNCHANGED <<dlog, service>> /\ job.op \in {"finalize", "shutdown"}
    BY <1>6 DEF Finalize, resting, files, Inv, OnceInv, Control
  <2>2. CASE \E a \in job.todo : CleanUp(a, "intent")
    <3>1. job'.op = job.op /\ job'.phase = "intent"
      BY <1>1, <2>2, CleanUpMoves DEF Moves
    <3>2. QED
      BY <2>1, <3>1, SeatedElse DEF Stepwise, Reconciling
  <2>3. CASE job' \in {[Idle EXCEPT !.op = "shutdown", !.phase = "exit"],
                       Idle}
    <3>1. CASE job' = Idle
      BY <2>1, <3>1, SeatedIdle DEF Stepwise
    <3>2. CASE job' = [Idle EXCEPT !.op = "shutdown", !.phase = "exit"]
      <4>1. job'.op = "shutdown" /\ job'.phase = "exit"
        BY <3>2 DEF Idle
      <4>2. QED
        BY <2>1, <4>1, SeatedElse DEF Stepwise, Reconciling
    <3>3. QED
      BY <2>3, <3>1, <3>2
  <2>4. QED
    BY <1>6, <2>2, <2>3 DEF Finalize
<1>7. QED
  BY <1>2, <1>3, <1>4, <1>5, <1>6 DEF Cleaning

\* A step that writes nothing: the operation moves on, fails or ends.
LEMMA StillSteps ==
    ASSUME Inv, SyncInv, UNCHANGED <<dlog, service>>, ~At("pause"),
           \/ job' \in {Idle, Down, Erred}
           \/ /\ job'.op = job.op /\ job'.command = job.command
              /\ job'.phase \notin {"release", "type", "record",
                                    "publishing", "finish"}
    PROVE  Stepwise /\ Seated'
BY SeatedIdle, SeatedErred, SeatedMoves DEF Stepwise

LEMMA StartingSteps ==
    ASSUME Inv, SyncInv, LoadCleanups \/ Stale \/ LoadExits \/ Suspend
    PROVE  Stepwise /\ Seated'
<1>1. Framed
  BY DEF Inv, OnceInv, Control
<1>2. CASE LoadCleanups
  <2>1. UNCHANGED <<dlog, service>> /\ ~At("pause")
    BY <1>2 DEF LoadCleanups, resting, files, At
  <2>2. /\ job'.op = job.op /\ job'.command = job.command
        /\ job'.phase \in {"kill", "stale"}
    <3>1. CASE \E a \in job.todo : CleanUp(a, "kill")
      BY <1>1, <3>1, CleanUpMoves DEF Moves
    <3>2. CASE job' = [job EXCEPT !.phase = "stale", !.todo = Owned]
      BY <1>1, <3>2 DEF Framed
    <3>3. QED
      BY <1>2, <3>1, <3>2 DEF LoadCleanups
  <2>3. QED
    BY <2>1, <2>2, StillSteps
<1>3. CASE Stale
  <2>1. UNCHANGED <<dlog, service>> /\ ~At("pause")
    BY <1>3 DEF Stale, files, At
  <2>2. \/ job' = Erred
        \/ /\ job'.op = job.op /\ job'.command = job.command
           /\ job'.phase \in {"intent", "exits", "allocate"}
    <3> DEFINE gone == {a \in job.todo \cap Owned : Pane(a) \notin alive}
    <3>1. CASE \E a \in gone :
                  job' = [job EXCEPT !.phase = "intent", !.act = a,
                                     !.back = "stale", !.todo = gone \ {a}]
      BY <1>1, <3>1 DEF Framed
    <3>2. CASE job' = [job EXCEPT !.phase = "exits", !.todo = Exits]
      BY <1>1, <3>2 DEF Framed
    <3>3. CASE job' = [job EXCEPT !.phase = "allocate", !.todo = Running]
      BY <1>1, <3>3 DEF Framed
    <3> HIDE DEF gone
    <3>4. QED
      BY <1>3, <3>1, <3>2, <3>3 DEF Stale, gone
  <2>3. QED
    BY <2>1, <2>2, StillSteps
<1>4. CASE LoadExits
  <2>1. UNCHANGED <<dlog, service>> /\ ~At("pause")
    BY <1>4 DEF LoadExits, resting, files, At
  <2>2. /\ job'.op = job.op /\ job'.command = job.command
        /\ job'.phase \in {"intent", "suspend"}
    <3>1. CASE \E a \in job.todo : CleanUp(a, "intent")
      BY <1>1, <3>1, CleanUpMoves DEF Moves
    <3>2. CASE Goto("suspend")
      BY <1>1, <3>2, GotoMoves DEF Goto, Moves
    <3>3. QED
      BY <1>4, <3>1, <3>2 DEF LoadExits
  <2>3. QED
    BY <2>1, <2>2, StillSteps
<1>5. CASE Suspend
  <2>1. UNCHANGED <<dlog, service>> /\ ~At("pause") /\ job' \in {Idle, Erred}
    BY <1>5 DEF Suspend, files, At
  <2>2. QED
    BY <2>1, StillSteps
<1>6. QED
  BY <1>2, <1>3, <1>4, <1>5

LEMMA AllocatingSteps ==
    ASSUME Inv, SyncInv, Allocating
    PROVE  Stepwise /\ Seated'
<1>1. Framed
  BY DEF Inv, OnceInv, Control
<1>2. CASE BindFirst
  <2> DEFINE p == IF job.op = "bind" THEN "stale" ELSE "allocate"
             then == [job EXCEPT !.todo = Running,
                                 !.phase = IF job.op = "bind" THEN "stale"
                                           ELSE "allocate"]
             update == [live EXCEPT !.tmux = job.command, !.panes = Nothing]
             event == TmuxBound(job.command)
  <2>1. /\ At("bind") /\ ~At("pause")
        /\ \/ job' = then /\ UNCHANGED <<dlog, service>>
           \/ /\ live.tmux # job.command
              /\ AppendEvent(event, update, then)
    BY <1>2 DEF BindFirst, At
  <2>2. /\ then.op = job.op /\ then.command = job.command
        /\ then.phase \in {"stale", "allocate"}
    BY <1>1 DEF Framed
  <2>3. job.command \in Commands
    BY <2>1 DEF SyncInv, Seated, Inv, OnceInv, Control, At
  <2>4. live.tmux # job.command => Writes(event, update)
    BY <2>1, <2>3 DEF Writes, WritesBinding, BoundTo
  <2> HIDE DEF event, update, then
  <2>5. job' = then => Seated'
    BY <2>1, <2>2, SeatedMoves
  <2>6. QED
    BY <2>1, <2>4, <2>5, AppendSeated DEF Stepwise
<1>3. CASE Allocate
  <2>1. At("allocate") /\ ~At("pause") /\ job.command \in Commands
        /\ job.todo \subseteq Activations
    BY <1>3 DEF Allocate, At, SyncInv, Seated, Inv, OnceInv, Control, Allots,
                Allocations
  <2>2. ASSUME NEW a \in job.todo \ Owned,
               job' = [job EXCEPT !.phase = "create", !.act = a,
                                  !.todo = @ \ {a}],
               UNCHANGED <<dlog, service>>
        PROVE  Stepwise /\ Seated'
    <3>1. /\ job'.op = job.op /\ job'.command = job.command
          /\ job'.phase = "create"
      BY <1>1, <2>2 DEF Framed
    <3>2. QED
      BY <2>1, <2>2, <3>1, StillSteps
  <2>3. ASSUME NEW a \in job.todo \ Owned, a \notin DOMAIN live.allocating,
               LET then == [job EXCEPT !.phase = "create", !.act = a,
                                       !.todo = @ \ {a}]
                   intent == [gen |-> NextGeneration(a),
                              command |-> job.command]
               IN  AppendEvent([kind |-> "tmux_pane_allocation_intent",
                                act |-> a, intent |-> intent],
                               [live EXCEPT !.allocating =
                                  With(@, a, intent)], then)
        PROVE  Stepwise /\ Seated'
    <3> DEFINE then == [job EXCEPT !.phase = "create", !.act = a,
                                   !.todo = @ \ {a}]
               i == [gen |-> NextGeneration(a), command |-> job.command]
               event == [kind |-> "tmux_pane_allocation_intent", act |-> a,
                         intent |-> i]
               update == [live EXCEPT !.allocating = With(@, a, i)]
    <3>1. /\ then.op = job.op /\ then.command = job.command
          /\ then.phase = "create"
      BY <1>1 DEF Framed
    <3>2. Writes(event, update)
      <4>1. a \in job.todo /\ a \in Activations /\ a \notin Owned
        BY <2>1
      <4>2. WritesIntent(event, update)
        BY <2>1, <2>3, <4>1 DEF WritesIntent, Wanted
      <4>3. QED
        BY <4>2 DEF Writes
    <3>3. AppendEvent(event, update, then)
      BY <2>3
    <3> HIDE DEF event, update, then
    <3>4. job' = then => Seated'
      BY <2>1, <3>1, SeatedMoves
    <3>5. QED
      BY <3>2, <3>3, <3>4, AppendSeated DEF Stepwise
  <2>4. CASE /\ job' = [job EXCEPT !.phase = "pick", !.act = "none",
                                   !.todo = PendingActuations]
             /\ UNCHANGED <<dlog, service, budget>>
    <3>1. /\ job'.op = job.op /\ job'.command = job.command
          /\ job'.phase = "pick"
      BY <1>1, <2>4 DEF Framed
    <3>2. QED
      BY <2>1, <2>4, <3>1, StillSteps
  <2>5. QED
    BY <1>3, <2>2, <2>3, <2>4 DEF Allocate
<1>4. CASE CreatePane
  <2>1. UNCHANGED <<dlog, service>> /\ ~At("pause")
        /\ (Goto("window") \/ job' = Erred)
    BY <1>4 DEF CreatePane, files, At
  <2>2. Goto("window") => /\ job'.op = job.op /\ job'.command = job.command
                          /\ job'.phase = "window"
    BY <1>1, GotoMoves DEF Goto, Moves
  <2>3. QED
    BY <2>1, <2>2, StillSteps
<1>5. CASE BindWindow
  <2> DEFINE then == [job EXCEPT !.phase = "publish"]
             update == [live EXCEPT !.tmux = Intent.command]
             event == TmuxBound(Intent.command)
  <2>1. /\ At("window") /\ ~At("pause")
        /\ \/ job' = then /\ UNCHANGED <<dlog, service>>
           \/ /\ live.tmux # Intent.command
              /\ AppendEvent(event, update, then)
    BY <1>5 DEF BindWindow, At, Goto
  <2>2. /\ then.op = job.op /\ then.command = job.command
        /\ then.phase = "publish"
    BY <1>1 DEF Framed
  <2>3. Intent.command \in Commands
    BY <2>1 DEF SyncInv, Whole, Inv, OnceInv, Allots, At, Intent
  <2>4. live.tmux # Intent.command => Writes(event, update)
    BY <2>1, <2>3 DEF Writes, WritesBinding
  <2> HIDE DEF event, update, then
  <2>5. job' = then => Seated'
    BY <2>1, <2>2, SeatedMoves
  <2>6. QED
    BY <2>1, <2>4, <2>5, AppendSeated DEF Stepwise
<1>6. CASE PublishPane
  <2> DEFINE a == job.act
             g == Intent.gen
             then == [job EXCEPT !.phase = "allocate", !.act = "none"]
             update == Allocated(live, a, g)
             event == [kind |-> "tmux_pane_allocated", act |-> a, gen |-> g]
  <2>1. /\ At("publish") /\ ~At("pause") /\ AppendEvent(event, update, then)
    BY <1>6 DEF PublishPane, At, Allocated
  <2>2. /\ then.op = job.op /\ then.command = job.command
        /\ then.phase = "allocate"
    BY <1>1 DEF Framed
  <2>3. a \in DOMAIN live.allocating /\ live.tmux # "none"
    BY <2>1 DEF Inv, OnceInv, Allots, At
  <2>4. Writes(event, update)
    BY <2>1, <2>3 DEF Writes, WritesPane, Intent
  <2> HIDE DEF event, update, then
  <2>5. job' = then => Seated'
    BY <2>1, <2>2, SeatedMoves
  <2>6. QED
    BY <2>1, <2>4, <2>5, AppendSeated DEF Stepwise
<1>7. QED
  BY <1>2, <1>3, <1>4, <1>5, <1>6 DEF Allocating

\* A delivery goes on with its barrier.
LEMMA SeatedDelivers ==
    ASSUME Inv, SyncInv, ~At("pause"), NEW p \in Deliveries \ {"start"},
           Moves(p, job.todo, job.act, job.back),
           live'.panes = live.panes, Key \in DOMAIN live'.ambiguous
    PROVE  Seated'
<1>1. Key' = Key
  BY DEF Moves, Key, KeyOf
<1>2. QED
  BY <1>1 DEF Moves, Seated, SyncInv, At, Deliveries

\* Where an actuation goes on.
LEMMA Onwards ==
    ASSUME Framed
    PROVE  /\ Picked.op = job.op /\ Picked.command = job.command
           /\ Picked.phase = "pick"
           /\ Warned.op = job.op /\ Warned.command = job.command
           /\ Warned.phase = "pick"
           /\ ToPrompt.op = job.op /\ ToPrompt.command = job.command
           /\ ToPrompt.phase = "prompt"
BY DEF Framed, Picked, Warned, ToPrompt

\* An input in doubt is taken up from the ledger of inputs.
LEMMA RecoverSteps ==
    ASSUME Inv, SyncInv, ~At("pause"), UNCHANGED <<dlog, service>>,
           Key \in DOMAIN live.ambiguous, job' = Recover
    PROVE  Stepwise /\ Seated'
<1>1. Framed
  BY DEF Inv, OnceInv, Control
<1>2. CASE job' = [job EXCEPT !.phase = "finish"]
  <2>1. Moves("finish", job.todo, job.act, job.back)
    BY <1>1, <1>2, GotoMoves
  <2>2. Seated'
    BY <2>1, SeatedDelivers DEF Deliveries, service
  <2>3. QED
    BY <2>2 DEF Stepwise
<1>3. CASE job' = Warned
  BY <1>1, <1>3, Onwards, StillSteps
<1>4. QED
  BY <1>2, <1>3 DEF Recover

LEMMA ActuatingSteps ==
    ASSUME Inv, SyncInv, Actuating
    PROVE  Stepwise /\ Seated'
<1>1. Framed
  BY DEF Inv, OnceInv, Control
<1>2. CASE Pick
  <2>1. UNCHANGED <<dlog, service>> /\ ~At("pause")
    BY <1>2 DEF Pick, resting, files, At
  <2>2. ASSUME NEW a \in job.todo,
               \/ job' = [job EXCEPT !.todo = @ \ {a}]
               \/ job' = [job EXCEPT !.todo = @ \ {a}, !.warned = TRUE]
               \/ job' = [job EXCEPT !.phase = "prepare", !.act = a,
                                     !.todo = @ \ {a}]
        PROVE  Stepwise /\ Seated'
    <3>1. At("pick")
      BY <1>2 DEF Pick
    <3>2. /\ job'.op = job.op /\ job'.command = job.command
          /\ job'.phase \in {"pick", "prepare"}
      BY <1>1, <2>2, <3>1 DEF Framed, At
    <3>3. QED
      BY <2>1, <3>2, StillSteps
  <2>3. CASE job' = [job EXCEPT !.phase = "pause"]
    <3>1. Moves("pause", job.todo, job.act, job.back)
      BY <1>1, <2>3, GotoMoves
    <3>2. QED
      BY <2>1, <3>1, StillSteps DEF Moves
  <2>4. CASE job' = Idle
    BY <2>1, <2>4, StillSteps
  <2>5. QED
    BY <1>2, <2>2, <2>3, <2>4 DEF Pick
<1>3. CASE Prepare
  <2> DEFINE p == Pane(job.act)
             then == [job EXCEPT !.phase = "launch", !.role = "launch"]
             update == ParticipantStarted(live, p)
             event == [kind |-> "participant_started", act |-> p[1],
                       gen |-> p[2]]
  <2>1. /\ ~At("pause")
        /\ \/ job' \in {then, Erred} /\ UNCHANGED <<dlog, service>>
           \/ AppendEvent(event, update, then)
    BY <1>3 DEF Prepare, At
  <2>2. /\ then.op = job.op /\ then.command = job.command
        /\ then.phase = "launch"
    BY <1>1 DEF Framed
  <2>3. Writes(event, update)
    <3>1. p = <<job.act, live.panes[job.act]>>
      BY DEF Pane
    <3>2. job.act \in Owned
      <4>1. job.phase = "prepare"
        BY <1>3 DEF Prepare, At
      <4>2. QED
        BY <4>1 DEF Inv, OnceInv, Actuates
    <3>3. /\ event = [kind |-> "participant_started", act |-> job.act,
                      gen |-> live.panes[job.act]]
          /\ update = ParticipantStarted(live,
                                         <<job.act, live.panes[job.act]>>)
      BY <3>1
    <3> HIDE DEF event, update
    <3>4. WritesParticipant(event, update)
      BY <3>2, <3>3 DEF WritesParticipant
    <3>5. QED
      BY <3>4 DEF Writes
  <2> HIDE DEF event, update, then
  <2>4. job' = then => Seated'
    BY <2>1, <2>2, SeatedMoves
  <2>5. QED
    BY <2>1, <2>3, <2>4, AppendSeated, SeatedErred DEF Stepwise
<1>4. CASE Launch
  <2>1. UNCHANGED <<dlog, service>> /\ ~At("pause")
    BY <1>4 DEF Launch, resting, files, At
  <2>2. CASE job' = ToPrompt
    BY <1>1, <2>1, <2>2, Onwards, StillSteps
  <2>3. CASE job' = [job EXCEPT !.phase = "start"]
    <3>1. Moves("start", job.todo, job.act, job.back)
      BY <1>1, <2>3, GotoMoves
    <3>2. QED
      BY <2>1, <3>1, StillSteps DEF Moves
  <2>4. CASE Key \in DOMAIN live.ambiguous /\ job' = Recover
    BY <2>1, <2>4, RecoverSteps
  <2>5. QED
    BY <1>4, <2>2, <2>3, <2>4 DEF Launch
<1>5. CASE Prompt
  <2>1. UNCHANGED <<dlog, service>> /\ ~At("pause")
    BY <1>5 DEF Prompt, resting, files, At
  <2>2. CASE job' = Picked
    BY <1>1, <2>1, <2>2, Onwards, StillSteps
  <2>3. CASE job' = [job EXCEPT !.phase = "start"]
    <3>1. Moves("start", job.todo, job.act, job.back)
      BY <1>1, <2>3, GotoMoves
    <3>2. QED
      BY <2>1, <3>1, StillSteps DEF Moves
  <2>4. CASE Key \in DOMAIN live.ambiguous /\ job' = Recover
    BY <2>1, <2>4, RecoverSteps
  <2>5. QED
    BY <1>5, <2>2, <2>3, <2>4 DEF Prompt
<1>6. CASE PauseRun
  <2>1. UNCHANGED <<dlog, service>> /\ job' \in {Idle, BindCleanup}
    BY <1>6 DEF PauseRun, files
  <2>2. CASE job' = Idle
    BY <2>1, <2>2, SeatedIdle DEF Stepwise
  <2>3. CASE job' = BindCleanup
    <3>1. job'.op = "finalize" /\ job'.phase = "finalize"
      BY <2>3 DEF BindCleanup, Idle
    <3>2. QED
      BY <2>1, <3>1, SeatedElse DEF Stepwise, Reconciling
  <2>4. QED
    BY <2>1, <2>2, <2>3
<1>7. QED
  BY <1>2, <1>3, <1>4, <1>5, <1>6 DEF Actuating

\* A delivery in doubt or over.
LEMMA DoubtSeated ==
    ASSUME Inv, SyncInv, job.phase \in Deliveries, job' \in {InDoubt, Over}
    PROVE  Seated'
<1>1. Framed /\ ~At("pause")
  BY DEF Inv, OnceInv, Control, At, Deliveries
<1>2. job' \in {Idle, Warned, ToPrompt, Picked}
  <2>1. job.op = "message" \/ job.role \in {"launch", "prompt"}
    BY DEF Inv, OnceInv, Actuates, Roles
  <2>2. job.op = "message" => ~(job.role \in {"launch", "prompt"})
    BY RolesAssumption DEF Inv, OnceInv, Actuates, Roles
  <2>3. QED
    BY <2>1, <2>2 DEF InDoubt, Over
<1>3. QED
  BY <1>1, <1>2, Onwards, SeatedIdle, SeatedMoves

LEMMA DeliveringSteps ==
    ASSUME Inv, SyncInv, Delivering
    PROVE  Stepwise /\ Seated'
<1>1. Framed /\ ~At("pause") /\ ~At("down") /\ job.phase \in Deliveries
  BY DEF Inv, OnceInv, Control, Delivering, StartDelivery, TypeInput,
         RecordInput, PublishInput, FinishDelivery, At, Deliveries
<1>2. Shape(live)
  BY <1>1, LiveBoth DEF Both, Safe, Inv, OnceInv
<1>3. CASE StartDelivery
  <2> DEFINE then == [job EXCEPT !.phase = "type"]
             update == Barrier(live, Key, count + 1)
             event == [kind |-> "input_delivery_started", key |-> Key]
  <2>1. AppendEvent(event, update, then)
    BY <1>2, <1>3 DEF StartDelivery, Barrier, Shape
  <2>2. Writes(event, update)
    <3>1. job.act \in Owned /\ job.role \in Roles \cup Messages
      BY <1>1 DEF Inv, OnceInv, Actuates
    <3>2. WritesStart(event, update)
      BY <3>1 DEF WritesStart, Key
    <3>3. QED
      BY <3>2 DEF Writes
  <2>3. update.panes = live.panes /\ Key \in DOMAIN update.ambiguous
    BY <1>2 DEF Barrier, Shape, With
  <2>4. job' = then => Moves("type", job.todo, job.act, job.back)
    BY <1>1, GotoMoves
  <2> HIDE DEF event, update, then
  <2>5. job' = then /\ live' = update => Seated'
    BY <1>1, <2>3, <2>4, SeatedDelivers DEF Deliveries
  <2>6. QED
    BY <2>1, <2>2, <2>5, AppendSeated DEF Stepwise
<1>4. CASE TypeInput
  <2>1. /\ UNCHANGED <<dlog, service>> /\ At("type")
        /\ Goto("record") \/ job' = InDoubt
    BY <1>4 DEF TypeInput, files
  <2>2. CASE Goto("record")
    <3>1. Moves("record", job.todo, job.act, job.back)
      BY <1>1, <2>2, GotoMoves DEF Goto
    <3>2. QED
      BY <1>1, <2>1, <3>1, SeatedDelivers
         DEF Deliveries, Stepwise, SyncInv, Seated, At, service
  <2>3. QED
    BY <1>1, <2>1, <2>2, DoubtSeated DEF Stepwise
<1>5. CASE RecordInput
  <2>1. /\ UNCHANGED <<dlog, service>> /\ At("record")
        /\ Goto("publishing") \/ job' = InDoubt
    BY <1>5 DEF RecordInput
  <2>2. CASE Goto("publishing")
    <3>1. Moves("publishing", job.todo, job.act, job.back)
      BY <1>1, <2>2, GotoMoves DEF Goto
    <3>2. QED
      BY <1>1, <2>1, <3>1, SeatedDelivers
         DEF Deliveries, Stepwise, SyncInv, Seated, At, service
  <2>3. QED
    BY <1>1, <2>1, <2>2, DoubtSeated DEF Stepwise
<1>6. CASE PublishInput
  <2>1. /\ UNCHANGED <<dlog, service>> /\ At("publishing")
        /\ Goto("finish") \/ job' = Erred
    BY <1>6 DEF PublishInput, files
  <2>2. CASE Goto("finish")
    <3>1. Moves("finish", job.todo, job.act, job.back)
      BY <1>1, <2>2, GotoMoves DEF Goto
    <3>2. QED
      BY <1>1, <2>1, <3>1, SeatedDelivers
         DEF Deliveries, Stepwise, SyncInv, Seated, At, service
  <2>3. QED
    BY <1>1, <2>1, <2>2, SeatedErred DEF Stepwise
<1>7. CASE FinishDelivery
  <2> DEFINE update == Finished(Key)
             event == FinishEvent(Key)
  <2>1. AppendEvent(event, update, Over) /\ Key \in DOMAIN live.ambiguous
    BY <1>7 DEF FinishDelivery, SyncInv, Seated, At
  <2>2. Writes(event, update)
    BY <2>1 DEF Writes, WritesOutcome, Finished, FinishEvent, SubmittedNow
  <2> HIDE DEF event, update
  <2>3. job' = Over => Seated'
    BY <1>1, DoubtSeated
  <2>4. QED
    BY <2>1, <2>2, <2>3, AppendSeated DEF Stepwise
<1>8. QED
  BY <1>3, <1>4, <1>5, <1>6, <1>7 DEF Delivering

\* The bindings that are known are those of requests.
LEMMA ReconcileSeated ==
    ASSUME SyncInv, ~At("down"), NEW running, Reconcile(running)
    PROVE  Seated'
<1>1. BindingsFor(running) \subseteq Commands
  BY DEF BindingsFor, SyncInv, Whole
<1>2. CASE job' = Idle
  BY <1>2, SeatedIdle
<1>3. ASSUME NEW c \in BindingsFor(running),
             job' = [Idle EXCEPT !.op = "request", !.phase = "bind",
                                 !.command = c]
      PROVE  Seated'
  <2>1. job'.phase = "bind" /\ job'.command = c
    BY <1>3 DEF Idle
  <2>2. QED
    BY <1>1, <2>1, SeatedElse
<1>4. QED
  BY <1>2, <1>3 DEF Reconcile

\* An operator's word leads to the resumption of the run.
LEMMA ResolveSteps ==
    ASSUME Inv, SyncInv, NEW k \in DOMAIN live.ambiguous, NEW o \in Outcomes,
           Resolve(k, o)
    PROVE  Stepwise /\ Seated'
<1> DEFINE then == [Idle EXCEPT !.op = "resolve", !.phase = "resume"]
           event == [kind |-> "input_delivery_not_submitted",
                     key |-> k, started |-> live.ambiguous[k]]
           update == [live EXCEPT !.ambiguous = Without(@, k),
                                  !.submitted = Without(@, k)]
           told == FinishEvent(k)
           finished == Finished(k)
<1>1. \/ AppendEvent(told, finished, then)
      \/ AppendEvent(event, update, then)
  BY DEF Resolve
<1>2. Writes(event, update)
  BY DEF Writes, WritesOutcome, RefusedNow
<1>3. Writes(told, finished)
  BY DEF Writes, WritesOutcome, Finished, FinishEvent, SubmittedNow
<1>4. then.op = "resolve" /\ then.phase = "resume"
  BY DEF Idle
<1> HIDE DEF event, update, then, told, finished
<1>5. job' = then => Seated'
  BY <1>4, SeatedElse DEF Reconciling
<1>6. QED
  BY <1>1, <1>2, <1>3, <1>5, AppendSeated DEF Stepwise

LEMMA RequestsSteps ==
    ASSUME Inv, SyncInv, Requests
    PROVE  Stepwise /\ Seated'
<1>1. CASE BindRun
  <2>1. UNCHANGED <<dlog, service>>
    BY <1>1 DEF BindRun, files
  <2>2. PICK c \in Commands : job' = [Idle EXCEPT !.op = "bind",
                                                 !.phase = "bind",
                                                 !.command = c]
    BY <1>1 DEF BindRun
  <2>3. job'.phase = "bind" /\ job'.command = c
    BY <2>2 DEF Idle
  <2>4. QED
    BY <2>1, <2>3, SeatedElse DEF Stepwise
<1>2. CASE Request
  <2>1. /\ UNCHANGED <<dlog, service>> /\ ~At("down")
        /\ Reconcile(Activations \ done')
    BY <1>2 DEF Request, files, At
  <2>2. QED
    BY <2>1, ReconcileSeated DEF Stepwise
<1>3. CASE Pause
  <2>1. UNCHANGED <<dlog, service>> /\ job' = Idle
    BY <1>3 DEF Pause, files, Inv, OnceInv, Control
  <2>2. QED
    BY <2>1, SeatedIdle DEF Stepwise
<1>4. CASE Resume
  <2>1. /\ UNCHANGED <<dlog, service>>
        /\ job' = [Idle EXCEPT !.op = "resolve", !.phase = "resume"]
    BY <1>4 DEF Resume, resting, files
  <2>2. job'.op = "resolve" /\ job'.phase = "resume"
    BY <2>1 DEF Idle
  <2>3. QED
    BY <2>1, <2>2, SeatedElse DEF Stepwise, Reconciling
<1>5. CASE ResumeRun
  <2>1. /\ UNCHANGED <<dlog, service>> /\ ~At("down")
        /\ job' = Idle \/ Reconcile(Running)
    BY <1>5 DEF ResumeRun, files, At
  <2>2. QED
    BY <2>1, ReconcileSeated, SeatedIdle DEF Stepwise
<1>6. CASE EndRun
  <2>1. /\ UNCHANGED <<dlog, service>>
        /\ job' = [Idle EXCEPT !.op = "finalize", !.phase = "finalize",
                               !.todo = Owned]
    BY <1>6 DEF EndRun, files
  <2>2. job'.op = "finalize" /\ job'.phase = "finalize"
    BY <2>1 DEF Idle
  <2>3. QED
    BY <2>1, <2>2, SeatedElse DEF Stepwise, Reconciling
<1>7. CASE \E k \in DOMAIN live.ambiguous, o \in Outcomes : Resolve(k, o)
  BY <1>7, ResolveSteps
<1>8. CASE \E a \in Activations, m \in Messages : SendMessage(a, m)
  <2>1. PICK a \in Activations, m \in Messages : SendMessage(a, m)
    BY <1>8
  <2>2. /\ UNCHANGED <<dlog, service>>
        /\ job' = [Idle EXCEPT !.op = "message", !.phase = "start",
                               !.act = a, !.role = m]
    BY <2>1 DEF SendMessage, resting, files
  <2>3. job'.op = "message" /\ job'.phase = "start"
    BY <2>2 DEF Idle
  <2>4. QED
    BY <2>2, <2>3, SeatedElse DEF Stepwise, Reconciling
<1>9. QED
  BY <1>1, <1>2, <1>3, <1>4, <1>5, <1>6, <1>7, <1>8 DEF Requests

LEMMA AgentsSteps ==
    ASSUME Inv, SyncInv, Agents
    PROVE  Stepwise /\ Seated'
<1>1. ASSUME NEW a \in Activations, BindParticipant(a)
      PROVE  Stepwise /\ Seated'
  <2> DEFINE p == Pane(a)
             then == IF run = "running"
                     THEN [Idle EXCEPT !.op = "session", !.phase = "pick",
                                       !.todo = {a}]
                     ELSE Idle
             update == ParticipantBound(live, p)
             event == [kind |-> "participant_bound", act |-> p[1],
                       gen |-> p[2]]
  <2>1. \/ job' = then /\ UNCHANGED <<dlog, service>>
        \/ AppendEvent(event, update, then)
    BY <1>1 DEF BindParticipant
  <2>2. Writes(event, update)
    <3>1. p = <<a, live.panes[a]>>
      BY DEF Pane
    <3>2. a \in Owned
      BY <1>1 DEF BindParticipant, Participant, ExactBinding
    <3>3. /\ event = [kind |-> "participant_bound", act |-> a,
                      gen |-> live.panes[a]]
          /\ update = ParticipantBound(live, <<a, live.panes[a]>>)
      BY <3>1
    <3> HIDE DEF event, update
    <3>4. WritesParticipant(event, update)
      BY <3>2, <3>3 DEF WritesParticipant
    <3>5. QED
      BY <3>4 DEF Writes
  <2>3. \/ then = Idle
        \/ then.op = "session" /\ then.phase = "pick"
    BY DEF Idle
  <2> HIDE DEF event, update, then
  <2>4. job' = then => Seated'
    BY <2>3, SeatedElse, SeatedIdle DEF Reconciling
  <2>5. QED
    BY <2>1, <2>2, <2>4, AppendSeated DEF Stepwise
<1>2. ASSUME NEW a \in Activations, ParticipantStop(a) \/ ParticipantExited(a)
      PROVE  Stepwise /\ Seated'
  <2>1. UNCHANGED <<dlog, service>> /\ job' = Idle
    BY <1>2 DEF ParticipantStop, ParticipantExited, files, Inv, OnceInv,
                Control
  <2>2. QED
    BY <2>1, SeatedIdle DEF Stepwise
<1>3. ASSUME NEW a \in Activations, FinalizeExited(a)
      PROVE  Stepwise /\ Seated'
  <2>1. /\ UNCHANGED <<dlog, service>>
        /\ job' = [Idle EXCEPT !.op = "exited", !.phase = "intent",
                               !.act = a]
    BY <1>3 DEF FinalizeExited, resting, files
  <2>2. job'.op = "exited" /\ job'.phase = "intent"
    BY <2>1 DEF Idle
  <2>3. QED
    BY <2>1, <2>2, SeatedElse DEF Stepwise, Reconciling
<1>4. QED
  BY <1>1, <1>2, <1>3 DEF Agents

LEMMA ShutdownSteps ==
    ASSUME Inv, SyncInv, Shutdown
    PROVE  Stepwise /\ Seated'
<1>1. UNCHANGED <<dlog, service>>
  BY DEF Shutdown, files
<1>2. job'.op = "shutdown" /\ job'.phase \in {"finalize", "exit"}
  <2>1. CASE job' = [Idle EXCEPT !.op = "shutdown", !.phase = "finalize",
                                 !.todo = Owned]
    BY <2>1 DEF Idle
  <2>2. CASE job' = [Idle EXCEPT !.op = "shutdown", !.phase = "exit"]
    BY <2>2 DEF Idle
  <2>3. QED
    BY <2>1, <2>2 DEF Shutdown
<1>3. QED
  BY <1>1, <1>2, SeatedElse DEF Stepwise, Reconciling

LEMMA PaneKilledSteps ==
    ASSUME Inv, SyncInv, PaneKilled
    PROVE  Stepwise /\ Seated'
BY DEF PaneKilled, files, service, Stepwise, SyncInv, Seated, At, Owned, Pane,
       Key, KeyOf

\* Every step but a start and an end.
LEMMA Steps ==
    ASSUME Inv, SyncInv, Next
    PROVE  \/ Stepwise /\ Seated'
           \/ Load
           \/ Leave
BY CleaningSteps, StartingSteps, AllocatingSteps, ActuatingSteps,
   DeliveringSteps, RequestsSteps, AgentsSteps, ShutdownSteps,
   PaneKilledSteps DEF Next, Starting, Exit, Crash

-----------------------------------------------------------------------------
(* The service and the log after an event.                                 *)

Keeps(l, update, r) ==
    /\ Whole(live) => Whole(update)
    /\ Whole(l) => Whole(r)
    /\ Whole(live) /\ Synced(live, l) => Synced(update, r)

LEMMA WithFcn ==
    ASSUME NEW f, NEW k, NEW v
    PROVE  IsFcn(With(f, k, v)) /\ IsFcn(Without(f, k)) /\ IsFcn(Nothing)
BY DEF IsFcn, With, Without, Nothing

\* What does not change these fields.
LEMMA SameWhole ==
    ASSUME NEW s, NEW t, Whole(s), t.tmux = s.tmux, t.panes = s.panes,
           t.allocating = s.allocating, t.cleaning = s.cleaning
    PROVE  Whole(t)
BY DEF Whole

LEMMA BoundFields ==
    ASSUME NEW s, Shape(s), NEW c
    PROVE  /\ BoundTo(s, c).tmux = c /\ BoundTo(s, c).panes = Nothing
           /\ BoundTo(s, c).allocating = s.allocating
           /\ BoundTo(s, c).cleaning = s.cleaning
           /\ BoundTo(s, c).generations = s.generations
           /\ BoundTo(s, c).ambiguous = s.ambiguous
           /\ BoundTo(s, c).submitted = s.submitted
BY DEF BoundTo, Shape

LEMMA RenamedFields ==
    ASSUME NEW s, Shape(s), NEW c, NEW t, t = [s EXCEPT !.tmux = c]
    PROVE  /\ t.tmux = c /\ t.panes = s.panes
           /\ t.allocating = s.allocating /\ t.cleaning = s.cleaning
           /\ t.ambiguous = s.ambiguous /\ t.submitted = s.submitted
           /\ t.generations = s.generations
           /\ s.panes = Nothing => t = BoundTo(s, c)
BY DEF BoundTo, Shape

LEMMA BindingKeeps ==
    ASSUME NEW l, Shape(l), Shape(live), PanesKnown(live), NEW event,
           NEW update, WritesBinding(event, update), NEW r,
           r = Replayed(l, Line(event, count + 1))
    PROVE  Keeps(l, update, r)
<1>1. PICK c \in Commands :
        /\ c # live.tmux /\ event = TmuxBound(c)
        /\ update = BoundTo(live, c) \/ update = [live EXCEPT !.tmux = c]
  BY DEF WritesBinding
<1>2. r = BoundTo(l, c)
  BY <1>1, ReplayedBound
<1>3. Whole(l) => Whole(r)
  BY <1>2, BoundFields, WithFcn DEF Whole
<1>4. Whole(live) => Whole(update)
  BY <1>1, BoundFields, RenamedFields, WithFcn DEF Whole
<1>5. ASSUME Whole(live), Synced(live, l)
      PROVE  Synced(update, r)
  <2>1. /\ update.tmux = r.tmux /\ update.ambiguous = r.ambiguous
        /\ update.submitted = r.submitted
    BY <1>1, <1>2, <1>5, BoundFields, RenamedFields DEF Synced
  <2>2. OneBinding => update = r
    <3>1. SUFFICES ASSUME OneBinding
                   PROVE  update = r
      OBVIOUS
    <3>2. live = l
      BY <1>5, <3>1 DEF Synced
    <3>3. live.tmux = "none"
      BY <1>1, <1>5, <3>1 DEF OneBinding, Whole
    <3>4. live.panes = Nothing
      BY <1>5, <3>3 DEF PanesKnown, Whole, IsFcn, Nothing
    <3>5. update = BoundTo(live, c)
      BY <1>1, <3>4, RenamedFields
    <3>6. QED
      BY <1>2, <3>2, <3>5
  <2>3. QED
    BY <2>1, <2>2 DEF Synced
<1>6. QED
  BY <1>3, <1>4, <1>5 DEF Keeps

LEMMA WantedFields ==
    ASSUME NEW s, Shape(s), NEW a, NEW i
    PROVE  /\ Wanted(s, a, i).tmux = s.tmux
           /\ Wanted(s, a, i).panes = s.panes
           /\ Wanted(s, a, i).allocating = With(s.allocating, a, i)
           /\ Wanted(s, a, i).cleaning = s.cleaning
           /\ Wanted(s, a, i).generations = s.generations
           /\ Wanted(s, a, i).ambiguous = s.ambiguous
           /\ Wanted(s, a, i).submitted = s.submitted
BY DEF Wanted, Shape

LEMMA IntentKeeps ==
    ASSUME NEW l, Shape(l), Shape(live), NEW event, NEW update,
           WritesIntent(event, update), NEW r,
           r = Replayed(l, Line(event, count + 1))
    PROVE  Keeps(l, update, r)
<1>1. PICK a \in Activations, c \in Commands :
        LET i == [gen |-> NextGeneration(a), command |-> c]
        IN  /\ event = [kind |-> "tmux_pane_allocation_intent", act |-> a,
                        intent |-> i]
            /\ update = Wanted(live, a, i)
  BY DEF WritesIntent
<1> DEFINE i == [gen |-> NextGeneration(a), command |-> c]
<1>2. r = Wanted(l, a, i) /\ update = Wanted(live, a, i)
  BY <1>1, ReplayedIntent
<1>3. i.command = c
  OBVIOUS
<1> HIDE DEF i
<1>4. ASSUME NEW s, Shape(s), Whole(s)
      PROVE  Whole(Wanted(s, a, i))
  <2> DEFINE f == With(s.allocating, a, i)
  <2>1. \A b \in DOMAIN f : f[b].command \in Commands
    BY <1>3, <1>4 DEF Whole, With
  <2>2. IsFcn(f)
    BY WithFcn
  <2> HIDE DEF f
  <2>3. QED
    BY <1>4, <2>1, <2>2, WantedFields DEF Whole, f
<1>5. Synced(live, l) => Synced(update, r)
  BY <1>2, WantedFields DEF Synced
<1>6. QED
  BY <1>2, <1>4, <1>5 DEF Keeps

LEMMA AllocatedFields ==
    ASSUME NEW s, Shape(s), NEW a, NEW g
    PROVE  /\ Allocated(s, a, g).tmux = s.tmux
           /\ Allocated(s, a, g).panes = With(s.panes, a, g)
           /\ Allocated(s, a, g).allocating = Without(s.allocating, a)
           /\ Allocated(s, a, g).cleaning = s.cleaning
           /\ Allocated(s, a, g).generations = With(s.generations, a, g)
           /\ Allocated(s, a, g).ambiguous = s.ambiguous
           /\ Allocated(s, a, g).submitted = s.submitted
BY DEF Allocated, Shape

LEMMA PaneKeeps ==
    ASSUME NEW l, Shape(l), Shape(live), NEW event, NEW update,
           WritesPane(event, update), NEW r,
           r = Replayed(l, Line(event, count + 1))
    PROVE  Keeps(l, update, r)
<1>1. PICK a \in DOMAIN live.allocating :
        LET g == live.allocating[a].gen
        IN  /\ live.tmux # "none"
            /\ event = [kind |-> "tmux_pane_allocated", act |-> a, gen |-> g]
            /\ update = Allocated(live, a, g)
  BY DEF WritesPane
<1> DEFINE g == live.allocating[a].gen
<1>2. /\ live.tmux # "none" /\ update = Allocated(live, a, g)
      /\ event = [kind |-> "tmux_pane_allocated", act |-> a, gen |-> g]
  BY <1>1
<1>3. r = IF l.tmux = "none" THEN l ELSE Allocated(l, a, g)
  <2> DEFINE e == Line(event, count + 1)
  <2>1. e.kind = "tmux_pane_allocated" /\ e.act = a /\ e.gen = g
    BY <1>2 DEF Line
  <2> HIDE DEF e
  <2>2. Replayed(l, e) = IF l.tmux = "none" THEN l ELSE Allocated(l, a, g)
    BY <2>1 DEF Replayed
  <2>3. QED
    BY <2>2 DEF e
<1> HIDE DEF g
<1>4. ASSUME NEW s, Shape(s), Whole(s)
      PROVE  Whole(Allocated(s, a, g))
  <2> DEFINE f == Without(s.allocating, a)
  <2>1. \A b \in DOMAIN f : f[b].command \in Commands
    BY <1>4 DEF Whole, Without
  <2>2. IsFcn(f)
    BY WithFcn
  <2> HIDE DEF f
  <2>3. QED
    BY <1>4, <2>1, <2>2, AllocatedFields, WithFcn DEF Whole, f
<1>5. Synced(live, l) => Synced(update, r)
  BY <1>2, <1>3, AllocatedFields DEF Synced
<1>6. QED
  BY <1>2, <1>3, <1>4, <1>5 DEF Keeps

\* Barriers of deliveries that no barrier stood for.
LEMMA GivenUpIsReleased ==
    ASSUME NEW s, Shape(s), Whole(s), NEW a, a \notin DOMAIN s.allocating,
           NEW b, DOMAIN b \cap DOMAIN s.ambiguous = {}
    PROVE  GivenUp(s, a, b) = Released(s, a, b)
<1> DEFINE amb == [k \in DOMAIN s.ambiguous \cup DOMAIN b |->
                      IF k \in DOMAIN s.ambiguous THEN s.ambiguous[k]
                      ELSE b[k]]
           ambl == [k \in DOMAIN s.ambiguous \cup DOMAIN b |->
                      IF k \in DOMAIN b THEN b[k] ELSE s.ambiguous[k]]
           sub == [k \in DOMAIN s.submitted \ DOMAIN b |-> s.submitted[k]]
           w == WithBarriers(s, b)
<1>1. amb = ambl
  OBVIOUS
<1>2. Without(s.allocating, a) = s.allocating
  BY DEF Without, Whole, IsFcn
<1>3. w = [s EXCEPT !.submitted = sub, !.ambiguous = amb]
  BY DEF WithBarriers
<1>4. /\ GivenUp(s, a, b) = [w EXCEPT !.panes = Without(@, a),
                                      !.launched = Forget(@, a),
                                      !.settled = Forget(@, a)]
      /\ Released(s, a, b) = [s EXCEPT !.panes = Without(@, a),
                                       !.allocating = Without(@, a),
                                       !.launched = Forget(@, a),
                                       !.settled = Forget(@, a),
                                       !.submitted = sub,
                                       !.ambiguous = ambl]
  BY DEF GivenUp, Released
<1> HIDE DEF amb, ambl, sub, w
<1>5. GivenUp(s, a, b) =
        [tmux |-> s.tmux, panes |-> Without(s.panes, a),
         generations |-> s.generations, allocating |-> s.allocating,
         cleaning |-> s.cleaning, ambiguous |-> amb, submitted |-> sub,
         launched |-> Forget(s.launched, a), settled |-> Forget(s.settled, a),
         started |-> s.started, bound |-> s.bound]
  BY <1>3, <1>4 DEF Shape
<1>6. Released(s, a, b) =
        [tmux |-> s.tmux, panes |-> Without(s.panes, a),
         generations |-> s.generations,
         allocating |-> Without(s.allocating, a),
         cleaning |-> s.cleaning, ambiguous |-> ambl, submitted |-> sub,
         launched |-> Forget(s.launched, a), settled |-> Forget(s.settled, a),
         started |-> s.started, bound |-> s.bound]
  BY <1>4 DEF Shape
<1>7. QED
  BY <1>1, <1>2, <1>5, <1>6

\* What is left of the submissions, and the barriers after that.
NotReleased(s, b) == [k \in DOMAIN s.submitted \ DOMAIN b |-> s.submitted[k]]
AllBarriers(s, b) == [k \in DOMAIN s.ambiguous \cup DOMAIN b |->
                         IF k \in DOMAIN b THEN b[k] ELSE s.ambiguous[k]]

LEMMA ReleasedFields ==
    ASSUME NEW s, Shape(s), NEW a, NEW b
    PROVE  /\ Released(s, a, b).tmux = s.tmux
           /\ Released(s, a, b).panes = Without(s.panes, a)
           /\ Released(s, a, b).allocating = Without(s.allocating, a)
           /\ Released(s, a, b).cleaning = s.cleaning
           /\ Released(s, a, b).generations = s.generations
           /\ Released(s, a, b).submitted = NotReleased(s, b)
           /\ Released(s, a, b).ambiguous = AllBarriers(s, b)
BY DEF Released, Shape, NotReleased, AllBarriers

LEMMA GivenUpFields ==
    ASSUME NEW s, Shape(s), NEW a, NEW b
    PROVE  /\ GivenUp(s, a, b).tmux = s.tmux
           /\ GivenUp(s, a, b).panes = Without(s.panes, a)
           /\ GivenUp(s, a, b).allocating = s.allocating
           /\ GivenUp(s, a, b).cleaning = s.cleaning
           /\ GivenUp(s, a, b).generations = s.generations
BY DEF GivenUp, WithBarriers, Shape

LEMMA ReleasedWhole ==
    ASSUME NEW s, Shape(s), Whole(s), NEW a, NEW b, NEW t,
           t = Released(s, a, b) \/ t = GivenUp(s, a, b)
    PROVE  Whole(t)
<1>1. IsFcn(Without(s.panes, a)) /\ IsFcn(Without(s.allocating, a))
  BY WithFcn
<1>2. CASE t = Released(s, a, b)
  <2>1. /\ t.tmux = s.tmux /\ t.panes = Without(s.panes, a)
        /\ t.allocating = Without(s.allocating, a)
        /\ t.cleaning = s.cleaning
    BY <1>2, ReleasedFields
  <2>2. \A c \in DOMAIN t.allocating : t.allocating[c].command \in Commands
    BY <2>1 DEF Whole, Without
  <2>3. QED
    BY <1>1, <2>1, <2>2 DEF Whole
<1>3. CASE t = GivenUp(s, a, b)
  <2>1. /\ t.tmux = s.tmux /\ t.panes = Without(s.panes, a)
        /\ t.allocating = s.allocating /\ t.cleaning = s.cleaning
    BY <1>3, GivenUpFields
  <2>2. QED
    BY <1>1, <2>1 DEF Whole
<1>4. QED
  BY <1>2, <1>3

\* The barriers of a pane's release.
LEMMA BarriersNew ==
    ASSUME NEW a
    PROVE  /\ DOMAIN ReleasedBarriers(a) \cap DOMAIN live.ambiguous = {}
           /\ DOMAIN ReleasedBarriers(a) \subseteq DOMAIN live.submitted
           /\ \A k \in DOMAIN ReleasedBarriers(a) :
                 ReleasedBarriers(a)[k] = live.submitted[k]
BY DEF ReleasedBarriers

LEMMA ReleaseKeeps ==
    ASSUME NEW l, Shape(l), Shape(live), PanesKnown(live), NEW event,
           NEW update, WritesRelease(event, update), NEW r,
           r = Replayed(l, Line(event, count + 1))
    PROVE  Keeps(l, update, r)
<1>1. PICK a \in Owned :
        /\ event = [kind |-> "tmux_panes_released", act |-> a,
                    barriers |-> ReleasedBarriers(a)]
        /\ update = GivenUp(live, a, ReleasedBarriers(a))
  BY DEF WritesRelease
<1> DEFINE b == ReleasedBarriers(a)
<1>2. /\ r = IF l.tmux = "none" THEN l ELSE Released(l, a, b)
      /\ update = GivenUp(live, a, b)
  BY <1>1, ReplayedReleased DEF ReleasedBy
<1>3. DOMAIN b \cap DOMAIN live.ambiguous = {}
  BY BarriersNew
<1>4. a \notin DOMAIN live.allocating /\ live.tmux # "none"
  BY DEF PanesKnown, Owned
<1> HIDE DEF b
<1>5. ASSUME Whole(live), Synced(live, l)
      PROVE  Synced(update, r)
  <2>1. /\ r = Released(l, a, b) /\ l.tmux = live.tmux
        /\ l.ambiguous = live.ambiguous /\ l.submitted = live.submitted
    BY <1>2, <1>4, <1>5 DEF Synced
  <2>2. update = Released(live, a, b)
    BY <1>2, <1>3, <1>4, <1>5, GivenUpIsReleased
  <2>3. r.tmux = update.tmux
    BY <2>1, <2>2, ReleasedFields
  <2>4. r.submitted = update.submitted /\ r.ambiguous = update.ambiguous
    <3>1. /\ NotReleased(l, b) = NotReleased(live, b)
          /\ AllBarriers(l, b) = AllBarriers(live, b)
      BY <2>1 DEF NotReleased, AllBarriers
    <3>2. QED
      BY <2>1, <2>2, <3>1, ReleasedFields
  <2>5. OneBinding => update = r
    BY <1>5, <2>1, <2>2 DEF Synced
  <2>6. QED
    BY <2>3, <2>4, <2>5 DEF Synced
<1>6. QED
  BY <1>2, <1>5, ReleasedWhole DEF Keeps

LEMMA CleaningFields ==
    ASSUME NEW s, Shape(s), NEW f, NEW t, t = [s EXCEPT !.cleaning = f]
    PROVE  /\ t.tmux = s.tmux /\ t.panes = s.panes
           /\ t.allocating = s.allocating /\ t.generations = s.generations
           /\ t.cleaning = f
           /\ t.ambiguous = s.ambiguous /\ t.submitted = s.submitted
BY DEF Shape

LEMMA CleaningWhole ==
    ASSUME NEW s, Shape(s), Whole(s), NEW f, IsFcn(f), NEW t,
           t = [s EXCEPT !.cleaning = f]
    PROVE  Whole(t)
BY CleaningFields DEF Whole

LEMMA CleanupKeeps ==
    ASSUME NEW l, Shape(l), Shape(live), NEW event, NEW update,
           WritesCleanup(event, update), NEW r,
           r = Replayed(l, Line(event, count + 1))
    PROVE  Keeps(l, update, r)
<1>1. ASSUME NEW a, NEW g,
             event = [kind |-> "tmux_pane_cleanup_intent", act |-> a,
                      gen |-> g],
             update = [live EXCEPT !.cleaning = With(@, a, g)]
      PROVE  Keeps(l, update, r)
  <2> DEFINE e == Line(event, count + 1)
  <2>1. e.kind = "tmux_pane_cleanup_intent" /\ e.act = a /\ e.gen = g
    BY <1>1 DEF Line
  <2> HIDE DEF e
  <2>2. r = [l EXCEPT !.cleaning = With(l.cleaning, a, g)]
    BY <2>1 DEF Replayed, e
  <2>3. update = [live EXCEPT !.cleaning = With(live.cleaning, a, g)]
    BY <1>1
  <2>4. /\ Whole(live) => Whole(update)
        /\ Whole(l) => Whole(r)
    BY <2>2, <2>3, CleaningWhole, WithFcn
  <2>5. Synced(live, l) => Synced(update, r)
    BY <2>2, <2>3, CleaningFields DEF Synced
  <2>6. QED
    BY <2>4, <2>5 DEF Keeps
<1>2. ASSUME NEW a, NEW g,
             event = [kind |-> "tmux_pane_cleanup_receipt", act |-> a,
                      gen |-> g],
             g = live.cleaning[a],
             update = [live EXCEPT !.cleaning = Without(@, a)]
      PROVE  Keeps(l, update, r)
  <2> DEFINE e == Line(event, count + 1)
  <2>1. e.kind = "tmux_pane_cleanup_receipt" /\ e.act = a /\ e.gen = g
    BY <1>2 DEF Line
  <2> HIDE DEF e
  <2>2. r = IF a \in DOMAIN l.cleaning /\ l.cleaning[a] = g
            THEN [l EXCEPT !.cleaning = Without(l.cleaning, a)] ELSE l
    BY <2>1 DEF Replayed, Receipt, e
  <2>3. update = [live EXCEPT !.cleaning = Without(live.cleaning, a)]
    BY <1>2
  <2>4. /\ Whole(live) => Whole(update)
        /\ Whole(l) => Whole(r)
    BY <2>2, <2>3, CleaningWhole, WithFcn
  <2>5. ASSUME Whole(live), Synced(live, l)
        PROVE  Synced(update, r)
    <3>1. OneBinding => update = r
      <4>1. SUFFICES ASSUME live = l
                     PROVE  update = r
        BY <2>5 DEF Synced
      <4>2. CASE a \in DOMAIN l.cleaning
        BY <1>2, <2>2, <2>3, <4>1, <4>2
      <4>3. CASE a \notin DOMAIN l.cleaning
        <5>1. Without(live.cleaning, a) = live.cleaning
          BY <2>5, <4>1, <4>3 DEF Without, Whole, IsFcn
        <5>2. update = live
          BY <2>3, <5>1 DEF Shape
        <5>3. QED
          BY <2>2, <4>1, <4>3, <5>2
      <4>4. QED
        BY <4>2, <4>3
    <3>2. QED
      BY <2>2, <2>3, <2>5, <3>1, CleaningFields DEF Synced
  <2>6. QED
    BY <2>4, <2>5 DEF Keeps
<1>3. QED
  BY <1>1, <1>2 DEF WritesCleanup

LEMMA ParticipantFields ==
    ASSUME NEW s, Shape(s), NEW p, NEW t,
           t = ParticipantStarted(s, p) \/ t = ParticipantBound(s, p)
    PROVE  /\ t.tmux = s.tmux /\ t.panes = s.panes
           /\ t.allocating = s.allocating /\ t.cleaning = s.cleaning
           /\ t.ambiguous = s.ambiguous /\ t.submitted = s.submitted
           /\ t.generations = s.generations
BY DEF ParticipantStarted, ParticipantBound, Shape

LEMMA ParticipantKeeps ==
    ASSUME NEW l, Shape(l), Shape(live), NEW event, NEW update,
           WritesParticipant(event, update), NEW r,
           r = Replayed(l, Line(event, count + 1))
    PROVE  Keeps(l, update, r)
<1>1. PICK a, g :
        \/ /\ event = [kind |-> "participant_started", act |-> a, gen |-> g]
           /\ update = ParticipantStarted(live, <<a, g>>)
        \/ /\ event = [kind |-> "participant_bound", act |-> a, gen |-> g]
           /\ update = ParticipantBound(live, <<a, g>>)
  BY DEF WritesParticipant
<1> DEFINE e == Line(event, count + 1)
<1>2. /\ e.act = a /\ e.gen = g
      /\ \/ /\ e.kind = "participant_started"
            /\ update = ParticipantStarted(live, <<a, g>>)
         \/ /\ e.kind = "participant_bound"
            /\ update = ParticipantBound(live, <<a, g>>)
  BY <1>1 DEF Line
<1> HIDE DEF e
<1>3. \/ /\ update = ParticipantStarted(live, <<a, g>>)
         /\ r = ParticipantStarted(l, <<a, g>>)
      \/ /\ update = ParticipantBound(live, <<a, g>>)
         /\ r = ParticipantBound(l, <<a, g>>)
  BY <1>2 DEF Replayed, e
<1>4. QED
  BY <1>3, ParticipantFields, SameWhole DEF Keeps, Synced

LEMMA BarrierFields ==
    ASSUME NEW s, Shape(s), NEW k, NEW n
    PROVE  /\ Barrier(s, k, n).tmux = s.tmux
           /\ Barrier(s, k, n).panes = s.panes
           /\ Barrier(s, k, n).allocating = s.allocating
           /\ Barrier(s, k, n).cleaning = s.cleaning
           /\ Barrier(s, k, n).generations = s.generations
           /\ Barrier(s, k, n).ambiguous = With(s.ambiguous, k, n)
           /\ Barrier(s, k, n).submitted = Without(s.submitted, k)
BY DEF Barrier, Shape

LEMMA StartKeeps ==
    ASSUME NEW l, Shape(l), Shape(live), NEW event, NEW update,
           WritesStart(event, update), NEW r,
           r = Replayed(l, Line(event, count + 1))
    PROVE  Keeps(l, update, r)
<1>1. PICK k : /\ event = [kind |-> "input_delivery_started", key |-> k]
               /\ update = Barrier(live, k, count + 1)
  BY DEF WritesStart
<1>2. r = Barrier(l, k, count + 1)
  BY <1>1, ReplayedStarted
<1>3. QED
  BY <1>1, <1>2, BarrierFields, SameWhole DEF Keeps, Synced

LEMMA OutcomeFields ==
    ASSUME NEW s, Shape(s), NEW k, NEW n
    PROVE  /\ SubmittedNow(s, k, n).tmux = s.tmux
           /\ SubmittedNow(s, k, n).panes = s.panes
           /\ SubmittedNow(s, k, n).allocating = s.allocating
           /\ SubmittedNow(s, k, n).cleaning = s.cleaning
           /\ SubmittedNow(s, k, n).generations = s.generations
           /\ SubmittedNow(s, k, n).ambiguous = Without(s.ambiguous, k)
           /\ SubmittedNow(s, k, n).submitted = With(s.submitted, k, n)
           /\ RefusedNow(s, k).tmux = s.tmux
           /\ RefusedNow(s, k).panes = s.panes
           /\ RefusedNow(s, k).allocating = s.allocating
           /\ RefusedNow(s, k).cleaning = s.cleaning
           /\ RefusedNow(s, k).generations = s.generations
           /\ RefusedNow(s, k).ambiguous = Without(s.ambiguous, k)
           /\ RefusedNow(s, k).submitted = Without(s.submitted, k)
BY DEF SubmittedNow, RefusedNow, Shape

\* What an outcome is replayed to, with the barrier it names or without.
LEMMA OutcomeReplayed ==
    ASSUME NEW l, NEW event, NEW update, WritesOutcome(event, update), NEW r,
           r = Replayed(l, Line(event, count + 1))
    PROVE  \E k \in DOMAIN live.ambiguous :
              \/ /\ update = SubmittedNow(live, k, live.ambiguous[k])
                 /\ r = IF Matches(l, k, live.ambiguous[k])
                        THEN SubmittedNow(l, k, live.ambiguous[k]) ELSE l
              \/ /\ update = RefusedNow(live, k)
                 /\ r = IF Matches(l, k, live.ambiguous[k])
                        THEN RefusedNow(l, k) ELSE l
<1>1. PICK k \in DOMAIN live.ambiguous :
        LET n == live.ambiguous[k]
        IN  \/ /\ event = [kind |-> "input_delivery_submitted", key |-> k,
                           started |-> n]
               /\ update = SubmittedNow(live, k, n)
            \/ /\ event = [kind |-> "input_delivery_not_submitted",
                           key |-> k, started |-> n]
               /\ update = RefusedNow(live, k)
  BY DEF WritesOutcome
<1> DEFINE n == live.ambiguous[k]
           e == Line(event, count + 1)
<1>2. /\ e.key = k /\ e.started = n
      /\ \/ /\ e.kind = "input_delivery_submitted"
            /\ update = SubmittedNow(live, k, n)
         \/ /\ e.kind = "input_delivery_not_submitted"
            /\ update = RefusedNow(live, k)
  BY <1>1 DEF Line
<1> HIDE DEF e, n
<1>3. \/ /\ update = SubmittedNow(live, k, n)
         /\ r = IF Matches(l, k, n) THEN SubmittedNow(l, k, n) ELSE l
      \/ /\ update = RefusedNow(live, k)
         /\ r = IF Matches(l, k, n) THEN RefusedNow(l, k) ELSE l
  <2>1. \/ /\ update = SubmittedNow(live, k, n) /\ r = Submission(l, k, n)
        \/ /\ update = RefusedNow(live, k) /\ r = Refusal(l, k, n)
    BY <1>2 DEF Replayed, e
  <2>2. /\ Submission(l, k, n) = IF Matches(l, k, n)
                                 THEN SubmittedNow(l, k, n) ELSE l
        /\ Refusal(l, k, n) = IF Matches(l, k, n)
                              THEN RefusedNow(l, k) ELSE l
    BY DEF Submission, Refusal, SubmittedNow, RefusedNow
  <2>3. QED
    BY <2>1, <2>2
<1>4. QED
  BY <1>3 DEF n

LEMMA OutcomeKeeps ==
    ASSUME NEW l, Shape(l), Shape(live), NEW event, NEW update,
           WritesOutcome(event, update), NEW r,
           r = Replayed(l, Line(event, count + 1))
    PROVE  Keeps(l, update, r)
<1>1. PICK k \in DOMAIN live.ambiguous :
         \/ /\ update = SubmittedNow(live, k, live.ambiguous[k])
            /\ r = IF Matches(l, k, live.ambiguous[k])
                   THEN SubmittedNow(l, k, live.ambiguous[k]) ELSE l
         \/ /\ update = RefusedNow(live, k)
            /\ r = IF Matches(l, k, live.ambiguous[k])
                   THEN RefusedNow(l, k) ELSE l
  BY OutcomeReplayed
<1>2. Synced(live, l) => Matches(l, k, live.ambiguous[k])
  BY DEF Synced, Matches
<1>3. Synced(live, l) => Synced(update, r)
  BY <1>1, <1>2, OutcomeFields DEF Synced
<1>4. /\ Whole(live) => Whole(update)
      /\ Whole(l) => Whole(r)
  BY <1>1, OutcomeFields, SameWhole
<1>5. QED
  BY <1>3, <1>4 DEF Keeps

\* Every event.
LEMMA WritesKeeps ==
    ASSUME NEW l, Shape(l), Shape(live), PanesKnown(live), NEW event,
           NEW update, Writes(event, update), NEW r,
           r = Replayed(l, Line(event, count + 1))
    PROVE  Keeps(l, update, r)
BY BindingKeeps, IntentKeeps, PaneKeeps, ReleaseKeeps, CleanupKeeps,
   ParticipantKeeps, StartKeeps, OutcomeKeeps DEF Writes

-----------------------------------------------------------------------------
(* What cleanups have in hand.                                             *)

\* Where nothing is cleaned up or waits for it.
Uncleaned == {"down", "idle", "exit", "stale", "suspend", "bind", "pause",
              "resume"} \cup Allocations \cup Actuations \cup Deliveries

LEMMA QueuedElse ==
    ASSUME job'.phase \in Uncleaned
    PROVE  Queued'
BY DEF Queued, At, Uncleaned, Cleanups, Allocations, Actuations, Deliveries

\* An operation that fails leaves the panes it has not come to.
LEMMA QueuedErred ==
    ASSUME Inv, Queued, ~At("exit"), live' = live, job' = Erred
    PROVE  Queued'
<1>1. job.op \in Ops
  BY OpsTyped DEF Inv, OnceInv
<1>2. CASE job.op \notin {"finalize", "shutdown"}
  <2>1. ErrorPhase[job.op] \in {"idle", "exit", "pause"}
    BY <1>1, <1>2 DEF Ops, ErrorPhase
  <2>2. job'.phase \in {"idle", "exit", "pause"}
    BY <2>1 DEF Erred, Idle
  <2>3. QED
    BY <2>2, QueuedElse DEF Uncleaned
<1>3. CASE job.op \in {"finalize", "shutdown"}
  <2>1. ErrorPhase[job.op] = "finalize"
    BY <1>3 DEF ErrorPhase
  <2>2. job'.phase = "finalize" /\ job'.todo = job.todo
    BY <1>3, <2>1 DEF Erred, Idle
  <2>3. job.todo \subseteq Owned
    BY <1>3 DEF Inv, OnceInv, Control, At, Queued, Idle, Down, Reconciling,
                Cleanups, Allocations, Actuations, Deliveries
  <2>4. QED
    BY <2>2, <2>3 DEF Queued, At, Owned, Cleanups
<1>4. QED
  BY <1>2, <1>3

\* A step that writes nothing.
LEMMA StillQueued ==
    ASSUME Inv, Queued, ~At("exit"), live' = live,
           job' \in {Idle, Down, Erred} \/ job'.phase \in Uncleaned
    PROVE  Queued'
<1>1. CASE job' \in {Idle, Down}
  BY <1>1, QueuedElse DEF Idle, Down, Uncleaned
<1>2. QED
  BY <1>1, QueuedElse, QueuedErred

LEMMA AppendQueued ==
    ASSUME Inv, Queued, ~At("exit"), NEW event, NEW update, NEW then,
           AppendEvent(event, update, then),
           job' = then /\ live' = update => Queued'
    PROVE  Queued'
BY QueuedErred DEF AppendEvent

LEMMA CleaningQueued ==
    ASSUME Inv, Queued, Cleaning
    PROVE  Queued'
<1>1. Framed /\ ~At("exit") /\ ~At("down")
  BY DEF Inv, OnceInv, Control, Cleaning, CleanupIntent, KillPane, ReleasePane,
         CleanupReceipt, Finalize, At
<1>2. Shape(live)
  BY <1>1, LiveBoth
<1>3. CASE CleanupIntent
  <2> DEFINE a == job.act
             f == With(live.cleaning, a, live.panes[a])
             event == [kind |-> "tmux_pane_cleanup_intent", act |-> a,
                       gen |-> live.panes[a]]
             update == [live EXCEPT !.cleaning = f]
             then == [job EXCEPT !.phase = "kill"]
  <2>1. At("intent")
    BY <1>3 DEF CleanupIntent
  <2>2. ASSUME job' = then, Owned' = Owned,
               DOMAIN live'.cleaning = DOMAIN live.cleaning \cup {a}
        PROVE  Queued'
    <3>1. Moves("kill", job.todo, job.act, job.back)
      BY <1>1, <2>2, GotoMoves
    <3>2. QED
      BY <2>1, <2>2, <3>1 DEF Queued, Moves, At, Cleanups
  <2>3. CASE live' = live /\ job' = Erred
    BY <1>1, <2>3, QueuedErred
  <2>4. CASE live' = live /\ job' = then /\ a \in DOMAIN live.cleaning
    BY <2>2, <2>4 DEF Owned
  <2>5. CASE AppendEvent(event, update, then)
    <3>1. update.panes = live.panes /\ update.cleaning = f
      BY <1>2, CleaningFields
    <3>2. DOMAIN f = DOMAIN live.cleaning \cup {a}
      BY DEF With
    <3> HIDE DEF event, f, update, then
    <3>3. job' = then /\ live' = update => Queued'
      BY <2>2, <3>1, <3>2 DEF Owned
    <3>4. QED
      BY <1>1, <2>5, <3>3, AppendQueued
  <2>6. QED
    BY <1>3, <2>3, <2>4, <2>5 DEF CleanupIntent, service
<1>4. CASE KillPane
  <2>1. live' = live /\ At("kill")
    BY <1>4 DEF KillPane, service
  <2>2. ASSUME NEW p \in {"receipt", "release"}, Goto(p)
        PROVE  Queued'
    <3>1. Moves(p, job.todo, job.act, job.back)
      BY <1>1, <2>2, GotoMoves DEF Goto
    <3>2. QED
      BY <2>1, <3>1 DEF Queued, Moves, At, Cleanups, Owned
  <2>3. QED
    BY <1>1, <1>4, <2>1, <2>2, QueuedErred DEF KillPane, KillFailed
<1>5. CASE ReleasePane
  <2> DEFINE a == job.act
             barriers == ReleasedBarriers(a)
             event == [kind |-> "tmux_panes_released", act |-> a,
                       barriers |-> barriers]
             update == GivenUp(live, a, barriers)
             then == [job EXCEPT !.phase = "receipt"]
  <2>1. At("release") /\ AppendEvent(event, update, then)
    BY <1>5 DEF ReleasePane, GivenUp
  <2>2. /\ DOMAIN update.panes = Owned \ {a}
        /\ update.cleaning = live.cleaning
    <3>1. /\ update.panes = Without(live.panes, a)
          /\ update.cleaning = live.cleaning
      <4> HIDE DEF barriers, a
      <4>1. QED
        BY <1>2, GivenUpFields
    <3> HIDE DEF update
    <3>2. QED
      BY <3>1 DEF Without, Owned
  <2>3. job' = then => Moves("receipt", job.todo, job.act, job.back)
    BY <1>1, GotoMoves
  <2> HIDE DEF event, update, then
  <2>4. job' = then /\ live' = update => Queued'
    BY <2>1, <2>2, <2>3 DEF Queued, Moves, At, Cleanups, Owned
  <2>5. QED
    BY <1>1, <2>1, <2>4, AppendQueued
<1>6. CASE CleanupReceipt
  <2> DEFINE a == job.act
             f == Without(live.cleaning, a)
             event == [kind |-> "tmux_pane_cleanup_receipt", act |-> a,
                       gen |-> live.cleaning[a]]
             update == [live EXCEPT !.cleaning = f]
             next == [job EXCEPT !.phase = job.back, !.act = "none",
                                 !.back = "idle"]
             then == IF job.back = "idle" THEN Idle ELSE next
  <2>1. At("receipt") /\ AppendEvent(event, update, then)
    BY <1>6 DEF CleanupReceipt
  <2>2. /\ update.panes = live.panes
        /\ DOMAIN update.cleaning = DOMAIN live.cleaning \ {a}
    BY <1>2, CleaningFields DEF Without
  <2>3. job.back \in {"cleanups", "stale", "exits", "finalize", "idle"}
    BY <2>1 DEF Inv, OnceInv, Control, At, Cleanups
  <2>4. job' = next => job'.phase = job.back /\ job'.todo = job.todo
    BY <1>1 DEF Framed
  <2> HIDE DEF update, event, next
  <2>5. job' = then /\ live' = update => Queued'
    <3>1. CASE job' = Idle
      BY <3>1, QueuedElse DEF Idle, Uncleaned
    <3>2. CASE job' = next /\ live' = update
      BY <2>1, <2>2, <2>3, <2>4, <3>2 DEF Queued, At, Cleanups, Owned
    <3>3. QED
      BY <3>1, <3>2
  <2> HIDE DEF then
  <2>6. QED
    BY <1>1, <2>1, <2>5, AppendQueued
<1>7. CASE Finalize
  <2>1. live' = live /\ At("finalize")
    BY <1>7 DEF Finalize, resting, service
  <2>2. ASSUME NEW a \in job.todo, CleanUp(a, "intent")
        PROVE  Queued'
    <3>1. Moves("intent", job.todo \ {a}, a, "finalize")
      BY <1>1, <2>1, <2>2, CleanUpMoves DEF At
    <3>2. QED
      BY <2>1, <3>1 DEF Queued, Moves, At, Cleanups, Owned
  <2>3. [Idle EXCEPT !.op = "shutdown", !.phase = "exit"].phase = "exit"
    BY DEF Idle
  <2>4. QED
    BY <1>1, <1>7, <2>1, <2>2, <2>3, StillQueued DEF Finalize, Uncleaned
<1>8. QED
  BY <1>3, <1>4, <1>5, <1>6, <1>7 DEF Cleaning

LEMMA StartingQueued ==
    ASSUME Inv, Queued, Starting
    PROVE  Queued'
<1>1. Framed /\ ~At("exit")
  BY DEF Inv, OnceInv, Control, Starting, Load, LoadCleanups, Stale, LoadExits,
         Suspend, At
<1>2. CASE Load
  <2>1. job'.phase = "cleanups" /\ job'.todo = DOMAIN live'.cleaning
    BY <1>2 DEF Load, Idle
  <2>2. QED
    BY <2>1 DEF Queued, At, Cleanups
<1>3. CASE LoadCleanups
  <2>1. live' = live /\ At("cleanups")
    BY <1>3 DEF LoadCleanups, resting, service
  <2>2. ASSUME NEW a \in job.todo, CleanUp(a, "kill")
        PROVE  Queued'
    <3>1. Moves("kill", job.todo \ {a}, a, "cleanups")
      BY <1>1, <2>1, <2>2, CleanUpMoves DEF At
    <3>2. QED
      BY <2>1, <3>1 DEF Queued, Moves, At, Cleanups, Owned
  <2>3. CASE job' = [job EXCEPT !.phase = "stale", !.todo = Owned]
    <3>1. job'.phase = "stale"
      BY <1>1, <2>3 DEF Framed
    <3>2. QED
      BY <3>1, QueuedElse DEF Uncleaned
  <2>4. QED
    BY <1>3, <2>2, <2>3 DEF LoadCleanups
<1>4. CASE Stale
  <2> DEFINE gone == {a \in job.todo \cap Owned : Pane(a) \notin alive}
  <2>1. live' = live /\ At("stale")
    BY <1>4 DEF Stale, service
  <2>2. ASSUME NEW a \in gone,
               job' = [job EXCEPT !.phase = "intent", !.act = a,
                                  !.back = "stale", !.todo = gone \ {a}]
        PROVE  Queued'
    <3>1. job'.phase = "intent" /\ job'.act = a /\ job'.back = "stale"
      BY <1>1, <2>2 DEF Framed
    <3>2. QED
      BY <2>1, <2>2, <3>1 DEF Queued, At, Cleanups, Owned
  <2>3. CASE job' = [job EXCEPT !.phase = "exits", !.todo = Exits]
    <3>1. job'.phase = "exits" /\ job'.todo = Exits
      BY <1>1, <2>3 DEF Framed
    <3>2. QED
      BY <2>1, <3>1 DEF Queued, At, Cleanups, Owned, Exits
  <2>4. CASE job' = [job EXCEPT !.phase = "allocate", !.todo = Running]
    <3>1. job'.phase = "allocate"
      BY <1>1, <2>4 DEF Framed
    <3>2. QED
      BY <3>1, QueuedElse DEF Uncleaned, Allocations
  <2>5. CASE job' = Erred
    BY <1>1, <2>1, <2>5, QueuedErred
  <2> HIDE DEF gone
  <2>6. QED
    BY <1>4, <2>2, <2>3, <2>4, <2>5 DEF Stale, gone
<1>5. CASE LoadExits
  <2>1. live' = live /\ At("exits")
    BY <1>5 DEF LoadExits, resting, service
  <2>2. ASSUME NEW a \in job.todo, CleanUp(a, "intent")
        PROVE  Queued'
    <3>1. Moves("intent", job.todo \ {a}, a, "exits")
      BY <1>1, <2>1, <2>2, CleanUpMoves DEF At
    <3>2. QED
      BY <2>1, <3>1 DEF Queued, Moves, At, Cleanups, Owned
  <2>3. CASE Goto("suspend")
    BY <1>1, <2>3, GotoMoves, QueuedElse DEF Goto, Moves, Uncleaned
  <2>4. QED
    BY <1>5, <2>2, <2>3 DEF LoadExits
<1>6. CASE Suspend
  <2>1. live' = live /\ job' \in {Idle, Erred}
    BY <1>6 DEF Suspend, service
  <2>2. QED
    BY <1>1, <2>1, StillQueued
<1>7. QED
  BY <1>2, <1>3, <1>4, <1>5, <1>6 DEF Starting

\* Nothing is cleaned up while panes are allocated and typed into.
LEMMA WorkingQueued ==
    ASSUME Inv, Queued, Allocating \/ Actuating \/ Delivering
    PROVE  Queued'
<1>1. Framed /\ ~At("exit")
  BY DEF Inv, OnceInv, Control, Allocating, BindFirst, Allocate, CreatePane,
         BindWindow, PublishPane, Actuating, Pick, Prepare, Launch, Prompt,
         PauseRun, Delivering, StartDelivery, TypeInput, RecordInput,
         PublishInput, FinishDelivery, At
<1>2. ASSUME NEW then, then.phase \in Uncleaned,
             \/ job' = then
             \/ \E event, update : AppendEvent(event, update, then)
      PROVE  Queued'
  BY <1>1, <1>2, QueuedElse, AppendQueued
<1>3. \A p \in Uncleaned : [job EXCEPT !.phase = p].phase \in Uncleaned
  BY <1>1 DEF Framed
<1>4. CASE Allocating
  <2>1. CASE BindFirst
    <3> DEFINE then == [job EXCEPT !.todo = Running,
                                   !.phase = IF job.op = "bind" THEN "stale"
                                             ELSE "allocate"]
    <3>1. then.phase \in {"stale", "allocate"}
      BY <1>1 DEF Framed
    <3>2. \/ job' = then /\ UNCHANGED service
          \/ \E event, update : AppendEvent(event, update, then)
      BY <2>1 DEF BindFirst
    <3> HIDE DEF then
    <3>3. QED
      BY <1>2, <3>1, <3>2 DEF Uncleaned, Allocations, service
  <2>2. CASE Allocate
    <3>1. ASSUME NEW a
          PROVE  [job EXCEPT !.phase = "create", !.act = a,
                             !.todo = @ \ {a}].phase = "create"
      BY <1>1 DEF Framed
    <3>2. [job EXCEPT !.phase = "pick", !.act = "none",
                      !.todo = PendingActuations].phase = "pick"
      BY <1>1 DEF Framed
    <3>3. QED
      BY <1>2, <2>2, <3>1, <3>2 DEF Allocate, Uncleaned, Allocations,
                                    Actuations
  <2>3. CASE CreatePane
    <3>1. live' = live /\ (Goto("window") \/ job' = Erred)
      BY <2>3 DEF CreatePane, service
    <3>2. QED
      BY <1>1, <1>2, <1>3, <3>1, QueuedErred DEF Goto, Uncleaned, Allocations
  <2>4. CASE BindWindow
    BY <1>2, <1>3, <2>4 DEF BindWindow, Goto, Uncleaned, Allocations
  <2>5. CASE PublishPane
    <3>1. [job EXCEPT !.phase = "allocate", !.act = "none"].phase = "allocate"
      BY <1>1 DEF Framed
    <3>2. QED
      BY <1>2, <2>5, <3>1 DEF PublishPane, Uncleaned, Allocations
  <2>6. QED
    BY <1>4, <2>1, <2>2, <2>3, <2>4, <2>5 DEF Allocating
<1>5. {Idle.phase, Picked.phase, Warned.phase, ToPrompt.phase}
         \subseteq Uncleaned
  BY <1>1, Onwards DEF Idle, Uncleaned, Actuations
<1>6. Recover.phase \in Uncleaned
  BY <1>3, <1>5 DEF Recover, Uncleaned, Deliveries
<1>7. CASE Actuating
  <2>1. CASE Pick
    <3>1. ASSUME NEW a, At("pick")
          PROVE  /\ [job EXCEPT !.todo = @ \ {a}].phase = "pick"
                 /\ [job EXCEPT !.todo = @ \ {a},
                                !.warned = TRUE].phase = "pick"
                 /\ [job EXCEPT !.phase = "prepare", !.act = a,
                                !.todo = @ \ {a}].phase = "prepare"
      BY <1>1, <3>1 DEF Framed, At
    <3>2. QED
      BY <1>2, <1>3, <1>5, <2>1, <3>1 DEF Pick, Uncleaned, Actuations
  <2>2. CASE Prepare
    <3>1. [job EXCEPT !.phase = "launch", !.role = "launch"].phase = "launch"
      BY <1>1 DEF Framed
    <3>2. CASE live' = live /\ job' = Erred
      BY <1>1, <3>2, QueuedErred
    <3>3. QED
      BY <1>2, <2>2, <3>1, <3>2 DEF Prepare, Uncleaned, Actuations, service
  <2>3. CASE Launch
    BY <1>2, <1>3, <1>5, <1>6, <2>3 DEF Launch, Uncleaned, Deliveries
  <2>4. CASE Prompt
    BY <1>2, <1>3, <1>5, <1>6, <2>4 DEF Prompt, Uncleaned, Deliveries
  <2>5. CASE PauseRun
    <3>1. CASE job' = Idle
      BY <1>2, <1>5, <3>1
    <3>2. CASE job' = BindCleanup /\ live' = live
      <4>1. job'.phase = "finalize" /\ job'.todo = Owned
        BY <3>2 DEF BindCleanup, Idle
      <4>2. QED
        BY <3>2, <4>1 DEF Queued, At, Cleanups, Owned
    <3>3. QED
      BY <2>5, <3>1, <3>2 DEF PauseRun, service
  <2>6. QED
    BY <1>7, <2>1, <2>2, <2>3, <2>4, <2>5 DEF Actuating
<1>8. CASE Delivering
  <2>1. job.phase \in Deliveries
    BY <1>8 DEF Delivering, StartDelivery, TypeInput, RecordInput,
                PublishInput, FinishDelivery, At, Deliveries
  <2>2. InDoubt.phase \in Uncleaned /\ Over.phase \in Uncleaned
    <3>1. job.op = "message" \/ job.role \in {"launch", "prompt"}
      BY <2>1 DEF Inv, OnceInv, Actuates, Roles
    <3>2. QED
      BY <1>5, <3>1 DEF InDoubt, Over
  <2>3. CASE StartDelivery
    BY <1>2, <1>3, <2>3 DEF StartDelivery, Uncleaned, Deliveries
  <2>4. CASE TypeInput \/ RecordInput
    BY <1>2, <1>3, <2>2, <2>4 DEF TypeInput, RecordInput, Goto, Uncleaned,
                                  Deliveries
  <2>5. CASE PublishInput
    <3>1. live' = live /\ (Goto("finish") \/ job' = Erred)
      BY <2>5 DEF PublishInput, service
    <3>2. QED
      BY <1>1, <1>2, <1>3, <3>1, QueuedErred DEF Goto, Uncleaned, Deliveries
  <2>6. CASE FinishDelivery
    BY <1>2, <2>2, <2>6 DEF FinishDelivery
  <2>7. QED
    BY <1>8, <2>3, <2>4, <2>5, <2>6 DEF Delivering
<1>9. QED
  BY <1>4, <1>7, <1>8

LEMMA RequestsQueued ==
    ASSUME Inv, Queued, Requests \/ Agents \/ Shutdown
    PROVE  Queued'
<1>1. Framed /\ ~At("exit")
  BY DEF Inv, OnceInv, Control, Requests, BindRun, Request, Pause, Resume,
         ResumeRun, EndRun, Resolve, SendMessage, Agents, BindParticipant,
         ParticipantStop, ParticipantExited, FinalizeExited, Shutdown, At
<1>2. ASSUME NEW then, then.phase \in Uncleaned,
             \/ job' = then
             \/ \E event, update : AppendEvent(event, update, then)
      PROVE  Queued'
  BY <1>1, <1>2, QueuedElse, AppendQueued
<1>3. Idle.phase \in Uncleaned
  BY DEF Idle, Uncleaned
<1>4. ASSUME NEW running, Reconcile(running)
      PROVE  Queued'
  <2>1. \A c : [Idle EXCEPT !.op = "request", !.phase = "bind",
                            !.command = c].phase = "bind"
    BY DEF Idle
  <2>2. QED
    BY <1>2, <1>3, <1>4, <2>1 DEF Reconcile, Uncleaned
<1>5. [Idle EXCEPT !.op = "resolve", !.phase = "resume"].phase \in Uncleaned
  BY DEF Idle, Uncleaned
<1>6. CASE BindRun
  <2>1. \A c : [Idle EXCEPT !.op = "bind", !.phase = "bind",
                            !.command = c].phase = "bind"
    BY DEF Idle
  <2>2. QED
    BY <1>2, <1>6, <2>1 DEF BindRun, Uncleaned
<1>7. CASE Request \/ Resume \/ ResumeRun
  BY <1>2, <1>3, <1>4, <1>5, <1>7 DEF Request, Resume, ResumeRun
<1>8. CASE Pause
  BY <1>8 DEF Pause, Queued, At, Owned, service
<1>9. ASSUME live' = live, job'.todo = Owned,
             job'.phase = "finalize"
      PROVE  Queued'
  BY <1>9 DEF Queued, At, Cleanups, Owned
<1>10. CASE EndRun
  <2>1. job'.phase = "finalize" /\ job'.todo = Owned /\ live' = live
    BY <1>10 DEF EndRun, Idle, service
  <2>2. QED
    BY <1>9, <2>1
<1>11. ASSUME NEW k, NEW o, Resolve(k, o)
       PROVE  Queued'
  BY <1>2, <1>5, <1>11 DEF Resolve
<1>12. ASSUME NEW a, NEW m, SendMessage(a, m)
       PROVE  Queued'
  <2>1. job'.phase = "start"
    BY <1>12 DEF SendMessage, Idle
  <2>2. QED
    BY <2>1, QueuedElse DEF Uncleaned, Deliveries
<1>13. ASSUME NEW a, BindParticipant(a)
       PROVE  Queued'
  <2>1. [Idle EXCEPT !.op = "session", !.phase = "pick",
                     !.todo = {a}].phase \in Uncleaned
    BY DEF Idle, Uncleaned, Actuations
  <2>2. QED
    BY <1>2, <1>3, <1>13, <2>1 DEF BindParticipant
<1>14. ASSUME NEW a, ParticipantStop(a) \/ ParticipantExited(a)
       PROVE  Queued'
  BY <1>14 DEF ParticipantStop, ParticipantExited, Queued, At, Owned, service
<1>15. ASSUME NEW a, FinalizeExited(a)
       PROVE  Queued'
  <2>1. /\ job'.phase = "intent" /\ job'.act = a /\ job'.back = "idle"
        /\ live' = live /\ a \in Owned
    BY <1>15 DEF FinalizeExited, Idle, Exits, resting, service
  <2>2. QED
    BY <2>1 DEF Queued, At, Cleanups, Owned
<1>16. CASE Shutdown
  <2>1. CASE job' = [Idle EXCEPT !.op = "shutdown", !.phase = "finalize",
                                 !.todo = Owned]
    <3>1. live' = live /\ job'.phase = "finalize" /\ job'.todo = Owned
      BY <1>16, <2>1 DEF Shutdown, Idle, service
    <3>2. QED
      BY <1>9, <3>1
  <2>2. CASE job' = [Idle EXCEPT !.op = "shutdown", !.phase = "exit"]
    <3>1. job'.phase = "exit"
      BY <2>2 DEF Idle
    <3>2. QED
      BY <3>1, QueuedElse DEF Uncleaned
  <2>3. QED
    BY <1>16, <2>1, <2>2 DEF Shutdown
<1>17. QED
  BY <1>6, <1>7, <1>8, <1>10, <1>11, <1>12, <1>13, <1>14, <1>15, <1>16
     DEF Requests, Agents

LEMMA QueuedStep ==
    ASSUME Inv, Queued, Next
    PROVE  Queued'
<1>1. CASE Exit \/ Crash
  BY <1>1, QueuedElse DEF Exit, Crash, Leave, Down, Idle, Uncleaned
<1>2. CASE PaneKilled
  BY <1>2 DEF PaneKilled, Queued, At, Owned, service
<1>3. QED
  BY <1>1, <1>2, CleaningQueued, StartingQueued, WorkingQueued, RequestsQueued
     DEF Next

-----------------------------------------------------------------------------
(* The service agrees with its log.                                        *)

\* A driver that is down only starts.
LEMMA DownStarts ==
    ASSUME Next, At("down")
    PROVE  Load \/ PaneKilled
<1>1. ~Cleaning
  BY DEF Cleaning, CleanupIntent, KillPane, ReleasePane, CleanupReceipt,
         Finalize, At
<1>2. ~(LoadCleanups \/ Stale \/ LoadExits \/ Suspend)
  BY DEF LoadCleanups, Stale, LoadExits, Suspend, At
<1>3. ~Allocating
  BY DEF Allocating, BindFirst, Allocate, CreatePane, BindWindow, PublishPane,
         At
<1>4. ~Actuating
  BY DEF Actuating, Pick, Prepare, Launch, Prompt, PauseRun, At
<1>5. ~Delivering
  BY DEF Delivering, StartDelivery, TypeInput, RecordInput, PublishInput,
         FinishDelivery, At
<1>6. ~Requests
  BY DEF Requests, BindRun, Request, Pause, Resume, ResumeRun, EndRun,
         Resolve, SendMessage, At
<1>7. ~Agents
  BY DEF Agents, BindParticipant, ParticipantStop, ParticipantExited,
         FinalizeExited, At
<1>8. ~(Shutdown \/ Exit \/ Crash)
  BY DEF Shutdown, Exit, Crash, At
<1>9. QED
  BY <1>1, <1>2, <1>3, <1>4, <1>5, <1>6, <1>7, <1>8 DEF Next, Starting

\* How the log and its number grow.
LEMMA Grown ==
    ASSUME Inv, NEW event, NEW update, NEW then,
           AppendEvent(event, update, then)
    PROVE  LET r == Replayed(Logged, Line(event, count + 1))
               longer == Len(dlog') = Len(dlog) + 1 /\ Logged' = r
           IN  /\ Len(dlog) \in Nat
               /\ \/ longer /\ count' = count + 1 /\ live' = update
                  \/ /\ "append_kept" \in FaultKinds
                     /\ longer /\ UNCHANGED <<count, live>>
                  \/ UNCHANGED <<dlog, count, live>>
<1> DEFINE line == Line(event, count + 1)
<1>1. Replayable(dlog)
  BY DEF Inv, OnceInv, Stored
<1>2. Replay(Append(dlog, line)) = Replayed(Logged, line)
  BY <1>1, ReplayAppend DEF Logged
<1>3. Len(Append(dlog, line)) = Len(dlog) + 1 /\ Len(dlog) \in Nat
  <2>1. PICK S : dlog \in Seq(S)
    BY <1>1 DEF Replayable
  <2>2. QED
    BY <2>1
<1>4. \/ /\ dlog' = Append(dlog, line) /\ count' = count + 1
         /\ live' = update
      \/ /\ "append_kept" \in FaultKinds /\ dlog' = Append(dlog, line)
         /\ UNCHANGED <<live, count>>
      \/ UNCHANGED <<dlog, live, count>>
  BY DEF AppendEvent, Line, Fault
<1> HIDE DEF line
<1>5. dlog' = Append(dlog, line)
         => Len(dlog') = Len(dlog) + 1 /\ Logged' = Replayed(Logged, line)
  BY <1>2, <1>3 DEF Logged
<1>6. QED
  BY <1>3, <1>4, <1>5 DEF line

LEMMA SyncInit ==
    ASSUME Init
    PROVE  SyncInv
<1>1. Logged = Blank /\ live = Blank /\ count = 0 /\ Len(dlog) = 0
  BY ReplayNone DEF Init, Logged
<1>2. job.op = "none" /\ job.phase = "idle"
  BY DEF Init, Idle
<1>3. Whole(Blank)
  <2>1. /\ Blank.panes = Nothing /\ Blank.allocating = Nothing
        /\ Blank.cleaning = Nothing /\ Blank.tmux = "none"
    BY DEF Blank
  <2>2. DOMAIN Nothing = {} /\ IsFcn(Nothing)
    BY WithFcn DEF Nothing
  <2>3. QED
    BY <2>1, <2>2 DEF Whole
<1>4. Seated /\ Queued
  BY <1>2 DEF Seated, Queued, At, Reconciling, Cleanups
<1>5. QED
  BY <1>1, <1>3, <1>4 DEF SyncInv, Synced, Counts

LEMMA SyncStep ==
    ASSUME Inv, SyncInv, Next
    PROVE  SyncInv'
<1>0. Queued'
  BY QueuedStep DEF SyncInv
<1>1. CASE Stepwise /\ Seated' /\ ~At("down")
  <2>1. /\ Whole(live) /\ Counts /\ Whole(Logged)
        /\ count = Len(dlog) => Synced(live, Logged)
    BY <1>1 DEF SyncInv
  <2>2. CASE UNCHANGED <<dlog, service>>
    BY <1>0, <1>1, <2>1, <2>2 DEF SyncInv, Counts, service, Logged
  <2>3. ASSUME NEW event, NEW update, NEW then,
               AppendEvent(event, update, then), Writes(event, update)
        PROVE  SyncInv'
    <3> DEFINE r == Replayed(Logged, Line(event, count + 1))
    <3>1. Keeps(Logged, update, r)
      BY <1>1, <2>3, LiveBoth, WritesKeeps DEF Both, Safe
    <3>2. /\ Len(dlog) \in Nat
          /\ \/ /\ Len(dlog') = Len(dlog) + 1 /\ Logged' = r
                /\ count' = count + 1 /\ live' = update
             \/ /\ Len(dlog') = Len(dlog) + 1 /\ Logged' = r
                /\ UNCHANGED <<count, live>>
             \/ UNCHANGED <<dlog, count, live>>
      BY <2>3, Grown
    <3> HIDE DEF r
    <3>3. CASE /\ Len(dlog') = Len(dlog) + 1 /\ Logged' = r
               /\ count' = count + 1 /\ live' = update
      <4>1. Counts' /\ (count' = Len(dlog') => count = Len(dlog))
        BY <2>1, <3>2, <3>3 DEF Counts
      <4>2. QED
        BY <1>0, <1>1, <2>1, <3>1, <3>3, <4>1 DEF SyncInv, Keeps
    <3>4. CASE /\ Len(dlog') = Len(dlog) + 1 /\ Logged' = r
               /\ UNCHANGED <<count, live>>
      <4>1. Counts' /\ count' # Len(dlog')
        BY <2>1, <3>2, <3>4 DEF Counts
      <4>2. QED
        BY <1>0, <1>1, <2>1, <3>1, <3>4, <4>1 DEF SyncInv, Keeps
    <3>5. CASE UNCHANGED <<dlog, count, live>>
      BY <1>0, <1>1, <2>1, <3>5 DEF SyncInv, Counts, Logged
    <3>6. QED
      BY <3>2, <3>3, <3>4, <3>5
  <2>4. QED
    BY <1>1, <2>2, <2>3 DEF Stepwise
<1>2. CASE PaneKilled
  <2>1. UNCHANGED <<dlog, service, job>> /\ Seated'
    BY <1>2, PaneKilledSteps DEF PaneKilled, files
  <2>2. QED
    BY <1>0, <2>1 DEF SyncInv, Counts, service, Logged, At
<1>3. CASE Load
  <2>1. /\ live' = Logged /\ Logged' = Logged /\ dlog' = dlog
        /\ count' = Len(dlog)
    BY <1>3 DEF Load, ReplayedCount, files, Logged
  <2>2. Len(dlog) \in Nat
    <3>1. PICK S : dlog \in Seq(S)
      BY DEF Inv, OnceInv, Stored, Replayable
    <3>2. QED
      BY <3>1
  <2>3. job'.op = "load" /\ job'.phase = "cleanups"
    BY <1>3 DEF Load, Idle
  <2>4. Seated'
    BY <2>3, SeatedElse DEF Reconciling
  <2>5. QED
    BY <1>0, <2>1, <2>2, <2>4 DEF SyncInv, Counts, Synced
<1>4. CASE Leave
  <2>1. job' = Down /\ dlog' = dlog
    BY <1>4 DEF Leave, files
  <2>2. At("down")' /\ Logged' = Logged
    BY <2>1 DEF Down, Idle, At, Logged
  <2>3. QED
    BY <1>0, <2>1, <2>2, SeatedIdle DEF SyncInv
<1>5. QED
  BY <1>1, <1>2, <1>3, <1>4, Steps, DownStarts

LEMMA SyncInvariance == Spec => []SyncInv
<1>1. Init => SyncInv
  BY SyncInit
<1>2. Inv /\ SyncInv /\ [Next]_vars => SyncInv'
  <2>1. CASE Next
    BY <2>1, SyncStep
  <2>2. CASE UNCHANGED vars
    BY <2>2 DEF vars, SyncInv, Seated, Queued, Logged, Counts, At, Owned, Pane,
                Key, KeyOf
  <2>3. QED
    BY <2>1, <2>2
<1>3. QED
  BY <1>1, <1>2, Invariance, PTL DEF Spec

\* With one binding the service holds what a restart would replay, unless an
\* append has failed with its line durable.
THEOREM Agreement ==
    ASSUME OneBinding
    PROVE  Spec => []ReplayAgrees
<1>1. Inv /\ SyncInv => ReplayAgrees
  BY DEF SyncInv, Synced, ReplayAgrees, At, Logged
<1>2. QED
  BY <1>1, Invariance, SyncInvariance, PTL

-----------------------------------------------------------------------------
(* Barriers are numbered by the events that started them.                  *)

LEMMA SameDistinct ==
    ASSUME NEW s, NEW t, NEW n \in Nat, Distinct(s, n),
           t.ambiguous = s.ambiguous, t.submitted = s.submitted
    PROVE  Distinct(t, n + 1)
<1>1. 1..n \subseteq 1..(n + 1)
  OBVIOUS
<1>2. QED
  BY <1>1 DEF Distinct

\* A pane that is released turns submissions into barriers.
LEMMA ReleaseDistinct ==
    ASSUME Shape(live), NEW n \in Nat, Distinct(live, n), NEW event,
           NEW update, WritesRelease(event, update)
    PROVE  Distinct(update, n + 1)
<1>1. PICK a \in Owned : update = GivenUp(live, a, ReleasedBarriers(a))
  BY DEF WritesRelease
<1> DEFINE b == ReleasedBarriers(a)
           amb == [k \in DOMAIN live.ambiguous \cup DOMAIN b |->
                      IF k \in DOMAIN live.ambiguous THEN live.ambiguous[k]
                      ELSE b[k]]
           sub == [k \in DOMAIN live.submitted \ DOMAIN b |->
                      live.submitted[k]]
<1>2. update.ambiguous = amb /\ update.submitted = sub
  BY <1>1 DEF GivenUp, WithBarriers, Shape
<1>3. /\ DOMAIN b \cap DOMAIN live.ambiguous = {}
      /\ DOMAIN b \subseteq DOMAIN live.submitted
      /\ \A k \in DOMAIN b : b[k] = live.submitted[k]
  BY BarriersNew
<1>4. /\ DOMAIN amb = DOMAIN live.ambiguous \cup DOMAIN b
      /\ \A k \in DOMAIN live.ambiguous : amb[k] = live.ambiguous[k]
      /\ \A k \in DOMAIN b : amb[k] = live.submitted[k]
  BY <1>3
<1>5. /\ DOMAIN sub = DOMAIN live.submitted \ DOMAIN b
      /\ \A k \in DOMAIN sub : sub[k] = live.submitted[k]
  OBVIOUS
<1> HIDE DEF b, amb, sub
<1>6. 1..n \subseteq 1..(n + 1)
  OBVIOUS
<1>7. /\ \A k \in DOMAIN amb : amb[k] \in 1..(n + 1)
      /\ \A k \in DOMAIN sub : sub[k] \in 1..(n + 1)
  BY <1>3, <1>4, <1>5, <1>6 DEF Distinct
<1>8. DOMAIN amb \cap DOMAIN sub = {}
  BY <1>3, <1>4, <1>5 DEF Distinct
<1>9. \A j, k \in DOMAIN amb : amb[j] = amb[k] => j = k
  BY <1>3, <1>4 DEF Distinct
<1>10. \A j, k \in DOMAIN sub : sub[j] = sub[k] => j = k
  BY <1>5 DEF Distinct
<1>11. \A j \in DOMAIN amb, k \in DOMAIN sub : amb[j] # sub[k]
  BY <1>3, <1>4, <1>5 DEF Distinct
<1>12. QED
  BY <1>2, <1>7, <1>8, <1>9, <1>10, <1>11 DEF Distinct

\* A delivery that starts takes the next number.
LEMMA StartDistinct ==
    ASSUME Shape(live), NEW n \in Nat, count = n, Distinct(live, n),
           NEW event, NEW update, WritesStart(event, update)
    PROVE  Distinct(update, n + 1)
<1>1. PICK k : update = Barrier(live, k, n + 1)
  BY DEF WritesStart
<1> DEFINE amb == With(live.ambiguous, k, n + 1)
           sub == Without(live.submitted, k)
<1>2. update.ambiguous = amb /\ update.submitted = sub
  BY <1>1, BarrierFields
<1>3. /\ DOMAIN amb = DOMAIN live.ambiguous \cup {k} /\ amb[k] = n + 1
      /\ \A j \in DOMAIN live.ambiguous \ {k} : amb[j] = live.ambiguous[j]
  BY DEF With
<1>4. /\ DOMAIN sub = DOMAIN live.submitted \ {k}
      /\ \A j \in DOMAIN sub : sub[j] = live.submitted[j]
  BY DEF Without
<1> HIDE DEF amb, sub
<1>5. 1..n \subseteq 1..(n + 1) /\ n + 1 \in 1..(n + 1) /\ n + 1 \notin 1..n
  OBVIOUS
<1>6. QED
  BY <1>2, <1>3, <1>4, <1>5 DEF Distinct

\* An outcome keeps the number of its barrier.
LEMMA OutcomeDistinct ==
    ASSUME Shape(live), NEW n \in Nat, Distinct(live, n),
           NEW event, NEW update, WritesOutcome(event, update)
    PROVE  Distinct(update, n + 1)
<1>1. PICK k \in DOMAIN live.ambiguous :
        \/ update = SubmittedNow(live, k, live.ambiguous[k])
        \/ update = RefusedNow(live, k)
  BY DEF WritesOutcome
<1> DEFINE amb == Without(live.ambiguous, k)
           sub == With(live.submitted, k, live.ambiguous[k])
           less == Without(live.submitted, k)
<1>2. update.ambiguous = amb /\ update.submitted \in {sub, less}
  BY <1>1, OutcomeFields
<1>3. /\ DOMAIN amb = DOMAIN live.ambiguous \ {k}
      /\ \A j \in DOMAIN amb : amb[j] = live.ambiguous[j]
  BY DEF Without
<1>4. /\ DOMAIN sub = DOMAIN live.submitted \cup {k}
      /\ sub[k] = live.ambiguous[k]
      /\ \A j \in DOMAIN live.submitted \ {k} : sub[j] = live.submitted[j]
  BY DEF With
<1>5. /\ DOMAIN less = DOMAIN live.submitted \ {k}
      /\ \A j \in DOMAIN less : less[j] = live.submitted[j]
  BY DEF Without
<1> HIDE DEF amb, sub, less
<1>6. 1..n \subseteq 1..(n + 1)
  OBVIOUS
<1>7. CASE update.submitted = sub
  BY <1>2, <1>3, <1>4, <1>6, <1>7 DEF Distinct
<1>8. CASE update.submitted = less
  BY <1>2, <1>3, <1>5, <1>6, <1>8 DEF Distinct
<1>9. QED
  BY <1>2, <1>7, <1>8

LEMMA WritesDistinct ==
    ASSUME Shape(live), NEW n \in Nat, count = n, Distinct(live, n),
           NEW event, NEW update, Writes(event, update)
    PROVE  Distinct(update, n + 1)
<1>1. CASE WritesBinding(event, update)
  BY <1>1, BoundFields, RenamedFields, SameDistinct DEF WritesBinding
<1>2. CASE WritesIntent(event, update)
  BY <1>2, WantedFields, SameDistinct DEF WritesIntent
<1>3. CASE WritesPane(event, update)
  BY <1>3, AllocatedFields, SameDistinct DEF WritesPane
<1>4. CASE WritesCleanup(event, update)
  <2>1. PICK f : update = [live EXCEPT !.cleaning = f]
    BY <1>4 DEF WritesCleanup
  <2>2. /\ update.ambiguous = live.ambiguous
        /\ update.submitted = live.submitted
    BY <2>1, CleaningFields
  <2>3. QED
    BY <2>2, SameDistinct
<1>5. CASE WritesParticipant(event, update)
  BY <1>5, ParticipantFields, SameDistinct DEF WritesParticipant
<1>6. QED
  BY <1>1, <1>2, <1>3, <1>4, <1>5, ReleaseDistinct, StartDistinct,
     OutcomeDistinct DEF Writes

LEMMA NumberInit ==
    ASSUME Init
    PROVE  NumberInv
<1>1. Logged = Blank /\ live = Blank /\ count = 0 /\ Len(dlog) = 0
  BY ReplayNone DEF Init, Logged
<1>2. Distinct(Blank, 0)
  BY DEF Distinct, Blank, Nothing
<1>3. QED
  BY <1>1, <1>2 DEF NumberInv

LEMMA NumberStep ==
    ASSUME "append_kept" \notin FaultKinds, Inv, SyncInv, NumberInv, Next
    PROVE  NumberInv'
<1>1. CASE Stepwise /\ Seated' /\ ~At("down")
  <2>1. /\ Distinct(Logged, Len(dlog)) /\ count = Len(dlog)
        /\ Distinct(live, Len(dlog))
        /\ Synced(live, Logged) /\ Whole(live)
    BY <1>1 DEF NumberInv, SyncInv
  <2>2. CASE UNCHANGED <<dlog, service>>
    BY <1>1, <2>1, <2>2 DEF NumberInv, service, Logged
  <2>3. ASSUME NEW event, NEW update, NEW then,
               AppendEvent(event, update, then), Writes(event, update)
        PROVE  NumberInv'
    <3> DEFINE r == Replayed(Logged, Line(event, count + 1))
    <3>1. Keeps(Logged, update, r)
      BY <1>1, <2>3, LiveBoth, WritesKeeps DEF Both, Safe
    <3>2. /\ Len(dlog) \in Nat
          /\ \/ /\ Len(dlog') = Len(dlog) + 1 /\ Logged' = r
                /\ count' = count + 1 /\ live' = update
             \/ UNCHANGED <<dlog, count, live>>
      BY <2>3, Grown
    <3> HIDE DEF r
    <3>3. CASE /\ Len(dlog') = Len(dlog) + 1 /\ Logged' = r
               /\ count' = count + 1 /\ live' = update
      <4>1. Distinct(update, Len(dlog) + 1)
        BY <1>1, <2>1, <2>3, <3>2, LiveBoth, WritesDistinct
      <4>2. Synced(update, r)
        BY <2>1, <3>1 DEF Keeps
      <4>3. Distinct(r, Len(dlog) + 1)
        BY <4>1, <4>2 DEF Synced, Distinct
      <4>4. QED
        BY <2>1, <3>3, <4>1, <4>3 DEF NumberInv
    <3>4. CASE UNCHANGED <<dlog, count, live>>
      BY <2>1, <3>4 DEF NumberInv, Logged
    <3>5. QED
      BY <3>2, <3>3, <3>4
  <2>4. QED
    BY <1>1, <2>2, <2>3 DEF Stepwise
<1>2. CASE PaneKilled
  BY <1>2 DEF PaneKilled, files, service, NumberInv, Logged, At
<1>3. CASE Load
  <2>1. /\ Logged' = Logged /\ dlog' = dlog /\ live' = Logged
        /\ count' = Len(dlog)
    BY <1>3 DEF Load, ReplayedCount, files, Logged
  <2>2. QED
    BY <2>1 DEF NumberInv
<1>4. CASE Leave
  <2>1. At("down")' /\ Logged' = Logged /\ dlog' = dlog /\ live' = Blank
    BY <1>4 DEF Leave, files, At, Down, Idle, Logged
  <2>2. Distinct(Blank, Len(dlog))
    BY DEF Distinct, Blank, Nothing
  <2>3. QED
    BY <2>1, <2>2 DEF NumberInv
<1>5. QED
  BY <1>1, <1>2, <1>3, <1>4, Steps, DownStarts

\* As long as no append fails with its line durable, the number an operator
\* names is that of one barrier.
THEOREM BarriersApart ==
    ASSUME "append_kept" \notin FaultKinds
    PROVE  Spec => []BarriersAreDistinct
<1>1. Init => NumberInv
  BY NumberInit
<1>2. Inv /\ SyncInv /\ NumberInv /\ [Next]_vars => NumberInv'
  <2>1. CASE Next
    BY <2>1, NumberStep
  <2>2. CASE UNCHANGED vars
    BY <2>2 DEF vars, NumberInv, Logged, At
  <2>3. QED
    BY <2>1, <2>2
<1>3. NumberInv => BarriersAreDistinct
  BY DEF NumberInv, Distinct, BarriersAreDistinct
<1>4. QED
  BY <1>1, <1>2, <1>3, Invariance, SyncInvariance, PTL DEF Spec

-----------------------------------------------------------------------------
(* The log leads to every pane.                                            *)

LEMMA SameFollows ==
    ASSUME NEW h, NEW l, Follows(h, l), NEW t, SamePanes(h, t),
           NEW u, SamePanes(l, u)
    PROVE  Follows(t, u) /\ Kept(u) = Kept(l)
BY DEF Follows, Kept, SamePanes

\* After an event the log still leads to every pane, and is where the service
\* is, whether it has heard of the event or not.
Leads(update, r) == /\ alive \subseteq Kept(r)
                    /\ Follows(live, r) /\ Follows(update, r)

Led(l) == /\ alive \subseteq Kept(l) /\ Follows(live, l)
          /\ Both(live, l, typed) /\ Whole(live)

LEMMA BindingLeads ==
    ASSUME OneBinding, NEW l, Led(l), NEW event, NEW update,
           WritesBinding(event, update), NEW r,
           r = Replayed(l, Line(event, count + 1))
    PROVE  Leads(update, r)
<1>1. PICK c \in Commands :
        /\ c # live.tmux /\ event = TmuxBound(c)
        /\ update = BoundTo(live, c) \/ update = [live EXCEPT !.tmux = c]
  BY DEF WritesBinding
<1>2. /\ r.tmux = c /\ r.panes = Nothing /\ r.allocating = l.allocating
      /\ r.generations = l.generations
  BY <1>1, ReplayedBound, BoundFields DEF Led, Both, Safe
<1>3. live.tmux = "none"
  BY <1>1 DEF OneBinding, Led, Whole
<1>4. DOMAIN l.panes = {} /\ DOMAIN live.panes = {} /\ DOMAIN Nothing = {}
  BY <1>3 DEF Led, Follows, Both, Safe, PanesKnown, Nothing
<1>5. /\ update.tmux = c /\ update.allocating = live.allocating
      /\ update.generations = live.generations
      /\ DOMAIN update.panes = {}
  BY <1>1, <1>4, BoundFields, RenamedFields DEF Led, Both, Safe
<1>6. alive \subseteq Kept(r)
  BY <1>2, <1>4 DEF Led, Kept
<1>7. Follows(live, r) /\ Follows(update, r)
  BY <1>2, <1>4, <1>5 DEF Led, Follows
<1>8. QED
  BY <1>6, <1>7 DEF Leads

LEMMA IntentLeads ==
    ASSUME NEW l, Led(l), NEW event, NEW update,
           WritesIntent(event, update), NEW r,
           r = Replayed(l, Line(event, count + 1))
    PROVE  Leads(update, r)
<1>1. PICK a \in Activations, c \in Commands :
        LET i == [gen |-> NextGeneration(a), command |-> c]
        IN  /\ a \notin Owned /\ a \notin DOMAIN live.allocating
            /\ event = [kind |-> "tmux_pane_allocation_intent", act |-> a,
                        intent |-> i]
            /\ update = Wanted(live, a, i)
  BY DEF WritesIntent
<1> DEFINE i == [gen |-> NextGeneration(a), command |-> c]
           f == With(l.allocating, a, i)
           g == With(live.allocating, a, i)
<1>2. /\ r.tmux = l.tmux /\ r.panes = l.panes
      /\ r.allocating = f /\ r.generations = l.generations
      /\ update.tmux = live.tmux /\ update.panes = live.panes
      /\ update.allocating = g /\ update.generations = live.generations
  BY <1>1, ReplayedIntent, WantedFields DEF Led, Both, Safe
<1>3. i.gen = IF a \in DOMAIN live.generations
              THEN live.generations[a] + 1 ELSE 0
  BY DEF NextGeneration
<1> HIDE DEF i
<1>4. /\ DOMAIN f = DOMAIN l.allocating \cup {a} /\ f[a] = i
      /\ \A b \in DOMAIN l.allocating \ {a} : f[b] = l.allocating[b]
      /\ DOMAIN g = DOMAIN live.allocating \cup {a} /\ g[a] = i
      /\ \A b \in DOMAIN live.allocating \ {a} : g[b] = live.allocating[b]
  BY DEF With
<1>5. a \notin DOMAIN live.panes /\ a \notin DOMAIN live.allocating
  BY <1>1 DEF Owned
<1>6. a \notin DOMAIN l.panes
  BY <1>5 DEF Led, Both, Agree
<1> HIDE DEF f, g
<1>7. a \in DOMAIN l.allocating => l.allocating[a].gen = i.gen
  BY <1>3, <1>5 DEF Led, Follows
<1>8. alive \subseteq Kept(r)
  BY <1>2, <1>4, <1>7 DEF Led, Kept
<1>9. Follows(live, r)
  BY <1>2, <1>3, <1>4, <1>5 DEF Led, Follows
<1>10. Follows(update, r)
  <2>1. update.tmux = "none" => DOMAIN r.panes = {}
    BY <1>2 DEF Led, Follows
  <2>2. \A b \in DOMAIN g :
           \/ b \in DOMAIN f /\ f[b].gen = g[b].gen
           \/ b \in DOMAIN r.panes /\ r.panes[b] = g[b].gen
    BY <1>2, <1>4 DEF Led, Follows
  <2>3. \A b \in DOMAIN f :
           f[b].gen = IF b \in DOMAIN g THEN g[b].gen
                      ELSE IF b \in DOMAIN live.generations
                           THEN live.generations[b] + 1 ELSE 0
    BY <1>4, <1>5 DEF Led, Follows
  <2>4. \A b \in DOMAIN l.panes :
           l.panes[b] = IF b \in DOMAIN live.panes THEN live.panes[b]
                        ELSE g[b].gen
    <3>1. ASSUME NEW b \in DOMAIN l.panes
          PROVE  /\ b # a
                 /\ b \notin DOMAIN live.panes => b \in DOMAIN live.allocating
      BY <1>6 DEF Led, Both, Agree
    <3>2. QED
      BY <1>4, <3>1 DEF Led, Follows
  <2>5. QED
    BY <1>2, <2>1, <2>2, <2>3, <2>4 DEF Follows
<1>11. QED
  BY <1>8, <1>9, <1>10 DEF Leads

LEMMA PaneLeads ==
    ASSUME NEW l, Led(l), NEW event, NEW update,
           WritesPane(event, update), NEW r,
           r = Replayed(l, Line(event, count + 1))
    PROVE  Leads(update, r)
<1>1. PICK a \in DOMAIN live.allocating :
        LET g == live.allocating[a].gen
        IN  /\ live.tmux # "none"
            /\ event = [kind |-> "tmux_pane_allocated", act |-> a, gen |-> g]
            /\ update = Allocated(live, a, g)
  BY DEF WritesPane
<1> DEFINE g == live.allocating[a].gen
           lp == With(l.panes, a, g)
           hp == With(live.panes, a, g)
           hg == With(live.generations, a, g)
           la == Without(l.allocating, a)
           ha == Without(live.allocating, a)
<1>2. live.tmux # "none" /\ l.tmux # "none"
  BY <1>1 DEF Led, Both, Agree
<1>3. /\ r.tmux = l.tmux /\ r.panes = lp /\ r.allocating = la
      /\ update.tmux = live.tmux /\ update.panes = hp
      /\ update.allocating = ha /\ update.generations = hg
  BY <1>1, <1>2, ReplayedAllocated, AllocatedFields DEF Led, Both, Safe
<1>4. a \notin DOMAIN live.panes
  BY DEF Led, Both, Safe, PanesKnown
<1> HIDE DEF g
<1>5. /\ DOMAIN lp = DOMAIN l.panes \cup {a} /\ lp[a] = g
      /\ \A b \in DOMAIN l.panes \ {a} : lp[b] = l.panes[b]
      /\ DOMAIN hp = DOMAIN live.panes \cup {a} /\ hp[a] = g
      /\ \A b \in DOMAIN live.panes \ {a} : hp[b] = live.panes[b]
      /\ DOMAIN hg = DOMAIN live.generations \cup {a}
      /\ \A b \in DOMAIN live.generations \ {a} : hg[b] = live.generations[b]
  BY DEF With
<1>6. /\ DOMAIN la = DOMAIN l.allocating \ {a}
      /\ \A b \in DOMAIN la : la[b] = l.allocating[b]
      /\ DOMAIN ha = DOMAIN live.allocating \ {a}
      /\ \A b \in DOMAIN ha : ha[b] = live.allocating[b]
  BY DEF Without
<1> HIDE DEF lp, hp, hg, la, ha
<1>7. /\ a \in DOMAIN l.panes => l.panes[a] = g
      /\ a \in DOMAIN l.allocating => l.allocating[a].gen = g
  BY <1>4 DEF Led, Follows, g
<1>8. alive \subseteq Kept(r)
  <2>1. ASSUME NEW p \in alive
        PROVE  p \in Kept(r)
    <3>1. p \in Kept(l)
      BY DEF Led
    <3>2. CASE \E b \in DOMAIN l.panes : p = <<b, l.panes[b]>>
      BY <1>3, <1>5, <1>7, <3>2 DEF Kept
    <3>3. CASE \E b \in DOMAIN l.allocating : p = <<b, l.allocating[b].gen>>
      BY <1>3, <1>5, <1>6, <1>7, <3>3 DEF Kept
    <3>4. QED
      BY <3>1, <3>2, <3>3 DEF Kept
  <2>2. QED
    BY <2>1
<1>9. Follows(live, r)
  BY <1>2, <1>3, <1>4, <1>5, <1>6 DEF Led, Follows, g
<1>10. Follows(update, r)
  <2>1. \A b \in DOMAIN ha :
           \/ b \in DOMAIN la /\ la[b].gen = ha[b].gen
           \/ b \in DOMAIN lp /\ lp[b] = ha[b].gen
    BY <1>5, <1>6 DEF Led, Follows
  <2>2. \A b \in DOMAIN la :
           la[b].gen = IF b \in DOMAIN ha THEN ha[b].gen
                       ELSE IF b \in DOMAIN hg THEN hg[b] + 1 ELSE 0
    BY <1>5, <1>6 DEF Led, Follows
  <2>3. \A b \in DOMAIN lp :
           lp[b] = IF b \in DOMAIN hp THEN hp[b] ELSE ha[b].gen
    <3>1. ASSUME NEW b \in DOMAIN lp, b # a
          PROVE  /\ b \in DOMAIN l.panes
                 /\ b \notin DOMAIN live.panes => b \in DOMAIN live.allocating
      BY <1>5, <3>1 DEF Led, Both, Agree
    <3>2. QED
      BY <1>5, <1>6, <3>1 DEF Led, Follows
  <2>4. QED
    BY <1>2, <1>3, <2>1, <2>2, <2>3 DEF Follows
<1>11. QED
  BY <1>8, <1>9, <1>10 DEF Leads

LEMMA ReleaseLeads ==
    ASSUME Seated, NEW l, Led(l), NEW event, NEW update,
           WritesRelease(event, update), NEW r,
           r = Replayed(l, Line(event, count + 1))
    PROVE  Leads(update, r)
<1>1. PICK a \in Owned :
        /\ At("release") /\ a = job.act
        /\ event = [kind |-> "tmux_panes_released", act |-> a,
                    barriers |-> ReleasedBarriers(a)]
        /\ update = GivenUp(live, a, ReleasedBarriers(a))
  BY DEF WritesRelease
<1> DEFINE b == ReleasedBarriers(a)
           lp == Without(l.panes, a)
           hp == Without(live.panes, a)
           la == Without(l.allocating, a)
<1>2. /\ live.tmux # "none" /\ l.tmux # "none"
      /\ a \in DOMAIN live.panes /\ a \notin DOMAIN live.allocating
      /\ a \notin DOMAIN l.allocating
  BY DEF Led, Both, Agree, Safe, PanesKnown, Owned
<1>3. /\ r.tmux = l.tmux /\ r.panes = lp /\ r.allocating = la
      /\ update.tmux = live.tmux /\ update.panes = hp
      /\ update.allocating = live.allocating
      /\ update.generations = live.generations
  <2>1. r = Released(l, a, b) /\ update = GivenUp(live, a, b)
    BY <1>1, <1>2, ReplayedReleased DEF ReleasedBy
  <2>2. Shape(l) /\ Shape(live)
    BY DEF Led, Both, Safe
  <2> HIDE DEF b
  <2>3. QED
    BY <2>1, <2>2, ReleasedFields, GivenUpFields
<1>4. /\ DOMAIN lp = DOMAIN l.panes \ {a}
      /\ \A c \in DOMAIN lp : lp[c] = l.panes[c]
      /\ DOMAIN hp = DOMAIN live.panes \ {a}
      /\ \A c \in DOMAIN hp : hp[c] = live.panes[c]
      /\ DOMAIN la = DOMAIN l.allocating \ {a}
      /\ \A c \in DOMAIN la : la[c] = l.allocating[c]
  BY DEF Without
<1> HIDE DEF lp, hp, la
<1>5. <<a, live.panes[a]>> \notin alive
  BY <1>1 DEF Seated, Pane
<1>6. a \in DOMAIN l.panes => l.panes[a] = live.panes[a]
  BY <1>2 DEF Led, Follows
<1>7. alive \subseteq Kept(r)
  <2>1. ASSUME NEW p \in alive
        PROVE  p \in Kept(r)
    <3>1. p \in Kept(l)
      BY DEF Led
    <3>2. CASE \E c \in DOMAIN l.panes : p = <<c, l.panes[c]>>
      BY <1>3, <1>4, <1>5, <1>6, <3>2 DEF Kept
    <3>3. CASE \E c \in DOMAIN l.allocating : p = <<c, l.allocating[c].gen>>
      BY <1>2, <1>3, <1>4, <3>3 DEF Kept
    <3>4. QED
      BY <3>1, <3>2, <3>3 DEF Kept
  <2>2. QED
    BY <2>1
<1>8. Follows(live, r)
  BY <1>2, <1>3, <1>4 DEF Led, Follows
<1>9. Follows(update, r)
  BY <1>2, <1>3, <1>4 DEF Led, Follows
<1>10. QED
  BY <1>7, <1>8, <1>9 DEF Leads

LEMMA SameLeads ==
    ASSUME NEW l, Led(l), NEW update, SamePanes(live, update), NEW r,
           SamePanes(l, r)
    PROVE  Leads(update, r)
<1>1. SamePanes(live, live)
  BY DEF SamePanes
<1>2. /\ Follows(live, r) /\ Follows(update, r) /\ Kept(r) = Kept(l)
  BY <1>1, SameFollows DEF Led
<1>3. QED
  BY <1>2 DEF Leads, Led

LEMMA RestLeads ==
    ASSUME NEW l, Led(l), NEW event, NEW update,
           \/ WritesCleanup(event, update) \/ WritesParticipant(event, update)
           \/ WritesStart(event, update) \/ WritesOutcome(event, update),
           NEW r, r = Replayed(l, Line(event, count + 1))
    PROVE  Leads(update, r)
<1>1. Shape(live) /\ Shape(l) /\ SamePanes(l, l)
  BY DEF Led, Both, Safe, SamePanes
<1>2. CASE WritesCleanup(event, update)
  <2>1. PICK f : update = [live EXCEPT !.cleaning = f]
    BY <1>2 DEF WritesCleanup
  <2>2. SamePanes(live, update)
    BY <1>1, <2>1, CleaningFields DEF SamePanes
  <2>3. SamePanes(l, r)
    BY <1>1, <1>2, ReplayedLike DEF WritesCleanup, Like, SamePanes
  <2>4. QED
    BY <2>2, <2>3, SameLeads
<1>3. CASE WritesParticipant(event, update)
  <2>1. SamePanes(live, update)
    BY <1>1, <1>3, ParticipantFields DEF WritesParticipant, SamePanes
  <2>2. SamePanes(l, r)
    BY <1>1, <1>3, ReplayedLike DEF WritesParticipant, Like, SamePanes
  <2>3. QED
    BY <2>1, <2>2, SameLeads
<1>4. CASE WritesStart(event, update)
  <2>1. PICK k : /\ event = [kind |-> "input_delivery_started", key |-> k]
                 /\ update = Barrier(live, k, count + 1)
    BY <1>4 DEF WritesStart
  <2>2. r = Barrier(l, k, count + 1)
    BY <2>1, ReplayedStarted
  <2>3. SamePanes(live, update) /\ SamePanes(l, r)
    BY <1>1, <2>1, <2>2, BarrierFields DEF SamePanes
  <2>4. QED
    BY <2>3, SameLeads
<1>5. CASE WritesOutcome(event, update)
  <2>1. PICK k \in DOMAIN live.ambiguous :
           \/ /\ update = SubmittedNow(live, k, live.ambiguous[k])
              /\ r \in {l, SubmittedNow(l, k, live.ambiguous[k])}
           \/ /\ update = RefusedNow(live, k)
              /\ r \in {l, RefusedNow(l, k)}
    BY <1>5, OutcomeReplayed
  <2>2. SamePanes(live, update) /\ SamePanes(l, r)
    BY <1>1, <2>1, OutcomeFields DEF SamePanes
  <2>3. QED
    BY <2>2, SameLeads
<1>6. QED
  BY <1>2, <1>3, <1>4, <1>5

LEMMA WritesLeads ==
    ASSUME OneBinding, Seated, NEW l, Led(l), NEW event, NEW update,
           Writes(event, update), NEW r,
           r = Replayed(l, Line(event, count + 1))
    PROVE  Leads(update, r)
BY BindingLeads, IntentLeads, PaneLeads, ReleaseLeads, RestLeads DEF Writes

\* What changes the panes that exist: one is killed, or the one that an intent
\* names is created.
LEMMA AliveSteps ==
    ASSUME Inv, Next
    PROVE  \/ alive' = alive
           \/ /\ UNCHANGED <<dlog, service>>
              /\ \/ alive' \subseteq alive
                 \/ \E a \in DOMAIN live.allocating :
                       /\ ~At("down")
                       /\ alive' = alive \cup {<<a, live.allocating[a].gen>>}
<1>1. CASE Cleaning
  <2>1. CASE KillPane
    BY <2>1 DEF KillPane, KillFailed, Killed, files
  <2>2. CASE ~KillPane
    BY <1>1, <2>2 DEF Cleaning, CleanupIntent, ReleasePane, CleanupReceipt,
                      Finalize, resting
  <2>3. QED
    BY <2>1, <2>2
<1>2. CASE Starting
  BY <1>2 DEF Starting, Load, LoadCleanups, Stale, LoadExits, Suspend, resting
<1>3. CASE Allocating
  <2>1. CASE CreatePane
    <3>1. job.act \in DOMAIN live.allocating /\ ~At("down")
      BY <2>1 DEF CreatePane, At, Inv, OnceInv, Allots
    <3>2. QED
      BY <2>1, <3>1 DEF CreatePane, FindPane, NewPane, Intended, Intent, files
  <2>2. CASE ~CreatePane
    BY <1>3, <2>2 DEF Allocating, BindFirst, Allocate, BindWindow, PublishPane
  <2>3. QED
    BY <2>1, <2>2
<1>4. CASE Actuating
  BY <1>4 DEF Actuating, Pick, Prepare, Launch, Prompt, PauseRun, resting
<1>5. CASE Delivering
  BY <1>5 DEF Delivering, StartDelivery, TypeInput, RecordInput, PublishInput,
              FinishDelivery
<1>6. CASE Requests
  BY <1>6 DEF Requests, BindRun, Request, Pause, Resume, ResumeRun, EndRun,
              Resolve, SendMessage, resting
<1>7. CASE Agents
  BY <1>7 DEF Agents, BindParticipant, ParticipantStop, ParticipantExited,
              FinalizeExited, resting
<1>8. CASE Shutdown \/ Exit \/ Crash
  BY <1>8 DEF Shutdown, Exit, Crash, Leave
<1>9. CASE PaneKilled
  BY <1>9 DEF PaneKilled, files
<1>10. QED
  BY <1>1, <1>2, <1>3, <1>4, <1>5, <1>6, <1>7, <1>8, <1>9 DEF Next

LEMMA OrphanInit ==
    ASSUME Init
    PROVE  OrphanInv
<1>1. Logged = Blank /\ live = Blank /\ alive = {}
  BY ReplayNone DEF Init, Logged
<1>2. Follows(Blank, Blank)
  BY DEF Follows, Blank, Nothing
<1>3. QED
  BY <1>1, <1>2 DEF OrphanInv

LEMMA OrphanStep ==
    ASSUME OneBinding, Inv, SyncInv, OrphanInv, Next
    PROVE  OrphanInv'
<1>1. CASE alive' # alive
  <2>1. UNCHANGED <<dlog, service>> /\ Logged' = Logged /\ live' = live
    BY <1>1, AliveSteps DEF Logged, service
  <2>2. alive' \subseteq Kept(Logged)
    <3>1. CASE alive' \subseteq alive
      BY <3>1 DEF OrphanInv
    <3>2. ASSUME NEW a \in DOMAIN live.allocating, ~At("down"),
                 alive' = alive \cup {<<a, live.allocating[a].gen>>}
          PROVE  alive' \subseteq Kept(Logged)
      <4>1. <<a, live.allocating[a].gen>> \in Kept(Logged)
        BY <3>2 DEF OrphanInv, Follows, Kept
      <4>2. QED
        BY <3>2, <4>1 DEF OrphanInv
    <3>3. QED
      BY <1>1, <3>1, <3>2, AliveSteps
  <2>3. At("down") => At("down")'
    <3>1. At("down") => PaneKilled
      BY <1>1, DownStarts DEF Load
    <3>2. QED
      BY <3>1 DEF PaneKilled, At
  <2>4. QED
    BY <2>1, <2>2, <2>3 DEF OrphanInv
<1>2. CASE alive' = alive /\ Stepwise /\ ~At("down")
  <2>1. alive \subseteq Kept(Logged) /\ Follows(live, Logged)
    BY <1>2 DEF OrphanInv
  <2>2. CASE UNCHANGED <<dlog, service>>
    BY <1>2, <2>1, <2>2 DEF OrphanInv, service, Logged
  <2>3. ASSUME NEW event, NEW update, NEW then,
               AppendEvent(event, update, then), Writes(event, update)
        PROVE  OrphanInv'
    <3> DEFINE r == Replayed(Logged, Line(event, count + 1))
    <3>1. Leads(update, r)
      <4>1. Led(Logged) /\ Seated
        BY <1>2, <2>1, LiveBoth DEF Led, SyncInv
      <4>2. QED
        BY <2>3, <4>1, WritesLeads
    <3>2. \/ Logged' = r /\ live' \in {live, update}
          \/ UNCHANGED <<dlog, count, live>>
      BY <2>3, Grown
    <3> HIDE DEF r
    <3>3. CASE Logged' = r /\ live' \in {live, update}
      BY <1>2, <3>1, <3>3 DEF OrphanInv, Leads
    <3>4. CASE UNCHANGED <<dlog, count, live>>
      BY <1>2, <2>1, <3>4 DEF OrphanInv, Logged
    <3>5. QED
      BY <3>2, <3>3, <3>4
  <2>4. QED
    BY <1>2, <2>2, <2>3 DEF Stepwise
<1>3. CASE alive' = alive /\ PaneKilled
  BY <1>3 DEF PaneKilled, files, service, OrphanInv, Logged, At
<1>4. CASE alive' = alive /\ Load
  <2>1. live' = Logged /\ Logged' = Logged
    BY <1>4 DEF Load, files, Logged
  <2>2. PanesKnown(Logged)
    BY DEF Inv, OnceInv, Stored, Both, Safe
  <2>3. Follows(Logged, Logged)
    BY <2>2 DEF Follows, PanesKnown
  <2>4. QED
    BY <1>4, <2>1, <2>3 DEF OrphanInv
<1>5. CASE alive' = alive /\ Leave
  <2>1. At("down")' /\ Logged' = Logged
    BY <1>5 DEF Leave, files, At, Down, Idle, Logged
  <2>2. QED
    BY <1>5, <2>1 DEF OrphanInv
<1>6. QED
  BY <1>1, <1>2, <1>3, <1>4, <1>5, Steps, DownStarts

\* With one binding the log always leads to every pane that exists, whatever
\* fails and wherever the driver dies.
THEOREM PanesAreKnown ==
    ASSUME OneBinding
    PROVE  Spec => []NoOrphanPanes
<1>1. Init => OrphanInv
  BY OrphanInit
<1>2. Inv /\ SyncInv /\ OrphanInv /\ [Next]_vars => OrphanInv'
  <2>1. CASE Next
    BY <2>1, OrphanStep
  <2>2. CASE UNCHANGED vars
    BY <2>2 DEF vars, OrphanInv, Logged, At
  <2>3. QED
    BY <2>1, <2>2
<1>3. OrphanInv => NoOrphanPanes
  BY DEF OrphanInv, Kept, Known, NoOrphanPanes, Logged
<1>4. QED
  BY <1>1, <1>2, <1>3, Invariance, SyncInvariance, PTL DEF Spec

-----------------------------------------------------------------------------
(* A restart gets going.                                                   *)

\* No append loses its line: one may report an error, but its line is durable.
LinesKept == "append_lost" \notin FaultKinds

\* A cleanup is that of the pane owned.
Apart(s) == \A a \in DOMAIN s.cleaning \cap DOMAIN s.panes :
                s.cleaning[a] = s.panes[a]

\* The same cleanups, where both have one.
Paired(s, t) == \A a \in DOMAIN s.cleaning \cap DOMAIN t.cleaning :
                    s.cleaning[a] = t.cleaning[a]

\* Where a cleanup may be left whose pane is gone.
Ending == {"exit", "kill", "release", "receipt", "cleanups"}

\* A cleanup is of a pane that is owned, is under way, or waits for its turn
\* in a driver that starts.
Owed(a) ==
    \/ a \in Owned
    \/ At("exit")
    \/ job.phase \in {"kill", "release", "receipt"} /\ a = job.act
    \/ At("cleanups") /\ a \in job.todo
    \/ /\ job.phase \in {"kill", "release", "receipt"}
       /\ job.back = "cleanups" /\ a \in job.todo

Owing == ~At("down") => \A a \in DOMAIN Logged.cleaning : Owed(a)

\* Between operations every cleanup is of a pane that is owned.
Settled == DOMAIN Logged.cleaning \subseteq Owned

\* A driver that starts holds what the log says: an append that fails ends it.
InStep == job.op = "load" /\ ~At("exit") => count = Len(dlog)

RestartInv == Apart(Logged) /\ Paired(live, Logged) /\ Owing /\ InStep

LEMMA SettledOwes ==
    ASSUME Settled'
    PROVE  Owing'
BY DEF Settled, Owing, Owed

LEMMA OwesSettled ==
    ASSUME Owing, ~At("down"), job.phase \notin Ending
    PROVE  Settled
BY DEF Settled, Owing, Owed, At, Ending

LEMMA LoadIsLogged ==
    ASSUME OneBinding, SyncInv, InStep, job.op = "load", ~At("exit"),
           ~At("down")
    PROVE  live = Logged
BY DEF SyncInv, InStep, Synced

\* An append that fails has its line in the log and ends the operation.
LEMMA AppendEnds ==
    ASSUME NEW event, NEW update, NEW then, AppendEvent(event, update, then)
    PROVE  \/ job' = then /\ live' = update
           \/ job' = Erred /\ live' = live /\ faults' = faults + 1
BY DEF AppendEvent, Fault

LEMMA AppendLogs ==
    ASSUME LinesKept, Inv, NEW event, NEW update, NEW then,
           AppendEvent(event, update, then)
    PROVE  /\ Logged' = Replayed(Logged, Line(event, count + 1))
           /\ Len(dlog) \in Nat /\ Len(dlog') = Len(dlog) + 1
           /\ \/ job' = then /\ live' = update /\ count' = count + 1
              \/ job' = Erred /\ live' = live
<1> DEFINE line == Line(event, count + 1)
<1>1. dlog' = Append(dlog, line)
      /\ \/ job' = then /\ live' = update /\ count' = count + 1
         \/ job' = Erred /\ live' = live
  BY DEF LinesKept, AppendEvent, Fault, Line
<1>2. Replayable(dlog)
  BY DEF Inv, OnceInv, Stored
<1>3. Replay(Append(dlog, line)) = Replayed(Logged, line)
  BY <1>2, ReplayAppend DEF Logged
<1>4. Len(dlog) \in Nat /\ Len(Append(dlog, line)) = Len(dlog) + 1
  <2>1. PICK S : dlog \in Seq(S)
    BY <1>2 DEF Replayable
  <2>2. QED
    BY <2>1
<1> HIDE DEF line
<1>5. Logged' = Replayed(Logged, line) /\ Len(dlog') = Len(dlog) + 1
  BY <1>1, <1>3, <1>4 DEF Logged
<1>6. QED
  BY <1>1, <1>4, <1>5 DEF line

\* A binding forgets no pane, since none is owned before a window is bound.
LEMMA BindingForgetsNone ==
    ASSUME OneBinding, Inv, SyncInv, ~At("down"), Follows(live, Logged),
           NEW event, NEW update, WritesBinding(event, update), NEW r,
           r = Replayed(Logged, Line(event, count + 1))
    PROVE  /\ Owned = {} /\ DOMAIN r.panes = {}
           /\ update.cleaning = live.cleaning
           /\ r.cleaning = Logged.cleaning
<1>1. PICK c \in Commands :
        /\ c # live.tmux /\ event = TmuxBound(c)
        /\ update = BoundTo(live, c) \/ update = [live EXCEPT !.tmux = c]
  BY DEF WritesBinding
<1>2. live.tmux = "none"
  BY <1>1 DEF OneBinding, SyncInv, Whole
<1>3. Shape(live) /\ PanesKnown(live) /\ Shape(Logged)
  BY LiveBoth DEF Both, Safe
<1>4. DOMAIN live.panes = {} /\ DOMAIN Nothing = {}
  BY <1>2, <1>3 DEF PanesKnown, Nothing
<1>5. r = BoundTo(Logged, c)
  BY <1>1, ReplayedBound
<1>6. QED
  BY <1>1, <1>3, <1>4, <1>5, BoundFields, RenamedFields DEF Owned

\* What does not change the panes and their cleanups, in service and log.
LEMMA PanesStay ==
    ASSUME Shape(live), NEW l, Shape(l), NEW event, NEW update,
           \/ WritesIntent(event, update) \/ WritesParticipant(event, update)
           \/ WritesStart(event, update) \/ WritesOutcome(event, update),
           NEW r, r = Replayed(l, Line(event, count + 1))
    PROVE  /\ update.panes = live.panes /\ update.cleaning = live.cleaning
           /\ r.panes = l.panes /\ r.cleaning = l.cleaning
<1>1. CASE WritesIntent(event, update)
  <2>1. PICK a, i :
          /\ event = [kind |-> "tmux_pane_allocation_intent", act |-> a,
                      intent |-> i]
          /\ update = Wanted(live, a, i)
    BY <1>1 DEF WritesIntent
  <2>2. r = Wanted(l, a, i)
    BY <2>1, ReplayedIntent
  <2>3. QED
    BY <2>1, <2>2, WantedFields
<1>2. CASE WritesParticipant(event, update)
  <2> DEFINE e == Line(event, count + 1)
  <2>1. PICK a, g :
          \/ /\ event = [kind |-> "participant_started", act |-> a, gen |-> g]
             /\ update = ParticipantStarted(live, <<a, g>>)
          \/ /\ event = [kind |-> "participant_bound", act |-> a, gen |-> g]
             /\ update = ParticipantBound(live, <<a, g>>)
    BY <1>2 DEF WritesParticipant
  <2>2. /\ e.act = a /\ e.gen = g
        /\ e.kind \in {"participant_started", "participant_bound"}
    BY <2>1 DEF Line
  <2> HIDE DEF e
  <2>3. r \in {ParticipantStarted(l, <<a, g>>), ParticipantBound(l, <<a, g>>)}
    BY <2>2 DEF Replayed, e
  <2>4. QED
    BY <2>1, <2>3, ParticipantFields
<1>3. CASE WritesStart(event, update)
  <2>1. PICK k : /\ event = [kind |-> "input_delivery_started", key |-> k]
                 /\ update = Barrier(live, k, count + 1)
    BY <1>3 DEF WritesStart
  <2>2. r = Barrier(l, k, count + 1)
    BY <2>1, ReplayedStarted
  <2>3. QED
    BY <2>1, <2>2, BarrierFields
<1>4. CASE WritesOutcome(event, update)
  <2>1. PICK k, n : /\ update \in {SubmittedNow(live, k, n),
                                   RefusedNow(live, k)}
                    /\ r \in {l, SubmittedNow(l, k, n), RefusedNow(l, k)}
    BY <1>4, OutcomeReplayed
  <2>2. QED
    BY <2>1, OutcomeFields
<1>5. QED
  BY <1>1, <1>2, <1>3, <1>4

\* A cleanup is announced in the log, and its receipt there is read if it is
\* of the same pane.
LEMMA CleanupLogged ==
    ASSUME Shape(live), NEW l, Shape(l), NEW event, NEW update,
           WritesCleanup(event, update), NEW r,
           r = Replayed(l, Line(event, count + 1))
    PROVE  /\ update.panes = live.panes /\ r.panes = l.panes
           /\ \/ \E a \in Owned :
                    /\ r.cleaning = With(l.cleaning, a, live.panes[a])
                    /\ update.cleaning
                          = With(live.cleaning, a, live.panes[a])
                    /\ At("intent") /\ a \notin DOMAIN live.cleaning
              \/ \E a \in DOMAIN live.cleaning :
                    /\ At("receipt") /\ a = job.act
                    /\ update.cleaning = Without(live.cleaning, a)
                    /\ \/ r.cleaning = Without(l.cleaning, a)
                       \/ /\ r.cleaning = l.cleaning
                          /\ a \in DOMAIN l.cleaning
                                => l.cleaning[a] # live.cleaning[a]
<1>1. PICK a, g :
        \/ /\ At("intent") /\ a \in Owned /\ g = live.panes[a]
           /\ a \notin DOMAIN live.cleaning
           /\ event = [kind |-> "tmux_pane_cleanup_intent", act |-> a,
                       gen |-> g]
           /\ update = [live EXCEPT !.cleaning = With(@, a, g)]
        \/ /\ At("receipt") /\ a \in DOMAIN live.cleaning /\ a = job.act
           /\ event = [kind |-> "tmux_pane_cleanup_receipt", act |-> a,
                       gen |-> g]
           /\ g = live.cleaning[a]
           /\ update = [live EXCEPT !.cleaning = Without(@, a)]
  BY DEF WritesCleanup
<1> DEFINE e == Line(event, count + 1)
<1>2. e.act = a /\ e.gen = g /\ e.kind = event.kind
  BY <1>1 DEF Line
<1>3. \/ event.kind = "tmux_pane_cleanup_intent"
         /\ update = [live EXCEPT !.cleaning = With(@, a, g)]
      \/ event.kind = "tmux_pane_cleanup_receipt"
         /\ update = [live EXCEPT !.cleaning = Without(@, a)]
  BY <1>1
<1> HIDE DEF e
<1>4. CASE event.kind = "tmux_pane_cleanup_intent"
  <2>1. r = [l EXCEPT !.cleaning = With(@, a, g)]
    BY <1>2, <1>4 DEF Replayed, e
  <2>2. /\ r.panes = l.panes /\ r.cleaning = With(l.cleaning, a, g)
        /\ update.panes = live.panes
        /\ update.cleaning = With(live.cleaning, a, g)
    BY <1>3, <1>4, <2>1, CleaningFields
  <2>3. At("intent") /\ a \in Owned /\ g = live.panes[a]
        /\ a \notin DOMAIN live.cleaning
    BY <1>1, <1>4
  <2>4. QED
    BY <2>2, <2>3
<1>5. CASE event.kind = "tmux_pane_cleanup_receipt"
  <2>1. r = Receipt(l, a, g)
    BY <1>2, <1>5 DEF Replayed, e
  <2>2. /\ update.panes = live.panes
        /\ update.cleaning = Without(live.cleaning, a)
    BY <1>3, <1>5, CleaningFields
  <2>3. \/ r.panes = l.panes /\ r.cleaning = Without(l.cleaning, a)
        \/ r = l /\ ~(a \in DOMAIN l.cleaning /\ l.cleaning[a] = g)
    <3>1. \/ r = [l EXCEPT !.cleaning = Without(@, a)]
          \/ r = l /\ ~(a \in DOMAIN l.cleaning /\ l.cleaning[a] = g)
      BY <2>1 DEF Receipt
    <3>2. CASE r = [l EXCEPT !.cleaning = Without(@, a)]
      BY <3>2, CleaningFields
    <3>3. QED
      BY <3>1, <3>2
  <2>4. /\ At("receipt") /\ a \in DOMAIN live.cleaning /\ a = job.act
        /\ g = live.cleaning[a]
    BY <1>1, <1>5
  <2>5. QED
    BY <2>2, <2>3, <2>4
<1>6. QED
  BY <1>3, <1>4, <1>5

\* After an event, in service and log, cleanups are those of the panes owned.
LEMMA WritesApart ==
    ASSUME OneBinding, Inv, SyncInv, ~At("down"), Follows(live, Logged),
           RestartInv, NEW event, NEW update, Writes(event, update), NEW r,
           r = Replayed(Logged, Line(event, count + 1))
    PROVE  Apart(r) /\ Paired(live, r) /\ Paired(update, r)
<1>1. /\ Shape(live) /\ PanesKnown(live) /\ Shape(Logged)
      /\ Apart(Logged) /\ Paired(live, Logged)
  BY LiveBoth DEF Both, Safe, RestartInv
<1>2. CASE WritesBinding(event, update)
  BY <1>1, <1>2, BindingForgetsNone DEF Apart, Paired
<1>3. CASE WritesPane(event, update)
  <2> DEFINE e == Line(event, count + 1)
  <2>1. PICK a, g :
          /\ a \in DOMAIN live.allocating /\ At("publish")
          /\ event = [kind |-> "tmux_pane_allocated", act |-> a, gen |-> g]
          /\ update = Allocated(live, a, g)
    BY <1>3 DEF WritesPane
  <2>2. a \notin Owned /\ Settled
    BY <1>1, <2>1, OwesSettled DEF PanesKnown, Owned, At, Ending, RestartInv
  <2>3. e.kind = "tmux_pane_allocated" /\ e.act = a /\ e.gen = g
    BY <2>1 DEF Line
  <2> HIDE DEF e
  <2>4. r \in {Logged, Allocated(Logged, a, g)}
    BY <2>3 DEF Replayed, e
  <2>5. /\ update.cleaning = live.cleaning
        /\ r.cleaning = Logged.cleaning
        /\ r.panes \in {Logged.panes, With(Logged.panes, a, g)}
    BY <1>1, <2>1, <2>4, AllocatedFields
  <2>6. QED
    BY <1>1, <2>2, <2>5 DEF Apart, Paired, Settled, Owned, With
<1>4. CASE WritesRelease(event, update)
  <2>1. PICK a \in Owned :
          /\ event = [kind |-> "tmux_panes_released", act |-> a,
                      barriers |-> ReleasedBarriers(a)]
          /\ update = GivenUp(live, a, ReleasedBarriers(a))
    BY <1>4 DEF WritesRelease
  <2> DEFINE b == ReleasedBarriers(a)
  <2>2. r = ReleasedBy(Logged, a, b) /\ update = GivenUp(live, a, b)
    BY <2>1, ReplayedReleased
  <2> HIDE DEF b
  <2>3. /\ update.cleaning = live.cleaning
        /\ r.cleaning = Logged.cleaning
        /\ r.panes \in {Logged.panes, Without(Logged.panes, a)}
    BY <1>1, <2>2, GivenUpFields, ReleasedFields DEF ReleasedBy
  <2>4. QED
    BY <1>1, <2>3 DEF Apart, Paired, Without
<1>5. CASE WritesCleanup(event, update)
  <2>1. update.panes = live.panes /\ r.panes = Logged.panes
    BY <1>1, <1>5, CleanupLogged
  <2>2. ASSUME NEW a \in Owned,
               r.cleaning = With(Logged.cleaning, a, live.panes[a]),
               update.cleaning = With(live.cleaning, a, live.panes[a]),
               a \notin DOMAIN live.cleaning
        PROVE  Apart(r) /\ Paired(live, r) /\ Paired(update, r)
    <3>1. a \in DOMAIN Logged.panes => Logged.panes[a] = live.panes[a]
      BY <2>2 DEF Follows, Owned
    <3>2. QED
      BY <1>1, <2>1, <2>2, <3>1 DEF Apart, Paired, With
  <2>3. ASSUME NEW a,
               \/ r.cleaning = Without(Logged.cleaning, a)
               \/ r.cleaning = Logged.cleaning,
               update.cleaning = Without(live.cleaning, a)
        PROVE  Apart(r) /\ Paired(live, r) /\ Paired(update, r)
    BY <1>1, <2>1, <2>3 DEF Apart, Paired, Without
  <2>4. QED
    BY <1>1, <1>5, <2>2, <2>3, CleanupLogged
<1>6. CASE \/ WritesIntent(event, update) \/ WritesParticipant(event, update)
           \/ WritesStart(event, update) \/ WritesOutcome(event, update)
  <2>1. /\ update.cleaning = live.cleaning
        /\ r.panes = Logged.panes /\ r.cleaning = Logged.cleaning
    BY <1>1, <1>6, PanesStay
  <2>2. QED
    BY <1>1, <2>1 DEF Apart, Paired
<1>7. QED
  BY <1>2, <1>3, <1>4, <1>5, <1>6 DEF Writes

\* Elsewhere than in a cleanup no event leaves one without its pane.
LEMMA WritesSettled ==
    ASSUME OneBinding, Inv, SyncInv, ~At("down"), Follows(live, Logged),
           Settled, ~At("release"), NEW event, NEW update,
           Writes(event, update), NEW r,
           r = Replayed(Logged, Line(event, count + 1))
    PROVE  DOMAIN r.cleaning
              \subseteq DOMAIN live.panes \cap DOMAIN update.panes
<1>1. Shape(live) /\ Shape(Logged)
  BY LiveBoth DEF Both, Safe
<1>2. CASE WritesBinding(event, update)
  BY <1>2, BindingForgetsNone DEF Settled
<1>3. CASE WritesPane(event, update)
  <2> DEFINE e == Line(event, count + 1)
  <2>1. PICK a, g :
          /\ event = [kind |-> "tmux_pane_allocated", act |-> a, gen |-> g]
          /\ update = Allocated(live, a, g)
    BY <1>3 DEF WritesPane
  <2>2. e.kind = "tmux_pane_allocated" /\ e.act = a /\ e.gen = g
    BY <2>1 DEF Line
  <2> HIDE DEF e
  <2>3. r \in {Logged, Allocated(Logged, a, g)}
    BY <2>2 DEF Replayed, e
  <2>4. /\ r.cleaning = Logged.cleaning
        /\ update.panes = With(live.panes, a, g)
    BY <1>1, <2>1, <2>3, AllocatedFields
  <2>5. QED
    BY <2>4 DEF Settled, Owned, With
<1>4. CASE WritesCleanup(event, update)
  <2>1. /\ update.panes = live.panes
        /\ \/ \E a \in Owned :
                 r.cleaning = With(Logged.cleaning, a, live.panes[a])
           \/ \E a : r.cleaning = Without(Logged.cleaning, a)
           \/ r.cleaning = Logged.cleaning
    BY <1>1, <1>4, CleanupLogged
  <2>2. QED
    BY <2>1 DEF Settled, Owned, With, Without
<1>5. CASE \/ WritesIntent(event, update) \/ WritesParticipant(event, update)
           \/ WritesStart(event, update) \/ WritesOutcome(event, update)
  <2>1. update.panes = live.panes /\ r.cleaning = Logged.cleaning
    BY <1>1, <1>5, PanesStay
  <2>2. QED
    BY <2>1 DEF Settled, Owned
<1>6. QED
  BY <1>2, <1>3, <1>4, <1>5 DEF Writes, WritesRelease

\* What can happen where cleanups end and where they are taken up.
LEMMA EndingSteps ==
    ASSUME Next, job.phase \in Ending
    PROVE  \/ KillPane \/ ReleasePane \/ CleanupReceipt \/ LoadCleanups
           \/ Leave \/ PaneKilled
<1>1. ~(CleanupIntent \/ Finalize)
  BY DEF CleanupIntent, Finalize, At, Ending
<1>2. ~(Load \/ Stale \/ LoadExits \/ Suspend)
  BY DEF Load, Stale, LoadExits, Suspend, At, Ending
<1>3. ~Allocating
  BY DEF Allocating, BindFirst, Allocate, CreatePane, BindWindow, PublishPane,
         At, Ending
<1>4. ~Actuating
  BY DEF Actuating, Pick, Prepare, Launch, Prompt, PauseRun, At, Ending
<1>5. ~Delivering
  BY DEF Delivering, StartDelivery, TypeInput, RecordInput, PublishInput,
         FinishDelivery, At, Ending
<1>6. ~Requests
  BY DEF Requests, BindRun, Request, Pause, Resume, ResumeRun, EndRun,
         Resolve, SendMessage, At, Ending
<1>7. ~Agents
  BY DEF Agents, BindParticipant, ParticipantStop, ParticipantExited,
         FinalizeExited, At, Ending
<1>8. ~Shutdown
  BY DEF Shutdown, At, Ending
<1>9. QED
  BY <1>1, <1>2, <1>3, <1>4, <1>5, <1>6, <1>7, <1>8
     DEF Next, Cleaning, Starting, Exit, Crash

\* An operation that fails in a cleanup: a start ends, any other leaves none
\* without its pane.
LEMMA ErredOwes ==
    ASSUME Inv, Owing, job.phase \in {"kill", "release", "receipt"},
           live' = live, job' = Erred,
           \A a \in DOMAIN Logged'.cleaning :
              a \in DOMAIN Logged.cleaning /\ (a = job.act => a \in Owned)
    PROVE  Owing'
<1>1. CASE job.op = "load"
  <2>1. job'.phase = "exit"
    BY <1>1 DEF Erred, Idle, ErrorPhase
  <2>2. QED
    BY <2>1 DEF Owing, Owed, At
<1>2. CASE job.op # "load"
  <2>1. job.back # "cleanups"
    BY <1>2 DEF Inv, OnceInv, Control, At, Cleanups
  <2>2. DOMAIN Logged'.cleaning \subseteq Owned
    BY <2>1 DEF Owing, Owed, At
  <2>3. Settled'
    BY <2>2 DEF Settled, Owned
  <2>4. QED
    BY <2>3, SettledOwes
<1>3. QED
  BY <1>1, <1>2

LEMMA EndingOwes ==
    ASSUME LinesKept, Inv, SyncInv, RestartInv,
           KillPane \/ ReleasePane \/ CleanupReceipt \/ LoadCleanups
    PROVE  Owing'
<1>1. Framed
  BY DEF Inv, OnceInv, Control
<1>2. ~At("down") /\ Shape(live) /\ Shape(Logged)
  BY LiveBoth
     DEF KillPane, ReleasePane, CleanupReceipt, LoadCleanups, At, Both, Safe
<1>3. Owing /\ \A a \in DOMAIN Logged.cleaning : Owed(a)
  BY <1>2 DEF RestartInv, Owing
<1>4. CASE KillPane
  <2>1. /\ At("kill") /\ live' = live /\ Owned' = Owned
        /\ Logged' = Logged
    BY <1>4 DEF KillPane, service, files, Owned, Logged
  <2>2. CASE Goto("receipt") \/ Goto("release")
    <3>1. \E p \in {"receipt", "release"} :
             Moves(p, job.todo, job.act, job.back)
      BY <1>1, <2>2, GotoMoves DEF Goto
    <3>2. QED
      BY <1>3, <2>1, <3>1 DEF Owing, Owed, Moves, At
  <2>3. CASE job.act \in Owned /\ job' = Erred
    BY <1>3, <2>1, <2>3, ErredOwes DEF At
  <2>4. QED
    BY <1>4, <2>2, <2>3 DEF KillPane, KillFailed
<1>5. CASE ReleasePane
  <2> DEFINE a == job.act
             barriers == ReleasedBarriers(a)
             event == [kind |-> "tmux_panes_released", act |-> a,
                       barriers |-> barriers]
             update == GivenUp(live, a, barriers)
             then == [job EXCEPT !.phase = "receipt"]
  <2>1. At("release") /\ AppendEvent(event, update, then) /\ a \in Owned
    BY <1>5 DEF ReleasePane, GivenUp, SyncInv, Seated
  <2>2. Replayed(Logged, Line(event, count + 1))
           = ReleasedBy(Logged, a, barriers)
    BY ReplayedReleased
  <2>3. job' = then => Moves("receipt", job.todo, job.act, job.back)
    BY <1>1, GotoMoves
  <2> HIDE DEF event, then, barriers
  <2>4. ReleasedBy(Logged, a, barriers).cleaning = Logged.cleaning
    BY <1>2, ReleasedFields DEF ReleasedBy
  <2>5. update.panes = Without(live.panes, a)
    <3> HIDE DEF a
    <3>1. QED
      BY <1>2, GivenUpFields
  <2> HIDE DEF update
  <2>6. /\ Logged'.cleaning = Logged.cleaning
        /\ \/ job' = then /\ live' = update
           \/ job' = Erred /\ live' = live
    BY <2>1, <2>2, <2>4, AppendLogs
  <2>7. CASE job' = then /\ live' = update
    BY <1>3, <2>1, <2>3, <2>5, <2>6, <2>7
       DEF Owing, Owed, Moves, At, Owned, Without
  <2>8. CASE job' = Erred /\ live' = live
    BY <1>3, <2>1, <2>6, <2>8, ErredOwes DEF At
  <2>9. QED
    BY <2>6, <2>7, <2>8
<1>6. CASE CleanupReceipt
  <2> DEFINE a == job.act
             g == live.cleaning[a]
             event == [kind |-> "tmux_pane_cleanup_receipt", act |-> a,
                       gen |-> g]
             update == [live EXCEPT !.cleaning = Without(@, a)]
             then == IF job.back = "idle" THEN Idle
                     ELSE [job EXCEPT !.phase = job.back, !.act = "none",
                                      !.back = "idle"]
             e == Line(event, count + 1)
  <2>1. /\ At("receipt") /\ AppendEvent(event, update, then)
        /\ a \in DOMAIN live.cleaning
    BY <1>6 DEF CleanupReceipt, SyncInv, Queued, At
  <2>2. job.back = "cleanups" /\ job' = then
           => job'.phase = "cleanups" /\ job'.todo = job.todo
    BY <1>1 DEF Framed
  <2>3. Replayed(Logged, e) = Receipt(Logged, a, g)
    <3>1. e.kind = "tmux_pane_cleanup_receipt" /\ e.act = a /\ e.gen = g
      BY DEF Line
    <3> HIDE DEF e
    <3>2. QED
      BY <3>1 DEF Replayed
  <2>4. a \in DOMAIN Logged.cleaning => Logged.cleaning[a] = g
    BY <2>1 DEF RestartInv, Paired
  <2>5. DOMAIN Receipt(Logged, a, g).cleaning = DOMAIN Logged.cleaning \ {a}
    BY <1>2, <2>4, CleaningFields DEF Receipt, Without
  <2>6. update.panes = live.panes
    BY <1>2, CleaningFields
  <2> HIDE DEF update, event, then, g
  <2>7. /\ DOMAIN Logged'.cleaning = DOMAIN Logged.cleaning \ {a}
        /\ \/ job' = then /\ live' = update
           \/ job' = Erred /\ live' = live
    BY <2>1, <2>3, <2>5, AppendLogs
  <2>8. CASE job' = then /\ live' = update
    BY <1>3, <2>1, <2>2, <2>6, <2>7, <2>8 DEF Owing, Owed, At, Owned
  <2>9. CASE job' = Erred /\ live' = live
    BY <1>3, <2>1, <2>7, <2>9, ErredOwes DEF At
  <2>10. QED
    BY <2>7, <2>8, <2>9
<1>7. CASE LoadCleanups
  <2>1. /\ At("cleanups") /\ live' = live /\ Owned' = Owned
        /\ Logged' = Logged
    BY <1>7 DEF LoadCleanups, resting, service, files, Owned, Logged
  <2>2. CASE \E a \in job.todo : CleanUp(a, "kill")
    <3>1. PICK a \in job.todo : CleanUp(a, "kill")
      BY <2>2
    <3>2. Moves("kill", job.todo \ {a}, a, "cleanups")
      BY <1>1, <2>1, <3>1, CleanUpMoves DEF At
    <3>3. QED
      BY <1>3, <2>1, <3>2 DEF Owing, Owed, Moves, At
  <2>3. CASE job.todo = {}
    <3>1. Settled
      BY <1>3, <2>1, <2>3 DEF Owed, At, Settled
    <3>2. QED
      BY <2>1, <3>1, SettledOwes DEF Settled
  <2>4. QED
    BY <1>7, <2>2, <2>3 DEF LoadCleanups
<1>8. QED
  BY <1>4, <1>5, <1>6, <1>7


LEMMA AppendJob ==
    ASSUME NEW event, NEW update, NEW then, AppendEvent(event, update, then)
    PROVE  job' \in {then, Erred}
BY DEF AppendEvent

\* What fails is not a start unless it was one.
LEMMA ErredStartsNone ==
    ASSUME job.op # "load", job' \in {Idle, Down, Erred}
    PROVE  job'.op # "load"
<1> DEFINE failed == [Idle EXCEPT !.op = job.op, !.phase = ErrorPhase[job.op],
                                  !.todo = IF job.op \in
                                                 {"finalize", "shutdown"}
                                           THEN job.todo ELSE {}]
<1>1. Idle.op = "none" /\ Down.op = "none" /\ failed.op = job.op
  BY DEF Idle, Down
<1>2. Erred \in {Idle, failed}
  BY DEF Erred
<1> HIDE DEF failed
<1>3. QED
  BY <1>1, <1>2

\* Nor does a cleanup, an actuation, a delivery or a request become one.
LEMMA OthersClean ==
    ASSUME Framed, job.op # "load", Cleaning
    PROVE  job'.op # "load"
<1>1. CASE CleanupIntent
  <2> DEFINE then == [job EXCEPT !.phase = "kill"]
  <2>1. job' \in {then, Erred}
    BY <1>1, AppendJob DEF CleanupIntent
  <2>2. then.op = job.op
    BY DEF Framed
  <2> HIDE DEF then
  <2>3. QED
    BY <2>1, <2>2, ErredStartsNone
<1>2. CASE KillPane
  <2>1. Goto("receipt") \/ Goto("release") \/ job' = Erred
    BY <1>2 DEF KillPane, KillFailed
  <2>2. \A p : [job EXCEPT !.phase = p].op = job.op
    BY DEF Framed
  <2>3. QED
    BY <2>1, <2>2, ErredStartsNone DEF Goto
<1>3. CASE ReleasePane
  <2> DEFINE then == [job EXCEPT !.phase = "receipt"]
  <2>1. job' \in {then, Erred}
    BY <1>3, AppendJob DEF ReleasePane
  <2>2. then.op = job.op
    BY DEF Framed
  <2> HIDE DEF then
  <2>3. QED
    BY <2>1, <2>2, ErredStartsNone
<1>4. CASE CleanupReceipt
  <2> DEFINE then == [job EXCEPT !.phase = job.back, !.act = "none",
                                 !.back = "idle"]
  <2>1. job' \in {Idle, then, Erred}
    BY <1>4, AppendJob DEF CleanupReceipt
  <2>2. then.op = job.op
    BY DEF Framed
  <2> HIDE DEF then
  <2>3. QED
    BY <2>1, <2>2, ErredStartsNone
<1>5. CASE Finalize
  <2>1. CASE \E a \in job.todo : CleanUp(a, "intent")
    BY <2>1, CleanUpMoves DEF Moves, Framed
  <2>2. CASE job' = [Idle EXCEPT !.op = "shutdown", !.phase = "exit"]
    BY <2>2 DEF Idle
  <2>3. QED
    BY <1>5, <2>1, <2>2, ErredStartsNone DEF Finalize
<1>6. QED
  BY <1>1, <1>2, <1>3, <1>4, <1>5 DEF Cleaning

LEMMA OthersActuate ==
    ASSUME Framed, job.op # "load", Actuating
    PROVE  job'.op # "load"
<1>1. CASE Pick
  <2>1. CASE \E t : job' = [job EXCEPT !.todo = t]
    BY <2>1 DEF Framed
  <2>2. CASE \E t : job' = [job EXCEPT !.todo = t, !.warned = TRUE]
    BY <2>2 DEF Framed
  <2>3. CASE \E a, t : job' = [job EXCEPT !.phase = "prepare", !.act = a,
                                          !.todo = t]
    BY <2>3 DEF Framed
  <2>4. CASE job' = [job EXCEPT !.phase = "pause"]
    BY <2>4 DEF Framed
  <2>5. \/ \E t : \/ job' = [job EXCEPT !.todo = t]
                  \/ job' = [job EXCEPT !.todo = t, !.warned = TRUE]
                  \/ \E a : job' = [job EXCEPT !.phase = "prepare", !.act = a,
                                               !.todo = t]
        \/ job' \in {[job EXCEPT !.phase = "pause"], Idle}
    BY <1>1 DEF Pick
  <2>6. QED
    BY <2>1, <2>2, <2>3, <2>4, <2>5, ErredStartsNone
<1>2. CASE Prepare
  <2> DEFINE then == [job EXCEPT !.phase = "launch", !.role = "launch"]
  <2>1. job' \in {then, Erred}
    BY <1>2, AppendJob DEF Prepare
  <2>2. then.op = job.op
    BY DEF Framed
  <2> HIDE DEF then
  <2>3. QED
    BY <2>1, <2>2, ErredStartsNone
<1>3. CASE Launch \/ Prompt
  <2>1. job' \in {ToPrompt, Recover, Picked, [job EXCEPT !.phase = "start"]}
    BY <1>3 DEF Launch, Prompt
  <2>2. ToPrompt.op = job.op /\ Recover.op = job.op /\ Picked.op = job.op
        /\ [job EXCEPT !.phase = "start"].op = job.op
    BY DEF Framed, ToPrompt, Recover, Picked, Warned
  <2>3. QED
    BY <2>1, <2>2
<1>4. CASE PauseRun
  <2>1. BindCleanup.op = "finalize"
    BY DEF BindCleanup, Idle
  <2>2. QED
    BY <1>4, <2>1, ErredStartsNone DEF PauseRun
<1>5. QED
  BY <1>1, <1>2, <1>3, <1>4 DEF Actuating

LEMMA OthersDeliver ==
    ASSUME Inv, Framed, job.op # "load", Delivering
    PROVE  job'.op # "load"
<1>1. \A p : [job EXCEPT !.phase = p].op = job.op
  BY DEF Framed
<1>2. Picked.op = job.op /\ ToPrompt.op = job.op /\ Warned.op = job.op
  BY DEF Framed, Picked, ToPrompt, Warned
<1>3. CASE StartDelivery
  <2> DEFINE then == [job EXCEPT !.phase = "type"]
  <2>1. job' \in {then, Erred}
    BY <1>3, AppendJob DEF StartDelivery
  <2>2. then.op = job.op
    BY <1>1
  <2> HIDE DEF then
  <2>3. QED
    BY <2>1, <2>2, ErredStartsNone
<1>4. CASE TypeInput \/ RecordInput \/ PublishInput
  <2>1. \/ \E p : job' = [job EXCEPT !.phase = p]
        \/ job' \in {Idle, Warned, Erred}
    BY <1>4 DEF TypeInput, RecordInput, PublishInput, Goto, InDoubt
  <2>2. QED
    BY <1>1, <1>2, <2>1, ErredStartsNone
<1>5. CASE FinishDelivery
  <2>1. job' \in {Over, Erred} /\ job.phase \in Deliveries
    BY <1>5, AppendJob DEF FinishDelivery, At, Deliveries
  <2>2. job.op = "message" \/ job.role \in {"launch", "prompt"}
    BY <2>1 DEF Inv, OnceInv, Actuates, Roles
  <2>3. Over \in {Idle, ToPrompt, Picked}
    BY <2>2 DEF Over
  <2>4. QED
    BY <1>2, <2>1, <2>3, ErredStartsNone
<1>6. QED
  BY <1>3, <1>4, <1>5 DEF Delivering

LEMMA ReconcileStartsNone ==
    ASSUME job.op # "load", NEW running, Reconcile(running)
    PROVE  job'.op # "load"
<1>1. CASE \E c : job' = [Idle EXCEPT !.op = "request", !.phase = "bind",
                                      !.command = c]
  BY <1>1 DEF Idle
<1>2. QED
  BY <1>1, ErredStartsNone DEF Reconcile

LEMMA RequestsStartNone ==
    ASSUME job.op # "load", Requests
    PROVE  job'.op # "load"
<1>1. CASE BindRun
  <2>1. PICK c \in Commands : job' = [Idle EXCEPT !.op = "bind",
                                                  !.phase = "bind",
                                                  !.command = c]
    BY <1>1 DEF BindRun
  <2>2. QED
    BY <2>1 DEF Idle
<1>2. CASE Request
  BY <1>2, ReconcileStartsNone DEF Request
<1>3. CASE Pause
  BY <1>3 DEF Pause
<1>4. CASE Resume
  <2>1. job' = [Idle EXCEPT !.op = "resolve", !.phase = "resume"]
    BY <1>4 DEF Resume
  <2>2. QED
    BY <2>1 DEF Idle
<1>5. CASE ResumeRun
  <2>1. job' = Idle \/ Reconcile(Running)
    BY <1>5 DEF ResumeRun
  <2>2. QED
    BY <2>1, ReconcileStartsNone, ErredStartsNone
<1>6. CASE EndRun
  <2>1. job' = [Idle EXCEPT !.op = "finalize", !.phase = "finalize",
                            !.todo = Owned]
    BY <1>6 DEF EndRun
  <2>2. QED
    BY <2>1 DEF Idle
<1>7. CASE \E k, o : Resolve(k, o)
  <2> DEFINE then == [Idle EXCEPT !.op = "resolve", !.phase = "resume"]
  <2>1. job' \in {then, Erred}
    BY <1>7, AppendJob DEF Resolve
  <2>2. then.op = "resolve"
    BY DEF Idle
  <2> HIDE DEF then
  <2>3. QED
    BY <2>1, <2>2, ErredStartsNone
<1>8. CASE \E a, m : SendMessage(a, m)
  <2>1. PICK a, m : job' = [Idle EXCEPT !.op = "message", !.phase = "start",
                                        !.act = a, !.role = m]
    BY <1>8 DEF SendMessage
  <2>2. QED
    BY <2>1 DEF Idle
<1>9. QED
  BY <1>1, <1>2, <1>3, <1>4, <1>5, <1>6, <1>7, <1>8 DEF Requests

LEMMA AgentsStartNone ==
    ASSUME job.op # "load", Agents
    PROVE  job'.op # "load"
<1>1. PICK a \in Activations :
        \/ BindParticipant(a) \/ ParticipantStop(a)
        \/ ParticipantExited(a) \/ FinalizeExited(a)
  BY DEF Agents
<1>2. CASE BindParticipant(a)
  <2> DEFINE then == [Idle EXCEPT !.op = "session", !.phase = "pick",
                                  !.todo = {a}]
  <2>1. job' \in {then, Idle, Erred}
    BY <1>2, AppendJob DEF BindParticipant
  <2>2. then.op = "session"
    BY DEF Idle
  <2> HIDE DEF then
  <2>3. QED
    BY <2>1, <2>2, ErredStartsNone
<1>3. CASE FinalizeExited(a)
  <2>1. job' = [Idle EXCEPT !.op = "exited", !.phase = "intent", !.act = a]
    BY <1>3 DEF FinalizeExited
  <2>2. QED
    BY <2>1 DEF Idle
<1>4. QED
  BY <1>1, <1>2, <1>3 DEF ParticipantStop, ParticipantExited

\* No operation but a start becomes one.
LEMMA OnlyLoadStarts ==
    ASSUME Inv, Next, ~Load, job'.op = "load"
    PROVE  job.op = "load"
<1> SUFFICES ASSUME job.op # "load"
             PROVE  FALSE
  OBVIOUS
<1>1. Framed /\ job.phase \notin {"cleanups", "exits", "suspend"}
  BY DEF Inv, OnceInv, Control
<1>2. CASE Starting \/ Allocating
  <2>1. job.op \in Reconciling
    BY <1>1, <1>2
       DEF Inv, OnceInv, Control, At, Reconciling, Allocations, Starting,
           LoadCleanups, Stale, LoadExits, Suspend, Allocating, BindFirst,
           Allocate, CreatePane, BindWindow, PublishPane
  <2>2. GoesOn
    BY <1>2, <2>1, StartingGoesOn, AllocatingGoesOn
  <2>3. QED
    BY <2>2, ErredStartsNone DEF GoesOn
<1>3. CASE Shutdown
  <2>1. \/ job' = [Idle EXCEPT !.op = "shutdown", !.phase = "exit"]
        \/ job' = [Idle EXCEPT !.op = "shutdown", !.phase = "finalize",
                               !.todo = Owned]
    BY <1>3 DEF Shutdown
  <2>2. CASE job' = [Idle EXCEPT !.op = "shutdown", !.phase = "exit"]
    BY <2>2 DEF Idle
  <2>3. CASE job' = [Idle EXCEPT !.op = "shutdown", !.phase = "finalize",
                                 !.todo = Owned]
    BY <2>3 DEF Idle
  <2>4. QED
    BY <2>1, <2>2, <2>3
<1>4. CASE Exit \/ Crash \/ PaneKilled
  BY <1>4, ErredStartsNone DEF Exit, Crash, Leave, PaneKilled
<1>5. QED
  BY <1>1, <1>2, <1>3, <1>4, OthersClean, OthersActuate,
     OthersDeliver, RequestsStartNone, AgentsStartNone DEF Next

LEMMA RestartInit ==
    ASSUME Init
    PROVE  RestartInv
<1>1. Logged = Blank /\ live = Blank
  BY ReplayNone DEF Init, Logged
<1>2. DOMAIN Blank.cleaning = {}
  BY DEF Blank, Nothing
<1>3. job.op # "load"
  BY DEF Init, Idle
<1>4. QED
  BY <1>1, <1>2, <1>3 DEF RestartInv, Apart, Paired, Owing, InStep

\* The log and the service after a step that writes an event or none.
LEMMA StepwiseWrites ==
    ASSUME LinesKept, Inv, Stepwise
    PROVE  \/ UNCHANGED <<dlog, service>>
           \/ \E event, update :
                /\ Writes(event, update)
                /\ Logged' = Replayed(Logged, Line(event, count + 1))
                /\ Len(dlog) \in Nat /\ Len(dlog') = Len(dlog) + 1
                /\ \/ live' = update /\ count' = count + 1
                   \/ job' = Erred /\ live' = live
BY AppendLogs DEF Stepwise

LEMMA InStepKept ==
    ASSUME LinesKept, Inv, RestartInv, Next, ~Load, ~Leave, ~PaneKilled,
           Stepwise
    PROVE  InStep'
<1> SUFFICES ASSUME job'.op = "load", job'.phase # "exit"
             PROVE  count' = Len(dlog')
  BY DEF InStep, At
<1>1. job.op = "load"
  BY OnlyLoadStarts
<1>2. ~At("exit")
  BY EndingSteps
     DEF At, Ending, KillPane, ReleasePane, CleanupReceipt, LoadCleanups
<1>3. count = Len(dlog)
  BY <1>1, <1>2 DEF RestartInv, InStep
<1>4. job' # Erred
  <2>1. ASSUME job' = Erred
        PROVE  job'.phase = "exit"
    BY <1>1, <2>1 DEF Erred, Idle, ErrorPhase
  <2>2. QED
    BY <2>1
<1>5. QED
  BY <1>3, <1>4, StepwiseWrites DEF service

LEMMA RestartStep ==
    ASSUME LinesKept, OneBinding, Inv, SyncInv, OrphanInv, RestartInv, Next
    PROVE  RestartInv'
<1>1. CASE Leave
  <2>1. live' = Blank /\ Logged' = Logged /\ job' = Down
    BY <1>1 DEF Leave, files, Logged
  <2>2. DOMAIN Blank.cleaning = {} /\ Down.phase = "down" /\ Down.op = "none"
    BY DEF Blank, Nothing, Down, Idle
  <2>3. QED
    BY <2>1, <2>2 DEF RestartInv, Paired, Owing, InStep, At
<1>2. CASE PaneKilled
  BY <1>2 DEF PaneKilled, RestartInv, Owing, Owed, InStep, At, Owned,
              service, files, Logged
<1>3. CASE Load
  <2>1. /\ live' = Logged /\ count' = Len(dlog)
        /\ dlog' = dlog /\ Logged' = Logged
    BY <1>3 DEF Load, files, Logged, ReplayedCount
  <2>2. job'.phase = "cleanups" /\ job'.todo = DOMAIN live'.cleaning
    BY <1>3 DEF Load, Idle
  <2>3. QED
    BY <2>1, <2>2 DEF RestartInv, Paired, Owing, Owed, InStep, At
<1>4. CASE ~At("down") /\ Stepwise /\ ~Load /\ ~Leave /\ ~PaneKilled
  <2>1. Follows(live, Logged)
    BY <1>4 DEF OrphanInv
  <2>2. InStep'
    BY <1>4, InStepKept
  <2>3. Apart(Logged)' /\ Paired(live, Logged)'
    <3>1. CASE UNCHANGED <<dlog, service>>
      BY <3>1 DEF RestartInv, service, Logged
    <3>2. CASE ~UNCHANGED <<dlog, service>>
      <4>1. PICK event, update :
              /\ Writes(event, update)
              /\ Logged' = Replayed(Logged, Line(event, count + 1))
              /\ live' \in {update, live}
        BY <1>4, <3>2, StepwiseWrites
      <4>2. QED
        BY <1>4, <2>1, <4>1, WritesApart
    <3>3. QED
      BY <3>1, <3>2
  <2>4. CASE job.phase \notin Ending
    <3>1. Settled /\ ~At("release")
      BY <1>4, <2>4, OwesSettled DEF RestartInv, At, Ending
    <3>2. Settled'
      <4>1. CASE UNCHANGED <<dlog, service>>
        BY <3>1, <4>1 DEF Settled, Owned, service, Logged
      <4>2. CASE ~UNCHANGED <<dlog, service>>
        <5>1. PICK event, update :
                /\ Writes(event, update)
                /\ Logged' = Replayed(Logged, Line(event, count + 1))
                /\ live' \in {update, live}
          BY <1>4, <4>2, StepwiseWrites
        <5>2. DOMAIN Logged'.cleaning
                 \subseteq DOMAIN live.panes \cap DOMAIN update.panes
          BY <1>4, <2>1, <3>1, <5>1, WritesSettled
        <5>3. QED
          BY <5>1, <5>2 DEF Settled, Owned
      <4>3. QED
        BY <4>1, <4>2
    <3>3. QED
      BY <2>2, <2>3, <3>2, SettledOwes DEF RestartInv
  <2>5. CASE job.phase \in Ending
    BY <1>4, <2>2, <2>3, <2>5, EndingSteps, EndingOwes DEF RestartInv
  <2>6. QED
    BY <2>4, <2>5
<1>5. QED
  BY <1>1, <1>2, <1>3, <1>4, Steps, DownStarts

\* What a step of a driver that starts leads to.
LEMMA LoadGoesOn ==
    ASSUME Inv, SyncInv, Apart(live), Next,
           job.op = "load", ~At("exit"), job'.phase = "exit"
    PROVE  faults' = faults + 1
<1>1. Framed /\ job.phase \in {"cleanups", "stale", "exits", "suspend"}
                                  \cup Cleanups
  BY DEF Inv, OnceInv, Control, At, Idle, Down, Reconciling, Cleanups,
         Allocations, Actuations, Deliveries
<1>2. job.phase \in Cleanups => job.back \in {"cleanups", "stale", "exits"}
  BY DEF Inv, OnceInv, Control
<1>3. \A p, b, t : /\ [job EXCEPT !.phase = p].phase = p
                   /\ [job EXCEPT !.phase = p, !.todo = t].phase = p
                   /\ [job EXCEPT !.phase = p, !.act = b,
                                  !.back = t].phase = p
  BY <1>1 DEF Framed
<1>4. CASE CleanupIntent
  <2>1. At("intent") /\ job.act \in Owned
    BY <1>4 DEF CleanupIntent, SyncInv, Queued
  <2> DEFINE then == [job EXCEPT !.phase = "kill"]
  <2>2. \/ job' = then
        \/ \E event, update : AppendEvent(event, update, then)
    BY <1>4, <2>1 DEF CleanupIntent, Apart, Owned
  <2>3. then.phase = "kill"
    BY <1>3
  <2> HIDE DEF then
  <2>4. QED
    BY <2>2, <2>3, AppendEnds
<1>5. CASE KillPane
  <2>1. job.act \in Owned => live.cleaning[job.act] = live.panes[job.act]
    BY <1>5 DEF KillPane, SyncInv, Queued, At, Apart, Owned
  <2>2. Goto("receipt") \/ Goto("release") \/ Fault("tmux")
    BY <1>5, <2>1 DEF KillPane
  <2>3. QED
    BY <1>3, <2>2 DEF Goto, Fault
<1>6. CASE ReleasePane
  <2> DEFINE then == [job EXCEPT !.phase = "receipt"]
  <2>1. \E event, update : AppendEvent(event, update, then)
    BY <1>6 DEF ReleasePane
  <2>2. then.phase = "receipt"
    BY <1>3
  <2> HIDE DEF then
  <2>3. QED
    BY <2>1, <2>2, AppendEnds
<1>7. CASE CleanupReceipt
  <2> DEFINE then == [job EXCEPT !.phase = job.back, !.act = "none",
                                 !.back = "idle"]
  <2>1. job.back \in {"cleanups", "stale", "exits"}
    BY <1>2, <1>7 DEF CleanupReceipt, At, Cleanups
  <2>2. \E event, update : AppendEvent(event, update, then)
    BY <1>7, <2>1 DEF CleanupReceipt
  <2>3. then.phase = job.back
    BY <1>3
  <2> HIDE DEF then
  <2>4. QED
    BY <2>1, <2>2, <2>3, AppendEnds
<1>8. CASE LoadCleanups \/ LoadExits
  <2>1. CASE \E a, p : p \in {"intent", "kill"} /\ CleanUp(a, p)
    <3>1. job'.phase \in {"intent", "kill"}
      BY <1>1, <2>1, CleanUpMoves DEF Moves
    <3>2. QED
      BY <3>1
  <2>2. CASE Goto("suspend")
    BY <1>3, <2>2 DEF Goto
  <2>3. CASE job' = [job EXCEPT !.phase = "stale", !.todo = Owned]
    BY <1>1, <2>3 DEF Framed
  <2>4. QED
    BY <1>8, <2>1, <2>2, <2>3 DEF LoadCleanups, LoadExits
<1>9. CASE Stale \/ Suspend
  <2>1. CASE \E a, t : job' = [job EXCEPT !.phase = "intent", !.act = a,
                                          !.back = "stale", !.todo = t]
    BY <1>1, <2>1 DEF Framed
  <2>2. CASE job' = [job EXCEPT !.phase = "exits", !.todo = Exits]
    BY <1>3, <2>2
  <2>3. CASE job' = Idle
    BY <2>3 DEF Idle
  <2>4. CASE \E kind : Fault(kind)
    BY <2>4 DEF Fault
  <2>5. QED
    BY <1>9, <2>1, <2>2, <2>3, <2>4 DEF Stale, Suspend
<1>10. CASE Exit \/ Crash
  BY <1>10 DEF Exit, Crash, Leave, Down, Idle
<1>11. CASE PaneKilled
  BY <1>11 DEF PaneKilled, At
<1>12. ~(Finalize \/ Load \/ Shutdown)
  BY <1>1 DEF Finalize, Load, Shutdown, At, Cleanups
<1>13. ~Allocating
  BY <1>1 DEF Allocating, BindFirst, Allocate, CreatePane, BindWindow,
              PublishPane, At, Cleanups
<1>14. ~Actuating
  BY <1>1 DEF Actuating, Pick, Prepare, Launch, Prompt, PauseRun, At, Cleanups
<1>15. ~Delivering
  BY <1>1 DEF Delivering, StartDelivery, TypeInput, RecordInput, PublishInput,
              FinishDelivery, At, Cleanups
<1>16. ~Requests
  BY <1>1 DEF Requests, BindRun, Request, Pause, Resume, ResumeRun, EndRun,
              Resolve, SendMessage, At, Cleanups
<1>17. ~Agents
  BY <1>1 DEF Agents, BindParticipant, ParticipantStop, ParticipantExited,
              FinalizeExited, At, Cleanups
<1>18. QED
  BY <1>4, <1>5, <1>6, <1>7, <1>8, <1>9, <1>10, <1>11, <1>12, <1>13, <1>14,
     <1>15, <1>16, <1>17 DEF Next, Cleaning, Starting

\* With one binding, and as long as no append loses its line, the state a
\* driver replays never stops it from starting: a start that fails has failed
\* to append, to reach tmux or to commit, whatever failed before and left its
\* line behind (load_for_serving, complete_tmux_pane_cleanup).
THEOREM RestartsSucceed ==
    ASSUME OneBinding, LinesKept
    PROVE  Spec => RestartSucceeds
<1>1. Init => OrphanInv /\ RestartInv
  BY OrphanInit, RestartInit
<1>2. Inv /\ SyncInv /\ OrphanInv /\ RestartInv /\ [Next]_vars
         => OrphanInv' /\ RestartInv'
  <2>1. CASE Next
    BY <2>1, OrphanStep, RestartStep
  <2>2. CASE UNCHANGED vars
    <3>1. UNCHANGED <<dlog, alive, live, count, job>> /\ Logged' = Logged
      BY <2>2 DEF vars, Logged
    <3>2. QED
      BY <3>1 DEF OrphanInv, RestartInv, Owing, Owed, InStep, At, Owned
  <2>3. QED
    BY <2>1, <2>2
<1>3. Inv /\ SyncInv /\ RestartInv /\ [Next]_vars
         => [job.op = "load" /\ ~At("exit") /\ job'.phase = "exit"
             => faults' > faults]_vars
  <2>1. SUFFICES ASSUME Inv, SyncInv, RestartInv, Next,
                        job.op = "load", ~At("exit"), job'.phase = "exit"
                 PROVE  faults' > faults
    OBVIOUS
  <2>2. ~At("down")
    BY <2>1 DEF Inv, OnceInv, Control, Down, Idle
  <2>3. Apart(live)
    BY <2>1, <2>2, LoadIsLogged DEF RestartInv
  <2>4. faults' = faults + 1
    BY <2>1, <2>3, LoadGoesOn
  <2>5. faults \in Nat
    BY <2>1 DEF Inv, OnceInv, Stored
  <2>6. QED
    BY <2>4, <2>5
<1>4. QED
  BY <1>1, <1>2, <1>3, Invariance, SyncInvariance, PTL
     DEF Spec, RestartSucceeds
=============================================================================
