------------------------------- MODULE Mirror -------------------------------
(***************************************************************************)
(* What the watch-backed stores of watch.rs promise their readers: of each *)
(* kind, a view of the cluster as it was at one moment, never a mixture of *)
(* two, and never an earlier moment than the one shown before. A view that *)
(* is not ready, of a kind no driver has listed yet, shows nothing.        *)
(***************************************************************************)
EXTENDS Integers, Sequences

CONSTANTS Kind,
          State,               \* what the cluster can hold
          View(_, _),          \* View(g, s): what of s a reader sees of g
          Blank(_)             \* Blank(g): what it sees before any listing

VARIABLES log,     \* the states the cluster went through
          mark,    \* mark[g]: which of them the view of g shows, 0 for none
          view     \* view[g]

Shown(g, l, m) == IF m = 0 THEN Blank(g) ELSE View(g, l[m])

Init ==
  /\ log \in {<<s>> : s \in State}
  /\ mark = [g \in Kind |-> 0]
  /\ view = [g \in Kind |-> Shown(g, log, mark[g])]

Evolve == \E s \in State :
  /\ log' = Append(log, s)
  /\ UNCHANGED <<mark, view>>

(* A view catches up, or starts afresh with a new driver.                  *)
Refresh(g) == \E m \in 0..Len(log) :
  /\ m = 0 \/ m > mark[g]
  /\ mark' = [mark EXCEPT ![g] = m]
  /\ view' = [view EXCEPT ![g] = Shown(g, log, m)]
  /\ UNCHANGED log

Next == Evolve \/ \E g \in Kind : Refresh(g)

Spec == Init /\ [][Next]_<<log, mark, view>>
=============================================================================
