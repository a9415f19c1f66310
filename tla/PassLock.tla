------------------------------ MODULE PassLock ------------------------------
(***************************************************************************)
(* What lock.rs promises its callers: reconcile passes exclude each other. *)
(* A pass is running from the moment acquire hands out its guard until it  *)
(* starts to release it, or its process dies.                              *)
(***************************************************************************)
CONSTANT Proc

VARIABLE running    \* the processes inside a pass

Init == running = {}

Enter(p) == running = {} /\ running' = {p}

Leave(p) == running = {p} /\ running' = {}

Next == \E p \in Proc : Enter(p) \/ Leave(p)

Spec == Init /\ [][Next]_running
=============================================================================
