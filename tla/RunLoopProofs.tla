---------------------------- MODULE RunLoopProofs ----------------------------
(***************************************************************************)
(* Theorems about RunLoop, for any intervals, width of the factor and      *)
(* number of failures: the delays of the back-off.                         *)
(***************************************************************************)
EXTENDS RunLoop, TLAPS

(* The provers know nothing of powers but that they are integers; of those *)
(* of two the theorem is told that the factors of the back-off fit.        *)
PowersFit == \A e \in 0..(Width - 1) : 0 < 2 ^ e /\ 2 ^ e < 2 ^ Width

LEMMA ExponentRange ==
  ASSUME NEW n \in Nat, n > 0
  PROVE  Exponent(n) \in 0..(Width - 1)
BY LoopConstants DEF Exponent, AtMost

LEMMA RemainderOfLess ==
  ASSUME NEW a \in Nat, NEW b \in Nat, a < b PROVE a % b = a
OBVIOUS

(* The factor loses no bit, and the delay is what it is to be.             *)
LEMMA BackoffExact ==
  ASSUME PowersFit, NEW n \in Nat, n > 0
  PROVE  /\ BackoffDelay(n) = AtMost(Base * 2 ^ AtMost(n - 1, Width - 1), Cap)
         /\ BackoffDelay(n) \in Int /\ BackoffDelay(n) <= Cap
<1> DEFINE factor == 2 ^ Exponent(n)
           whole == 2 ^ Width
<1>1. 0 < factor /\ factor < whole
  BY ExponentRange DEF PowersFit
<1>2. factor \in Nat /\ whole \in Nat
  <2>1. 2 ^ Exponent(n) \in Int /\ 2 ^ Width \in Int
    BY ExponentRange, LoopConstants
  <2> QED BY <1>1, <2>1
<1>3. factor % whole = factor
  BY <1>1, <1>2, RemainderOfLess
<1>4. BackoffDelay(n) = AtMost(Base * factor, Cap)
  BY <1>3 DEF BackoffDelay
<1>5. Base * factor \in Int
  BY <1>2, LoopConstants
<1>6. AtMost(Base * factor, Cap) \in Int /\ AtMost(Base * factor, Cap) <= Cap
  BY <1>5, LoopConstants DEF AtMost
<1> QED BY <1>4, <1>6 DEF Exponent

Bounded(d, n) ==
  n > 0 => /\ d <= Cap
           /\ 4 * d >= 3 * AtMost(Base * 2 ^ AtMost(n - 1, Width - 1), Cap)

LEMMA JitterBounded ==
  ASSUME PowersFit, NEW n \in Nat, n > 0, NEW d \in Jittered(NextDelay(n))
  PROVE  d \in Nat /\ Bounded(d, n)
<1>1. NextDelay(n) = BackoffDelay(n)
  BY DEF NextDelay
<1>2. d \in 0..BackoffDelay(n) /\ 4 * d >= 3 * BackoffDelay(n)
  BY <1>1 DEF Jittered
<1>3. d \in Nat /\ d <= BackoffDelay(n)
  BY <1>2, BackoffExact
<1>4. AtMost(Base * 2 ^ AtMost(n - 1, Width - 1), Cap) = BackoffDelay(n)
  BY BackoffExact
<1>5. d <= Cap
  BY <1>3, BackoffExact, LoopConstants
<1> QED BY <1>2, <1>3, <1>4, <1>5 DEF Bounded

LEMMA LoopInit == Init => LoopInv
<1> SUFFICES ASSUME Init
             PROVE  LoopInv
  OBVIOUS
<1>1. failures \in 0..MaxFailures /\ delay \in Nat /\ slept \in Nat
  BY LoopConstants DEF Init
<1>2. LoopTypeOK
  BY <1>1 DEF Init, LoopTypeOK
<1> QED BY <1>2 DEF Init, LoopInv

LEMMA RebuildStep == PowersFit /\ LoopInv /\ Rebuild => LoopInv'
<1> SUFFICES ASSUME PowersFit, LoopInv, Rebuild
             PROVE  LoopInv'
  OBVIOUS
<1>1. failures \in Nat /\ failures' = failures
  BY LoopConstants DEF LoopInv, LoopTypeOK, Rebuild
<1>2. delay' \in Nat /\ Bounded(delay', failures)
  <2>1. CASE failures > 0
    <3>1. delay' \in Jittered(NextDelay(failures))
      BY <2>1 DEF Rebuild
    <3> QED BY <1>1, <2>1, <3>1, JitterBounded
  <2>2. CASE failures = 0
    <3>1. delay' = Poll
      BY <2>2 DEF Rebuild, NextDelay
    <3> QED BY <2>2, <3>1, LoopConstants DEF Bounded
  <2> QED BY <1>1, <2>1, <2>2
<1>3. driver' \in {"none", "relist", "watch"} /\ touched' \in BOOLEAN
  BY DEF Rebuild, LoopInv, LoopTypeOK
<1>4. LoopTypeOK'
  BY <1>2, <1>3 DEF Rebuild, LoopInv, LoopTypeOK
<1> QED BY <1>1, <1>2, <1>4 DEF LoopInv, Bounded

(* The steps before and after a wait.                                      *)
LEMMA PassTypes == LoopInv /\ (PassSucceeds \/ PassFails) => LoopInv'
<1> SUFFICES ASSUME LoopInv, PassSucceeds \/ PassFails
             PROVE  LoopInv'
  OBVIOUS
<1>1. failures' \in 0..MaxFailures
  BY LoopConstants DEF LoopInv, LoopTypeOK, PassSucceeds, PassFails, AtMost
<1>2. touched' \in BOOLEAN /\ left' \in BOOLEAN /\ declared' \in BOOLEAN
  BY DEF LoopInv, LoopTypeOK, PassSucceeds, PassFails, Touches
<1> QED BY <1>1, <1>2 DEF LoopInv, LoopTypeOK, PassSucceeds, PassFails

LEMMA LoopMoves ==
  LoopInv /\ (BeginPass \/ Finish \/ TimerElapses \/ Notified \/ WatchStop \/ Debounced)
    => LoopInv'
BY DEF LoopInv, LoopTypeOK, BeginPass, Finish, TimerElapses, Notified, WatchStop,
   Debounced, Leave, cluster

(* The steps that leave the delay of a wait alone.                         *)
LEMMA WaitsOn ==
  LoopInv /\ (Tick \/ RequestStop \/ Relist \/ Deliver \/ Expire \/ Edit \/ UNCHANGED vars)
    => LoopInv'
<1> SUFFICES ASSUME LoopInv,
                    Tick \/ RequestStop \/ Relist \/ Deliver \/ Expire \/ Edit
                      \/ UNCHANGED vars
             PROVE  LoopInv'
  OBVIOUS
<1>1. UNCHANGED <<pc, failures, delay>>
  BY DEF Tick, RequestStop, Relist, Deliver, Expire, Edit, vars, loop
<1>2. LoopTypeOK'
  <2>1. slept' \in Nat
    BY DEF LoopInv, LoopTypeOK, Tick, RequestStop, Relist, Deliver, Expire, Edit, vars, loop
  <2>2. driver' \in {"none", "relist", "watch"}
    BY DEF LoopInv, LoopTypeOK, Tick, RequestStop, Relist, Deliver, Expire, Edit, Hears,
       vars, cluster
  <2>3. permit' \in BOOLEAN
    BY DEF LoopInv, LoopTypeOK, Tick, RequestStop, Relist, Deliver, Expire, Edit, Hears,
       Poked, vars
  <2>4. stop' \in BOOLEAN /\ declared' \in BOOLEAN /\ left' \in BOOLEAN
    BY DEF LoopInv, LoopTypeOK, Tick, RequestStop, Relist, Deliver, Expire, Edit, vars,
       cluster
  <2>5. touched' \in BOOLEAN /\ unwoken' \in BOOLEAN
    BY DEF LoopInv, LoopTypeOK, Tick, RequestStop, Relist, Deliver, Expire, Edit, vars,
       cluster
  <2> QED BY <1>1, <2>1, <2>2, <2>3, <2>4, <2>5 DEF LoopInv, LoopTypeOK
<1> QED BY <1>1, <1>2 DEF LoopInv

(* backoff_delay and jittered: however often passes fail, however wide the *)
(* factor and wherever the count saturates, the delay doubles, never passes*)
(* backoff_max and never wraps to less than three quarters of what it is to*)
(* be.                                                                     *)
THEOREM LoopBackoff ==
  ASSUME PowersFit
  PROVE  Spec => []LoopInv
<1>1. LoopInv /\ [Next]_vars => LoopInv'
  BY RebuildStep, PassTypes, LoopMoves, WaitsOn DEF Next
<1> QED BY <1>1, LoopInit, PTL DEF Spec
=============================================================================
