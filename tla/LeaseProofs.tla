---------------------------- MODULE LeaseProofs ----------------------------
(***************************************************************************)
(* Proofs about the reconcile Lease: its types, what a takeover may do on  *)
(* every schedule, and mutual exclusion when passes renew in time, which   *)
(* makes the Lease an implementation of PassLock.                          *)
(***************************************************************************)
EXTENDS TimelyLease, TLAPS

(* NoLease is told apart from every Lease object by its fields.            *)
LEMMA NoLeaseIsNoObject == NoLease \notin LeaseObject
BY DEF NoLease, LeaseObject

-----------------------------------------------------------------------------
LEMMA TypeInit == Init => TypeOK
BY LeaseConstants DEF Init, TypeOK, Control

LEMMA ProcStepType ==
  ASSUME TypeOK, NEW p \in Proc, ProcStep(p)
  PROVE  TypeOK'
<1> USE LeaseConstants DEF TypeOK, Control
<1>1. BuildLease(p) \in LeaseObject
  BY DEF BuildLease, LeaseObject
<1>2. Clock(p) \in Nat
  BY DEF Clock
<1>3. CASE Step(p)
  <2>1. CASE StartPass(p)      BY <2>1 DEF StartPass, Goto
  <2>2. CASE StopTrying(p)     BY <2>2 DEF StopTrying, Goto
  <2>3. CASE TryAcquire(p)     BY <2>3, <1>2 DEF TryAcquire, Goto
  <2>4. CASE GetMissing(p)     BY <2>4 DEF GetMissing, Goto
  <2>5. CASE GetFresh(p)       BY <2>5 DEF GetFresh, Goto
  <2>6. CASE GetStale(p)       BY <2>6 DEF GetStale, Goto
  <2>7. CASE Create(p)         BY <2>7, <1>1 DEF Create, Goto, Store
  <2>8. CASE CreateConflict(p) BY <2>8 DEF CreateConflict, Goto
  <2>9. CASE Replace(p)        BY <2>9, <1>1 DEF Replace, Goto, Store
  <2>10. CASE ReplaceConflict(p)  BY <2>10 DEF ReplaceConflict, Goto
  <2>11. CASE AcquireFails(p)     BY <2>11 DEF AcquireFails, Goto
  <2>12. CASE AcquireReplyLost(p)
    BY <2>12, <1>1 DEF AcquireReplyLost, Goto, Store
  <2>13. CASE CheckDeadline(p) BY <2>13 DEF CheckDeadline, Goto
  <2>14. CASE Wake(p)          BY <2>14 DEF Wake, Goto
  <2>15. CASE StopWaiting(p)   BY <2>15 DEF StopWaiting, Goto
  <2>16. CASE RenewGet(p)      BY <2>16, <1>2 DEF RenewGet, Goto
  <2>17. CASE RenewReplace(p)  BY <2>17, <1>1 DEF RenewReplace, Goto, Store
  <2>18. CASE RenewFails(p)    BY <2>18 DEF RenewFails, Goto
  <2>19. CASE EndPass(p)       BY <2>19 DEF EndPass, Goto
  <2>20. CASE Release(p)       BY <2>20 DEF Release, Goto, Store
  <2>21. CASE ReleaseFails(p)  BY <2>21 DEF ReleaseFails, Goto
  <2>22. CASE Exit(p)          BY <2>22 DEF Exit, Goto
  <2> QED
    BY <1>3, <2>1, <2>2, <2>3, <2>4, <2>5, <2>6, <2>7, <2>8, <2>9, <2>10,
       <2>11, <2>12, <2>13, <2>14, <2>15, <2>16, <2>17, <2>18, <2>19, <2>20,
       <2>21, <2>22 DEF Step, Answered
<1>4. CASE Lifecycle(p)
  BY <1>4 DEF Lifecycle, Start, RequestStop, Crash, Goto
<1> QED BY <1>3, <1>4 DEF ProcStep

LEMMA TickType == TypeOK /\ Tick => TypeOK'
BY DEF TypeOK, Tick

LEMMA TypeStep == TypeOK /\ [Next]_vars => TypeOK'
<1>1. TypeOK /\ Next => TypeOK'
  BY ProcStepType, TickType DEF Next
<1>2. TypeOK /\ UNCHANGED vars => TypeOK'
  BY DEF TypeOK, vars
<1> QED BY <1>1, <1>2

(* On every schedule the variables of the Lease protocol keep their types: *)
(* in particular the stored object is absent or one that build_lease built.*)
THEOREM LeaseTypeOK == Spec => []TypeOK
BY TypeInit, TypeStep, PTL DEF Spec

-----------------------------------------------------------------------------
(* A lease judged stale stays stale on any later clock.                    *)
LEMMA StaleLater ==
  ASSUME NEW l \in LeaseObject, NEW s \in Nat, NEW t \in Nat,
         IsStale(l, s), s <= t
  PROVE  IsStale(l, t)
BY DEF IsStale, LeaseObject

LEMMA LeaseInvInit == Init => LeaseInv
BY TypeInit, LeaseConstants
   DEF Init, LeaseInv, StampsArePast, TakeoversJudged, RenewalsMine, Clock

LEMMA ProcStepLeaseInv ==
  ASSUME LeaseInv, NEW p \in Proc, ProcStep(p)
  PROVE  LeaseInv'
<1> USE LeaseConstants DEF LeaseInv
<1>1. TypeOK'
  BY ProcStepType
<1>2. StampsArePast'
  <2>1. now' = now /\ Clock(p) \in Nat
    BY DEF TypeOK, Clock, ProcStep, Lifecycle, Step, Answered, StartPass,
           StopTrying, TryAcquire, GetMissing, GetFresh, GetStale, Create,
           CreateConflict, Replace, ReplaceConflict, AcquireFails,
           AcquireReplyLost, CheckDeadline, Wake, StopWaiting, RenewGet,
           RenewReplace, RenewFails, EndPass, Release, ReleaseFails, Exit,
           Start, RequestStop, Crash
  <2>2. stamp' = stamp \/ stamp' = [stamp EXCEPT ![p] = Clock(p)]
    BY DEF ProcStep, Lifecycle, Step, Answered, StartPass,
           StopTrying, TryAcquire, GetMissing, GetFresh, GetStale, Create,
           CreateConflict, Replace, ReplaceConflict, AcquireFails,
           AcquireReplyLost, CheckDeadline, Wake, StopWaiting, RenewGet,
           RenewReplace, RenewFails, EndPass, Release, ReleaseFails, Exit,
           Start, RequestStop, Crash
  <2> QED BY <2>1, <2>2 DEF StampsArePast, Clock, TypeOK
<1>3. TakeoversJudged' /\ RenewalsMine'
  <2> USE DEF TypeOK, TakeoversJudged, RenewalsMine, Exists
  <2>1. CASE Step(p)
    <3>1. CASE StartPass(p)      BY <3>1 DEF StartPass, Goto
    <3>2. CASE StopTrying(p)     BY <3>2 DEF StopTrying, Goto
    <3>3. CASE TryAcquire(p)     BY <3>3 DEF TryAcquire, Goto
    <3>4. CASE GetMissing(p)     BY <3>4 DEF GetMissing, Goto
    <3>5. CASE GetFresh(p)       BY <3>5 DEF GetFresh, Goto
    <3>6. CASE GetStale(p)       BY <3>6 DEF GetStale, Goto
    <3>7. CASE Create(p)         BY <3>7 DEF Create, Store
    <3>8. CASE CreateConflict(p) BY <3>8 DEF CreateConflict, Goto
    <3>9. CASE Replace(p)        BY <3>9 DEF Replace, Store
    <3>10. CASE ReplaceConflict(p)  BY <3>10 DEF ReplaceConflict, Goto
    <3>11. CASE AcquireFails(p)     BY <3>11 DEF AcquireFails, Goto
    <3>12. CASE AcquireReplyLost(p) BY <3>12 DEF AcquireReplyLost, Store
    <3>13. CASE CheckDeadline(p) BY <3>13 DEF CheckDeadline, Goto
    <3>14. CASE Wake(p)          BY <3>14 DEF Wake, Goto
    <3>15. CASE StopWaiting(p)   BY <3>15 DEF StopWaiting, Goto
    <3>16. CASE RenewGet(p)      BY <3>16 DEF RenewGet, Goto
    <3>17. CASE RenewReplace(p)  BY <3>17 DEF RenewReplace, Store
    <3>18. CASE RenewFails(p)    BY <3>18 DEF RenewFails, Goto
    <3>19. CASE EndPass(p)       BY <3>19 DEF EndPass, Goto
    <3>20. CASE Release(p)       BY <3>20 DEF Release, Store
    <3>21. CASE ReleaseFails(p)  BY <3>21 DEF ReleaseFails, Goto
    <3>22. CASE Exit(p)          BY <3>22 DEF Exit, Goto
    <3> QED
      BY <2>1, <3>1, <3>2, <3>3, <3>4, <3>5, <3>6, <3>7, <3>8, <3>9, <3>10,
         <3>11, <3>12, <3>13, <3>14, <3>15, <3>16, <3>17, <3>18, <3>19,
         <3>20, <3>21, <3>22 DEF Step, Answered
  <2>2. CASE Lifecycle(p)
    BY <2>2 DEF Lifecycle, Start, RequestStop, Crash, Goto
  <2> QED BY <2>1, <2>2 DEF ProcStep
<1> QED BY <1>1, <1>2, <1>3

LEMMA TickLeaseInv == LeaseInv /\ Tick => LeaseInv'
BY TickType, LeaseConstants
   DEF LeaseInv, Tick, TypeOK, StampsArePast, TakeoversJudged, RenewalsMine,
       Exists, IsStale, Clock

LEMMA LeaseInvStep == LeaseInv /\ [Next]_vars => LeaseInv'
<1>1. LeaseInv /\ Next => LeaseInv'
  BY ProcStepLeaseInv, TickLeaseInv DEF Next
<1>2. LeaseInv /\ UNCHANGED vars => LeaseInv'
  BY DEF LeaseInv, TypeOK, StampsArePast, TakeoversJudged, RenewalsMine,
         Exists, IsStale, Clock, vars
<1> QED BY <1>1, <1>2

(* What lock.rs may rely on whenever it read the Lease before it writes: no *)
(* stamp lies in the future, a takeover in flight judged the very object    *)
(* whose version it will present, and a renewal in flight renews its own.   *)
THEOREM LeaseInvariant == Spec => []LeaseInv
BY LeaseInvInit, LeaseInvStep, PTL DEF Spec

(* A holder other than the stored one gets in by a replace with a current  *)
(* resourceVersion only, and that was judged.                              *)
LEMMA StoreTakesOnlyStale ==
  ASSUME LeaseInv, NEW p \in Proc, lease' = BuildLease(p),
         \/ ~Exists
         \/ current[p] /\ pc[p] = "replacing"
         \/ current[p] /\ pc[p] = "renewing"
  PROVE  TakesOnlyStale
<1> SUFFICES ASSUME Exists, NEW q \in Proc,
                    lease'.holder = q, lease.holder # q
             PROVE  IsStale(lease, Clock(q))
  BY DEF TakesOnlyStale
<1>1. q = p
  BY DEF BuildLease
<1>2. pc[p] = "replacing" /\ current[p]
  BY <1>1 DEF LeaseInv, RenewalsMine
<1>3. lease \in LeaseObject /\ stamp[p] \in Nat /\ Clock(p) \in Nat
  BY LeaseConstants DEF LeaseInv, TypeOK, Exists, Clock
<1>4. IsStale(lease, stamp[p]) /\ stamp[p] <= Clock(p)
  BY <1>2 DEF LeaseInv, TakeoversJudged, StampsArePast
<1> QED BY <1>1, <1>3, <1>4, StaleLater

LEMMA StepTakesOnlyStale ==
  LeaseInv /\ [Next]_vars => [TakesOnlyStale]_vars
<1> SUFFICES ASSUME LeaseInv, [Next]_vars PROVE [TakesOnlyStale]_vars
  OBVIOUS
<1>1. ASSUME lease' = lease PROVE TakesOnlyStale
  BY <1>1 DEF TakesOnlyStale
<1>2. ASSUME NEW p \in Proc, ProcStep(p) PROVE TakesOnlyStale
  <2>1. CASE Create(p) \/ Replace(p) \/ AcquireReplyLost(p) \/ RenewReplace(p)
    BY <2>1, StoreTakesOnlyStale
       DEF Create, Replace, AcquireReplyLost, RenewReplace, Store, Goto
  <2>2. CASE Release(p)
    BY <2>2 DEF Release, Store, TakesOnlyStale, Exists
  <2>3. CASE ~(\/ Create(p) \/ Replace(p) \/ AcquireReplyLost(p)
               \/ RenewReplace(p) \/ Release(p))
    BY <1>1, <1>2, <2>3
       DEF ProcStep, Lifecycle, Step, Answered, StartPass, StopTrying,
           TryAcquire, GetMissing, GetFresh, GetStale, CreateConflict,
           ReplaceConflict, AcquireFails, CheckDeadline, Wake, StopWaiting,
           RenewGet, RenewFails, EndPass, ReleaseFails, Exit, Start,
           RequestStop, Crash
  <2> QED BY <2>1, <2>2, <2>3
<1>3. Tick => TakesOnlyStale
  BY <1>1 DEF Tick
<1>4. Next => TakesOnlyStale
  BY <1>2, <1>3 DEF Next
<1> QED BY <1>4

(* lock.rs: a fresh lease is never stolen. Whatever the schedule, a lease  *)
(* that passes from one holder to another was stale for the taker.         *)
THEOREM LeaseStealOnlyStale == Spec => StealOnlyStale
BY LeaseInvariant, StepTakesOnlyStale, PTL DEF Spec, StealOnlyStale

-----------------------------------------------------------------------------
(* TimelySpec only takes fewer steps than Spec.                            *)
LEMMA TimelyStepIsStep == [TimelyNext]_vars => [Next]_vars
BY DEF TimelyNext, Next, TimelyTick

LEMMA TimelyLeaseInvStep == LeaseInv /\ [TimelyNext]_vars => LeaseInv'
BY LeaseInvStep, TimelyStepIsStep

LEMMA TimelyInit == Init => TimelyInv
BY LeaseInvInit
   DEF Init, TimelyInv, RequestsCovered, GuardsCovered, RenewalsAdvance,
       Requesting, Leased, InPass

(* Only one process can be covered by the lease.                           *)
LEMMA OneGuard ==
  ASSUME GuardsCovered, NEW p \in Proc, NEW q \in Proc, Leased(p), Leased(q)
  PROVE  p = q
BY DEF GuardsCovered

(* While a guard exists there is nothing to create, and no takeover judges *)
(* its lease stale.                                                        *)
LEMMA GuardsShutOut ==
  ASSUME TimelyInv, NEW p \in Proc, NEW r \in Proc, Leased(r),
         \/ ~Exists
         \/ pc[p] = "replacing" /\ current[p]
  PROVE  FALSE
<1>1. /\ Exists /\ lease.secs = Duration[r]
      /\ Covers(r, lease.renewed, now)
  BY DEF TimelyInv, GuardsCovered
<1>2. pc[p] = "replacing" /\ current[p]
  BY <1>1
<1>3. IsStale(lease, stamp[p]) /\ stamp[p] <= Clock(p)
  BY <1>2 DEF TimelyInv, LeaseInv, TakeoversJudged, StampsArePast
<1>4. now + Skew[p] < lease.renewed + Duration[r]
  BY <1>1 DEF Covers
<1>5. /\ lease \in LeaseObject /\ stamp[p] \in Nat /\ now \in Nat
      /\ Skew[p] \in Nat /\ Duration[r] \in Nat
  BY <1>1, LeaseConstants DEF TimelyInv, LeaseInv, TypeOK, Exists
<1> QED BY <1>1, <1>3, <1>4, <1>5 DEF IsStale, Clock, LeaseObject

LEMMA ProcStepTimelyInv ==
  ASSUME Punctual = Proc, TimelyInv, NEW p \in Proc, ProcStep(p)
  PROVE  TimelyInv'
<1> USE LeaseConstants DEF TimelyInv
<1>1. LeaseInv'
  BY ProcStepLeaseInv
<1>2. TypeOK /\ TypeOK'
  BY <1>1 DEF LeaseInv
<1>3. now' = now
  BY DEF ProcStep, Lifecycle, Step, Answered, StartPass,
         StopTrying, TryAcquire, GetMissing, GetFresh, GetStale, Create,
         CreateConflict, Replace, ReplaceConflict, AcquireFails,
         AcquireReplyLost, CheckDeadline, Wake, StopWaiting, RenewGet,
         RenewReplace, RenewFails, EndPass, Release, ReleaseFails, Exit,
         Start, RequestStop, Crash
<1>4. RequestsCovered'
  <2>1. CASE TryAcquire(p)
    <3>1. Covers(p, Clock(p), now)
      BY TimelyConstants, <1>2 DEF Covers, Clock, TypeOK
    <3> QED
      BY <1>2, <1>3, <2>1, <3>1
         DEF TryAcquire, Goto, RequestsCovered, Requesting, Covers, TypeOK
  <2>2. CASE ~TryAcquire(p)
    <3>1. /\ stamp' = stamp \/ pc'[p] = "renewing"
          /\ \A q \in Proc : Requesting(q)' => Requesting(q)
          /\ \A q \in Proc \ {p} : stamp'[q] = stamp[q]
      BY <1>2, <2>2
         DEF ProcStep, Lifecycle, Step, Answered, StartPass, StopTrying,
             GetMissing, GetFresh, GetStale, Create,
             CreateConflict, Replace, ReplaceConflict, AcquireFails,
             AcquireReplyLost, CheckDeadline, Wake, StopWaiting, RenewGet,
             RenewReplace, RenewFails, EndPass, Release, ReleaseFails, Exit,
             Start, RequestStop, Crash, Goto, Requesting, TypeOK
    <3> QED BY <1>3, <3>1 DEF RequestsCovered, Requesting, Covers
  <2> QED BY <2>1, <2>2
<1>5. GuardsCovered' /\ RenewalsAdvance'
  <2> USE <1>2, <1>3 DEF TypeOK
  <2>1. CASE Create(p) \/ Replace(p)
    <3>1. \A r \in Proc : ~Leased(r)
      BY <2>1, GuardsShutOut DEF Create, Replace, Goto
    <3>2. \A r \in Proc : Leased(r)' => r = p
      BY <2>1, <3>1 DEF Create, Replace, Goto, Leased, InPass
    <3>3. Covers(p, stamp[p], now) /\ stamp[p] <= Clock(p)
      BY <2>1 DEF Create, Replace, Goto, RequestsCovered, Requesting,
                  LeaseInv, StampsArePast
    <3>4. lease' = BuildLease(p) /\ pc'[p] = "pass"
      BY <2>1 DEF Create, Replace, Store, Goto
    <3>5. Exists'
      BY <3>4 DEF Exists, BuildLease, NoLease
    <3> QED
      BY <3>2, <3>3, <3>4, <3>5
         DEF GuardsCovered, RenewalsAdvance, BuildLease, Covers, Clock,
             Leased, InPass
  <2>2. CASE AcquireReplyLost(p)
    <3>1. \A r \in Proc : ~Leased(r)
      BY <2>2, GuardsShutOut DEF AcquireReplyLost, Goto
    <3>2. \A r \in Proc : ~Leased(r)'
      BY <2>2, <3>1 DEF AcquireReplyLost, Goto, Leased, InPass
    <3> QED
      BY <3>2 DEF GuardsCovered, RenewalsAdvance, Leased, InPass
  <2>3. CASE RenewGet(p)
    <3>1. \A r \in Proc : Leased(r)' <=> Leased(r)
      BY <2>3 DEF RenewGet, Goto, Leased, InPass
    <3>2. lease.renewed <= Clock(p)
      BY <2>3 DEF RenewGet, Goto, Leased, InPass, GuardsCovered
    <3> QED
      BY <2>3, <3>1, <3>2
         DEF RenewGet, Goto, GuardsCovered, RenewalsAdvance, Covers, Clock,
             Exists
  <2>4. CASE RenewReplace(p)
    <3>1. /\ Leased(p) /\ lease.renewed <= stamp[p]
          /\ \A r \in Proc : Leased(r) => r = p
      BY <2>4, OneGuard
         DEF RenewReplace, Goto, Leased, InPass, RenewalsAdvance
    <3>2. \A r \in Proc : Leased(r)' => r = p
      BY <2>4, <3>1 DEF RenewReplace, Goto, Leased, InPass
    <3>3. Exists /\ lease \in LeaseObject /\ Covers(p, lease.renewed, now)
      BY <3>1 DEF GuardsCovered, Exists
    <3>4. Covers(p, stamp[p], now) /\ stamp[p] <= Clock(p)
      BY <3>1, <3>3
         DEF Covers, LeaseObject, LeaseInv, StampsArePast
    <3>5. lease' = BuildLease(p) /\ pc'[p] = "pass"
      BY <2>4 DEF RenewReplace, Store, Goto
    <3>6. Exists'
      BY <3>5 DEF Exists, BuildLease, NoLease
    <3> QED
      BY <3>2, <3>4, <3>5, <3>6
         DEF GuardsCovered, RenewalsAdvance, BuildLease, Covers, Clock,
             Leased, InPass
  <2>5. CASE Release(p)
    <3>1. \A r \in Proc : Leased(r) => r = p
      BY <2>5, OneGuard DEF Release, Goto, Leased
    <3>2. \A r \in Proc : ~Leased(r)'
      BY <2>5, <3>1 DEF Release, Goto, Leased, InPass
    <3> QED BY <3>2 DEF GuardsCovered, RenewalsAdvance, Leased, InPass
  <2>6. CASE ~(\/ Create(p) \/ Replace(p) \/ AcquireReplyLost(p)
               \/ RenewGet(p) \/ RenewReplace(p) \/ Release(p))
    <3>1. /\ lease' = lease
          /\ \A r \in Proc : Leased(r)' => Leased(r)
          /\ \A r \in Proc : pc'[r] = "renewing" =>
               pc[r] = "renewing" /\ stamp'[r] = stamp[r]
      BY <2>6
         DEF ProcStep, Lifecycle, Step, Answered, StartPass, StopTrying,
             TryAcquire, GetMissing, GetFresh, GetStale, CreateConflict,
             ReplaceConflict, AcquireFails, CheckDeadline, Wake,
             StopWaiting, RenewFails, EndPass, ReleaseFails, Exit, Start,
             RequestStop, Crash, Goto, Leased, InPass
    <3> QED
      BY <3>1 DEF GuardsCovered, RenewalsAdvance, Covers, Clock, Exists
  <2> QED BY <2>1, <2>2, <2>3, <2>4, <2>5, <2>6
<1> QED BY <1>1, <1>4, <1>5

LEMMA TickTimelyInv ==
  ASSUME Punctual = Proc, TimelyInv, TimelyTick
  PROVE  TimelyInv'
<1>1. LeaseInv'
  BY TickLeaseInv DEF TimelyInv, TimelyTick
<1>2. RequestsCovered'
  BY DEF TimelyTick, Tick, RequestsCovered, Requesting, Covers
<1>3. GuardsCovered' /\ RenewalsAdvance'
  BY LeaseConstants
     DEF TimelyInv, LeaseInv, TypeOK, TimelyTick, Tick, GuardsCovered,
         RenewalsAdvance, Leased, InPass, Exists, Covers, Clock, LeaseObject
<1> QED BY <1>1, <1>2, <1>3 DEF TimelyInv

LEMMA TimelyInvStep ==
  ASSUME Punctual = Proc
  PROVE  TimelyInv /\ [TimelyNext]_vars => TimelyInv'
<1>1. TimelyInv /\ TimelyNext => TimelyInv'
  BY ProcStepTimelyInv, TickTimelyInv DEF TimelyNext
<1>2. TimelyInv /\ UNCHANGED vars => TimelyInv'
  BY DEF TimelyInv, LeaseInv, TypeOK, StampsArePast, TakeoversJudged,
         RenewalsMine, RequestsCovered, GuardsCovered, RenewalsAdvance,
         Requesting, Leased, InPass, Covers, Exists, IsStale, Clock, vars
<1> QED BY <1>1, <1>2

(* With the renewals of lock.rs in time, the stored Lease names the process *)
(* whose guard exists, and is not stale while that guard does.              *)
THEOREM TimelyInvariant ==
  ASSUME Punctual = Proc
  PROVE  TimelySpec => []TimelyInv
<1>1. TimelyInv /\ [TimelyNext]_vars => TimelyInv'
  BY TimelyInvStep
<1> QED BY <1>1, TimelyInit, PTL DEF TimelySpec

(* Under timely renewal passes exclude each other: two of them inside      *)
(* reconcile_inner would both be the holder of the one lease.              *)
THEOREM LeaseMutualExclusion ==
  ASSUME Punctual = Proc
  PROVE  TimelySpec => []MutualExclusion
<1>1. TimelyInv => MutualExclusion
  BY DEF TimelyInv, GuardsCovered, MutualExclusion, Leased
<1> QED BY <1>1, TimelyInvariant, PTL

-----------------------------------------------------------------------------
(* The Lease implements PassLock.                                          *)
LEMMA InitRefines == Init => PassLock!Init
BY DEF Init, PassLock!Init, Running, InPass

LEMMA StepRefines ==
  ASSUME Punctual = Proc, TimelyInv, [TimelyNext]_vars
  PROVE  [PassLock!Next]_Running
<1>1. ASSUME NEW p \in Proc, ProcStep(p) PROVE [PassLock!Next]_Running
  <2> USE DEF TimelyInv, LeaseInv, TypeOK
  <2>1. CASE Create(p) \/ Replace(p)
    <3>1. \A r \in Proc : ~Leased(r)
      BY <2>1, GuardsShutOut DEF Create, Replace, Goto
    <3>2. Running = {} /\ Running' = {p}
      BY <2>1, <3>1 DEF Create, Replace, Goto, Running, Leased, InPass
    <3> QED BY <3>2 DEF PassLock!Next, PassLock!Enter
  <2>2. CASE InPass(p) /\ (EndPass(p) \/ Crash(p))
    <3>1. Running = {p}
      BY <2>2, OneGuard DEF Running, Leased
    <3>2. Running' = {}
      BY <2>2, <3>1 DEF EndPass, Crash, Goto, Running, InPass
    <3> QED BY <3>1, <3>2 DEF PassLock!Next, PassLock!Leave
  <2>3. CASE ~(\/ Create(p) \/ Replace(p)
               \/ InPass(p) /\ (EndPass(p) \/ Crash(p)))
    <3>1. \A r \in Proc : InPass(r)' <=> InPass(r)
      BY <1>1, <2>3
         DEF ProcStep, Lifecycle, Step, Answered, StartPass,
             StopTrying, TryAcquire, GetMissing, GetFresh, GetStale,
             CreateConflict, ReplaceConflict, AcquireFails,
             AcquireReplyLost, CheckDeadline, Wake, StopWaiting, RenewGet,
             RenewReplace, RenewFails, EndPass, Release, ReleaseFails,
             Exit, Start, RequestStop, Crash, Goto, InPass
    <3> QED BY <3>1 DEF Running
  <2> QED BY <2>1, <2>2, <2>3
<1>2. CASE TimelyTick
  BY <1>2 DEF TimelyTick, Tick, Running, InPass
<1>3. CASE UNCHANGED vars
  BY <1>3 DEF vars, Running, InPass
<1> QED BY <1>1, <1>2, <1>3 DEF TimelyNext

(* The passes that run, seen from outside, behave as PassLock promises.    *)
THEOREM LeaseImplementsPassLock ==
  ASSUME Punctual = Proc
  PROVE  TimelySpec => ImplementsPassLock
<1>1. TimelyInv /\ [TimelyNext]_vars => [PassLock!Next]_Running
  BY StepRefines
<1> QED
  BY <1>1, InitRefines, TimelyInvariant, PTL
     DEF TimelySpec, ImplementsPassLock, PassLock!Spec
=============================================================================
