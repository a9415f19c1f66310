---------------------------- MODULE TimelyLease ----------------------------
(***************************************************************************)
(* When the Lease does serialize passes. Nothing in the code stops a pass  *)
(* whose lease has expired, so mutual exclusion rests on an assumption     *)
(* about time: every pass of a process in Punctual reaches its next        *)
(* touch_lease, or its release, before its term is over on any clock.      *)
(* TimelySpec is the Lease under that assumption.                          *)
(***************************************************************************)
EXTENDS Lease

CONSTANT Punctual    \* the processes that renew in time

(* A duration outlasts the difference of any two clocks.                   *)
ASSUME TimelyConstants ==
  /\ Punctual \subseteq Proc
  /\ \A p, q \in Proc : Skew[q] < Skew[p] + Duration[p]

InPass(p) == pc[p] \in {"pass", "renewing"}

(* p has a term to lose: its guard exists, or its request for one is sent. *)
Leased(p) == InPass(p) \/ pc[p] = "releasing"

Requesting(p) == pc[p] \in {"getting", "creating", "replacing"}

(* At time t no clock has reached the end of a term of p begun at start.   *)
Covers(p, start, t) == \A q \in Proc : t + Skew[q] < start + Duration[p]

TimelyTick ==
  /\ \A p \in Punctual :
       /\ Leased(p) /\ Exists /\ lease.holder = p
            => Covers(p, lease.renewed, now + 1)
       /\ Requesting(p) => Covers(p, stamp[p], now + 1)
  /\ Tick

TimelyNext == TimelyTick \/ \E p \in Proc : ProcStep(p)

TimelySpec == Init /\ [][TimelyNext]_vars

(* lock.rs: "never two passes at once". Passes of punctual processes do    *)
(* not overlap.                                                            *)
MutualExclusion ==
  \A p, q \in Punctual : InPass(p) /\ InPass(q) => p = q

-----------------------------------------------------------------------------
(* What the lock promises: the passes that run are at most one at a time.  *)
Running == {p \in Proc : InPass(p)}

PassLock == INSTANCE PassLock WITH running <- Running

ImplementsPassLock == PassLock!Spec

-----------------------------------------------------------------------------
(* The inductive invariant of TimelySpec when every process is punctual: it *)
(* adds to LeaseInv what timeliness keeps true.                            *)

(* A sent request still has its whole effect ahead of its term's end.      *)
RequestsCovered ==
  \A p \in Proc : Requesting(p) => Covers(p, stamp[p], now)

(* A guard is never without its lease, and the lease is in its term.       *)
GuardsCovered ==
  \A p \in Proc : Leased(p) =>
    /\ Exists
    /\ lease.holder = p
    /\ lease.secs = Duration[p]
    /\ lease.renewed <= Clock(p)
    /\ Covers(p, lease.renewed, now)

(* A renewal in flight moves renewTime forward.                            *)
RenewalsAdvance ==
  \A p \in Proc : pc[p] = "renewing" => lease.renewed <= stamp[p]

TimelyInv ==
  /\ LeaseInv
  /\ RequestsCovered
  /\ GuardsCovered
  /\ RenewalsAdvance
=============================================================================
