------------------------------- MODULE Lease -------------------------------
(***************************************************************************)
(* The reconcile Lease of lock.rs: how `controller` and `sync` processes   *)
(* acquire, renew and release the coordination.k8s.io Lease that is meant  *)
(* to let one reconcile pass run at a time.                                *)
(*                                                                         *)
(* Every await of the code that other processes can interleave with is a   *)
(* control point of pc; the API server executes each request atomically.   *)
(* A call that fails may have been executed (the reply is lost) or not.    *)
(***************************************************************************)
EXTENDS Integers

CONSTANTS
  Proc,         \* processes; one is one holderIdentity ("<pod>:<pid>")
  Controllers,  \* the processes running `controller`; the others run `sync`
  Duration,     \* Duration[p]: lock_lease_duration of p, in ticks
  Skew,         \* Skew[p]: how far p's clock is ahead of the global one
  WaitTimeout,  \* lock_wait_timeout, in ticks
  MaxClock      \* bound on the global clock

ASSUME LeaseConstants ==
  /\ Controllers \subseteq Proc
  /\ Duration \in [Proc -> Nat]
  /\ Skew \in [Proc -> Nat]
  /\ WaitTimeout \in Nat
  /\ MaxClock \in Nat

NoLease == [holder |-> "none"]

(* A Lease object: holderIdentity, leaseDurationSeconds and renewTime.     *)
LeaseObject == [holder : Proc, secs : Nat, renewed : Nat]

VARIABLES
  now,       \* the global clock
  lease,     \* the Lease object stored by the API server, or NoLease
  current,   \* current[p]: the resourceVersion p read is still the stored one
  pc,        \* where each process is
  stamp,     \* stamp[p]: the Timestamp::now() p last took for a lease body
  deadline,  \* deadline[p]: when p stops waiting for a busy lease
  stop       \* stop[p]: the cooperative shutdown flag

vars == <<now, lease, current, pc, stamp, deadline, stop>>

(* down: no process       idle: between passes    trying: head of acquire  *)
(* getting, creating, replacing: calls of try_acquire in flight            *)
(* busy: the attempt found a fresh lease           waiting: inter-try sleep*)
(* pass: reconcile_inner   renewing: replace of renew in flight            *)
(* releasing: the delete of release in flight                              *)
Control == {"down", "idle", "trying", "getting", "creating", "replacing",
            "busy", "waiting", "pass", "renewing", "releasing"}

TypeOK ==
  /\ now \in Nat
  /\ lease \in LeaseObject \cup {NoLease}
  /\ current \in [Proc -> BOOLEAN]
  /\ pc \in [Proc -> Control]
  /\ stamp \in [Proc -> Nat]
  /\ deadline \in [Proc -> Nat]
  /\ stop \in [Proc -> BOOLEAN]

Init ==
  /\ now = 0
  /\ lease = NoLease
  /\ current = [p \in Proc |-> FALSE]
  /\ pc = [p \in Proc |-> "down"]
  /\ stamp = [p \in Proc |-> 0]
  /\ deadline = [p \in Proc |-> 0]
  /\ stop = [p \in Proc |-> FALSE]

-----------------------------------------------------------------------------
Clock(p) == now + Skew[p]

Exists == lease # NoLease

(* X_Y is a faulty variant of X, of the kind the properties exclude.       *)
IsStale_TickEarly(l, t) == l.secs > 0 /\ t - l.renewed >= l.secs - 1

(* A lease without a positive duration is never stale, nor is one whose    *)
(* renewTime lies in the future of the observer.                           *)
IsStale(l, t) == l.secs > 0 /\ t - l.renewed >= l.secs

(* The body p writes: built from the timestamp p took before the call.     *)
BuildLease(p) == [holder |-> p, secs |-> Duration[p], renewed |-> stamp[p]]

Goto(p, from, to) == pc[p] = from /\ pc' = [pc EXCEPT ![p] = to]

(* Any write or delete changes the stored resourceVersion, so no process   *)
(* carries the current one any more.                                       *)
Store(l) ==
  /\ lease' = l
  /\ current' = [p \in Proc |-> FALSE]

-----------------------------------------------------------------------------
(* Faulty variants: a loop that starts passes in spite of a shutdown, a    *)
(* takeover without regard to age, one without the resourceVersion it read,*)
(* and writes without their precondition.                                  *)
StartPass_IgnoresStop(p) ==
  /\ Goto(p, "idle", "trying")
  /\ deadline' = [deadline EXCEPT ![p] = now + WaitTimeout]
  /\ UNCHANGED <<now, lease, current, stamp, stop>>

GetStale_AnyAge(p) ==
  /\ Exists
  /\ Goto(p, "getting", "replacing")
  /\ current' = [current EXCEPT ![p] = TRUE]
  /\ UNCHANGED <<now, lease, stamp, deadline, stop>>

GetStale_NoVersion(p) ==
  /\ Exists /\ IsStale(lease, stamp[p])
  /\ Goto(p, "getting", "replacing")
  /\ UNCHANGED <<now, lease, current, stamp, deadline, stop>>

Create_Upserts(p) ==
  /\ Goto(p, "creating", "pass")
  /\ Store(BuildLease(p))
  /\ UNCHANGED <<now, stamp, deadline, stop>>

Replace_Unconditional(p) ==
  /\ Goto(p, "replacing", "pass")
  /\ Store(BuildLease(p))
  /\ UNCHANGED <<now, stamp, deadline, stop>>

-----------------------------------------------------------------------------
(* A pass begins unless the loop head sees a shutdown: acquire computes    *)
(* its deadline.                                                           *)
StartPass(p) ==
  /\ ~stop[p]
  /\ Goto(p, "idle", "trying")
  /\ deadline' = [deadline EXCEPT ![p] = now + WaitTimeout]
  /\ UNCHANGED <<now, lease, current, stamp, stop>>

(* The head of the acquire loop gives up on shutdown, otherwise an attempt *)
(* stamps its time before it looks at the lease.                           *)
StopTrying(p) ==
  /\ stop[p]
  /\ Goto(p, "trying", "idle")
  /\ UNCHANGED <<now, lease, current, stamp, deadline, stop>>

TryAcquire(p) ==
  /\ ~stop[p]
  /\ Goto(p, "trying", "getting")
  /\ stamp' = [stamp EXCEPT ![p] = Clock(p)]
  /\ UNCHANGED <<now, lease, current, deadline, stop>>

GetMissing(p) ==
  /\ ~Exists
  /\ Goto(p, "getting", "creating")
  /\ UNCHANGED <<now, lease, current, stamp, deadline, stop>>

GetFresh(p) ==
  /\ Exists /\ ~IsStale(lease, stamp[p])
  /\ Goto(p, "getting", "busy")
  /\ UNCHANGED <<now, lease, current, stamp, deadline, stop>>

GetStale(p) ==
  /\ Exists /\ IsStale(lease, stamp[p])
  /\ Goto(p, "getting", "replacing")
  /\ current' = [current EXCEPT ![p] = TRUE]
  /\ UNCHANGED <<now, lease, stamp, deadline, stop>>

Create(p) ==
  /\ ~Exists
  /\ Goto(p, "creating", "pass")
  /\ Store(BuildLease(p))
  /\ UNCHANGED <<now, stamp, deadline, stop>>

CreateConflict(p) ==
  /\ Exists
  /\ Goto(p, "creating", "busy")
  /\ UNCHANGED <<now, lease, current, stamp, deadline, stop>>

Replace(p) ==
  /\ current[p]
  /\ Goto(p, "replacing", "pass")
  /\ Store(BuildLease(p))
  /\ UNCHANGED <<now, stamp, deadline, stop>>

(* 409 means busy; a replace of a lease deleted meanwhile may also answer  *)
(* 404, which acquire returns as an error of the pass.                     *)
ReplaceConflict(p) ==
  /\ ~current[p]
  /\ \/ Goto(p, "replacing", "busy")
     \/ ~Exists /\ Goto(p, "replacing", "idle")
  /\ UNCHANGED <<now, lease, current, stamp, deadline, stop>>

(* Any other API error of an attempt ends the pass. A create or replace    *)
(* whose reply is lost has stored a lease nobody guards.                   *)
AcquireFails(p) ==
  /\ \E from \in {"getting", "creating", "replacing"} : Goto(p, from, "idle")
  /\ UNCHANGED <<now, lease, current, stamp, deadline, stop>>

AcquireReplyLost(p) ==
  /\ \/ ~Exists /\ Goto(p, "creating", "idle")
     \/ current[p] /\ Goto(p, "replacing", "idle")
  /\ Store(BuildLease(p))
  /\ UNCHANGED <<now, stamp, deadline, stop>>

(* After a busy attempt: past the deadline the pass is skipped, else sleep.*)
CheckDeadline(p) ==
  /\ Goto(p, "busy", IF now >= deadline[p] THEN "idle" ELSE "waiting")
  /\ UNCHANGED <<now, lease, current, stamp, deadline, stop>>

Wake(p) ==
  /\ Goto(p, "waiting", "trying")
  /\ UNCHANGED <<now, lease, current, stamp, deadline, stop>>

StopWaiting(p) ==
  /\ stop[p]
  /\ Goto(p, "waiting", "idle")
  /\ UNCHANGED <<now, lease, current, stamp, deadline, stop>>

-----------------------------------------------------------------------------
(* renew, called by touch_lease: the lease is read, and only if it still   *)
(* names p is a new stamp taken and the replace sent. A lost lease (the    *)
(* get answers 404 or another holder) or a failed call changes nothing and *)
(* leaves the pass running; a lost reply leaves the same state as success. *)
RenewGet(p) ==
  /\ Exists /\ lease.holder = p
  /\ Goto(p, "pass", "renewing")
  /\ stamp' = [stamp EXCEPT ![p] = Clock(p)]
  /\ current' = [current EXCEPT ![p] = TRUE]
  /\ UNCHANGED <<now, lease, deadline, stop>>

RenewReplace(p) ==
  /\ current[p]
  /\ Goto(p, "renewing", "pass")
  /\ Store(BuildLease(p))
  /\ UNCHANGED <<now, stamp, deadline, stop>>

RenewFails(p) ==
  /\ Goto(p, "renewing", "pass")
  /\ UNCHANGED <<now, lease, current, stamp, deadline, stop>>

EndPass(p) ==
  /\ Goto(p, "pass", "releasing")
  /\ UNCHANGED <<now, lease, current, stamp, deadline, stop>>

(* release deletes the Lease by name, whoever holds it; 404 is success.    *)
Release(p) ==
  /\ Goto(p, "releasing", "idle")
  /\ Store(NoLease)
  /\ UNCHANGED <<now, stamp, deadline, stop>>

ReleaseFails(p) ==
  /\ Goto(p, "releasing", "idle")
  /\ UNCHANGED <<now, lease, current, stamp, deadline, stop>>

-----------------------------------------------------------------------------
(* Processes come and go: a `sync` is started or a Pod restarts, a         *)
(* controller is asked to stop and leaves its loop between passes, and any *)
(* process may die, or have its task aborted by run_controller, at any     *)
(* await. A dead process releases nothing.                                 *)
Start(p) ==
  /\ Goto(p, "down", "idle")
  /\ stop' = [stop EXCEPT ![p] = FALSE]
  /\ UNCHANGED <<now, lease, current, stamp, deadline>>

RequestStop(p) ==
  /\ p \in Controllers
  /\ pc[p] # "down"
  /\ stop' = [stop EXCEPT ![p] = TRUE]
  /\ UNCHANGED <<now, lease, current, pc, stamp, deadline>>

Exit(p) ==
  /\ stop[p]
  /\ Goto(p, "idle", "down")
  /\ UNCHANGED <<now, lease, current, stamp, deadline, stop>>

Crash(p) ==
  /\ pc[p] # "down"
  /\ Goto(p, pc[p], "down")
  /\ UNCHANGED <<now, lease, current, stamp, deadline, stop>>

Tick ==
  /\ now < MaxClock
  /\ now' = now + 1
  /\ UNCHANGED <<lease, current, pc, stamp, deadline, stop>>

-----------------------------------------------------------------------------
(* The steps of one attempt the API server answers, and all a process does *)
(* on its own.                                                             *)
Answered(p) ==
  \/ GetMissing(p) \/ GetFresh(p) \/ GetStale(p)
  \/ Create(p) \/ CreateConflict(p)
  \/ Replace(p) \/ ReplaceConflict(p)

Step(p) ==
  \/ StartPass(p) \/ StopTrying(p) \/ TryAcquire(p)
  \/ Answered(p) \/ AcquireFails(p) \/ AcquireReplyLost(p)
  \/ CheckDeadline(p) \/ Wake(p) \/ StopWaiting(p)
  \/ RenewGet(p) \/ RenewReplace(p) \/ RenewFails(p)
  \/ EndPass(p) \/ Release(p) \/ ReleaseFails(p)
  \/ Exit(p)

Lifecycle(p) == Start(p) \/ RequestStop(p) \/ Crash(p)

ProcStep(p) == Step(p) \/ Lifecycle(p)

Next == Tick \/ \E p \in Proc : ProcStep(p)

Spec == Init /\ [][Next]_vars

(* What every step of every schedule must respect: the lease passes from   *)
(* one holder to another, without being deleted in between, only when it   *)
(* is stale on the clock of the process that takes it (try_acquire judges  *)
(* an earlier read; the resourceVersion has to carry that judgement over   *)
(* to the replace, and keep a late renew from undoing a takeover).         *)
TakesOnlyStale ==
  \A p \in Proc :
    Exists /\ Exists' /\ lease'.holder = p /\ lease.holder # p
      => IsStale(lease, Clock(p))

StealOnlyStale == [][TakesOnlyStale]_vars

(* Why that holds, whatever the schedule: no stamp is ahead of the clock it*)
(* was read from, a takeover whose resourceVersion is still current judged *)
(* the very lease it replaces, and a renewal with a current one read its   *)
(* own lease.                                                              *)
StampsArePast == \A p \in Proc : stamp[p] <= Clock(p)

TakeoversJudged ==
  \A p \in Proc : pc[p] = "replacing" /\ current[p] =>
    Exists /\ IsStale(lease, stamp[p])

RenewalsMine ==
  \A p \in Proc : pc[p] = "renewing" /\ current[p] =>
    Exists /\ lease.holder = p

LeaseInv == TypeOK /\ StampsArePast /\ TakeoversJudged /\ RenewalsMine

-----------------------------------------------------------------------------
(* Scheduling. Time passes and live processes keep moving. A pass has      *)
(* finitely many renewals. A controller is restarted by its Deployment and *)
(* is not killed, or refused by the API server, at the same point of every *)
(* one of its passes.                                                      *)
Fairness ==
  /\ WF_vars(Tick)
  /\ \A p \in Proc : WF_vars(Step(p)) /\ SF_vars(EndPass(p))
  /\ \A p \in Controllers :
       /\ WF_vars(Start(p))
       /\ SF_vars(StartPass(p))
       /\ SF_vars(TryAcquire(p))
       /\ SF_vars(GetStale(p))
       /\ SF_vars(Replace(p))

FairSpec == Spec /\ Fairness

(* "A holder that crashes without releasing is reclaimed": a lease that is *)
(* stale for a polling controller does not stay so.                        *)
StaleReclaimed ==
  \A p \in Controllers :
    (Exists /\ IsStale(lease, Clock(p))) ~> ~(Exists /\ IsStale(lease, Clock(p)))

(* A cooperative shutdown is not held up by a busy lease: a controller     *)
(* asked to stop leaves its loop, even while another holder never yields.  *)
ShutdownTerminates ==
  \A p \in Controllers : stop[p] ~> pc[p] = "down"
=============================================================================
