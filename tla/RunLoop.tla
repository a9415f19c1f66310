------------------------------- MODULE RunLoop ------------------------------
(***************************************************************************)
(* run_loop of reconcile.rs: one pass after another, with a delay between  *)
(* them that grows with failures, ended early by pokes of the watch drivers*)
(* (watch.rs, here one driver of one kind) and by a request to stop. What  *)
(* a pass does is in Pass, what a driver stores is in Watch.               *)
(***************************************************************************)
EXTENDS Integers

CONSTANTS
  Mode,          \* watch_mode: "off", "trigger" or "cache"
  Poll,          \* poll_interval
  Base, Cap,     \* backoff_base and backoff_max
  Width,         \* bits of the back-off factor: 32 in the code
  MaxFailures    \* where the count of failures saturates: 2^32 - 1 in the code

ASSUME LoopConstants ==
  /\ Mode \in {"off", "trigger", "cache"}
  /\ Poll \in Nat /\ Base \in Nat /\ Cap \in Nat
  /\ Base >= 4 /\ Cap >= 4          \* so that the jitter has a choice
  /\ Width \in Nat \ {0} /\ MaxFailures \in Nat

VARIABLES
  pc,         \* "top", "pass", "rebuild", "wait", "debounce", "done"
  failures,   \* consecutive_failures
  delay,      \* what this wait is to last
  slept,      \* and has lasted
  permit,     \* the permit of the Notify
  stop,       \* the stop flag
  declared,   \* last_gvks has the kind
  driver,     \* "none", "relist" or "watch"
  touched,    \* the driver has events to deliver
  left,       \* the kind has managed objects
  unwoken     \* a managed object changed, and no pass has begun since

loop == <<pc, failures, delay, slept>>
cluster == <<touched, left, unwoken>>
vars == <<loop, permit, stop, declared, driver, cluster>>

AtMost(a, b) == IF a < b THEN a ELSE b

LoopTypeOK ==
  /\ pc \in {"top", "pass", "rebuild", "wait", "debounce", "done"}
  /\ failures \in 0..MaxFailures
  /\ delay \in Nat /\ slept \in Nat
  /\ {permit, stop, declared, touched, left, unwoken} \subseteq BOOLEAN
  /\ driver \in {"none", "relist", "watch"}

Init ==
  /\ pc = "top" /\ failures = 0 /\ delay = 0 /\ slept = 0
  /\ permit = FALSE /\ stop = FALSE
  /\ declared = FALSE /\ driver = "none"
  /\ touched = FALSE /\ left \in BOOLEAN /\ unwoken = FALSE

-----------------------------------------------------------------------------
(* A clamp one too high shifts the one out of the factor.                  *)
Exponent_OneMore(n) == AtMost(n - 1, Width)

Exponent(n) == AtMost(n - 1, Width - 1)

BackoffDelay(n) ==
  IF n = 0 THEN 0 ELSE AtMost(Base * (2 ^ Exponent(n) % 2 ^ Width), Cap)

NextDelay(n) == IF n = 0 THEN Poll ELSE BackoffDelay(n)

(* A factor of at least 3/4 and below 1.                                   *)
Jittered(d) == {j \in 0..d : 4 * j >= 3 * d /\ (j < d \/ d = 0)}

(* notify_waiters in the place of notify_one: it leaves no permit behind.  *)
Poked_WaitersOnly == IF Mode = "trigger" THEN permit \/ pc = "wait" ELSE permit

(* What an event does to the permit. Drivers of cache mode update their    *)
(* store and poke nobody.                                                  *)
Poked == IF Mode = "trigger" THEN TRUE ELSE permit

-----------------------------------------------------------------------------
BeginPass ==
  /\ pc = "top" /\ ~stop
  /\ pc' = "pass" /\ unwoken' = FALSE
  /\ UNCHANGED <<failures, delay, slept, permit, stop, declared, driver, touched, left>>

(* The loop breaks, and aborts its drivers.                                *)
Leave ==
  /\ pc' = "done" /\ driver' = "none" /\ touched' = FALSE
  /\ UNCHANGED <<failures, delay, slept, permit, stop, declared, left, unwoken>>

Finish == pc = "top" /\ stop /\ Leave

(* What a pass applies or prunes comes back as events of a watching driver.*)
Touches == \E t \in BOOLEAN, l \in BOOLEAN :
  /\ ~t => l = left
  /\ left' = l
  /\ touched' = (touched \/ (t /\ driver = "watch"))

(* A pass that succeeds leaves behind which kinds Git has.                 *)
PassSucceeds ==
  /\ pc = "pass" /\ pc' = "rebuild"
  /\ failures' = 0 /\ declared' \in BOOLEAN
  /\ Touches
  /\ UNCHANGED <<delay, slept, permit, stop, driver, unwoken>>

PassFails ==
  /\ pc = "pass" /\ pc' = "rebuild"
  /\ failures' = AtMost(failures + 1, MaxFailures)
  /\ Touches
  /\ UNCHANGED <<delay, slept, permit, stop, declared, driver, unwoken>>

(* WatchSet::rebuild, and the choice of the delay. A new driver is not     *)
(* spawned when stopping or when discovery fails.                          *)
Rebuild ==
  /\ pc = "rebuild" /\ pc' = "wait" /\ slept' = 0
  /\ \/ Mode = "off" /\ UNCHANGED <<driver, touched>>
     \/ Mode # "off" /\ ~declared /\ driver' = "none" /\ touched' = FALSE
     \/ Mode # "off" /\ declared /\ driver # "none" /\ UNCHANGED <<driver, touched>>
     \/ /\ Mode # "off" /\ declared /\ driver = "none"
        /\ driver' \in IF stop THEN {"none"} ELSE {"none", "relist"}
        /\ UNCHANGED touched
  /\ delay' \in IF failures > 0 THEN Jittered(NextDelay(failures))
                ELSE {NextDelay(failures)}
  /\ UNCHANGED <<failures, permit, stop, declared, left, unwoken>>

(* The three branches of the select.                                       *)
TimerElapses ==
  /\ pc = "wait" /\ slept >= delay
  /\ pc' = "top"
  /\ UNCHANGED <<failures, delay, slept, permit, stop, declared, driver, cluster>>

Notified ==
  /\ pc = "wait" /\ permit
  /\ permit' = FALSE
  /\ pc' = IF stop THEN "top" ELSE "debounce"
  /\ UNCHANGED <<failures, delay, slept, stop, declared, driver, cluster>>

(* The sleep is not cut short.                                             *)
WatchStop_Missing == pc = "wait" /\ stop /\ slept >= delay /\ Leave

WatchStop == pc = "wait" /\ stop /\ Leave

Debounced ==
  /\ pc = "debounce"
  /\ pc' = "top"
  /\ UNCHANGED <<failures, delay, slept, permit, stop, declared, driver, cluster>>

Tick ==
  /\ pc = "wait" /\ slept < delay
  /\ slept' = slept + 1
  /\ UNCHANGED <<pc, failures, delay, permit, stop, declared, driver, cluster>>

RequestStop ==
  /\ ~stop /\ stop' = TRUE
  /\ UNCHANGED <<loop, permit, declared, driver, cluster>>

-----------------------------------------------------------------------------
(* The driver of the kind: any event finds it in its loop, or out of it    *)
(* when the stop flag is up. What happened before a relist is not delivered*)
(* event by event: the relist delivers what there is.                      *)
Hears(d) == IF stop THEN driver' = "none" /\ UNCHANGED permit
            ELSE driver' = d /\ permit' = Poked

Relist ==
  /\ driver = "relist" /\ touched' = FALSE
  /\ IF left THEN Hears("watch") ELSE driver' = "watch" /\ UNCHANGED permit
  /\ UNCHANGED <<loop, stop, declared, left, unwoken>>

Deliver ==
  /\ driver = "watch" /\ touched /\ touched' = FALSE
  /\ Hears("watch")
  /\ UNCHANGED <<loop, stop, declared, left, unwoken>>

(* The watch ends with an error, which pokes nobody.                       *)
Expire ==
  /\ driver = "watch" /\ touched' = FALSE
  /\ driver' = IF stop THEN "none" ELSE "relist"
  /\ UNCHANGED <<loop, permit, stop, declared, left, unwoken>>

(* Users and other controllers change managed objects, or delete the last. *)
Edit ==
  /\ left
  /\ left' \in BOOLEAN
  /\ touched' = (touched \/ driver = "watch") /\ unwoken' = TRUE
  /\ UNCHANGED <<loop, permit, stop, declared, driver>>

Next ==
  \/ BeginPass \/ Finish \/ PassSucceeds \/ PassFails \/ Rebuild
  \/ TimerElapses \/ Notified \/ WatchStop \/ Debounced
  \/ Tick \/ RequestStop
  \/ Relist \/ Deliver \/ Expire \/ Edit

Spec == Init /\ [][Next]_vars

(* Passes end, tasks run, the debounce is over some day. Nothing is assumed*)
(* of the long timer: what is to happen may not have to wait for it.       *)
FairSpec ==
  /\ Spec
  /\ WF_vars(BeginPass \/ Finish) /\ WF_vars(PassSucceeds \/ PassFails)
  /\ WF_vars(Rebuild) /\ WF_vars(Notified) /\ WF_vars(Debounced)
  /\ WF_vars(WatchStop) /\ WF_vars(Relist) /\ WF_vars(Deliver)

-----------------------------------------------------------------------------
(* However often passes fail, the delay after the n-th failure is 2^(n-1)  *)
(* times backoff_base, no longer than backoff_max, and jitter takes off no *)
(* more than a quarter.                                                    *)
LoopInv ==
  /\ LoopTypeOK
  /\ pc = "wait" /\ failures > 0 =>
       /\ delay <= Cap
       /\ 4 * delay >= 3 * AtMost(Base * 2 ^ AtMost(failures - 1, Width - 1), Cap)

(* watch.rs: "a cluster-side edit wakes the reconcile loop immediately     *)
(* instead of waiting": an edit of a kind with a driver, which has the     *)
(* event to deliver or objects to list, leads to a pass without any help   *)
(* of the timer. (A relist that finds the kind empty has nothing to poke   *)
(* with.)                                                                  *)
ToHear == touched \/ (driver = "relist" /\ left)
Emptied == driver = "relist" /\ ~left

EditWakes ==
  (unwoken /\ ToHear) ~> (~unwoken \/ driver = "none" \/ stop \/ Emptied)

(* A request to stop ends the loop, whatever the delay.                    *)
StopEnds == stop ~> pc = "done"
=============================================================================
