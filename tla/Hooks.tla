-------------------------------- MODULE Hooks -------------------------------
(***************************************************************************)
(* The hook engine of hooks.rs within the passes of reconcile.rs: hooks    *)
(* run one by one before and after the main work of a pass, each replaced, *)
(* applied, awaited and cleaned up after. The main work (apply, or prune   *)
(* in a teardown) is one step here; Pass has it in full, with the hooks as *)
(* one step. The Jobs and Pods live on their own, between passes too; what *)
(* Kubernetes does with them is external.                                  *)
(***************************************************************************)
EXTENDS Integers

CONSTANTS
  Hook,        \* the hook resources of the commit
  Types,       \* Types[h]: the tokens of its helm.sh/hook
  Listed,      \* Listed[h]: the tokens of its helm.sh/hook-delete-policy
  Weight,      \* Weight[h]: its helm.sh/hook-weight
  Name,        \* Name[h]: the place of its name in the order of names
  Waitable,    \* the Jobs and Pods
  Timeout,     \* hook_timeout, in polls
  Faults       \* what may go wrong: "call", "delete", "crash", "user",
               \* and "linger": a foreground deletion takes its time

ASSUME HookConstants ==
  /\ Types \in [Hook -> SUBSET STRING] /\ Listed \in [Hook -> SUBSET STRING]
  /\ Weight \in [Hook -> Int] /\ Name \in [Hook -> Int]
  /\ Waitable \subseteq Hook
  /\ Timeout \in Nat
  /\ Faults \subseteq {"call", "delete", "crash", "user", "linger"}

Phase == {"PreSync", "PostSync", "PreDelete", "PostDelete"}

(* Unsupported types are dropped; a hook of those only is in no phase.     *)
HookPhases(types) ==
  (IF types \cap {"pre-install", "pre-upgrade"} # {} THEN {"PreSync"} ELSE {})
  \cup (IF types \cap {"post-install", "post-upgrade"} # {} THEN {"PostSync"} ELSE {})
  \cup (IF "pre-delete" \in types THEN {"PreDelete"} ELSE {})
  \cup (IF "post-delete" \in types THEN {"PostDelete"} ELSE {})

InPhase(p) == {h \in Hook : p \in HookPhases(Types[h])}

DeletePolicy == {"before-hook-creation", "hook-succeeded", "hook-failed"}

(* before-hook-creation is not the default.                                *)
Policies_NoDefault(h) == Listed[h] \cap DeletePolicy

Policies(h) == IF Listed[h] \cap DeletePolicy = {} THEN {"before-hook-creation"}
               ELSE Listed[h] \cap DeletePolicy

Before_ByName(h, k) == Name[h] < Name[k]

Before(h, k) == \/ Weight[h] < Weight[k]
                \/ Weight[h] = Weight[k] /\ Name[h] < Name[k]

VARIABLES
  pc,        \* the await the pass is at, "idle" between passes
  phase,     \* the hook phase the pass is in, or last was in
  todo,      \* hooks of the phase not started
  hook,      \* the one started last
  outcome,   \* its Completion so far
  waited,    \* polls since its apply
  passed,    \* hooks of the phase that succeeded
  worked,    \* the main work of this pass is done
  obj        \* obj[h]: the object of h in the cluster

inside == <<phase, todo, hook, outcome, waited, passed, worked>>
vars == <<pc, inside, obj>>

(* `fresh`: created since its hook was last started. `spared`: the delete  *)
(* of that start failed. `dying`: deletion was requested and is waiting for*)
(* dependents.                                                             *)
Object == [status : {"none", "running", "succeeded", "failed", "plain"},
           fresh : BOOLEAN, spared : BOOLEAN, dying : BOOLEAN]
NoObject == [status |-> "none", fresh |-> FALSE, spared |-> FALSE, dying |-> FALSE]

Completion == {"Running", "Succeeded", "Failed"}

HookTypeOK ==
  /\ pc \in {"idle", "next", "apply", "poll", "deadline", "sleep", "clean", "main"}
  /\ phase \in Phase /\ todo \subseteq Hook /\ hook \in Hook
  /\ outcome \in Completion /\ waited \in 0..Timeout
  /\ passed \subseteq Hook /\ worked \in BOOLEAN
  /\ obj \in [Hook -> Object]

Init ==
  /\ pc = "idle"
  /\ phase = "PreSync" /\ todo = {} /\ hook \in Hook
  /\ outcome = "Running" /\ waited = 0 /\ passed = {} /\ worked = FALSE
  /\ obj = [h \in Hook |-> NoObject]

Enter(p) == /\ pc' = "next" /\ phase' = p /\ todo' = InPhase(p) /\ passed' = {}
            /\ UNCHANGED <<hook, outcome, waited>>

Leave == pc' = "idle" /\ UNCHANGED inside

IsPre(p) == p \in {"PreSync", "PreDelete"}
AfterWork(p) == IF p = "PreSync" THEN "PostSync" ELSE "PostDelete"

(* An object is gone at once, or once its dependents are.                  *)
Deleted(o) ==
  IF o.status # "none" /\ "linger" \in Faults
  THEN {NoObject, [o EXCEPT !.dying = TRUE]}
  ELSE {NoObject}

(* Two requests the code ignores the failure of.                           *)
DeleteTo(h) == Deleted(obj[h]) \cup (IF "delete" \in Faults THEN {obj[h]} ELSE {})

-----------------------------------------------------------------------------
(* Faulty variants of what follows.                                        *)
(* A hook that is still running at its deadline is let be.                 *)
CheckDeadline_LetsBe ==
  /\ pc = "deadline"
  /\ IF waited = Timeout THEN pc' = "clean" ELSE pc' = "sleep"
  /\ UNCHANGED <<inside, obj>>

(* A failing poll goes straight back to sleep.                             *)
PollFails_Sleeps ==
  /\ "call" \in Faults
  /\ pc = "poll" /\ pc' = "sleep"
  /\ UNCHANGED <<inside, obj>>

-----------------------------------------------------------------------------
(* A sync, of a full apply or of a drift, or a teardown.                   *)
BeginPass == \E p \in {"PreSync", "PreDelete"} :
  /\ pc = "idle"
  /\ Enter(p) /\ worked' = FALSE
  /\ UNCHANGED obj

(* run_one: the next hook by weight and name; an earlier instance is to go *)
(* first, and the request for that is not waited for.                      *)
StartHook(h) ==
  /\ pc = "next" /\ h \in todo
  /\ \A k \in todo : ~Before(k, h)
  /\ pc' = "apply" /\ todo' = todo \ {h} /\ hook' = h /\ outcome' = "Running"
  /\ LET renew == "before-hook-creation" \in Policies(h)
     IN  \E o \in IF renew THEN DeleteTo(h) ELSE {obj[h]} :
           obj' = [obj EXCEPT ![h] =
                     [status |-> o.status, fresh |-> FALSE,
                      spared |-> renew /\ o = obj[h], dying |-> o.dying]]
  /\ UNCHANGED <<phase, waited, passed, worked>>

(* The first failure ends the phase, and with a pre phase the pass. After  *)
(* a post phase the pass goes on to record the failure, and is over here.  *)
HookFails == pc' = "idle" /\ UNCHANGED <<phase, todo, hook, outcome, waited, passed, worked>>

DiscoveryFails ==
  /\ "call" \in Faults
  /\ pc = "next" /\ todo # {}
  /\ HookFails /\ UNCHANGED obj

(* A server-side apply creates the object, or leaves the one there as it   *)
(* is: the manifest has not changed, and a Job does not run again.         *)
Applied(h) ==
  IF obj[h].status # "none" THEN obj[h]
  ELSE [status |-> IF h \in Waitable THEN "running" ELSE "plain",
        fresh |-> TRUE, spared |-> FALSE, dying |-> FALSE]

ApplyHook ==
  /\ pc = "apply"
  /\ obj' = [obj EXCEPT ![hook] = Applied(hook)]
  /\ IF hook \in Waitable
     THEN pc' = "poll" /\ waited' = 0 /\ outcome' = "Running"
     ELSE pc' = "clean" /\ outcome' = "Succeeded" /\ UNCHANGED waited
  /\ UNCHANGED <<phase, todo, hook, passed, worked>>

(* ... and when it fails it may have done so or not.                       *)
ApplyFails ==
  /\ "call" \in Faults
  /\ pc = "apply"
  /\ \/ UNCHANGED obj
     \/ obj' = [obj EXCEPT ![hook] = Applied(hook)]
  /\ HookFails

-----------------------------------------------------------------------------
(* wait_for_completion. The renewal of the Lease is in Lease.              *)
HookCompletion(o) ==
  CASE o.status = "running"   -> "Running"
    [] o.status = "succeeded" -> "Succeeded"
    [] o.status = "plain"     -> "Succeeded"
    [] o.status = "failed"    -> "Failed"
    [] o.status = "none"      -> "Failed"       \* it disappeared

Poll ==
  /\ pc = "poll"
  /\ outcome' = HookCompletion(obj[hook])
  /\ pc' = IF outcome' = "Running" THEN "deadline" ELSE "clean"
  /\ UNCHANGED <<phase, todo, hook, waited, passed, worked, obj>>

PollFails ==
  /\ "call" \in Faults
  /\ pc = "poll" /\ pc' = "deadline"
  /\ UNCHANGED <<inside, obj>>

CheckDeadline ==
  /\ pc = "deadline"
  /\ IF waited = Timeout THEN pc' = "clean" /\ outcome' = "Failed"
     ELSE pc' = "sleep" /\ UNCHANGED outcome
  /\ UNCHANGED <<phase, todo, hook, waited, passed, worked, obj>>

(* Polls take time too: it is later than one interval, perhaps by much.    *)
Sleep ==
  /\ pc = "sleep" /\ pc' = "poll"
  /\ \E t \in 0..Timeout :
       /\ t > waited \/ t = Timeout
       /\ waited' = t
  /\ UNCHANGED <<phase, todo, hook, outcome, passed, worked, obj>>

DeleteAfter == CASE outcome = "Succeeded" -> "hook-succeeded" \in Policies(hook)
                 [] outcome = "Failed"    -> "hook-failed" \in Policies(hook)
                 [] outcome = "Running"   -> FALSE

CleanUp ==
  /\ pc = "clean"
  /\ \E o \in IF DeleteAfter THEN DeleteTo(hook) ELSE {obj[hook]} :
       obj' = [obj EXCEPT ![hook] = o]
  /\ \/ outcome = "Failed" /\ HookFails
     \/ /\ outcome # "Failed"
        /\ pc' = "next" /\ passed' = passed \cup {hook}
        /\ UNCHANGED <<phase, todo, hook, outcome, waited, worked>>

-----------------------------------------------------------------------------
(* A phase without failures leads to the main work, or ends the pass.      *)
EndPhase ==
  /\ pc = "next" /\ todo = {}
  /\ pc' = IF IsPre(phase) THEN "main" ELSE "idle"
  /\ UNCHANGED <<inside, obj>>

MainWork ==
  /\ pc = "main"
  /\ Enter(AfterWork(phase)) /\ worked' = TRUE
  /\ UNCHANGED obj

MainFails ==
  /\ "call" \in Faults
  /\ pc = "main"
  /\ Leave /\ UNCHANGED obj

Crash ==
  /\ "crash" \in Faults
  /\ pc # "idle"
  /\ Leave /\ UNCHANGED obj

-----------------------------------------------------------------------------
(* Kubernetes and its users.                                               *)
Finish(h) ==
  /\ obj[h].status = "running"
  /\ \E s \in {"succeeded", "failed"} : obj' = [obj EXCEPT ![h].status = s]
  /\ UNCHANGED <<pc, inside>>

Vanish(h) ==
  /\ obj[h].dying
  /\ obj' = [obj EXCEPT ![h] = NoObject]
  /\ UNCHANGED <<pc, inside>>

UserDeletes(h) ==
  /\ "user" \in Faults
  /\ obj[h].status # "none"
  /\ \E o \in Deleted(obj[h]) : obj' = [obj EXCEPT ![h] = o]
  /\ UNCHANGED <<pc, inside>>

Step ==
  \/ \E h \in Hook : StartHook(h)
  \/ DiscoveryFails \/ ApplyHook \/ ApplyFails
  \/ Poll \/ PollFails \/ CheckDeadline \/ Sleep \/ CleanUp
  \/ EndPhase \/ MainWork \/ MainFails

Next ==
  \/ BeginPass \/ Step \/ Crash
  \/ \E h \in Hook : Finish(h) \/ Vanish(h) \/ UserDeletes(h)

Spec == Init /\ [][Next]_vars

(* Every await of a pass returns, and a sleep ends.                        *)
FairSpec == Spec /\ WF_vars(Step)

-----------------------------------------------------------------------------
(* Hooks of a phase run in the order of their weights, ties broken by      *)
(* name: one that was started, even if it failed, comes after hooks that   *)
(* have all passed.                                                        *)
InOrder ==
  pc # "idle" =>
    \A h \in InPhase(phase) \ todo : \A k \in InPhase(phase) :
      (Weight[k] < Weight[h] \/ (Weight[k] = Weight[h] /\ Name[k] < Name[h]))
        => k \in passed

(* Why: the hooks of the phase that are neither passed nor in hand are yet *)
(* to start ...                                                            *)
InHand == IF pc \in {"next", "main"} THEN {} ELSE {hook}

ProgressInv ==
  pc # "idle" =>
    /\ todo \subseteq InPhase(phase)
    /\ InHand \subseteq InPhase(phase) \ todo
    /\ passed = (InPhase(phase) \ todo) \ InHand
    /\ pc = "main" => todo = {}

(* ... none of them comes before one that was started ...                  *)
OrderInv ==
  pc # "idle" =>
    \A h \in InPhase(phase) \ todo : \A k \in todo \cup InHand : ~Before(k, h)

(* ... and what passed is not running.                                     *)
StillInv ==
  /\ \A h \in Hook \ Waitable : obj[h].status # "running"
  /\ pc # "idle" => \A h \in passed : obj[h].status # "running"
  /\ pc = "clean" =>
       outcome # "Running" /\ (outcome = "Succeeded" => obj[hook].status # "running")

HookInv == HookTypeOK /\ ProgressInv /\ OrderInv /\ StillInv

(* "A failed PreSync (or pre-delete) hook aborts the pass before the main  *)
(* apply": the main work finds all hooks before it passed and none of their*)
(* Jobs running, one of an earlier pass that was given up included.        *)
WorkAwaitsHooks ==
  [][worked' /\ ~worked =>
       \A h \in InPhase(phase) : h \in passed /\ obj[h].status # "running"]_vars

Passes(h) == hook' = h /\ outcome' = "Succeeded" /\ outcome # "Succeeded"
Renewed(h) == "before-hook-creation" \in Listed[h] \/ Listed[h] = {}

(* before-hook-creation: "remove any prior instance so the hook runs       *)
(* fresh". What makes such a hook pass is a run that began after the hook  *)
(* was started.                                                            *)
RunsFresh ==
  [][\A h \in Waitable : Passes(h) /\ Renewed(h) => obj[h].fresh]_vars

(* It is not so for two reasons only: the delete failed and the failure was *)
(* ignored, or the delete is not over, as nobody waits for it. The outcome  *)
(* of an earlier pass does not make a hook pass otherwise, whatever was     *)
(* killed, deleted by users or failed with an answer in between.            *)
FreshOrLeft ==
  [][\A h \in Waitable :
       Passes(h) /\ Renewed(h) => obj[h].fresh \/ obj[h].spared \/ obj[h].dying]_vars

(* A pass ends, though hooks hang and polls fail for ever.                 *)
PassEnds == pc # "idle" ~> pc = "idle"
=============================================================================
