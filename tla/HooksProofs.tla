---------------------------- MODULE HooksProofs -----------------------------
(***************************************************************************)
(* Theorems about Hooks, for any hooks, weights, policies and faults: the  *)
(* order within a phase, and the main work waiting for the hooks before it.*)
(***************************************************************************)
EXTENDS Hooks, TLAPS

LEMMA BeforeIrreflexive == \A h \in Hook : ~Before(h, h)
BY HookConstants DEF Before

LEMMA NoObjectType == NoObject \in Object
BY DEF NoObject, Object

LEMMA DeleteToType ==
  ASSUME HookTypeOK, NEW h \in Hook, NEW o \in DeleteTo(h) \cup Deleted(obj[h])
  PROVE  o \in Object /\ (o.status = "none" \/ o.status = obj[h].status)
<1>1. obj[h] \in Object
  BY DEF HookTypeOK
<1>2. NoObject \in Object /\ NoObject.status = "none"
  BY DEF NoObject, Object
<1>3. [obj[h] EXCEPT !.dying = TRUE] \in Object
      /\ [obj[h] EXCEPT !.dying = TRUE].status = obj[h].status
  BY <1>1 DEF Object
<1> QED BY <1>1, <1>2, <1>3 DEF DeleteTo, Deleted

LEMMA AppliedType ==
  ASSUME HookTypeOK, NEW h \in Hook
  PROVE  /\ Applied(h) \in Object
         /\ Applied(h).status = "running" => obj[h].status = "running" \/ h \in Waitable
BY DEF Applied, HookTypeOK, Object

LEMMA InPhaseType == \A p : InPhase(p) \subseteq Hook
BY DEF InPhase

LEMMA NoWait == 0 \in 0..Timeout
BY HookConstants

LEMMA HookInit == Init => HookInv
<1> SUFFICES ASSUME Init
             PROVE  HookInv
  OBVIOUS
<1>1. obj \in [Hook -> Object] /\ \A h \in Hook : obj[h].status = "none"
  BY NoObjectType DEF Init, NoObject
<1>2. HookTypeOK
  BY <1>1, NoWait DEF Init, HookTypeOK, Phase, Completion
<1>3. ProgressInv /\ OrderInv /\ StillInv
  BY <1>1 DEF Init, ProgressInv, OrderInv, StillInv
<1> QED BY <1>2, <1>3 DEF HookInv

(* Steps of Kubernetes and its users.                                      *)
Environment(h) == Finish(h) \/ Vanish(h) \/ UserDeletes(h)

LEMMA EnvironmentStep ==
  ASSUME HookInv, NEW h \in Hook, Environment(h)
  PROVE  HookInv'
<1>1. HookTypeOK /\ UNCHANGED <<pc, inside>>
  BY DEF Environment, Finish, Vanish, UserDeletes, HookInv
<1>2. /\ obj' \in [Hook -> Object]
      /\ \A k \in Hook : obj'[k].status = "running" => obj[k].status = "running"
  <2>0. obj \in [Hook -> Object]
    BY <1>1 DEF HookTypeOK
  <2>1. CASE Finish(h)
    BY <2>0, <2>1 DEF Finish, Object
  <2>2. CASE Vanish(h)
    BY <2>0, <2>2, NoObjectType DEF Vanish, NoObject
  <2>3. CASE UserDeletes(h)
    <3>1. PICK o \in Deleted(obj[h]) : obj' = [obj EXCEPT ![h] = o]
      BY <2>3 DEF UserDeletes
    <3>2. o \in Object /\ (o.status = "none" \/ o.status = obj[h].status)
      BY <1>1, DeleteToType
    <3> QED BY <2>0, <3>1, <3>2
  <2> QED BY <2>1, <2>2, <2>3 DEF Environment
<1>3. HookTypeOK'
  BY <1>1, <1>2 DEF HookTypeOK, inside
<1>4. ProgressInv' /\ OrderInv'
  BY <1>1 DEF HookInv, ProgressInv, OrderInv, InHand, inside
<1>5. StillInv'
  BY <1>1, <1>2 DEF HookInv, HookTypeOK, StillInv, inside
<1> QED BY <1>3, <1>4, <1>5 DEF HookInv

LEMMA StartStep ==
  ASSUME HookInv, NEW h \in Hook, StartHook(h)
  PROVE  HookInv'
<1>0. /\ HookTypeOK /\ pc = "next" /\ pc' = "apply" /\ h \in todo
      /\ \A k \in todo : ~Before(k, h)
      /\ todo' = todo \ {h} /\ hook' = h /\ outcome' = "Running"
      /\ UNCHANGED <<phase, waited, passed, worked>>
  BY DEF StartHook, HookInv
<1>1. PICK o \in DeleteTo(h) \cup {obj[h]} :
        \E renew \in BOOLEAN :
          obj' = [obj EXCEPT ![h] = [status |-> o.status, fresh |-> FALSE,
                                     spared |-> renew /\ o = obj[h], dying |-> o.dying]]
  BY DEF StartHook
<1>2. /\ obj' \in [Hook -> Object]
      /\ \A k \in Hook : obj'[k].status = "running" => obj[k].status = "running"
  <2>1. obj \in [Hook -> Object] /\ obj[h] \in Object
    BY <1>0 DEF HookTypeOK
  <2>2. o \in Object /\ (o.status = "none" \/ o.status = obj[h].status)
    BY <1>0, <2>1, DeleteToType
  <2>3. PICK renew \in BOOLEAN :
          obj' = [obj EXCEPT ![h] = [status |-> o.status, fresh |-> FALSE,
                                     spared |-> renew /\ o = obj[h], dying |-> o.dying]]
    BY <1>1
  <2>4. o.status \in {"none", "running", "succeeded", "failed", "plain"} /\ o.dying \in BOOLEAN
    BY <2>2 DEF Object
  <2>5. /\ obj'[h].status = o.status /\ \A k \in Hook \ {h} : obj'[k] = obj[k]
        /\ obj' \in [Hook -> Object]
    BY <2>1, <2>3, <2>4 DEF Object
  <2> QED BY <2>1, <2>2, <2>5
<1>3. /\ todo \subseteq InPhase(phase) /\ passed = InPhase(phase) \ todo
      /\ \A x \in InPhase(phase) \ todo : \A k \in todo : ~Before(k, x)
  BY <1>0 DEF HookInv, ProgressInv, OrderInv, InHand
<1>4. HookTypeOK'
  BY <1>0, <1>2 DEF HookTypeOK, Completion
<1>5. ProgressInv'
  BY <1>0, <1>3 DEF ProgressInv, InHand
<1>6. OrderInv'
  <2>1. InHand' = {h} /\ InPhase(phase)' = InPhase(phase)
    BY <1>0 DEF InHand
  <2>2. todo' \cup InHand' \subseteq todo
    BY <1>0, <2>1
  <2>3. InPhase(phase) \ todo' \subseteq (InPhase(phase) \ todo) \cup {h}
    BY <1>0
  <2>4. \A x \in InPhase(phase) \ todo' : \A k \in todo' \cup InHand' : ~Before(k, x)
    BY <1>0, <1>3, <2>2, <2>3
  <2> QED BY <2>1, <2>4 DEF OrderInv
<1>7. StillInv'
  BY <1>0, <1>2, <1>3, InPhaseType DEF HookInv, StillInv
<1> QED BY <1>4, <1>5, <1>6, <1>7 DEF HookInv

(* The steps that stay with the hook in hand.                              *)
LEMMA ApplyStep == HookInv /\ ApplyHook => HookInv'
<1> SUFFICES ASSUME HookInv, ApplyHook
             PROVE  HookInv'
  OBVIOUS
<1>0. /\ HookTypeOK /\ pc = "apply" /\ pc' \in {"poll", "clean"} /\ hook \in Hook
      /\ obj' = [obj EXCEPT ![hook] = Applied(hook)]
      /\ UNCHANGED <<phase, todo, hook, passed, worked>>
  BY DEF ApplyHook, HookInv, HookTypeOK
<1>1. /\ obj' \in [Hook -> Object] /\ obj'[hook] = Applied(hook)
      /\ \A k \in Hook \ {hook} : obj'[k] = obj[k]
  BY <1>0, AppliedType DEF HookTypeOK
<1>2. HookTypeOK'
  <2>1. waited' \in 0..Timeout /\ outcome' \in Completion
    BY <1>0, NoWait DEF ApplyHook, HookTypeOK, Completion
  <2> QED BY <1>0, <1>1, <2>1 DEF HookTypeOK
<1>3. ProgressInv' /\ OrderInv'
  BY <1>0 DEF HookInv, ProgressInv, OrderInv, InHand
<1>4. StillInv'
  <2>1. hook \notin passed /\ passed \subseteq Hook
    BY <1>0 DEF HookInv, ProgressInv, InHand, HookTypeOK
  <2>2. hook \notin Waitable => obj'[hook].status # "running"
    BY <1>0, <1>1, AppliedType DEF HookInv, StillInv
  <2>3. pc' = "clean" => hook \notin Waitable /\ outcome' = "Succeeded"
    BY <1>0 DEF ApplyHook
  <2> QED BY <1>0, <1>1, <2>1, <2>2, <2>3 DEF HookInv, StillInv
<1> QED BY <1>2, <1>3, <1>4 DEF HookInv

LEMMA AwaitStep ==
  HookInv /\ (Poll \/ PollFails \/ CheckDeadline \/ Sleep) => HookInv'
<1> SUFFICES ASSUME HookInv, Poll \/ PollFails \/ CheckDeadline \/ Sleep
             PROVE  HookInv'
  OBVIOUS
<1>0. /\ HookTypeOK /\ pc \in {"poll", "deadline", "sleep"}
      /\ pc' \in {"poll", "deadline", "sleep", "clean"}
      /\ UNCHANGED <<phase, todo, hook, passed, worked, obj>>
  BY DEF Poll, PollFails, CheckDeadline, Sleep, HookInv, inside
<1>1. HookTypeOK'
  <2>1. obj[hook] \in Object
    BY <1>0 DEF HookTypeOK
  <2>2. HookCompletion(obj[hook]) \in Completion
    BY <2>1 DEF HookCompletion, Completion, Object
  <2>3. outcome' \in Completion /\ waited' \in 0..Timeout
    BY <1>0, <2>2 DEF Poll, PollFails, CheckDeadline, Sleep, HookTypeOK, inside, Completion
  <2> QED BY <1>0, <2>3 DEF HookTypeOK
<1>2. ProgressInv' /\ OrderInv'
  BY <1>0 DEF HookInv, ProgressInv, OrderInv, InHand
<1>3. StillInv'
  <2>1. obj[hook] \in Object
    BY <1>0 DEF HookTypeOK
  <2>2. pc' = "clean" => outcome' # "Running"
          /\ (outcome' = "Succeeded" => obj[hook].status # "running")
    BY <1>0, <2>1 DEF Poll, PollFails, CheckDeadline, Sleep, HookCompletion
  <2> QED BY <1>0, <2>2 DEF HookInv, StillInv
<1> QED BY <1>1, <1>2, <1>3 DEF HookInv

LEMMA CleanStep == HookInv /\ CleanUp => HookInv'
<1> SUFFICES ASSUME HookInv, CleanUp
             PROVE  HookInv'
  OBVIOUS
<1>0. /\ HookTypeOK /\ pc = "clean" /\ hook \in Hook
      /\ UNCHANGED <<phase, todo, hook, outcome, waited, worked>>
  BY DEF CleanUp, HookFails, HookInv, HookTypeOK
<1>1. PICK o \in DeleteTo(hook) \cup {obj[hook]} : obj' = [obj EXCEPT ![hook] = o]
  BY DEF CleanUp
<1>2. /\ obj' \in [Hook -> Object]
      /\ \A k \in Hook : obj'[k].status = "running" => obj[k].status = "running"
  <2>1. obj \in [Hook -> Object] /\ obj[hook] \in Object
    BY <1>0 DEF HookTypeOK
  <2>2. o \in Object /\ (o.status = "none" \/ o.status = obj[hook].status)
    BY <1>0, <2>1, DeleteToType
  <2> QED BY <1>0, <1>1, <2>1, <2>2
<1>3. \/ pc' = "idle" /\ passed' = passed
      \/ outcome # "Failed" /\ pc' = "next" /\ passed' = passed \cup {hook}
  BY DEF CleanUp, HookFails
<1>4. HookTypeOK'
  BY <1>0, <1>2, <1>3 DEF HookTypeOK
<1>5. ProgressInv' /\ OrderInv'
  BY <1>0, <1>3 DEF HookInv, ProgressInv, OrderInv, InHand
<1>6. StillInv'
  <2>1. pc' = "next" => obj[hook].status # "running"
    BY <1>0, <1>3 DEF HookInv, StillInv, HookTypeOK, Completion
  <2> QED BY <1>0, <1>2, <1>3, <2>1 DEF HookInv, StillInv, HookTypeOK
<1> QED BY <1>4, <1>5, <1>6 DEF HookInv

(* The steps that begin or end a phase or a pass.                          *)
LEMMA EnterStep ==
  ASSUME HookInv, NEW p \in Phase, Enter(p), worked' \in BOOLEAN, UNCHANGED obj
  PROVE  HookInv'
<1>1. HookTypeOK'
  BY InPhaseType DEF HookInv, HookTypeOK, Enter
<1>2. ProgressInv' /\ OrderInv'
  BY DEF Enter, ProgressInv, OrderInv, InHand
<1>3. StillInv'
  BY DEF HookInv, StillInv, Enter
<1> QED BY <1>1, <1>2, <1>3 DEF HookInv

LEMMA EndStep ==
  ASSUME HookInv, pc' = "idle",
         UNCHANGED <<phase, todo, hook, outcome, waited, passed, worked>>,
         obj' \in [Hook -> Object],
         \A h \in Hook \ Waitable : obj'[h].status # "running"
  PROVE  HookInv'
<1>1. HookTypeOK'
  BY DEF HookInv, HookTypeOK
<1> QED BY <1>1 DEF HookInv, ProgressInv, OrderInv, StillInv

LEMMA ApplyFailsStep == HookInv /\ ApplyFails => HookInv'
<1> SUFFICES ASSUME HookInv, ApplyFails
             PROVE  HookInv'
  OBVIOUS
<1>0. /\ HookTypeOK /\ hook \in Hook /\ obj \in [Hook -> Object]
      /\ \A h \in Hook \ Waitable : obj[h].status # "running"
  BY DEF HookInv, HookTypeOK, StillInv
<1>1. obj' = obj \/ obj' = [obj EXCEPT ![hook] = Applied(hook)]
  BY DEF ApplyFails
<1>2. /\ obj' \in [Hook -> Object]
      /\ \A h \in Hook \ Waitable : obj'[h].status # "running"
  BY <1>0, <1>1, AppliedType
<1> QED BY <1>2, EndStep DEF ApplyFails, HookFails

LEMMA GiveUpStep == HookInv /\ (DiscoveryFails \/ MainFails \/ Crash) => HookInv'
<1> SUFFICES ASSUME HookInv, DiscoveryFails \/ MainFails \/ Crash
             PROVE  HookInv'
  OBVIOUS
<1>1. /\ obj' \in [Hook -> Object]
      /\ \A h \in Hook \ Waitable : obj'[h].status # "running"
  BY DEF HookInv, HookTypeOK, StillInv, DiscoveryFails, MainFails, Crash
<1> QED BY <1>1, EndStep DEF DiscoveryFails, MainFails, Crash, HookFails, Leave, inside

LEMMA EndPhaseStep == HookInv /\ EndPhase => HookInv'
<1> SUFFICES ASSUME HookInv, EndPhase
             PROVE  HookInv'
  OBVIOUS
<1>0. /\ pc = "next" /\ todo = {} /\ pc' \in {"main", "idle"}
      /\ UNCHANGED <<phase, todo, hook, outcome, waited, passed, worked, obj>>
  BY DEF EndPhase, inside
<1>1. HookTypeOK'
  BY <1>0 DEF HookInv, HookTypeOK
<1>2. ProgressInv' /\ OrderInv'
  BY <1>0 DEF HookInv, ProgressInv, OrderInv, InHand
<1>3. StillInv'
  BY <1>0 DEF HookInv, StillInv
<1> QED BY <1>1, <1>2, <1>3 DEF HookInv

LEMMA HookStep == HookInv /\ [Next]_vars => HookInv'
<1>1. HookInv /\ BeginPass => HookInv'
  BY EnterStep DEF BeginPass, Phase
<1>2. HookInv /\ MainWork => HookInv'
  BY EnterStep DEF MainWork, AfterWork, Phase
<1>3. HookInv /\ UNCHANGED vars => HookInv'
  BY DEF vars, inside, HookInv, HookTypeOK, ProgressInv, OrderInv, StillInv, InHand
<1> QED BY <1>1, <1>2, <1>3, EnvironmentStep, StartStep, ApplyStep, ApplyFailsStep,
           AwaitStep, CleanStep, GiveUpStep, EndPhaseStep
        DEF Next, Step, Environment

(* What has passed, is in hand or is yet to start makes up the phase, in   *)
(* order, and what passed is not running.                                  *)
THEOREM HookInvariant == Spec => []HookInv
BY HookInit, HookStep, PTL DEF Spec

(* run_phase: with any weights and names, no hook is started while one     *)
(* that comes before it has not passed.                                    *)
THEOREM HooksInOrder == Spec => []InOrder
<1>1. HookInv => InOrder
  <2> SUFFICES ASSUME HookInv, pc # "idle",
                      NEW h \in InPhase(phase) \ todo, NEW k \in InPhase(phase),
                      Weight[k] < Weight[h]
                        \/ (Weight[k] = Weight[h] /\ Name[k] < Name[h])
               PROVE  k \in passed
    BY DEF InOrder
  <2>1. Before(k, h)
    BY DEF Before
  <2>2. k \notin todo \cup InHand
    BY <2>1 DEF HookInv, OrderInv
  <2> QED BY <2>2 DEF HookInv, ProgressInv
<1> QED BY <1>1, HookInvariant, PTL

(* hooks.rs and reconcile_inner: the main work starts when all hooks before*)
(* it have passed and stopped running, whatever fails, crashes or lingers. *)
THEOREM HooksBeforeWork == Spec => WorkAwaitsHooks
<1>1. HookInv /\ [Next]_vars =>
        [worked' /\ ~worked =>
           \A h \in InPhase(phase) : h \in passed /\ obj[h].status # "running"]_vars
  <2> SUFFICES ASSUME HookInv, Next, worked', ~worked,
                      NEW h \in InPhase(phase)
               PROVE  h \in passed /\ obj[h].status # "running"
    OBVIOUS
  <2>1. MainWork
    BY DEF Next, Step, BeginPass, StartHook, DiscoveryFails, ApplyHook, ApplyFails,
           Poll, PollFails, CheckDeadline, Sleep, CleanUp, EndPhase, MainFails, Crash,
           HookFails, Leave, Finish, Vanish, UserDeletes, inside
  <2>2. pc = "main"
    BY <2>1 DEF MainWork
  <2> QED BY <2>2 DEF HookInv, ProgressInv, StillInv, InHand
<1> QED BY <1>1, HookInvariant, PTL DEF Spec, WorkAwaitsHooks

-----------------------------------------------------------------------------
(* What a hook awaits was created after the hook was started, has outlived *)
(* the delete of that start, has been told to go, or is gone.              *)
Awaited == {"apply", "poll", "deadline", "sleep"}

Renews(o) == o.status = "none" \/ o.fresh \/ o.spared \/ o.dying

FreshInv == pc \in Awaited /\ Renewed(hook) => Renews(obj[hook])

LEMMA DeletedRenews ==
  ASSUME NEW o \in Object, NEW d \in Deleted(o)
  PROVE  d.status = "none" \/ d.dying
<1>1. CASE d = NoObject
  BY <1>1 DEF NoObject
<1>2. CASE d = [o EXCEPT !.dying = TRUE]
  BY <1>2 DEF Object
<1> QED BY <1>1, <1>2 DEF Deleted

LEMMA StartFresh ==
  ASSUME HookTypeOK, NEW h \in Hook, StartHook(h)
  PROVE  FreshInv'
<1> SUFFICES ASSUME Renewed(h)'
             PROVE  Renews(obj'[h])
  BY DEF FreshInv, StartHook, Renews
<1>1. "before-hook-creation" \in Policies(h)
  BY DEF Renewed, Policies, DeletePolicy
<1>2. PICK o \in DeleteTo(h) :
        obj' = [obj EXCEPT ![h] = [status |-> o.status, fresh |-> FALSE,
                                   spared |-> TRUE /\ o = obj[h], dying |-> o.dying]]
  BY <1>1 DEF StartHook
<1>3. obj \in [Hook -> Object] /\ obj[h] \in Object
  BY DEF HookTypeOK
<1>4. /\ obj'[h].status = o.status /\ obj'[h].dying = o.dying
      /\ obj'[h].spared = (o = obj[h])
  BY <1>2, <1>3
<1>5. CASE o \in Deleted(obj[h])
  BY <1>3, <1>4, <1>5, DeletedRenews DEF Renews
<1>6. CASE o = obj[h]
  BY <1>4, <1>6 DEF Renews
<1> QED BY <1>2, <1>5, <1>6 DEF DeleteTo

LEMMA ApplyFresh == HookTypeOK /\ FreshInv /\ ApplyHook => FreshInv'
<1> SUFFICES ASSUME HookTypeOK, FreshInv, ApplyHook, Renewed(hook)
             PROVE  Renews(obj'[hook])
  BY DEF FreshInv, ApplyHook, Renews, Renewed
<1>1. hook \in Hook /\ obj \in [Hook -> Object] /\ obj' = [obj EXCEPT ![hook] = Applied(hook)]
  BY DEF HookTypeOK, ApplyHook
<1>2. Renews(obj[hook])
  BY DEF FreshInv, ApplyHook, Awaited
<1>3. Renews(Applied(hook))
  BY <1>2 DEF Applied, Renews
<1> QED BY <1>1, <1>3

LEMMA EnvironmentFresh ==
  ASSUME HookTypeOK, FreshInv, NEW h \in Hook, Environment(h)
  PROVE  FreshInv'
<1>1. UNCHANGED <<pc, hook>> /\ obj \in [Hook -> Object] /\ hook \in Hook
  BY DEF Environment, Finish, Vanish, UserDeletes, HookTypeOK, inside
<1>2. \A k \in Hook \ {h} : obj'[k] = obj[k]
  BY <1>1 DEF Environment, Finish, Vanish, UserDeletes
<1>3. Renews(obj[h]) => Renews(obj'[h])
  <2>1. CASE Finish(h)
    BY <1>1, <2>1 DEF Finish, Object, Renews
  <2>2. CASE Vanish(h)
    BY <1>1, <2>2 DEF Vanish, NoObject, Renews
  <2>3. CASE UserDeletes(h)
    <3>1. PICK o \in Deleted(obj[h]) : obj' = [obj EXCEPT ![h] = o]
      BY <2>3 DEF UserDeletes
    <3> QED BY <1>1, <3>1, DeletedRenews DEF Renews
  <2> QED BY <2>1, <2>2, <2>3 DEF Environment
<1>4. Renews(obj[hook]) => Renews(obj'[hook])
  BY <1>1, <1>2, <1>3
<1> QED BY <1>1, <1>4 DEF FreshInv, Renewed, Renews

LEMMA FreshStep ==
  ASSUME HookTypeOK, FreshInv, [Next]_vars
  PROVE  FreshInv'
<1>1. ASSUME NEW h \in Hook, StartHook(h) PROVE FreshInv'
  BY <1>1, StartFresh
<1>2. CASE ApplyHook
  BY <1>2, ApplyFresh
<1>3. CASE Poll \/ PollFails \/ CheckDeadline \/ Sleep \/ UNCHANGED vars
  <2>1. UNCHANGED <<hook, obj>> /\ (pc' \in Awaited => pc \in Awaited)
    BY <1>3 DEF Poll, PollFails, CheckDeadline, Sleep, vars, inside, Awaited
  <2> QED BY <2>1 DEF FreshInv, Renewed, Renews
<1>4. CASE DiscoveryFails \/ ApplyFails \/ CleanUp \/ EndPhase \/ MainWork \/ MainFails
           \/ BeginPass \/ Crash
  <2>1. pc' \notin Awaited
    BY <1>4 DEF DiscoveryFails, ApplyFails, CleanUp, EndPhase, MainWork, MainFails,
       BeginPass, Crash, HookFails, Leave, Enter, Awaited
  <2> QED BY <2>1 DEF FreshInv
<1>5. ASSUME NEW h \in Hook, Environment(h) PROVE FreshInv'
  BY <1>5, EnvironmentFresh
<1> QED BY <1>1, <1>2, <1>3, <1>4, <1>5 DEF Next, Step, Environment

(* before-hook-creation, "so the hook runs fresh": whatever is killed,     *)
(* fails or is deleted by users, a Job of an earlier pass makes such a hook*)
(* pass only if the delete that was to renew it failed or is not over.     *)
THEOREM HooksFreshOrLeft == Spec => FreshOrLeft
<1>1. Init => FreshInv
  BY DEF Init, FreshInv, Awaited
<1>2. HookInv /\ FreshInv /\ [Next]_vars => FreshInv'
  BY FreshStep DEF HookInv
<1>3. HookInv /\ FreshInv /\ [Next]_vars =>
        [\A h \in Waitable : Passes(h) /\ Renewed(h) =>
           obj[h].fresh \/ obj[h].spared \/ obj[h].dying]_vars
  <2> SUFFICES ASSUME HookInv, FreshInv, Next, NEW h \in Waitable, Passes(h), Renewed(h)
               PROVE  obj[h].fresh \/ obj[h].spared \/ obj[h].dying
    OBVIOUS
  <2>1. CASE Poll
    <3>1. hook = h /\ pc = "poll" /\ HookCompletion(obj[h]) = "Succeeded"
      BY <2>1 DEF Passes, Poll
    <3>2. obj[h].status # "none"
      BY <3>1 DEF HookCompletion
    <3> QED BY <3>1, <3>2 DEF FreshInv, Awaited, Renews
  <2>2. CASE ~Poll
    BY <2>2 DEF Passes, Next, Step, BeginPass, StartHook, DiscoveryFails, ApplyHook,
       ApplyFails, PollFails, CheckDeadline, Sleep, CleanUp, EndPhase, MainWork, MainFails,
       Crash, HookFails, Leave, Enter, Finish, Vanish, UserDeletes, inside
  <2> QED BY <2>1, <2>2
<1> QED BY <1>1, <1>2, <1>3, HookInvariant, PTL DEF Spec, FreshOrLeft
=============================================================================
