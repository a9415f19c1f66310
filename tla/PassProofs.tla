----------------------------- MODULE PassProofs -----------------------------
(***************************************************************************)
(* Proofs about the reconcile pass, for any set of keys, commits, faults   *)
(* and edits: its types, that prune never deletes what was marked keep when*)
(* it looked, and, when no two keys name one object, that it never deletes *)
(* what the commit declares and that a pass recording no apply failure left*)
(* in sync what users have not touched since.                              *)
(***************************************************************************)
EXTENDS Pass, TLAPS

(* No two resource keys name one object of the cluster.                    *)
Injective == \A k, l \in Key : ObjectOf[k] = ObjectOf[l] => k = l

LEMMA DesiredKeys ==
  ASSUME NEW c \in Commit PROVE Desired(c) \subseteq Key
BY PassConstants DEF Desired

LEMMA AppliedLive ==
  ASSUME NEW c \in Commit, NEW k \in Desired(c), NEW o \in Live \cup {Absent}
  PROVE  Applied(Manifests[c][k], o) \in Live
<1> DEFINE m == Manifests[c][k]
<1>1. m \in Content
  BY DEF Content, Desired
<1>2. m.spec \in SpecValue /\ m.meta \in MetaValue
  BY <1>1 DEF SpecValue, MetaValue
<1>3. (IF o.found THEN o.keep \ {"git"} ELSE {}) \in SUBSET {"git", "user"}
  <2>1. CASE o.found
    <3>1. o \in Live
      BY <2>1 DEF Absent
    <3>2. o.keep \in SUBSET {"git", "user"}
      BY <3>1 DEF Live
    <3> QED BY <2>1, <3>2
  <2>2. CASE ~o.found
    BY <2>2
  <2> QED BY <2>1, <2>2
<1>4. (IF m.keep THEN {"git"} ELSE {}) \in SUBSET {"git", "user"}
  OBVIOUS
<1> HIDE DEF m
<1> QED BY <1>2, <1>3, <1>4 DEF Applied, Live, m

LEMMA AppliedInKeys ==
  ASSUME NEW s \in State \cup {NoState} PROVE AppliedIn(s) \subseteq Key
<1>1. CASE s \in State
  <2>1. s.applied \subseteq Key
    BY <1>1 DEF State
  <2> QED BY <2>1 DEF AppliedIn
<1>2. CASE s = NoState
  <2>1. ~s.recorded
    BY <1>2 DEF NoState
  <2> QED BY <2>1 DEF AppliedIn
<1> QED BY <1>1, <1>2

(* Objects in the cluster and recorded states are told apart from none.    *)
LEMMA FoundIsLive ==
  ASSUME NEW o \in Live \cup {Absent}, o.found PROVE o \in Live
BY DEF Absent

LEMMA RecordedIsState ==
  ASSUME NEW s \in State \cup {NoState}, s.recorded PROVE s \in State
BY DEF NoState

-----------------------------------------------------------------------------
LEMMA TypeInit == Init => TypeOK
BY DEF Init, TypeOK, Control, Mode, Live, State

LEMMA ReturnType ==
  ASSUME TypeOK, NEW to \in Control, Return(to),
         head' \in Commit, live' \in [Object -> Live \cup {Absent}],
         state' \in State \cup {NoState}, quiet' \in BOOLEAN,
         weather' \in Weather, recorder' \subseteq State \cup {NoState}
  PROVE  TypeOK'
BY DEF TypeOK, Return, Mode

LEMMA BeginType ==
  ASSUME TypeOK, NEW c \in Commit, NEW r \in BOOLEAN, Begin(c, r)
  PROVE  TypeOK'
BY DEF TypeOK, Begin, Desired, Control, Mode, world

LEMMA NewStateType == TypeOK => NewState \in State
BY DesiredKeys DEF TypeOK, NewState, State

LEMMA ErrorStateType ==
  ASSUME NEW s \in State \cup {NoState}
  PROVE  ErrorState(s) \in State
<1>1. CASE s.recorded
  <2>1. s \in State
    BY <1>1, RecordedIsState
  <2> QED BY <1>1, <2>1 DEF ErrorState, State
<1>2. CASE ~s.recorded
  BY <1>2 DEF ErrorState, State
<1> QED BY <1>1, <1>2

LEMMA EditType ==
  ASSUME TypeOK, NEW o \in Object, Edit(o)
  PROVE  TypeOK'
<1>1. live' \in [Object -> Live \cup {Absent}]
  <2>1. CASE live[o].found
    <3>1. live[o] \in Live
      BY <2>1, FoundIsLive DEF TypeOK
    <3>2. /\ [live[o] EXCEPT !.spec = IF @ = NoSpec THEN @ ELSE Foreign] \in Live
          /\ [live[o] EXCEPT !.meta = Foreign] \in Live
          /\ [live[o] EXCEPT !.managed = FALSE] \in Live
      BY <3>1 DEF Live, SpecValue, MetaValue
    <3>3. \A keep \in {{}, live[o].keep \cup {"user"}} :
            [live[o] EXCEPT !.keep = keep] \in Live
      BY <3>1 DEF Live
    <3> QED BY <2>1, <3>2, <3>3 DEF TypeOK, Edit
  <2>2. CASE ~live[o].found
    <3>1. [found |-> TRUE, spec |-> Foreign, meta |-> Foreign,
           keep |-> {}, managed |-> FALSE] \in Live
      BY DEF Live, SpecValue, MetaValue
    <3> QED BY <2>2, <3>1 DEF TypeOK, Edit
  <2> QED BY <2>1, <2>2
<1>2. touched' \subseteq Object
  BY DEF TypeOK, Edit
<1> QED BY <1>1, <1>2 DEF TypeOK, Edit

LEMMA PassStepType == TypeOK /\ PassStep => TypeOK'
<1> SUFFICES ASSUME TypeOK, PassStep PROVE TypeOK'
  OBVIOUS
<1>1. CASE BeginPass
  BY <1>1, BeginType DEF BeginPass, TypeOK
<1>2. CASE BeginFails
  BY <1>2, ReturnType DEF BeginFails, Control, world, TypeOK
<1>3. CASE Detect
  <2>1. touched' \subseteq Object
    BY <1>3 DEF Detect, TypeOK
  <2> QED BY <1>3, <2>1 DEF Detect, TypeOK, Control, world
<1>4. CASE PreHooks
  BY <1>4 DEF PreHooks, Goto, TypeOK, Control, world
<1>5. ASSUME NEW k \in Key, ApplyOne(k) PROVE TypeOK'
  <2>1. live[ObjectOf[k]] \in Live \cup {Absent}
    BY PassConstants DEF TypeOK
  <2>2. Applied(Manifests[sha][k], live[ObjectOf[k]]) \in Live
    BY <1>5, <2>1, AppliedLive DEF ApplyOne, TypeOK, Desired
  <2>3. live' \in [Object -> Live \cup {Absent}]
    BY <1>5, <2>2 DEF ApplyOne, TypeOK
  <2>4. failed' \subseteq Key /\ touched' \subseteq Object
    BY <1>5 DEF ApplyOne, TypeOK
  <2> QED BY <1>5, <2>3, <2>4 DEF ApplyOne, TypeOK
<1>6. ASSUME NEW k \in Key, PruneSkip(k) PROVE TypeOK'
  BY <1>6 DEF PruneSkip, TypeOK, world
<1>7. ASSUME NEW k \in Key, PruneGet(k) PROVE TypeOK'
  BY <1>7 DEF PruneGet, Goto, TypeOK, Control, world
<1>8. CASE ApplyDone
  BY <1>8 DEF ApplyDone, Goto, TypeOK, Control, world
<1>9. CASE PostHooks
  BY <1>9 DEF PostHooks, Goto, TypeOK, Control, world
<1>10. CASE PruneList
  <2>1. AppliedIn(prev) \subseteq Key
    BY AppliedInKeys DEF TypeOK
  <2>2. \A g : Listing(g) \subseteq Key
    BY PassConstants DEF Listing
  <2>3. targets' \subseteq Key
    BY <1>10, <2>1, <2>2 DEF PruneList
  <2> QED BY <1>10, <2>3 DEF PruneList, Goto, TypeOK, Control, world
<1>11. CASE PruneDelete
  BY <1>11 DEF PruneDelete, Goto, TypeOK, Control
<1>12. CASE PruneDone
  BY <1>12 DEF PruneDone, Goto, TypeOK, Control, world
<1>13. CASE WriteState
  BY <1>13, NewStateType, ReturnType DEF WriteState, Control, TypeOK
<1>14. CASE RecordRead
  BY <1>14, ReturnType DEF RecordRead, Control, TypeOK
<1> QED
  BY <1>1, <1>2, <1>3, <1>4, <1>5, <1>6, <1>7, <1>8, <1>9, <1>10, <1>11,
     <1>12, <1>13, <1>14 DEF PassStep

LEMMA FailureType == TypeOK /\ Failure => TypeOK'
<1> SUFFICES ASSUME TypeOK, Failure PROVE TypeOK'
  OBVIOUS
<1>1. CASE PreHooksFail
  BY <1>1, ReturnType DEF PreHooksFail, Control, world, TypeOK
<1>2. ASSUME NEW k \in Key, ApplyFails(k) PROVE TypeOK'
  BY <1>2 DEF ApplyFails, TypeOK, world
<1>3. CASE PruneDeleteFails
  BY <1>3 DEF PruneDeleteFails, Goto, TypeOK, Control, world
<1>4. CASE WriteFails
  BY <1>4, NewStateType, ReturnType DEF WriteFails, Control, TypeOK
<1>5. CASE RecordFails
  <2>1. CASE Return("idle") /\ UNCHANGED recorder
    BY <1>5, <2>1, ReturnType DEF RecordFails, Control, TypeOK
  <2>2. CASE recorder' = {} /\ UNCHANGED locals
    BY <1>5, <2>2 DEF RecordFails, locals, TypeOK
  <2> QED BY <1>5, <2>1, <2>2 DEF RecordFails
<1>6. CASE Crash
  BY <1>6, ReturnType DEF Crash, Control, world, TypeOK
<1>7. CASE OtherFails
  BY <1>7 DEF OtherFails, locals, TypeOK
<1> QED BY <1>1, <1>2, <1>3, <1>4, <1>5, <1>6, <1>7 DEF Failure

LEMMA RecordType == TypeOK /\ RecordWrite => TypeOK'
BY ErrorStateType DEF RecordWrite, TypeOK, locals

LEMMA OutsideType == TypeOK /\ Outside => TypeOK'
<1> SUFFICES ASSUME TypeOK, Outside PROVE TypeOK'
  OBVIOUS
<1>1. CASE Push
  BY <1>1 DEF Push, TypeOK, locals
<1>2. CASE Rollback
  BY <1>2, BeginType DEF Rollback
<1>3. ASSUME NEW o \in Object, Edit(o) PROVE TypeOK'
  BY <1>3, EditType
<1>4. CASE Quieten
  BY <1>4 DEF Quieten, TypeOK, locals
<1> QED BY <1>1, <1>2, <1>3, <1>4 DEF Outside

LEMMA TypeStep == TypeOK /\ [Next]_vars => TypeOK'
<1>1. TypeOK /\ UNCHANGED vars => TypeOK'
  BY DEF TypeOK, vars, world, locals
<1> QED BY <1>1, PassStepType, RecordType, FailureType, OutsideType
     DEF Next

(* Whatever fails, crashes or is edited, the state ConfigMap only ever     *)
(* holds what a pass can have written, and a pass only ever has manifests  *)
(* of the commit it checked out left to apply.                             *)
THEOREM PassTypeOK == Spec => []TypeOK
BY TypeInit, TypeStep, PTL DEF Spec

-----------------------------------------------------------------------------
(* A pass that is not deleting, after a step, has no victim to account for.*)
LEMMA NotDeleting == pc' # "deleting" => VictimsUnkept'
BY DEF VictimsUnkept

LEMMA VictimsInit == Init => VictimsUnkept
BY DEF Init, VictimsUnkept

LEMMA EditKeepsUnkept ==
  ASSUME TypeOK, VictimsUnkept, NEW o \in Object, Edit(o)
  PROVE  VictimsUnkept'
<1>1. \A u \in Object \ {o} : live'[u] = live[u]
  BY DEF Edit, TypeOK
<1>2. pc' = pc /\ victim' = victim
  BY DEF Edit
<1>3. pc = "deleting" => touched' = touched \cup {o}
  BY DEF Edit
<1>4. \A k \in victim : ObjectOf[k] \in Object
  BY PassConstants DEF TypeOK
<1> QED BY <1>1, <1>2, <1>3, <1>4 DEF VictimsUnkept

LEMMA VictimsStep ==
  ASSUME TypeOK, VictimsUnkept, [Next]_vars
  PROVE  VictimsUnkept'
<1>1. CASE PassStep
  <2>1. ASSUME NEW k \in Key, PruneGet(k) PROVE VictimsUnkept'
    BY <2>1 DEF PruneGet, Goto, VictimsUnkept, world
  <2>2. CASE \E k \in Key : PruneGet(k)
    BY <2>1, <2>2
  <2>3. CASE ~\E k \in Key : PruneGet(k)
    <3>1. pc' # "deleting"
      BY <1>1, <2>3 DEF PassStep, BeginPass, Begin, BeginFails, Return, Detect,
         PreHooks, ApplyOne, PruneSkip, ApplyDone, PostHooks, PruneList,
         PruneDelete, PruneDone, WriteState, RecordRead, Goto
    <3> QED BY <3>1, NotDeleting
  <2> QED BY <2>2, <2>3
<1>2. CASE Failure
  <2>1. CASE OtherFails \/ (RecordFails /\ UNCHANGED locals)
    BY <2>1 DEF OtherFails, RecordFails, locals, VictimsUnkept
  <2>2. CASE ~(OtherFails \/ (RecordFails /\ UNCHANGED locals))
    <3>1. pc' # "deleting"
      BY <1>2, <2>2 DEF Failure, PreHooksFail, ApplyFails, PruneDeleteFails,
         WriteFails, RecordFails, Crash, Return, Goto
    <3> QED BY <3>1, NotDeleting
  <2> QED BY <2>1, <2>2
<1>3. CASE Outside
  <2>1. CASE Push
    BY <2>1 DEF Push, VictimsUnkept, locals
  <2>2. CASE Rollback
    <3>1. pc' # "deleting"
      BY <2>2 DEF Rollback, Begin
    <3> QED BY <3>1, NotDeleting
  <2>3. ASSUME NEW o \in Object, Edit(o) PROVE VictimsUnkept'
    BY <2>3, EditKeepsUnkept
  <2>4. CASE Quieten
    BY <2>4 DEF Quieten, VictimsUnkept, locals
  <2> QED BY <1>3, <2>1, <2>2, <2>3, <2>4 DEF Outside
<1>4. CASE UNCHANGED vars
  BY <1>4 DEF VictimsUnkept, vars, world, locals
<1>5. CASE RecordWrite
  BY <1>5 DEF RecordWrite, VictimsUnkept, locals
<1> QED BY <1>1, <1>2, <1>3, <1>4, <1>5 DEF Next

-----------------------------------------------------------------------------
LEMMA PassInvInit == Init => PassInv
BY TypeInit, VictimsInit DEF Init, PassInv, StartsAfresh, TargetsUndeclared,
   TeardownDeclaresNothing

LEMMA ReturnInv ==
  ASSUME NEW to \in {"idle", "record"}, Return(to)
  PROVE  StartsAfresh' /\ TargetsUndeclared' /\ TeardownDeclaresNothing'
BY DEF Return, StartsAfresh, TargetsUndeclared, TeardownDeclaresNothing

LEMMA BeginInv ==
  ASSUME PassInv, NEW c \in Commit, NEW r \in BOOLEAN, Begin(c, r)
  PROVE  StartsAfresh' /\ TargetsUndeclared' /\ TeardownDeclaresNothing'
BY DEF PassInv, Begin, MayBegin, Teardown, Desired, StartsAfresh,
   TargetsUndeclared, TeardownDeclaresNothing

LEMMA PassStepInv ==
  ASSUME PassInv, PassStep
  PROVE  StartsAfresh' /\ TargetsUndeclared' /\ TeardownDeclaresNothing'
<1> USE DEF PassInv, StartsAfresh, TargetsUndeclared, TeardownDeclaresNothing,
        Desired
<1>1. CASE BeginPass
  BY <1>1, BeginInv DEF BeginPass, TypeOK
<1>2. CASE BeginFails \/ WriteState \/ RecordRead
  BY <1>2, ReturnInv DEF BeginFails, WriteState, RecordRead
<1>3. CASE Detect
  BY <1>3 DEF Detect
<1>4. CASE PreHooks \/ ApplyDone \/ PostHooks
  BY <1>4 DEF PreHooks, ApplyDone, PostHooks, Goto
<1>5. ASSUME NEW k \in Key, ApplyOne(k)
      PROVE  StartsAfresh' /\ TargetsUndeclared' /\ TeardownDeclaresNothing'
  BY <1>5 DEF ApplyOne
<1>6. ASSUME NEW k \in Key, PruneSkip(k) \/ PruneGet(k)
      PROVE  StartsAfresh' /\ TargetsUndeclared' /\ TeardownDeclaresNothing'
  BY <1>6 DEF PruneSkip, PruneGet, Goto
<1>7. CASE PruneList
  BY <1>7 DEF PruneList, Goto
<1>8. CASE PruneDelete \/ PruneDone
  BY <1>8 DEF PruneDelete, PruneDone, Goto
<1> QED BY <1>1, <1>2, <1>3, <1>4, <1>5, <1>6, <1>7, <1>8 DEF PassStep

LEMMA FailureInv ==
  ASSUME PassInv, Failure
  PROVE  StartsAfresh' /\ TargetsUndeclared' /\ TeardownDeclaresNothing'
<1>1. CASE PreHooksFail \/ WriteFails \/ Crash
  BY <1>1, ReturnInv DEF PreHooksFail, WriteFails, Crash
<1>2. CASE PruneDeleteFails \/ \E k \in Key : ApplyFails(k)
  BY <1>2 DEF PruneDeleteFails, ApplyFails, Goto, PassInv, StartsAfresh,
     TargetsUndeclared, TeardownDeclaresNothing, Desired
<1>3. CASE OtherFails \/ RecordFails
  BY <1>3, ReturnInv DEF OtherFails, RecordFails, locals, PassInv,
     StartsAfresh, TargetsUndeclared, TeardownDeclaresNothing, Desired
<1> QED BY <1>1, <1>2, <1>3 DEF Failure

LEMMA OutsideInv ==
  ASSUME PassInv, Outside
  PROVE  StartsAfresh' /\ TargetsUndeclared' /\ TeardownDeclaresNothing'
<1>1. CASE Rollback
  BY <1>1, BeginInv DEF Rollback
<1>2. CASE Push \/ (\E o \in Object : Edit(o)) \/ Quieten
  BY <1>2 DEF Push, Edit, Quieten, locals, PassInv, StartsAfresh,
     TargetsUndeclared, TeardownDeclaresNothing, Desired
<1> QED BY <1>1, <1>2 DEF Outside

LEMMA PassInvStep == PassInv /\ [Next]_vars => PassInv'
<1>1. PassInv /\ [Next]_vars => TypeOK' /\ VictimsUnkept'
  BY TypeStep, VictimsStep DEF PassInv
<1>2. PassInv /\ UNCHANGED vars => PassInv'
  BY <1>1 DEF PassInv, StartsAfresh, TargetsUndeclared,
     TeardownDeclaresNothing, Desired, vars, world, locals
<1>3. PassInv /\ RecordWrite => PassInv'
  BY <1>1 DEF RecordWrite, Next, locals, PassInv, StartsAfresh,
     TargetsUndeclared, TeardownDeclaresNothing, Desired
<1> QED
  BY <1>1, <1>2, <1>3, PassStepInv, FailureInv, OutsideInv DEF Next, PassInv

(* While a delete is in flight its object is marked keep only if users have*)
(* done so since prune got it; every target of a prune is a key the commit *)
(* does not declare, and a teardown has nothing declared.                  *)
THEOREM PassInvariant == Spec => []PassInv
BY PassInvInit, PassInvStep, PTL DEF Spec

LEMMA PruneKeeps ==
  ASSUME PassInv PROVE KeepsKept
<1> SUFFICES ASSUME PruneDelete, NEW o \in Object \ touched, Kept(live[o])
             PROVE  live'[o].found
  BY DEF KeepsKept
<1>1. ~\E k \in victim : ObjectOf[k] = o
  BY DEF PassInv, VictimsUnkept, PruneDelete, Goto
<1>2. live'[o] = live[o]
  BY <1>1 DEF PruneDelete
<1> QED BY <1>2 DEF Kept

(* prune.rs, "Honors helm.sh/resource-policy: keep (never delete)": for any*)
(* resources, commits and failures, and whatever users edit and mark, a    *)
(* pass deletes no object that bears the annotation, whoever put it there, *)
(* unless it was put there between prune's get and its delete.             *)
THEOREM PassKeepNeverPruned == Spec => KeepNeverPruned
<1>1. PassInv /\ [Next]_vars => [KeepsKept]_vars
  BY PruneKeeps
<1> QED BY <1>1, PassInvariant, PTL DEF Spec, KeepNeverPruned

LEMMA PruneSparesDeclared ==
  ASSUME Injective, PassInv
  PROVE  PrunesUndeclared
<1> SUFFICES ASSUME PruneDelete, NEW k \in Desired(sha), live[ObjectOf[k]].found
             PROVE  live'[ObjectOf[k]].found
  BY DEF PrunesUndeclared
<1>1. k \in Key /\ victim \subseteq Key /\ k \notin victim
  BY DesiredKeys DEF PassInv, TypeOK, TargetsUndeclared
<1>2. ObjectOf[k] \in Object /\ ~\E v \in victim : ObjectOf[v] = ObjectOf[k]
  BY <1>1, PassConstants DEF Injective
<1> QED BY <1>2 DEF PruneDelete

(* prune deletes what "no longer exist[s] in Git" and nothing else: when no*)
(* two keys name one object, no pass deletes an object of a manifest of the*)
(* commit it syncs, whatever fails and whatever users edit.                *)
THEOREM PassDeclaredNeverPruned ==
  ASSUME Injective
  PROVE  Spec => DeclaredNeverPruned
<1>1. PassInv /\ [Next]_vars => [PrunesUndeclared]_vars
  BY PruneSparesDeclared
<1> QED BY <1>1, PassInvariant, PTL DEF Spec, DeclaredNeverPruned

-----------------------------------------------------------------------------
(* What an apply leaves behind is in sync.                                 *)
LEMMA AppliedInSync ==
  ASSUME NEW m, NEW o
  PROVE  LET a == Applied(m, o)
         IN  a.found /\ a.managed /\ ~Differs(m, a)
<1> DEFINE a == Applied(m, o)
<1>1. /\ a.found /\ a.managed /\ a.spec = m.spec /\ a.meta = m.meta
      /\ m.keep => "git" \in a.keep
  BY DEF Applied
<1> HIDE DEF a
<1>2. ~Differs(m, a)
  BY <1>1 DEF Differs
<1> QED BY <1>1, <1>2 DEF a

LEMMA InSyncUnchanged ==
  ASSUME live' = live, NEW k, NEW c PROVE InSync(k, c)' = InSync(k, c)
BY DEF InSync, Differs

(* Outside the stretch from the first apply to the write of the state, a   *)
(* pass promises nothing.                                                  *)
LEMMA SyncedElsewhere ==
  ASSUME pc' \notin {"apply", "post", "list", "prune", "deleting", "write"}
  PROVE  SyncedSoFar'
BY DEF SyncedSoFar

(* Steps inside that stretch that change neither the cluster nor what is   *)
(* left to apply.                                                          *)
LEMMA SyncedAlong ==
  ASSUME SyncedSoFar, live' = live, sha' = sha, failed' = failed,
         pc \in {"apply", "post", "list", "prune", "deleting", "write"},
         todo' = todo, pc = "apply" => pc' = "apply" \/ todo = {},
         \A k \in Desired(sha) : ObjectOf[k] \in touched => ObjectOf[k] \in touched'
  PROVE  SyncedSoFar'
<1> SUFFICES ASSUME NEW k \in Desired(sha)
             PROVE  \/ k \in failed
                    \/ pc' = "apply" /\ k \in todo
                    \/ InSync(k, sha)' \/ ObjectOf[k] \in touched'
  BY DEF SyncedSoFar, Desired
<1>1. \/ k \in failed
      \/ pc = "apply" /\ k \in todo
      \/ InSync(k, sha) \/ ObjectOf[k] \in touched
  BY DEF SyncedSoFar
<1> QED BY <1>1, InSyncUnchanged DEF InSync

LEMMA DetectSynced ==
  ASSUME SyncInv, Detect PROVE SyncedSoFar'
<1>1. CASE pc' = "pre"
  BY <1>1, SyncedElsewhere
<1>2. CASE pc' = "list"
  <2> SUFFICES ASSUME NEW k \in Desired(sha) PROVE InSync(k, sha)'
    BY <1>2 DEF SyncedSoFar, Detect, Desired
  <2>1. /\ k \in Listing(GvkOf[k])
        /\ ~Differs(Manifests[sha][k], live[ObjectOf[k]])
    BY <1>2 DEF Detect
  <2>2. InSync(k, sha)
    BY <2>1 DEF InSync, Listing
  <2> QED BY <2>2 DEF Detect, InSync, Differs, world
<1> QED BY <1>1, <1>2 DEF Detect

LEMMA PreHooksSynced ==
  ASSUME SyncInv, PreHooks PROVE SyncedSoFar'
<1>1. CASE mode = "teardown"
  BY <1>1 DEF PreHooks, Goto, SyncInv, PassInv, TeardownDeclaresNothing,
     SyncedSoFar, Desired
<1>2. CASE mode # "teardown"
  BY <1>2 DEF PreHooks, Goto, SyncInv, PassInv, StartsAfresh, SyncedSoFar,
     Desired
<1> QED BY <1>1, <1>2

LEMMA ApplyOneSynced ==
  ASSUME Injective, SyncInv, NEW k \in Key, ApplyOne(k) PROVE SyncedSoFar'
<1>1. pc' = "apply" /\ pc = "apply" /\ sha' = sha /\ todo' = todo \ {k}
      /\ k \in Desired(sha) /\ failed \subseteq failed'
      /\ live' = [live EXCEPT ![ObjectOf[k]] = Applied(Manifests[sha][k], @)]
      /\ touched' = touched \ {ObjectOf[k]}
  BY DEF ApplyOne, SyncInv, PassInv, TypeOK, Desired
<1> SUFFICES ASSUME NEW l \in Desired(sha)
             PROVE  \/ l \in failed' \/ l \in todo'
                    \/ InSync(l, sha)' \/ ObjectOf[l] \in touched'
  BY <1>1 DEF SyncedSoFar, Desired
<1>2. l \in Key /\ ObjectOf[l] \in Object /\ ObjectOf[k] \in Object
  BY DesiredKeys, PassConstants DEF SyncInv, PassInv, TypeOK
<1>3. CASE l = k
  <2>1. live'[ObjectOf[k]] = Applied(Manifests[sha][k], live[ObjectOf[k]])
    BY <1>1, <1>2 DEF SyncInv, PassInv, TypeOK
  <2> QED BY <1>1, <1>3, <2>1, AppliedInSync DEF InSync, Differs
<1>4. CASE l # k
  <2>1. live'[ObjectOf[l]] = live[ObjectOf[l]]
    BY <1>1, <1>2, <1>4 DEF Injective, SyncInv, PassInv, TypeOK
  <2>2. ObjectOf[l] # ObjectOf[k]
    BY <1>2, <1>4 DEF Injective
  <2>3. \/ l \in failed \/ l \in todo
        \/ InSync(l, sha) \/ ObjectOf[l] \in touched
    BY <1>1 DEF SyncInv, SyncedSoFar
  <2> QED BY <1>1, <1>4, <2>1, <2>2, <2>3 DEF InSync, Differs
<1> QED BY <1>3, <1>4

LEMMA PruneGetSynced ==
  ASSUME Injective, SyncInv, NEW v \in Key, PruneGet(v) PROVE SyncedSoFar'
<1>1. \A k \in Desired(sha) : ObjectOf[k] # ObjectOf[v]
  <2>1. v \notin Desired(sha) /\ Desired(sha) \subseteq Key
    BY DesiredKeys DEF PruneGet, SyncInv, PassInv, TypeOK, TargetsUndeclared
  <2> QED BY <2>1 DEF Injective
<1> QED BY <1>1, SyncedAlong DEF SyncInv, PruneGet, Goto, world

LEMMA PruneDeleteSynced ==
  ASSUME Injective, SyncInv, PruneDelete PROVE SyncedSoFar'
<1>1. /\ pc = "deleting" /\ pc' = "prune" /\ sha' = sha /\ failed' = failed
      /\ touched' = touched
  BY DEF PruneDelete, Goto
<1> SUFFICES ASSUME NEW k \in Desired(sha), k \notin failed,
                    ObjectOf[k] \notin touched
             PROVE  InSync(k, sha)'
  BY <1>1 DEF SyncedSoFar, Desired
<1>2. k \in Key /\ victim \subseteq Key /\ k \notin victim
  BY DesiredKeys DEF SyncInv, PassInv, TypeOK, TargetsUndeclared
<1>3. ObjectOf[k] \in Object /\ ~\E v \in victim : ObjectOf[v] = ObjectOf[k]
  BY <1>2, PassConstants DEF Injective
<1>4. live'[ObjectOf[k]] = live[ObjectOf[k]]
  BY <1>3 DEF PruneDelete
<1>5. InSync(k, sha)
  BY <1>1 DEF SyncInv, SyncedSoFar
<1> QED BY <1>1, <1>4, <1>5 DEF InSync, Differs

LEMMA EditSynced ==
  ASSUME SyncInv, NEW o \in Object, Edit(o) PROVE SyncedSoFar'
<1>1. \A u \in Object \ {o} : live'[u] = live[u]
  BY DEF Edit, SyncInv, PassInv, TypeOK
<1>2. pc' = pc /\ sha' = sha /\ todo' = todo /\ failed' = failed
  BY DEF Edit
<1>3. pc \notin {"idle", "record"} => touched' = touched \cup {o}
  BY DEF Edit
<1> SUFFICES ASSUME NEW k \in Desired(sha), ObjectOf[k] # o,
                    InSync(k, sha)
             PROVE  InSync(k, sha)'
  BY <1>2, <1>3 DEF SyncInv, SyncedSoFar, Desired
<1>4. ObjectOf[k] \in Object
  BY DesiredKeys, PassConstants DEF SyncInv, PassInv, TypeOK
<1> QED BY <1>1, <1>2, <1>4 DEF InSync, Differs

LEMMA SyncedStep ==
  ASSUME Injective, SyncInv, [Next]_vars
  PROVE  SyncedSoFar'
<1> USE DEF SyncInv
<1>1. CASE PassStep
  <2>1. CASE BeginPass \/ BeginFails \/ WriteState \/ RecordRead
    BY <2>1, SyncedElsewhere DEF BeginPass, Begin, BeginFails, WriteState,
       RecordRead, Return
  <2>2. CASE Detect     BY <2>2, DetectSynced
  <2>3. CASE PreHooks   BY <2>3, PreHooksSynced
  <2>4. ASSUME NEW k \in Key, ApplyOne(k) PROVE SyncedSoFar'
    BY <2>4, ApplyOneSynced
  <2>5. ASSUME NEW k \in Key, PruneSkip(k) \/ PruneGet(k) PROVE SyncedSoFar'
    BY <2>5, SyncedAlong, PruneGetSynced DEF PruneSkip, world
  <2>6. CASE ApplyDone \/ PostHooks \/ PruneList \/ PruneDone
    BY <2>6, SyncedAlong DEF ApplyDone, PostHooks, PruneList, PruneDone, Goto,
       world
  <2>7. CASE PruneDelete  BY <2>7, PruneDeleteSynced
  <2> QED
    BY <1>1, <2>1, <2>2, <2>3, <2>4, <2>5, <2>6, <2>7 DEF PassStep
<1>2. CASE Failure
  <2>1. CASE PreHooksFail \/ WriteFails \/ Crash
    BY <2>1, SyncedElsewhere DEF PreHooksFail, WriteFails, Crash, Return
  <2>2. ASSUME NEW k \in Key, ApplyFails(k) PROVE SyncedSoFar'
    BY <2>2 DEF ApplyFails, SyncedSoFar, InSync, Differs, Desired, world
  <2>3. CASE PruneDeleteFails
    BY <2>3, SyncedAlong DEF PruneDeleteFails, Goto, world
  <2>4. CASE OtherFails \/ RecordFails
    BY <2>4, SyncedElsewhere DEF OtherFails, RecordFails, Return, locals,
       SyncedSoFar, InSync, Differs, Desired
  <2> QED BY <1>2, <2>1, <2>2, <2>3, <2>4 DEF Failure
<1>3. CASE Outside
  <2>1. CASE Rollback
    BY <2>1, SyncedElsewhere DEF Rollback, Begin
  <2>2. CASE Push \/ Quieten
    BY <2>2 DEF Push, Quieten, locals, SyncedSoFar, InSync, Differs, Desired
  <2>3. ASSUME NEW o \in Object, Edit(o) PROVE SyncedSoFar'
    BY <2>3, EditSynced
  <2> QED BY <1>3, <2>1, <2>2, <2>3 DEF Outside
<1>4. CASE UNCHANGED vars
  BY <1>4 DEF vars, world, locals, SyncedSoFar, InSync, Differs, Desired
<1>5. CASE RecordWrite
  BY <1>5 DEF RecordWrite, locals, SyncedSoFar, InSync, Differs, Desired
<1> QED BY <1>1, <1>2, <1>3, <1>4, <1>5 DEF Next

(* From its first apply to its write of the state, each resource a pass    *)
(* declares is either noted as failed, still to be applied, in sync, or    *)
(* touched by users since.                                                 *)
THEOREM SyncInvariant ==
  ASSUME Injective
  PROVE  Spec => []SyncInv
<1>1. Init => SyncInv
  BY PassInvInit DEF Init, SyncInv, SyncedSoFar
<1>2. SyncInv /\ [Next]_vars => SyncInv'
  BY PassInvStep, SyncedStep DEF SyncInv
<1> QED BY <1>1, <1>2, PTL DEF Spec

(* A pass that records no apply failure has seen every declared resource in*)
(* sync that users have not touched since, if no two keys name one object: *)
(* neither the prune that follows the applies nor a failing List spoils it.*)
THEOREM PassCleanMeansSynced ==
  ASSUME Injective
  PROVE  Spec => CleanMeansSynced
<1>1. SyncInv /\ [Next]_vars => [CleanWrite]_vars
  BY DEF SyncInv, SyncedSoFar, CleanWrite
<1> QED BY <1>1, SyncInvariant, PTL DEF Spec, CleanMeansSynced

=============================================================================
