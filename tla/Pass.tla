-------------------------------- MODULE Pass --------------------------------
(***************************************************************************)
(* The reconcile pass of reconcile.rs, prune.rs and the List-based drift   *)
(* check of drift.rs: pass after pass, of the controller or of a `sync`,   *)
(* brings a cluster to what Git declares and remembers in the state        *)
(* ConfigMap what it has applied. Passes do not overlap (module            *)
(* TimelyLease), but record_error of a failed one runs after its Lease is  *)
(* released and may overlap the next pass of another process. Git, cluster *)
(* users, API failures and crashes interleave with every await of a pass.  *)
(*                                                                         *)
(* A key is what ResourceKey holds: how a manifest, or a listing, names a  *)
(* resource. Two keys may name one object (an omitted namespace and the    *)
(* default one, two versions of one kind); a listing uses the key with the *)
(* namespace spelled out.                                                  *)
(***************************************************************************)
EXTENDS Integers, FiniteSets

CONSTANTS
  Key,         \* resource keys
  GvkOf,       \* GvkOf[k]: the (group, version, kind) of k
  Object,      \* objects the cluster can store
  ObjectOf,    \* ObjectOf[k]: the object the API server finds under k
  Listed,      \* the keys whose namespace is the object's own, as in listings
  Commit,      \* commits of the tracked branch
  Manifests,   \* Manifests[c]: the content of each key commit c declares
  Broken,      \* commits with a file that does not parse
  NoDirs,      \* commits where the sync path matches no directory
  Weather,     \* what may happen before the world quietens, one set of things
               \* or another: the API, a hook or a process fails ("api", "hook",
               \* "crash"), another process begins a pass before an error is
               \* recorded ("overlap"), users edit objects or mark them as to
               \* be kept ("edit", "keep")
  Editable     \* the objects that users touch

CONSTANTS NoSpec,   \* "this manifest has no spec"
          Foreign,  \* a value only cluster users write
          NoSha     \* last_sha of a state that never recorded a commit

ASSUME PassConstants ==
  /\ Listed \subseteq Key
  /\ Broken \subseteq Commit /\ NoDirs \subseteq Commit
  /\ \A w \in Weather : w \subseteq {"api", "hook", "crash", "overlap", "edit", "keep"}
  /\ Editable \subseteq Object
  /\ \A k \in Key : ObjectOf[k] \in Object
  /\ \A c \in Commit : DOMAIN Manifests[c] \subseteq Key
  /\ \A c \in Commit : \A k \in DOMAIN Manifests[c] :
       Manifests[c][k].keep \in BOOLEAN
  /\ \A c \in NoDirs : DOMAIN Manifests[c] = {}

(* The part of an object drift compares (its spec, or, of a manifest       *)
(* without one, everything else), the rest of what Git declares of it, and *)
(* who marked it with helm.sh/resource-policy: keep, Git or users.         *)
Content == UNION {{Manifests[c][k] : k \in DOMAIN Manifests[c]} : c \in Commit}
SpecValue == {m.spec : m \in Content} \cup {NoSpec, Foreign}
MetaValue == {m.meta : m \in Content} \cup {Foreign}

Absent == [found |-> FALSE]
Live == [found : {TRUE}, spec : SpecValue, meta : MetaValue,
         keep : SUBSET {"git", "user"}, managed : BOOLEAN]

NoState == [recorded |-> FALSE]
(* Of apply_failures, which no pass reads back, only the writing is kept:   *)
(* see CleanMeansSynced.                                                   *)
State == [recorded : {TRUE}, sha : Commit \cup {NoSha}, applied : SUBSET Key,
          error : BOOLEAN]

VARIABLES
  head,     \* the commit at the head of the tracked branch
  live,     \* live[o]: the object in the cluster, or Absent
  state,    \* the state ConfigMap, or NoState
  weather,  \* what may happen until ...
  quiet,    \* ... Git, users and faults have come to rest
  pc,       \* where the pass is
  mode,     \* which branch of reconcile_inner it took
  sha,      \* the commit it checked out
  prev,     \* the state it read
  todo,     \* keys still to apply
  failed,   \* keys whose apply failed
  targets,  \* keys still to prune
  victim,   \* the key whose delete is in flight, as a set
  post,     \* the post hooks failed
  recorder, \* the state record_error of a failed pass has read, as a set
  touched   \* the objects that users touched since the pass last looked at,
            \* or wrote, them

world == <<head, live, state, weather, quiet, recorder>>
locals == <<pc, mode, sha, prev, todo, failed, targets, victim, post, touched>>
vars == <<world, locals>>

Control == {"idle", "pre", "apply", "post", "detect", "list", "prune",
            "deleting", "write", "record"}
Mode == {"teardown", "full", "drift"}

TypeOK ==
  /\ head \in Commit
  /\ live \in [Object -> Live \cup {Absent}]
  /\ state \in State \cup {NoState}
  /\ weather \in Weather /\ quiet \in BOOLEAN
  /\ pc \in Control
  /\ mode \in Mode
  /\ sha \in Commit
  /\ prev \in State \cup {NoState}
  /\ todo \subseteq DOMAIN Manifests[sha]
  /\ failed \subseteq Key /\ targets \subseteq Key /\ victim \subseteq Key
  /\ post \in BOOLEAN
  /\ recorder \subseteq State \cup {NoState}
  /\ touched \subseteq Object

Init ==
  /\ head \in Commit
  /\ live = [o \in Object |-> Absent]
  /\ state = NoState /\ prev = NoState
  /\ weather \in Weather /\ quiet = FALSE
  /\ pc = "idle" /\ mode = "full"
  /\ sha = head
  /\ todo = {} /\ failed = {} /\ targets = {} /\ victim = {}
  /\ post = FALSE
  /\ recorder = {} /\ touched = {}

-----------------------------------------------------------------------------
May(kind) == kind \in weather /\ ~quiet

(* Nothing is declared where no directory matches.                         *)
Desired(c) == DOMAIN Manifests[c]

AppliedIn(s) == IF s.recorded THEN s.applied ELSE {}

(* The keys a label-filtered List of kind g yields.                        *)
Listing(g) ==
  {k \in Listed : GvkOf[k] = g /\ live[ObjectOf[k]].found
                               /\ live[ObjectOf[k]].managed}

(* specs_differ: a manifest with a spec is compared on its spec only, any  *)
(* other on its annotations too.                                           *)
Differs(m, o) ==
  IF m.spec # NoSpec THEN o.spec # m.spec
  ELSE o.meta # m.meta \/ (m.keep /\ o.keep = {})

(* The declared objects of the kinds a drift check has listed.             *)
Seen(kinds) == {ObjectOf[k] : k \in {l \in Desired(sha) : GvkOf[l] \in kinds}}

Kept(o) == o.found /\ o.keep # {}

(* Server-side apply with force: every declared field is taken over; an    *)
(* annotation that Git no longer declares is dropped, but not one of users.*)
Applied(m, o) ==
  [found |-> TRUE, spec |-> m.spec, meta |-> m.meta, managed |-> TRUE,
   keep |-> (IF o.found THEN o.keep \ {"git"} ELSE {}) \cup (IF m.keep THEN {"git"} ELSE {})]

Goto(from, to) == pc = from /\ pc' = to

(* reconcile_inner returns: its locals are gone.                           *)
Return(to) ==
  /\ pc' = to
  /\ mode' = "full" /\ prev' = NoState /\ post' = FALSE
  /\ todo' = {} /\ failed' = {} /\ targets' = {} /\ victim' = {} /\ touched' = {}
  /\ UNCHANGED sha

-----------------------------------------------------------------------------
(* X_Y is a faulty variant of X, of the kind the properties exclude: drift *)
(* that misses changed or unlisted resources, an apply failure not noted,  *)
(* prune without its exceptions, and record_error that takes the commit for*)
(* synced.                                                                 *)
Detect_MissingOnly ==
  /\ pc = "detect"
  /\ pc' = IF \A k \in Desired(sha) : k \in Listing(GvkOf[k])
           THEN "list" ELSE "pre"
  /\ UNCHANGED <<world, mode, sha, prev, todo, failed, targets, victim, post, touched>>

Detect_SkipsUnlisted ==
  /\ pc = "detect"
  /\ \E seen \in SUBSET {GvkOf[k] : k \in Desired(sha)} :
       /\ May("api") \/ \A k \in Desired(sha) : GvkOf[k] \in seen
       /\ pc' = IF \A k \in Desired(sha) : GvkOf[k] \in seen =>
                     /\ k \in Listing(GvkOf[k])
                     /\ ~Differs(Manifests[sha][k], live[ObjectOf[k]])
                THEN "list" ELSE "pre"
       /\ touched' = touched \ Seen(seen)
  /\ UNCHANGED <<world, mode, sha, prev, todo, failed, targets, victim, post>>

ApplyFails_Unnoted(k) ==
  /\ May("api")
  /\ pc = "apply" /\ k \in todo
  /\ todo' = todo \ {k}
  /\ UNCHANGED <<world, pc, mode, sha, prev, failed, targets, victim, post, touched>>

PruneList_DeclaredToo ==
  /\ Goto("list", "prune")
  /\ targets' = AppliedIn(prev)
                  \cup UNION {Listing(GvkOf[k]) : k \in AppliedIn(prev)}
  /\ UNCHANGED <<world, mode, sha, prev, todo, failed, victim, post, touched>>

PruneGet_IgnoresKeep(k) ==
  /\ Goto("prune", "deleting")
  /\ k \in targets
  /\ live[ObjectOf[k]].found
  /\ targets' = targets \ {k}
  /\ victim' = {k}
  /\ touched' = touched \ {ObjectOf[k]}
  /\ UNCHANGED <<world, mode, sha, prev, todo, failed, post>>

RecordWrite_AsSynced ==
  /\ recorder # {} /\ recorder' = {}
  /\ state' = [recorded |-> TRUE, sha |-> sha, applied |-> Desired(sha),
               error |-> TRUE]
  /\ UNCHANGED <<head, live, weather, quiet, locals>>

-----------------------------------------------------------------------------
(* A pass begins: state::read, checkout of the head (or of the commit a    *)
(* rollback names) and parse. An empty or unmatched tree with resources    *)
(* applied is a teardown; a moved head, a rollback or no state a full      *)
(* apply; anything else a drift check.                                     *)
Teardown(c) == Desired(c) = {} /\ AppliedIn(state) # {}

Changed(c, rollback) == ~state.recorded \/ rollback \/ state.sha # c

Unusable(c) == c \in Broken \/ (c \in NoDirs /\ AppliedIn(state) = {})

MayBegin == pc = "idle" /\ ("overlap" \in weather \/ recorder = {})

Begin(c, rollback) ==
  /\ MayBegin /\ ~Unusable(c)
  /\ mode' = (IF Teardown(c) THEN "teardown"
              ELSE IF Changed(c, rollback) THEN "full" ELSE "drift")
  /\ pc' = (IF mode' = "drift" THEN "detect" ELSE "pre")
  /\ sha' = c /\ prev' = state /\ todo' = Desired(c)
  /\ UNCHANGED <<world, failed, targets, victim, post, touched>>

BeginPass == Begin(head, FALSE)

Rollback == ~quiet /\ \E c \in Commit : Begin(c, TRUE)

(* Reading the state, the git fetch, a malformed manifest, or a sync path  *)
(* matching nothing when nothing is applied, fail the pass.                *)
BeginFails ==
  /\ MayBegin
  /\ May("api") \/ Unusable(head) \/ (~quiet /\ \E c \in Commit : Unusable(c))
  /\ Return("record")
  /\ UNCHANGED world

(* detect lists every declared kind and compares. A kind whose List fails  *)
(* reads as missing. Any drift re-applies everything.                      *)
Detect ==
  /\ pc = "detect"
  /\ \E seen \in SUBSET {GvkOf[k] : k \in Desired(sha)} :
       /\ May("api") \/ \A k \in Desired(sha) : GvkOf[k] \in seen
       /\ LET drifts == {k \in Desired(sha) :
                \/ GvkOf[k] \notin seen
                \/ k \notin Listing(GvkOf[k])
                \/ Differs(Manifests[sha][k], live[ObjectOf[k]])}
          IN  pc' = IF drifts = {} THEN "list" ELSE "pre"
       /\ touched' = touched \ Seen(seen)
  /\ UNCHANGED <<world, mode, sha, prev, todo, failed, targets, victim, post>>

(* PreSync or pre-delete hooks.                                            *)
PreHooks ==
  /\ Goto("pre", IF mode = "teardown" THEN "list" ELSE "apply")
  /\ UNCHANGED <<world, mode, sha, prev, todo, failed, targets, victim, post, touched>>

PreHooksFail ==
  /\ May("hook")
  /\ pc = "pre" /\ Return("record")
  /\ UNCHANGED world

(* apply_all, one manifest at a time. A failed one is noted and the others *)
(* go on; the failure may hide an apply that took effect.                  *)
ApplyOne(k) ==
  /\ pc = "apply" /\ k \in todo
  /\ todo' = todo \ {k}
  /\ live' = [live EXCEPT ![ObjectOf[k]] = Applied(Manifests[sha][k], @)]
  /\ touched' = touched \ {ObjectOf[k]}
  /\ \/ failed' = failed
     \/ May("api") /\ failed' = failed \cup {k}
  /\ UNCHANGED <<head, state, weather, quiet, recorder, pc, mode, sha, prev, targets, victim, post>>

ApplyFails(k) ==
  /\ May("api")
  /\ pc = "apply" /\ k \in todo
  /\ todo' = todo \ {k}
  /\ failed' = failed \cup {k}
  /\ UNCHANGED <<world, pc, mode, sha, prev, targets, victim, post, touched>>

ApplyDone ==
  /\ todo = {}
  /\ Goto("apply", "post")
  /\ UNCHANGED <<world, mode, sha, prev, todo, failed, targets, victim, post, touched>>

(* PostSync or post-delete hooks: a failure is only recorded.              *)
PostHooks ==
  /\ Goto("post", IF mode = "teardown" THEN "write" ELSE "list")
  /\ \/ post' = FALSE
     \/ May("hook") /\ post' = TRUE
  /\ UNCHANGED <<world, mode, sha, prev, todo, failed, targets, victim, touched>>

-----------------------------------------------------------------------------
(* prune: the previously applied keys that Git no longer declares, and by  *)
(* way of safety net whatever managed objects of the previously applied    *)
(* kinds it does not declare. A List that fails is skipped.                *)
PruneList ==
  /\ Goto("list", "prune")
  /\ \E seen \in SUBSET {GvkOf[k] : k \in AppliedIn(prev)} :
       /\ May("api") \/ \A k \in AppliedIn(prev) : GvkOf[k] \in seen
       /\ targets' = (AppliedIn(prev) \cup UNION {Listing(g) : g \in seen})
                       \ Desired(sha)
  /\ UNCHANGED <<world, mode, sha, prev, todo, failed, victim, post, touched>>

(* The live object is inspected before its delete is sent: one that is     *)
(* gone, or is to be kept, is left alone, and so is one that cannot be read*)
PruneSkip(k) ==
  /\ pc = "prune" /\ k \in targets
  /\ targets' = targets \ {k}
  /\ \/ ~live[ObjectOf[k]].found
     \/ Kept(live[ObjectOf[k]])
     \/ May("api")
  /\ UNCHANGED <<world, pc, mode, sha, prev, todo, failed, victim, post, touched>>

PruneGet(k) ==
  /\ Goto("prune", "deleting")
  /\ k \in targets
  /\ live[ObjectOf[k]].found /\ ~Kept(live[ObjectOf[k]])
  /\ targets' = targets \ {k}
  /\ victim' = {k}
  /\ touched' = touched \ {ObjectOf[k]}
  /\ UNCHANGED <<world, mode, sha, prev, todo, failed, post>>

PruneDelete ==
  /\ Goto("deleting", "prune")
  /\ live' = [o \in Object |->
               IF \E k \in victim : ObjectOf[k] = o THEN Absent ELSE live[o]]
  /\ victim' = {}
  /\ UNCHANGED <<head, state, weather, quiet, recorder, mode, sha, prev, todo, failed, targets, post, touched>>

(* A failed delete is logged and forgotten.                                *)
PruneDeleteFails ==
  /\ May("api")
  /\ Goto("deleting", "prune")
  /\ victim' = {}
  /\ UNCHANGED <<world, mode, sha, prev, todo, failed, targets, post, touched>>

PruneDone ==
  /\ targets = {}
  /\ Goto("prune", IF mode = "teardown" THEN "post" ELSE "write")
  /\ UNCHANGED <<world, mode, sha, prev, todo, failed, targets, victim, post, touched>>

-----------------------------------------------------------------------------
(* state::write of a finished pass: Git's keys become the applied set,     *)
(* whatever became of their applies and of the deletes.                    *)
NewState == [recorded |-> TRUE, sha |-> sha, applied |-> Desired(sha),
             error |-> post]

WriteState ==
  /\ pc = "write" /\ Return("idle")
  /\ state' = NewState
  /\ UNCHANGED <<head, live, weather, quiet, recorder>>

WriteFails ==
  /\ May("api")
  /\ pc = "write" /\ Return("record")
  /\ state' \in {state, NewState}
  /\ UNCHANGED <<head, live, weather, quiet, recorder>>

(* record_error of a failed pass: it reads the state and writes it back    *)
(* with the error, outside the Lease.                                      *)
ErrorState(s) ==
  IF s.recorded THEN [s EXCEPT !.error = TRUE]
  ELSE [recorded |-> TRUE, sha |-> NoSha, applied |-> {}, error |-> TRUE]

RecordRead ==
  /\ recorder = {}
  /\ pc = "record" /\ Return("idle")
  /\ recorder' = {state}
  /\ UNCHANGED <<head, live, state, weather, quiet>>

(* Another process fails without a pass of its own: its acquire is         *)
(* answered with an error.                                                 *)
OtherFails ==
  /\ "overlap" \in weather /\ May("api")
  /\ recorder = {} /\ recorder' = {state}
  /\ UNCHANGED <<head, live, state, weather, quiet, locals>>

RecordWrite ==
  /\ \E s \in recorder : state' = ErrorState(s)
  /\ recorder' = {}
  /\ UNCHANGED <<head, live, weather, quiet, locals>>

RecordFails ==
  /\ May("api") \/ May("crash")
  /\ \/ pc = "record" /\ Return("idle") /\ UNCHANGED recorder
     \/ recorder # {} /\ recorder' = {} /\ UNCHANGED locals
  /\ UNCHANGED <<head, live, state, weather, quiet>>

(* The process dies, or run_controller aborts the pass; a new one starts   *)
(* from the state ConfigMap.                                               *)
Crash ==
  /\ May("crash")
  /\ pc # "idle" /\ Return("idle")
  /\ UNCHANGED world

-----------------------------------------------------------------------------
(* The world outside, until it comes to rest.                              *)
Push ==
  /\ ~quiet
  /\ \E c \in Commit \ {head} : head' = c
  /\ UNCHANGED <<live, state, weather, quiet, recorder, locals>>

(* kubectl edit, label, annotate or delete of a live object, and creation  *)
(* of one nobody manages.                                                  *)
Edit(o) ==
  /\ o \in Editable
  /\ \/ /\ May("edit") /\ live[o].found
        /\ \/ live' = [live EXCEPT ![o].spec = IF @ = NoSpec THEN @ ELSE Foreign]
           \/ live' = [live EXCEPT ![o].meta = Foreign]
           \/ live' = [live EXCEPT ![o].managed = FALSE]
           \/ live' = [live EXCEPT ![o] = Absent]
     \/ /\ May("keep") /\ live[o].found
        /\ \E keep \in {{}, live[o].keep \cup {"user"}} :
             live' = [live EXCEPT ![o].keep = keep]
     \/ /\ May("edit") /\ ~live[o].found
        /\ live' = [live EXCEPT ![o] = [found |-> TRUE, spec |-> Foreign,
                      meta |-> Foreign, keep |-> {}, managed |-> FALSE]]
  /\ touched' = IF pc \in {"idle", "record"} THEN touched ELSE touched \cup {o}
  /\ UNCHANGED <<head, state, weather, quiet, recorder, pc, mode, sha, prev, todo, failed,
                 targets, victim, post>>

Quieten ==
  /\ quiet' = TRUE
  /\ UNCHANGED <<head, live, state, weather, recorder, locals>>

PassStep ==
  \/ BeginPass \/ BeginFails
  \/ Detect \/ PreHooks
  \/ \E k \in Key : ApplyOne(k) \/ PruneSkip(k) \/ PruneGet(k)
  \/ ApplyDone \/ PostHooks
  \/ PruneList \/ PruneDelete \/ PruneDone
  \/ WriteState \/ RecordRead

Failure ==
  \/ PreHooksFail \/ (\E k \in Key : ApplyFails(k))
  \/ PruneDeleteFails \/ WriteFails \/ RecordFails \/ Crash
  \/ OtherFails

Outside == Push \/ Rollback \/ (\E o \in Object : Edit(o)) \/ Quieten

Next == PassStep \/ RecordWrite \/ Failure \/ Outside

Spec == Init /\ [][Next]_vars

(* run_loop polls forever, and every call of a pass, and of record_error,  *)
(* returns.                                                                *)
FairSpec == Spec /\ WF_vars(PassStep) /\ WF_vars(RecordWrite)

-----------------------------------------------------------------------------
InSync(k, c) ==
  LET o == live[ObjectOf[k]]
  IN  o.found /\ o.managed /\ ~Differs(Manifests[c][k], o)

(* prune.rs: "Honors helm.sh/resource-policy: keep (never delete)". An     *)
(* object marked keep, by Git or by users, survives its manifest's removal,*)
(* unless users mark it after prune got it: the delete that follows has no *)
(* precondition.                                                           *)
KeepsKept ==
  PruneDelete => \A o \in Object \ touched : Kept(live[o]) => live'[o].found

KeepNeverPruned == [][KeepsKept]_vars

(* prune.rs: it deletes resources "that no longer exist in Git": never the *)
(* object of a manifest of the commit being synced.                        *)
PrunesUndeclared ==
  PruneDelete =>
    \A k \in Desired(sha) : live[ObjectOf[k]].found => live'[ObjectOf[k]].found

DeclaredNeverPruned == [][PrunesUndeclared]_vars

(* A pass that records no apply failure has found or brought every         *)
(* declared resource in sync, whatever calls failed on its way, but for    *)
(* what users touched since the pass compared or applied it.               *)
CleanWrite ==
  pc = "write" /\ state' = NewState /\ failed = {} =>
    \A k \in Desired(sha) : InSync(k, sha) \/ ObjectOf[k] \in touched

CleanMeansSynced == [][CleanWrite]_vars

(* lock.rs: "with passes serialized, the SSA state::write cannot lose      *)
(* updates". Recording an error leaves what passes have recorded of their  *)
(* syncs as it is.                                                         *)
RecordsError ==
  RecordWrite =>
    AppliedIn(state') = AppliedIn(state) /\ (state.recorded => state'.sha = state.sha)

ErrorLosesNoSync == [][RecordsError]_vars

-----------------------------------------------------------------------------
(* Why these hold. An object about to be deleted was not to be kept, and   *)
(* only users mark it since.                                               *)
VictimsUnkept ==
  pc = "deleting" =>
    \A k \in victim : Kept(live[ObjectOf[k]]) => ObjectOf[k] \in touched

(* Prune only ever goes after keys the commit does not declare.            *)
TargetsUndeclared == (targets \cup victim) \cap Desired(sha) = {}

TeardownDeclaresNothing == mode = "teardown" => Desired(sha) = {}

(* A pass starts with nothing left over from an earlier one, and has all of*)
(* the commit ahead of it until it applies.                                *)
StartsAfresh ==
  /\ pc \in {"idle", "detect", "pre"} => failed = {}
  /\ pc = "idle" => targets = {} /\ victim = {}
  /\ pc \in {"detect", "pre"} => todo = Desired(sha)

SyncedSoFar ==
  pc \in {"apply", "post", "list", "prune", "deleting", "write"} =>
    \A k \in Desired(sha) :
      \/ k \in failed
      \/ pc = "apply" /\ k \in todo
      \/ InSync(k, sha) \/ ObjectOf[k] \in touched

PassInv == TypeOK /\ VictimsUnkept /\ StartsAfresh /\ TargetsUndeclared
                  /\ TeardownDeclaresNothing

SyncInv == PassInv /\ SyncedSoFar

-----------------------------------------------------------------------------
(* Self-healing: once Git, users and faults come to rest, the cluster comes*)
(* to hold what the head declares, and stays there.                        *)
HeadUsable == head \notin Broken

Synced == HeadUsable => \A k \in Desired(head) : InSync(k, head)

Converges == <>quiet => <>[]Synced

(* Nothing managed is left over for good that the head does not declare,   *)
(* unless it is to be kept.                                                *)
NoLeftovers ==
  HeadUsable =>
    \A o \in Object : live[o].found /\ live[o].managed /\ live[o].keep = {} =>
      \E k \in Desired(head) : ObjectOf[k] = o

OrphansPruned == weather \subseteq {"hook", "edit"} /\ <>quiet => <>[]NoLeftovers
=============================================================================
