------------------------------- MODULE Report -------------------------------
(* What a pass reports and the probe makes of it: drift (drift.rs, module    *)
(* SpecDiff) and health (resource_health.rs, module ResourceHealth) of the   *)
(* objects it lists, written to the state ConfigMap (state.rs) and read by   *)
(* `leancd health` (health.rs). The controllers of Kubernetes roll the       *)
(* applied objects out, and users edit and delete them, meanwhile. Prune,    *)
(* hooks and the race of two processes are those of modules Pass and Hooks.  *)
EXTENDS SpecDiff, ResourceHealth, FiniteSets

CONSTANTS
  Managed,    \* the resources Git declares, in the order of the manifests
  Worlds,     \* the kinds they may have: functions of the resources
  NameOf,     \* NameOf[world][r]: the name and namespace of r
  Commit,     \* commits of the branch
  Manifest,   \* Manifest[kind][c]: what commit c declares of the resource
  Bodies,     \* Bodies[kind]: what a live object may be
  Serve(_, _, _), \* Serve(kind, live, git): what it is once git is applied to it
  Edits,      \* Edits[kind]: what users make of it
  Statuses,   \* Statuses[kind]: of a kind that rolls out no pods; the first is
              \* that of a new object, the last the one it is to reach
  Mishaps     \* Mishaps[world]: how often users, pods, pushes and failures interfere

Res == ToSet(Managed)

ASSUME ManagedAssumption ==
  /\ Managed \in Seq(Res)
  /\ \A i, j \in DOMAIN Managed : Managed[i] = Managed[j] => i = j
  /\ Commit # {}
  /\ \A w \in Worlds : Mishaps[w] \in Nat

(* What Git declares is an object, and once applied it is there.             *)
ASSUME BodyAssumption ==
  \A w \in Worlds : \A r \in Res :
    LET k == w[r] IN
    /\ k # "none" /\ Edits[k] \subseteq Bodies[k]
    /\ \A body \in Bodies[k] : body \in Json /\ body.t = "object"
    /\ \A c \in Commit :
         /\ Manifest[k][c] \in Json /\ Manifest[k][c].t = "object"
         /\ \A live \in Bodies[k] \cup {Obj(<<>>)} :
              LET body == Serve(k, live, Manifest[k][c])
              IN  body \in Bodies[k] /\ Holds(Manifest[k][c], body)

(* Workloads are of one replica, and no spec has a key that is a path.       *)
ASSUME KindAssumption ==
  \A w \in Worlds : \A r \in Res :
    LET k == w[r] IN
    IF k \in Workload
    THEN \A body \in Bodies[k] :
           /\ k # "DaemonSet" => Get(Get(body, "spec"), "replicas") = Num(1)
           /\ ~Has(Get(body, "spec"), "updateStrategy.type")
    ELSE /\ Statuses[k] \in Seq(ToSet(Statuses[k])) /\ Statuses[k] # <<>>
         /\ k = "HorizontalPodAutoscaler" =>
              \A s \in ToSet(Statuses[k]) : s.conditions \in Seq(ToSet(s.conditions))

VARIABLES
  kind, git, obj,
  pods,       \* of a workload: those of the live and of an earlier template
  pc, sha, full, todo,
  seen,       \* what the pass found of each resource
  failed,     \* the resources whose apply failed
  touched,    \* those that users changed since the pass began
  state,      \* the state ConfigMap
  stale,      \* last_sync_epoch is over poll_interval * health_stale_factor ago
  left        \* mishaps yet to come

pass == <<pc, sha, full, todo, seen, failed, touched>>
cluster == <<obj, pods>>
vars == <<kind, git, cluster, pass, state, stale, left>>

Mishap == left > 0 /\ left' = left - 1

-----------------------------------------------------------------------------
(* Objects of the cluster (external).                                        *)
Absent == [kind |-> "none"]
Exists(r) == obj[r] # Absent

Live(k, body, status) == [kind |-> k, deleting |-> FALSE, body |-> body, status |-> status]

NoPods == [has |-> {}, up |-> {}, current |-> "new"]

NoStatus == [observed |-> "never", updated |-> 0, replicas |-> 0, ready |-> 0,
             available |-> 0, desired |-> 0, deadline |-> FALSE, failure |-> FALSE,
             updateRevision |-> "new", currentRevision |-> "new", up |-> {}]

NewStatus(k) == IF k \in Workload THEN NoStatus ELSE Head(Statuses[k])

Replace(p) ==
  [has |-> IF p.has = {} THEN {} ELSE {"old"},
   up |-> IF p.up = {} THEN {} ELSE {"old"},
   current |-> IF p.has = {} THEN "new" ELSE "old"]

Template(body) == Get(Get(body, "spec"), "template")

(* The API server stores a body; a new spec is a new generation, a new       *)
(* template makes the pods there are old ones.                               *)
Store(r, body) ==
  LET k == kind[r]
      behind == k \in Workload /\ obj[r].status.observed = "current" /\ obj[r].body # body
      status == IF behind THEN [obj[r].status EXCEPT !.observed = "behind"] ELSE obj[r].status
  IN  IF ~Exists(r)
      THEN /\ obj' = [obj EXCEPT ![r] = Live(k, body, NewStatus(k))]
           /\ pods' = [pods EXCEPT ![r] = NoPods]
      ELSE /\ obj' = [obj EXCEPT ![r] = [Live(k, body, status) EXCEPT !.deleting = obj[r].deleting]]
           /\ pods' = [pods EXCEPT ![r] =
                IF Template(body) = Template(obj[r].body) THEN @ ELSE Replace(@)]

Paused(r) == Same(Get(spec(obj[r]), "paused"), Bool(TRUE))

(* A Deployment brings the new pod up before the old one goes, the others    *)
(* after; a ReplicaSet keeps the pods it has.                                *)
Roll(r) ==
  /\ Exists(r) /\ kind[r] \in Workload /\ ~Paused(r)
  /\ LET p == pods[r] IN
     \/ /\ "new" \notin p.has
        /\ p.has = {} \/ kind[r] = "Deployment"
        /\ pods' = [pods EXCEPT ![r].has = @ \cup {"new"}]
     \/ /\ "old" \in p.has /\ kind[r] # "ReplicaSet"
        /\ kind[r] = "Deployment" => "new" \in p.up
        /\ pods' = [pods EXCEPT ![r] =
                      [has |-> p.has \ {"old"}, up |-> p.up \ {"old"}, current |-> p.current]]
     \/ /\ p.has \ p.up # {}
        /\ pods' = [pods EXCEPT ![r].up = p.has]
  /\ UNCHANGED <<kind, git, obj, pass, state, stale, left>>

PodFails(r) ==
  /\ Mishap /\ pods[r].up # {}
  /\ pods' = [pods EXCEPT ![r].up = {}]
  /\ UNCHANGED <<kind, git, obj, pass, state, stale>>

(* A workload's controller writes its status. That of a Deployment may give  *)
(* the rollout up, that of a ReplicaSet fail to create pods.                 *)
SyncStatus(r) ==
  /\ Exists(r) /\ kind[r] \in Workload
  /\ LET p == pods[r]
         current == IF kind[r] = "StatefulSet" /\ p.up # {"new"} THEN p.current ELSE "new"
     IN \E stuck \in BOOLEAN :
          /\ IF stuck THEN Mishap /\ kind[r] \in {"Deployment", "ReplicaSet"} ELSE left' = left
          /\ obj' = [obj EXCEPT ![r].status =
               [observed |-> "current", updated |-> Cardinality(p.has \cap {"new"}),
                replicas |-> Cardinality(p.has), ready |-> Cardinality(p.up),
                available |-> Cardinality(p.up), desired |-> 1,
                deadline |-> stuck, failure |-> stuck,
                updateRevision |-> "new", currentRevision |-> current, up |-> p.up]]
          /\ pods' = [pods EXCEPT ![r].current = current]
  /\ cluster' # cluster
  /\ UNCHANGED <<kind, git, pass, state, stale>>

(* Any other object may take any status, and takes the one it is to reach.   *)
Evolve(r) ==
  /\ Exists(r) /\ kind[r] \notin Workload
  /\ \E s \in ToSet(Statuses[kind[r]]) \ {obj[r].status} :
       /\ IF s = Last(Statuses[kind[r]]) THEN left' = left ELSE Mishap
       /\ obj' = [obj EXCEPT ![r].status = s]
  /\ UNCHANGED <<kind, git, pods, pass, state, stale>>

Edit(r) ==
  /\ Mishap /\ Exists(r)
  /\ \E body \in Edits[kind[r]] : Store(r, body)
  /\ touched' = touched \cup {r}
  /\ UNCHANGED <<kind, git, pc, sha, full, todo, seen, failed, state, stale>>

Delete(r) ==
  /\ Mishap /\ Exists(r) /\ ~obj[r].deleting
  /\ obj' = [obj EXCEPT ![r].deleting = TRUE]
  /\ UNCHANGED <<kind, git, pods, pass, state, stale>>

Vanish(r) ==
  /\ Exists(r) /\ obj[r].deleting
  /\ obj' = [obj EXCEPT ![r] = Absent]
  /\ pods' = [pods EXCEPT ![r] = NoPods]
  /\ UNCHANGED <<kind, git, pass, state, stale, left>>

-----------------------------------------------------------------------------
NoState == [synced |-> FALSE, error |-> FALSE, sha |-> "none"]
Unseen == [found |-> FALSE, verdict |-> "none", drift |-> FALSE, rolled |-> FALSE, held |-> FALSE]

PassOver(next) ==
  /\ pc' = next /\ sha' = "none" /\ full' = FALSE /\ todo' = {}
  /\ seen' = [r \in Res |-> Unseen] /\ failed' = {} /\ touched' = {}

Init ==
  /\ kind \in Worlds /\ git = CHOOSE c \in Commit : TRUE
  /\ obj = [r \in Res |-> Absent] /\ pods = [r \in Res |-> NoPods]
  /\ pc = "idle" /\ sha = "none" /\ full = FALSE /\ todo = {}
  /\ seen = [r \in Res |-> Unseen] /\ failed = {} /\ touched = {}
  /\ state = NoState /\ stale = FALSE /\ left = Mishaps[kind]

Desired(r) == Manifest[kind[r]][sha]

(* The checkout is done: a full apply, if the commit is not the one recorded,*)
(* or a drift check.                                                         *)
Begin ==
  /\ pc = "idle"
  /\ sha' = git /\ full' = (state.sha # git)
  /\ todo' = Res /\ seen' = [r \in Res |-> Unseen] /\ failed' = {} /\ touched' = {}
  /\ pc' = IF full' THEN "apply" ELSE "list"
  /\ UNCHANGED <<kind, git, cluster, state, stale, left>>

(* For the ghosts: what each kind is to come to. A workload, that the rollout *)
(* its status reports is over; a Service, its address, if it asks for one.   *)
Ready(k, s) ==
  CASE k = "Pod"                       -> s.phase = "Succeeded" \/ (s.phase = "Running" /\ s.ready)
    [] k = "Job"                       -> "Complete" \in s.true /\ "Failed" \notin s.true
    [] k \in {"Service", "Ingress"}    -> s.ingress
    [] k = "PersistentVolumeClaim"     -> s.phase = "Bound"
    [] k = "APIService"                -> "Available" \in s.true
    [] k = "Workflow"                  -> s.phase = "Succeeded"
    [] k = "HorizontalPodAutoscaler"   ->
         \E i \in DOMAIN s.conditions :
           /\ HpaHealthy(s.conditions[i])
           /\ \A j \in DOMAIN s.conditions : j < i => ~is_hpa_degraded(s.conditions[j])
    [] OTHER                           -> TRUE

Rolled(r) ==
  IF kind[r] \in Workload
  THEN obj[r].status.up # {} /\ (kind[r] # "ReplicaSet" => "old" \notin pods[r].has)
  ELSE \/ kind[r] = "Service" /\ ~Same(Get(spec(obj[r]), "type"), Str("LoadBalancer"))
       \/ Ready(kind[r], obj[r].status)

(* What the List of its kind shows of a resource: the object, or, in the     *)
(* place of one that is not there, drift and, of a kind with a check, bad    *)
(* health.                                                                   *)
Missing(r) ==
  [found |-> FALSE, verdict |-> IF has_health_check(kind[r]) THEN "Missing" ELSE "none",
   drift |-> TRUE, rolled |-> FALSE, held |-> FALSE]

Look(r) ==
  IF ~Exists(r) THEN Missing(r)
  ELSE [found |-> TRUE, verdict |-> get_resource_health(obj[r]),
        drift |-> specs_differ(Desired(r), obj[r].body),
        rolled |-> Rolled(r), held |-> Holds(Desired(r), obj[r].body)]

(* A List that fails reads as an empty one.                                  *)
Answers(r, lost) == IF lost THEN Mishap /\ Exists(r) ELSE left' = left

(* If no object was listed, health lists once more before the state goes out.*)
Finish(found) ==
  IF \E r \in Res : found[r].found THEN pc' = "write" /\ todo' = {}
                                   ELSE pc' = "relist" /\ todo' = Res

List(r) ==
  /\ pc = "list" /\ r \in todo
  /\ LET look == Look(r)
     IN  \E lost \in BOOLEAN :
           Answers(r, lost) /\ seen' = [seen EXCEPT ![r] = IF lost THEN Missing(r) ELSE look]
  /\ IF todo # {r} THEN todo' = todo \ {r} /\ pc' = pc
     ELSE IF ~full /\ \E s \in Res : seen'[s].drift THEN pc' = "apply" /\ todo' = Res
     ELSE Finish(seen')
  /\ UNCHANGED <<kind, git, cluster, sha, full, failed, touched, state, stale>>

Relist(r) ==
  /\ pc = "relist" /\ r \in todo
  /\ LET look == Look(r)
     IN  \E lost \in BOOLEAN :
           /\ Answers(r, lost)
           /\ seen' = [seen EXCEPT ![r] = [IF lost THEN Missing(r) ELSE look
                                            EXCEPT !.drift = seen[r].drift]]
  /\ todo' = todo \ {r} /\ pc' = IF todo = {r} THEN "write" ELSE pc
  /\ UNCHANGED <<kind, git, cluster, sha, full, failed, touched, state, stale>>

(* One apply, in the order of the manifests: done, failed, or done and       *)
(* answered with an error.                                                   *)
Apply(r) ==
  /\ pc = "apply" /\ r \in todo
  /\ \A i, j \in DOMAIN Managed : Managed[j] = r /\ i < j => Managed[i] \notin todo
  /\ LET served == Serve(kind[r], IF Exists(r) THEN obj[r].body ELSE Obj(<<>>), Desired(r))
     IN  \/ Store(r, served) /\ failed' = failed /\ left' = left
         \/ /\ Mishap /\ failed' = failed \cup {r}
            /\ \/ Store(r, served)
               \/ UNCHANGED cluster
  /\ IF todo # {r} THEN todo' = todo \ {r} /\ pc' = pc
     ELSE IF full THEN pc' = "list" /\ todo' = Res
     ELSE Finish(seen)
  /\ UNCHANGED <<kind, git, sha, full, seen, touched, state, stale>>

Drifts == {r \in Res : seen[r].drift}

(* find_live_match: drift is told kind by kind, but health takes the first   *)
(* object of a resource's name in the Lists of all kinds, which come in any  *)
(* order. What the check of one kind makes of an object of another hangs on  *)
(* the fields they share: anything, but not that it is missing.              *)
Namesakes(r) == {s \in Res \ {r} : NameOf[kind][s] = NameOf[kind][r]}

Judgements(r) ==
  IF \A s \in Namesakes(r) : ~seen[s].found THEN {seen[r].verdict}
  ELSE IF has_health_check(kind[r]) THEN ToSet(HealthOrder) \ {"Missing"}
  ELSE {"none", "Progressing"}

Judged == {verdict \in [Res -> UNION {Judgements(r) : r \in Res}] :
             \A r \in Res : verdict[r] \in Judgements(r)}

(* What Healthy is to mean of a resource: it was listed rolled out or, if    *)
(* others have its name, one of them was listed.                             *)
Sound(r) == IF Namesakes(r) = {} THEN seen[r].rolled
            ELSE \E s \in Namesakes(r) \cup {r} : seen[s].found

(* The end of a pass, whose PostSync hooks may have failed. rolled and held  *)
(* are ghosts: the listing this report rests on showed every resource with a *)
(* check rolled out; it showed, or users undid it since, what Git declares.  *)
Write ==
  /\ pc = "write"
  /\ \E post \in BOOLEAN, verdict \in Judged :
       /\ IF post THEN Mishap /\ (full \/ Drifts # {}) ELSE left' = left
       /\ state' =
            [synced |-> TRUE, error |-> post, sha |-> sha, failures |-> failed,
             drift |-> IF full THEN 0 ELSE Cardinality(Drifts),
             health |-> assess([i \in DOMAIN Managed |-> verdict[Managed[i]]]),
             rolled |-> \A r \in Res : has_health_check(kind[r]) => Sound(r),
             held |-> \A r \in Res :
                        seen[r].held \/ (full /\ (r \in touched \/ ~seen[r].found))]
  /\ stale' = FALSE /\ PassOver("idle")
  /\ UNCHANGED <<kind, git, cluster>>

(* Anything that ends a pass early, its git commands, hooks, prune and last  *)
(* write; record_error follows, and may fail too.                            *)
PassFails ==
  /\ Mishap /\ pc \in {"idle", "list", "apply", "write"}
  /\ PassOver("record")
  /\ UNCHANGED <<kind, git, cluster, state, stale>>

RecordFails ==
  /\ Mishap /\ pc = "record" /\ PassOver("idle")
  /\ UNCHANGED <<kind, git, cluster, state, stale>>

RecordError ==
  /\ pc = "record" /\ PassOver("idle")
  /\ state' = [state EXCEPT !.error = TRUE]
  /\ UNCHANGED <<kind, git, cluster, stale, left>>

Crash ==
  /\ Mishap /\ pc # "idle" /\ PassOver("idle")
  /\ UNCHANGED <<kind, git, cluster, state, stale>>

Push ==
  /\ Mishap /\ git' \in Commit \ {git}
  /\ UNCHANGED <<kind, cluster, pass, state, stale>>

Tick ==
  /\ state.synced /\ ~stale /\ stale' = TRUE
  /\ UNCHANGED <<kind, git, cluster, pass, state, left>>

PassStep ==
  \/ Begin \/ Write \/ RecordError
  \/ \E r \in Res : List(r) \/ Relist(r) \/ Apply(r)

Cluster(r) == Roll(r) \/ SyncStatus(r) \/ Evolve(r) \/ Vanish(r)

Next ==
  \/ PassStep \/ Tick
  \/ \E r \in Res : Cluster(r) \/ PodFails(r) \/ Edit(r) \/ Delete(r)
  \/ PassFails \/ RecordFails \/ Crash \/ Push

Spec == Init /\ [][Next]_vars

(* Time passes, and the controllers of Kubernetes do their work. A pass may  *)
(* hang for ever: nothing bounds its git commands.                           *)
FairSpec == Spec /\ WF_vars(Tick) /\ \A r \in Res : WF_vars(Cluster(r))

-----------------------------------------------------------------------------
(* health.rs, classify_health.                                               *)
classify_health_NeverStale ==
  IF state.error THEN "Failing"
  ELSE IF state.sha = "none" THEN "Never"
  ELSE "Fresh"

classify_health ==
  IF state.error THEN "Failing"
  ELSE IF state.sha = "none" THEN "Never"
  ELSE IF stale THEN "Stale"
  ELSE "Fresh"

-----------------------------------------------------------------------------
TypeOK ==
  /\ kind \in Worlds /\ git \in Commit /\ sha \in Commit \cup {"none"}
  /\ \A r \in Res : Exists(r) => obj[r].kind = kind[r]
  /\ \A r \in Res : pods[r].up \subseteq pods[r].has
  /\ pc \in {"idle", "list", "relist", "apply", "write", "record"}
  /\ todo \cup failed \cup touched \subseteq Res
  /\ stale \in BOOLEAN /\ left \in 0..Mishaps[kind]

Total(count) == count["Healthy"] + count["Suspended"] + count["Progressing"]
                  + count["Missing"] + count["Degraded"] + count["Unknown"]

(* The summary in the state leaves out no resource whose kind has a check,   *)
(* found or missing, and its worst health is one that is counted, none       *)
(* counted being worse.                                                      *)
SummaryInv ==
  /\ TypeOK
  /\ state.synced =>
       LET counted == {c \in ToSet(HealthOrder) : state.health.count[c] > 0}
       IN  /\ Total(state.health.count)
                 >= Cardinality({r \in Res : has_health_check(kind[r])})
           /\ IF counted = {} THEN state.health.worst = "none"
              ELSE /\ state.health.worst \in counted
                   /\ \A c \in counted : ~is_worse(state.health.worst, c)

Clean == state.synced /\ state.drift = 0 /\ state.failures = {}

(* The state says Healthy only of a listing that showed every resource whose *)
(* kind has a check there and rolled out: no old pod left, the new one up, or*)
(* the status a kind without pods is to reach; never on the grounds of a     *)
(* status written for the generation before. Of resources of several kinds   *)
(* that share a name, it says only that one of them is there.                *)
HealthySound == state.synced /\ state.health.worst = "Healthy" => state.rolled

(* The state reports no drift and no failed apply only if the listing showed *)
(* all Git declares in its place, an omitted zero value apart; after a full  *)
(* apply, unless users changed it while the pass went on or the list came    *)
(* back empty.                                                               *)
InSyncSound == Clean => state.held

(* A listing shows no drift of an object that holds what Git declares, as an *)
(* apply leaves it: what the API server adds, leaves out or moves "would     *)
(* drift forever" (drift.rs, specs_differ), every pass applying it again.    *)
NoFalseAlarm ==
  [][pc = "list" => \A r \in Res : seen'[r].drift /\ seen'[r].found => ~seen'[r].held]_vars

(* Once nothing interferes any more the reports settle, as long as no pass   *)
(* hangs: no error, no drift, no failure, and the worst health is Healthy, or*)
(* none where no kind has a check; where names are shared it may be any.     *)
SettlesHealthy ==
  []<>(pc = "idle") /\ []<>(pc # "idle")
    => <>[](/\ ~state.error /\ state.sha = git /\ Clean
            /\ (\A r \in Res : Namesakes(r) = {}) => state.health.worst =
                 IF \E r \in Res : has_health_check(kind[r]) THEN "Healthy" ELSE "none")

(* A controller whose passes do not come through to their end any more, as   *)
(* they hang, fail or cannot even record that they failed, does not look     *)
(* fresh to the probe for ever.                                              *)
ProbeNotices == []<><<Write>>_vars \/ <>[](classify_health # "Fresh")
=============================================================================
