------------------------------ MODULE MCReport ------------------------------
(* Report for TLC: one resource of each kind that has a check, a Namespace   *)
(* beside it, which has none, the two kinds that have no spec together, and a*)
(* Service and an Ingress of one name.                                       *)
EXTENDS Report, ApiServer

MCManaged == <<"main", "side">>

Kinds == Checked \cup {"ConfigMap", "Secret", "Namespace"}

MCWorlds ==
  {[main |-> k, side |-> "Namespace"] : k \in Checked}
    \cup {[main |-> "Secret", side |-> "ConfigMap"]}
    \cup {[main |-> "Service", side |-> "Ingress"]}

MCNameOf ==
  [w \in MCWorlds |->
     [r \in {"main", "side"} |-> IF w["side"] = "Ingress" THEN "app" ELSE r]]

(* A rollout like a Deployment's, but for its order, is interfered with once. *)
MCMishaps == [w \in MCWorlds |->
                IF w["main"] \in Workload \ {"Deployment"} \/ w["side"] = "Ingress"
                THEN 1 ELSE 2]

MCCommit == {"c1", "c2"}

Image(name) == Obj([containers |-> Arr(<<Obj([image |-> Str(name), args |-> Arr(<<>>)])>>)])

Workloads(replicas, image, paused) ==
  Obj([kind |-> Str("Workload"),
       spec |-> Obj([replicas |-> Num(replicas), template |-> Image(image), paused |-> Bool(paused)])])

Flat(field, value) == Obj([kind |-> Str("Other"), spec |-> Obj([f \in {field} |-> value])])
Data(value) == Obj([kind |-> Str("ConfigMap"), data |-> Obj([key |-> Str(value)])])
Strings(value) == Obj([kind |-> Str("ConfigMap"), stringData |-> Obj([key |-> Str(value)])])

Manifests ==
  [k \in Kinds |->
     [c \in MCCommit |->
        CASE k \in Workload    -> Workloads(1, IF k = "Deployment" THEN c ELSE "c1", FALSE)
          [] k = "ConfigMap"   -> Data("value")
          [] k = "Secret"      -> Strings("value")
          [] k = "Service"     -> Flat("type", Str("LoadBalancer"))
          [] OTHER             -> Flat("field", Str("value"))]]

MCDefaults ==
  [k \in Kinds |->
     IF k \in Workload THEN Obj([spec |-> Obj([strategy |-> Str("RollingUpdate")])])
     ELSE Obj(<<>>)]

MCServe(k, live, manifest) == Served(live, manifest, MCDefaults[k], {"paused", "args"})

(* Users change a declared scalar or one inside a list, and pause Deployments. *)
Edited ==
  [k \in Kinds |->
     CASE k \in Workload ->
            {Workloads(1, "other", k = "Deployment")}
       [] k = "Service"                -> {Flat("type", Str("ClusterIP"))}
       [] k \in {"ConfigMap", "Secret"} -> {Data("w")}
       [] k = "Namespace"              -> {}
       [] OTHER                        -> {Flat("field", Str("w"))}]

(* What an edit or an apply leaves; listed, not computed by Served, so that   *)
(* TLC evaluates it once.                                                    *)
LiveWorkload(image) ==
  Obj([kind |-> Str("Workload"),
       spec |-> Obj([replicas |-> Num(1), strategy |-> Str("RollingUpdate"),
                     template |-> Obj([containers |-> Arr(<<Obj([image |-> Str(image)])>>)])])])

Lives ==
  [k \in Kinds |->
     Edited[k] \cup
       CASE k \in Workload   -> {LiveWorkload(c) : c \in IF k = "Deployment" THEN MCCommit ELSE {"c1"}}
         [] k = "Secret"     -> {Obj([kind |-> Str("ConfigMap"), data |-> Obj([key |-> Str("value")])])}
         [] OTHER            -> {Manifests[k]["c1"]}]

(* All of that, what it is made of, and what is left without its type.       *)
Parts(S) == S \cup UNION {Within(x) : x \in S}

Values ==
  LET whole == UNION {Lives[k] \cup {Manifests[k][c] : c \in MCCommit} : k \in Kinds}
      parts == Parts(Parts(Parts(Parts(Parts(Parts(whole))))))
  IN  {x : x \in parts \cup {remove_top_level_keys(y, Ignored) : y \in parts}}

MCDepth[x \in Values] == CHOOSE n \in 0..8 : \A y \in Within(x) : MCDepth[y] < n

Phase(p) == [phase |-> p]
Condition(type, status, reason) == [type |-> type, status |-> status, reason |-> reason]

StatusesOf ==
  [k \in Kinds \ Workload |->
     CASE k = "Pod" ->
            <<[phase |-> "Pending", ready |-> FALSE, waiting |-> {}],
              [phase |-> "Running", ready |-> FALSE, waiting |-> {"CrashLoopBackOff"}],
              [phase |-> "Failed", ready |-> FALSE, waiting |-> {}],
              [phase |-> "Running", ready |-> TRUE, waiting |-> {}]>>
       [] k = "Job" -> <<[true |-> {}], [true |-> {"Suspended"}], [true |-> {"FailureTarget"}],
                         [true |-> {"SuccessCriteriaMet", "Complete"}]>>
       [] k \in {"Service", "Ingress"} -> <<[ingress |-> FALSE], [ingress |-> TRUE]>>
       [] k = "PersistentVolumeClaim" -> <<Phase("Pending"), Phase("Lost"), Phase("Bound")>>
       [] k = "HorizontalPodAutoscaler" ->
            <<[conditions |-> <<>>],
              [conditions |-> <<Condition("AbleToScale", "False", "FailedGetScale")>>],
              [conditions |-> <<Condition("AbleToScale", "True", "SucceededGetScale"),
                                Condition("ScalingActive", "True", "ValidMetricFound")>>]>>
       [] k = "APIService" -> <<[true |-> {}], [true |-> {"Available"}]>>
       [] k = "Workflow"   -> <<Phase(""), Phase("Running"), Phase("Error"), Phase("Succeeded")>>
       [] OTHER            -> <<[none |-> 0]>>]

(* TLC evaluates a definition once, but one that stands for a constant at    *)
(* each use: hence the second names.                                         *)
MCManifest == Manifests
MCJson == Values
MCEdits == Edited
MCBodies == Lives
MCStatuses == StatusesOf
=============================================================================
