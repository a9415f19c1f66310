--------------------------- MODULE ResourceHealth ---------------------------
(* resource_health.rs: the verdict on one live object, by its kind, and the  *)
(* summary of all. An object is a record: its kind, whether it is being      *)
(* deleted, its manifest (a JSON value) and a status of the fields its check *)
(* reads; absent counters are 0, as unwrap_or(0) has them. Of generations    *)
(* only their order is kept: status.observed is "never", "behind" or         *)
(* "current". Messages are left out.                                         *)
EXTENDS Json, SequencesExt

(* HEALTH_ORDER, worst last.                                                 *)
HealthOrder == <<"Healthy", "Suspended", "Progressing", "Missing", "Degraded", "Unknown">>
rank(code) == CHOOSE i \in DOMAIN HealthOrder : HealthOrder[i] = code
is_worse(current, new) == rank(new) > rank(current)

Workload == {"Deployment", "StatefulSet", "ReplicaSet", "DaemonSet"}
Checked == Workload \cup {"Pod", "Job", "Service", "Ingress", "PersistentVolumeClaim",
                          "HorizontalPodAutoscaler", "APIService", "Workflow"}
has_health_check(kind) == kind \in Checked

spec(o) == Get(o.body, "spec")
Waiting(condition) == IF condition THEN "Progressing" ELSE "Healthy"

deployment_health_AnyGeneration(o) ==
  LET st == o.status
      short == Has(spec(o), "replicas") /\ Get(spec(o), "replicas").v # st.updated
  IN  IF Same(Get(spec(o), "paused"), Bool(TRUE)) THEN "Suspended"
      ELSE IF st.deadline THEN "Degraded"
      ELSE Waiting(short \/ st.replicas > st.updated \/ st.available < st.updated)

deployment_health(o) ==
  LET st == o.status
      short == Has(spec(o), "replicas") /\ Get(spec(o), "replicas").v # st.updated
  IN  IF Same(Get(spec(o), "paused"), Bool(TRUE)) THEN "Suspended"
      ELSE IF st.observed # "current" THEN "Progressing"
      ELSE IF st.deadline THEN "Degraded"
      ELSE Waiting(short \/ st.replicas > st.updated \/ st.available < st.updated)

(* str_of(spec, "updateStrategy.type") looks for a key of that name, which   *)
(* no spec has: the branches for OnDelete and for partitions are never taken.*)
Strategy(o) == Get(spec(o), "updateStrategy.type")
Partition(o) == Get(Get(Get(spec(o), "updateStrategy"), "rollingUpdate"), "partition")

statefulset_health(o) ==
  LET st == o.status
      short == Has(spec(o), "replicas") /\ st.ready < Get(spec(o), "replicas").v
      partitioned == /\ Same(Strategy(o), Str("RollingUpdate"))
                     /\ Has(spec(o), "replicas") /\ Partition(o).t = "num"
  IN  IF st.observed # "current" \/ short THEN "Progressing"
      ELSE IF partitioned
           THEN Waiting(st.updated < Get(spec(o), "replicas").v - Partition(o).v)
      ELSE IF Same(Strategy(o), Str("OnDelete")) THEN "Healthy"
      ELSE Waiting(st.updateRevision # st.currentRevision)

replicaset_health(o) ==
  LET st == o.status
      short == Has(spec(o), "replicas") /\ st.available < Get(spec(o), "replicas").v
  IN  IF st.observed # "current" THEN "Progressing"
      ELSE IF st.failure THEN "Degraded" ELSE Waiting(short)

daemonset_health(o) ==
  LET st == o.status
  IN  IF st.observed # "current" THEN "Progressing"
      ELSE IF Same(Strategy(o), Str("OnDelete")) THEN "Healthy"
      ELSE Waiting(st.updated < st.desired \/ st.available < st.desired)

is_waiting_error(reason) == reason \in {"CrashLoopBackOff", "ImagePullBackOff", "ErrImagePull"}

pod_health(o) ==
  CASE o.status.phase = "Pending"   -> "Progressing"
    [] o.status.phase = "Succeeded" -> "Healthy"
    [] o.status.phase = "Failed"    -> "Degraded"
    [] o.status.phase = "Running"   ->
         IF o.status.ready THEN "Healthy"
         ELSE IF \E reason \in o.status.waiting : is_waiting_error(reason) THEN "Degraded"
         ELSE "Progressing"
    [] OTHER -> "Unknown"

(* status.true: the types of the conditions that are True.                   *)
job_health(o) ==
  LET true == o.status.true \cap {"Complete", "Failed", "Suspended"}
  IN  CASE true = {}            -> "Progressing"
        [] "Failed" \in true    -> "Degraded"
        [] true = {"Complete"}  -> "Healthy"
        [] OTHER                -> "Suspended"

service_health(o) ==
  Waiting(Same(Get(spec(o), "type"), Str("LoadBalancer")) /\ ~o.status.ingress)

ingress_health(o) == Waiting(~o.status.ingress)

pvc_health(o) ==
  CASE o.status.phase = "Bound"   -> "Healthy"
    [] o.status.phase = "Pending" -> "Progressing"
    [] o.status.phase = "Lost"    -> "Degraded"
    [] OTHER                      -> "Unknown"

(* The first condition that says anything decides.                           *)
is_hpa_degraded(c) ==
  \/ c.type = "AbleToScale" /\ c.reason \in {"FailedGetScale", "FailedUpdateScale"}
  \/ /\ c.type = "ScalingActive"
     /\ c.reason \in {"FailedGetResourceMetric", "FailedGetObjectMetric",
                       "FailedGetPodsMetric", "FailedGetExternalMetric",
                       "FailedComputeMetricsReplicas", "InvalidSelector"}

HpaHealthy(c) == c.type \in {"AbleToScale", "ScalingLimited"} /\ c.status = "True"

hpa_health(o) ==
  LET conditions == o.status.conditions
      decisive == {i \in DOMAIN conditions :
                     is_hpa_degraded(conditions[i]) \/ HpaHealthy(conditions[i])}
  IN  IF decisive = {} THEN "Progressing"
      ELSE IF is_hpa_degraded(conditions[Min(decisive)]) THEN "Degraded" ELSE "Healthy"

apiservice_health(o) == Waiting("Available" \notin o.status.true)

workflow_health(o) ==
  CASE o.status.phase \in {"", "Pending", "Running"} -> "Progressing"
    [] o.status.phase = "Succeeded"                  -> "Healthy"
    [] o.status.phase \in {"Failed", "Error"}        -> "Degraded"
    [] OTHER                                         -> "Unknown"

(* "none": no verdict, of a kind without a check.                            *)
get_resource_health(o) ==
  IF o.deleting THEN "Progressing" ELSE
  CASE o.kind = "Deployment"                 -> deployment_health(o)
    [] o.kind = "StatefulSet"                -> statefulset_health(o)
    [] o.kind = "ReplicaSet"                 -> replicaset_health(o)
    [] o.kind = "DaemonSet"                  -> daemonset_health(o)
    [] o.kind = "Pod"                        -> pod_health(o)
    [] o.kind = "Job"                        -> job_health(o)
    [] o.kind = "Service"                    -> service_health(o)
    [] o.kind = "Ingress"                    -> ingress_health(o)
    [] o.kind = "PersistentVolumeClaim"      -> pvc_health(o)
    [] o.kind = "HorizontalPodAutoscaler"    -> hpa_health(o)
    [] o.kind = "APIService"                 -> apiservice_health(o)
    [] o.kind = "Workflow"                   -> workflow_health(o)
    [] OTHER                                 -> "none"

(* assess: the worst of the verdicts, and how many there are of each.        *)
NoHealth == [worst |-> "none", count |-> [c \in ToSet(HealthOrder) |-> 0]]

Bump_Last(summary, code) ==
  IF code = "none" THEN summary
  ELSE [worst |-> code, count |-> [summary.count EXCEPT ![code] = @ + 1]]

Bump(summary, code) ==
  IF code = "none" THEN summary
  ELSE [worst |-> IF summary.worst = "none" \/ is_worse(summary.worst, code)
                  THEN code ELSE summary.worst,
        count |-> [summary.count EXCEPT ![code] = @ + 1]]

assess(verdicts) ==
  LET after[i \in 0..Len(verdicts)] ==
        IF i = 0 THEN NoHealth ELSE Bump(after[i-1], verdicts[i])
  IN  after[Len(verdicts)]
=============================================================================
