---------------------------- MODULE ReportProofs ----------------------------
(* Theorems about Report, for any resources, kinds, manifests and answers of *)
(* the API server that Report assumes: the summary of health in the state    *)
(* leaves nothing out, and the state says healthy, or in sync, only of what  *)
(* the listing of its pass showed to be.                                     *)
EXTENDS Report, DriftProofs, FiniteSetTheorems

Codes == ToSet(HealthOrder)

LEMMA CodesAre ==
  Codes = {"Healthy", "Suspended", "Progressing", "Missing", "Degraded", "Unknown"}
BY DEF Codes, HealthOrder, ToSet

LEMMA Ranks ==
  /\ rank("Healthy") = 1 /\ rank("Suspended") = 2 /\ rank("Progressing") = 3
  /\ rank("Missing") = 4 /\ rank("Degraded") = 5 /\ rank("Unknown") = 6
<1>1. DOMAIN HealthOrder = 1..6
  BY DEF HealthOrder
<1>2. /\ HealthOrder[1] = "Healthy" /\ HealthOrder[2] = "Suspended"
      /\ HealthOrder[3] = "Progressing" /\ HealthOrder[4] = "Missing"
      /\ HealthOrder[5] = "Degraded" /\ HealthOrder[6] = "Unknown"
  BY DEF HealthOrder
<1>. QED BY <1>1, <1>2 DEF rank

LEMMA RankType == \A c \in Codes : rank(c) \in 1..6 /\ (rank(c) = 1 => c = "Healthy")
BY CodesAre, Ranks

-----------------------------------------------------------------------------
(* A verdict is one of the codes, or none, and none of a kind without check. *)
LEMMA HpaCodes == \A o : hpa_health(o) \in Codes
BY CodesAre DEF hpa_health

LEMMA Verdicts ==
  ASSUME NEW o
  PROVE  /\ get_resource_health(o) \in Codes \cup {"none"}
         /\ get_resource_health(o) = "none" => ~has_health_check(o.kind)
<1>1. /\ deployment_health(o) \in Codes /\ statefulset_health(o) \in Codes
      /\ replicaset_health(o) \in Codes /\ daemonset_health(o) \in Codes
  BY CodesAre DEF deployment_health, statefulset_health, replicaset_health, daemonset_health,
                  Waiting
<1>2. pod_health(o) \in Codes /\ job_health(o) \in Codes
  BY CodesAre DEF pod_health, job_health
<1>3. service_health(o) \in Codes /\ ingress_health(o) \in Codes /\ apiservice_health(o) \in Codes
  BY CodesAre DEF service_health, ingress_health, apiservice_health, Waiting
<1>4. pvc_health(o) \in Codes /\ workflow_health(o) \in Codes
  BY CodesAre DEF pvc_health, workflow_health
<1>5. "none" \notin Codes /\ "Progressing" \in Codes
  BY CodesAre
<1>6. hpa_health(o) \in Codes
  BY HpaCodes
<1>. QED
  BY <1>1, <1>2, <1>3, <1>4, <1>5, <1>6 DEF get_resource_health, has_health_check, Checked, Workload

-----------------------------------------------------------------------------
(* assess, by induction on how many verdicts it has counted. The function it *)
(* defines exists.                                                           *)
Counts(after, verdicts, n) ==
  after = [i \in 0..Len(verdicts) |->
             IF i = 0 THEN NoHealth
             ELSE IF i <= n THEN Bump(after[i-1], verdicts[i]) ELSE NoHealth]

LEMMA CountsExist ==
  ASSUME NEW verdicts, Len(verdicts) \in Nat
  PROVE  \A n \in Nat : \E after : Counts(after, verdicts, n)
<1>. DEFINE S == {n \in Nat : \E after : Counts(after, verdicts, n)}
<1>1. 0 \in S
  <2>1. Counts([i \in 0..Len(verdicts) |-> NoHealth], verdicts, 0)
    BY DEF Counts
  <2>. QED BY <2>1
<1>2. ASSUME NEW n \in Nat, n \in S
      PROVE  n + 1 \in S
  <2>1. PICK after : Counts(after, verdicts, n)
    BY <1>2
  <2>. DEFINE next == [i \in 0..Len(verdicts) |->
                         IF i = 0 THEN NoHealth
                         ELSE IF i <= n + 1 THEN Bump(after[i-1], verdicts[i]) ELSE NoHealth]
  <2>2. ASSUME NEW i \in 0..Len(verdicts), i <= n
        PROVE  next[i] = after[i]
    BY <2>1, <2>2 DEF Counts
  <2>. HIDE DEF next
  <2>3. ASSUME NEW i \in 0..Len(verdicts), i # 0, i <= n + 1
        PROVE  next[i-1] = after[i-1]
    BY <2>2, <2>3
  <2>4. Counts(next, verdicts, n + 1)
    <3>1. next = [i \in 0..Len(verdicts) |->
                    IF i = 0 THEN NoHealth
                    ELSE IF i <= n + 1 THEN Bump(next[i-1], verdicts[i]) ELSE NoHealth]
      BY <2>3 DEF next
    <3>. QED BY <3>1 DEF Counts
  <2>. QED BY <2>4
<1>. HIDE DEF S
<1>3. Nat \subseteq S
  BY <1>1, <1>2, Induction
<1>. QED BY <1>3 DEF S

LEMMA AssessDefined ==
  ASSUME NEW verdicts, Len(verdicts) \in Nat
  PROVE  \E after : /\ Counts(after, verdicts, Len(verdicts))
                    /\ assess(verdicts) = after[Len(verdicts)]
<1>. DEFINE Body(f) == [i \in 0..Len(verdicts) |->
                          IF i = 0 THEN NoHealth ELSE Bump(f[i-1], verdicts[i])]
            after == CHOOSE f : f = Body(f)
<1>1. PICK f : Counts(f, verdicts, Len(verdicts))
  BY CountsExist
<1>2. f = Body(f)
  BY <1>1 DEF Counts
<1>3. after = Body(after)
  BY <1>2
<1>4. assess(verdicts) = after[Len(verdicts)]
  BY DEF assess
<1>5. Counts(after, verdicts, Len(verdicts))
  BY <1>3 DEF Counts
<1>. QED BY <1>4, <1>5

(* What a summary says of the verdicts it has counted, of the first n of the *)
(* resources.                                                                *)
Voted(verdicts, n) == {r \in Res : \E i \in 1..n : Managed[i] = r /\ verdicts[i] # "none"}

WorstCounts(summary) ==
  LET counted == {c \in Codes : summary.count[c] > 0}
  IN  IF counted = {} THEN summary.worst = "none"
      ELSE /\ summary.worst \in counted
           /\ \A c \in counted : ~is_worse(summary.worst, c)

Summarises(summary, verdicts, n) ==
  /\ summary = [worst |-> summary.worst, count |-> summary.count]
  /\ summary.count \in [Codes -> Nat]
  /\ WorstCounts(summary)
  /\ \A i \in 1..n : verdicts[i] # "none" => summary.count[verdicts[i]] > 0
  /\ IsFiniteSet(Voted(verdicts, n))
  /\ Cardinality(Voted(verdicts, n)) <= Total(summary.count)

LEMMA ManagedSeq ==
  /\ Len(Managed) \in Nat /\ DOMAIN Managed = 1..Len(Managed)
  /\ \A i \in 1..Len(Managed) : Managed[i] \in Res
  /\ \A r \in Res : \E i \in 1..Len(Managed) : Managed[i] = r
<1>1. Managed \in Seq(Res)
  BY ManagedAssumption
<1>. QED BY <1>1 DEF Res, ToSet

LEMMA TotalType ==
  ASSUME NEW count \in [Codes -> Nat]
  PROVE  /\ Total(count) \in Nat
         /\ \A c \in Codes : Total([count EXCEPT ![c] = @ + 1]) = Total(count) + 1
BY CodesAre DEF Total

LEMMA SummaryInit ==
  ASSUME NEW verdicts
  PROVE  Summarises(NoHealth, verdicts, 0)
<1>1. NoHealth.count \in [Codes -> Nat] /\ \A c \in Codes : NoHealth.count[c] = 0
  BY DEF NoHealth, Codes
<1>2. WorstCounts(NoHealth)
  BY <1>1 DEF WorstCounts, NoHealth
<1>3. Voted(verdicts, 0) = {}
  BY DEF Voted
<1>4. IsFiniteSet({}) /\ Cardinality({}) = 0
  BY FS_EmptySet
<1>5. Total(NoHealth.count) \in Nat
  BY <1>1, TotalType
<1>6. NoHealth = [worst |-> NoHealth.worst, count |-> NoHealth.count]
  BY DEF NoHealth
<1>. QED BY <1>1, <1>2, <1>3, <1>4, <1>5, <1>6 DEF Summarises

LEMMA SummaryStep ==
  ASSUME NEW summary, NEW verdicts, NEW n \in Nat, n < Len(Managed),
         verdicts[n + 1] \in Codes \cup {"none"}, Summarises(summary, verdicts, n)
  PROVE  Summarises(Bump(summary, verdicts[n + 1]), verdicts, n + 1)
<1>. DEFINE code == verdicts[n + 1]
            next == Bump(summary, code)
            r == Managed[n + 1]
<1>1. r \in Res /\ n + 1 \in 1..Len(Managed)
  BY ManagedSeq
<1>2. "none" \notin Codes
  BY CodesAre
<1>3. CASE code = "none"
  <2>1. next = summary
    BY <1>3 DEF Bump
  <2>2. Voted(verdicts, n + 1) = Voted(verdicts, n)
    BY <1>3 DEF Voted
  <2>3. \A i \in 1..n+1 : verdicts[i] # "none" => summary.count[verdicts[i]] > 0
    BY <1>3 DEF Summarises
  <2>. QED BY <2>1, <2>2, <2>3 DEF Summarises
<1>4. CASE code \in Codes
  <2>1. next = [worst |-> IF summary.worst = "none" \/ is_worse(summary.worst, code)
                          THEN code ELSE summary.worst,
                count |-> [summary.count EXCEPT ![code] = @ + 1]]
    BY <1>2, <1>4 DEF Bump
  <2>2. summary.count \in [Codes -> Nat] /\ next.count \in [Codes -> Nat]
    BY <1>4, <2>1 DEF Summarises
  <2>3. \A c \in Codes : next.count[c] > 0 <=> (c = code \/ summary.count[c] > 0)
    BY <1>4, <2>1, <2>2
  <2>4. WorstCounts(next)
    <3>1. summary.worst = "none" <=> \A c \in Codes : ~(summary.count[c] > 0)
      BY <1>2 DEF Summarises, WorstCounts
    <3>2. summary.worst # "none" =>
            /\ summary.worst \in Codes /\ summary.count[summary.worst] > 0
            /\ \A c \in Codes : summary.count[c] > 0 => rank(c) <= rank(summary.worst)
      BY <3>1, RankType DEF Summarises, WorstCounts, is_worse
    <3>3. next.worst \in Codes /\ next.count[next.worst] > 0
      BY <1>4, <2>1, <2>3, <3>2
    <3>4. ASSUME NEW c \in Codes, next.count[c] > 0
          PROVE  rank(c) <= rank(next.worst)
      <4>1. CASE summary.worst = "none"
        BY <2>1, <2>3, <3>1, <3>4, <4>1, RankType
      <4>2. CASE summary.worst # "none"
        BY <1>4, <2>1, <2>3, <3>2, <3>4, <4>2, RankType DEF is_worse
      <4>. QED BY <4>1, <4>2
    <3>5. \A c \in Codes : rank(c) \in Int
      BY RankType
    <3>. QED BY <3>3, <3>4, <3>5 DEF WorstCounts, is_worse
  <2>5. \A i \in 1..n+1 : verdicts[i] # "none" => next.count[verdicts[i]] > 0
    <3>1. ASSUME NEW i \in 1..n, verdicts[i] # "none"
          PROVE  next.count[verdicts[i]] > 0
      <4>1. summary.count[verdicts[i]] > 0
        BY <3>1 DEF Summarises
      <4>2. CASE verdicts[i] = code
        BY <1>4, <2>3, <4>2
      <4>3. CASE verdicts[i] # code
        <5>1. next.count[verdicts[i]] = summary.count[verdicts[i]]
          BY <2>1, <2>2, <4>3
        <5>. QED BY <4>1, <5>1
      <4>. QED BY <4>2, <4>3
    <3>2. next.count[code] > 0
      BY <1>4, <2>3
    <3>3. ASSUME NEW i \in 1..n+1 PROVE i \in 1..n \/ i = n + 1
      OBVIOUS
    <3>. HIDE DEF next
    <3>. QED BY <3>1, <3>2, <3>3
  <2>6. /\ IsFiniteSet(Voted(verdicts, n + 1))
        /\ Cardinality(Voted(verdicts, n + 1)) <= Total(next.count)
    <3>1. Voted(verdicts, n + 1) = Voted(verdicts, n) \cup {r}
      <4>1. \A i : i \in 1..n+1 <=> i \in 1..n \/ i = n + 1
        OBVIOUS
      <4>2. verdicts[n + 1] # "none"
        BY <1>2, <1>4
      <4>. QED BY <1>1, <4>1, <4>2, Zenon DEF Voted
    <3>2. IsFiniteSet(Voted(verdicts, n)) /\ Cardinality(Voted(verdicts, n)) <= Total(summary.count)
      BY DEF Summarises
    <3>3. /\ IsFiniteSet(Voted(verdicts, n) \cup {r})
          /\ Cardinality(Voted(verdicts, n) \cup {r}) <= Cardinality(Voted(verdicts, n)) + 1
      <4>1. /\ IsFiniteSet(Voted(verdicts, n) \cup {r})
            /\ Cardinality(Voted(verdicts, n) \cup {r})
                 = IF r \in Voted(verdicts, n) THEN Cardinality(Voted(verdicts, n))
                   ELSE Cardinality(Voted(verdicts, n)) + 1
        BY <3>2, FS_AddElement
      <4>2. Cardinality(Voted(verdicts, n)) \in Nat
        BY <3>2, FS_CardinalityType
      <4>. QED BY <4>1, <4>2
    <3>4. Total(next.count) = Total(summary.count) + 1
      BY <1>4, <2>1, <2>2, TotalType
    <3>5. /\ Cardinality(Voted(verdicts, n)) \in Nat /\ Total(summary.count) \in Nat
          /\ Cardinality(Voted(verdicts, n) \cup {r}) \in Nat
      BY <2>2, <3>2, <3>3, TotalType, FS_CardinalityType
    <3>. HIDE DEF next, r
    <3>6. /\ IsFiniteSet(Voted(verdicts, n + 1))
          /\ Cardinality(Voted(verdicts, n + 1)) = Cardinality(Voted(verdicts, n) \cup {r})
      BY <3>1, <3>3
    <3>7. Cardinality(Voted(verdicts, n) \cup {r}) <= Total(next.count)
      BY <3>2, <3>3, <3>4, <3>5
    <3>. QED BY <3>6, <3>7
  <2>7. next = [worst |-> next.worst, count |-> next.count]
    BY <2>1
  <2>. QED BY <2>2, <2>4, <2>5, <2>6, <2>7 DEF Summarises
<1>. QED BY <1>3, <1>4

(* So the summary of a pass leaves out no verdict, and has the worst of them.*)
LEMMA AssessSummarises ==
  ASSUME NEW verdicts, Len(verdicts) = Len(Managed),
         \A i \in 1..Len(Managed) : verdicts[i] \in Codes \cup {"none"}
  PROVE  Summarises(assess(verdicts), verdicts, Len(Managed))
<1>. DEFINE N == Len(Managed)
<1>1. N \in Nat
  BY ManagedSeq
<1>2. PICK after : Counts(after, verdicts, N) /\ assess(verdicts) = after[N]
  BY <1>1, AssessDefined
<1>. DEFINE S == {n \in Nat : n <= N => Summarises(after[n], verdicts, n)}
<1>. HIDE DEF N
<1>3. 0 \in S
  <2>1. after[0] = NoHealth
    BY <1>1, <1>2 DEF Counts, N
  <2>. QED BY <2>1, SummaryInit
<1>4. ASSUME NEW n \in Nat, n \in S
      PROVE  n + 1 \in S
  <2>. SUFFICES ASSUME n + 1 <= N PROVE Summarises(after[n + 1], verdicts, n + 1)
    OBVIOUS
  <2>1. n < N /\ n <= N /\ n + 1 \in 1..N /\ n + 1 \in 0..N
    BY <1>1
  <2>2. Summarises(after[n], verdicts, n)
    BY <1>4, <2>1
  <2>3. after[n + 1] = Bump(after[n], verdicts[n + 1])
    BY <1>1, <1>2, <2>1 DEF Counts, N
  <2>. QED BY <2>1, <2>2, <2>3, SummaryStep DEF N
<1>. HIDE DEF S
<1>5. Nat \subseteq S
  BY <1>3, <1>4, Induction
<1>6. Summarises(after[N], verdicts, N)
  BY <1>1, <1>5 DEF S
<1>. QED BY <1>2, <1>6 DEF N

-----------------------------------------------------------------------------
(* The inductive invariant. First, the cluster: what the objects are, and    *)
(* that the pods of a template before the last are gone once the status of a *)
(* workload, if written for its last generation, says so. Only a Deployment  *)
(* has pods of two templates at a time.                                      *)
ObjectOK(r) ==
  LET o == obj[r]
  IN  /\ o = [kind |-> kind[r], deleting |-> o.deleting, body |-> o.body, status |-> o.status]
      /\ o.deleting \in BOOLEAN
      /\ o.body \in Bodies[kind[r]]
      /\ kind[r] \notin Workload => o.status \in ToSet(Statuses[kind[r]])

PodsOK(r) ==
  LET p == pods[r]
  IN  /\ p = [has |-> p.has, up |-> p.up, current |-> p.current]
      /\ p.has \subseteq {"old", "new"} /\ p.up \subseteq p.has
      /\ kind[r] # "Deployment" => ~({"old", "new"} \subseteq p.has)
      /\ kind[r] = "StatefulSet" /\ p.current = "new" => "old" \notin p.has

Current(s, r) ==
  /\ s.updated \in Nat /\ s.replicas \in Nat /\ s.ready \in Nat /\ s.available \in Nat
  /\ s.desired = 1 /\ s.updateRevision = "new"
  /\ s.ready >= 1 \/ s.available >= 1 => s.up # {}
  /\ \/ kind[r] = "Deployment" /\ s.replicas <= s.updated
     \/ kind[r] \in {"StatefulSet", "DaemonSet"} /\ s.updated >= 1
     \/ kind[r] = "StatefulSet" /\ s.currentRevision = "new"
     => "old" \notin pods[r].has

StatusOK(r) ==
  LET s == obj[r].status
  IN  /\ s = [observed |-> s.observed, updated |-> s.updated, replicas |-> s.replicas,
              ready |-> s.ready, available |-> s.available, desired |-> s.desired,
              deadline |-> s.deadline, failure |-> s.failure,
              updateRevision |-> s.updateRevision, currentRevision |-> s.currentRevision,
              up |-> s.up]
      /\ s.observed = "current" => Current(s, r)

ClusterInv ==
  /\ kind \in Worlds
  /\ obj = [r \in Res |-> obj[r]] /\ pods = [r \in Res |-> pods[r]]
  /\ \A r \in Res : /\ PodsOK(r)
                    /\ Exists(r) => ObjectOK(r) /\ (kind[r] \in Workload => StatusOK(r))

(* Then the pass: what an apply left holds what Git declares, until users    *)
(* change it; what a listing showed is what Write says of it.                *)
Running == {"list", "relist", "apply", "write"}
Applied(r) == full /\ pc \in Running /\ (pc = "apply" => r \notin todo)
Listed(r) ==
  \/ pc = "list" /\ r \notin todo
  \/ pc = "apply" /\ ~full
  \/ pc \in {"relist", "write"}

LookType(l) ==
  /\ l = [found |-> l.found, verdict |-> l.verdict, drift |-> l.drift,
          rolled |-> l.rolled, held |-> l.held]
  /\ l.found \in BOOLEAN /\ l.drift \in BOOLEAN /\ l.rolled \in BOOLEAN /\ l.held \in BOOLEAN
  /\ l.verdict \in Codes \cup {"none"}

HealthOf(l, r) ==
  has_health_check(kind[r]) =>
    l.verdict # "none" /\ (l.verdict = "Healthy" => l.found /\ l.rolled)

DriftOf(l, r) ==
  IF full THEN l.found => l.held \/ r \in touched \/ r \in failed
          ELSE (l.found \/ l.drift) /\ (l.held \/ l.drift)

PassInv ==
  /\ pc \in Running \cup {"idle", "record"} /\ full \in BOOLEAN
  /\ pc \in Running => sha \in Commit
  /\ seen = [r \in Res |-> seen[r]]
  /\ \A r \in Res : /\ LookType(seen[r])
                    /\ Listed(r) => HealthOf(seen[r], r) /\ DriftOf(seen[r], r)
                    /\ pc = "relist" /\ ~full => seen[r].drift
                    /\ Applied(r) => \/ ~Exists(r) \/ r \in failed \/ r \in touched
                                     \/ Holds(Desired(r), obj[r].body)

(* And the state that is written from it.                                    *)
Checks == {r \in Res : has_health_check(kind[r])}

Written(st) ==
  /\ {"failures", "drift", "health", "rolled", "held"} \subseteq DOMAIN st
  /\ Total(st.health.count) >= Cardinality(Checks)
  /\ WorstCounts(st.health)
  /\ st.health.worst = "Healthy" => st.rolled
  /\ st.drift = 0 /\ st.failures = {} => st.held

StateInv ==
  /\ {"synced", "error"} \subseteq DOMAIN state
  /\ state.synced => Written(state)

IInv == TypeOK /\ ClusterInv /\ PassInv /\ StateInv

-----------------------------------------------------------------------------
(* What the assumptions say of the kinds that this world has.                *)
LEMMA KindBodies ==
  ASSUME kind \in Worlds, NEW r \in Res
  PROVE  /\ kind[r] # "none" /\ Edits[kind[r]] \subseteq Bodies[kind[r]]
         /\ \A body \in Bodies[kind[r]] : body \in Json /\ body.t = "object"
BY BodyAssumption

LEMMA KindManifest ==
  ASSUME kind \in Worlds, NEW r \in Res, NEW c \in Commit
  PROVE  /\ Manifest[kind[r]][c] \in Json /\ Manifest[kind[r]][c].t = "object"
         /\ \A live \in Bodies[kind[r]] \cup {Obj(<<>>)} :
              /\ Serve(kind[r], live, Manifest[kind[r]][c]) \in Bodies[kind[r]]
              /\ Holds(Manifest[kind[r]][c], Serve(kind[r], live, Manifest[kind[r]][c]))
BY BodyAssumption

LEMMA KindWorkload ==
  ASSUME kind \in Worlds, NEW r \in Res, NEW body \in Bodies[kind[r]], kind[r] \in Workload
  PROVE  /\ kind[r] # "DaemonSet" => Get(Get(body, "spec"), "replicas") = Num(1)
         /\ ~Has(Get(body, "spec"), "updateStrategy.type")
BY KindAssumption

LEMMA KindStatus ==
  ASSUME kind \in Worlds, NEW r \in Res, kind[r] \notin Workload
  PROVE  /\ Statuses[kind[r]] \in Seq(ToSet(Statuses[kind[r]])) /\ Statuses[kind[r]] # <<>>
         /\ kind[r] = "HorizontalPodAutoscaler" =>
              \A s \in ToSet(Statuses[kind[r]]) : s.conditions \in Seq(ToSet(s.conditions))
BY KindAssumption

LEMMA ResFinite == IsFiniteSet(Res) /\ \A S \in SUBSET Res : IsFiniteSet(S) /\ Cardinality(S) \in Nat
<1>1. Managed \in [1..Len(Managed) -> Res] /\ IsFiniteSet(1..Len(Managed))
  <2>1. Managed \in Seq(Res) /\ Len(Managed) \in Nat
    BY ManagedAssumption
  <2>. QED BY <2>1, FS_Interval
<1>2. Managed \in Surjection(1..Len(Managed), Res)
  BY <1>1, ManagedSeq DEF Surjection
<1>3. IsFiniteSet(Res)
  BY <1>1, <1>2, FS_Surjection
<1>. QED BY <1>3, FS_Subset, FS_CardinalityType

LEMMA PodCount ==
  ASSUME NEW S \in SUBSET {"old", "new"}
  PROVE  /\ Cardinality(S) \in Nat /\ (Cardinality(S) >= 1 => S # {})
         /\ Cardinality(S \cap {"new"}) \in Nat
         /\ Cardinality(S) <= Cardinality(S \cap {"new"}) => "old" \notin S
         /\ Cardinality(S \cap {"new"}) >= 1 => "new" \in S
<1>. DEFINE T == S \cap {"new"}
<1>1. IsFiniteSet({"old"} \cup {"new"})
  BY FS_Singleton, FS_AddElement
<1>2. IsFiniteSet(S) /\ IsFiniteSet(T)
  <2>1. S \in SUBSET ({"old"} \cup {"new"}) /\ T \in SUBSET ({"old"} \cup {"new"})
    OBVIOUS
  <2>. QED BY <1>1, <2>1, FS_Subset
<1>3. Cardinality(S) \in Nat /\ Cardinality(T) \in Nat
  BY <1>2, FS_CardinalityType
<1>4. (Cardinality(S) = 0 <=> S = {}) /\ (Cardinality(T) = 0 <=> T = {})
  BY <1>2, FS_EmptySet
<1>5. Cardinality(T) <= Cardinality(S) /\ (Cardinality(S) = Cardinality(T) => S = T)
  <2>1. T \in SUBSET S
    OBVIOUS
  <2>. QED BY <1>2, <2>1, FS_Subset
<1>6. "old" \notin T /\ (T # {} => "new" \in S)
  OBVIOUS
<1>. HIDE DEF T
<1>7. /\ Cardinality(S) \in Nat /\ (Cardinality(S) >= 1 => S # {})
      /\ Cardinality(T) \in Nat
      /\ Cardinality(S) <= Cardinality(T) => "old" \notin S
      /\ Cardinality(T) >= 1 => "new" \in S
  BY <1>3, <1>4, <1>5, <1>6
<1>. QED BY <1>7 DEF T

-----------------------------------------------------------------------------
(* The steps of the cluster. A step that changes one object or its pods      *)
(* need only be looked at there.                                             *)
ItemOK(r) == PodsOK(r) /\ (Exists(r) => ObjectOK(r) /\ (kind[r] \in Workload => StatusOK(r)))

LEMMA ClusterAt ==
  ASSUME ClusterInv, kind' = kind, NEW r \in Res, NEW o, NEW p,
         obj' = [obj EXCEPT ![r] = o], pods' = [pods EXCEPT ![r] = p], ItemOK(r)'
  PROVE  ClusterInv'
<1>1. \A s \in Res : s # r => obj'[s] = obj[s] /\ pods'[s] = pods[s]
  BY DEF ClusterInv
<1>2. ASSUME NEW s \in Res PROVE ItemOK(s)'
  <2>1. CASE s = r
    BY <2>1
  <2>2. CASE s # r
    <3>1. ItemOK(s)
      BY DEF ClusterInv, ItemOK
    <3>2. obj'[s] = obj[s] /\ pods'[s] = pods[s]
      BY <1>1, <2>2
    <3>. QED BY <3>1, <3>2
         DEF ItemOK, PodsOK, Exists, ObjectOK, StatusOK, Current
  <2>. QED BY <2>1, <2>2
<1>3. obj' = [s \in Res |-> obj'[s]] /\ pods' = [s \in Res |-> pods'[s]]
  BY DEF ClusterInv
<1>. QED BY <1>2, <1>3 DEF ClusterInv, ItemOK

LEMMA LiveOK ==
  ASSUME kind \in Worlds, kind' = kind, NEW r \in Res, NEW body \in Bodies[kind[r]],
         obj'[r] = Live(kind[r], body, NewStatus(kind[r])), pods'[r] = NoPods
  PROVE  Exists(r)' /\ ItemOK(r)'
<1>1. kind[r] # "none"
  BY KindBodies
<1>2. obj'[r] = [kind |-> kind[r], deleting |-> FALSE, body |-> body, status |-> NewStatus(kind[r])]
  BY DEF Live
<1>3. Exists(r)'
  BY <1>1, <1>2 DEF Exists, Absent
<1>4. PodsOK(r)'
  BY DEF PodsOK, NoPods
<1>5. ASSUME kind[r] \in Workload PROVE StatusOK(r)'
  <2>1. obj'[r].status = NoStatus
    BY <1>2, <1>5 DEF NewStatus
  <2>. QED BY <2>1 DEF StatusOK, NoStatus
<1>6. ASSUME kind[r] \notin Workload PROVE obj'[r].status \in ToSet(Statuses[kind[r]])
  <2>1. Statuses[kind[r]] \in Seq(ToSet(Statuses[kind[r]])) /\ Statuses[kind[r]] # <<>>
    BY <1>6, KindStatus
  <2>2. obj'[r].status = Head(Statuses[kind[r]])
    BY <1>2, <1>6 DEF NewStatus
  <2>. QED BY <2>1, <2>2
<1>7. ObjectOK(r)'
  BY <1>2, <1>6 DEF ObjectOK
<1>. QED BY <1>3, <1>4, <1>5, <1>7 DEF ItemOK

LEMMA StoreStep ==
  ASSUME ClusterInv, kind' = kind, NEW r \in Res, NEW body \in Bodies[kind[r]], Store(r, body)
  PROVE  /\ ClusterInv' /\ Exists(r)' /\ obj'[r].body = body
         /\ \A s \in Res : s # r => obj'[s] = obj[s]
<1>1. obj = [s \in Res |-> obj[s]] /\ pods = [s \in Res |-> pods[s]] /\ kind \in Worlds
  BY DEF ClusterInv
<1>2. CASE ~Exists(r)
  <2>. DEFINE o == Live(kind[r], body, NewStatus(kind[r]))
  <2>1. obj' = [obj EXCEPT ![r] = o] /\ pods' = [pods EXCEPT ![r] = NoPods]
    BY <1>2 DEF Store
  <2>2. obj'[r] = o /\ pods'[r] = NoPods
    BY <1>1, <2>1
  <2>3. o.body = body
    BY DEF Live
  <2>. HIDE DEF o
  <2>4. Exists(r)' /\ ItemOK(r)'
    BY <1>1, <2>2, LiveOK DEF o
  <2>5. ClusterInv'
    BY <2>1, <2>4, ClusterAt
  <2>6. \A s \in Res : s # r => obj'[s] = obj[s]
    BY <1>1, <2>1
  <2>. QED BY <2>2, <2>3, <2>4, <2>5, <2>6
<1>3. CASE Exists(r)
  <2>. DEFINE k == kind[r]
              behind == k \in Workload /\ obj[r].status.observed = "current" /\ obj[r].body # body
              st == IF behind THEN [obj[r].status EXCEPT !.observed = "behind"] ELSE obj[r].status
              o == [kind |-> k, deleting |-> obj[r].deleting, body |-> body, status |-> st]
              p == IF Template(body) = Template(obj[r].body) THEN pods[r] ELSE Replace(pods[r])
  <2>1. ItemOK(r) /\ ObjectOK(r) /\ PodsOK(r) /\ (k \in Workload => StatusOK(r))
    BY <1>3 DEF ClusterInv, ItemOK
  <2>2. obj' = [obj EXCEPT ![r] = o]
    <3>1. obj' = [obj EXCEPT ![r] = [Live(k, body, st) EXCEPT !.deleting = obj[r].deleting]]
      BY <1>3 DEF Store
    <3>. HIDE DEF st
    <3>2. [Live(k, body, st) EXCEPT !.deleting = obj[r].deleting] = o
      BY DEF Live
    <3>. HIDE DEF o
    <3>. QED BY <3>1, <3>2
  <2>3. pods' = [pods EXCEPT ![r] = p]
    BY <1>3 DEF Store
  <2>4. obj'[r] = o /\ pods'[r] = p
    BY <1>1, <2>2, <2>3
  <2>5. Exists(r)'
    <3>1. o # Absent
      BY <1>1, KindBodies DEF Absent
    <3>. QED BY <2>4, <3>1 DEF Exists
  <2>6. PodsOK(r)'
    <3>1. CASE p = pods[r]
      BY <2>1, <2>4, <3>1 DEF PodsOK
    <3>2. CASE p = Replace(pods[r])
      BY <2>1, <2>4, <3>2 DEF PodsOK, Replace
    <3>. QED BY <3>1, <3>2
  <2>7. ObjectOK(r)'
    <3>1. k \notin Workload => st = obj[r].status
      OBVIOUS
    <3>2. o.status = st /\ o.body = body /\ o.deleting = obj[r].deleting
      OBVIOUS
    <3>. HIDE DEF st
    <3>. QED BY <2>1, <2>4, <3>1, <3>2 DEF ObjectOK
  <2>8. ASSUME k \in Workload PROVE StatusOK(r)'
    <3>1. obj'[r].status = st
      BY <2>4
    <3>2. CASE behind
      BY <2>1, <2>8, <3>1, <3>2 DEF StatusOK
    <3>3. CASE ~behind
      <4>1. obj'[r].status = obj[r].status /\ StatusOK(r)
        BY <2>1, <2>8, <3>1, <3>3
      <4>2. obj[r].status.observed = "current" => p = pods[r]
        BY <2>8, <3>3
      <4>. HIDE DEF p
      <4>. QED BY <2>4, <4>1, <4>2 DEF StatusOK, Current
    <3>. QED BY <3>2, <3>3
  <2>9. ItemOK(r)'
    BY <2>6, <2>7, <2>8 DEF ItemOK
  <2>10. obj'[r].body = body
    BY <2>4
  <2>. HIDE DEF o, p
  <2>11. ClusterInv'
    BY <2>2, <2>3, <2>9, ClusterAt
  <2>12. \A s \in Res : s # r => obj'[s] = obj[s]
    BY <1>1, <2>2
  <2>. QED BY <2>5, <2>10, <2>11, <2>12
<1>. QED BY <1>2, <1>3

(* Each of the other steps of the cluster changes an object or its pods.     *)
LEMMA PodsStep ==
  ASSUME ClusterInv, kind' = kind, obj' = obj, NEW r \in Res, NEW p,
         pods' = [pods EXCEPT ![r] = p], PodsOK(r)', "old" \in p.has => "old" \in pods[r].has
  PROVE  ClusterInv'
<1>1. obj' = [obj EXCEPT ![r] = obj[r]] /\ pods'[r] = p /\ obj'[r] = obj[r] /\ ItemOK(r)
  BY DEF ClusterInv, ItemOK
<1>2. ItemOK(r)'
  BY <1>1 DEF ItemOK, Exists, ObjectOK, StatusOK, Current
<1>. QED BY <1>1, <1>2, ClusterAt

LEMMA ObjectStep ==
  ASSUME ClusterInv, kind' = kind, pods' = pods, NEW r \in Res, NEW o,
         obj' = [obj EXCEPT ![r] = o], Exists(r)' => ObjectOK(r)' /\ (kind[r] \in Workload => StatusOK(r)')
  PROVE  ClusterInv'
<1>1. pods' = [pods EXCEPT ![r] = pods[r]] /\ pods'[r] = pods[r] /\ ItemOK(r)
  BY DEF ClusterInv, ItemOK
<1>2. ItemOK(r)'
  BY <1>1 DEF ItemOK, PodsOK
<1>. QED BY <1>1, <1>2, ClusterAt

LEMMA RollStep ==
  ASSUME ClusterInv, NEW r \in Res, Roll(r)
  PROVE  ClusterInv' /\ obj' = obj
<1>1. kind' = kind /\ obj' = obj /\ kind[r] \in Workload
  BY DEF Roll
<1>2. pods = [s \in Res |-> pods[s]] /\ PodsOK(r)
  BY DEF ClusterInv
<1>. DEFINE p == pods[r]
<1>3. CASE /\ "new" \notin p.has /\ (p.has = {} \/ kind[r] = "Deployment")
           /\ pods' = [pods EXCEPT ![r].has = @ \cup {"new"}]
  <2>. DEFINE q == [has |-> p.has \cup {"new"}, up |-> p.up, current |-> p.current]
  <2>1. pods' = [pods EXCEPT ![r] = [p EXCEPT !.has = p.has \cup {"new"}]]
    BY <1>2, <1>3
  <2>2. [p EXCEPT !.has = p.has \cup {"new"}] = q
    BY <1>2 DEF PodsOK
  <2>3. pods' = [pods EXCEPT ![r] = q] /\ pods'[r] = q
    BY <1>2, <2>1, <2>2
  <2>4. PodsOK(r)'
    BY <1>1, <1>2, <1>3, <2>3 DEF PodsOK
  <2>. QED BY <1>1, <2>3, <2>4, PodsStep
<1>4. CASE pods' = [pods EXCEPT ![r] = [has |-> p.has \ {"old"}, up |-> p.up \ {"old"},
                                         current |-> p.current]]
  <2>. DEFINE q == [has |-> p.has \ {"old"}, up |-> p.up \ {"old"}, current |-> p.current]
  <2>1. pods'[r] = q
    BY <1>2, <1>4
  <2>2. PodsOK(r)'
    BY <1>1, <1>2, <2>1 DEF PodsOK
  <2>. QED BY <1>1, <1>4, <2>2, PodsStep
<1>5. CASE pods' = [pods EXCEPT ![r].up = p.has]
  <2>. DEFINE q == [has |-> p.has, up |-> p.has, current |-> p.current]
  <2>1. pods' = [pods EXCEPT ![r] = [p EXCEPT !.up = p.has]]
    BY <1>2, <1>5
  <2>2. [p EXCEPT !.up = p.has] = q
    BY <1>2 DEF PodsOK
  <2>3. pods' = [pods EXCEPT ![r] = q] /\ pods'[r] = q
    BY <1>2, <2>1, <2>2
  <2>4. PodsOK(r)'
    BY <1>1, <1>2, <2>3 DEF PodsOK
  <2>. QED BY <1>1, <2>3, <2>4, PodsStep
<1>. QED BY <1>1, <1>3, <1>4, <1>5 DEF Roll

LEMMA PodFailsStep ==
  ASSUME ClusterInv, NEW r \in Res, PodFails(r)
  PROVE  ClusterInv' /\ obj' = obj
<1>1. kind' = kind /\ obj' = obj /\ pods' = [pods EXCEPT ![r].up = {}]
  BY DEF PodFails
<1>2. pods = [s \in Res |-> pods[s]] /\ PodsOK(r)
  BY DEF ClusterInv
<1>. DEFINE p == pods[r]
            q == [has |-> p.has, up |-> {}, current |-> p.current]
<1>3. pods' = [pods EXCEPT ![r] = [p EXCEPT !.up = {}]]
  BY <1>1, <1>2
<1>4. [p EXCEPT !.up = {}] = q
  BY <1>2 DEF PodsOK
<1>5. pods' = [pods EXCEPT ![r] = q] /\ pods'[r] = q
  BY <1>2, <1>3, <1>4
<1>6. PodsOK(r)'
  BY <1>1, <1>2, <1>5 DEF PodsOK
<1>. QED BY <1>1, <1>5, <1>6, PodsStep

LEMMA DeleteStep ==
  ASSUME ClusterInv, NEW r \in Res, Delete(r)
  PROVE  ClusterInv' /\ Exists(r) /\ obj'[r].body = obj[r].body
         /\ \A s \in Res : s # r => obj'[s] = obj[s]
<1>1. kind' = kind /\ pods' = pods /\ Exists(r) /\ obj' = [obj EXCEPT ![r].deleting = TRUE]
  BY DEF Delete
<1>2. obj = [s \in Res |-> obj[s]] /\ ObjectOK(r) /\ (kind[r] \in Workload => StatusOK(r))
  BY <1>1 DEF ClusterInv
<1>. DEFINE deleting == TRUE
            q == [kind |-> kind[r], deleting |-> deleting, body |-> obj[r].body, status |-> obj[r].status]
<1>3. obj' = [obj EXCEPT ![r] = [obj[r] EXCEPT !.deleting = deleting]]
  BY <1>1, <1>2
<1>4. [obj[r] EXCEPT !.deleting = deleting] = q
  <2>. HIDE DEF deleting
  <2>. QED BY <1>2 DEF ObjectOK
<1>5. obj' = [obj EXCEPT ![r] = q] /\ obj'[r] = q
  BY <1>2, <1>3, <1>4
<1>6. ObjectOK(r)' /\ (kind[r] \in Workload => StatusOK(r)')
  BY <1>1, <1>2, <1>5 DEF ObjectOK, StatusOK, Current
<1>7. ClusterInv'
  BY <1>1, <1>5, <1>6, ObjectStep
<1>8. \A s \in Res : s # r => obj'[s] = obj[s]
  BY <1>2, <1>5
<1>. QED BY <1>1, <1>5, <1>7, <1>8

LEMMA EvolveStep ==
  ASSUME ClusterInv, NEW r \in Res, Evolve(r)
  PROVE  ClusterInv' /\ Exists(r) /\ obj'[r].body = obj[r].body
         /\ \A s \in Res : s # r => obj'[s] = obj[s]
<1>1. kind' = kind /\ pods' = pods /\ Exists(r) /\ kind[r] \notin Workload
  BY DEF Evolve
<1>2. obj = [s \in Res |-> obj[s]] /\ ObjectOK(r)
  BY <1>1 DEF ClusterInv
<1>3. PICK st \in ToSet(Statuses[kind[r]]) : obj' = [obj EXCEPT ![r].status = st]
  BY DEF Evolve
<1>. DEFINE q == [kind |-> kind[r], deleting |-> obj[r].deleting, body |-> obj[r].body, status |-> st]
<1>4. obj' = [obj EXCEPT ![r] = [obj[r] EXCEPT !.status = st]]
  BY <1>2, <1>3
<1>5. [obj[r] EXCEPT !.status = st] = q
  BY <1>2 DEF ObjectOK
<1>6. obj' = [obj EXCEPT ![r] = q] /\ obj'[r] = q
  BY <1>2, <1>4, <1>5
<1>7. ObjectOK(r)'
  BY <1>1, <1>2, <1>6 DEF ObjectOK
<1>8. ClusterInv'
  BY <1>1, <1>6, <1>7, ObjectStep
<1>9. \A s \in Res : s # r => obj'[s] = obj[s]
  BY <1>2, <1>6
<1>. QED BY <1>1, <1>6, <1>8, <1>9

LEMMA VanishStep ==
  ASSUME ClusterInv, NEW r \in Res, Vanish(r)
  PROVE  ClusterInv' /\ ~Exists(r)' /\ \A s \in Res : s # r => obj'[s] = obj[s]
<1>1. /\ kind' = kind /\ obj' = [obj EXCEPT ![r] = Absent] /\ pods' = [pods EXCEPT ![r] = NoPods]
  BY DEF Vanish
<1>2. /\ obj = [s \in Res |-> obj[s]] /\ pods = [s \in Res |-> pods[s]]
      /\ obj'[r] = Absent /\ pods'[r] = NoPods
  BY <1>1 DEF ClusterInv
<1>3. ItemOK(r)' /\ ~Exists(r)'
  BY <1>2 DEF ItemOK, Exists, PodsOK, NoPods
<1>4. ClusterInv'
  BY <1>1, <1>3, ClusterAt
<1>. QED BY <1>1, <1>2, <1>3, <1>4

LEMMA SyncStatusStep ==
  ASSUME ClusterInv, NEW r \in Res, SyncStatus(r)
  PROVE  ClusterInv' /\ Exists(r) /\ Exists(r)' /\ obj'[r].body = obj[r].body
         /\ \A s \in Res : s # r => obj'[s] = obj[s]
<1>. DEFINE p == pods[r]
            current == IF kind[r] = "StatefulSet" /\ p.up # {"new"} THEN p.current ELSE "new"
            St(stuck) == [observed |-> "current", updated |-> Cardinality(p.has \cap {"new"}),
                          replicas |-> Cardinality(p.has), ready |-> Cardinality(p.up),
                          available |-> Cardinality(p.up), desired |-> 1,
                          deadline |-> stuck, failure |-> stuck,
                          updateRevision |-> "new", currentRevision |-> current, up |-> p.up]
            q == [has |-> p.has, up |-> p.up, current |-> current]
<1>1. kind' = kind /\ kind \in Worlds /\ Exists(r) /\ kind[r] \in Workload
  BY DEF SyncStatus, ClusterInv
<1>2. PICK stuck \in BOOLEAN : /\ obj' = [obj EXCEPT ![r].status = St(stuck)]
                               /\ pods' = [pods EXCEPT ![r].current = current]
  BY DEF SyncStatus
<1>3. /\ obj = [s \in Res |-> obj[s]] /\ pods = [s \in Res |-> pods[s]]
      /\ PodsOK(r) /\ ObjectOK(r)
  BY <1>1 DEF ClusterInv
<1>. DEFINE st == St(stuck)
            o == [kind |-> kind[r], deleting |-> obj[r].deleting, body |-> obj[r].body, status |-> st]
<1>4. obj' = [obj EXCEPT ![r] = o]
  <2>. HIDE DEF St
  <2>1. obj' = [obj EXCEPT ![r] = [obj[r] EXCEPT !.status = st]]
    BY <1>2, <1>3
  <2>2. [obj[r] EXCEPT !.status = st] = o
    BY <1>3 DEF ObjectOK
  <2>. QED BY <2>1, <2>2
<1>5. pods' = [pods EXCEPT ![r] = q]
  <2>. HIDE DEF current
  <2>1. pods' = [pods EXCEPT ![r] = [p EXCEPT !.current = current]]
    BY <1>2, <1>3
  <2>2. [p EXCEPT !.current = current] = q
    BY <1>3 DEF PodsOK
  <2>. QED BY <2>1, <2>2
<1>6. obj'[r] = o /\ pods'[r] = q /\ \A s \in Res : s # r => obj'[s] = obj[s]
  <2>. HIDE DEF o, q
  <2>. QED BY <1>3, <1>4, <1>5
<1>7. o # Absent
  BY <1>1, KindBodies DEF Absent
<1>8. kind[r] = "StatefulSet" /\ current = "new" => "old" \notin p.has
  BY <1>3 DEF PodsOK
<1>9. PodsOK(r)'
  <2>. HIDE DEF current
  <2>. QED BY <1>1, <1>3, <1>6, <1>8 DEF PodsOK
<1>10. Current(obj[r].status, r)'
  <2>1. /\ Cardinality(p.up) \in Nat /\ (Cardinality(p.up) >= 1 => p.up # {})
        /\ Cardinality(p.has) \in Nat /\ Cardinality(p.has \cap {"new"}) \in Nat
        /\ Cardinality(p.has) <= Cardinality(p.has \cap {"new"}) => "old" \notin p.has
        /\ Cardinality(p.has \cap {"new"}) >= 1 => "new" \in p.has
    <3>1. p.has \in SUBSET {"old", "new"} /\ p.up \in SUBSET {"old", "new"}
      BY <1>3 DEF PodsOK
    <3>. QED BY <3>1, PodCount
  <2>2. kind[r] # "Deployment" => ~({"old", "new"} \subseteq p.has)
    BY <1>3 DEF PodsOK
  <2>3. q.has = p.has
    OBVIOUS
  <2>. DEFINE up == Cardinality(p.up)
              has == Cardinality(p.has)
              new == Cardinality(p.has \cap {"new"})
  <2>4. /\ st.updated = new /\ st.replicas = has /\ st.ready = up /\ st.available = up
        /\ st.desired = 1 /\ st.updateRevision = "new" /\ st.currentRevision = current
        /\ st.up = p.up
    OBVIOUS
  <2>. HIDE DEF up, has, new, st, current, q
  <2>5. /\ st.updated \in Nat /\ st.replicas \in Nat /\ st.ready \in Nat /\ st.available \in Nat
        /\ st.desired = 1 /\ st.updateRevision = "new"
        /\ st.ready >= 1 \/ st.available >= 1 => st.up # {}
    BY <2>1, <2>4 DEF up, has, new
  <2>6. /\ st.replicas <= st.updated => "old" \notin p.has
        /\ kind[r] # "Deployment" /\ st.updated >= 1 => "old" \notin p.has
        /\ kind[r] = "StatefulSet" /\ st.currentRevision = "new" => "old" \notin p.has
    BY <1>8, <2>1, <2>2, <2>4 DEF has, new
  <2>7. obj'[r].status = st /\ pods'[r] = q
    BY <1>6
  <2>. QED BY <1>1, <2>3, <2>5, <2>6, <2>7 DEF Current
<1>11. StatusOK(r)'
  <2>1. obj'[r].status = st
    BY <1>6
  <2>2. st = [observed |-> st.observed, updated |-> st.updated, replicas |-> st.replicas,
              ready |-> st.ready, available |-> st.available, desired |-> st.desired,
              deadline |-> st.deadline, failure |-> st.failure,
              updateRevision |-> st.updateRevision, currentRevision |-> st.currentRevision,
              up |-> st.up]
    OBVIOUS
  <2>. HIDE DEF st
  <2>. QED BY <1>10, <2>1, <2>2 DEF StatusOK
<1>12. ObjectOK(r)'
  <2>. HIDE DEF st
  <2>. QED BY <1>1, <1>3, <1>6 DEF ObjectOK
<1>13. ItemOK(r)' /\ Exists(r)'
  BY <1>6, <1>7, <1>9, <1>11, <1>12 DEF ItemOK, Exists
<1>14. obj'[r].body = obj[r].body
  BY <1>6
<1>. HIDE DEF o, q
<1>15. ClusterInv'
  BY <1>1, <1>4, <1>5, <1>13, ClusterAt
<1>. QED BY <1>1, <1>6, <1>13, <1>14, <1>15

-----------------------------------------------------------------------------
(* An object whose verdict is Healthy is rolled out: that is where the       *)
(* checks of each kind, the generations they compare and what controllers    *)
(* write into a status come together.                                        *)
LEMMA WorkloadRolled ==
  ASSUME ClusterInv, NEW r \in Res, Exists(r), kind[r] \in Workload,
         get_resource_health(obj[r]) = "Healthy"
  PROVE  Rolled(r)
<1>. DEFINE o == obj[r]
            st == o.status
            sp == spec(o)
<1>1. kind \in Worlds /\ ObjectOK(r) /\ StatusOK(r)
  BY DEF ClusterInv
<1>2. o.kind = kind[r] /\ o.deleting \in BOOLEAN /\ o.body \in Bodies[kind[r]]
  BY <1>1 DEF ObjectOK
<1>3. /\ kind[r] # "DaemonSet" => Get(sp, "replicas") = Num(1)
      /\ ~Has(sp, "updateStrategy.type")
  BY <1>1, <1>2, KindWorkload DEF spec
<1>4. /\ kind[r] # "DaemonSet" => Has(sp, "replicas") /\ Get(sp, "replicas").v = 1
      /\ ~Same(Strategy(o), Str("OnDelete")) /\ ~Same(Strategy(o), Str("RollingUpdate"))
  BY <1>3 DEF Num, Strategy, Get, Same, Null, Str
<1>5. ~o.deleting
  BY <1>2 DEF get_resource_health
<1>6. st.observed = "current" => Current(st, r)
  BY <1>1 DEF StatusOK
<1>7. CASE kind[r] = "Deployment"
  <2>1. deployment_health(o) = "Healthy"
    BY <1>2, <1>5, <1>7 DEF get_resource_health
  <2>2. st.observed = "current" /\ ~(Get(sp, "replicas").v # st.updated)
        /\ ~(st.replicas > st.updated) /\ ~(st.available < st.updated)
    BY <1>4, <1>7, <2>1 DEF deployment_health, Waiting
  <2>3. st.updated = 1 /\ st.replicas <= st.updated /\ st.available >= 1
    BY <1>4, <1>6, <1>7, <2>2 DEF Current
  <2>. QED BY <1>6, <1>7, <2>2, <2>3 DEF Rolled, Current, Workload
<1>8. CASE kind[r] = "StatefulSet"
  <2>1. statefulset_health(o) = "Healthy"
    BY <1>2, <1>5, <1>8 DEF get_resource_health
  <2>2. st.observed = "current" /\ ~(st.ready < Get(sp, "replicas").v)
        /\ st.updateRevision = st.currentRevision
    BY <1>4, <1>8, <2>1 DEF statefulset_health, Waiting
  <2>3. st.ready >= 1 /\ st.currentRevision = "new"
    BY <1>4, <1>6, <1>8, <2>2 DEF Current
  <2>. QED BY <1>6, <1>8, <2>2, <2>3 DEF Rolled, Current, Workload
<1>9. CASE kind[r] = "DaemonSet"
  <2>1. daemonset_health(o) = "Healthy"
    BY <1>2, <1>5, <1>9 DEF get_resource_health
  <2>2. st.observed = "current" /\ ~(st.updated < st.desired) /\ ~(st.available < st.desired)
    BY <1>4, <2>1 DEF daemonset_health, Waiting
  <2>3. st.updated >= 1 /\ st.available >= 1
    BY <1>6, <2>2 DEF Current
  <2>. QED BY <1>6, <1>9, <2>2, <2>3 DEF Rolled, Current, Workload
<1>10. CASE kind[r] = "ReplicaSet"
  <2>1. replicaset_health(o) = "Healthy"
    BY <1>2, <1>5, <1>10 DEF get_resource_health
  <2>2. st.observed = "current" /\ ~(st.available < Get(sp, "replicas").v)
    BY <1>4, <1>10, <2>1 DEF replicaset_health, Waiting
  <2>3. st.available >= 1
    BY <1>4, <1>6, <1>10, <2>2 DEF Current
  <2>. QED BY <1>6, <1>10, <2>2, <2>3 DEF Rolled, Current
<1>. QED BY <1>7, <1>8, <1>9, <1>10 DEF Workload

LEMMA HpaReady ==
  ASSUME NEW o, o.status.conditions \in Seq(ToSet(o.status.conditions)),
         hpa_health(o) = "Healthy"
  PROVE  Ready("HorizontalPodAutoscaler", o.status)
<1>. DEFINE conditions == o.status.conditions
            decisive == {i \in DOMAIN conditions :
                           is_hpa_degraded(conditions[i]) \/ HpaHealthy(conditions[i])}
            first == Min(decisive)
<1>1. decisive # {} /\ ~is_hpa_degraded(conditions[first])
  BY DEF hpa_health
<1>2. decisive \in SUBSET Nat
  OBVIOUS
<1>3. first \in decisive /\ \A i \in decisive : first <= i
  <2>. HIDE DEF decisive
  <2>1. \E n \in decisive : \A m \in decisive : n <= m
    BY <1>1, <1>2, Least
  <2>. QED BY <2>1 DEF Min
<1>4. first \in DOMAIN conditions /\ HpaHealthy(conditions[first])
  BY <1>1, <1>3
<1>5. ASSUME NEW j \in DOMAIN conditions, j < first
      PROVE  ~is_hpa_degraded(conditions[j])
  <2>1. j \notin decisive
    <3>. HIDE DEF decisive, first
    <3>1. j \in decisive => first <= j /\ first \in Nat /\ j \in Nat
      BY <1>2, <1>3
    <3>. QED BY <1>5, <3>1
  <2>. QED BY <2>1
<1>. QED BY <1>4, <1>5 DEF Ready

LEMMA HealthyReady ==
  ASSUME NEW o, o.deleting \in BOOLEAN, o.kind \notin Workload,
         o.kind = "HorizontalPodAutoscaler" =>
           o.status.conditions \in Seq(ToSet(o.status.conditions)),
         get_resource_health(o) = "Healthy"
  PROVE  \/ o.kind = "Service" /\ ~Same(Get(spec(o), "type"), Str("LoadBalancer"))
         \/ Ready(o.kind, o.status)
<1>1. ~o.deleting
  BY DEF get_resource_health
<1>2. CASE o.kind = "Pod"
  <2>1. pod_health(o) = "Healthy"
    BY <1>1, <1>2 DEF get_resource_health
  <2>. QED BY <1>2, <2>1 DEF pod_health, Ready
<1>3. CASE o.kind = "Job"
  <2>1. job_health(o) = "Healthy"
    BY <1>1, <1>3 DEF get_resource_health
  <2>. QED BY <1>3, <2>1 DEF job_health, Ready
<1>4. CASE o.kind = "Service"
  <2>1. service_health(o) = "Healthy"
    BY <1>1, <1>4 DEF get_resource_health
  <2>. QED BY <1>4, <2>1 DEF service_health, Waiting, Ready
<1>5. CASE o.kind = "Ingress"
  <2>1. ingress_health(o) = "Healthy"
    BY <1>1, <1>5 DEF get_resource_health
  <2>. QED BY <1>5, <2>1 DEF ingress_health, Waiting, Ready
<1>6. CASE o.kind = "PersistentVolumeClaim"
  <2>1. pvc_health(o) = "Healthy"
    BY <1>1, <1>6 DEF get_resource_health
  <2>. QED BY <1>6, <2>1 DEF pvc_health, Ready
<1>7. CASE o.kind = "APIService"
  <2>1. apiservice_health(o) = "Healthy"
    BY <1>1, <1>7 DEF get_resource_health
  <2>. QED BY <1>7, <2>1 DEF apiservice_health, Waiting, Ready
<1>8. CASE o.kind = "Workflow"
  <2>1. workflow_health(o) = "Healthy"
    BY <1>1, <1>8 DEF get_resource_health
  <2>. QED BY <1>8, <2>1 DEF workflow_health, Ready
<1>9. CASE o.kind = "HorizontalPodAutoscaler"
  <2>1. hpa_health(o) = "Healthy"
    BY <1>1, <1>9 DEF get_resource_health
  <2>. QED BY <1>9, <2>1, HpaReady
<1>10. CASE o.kind \notin {"Pod", "Job", "Service", "Ingress", "PersistentVolumeClaim",
                          "APIService", "Workflow", "HorizontalPodAutoscaler"}
  BY <1>10 DEF Ready
<1>. QED BY <1>2, <1>3, <1>4, <1>5, <1>6, <1>7, <1>8, <1>9, <1>10

LEMMA HealthyRolled ==
  ASSUME ClusterInv, NEW r \in Res, Exists(r), get_resource_health(obj[r]) = "Healthy"
  PROVE  Rolled(r)
<1>1. CASE kind[r] \in Workload
  BY <1>1, WorkloadRolled
<1>2. CASE kind[r] \notin Workload
  <2>1. kind \in Worlds /\ ObjectOK(r)
    BY DEF ClusterInv
  <2>2. /\ obj[r].deleting \in BOOLEAN /\ obj[r].status \in ToSet(Statuses[kind[r]])
        /\ obj[r].kind = kind[r]
    BY <1>2, <2>1 DEF ObjectOK
  <2>3. \/ kind[r] = "Service" /\ ~Same(Get(spec(obj[r]), "type"), Str("LoadBalancer"))
        \/ Ready(kind[r], obj[r].status)
    BY <1>2, <2>1, <2>2, KindStatus, HealthyReady
  <2>. QED BY <1>2, <2>3 DEF Rolled
<1>. QED BY <1>1, <1>2

-----------------------------------------------------------------------------
(* What a listing shows of a resource.                                       *)
LEMMA MissingOK ==
  ASSUME NEW r \in Res
  PROVE  /\ LookType(Missing(r)) /\ HealthOf(Missing(r), r)
         /\ ~Missing(r).found /\ Missing(r).drift
<1>1. Missing(r) = [found |-> FALSE, drift |-> TRUE, rolled |-> FALSE, held |-> FALSE,
                    verdict |-> IF has_health_check(kind[r]) THEN "Missing" ELSE "none"]
  BY DEF Missing
<1>2. "Missing" \in Codes
  BY CodesAre
<1>. QED BY <1>1, <1>2 DEF LookType, HealthOf

Real(l) == l.found /\ l.drift => ~l.held

LEMMA LookOK ==
  ASSUME ClusterInv, NEW r \in Res, sha \in Commit
  PROVE  /\ LookType(Look(r)) /\ HealthOf(Look(r), r)
         /\ Look(r).found \/ Look(r).drift
         /\ Look(r).held \/ Look(r).drift
         /\ Real(Look(r))
         /\ Look(r).found => Exists(r) /\ (Holds(Desired(r), obj[r].body) => Look(r).held)
<1>1. CASE ~Exists(r)
  BY <1>1, MissingOK DEF Look, Real
<1>2. CASE Exists(r)
  <2>. DEFINE verdict == get_resource_health(obj[r])
              drift == specs_differ(Desired(r), obj[r].body)
              held == Holds(Desired(r), obj[r].body)
              rolled == Rolled(r)
  <2>1. Look(r) = [found |-> TRUE, verdict |-> verdict, drift |-> drift,
                   rolled |-> rolled, held |-> held]
    BY <1>2 DEF Look
  <2>2. drift \in BOOLEAN /\ held \in BOOLEAN /\ rolled \in BOOLEAN
    BY DEF specs_differ, Holds, Rolled
  <2>3. verdict \in Codes \cup {"none"} /\ (has_health_check(kind[r]) => verdict # "none")
    <3>1. obj[r].kind = kind[r]
      BY <1>2 DEF ClusterInv, ObjectOK
    <3>. QED BY <3>1, Verdicts
  <2>4. verdict = "Healthy" => rolled
    BY <1>2, HealthyRolled
  <2>5. ~drift <=> held
    <3>1. kind \in Worlds /\ obj[r].body \in Bodies[kind[r]]
      BY <1>2 DEF ClusterInv, ObjectOK
    <3>2. obj[r].body \in Json /\ obj[r].body.t = "object"
      BY <3>1, KindBodies
    <3>3. Desired(r) \in Json /\ Desired(r).t = "object"
      BY <3>1, KindManifest DEF Desired
    <3>. QED BY <3>2, <3>3, NoDriftHolds
  <2>6. held <=> Holds(Desired(r), obj[r].body)
    OBVIOUS
  <2>. HIDE DEF verdict, drift, held, rolled
  <2>7. LookType(Look(r))
    BY <2>1, <2>2, <2>3 DEF LookType
  <2>8. HealthOf(Look(r), r)
    BY <2>1, <2>3, <2>4 DEF HealthOf
  <2>9. Real(Look(r))
    BY <2>1, <2>2, <2>5 DEF Real
  <2>. QED BY <1>2, <2>1, <2>2, <2>5, <2>6, <2>7, <2>8, <2>9
<1>. QED BY <1>1, <1>2

(* What PassInv says of one resource.                                        *)
SeenOK(r) ==
  /\ LookType(seen[r])
  /\ Listed(r) => HealthOf(seen[r], r) /\ DriftOf(seen[r], r)
  /\ pc = "relist" /\ ~full => seen[r].drift
  /\ Applied(r) => \/ ~Exists(r) \/ r \in failed \/ r \in touched
                   \/ Holds(Desired(r), obj[r].body)

(* A step of the cluster leaves what the pass has seen, and what it applied  *)
(* but for what users touch.                                                 *)
LEMMA ClusterFrame ==
  ASSUME PassInv, UNCHANGED <<kind, pc, sha, full, todo, seen, failed>>, touched \subseteq touched',
         \A r \in Res : \/ ~Exists(r)' \/ r \in touched'
                        \/ Exists(r) /\ obj'[r].body = obj[r].body
  PROVE  PassInv'
<1>1. ASSUME NEW r \in Res PROVE SeenOK(r)'
  <2>1. SeenOK(r)
    BY DEF PassInv, SeenOK
  <2>2. \/ ~Exists(r)' \/ r \in touched'
        \/ Exists(r) /\ obj'[r].body = obj[r].body
    OBVIOUS
  <2>3. Listed(r)' = Listed(r) /\ Applied(r)' = Applied(r) /\ Desired(r)' = Desired(r)
    BY DEF Listed, Applied, Desired
  <2>4. LookType(seen[r])' /\ (HealthOf(seen[r], r) => HealthOf(seen[r], r)')
    BY <2>1 DEF SeenOK, LookType, HealthOf
  <2>5. DriftOf(seen[r], r) => DriftOf(seen[r], r)'
    BY DEF DriftOf
  <2>6. Applied(r) => \/ ~Exists(r)' \/ r \in failed' \/ r \in touched'
                      \/ Holds(Desired(r), obj'[r].body)
    BY <2>1, <2>2 DEF SeenOK
  <2>7. pc' = "relist" /\ ~full' => seen'[r].drift
    BY <2>1 DEF SeenOK
  <2>. QED BY <2>1, <2>3, <2>4, <2>5, <2>6, <2>7 DEF SeenOK
<1>. QED BY <1>1 DEF PassInv, SeenOK

LEMMA PassOverStep ==
  ASSUME NEW next \in {"idle", "record"}, PassOver(next)
  PROVE  PassInv'
<1>1. /\ pc' = next /\ full' = FALSE /\ seen' = [r \in Res |-> Unseen]
  BY DEF PassOver
<1>2. LookType(Unseen)
  BY DEF LookType, Unseen
<1>3. ASSUME NEW r \in Res PROVE SeenOK(r)'
  <2>1. seen'[r] = Unseen /\ ~Listed(r)' /\ ~Applied(r)' /\ pc' # "relist"
    BY <1>1 DEF Listed, Applied
  <2>. QED BY <1>2, <2>1 DEF SeenOK, LookType
<1>4. pc' \in Running \cup {"idle", "record"} /\ pc' \notin Running
  BY <1>1 DEF Running
<1>. QED BY <1>1, <1>3, <1>4 DEF PassInv, SeenOK

LEMMA BeginStep ==
  ASSUME TypeOK, Begin
  PROVE  PassInv'
<1>1. /\ sha' \in Commit /\ full' \in BOOLEAN /\ todo' = Res
      /\ seen' = [r \in Res |-> Unseen] /\ pc' = IF full' THEN "apply" ELSE "list"
  BY DEF Begin, TypeOK
<1>2. LookType(Unseen)
  BY DEF LookType, Unseen
<1>3. ASSUME NEW r \in Res PROVE SeenOK(r)'
  <2>1. seen'[r] = Unseen /\ ~Listed(r)' /\ ~Applied(r)' /\ pc' # "relist"
    BY <1>1 DEF Listed, Applied
  <2>. QED BY <1>2, <2>1 DEF SeenOK, LookType
<1>. QED BY <1>1, <1>3 DEF PassInv, SeenOK, Running

(* Where a pass goes once all is listed, or applied.                         *)
LEMMA Finished ==
  ASSUME NEW found, Finish(found)
  PROVE  /\ pc' \in {"write", "relist"}
         /\ pc' = "relist" => \A r \in Res : ~found[r].found
BY DEF Finish

LEMMA ListStep ==
  ASSUME ClusterInv, PassInv, NEW r \in Res, List(r)
  PROVE  PassInv'
<1>1. /\ pc = "list" /\ r \in todo
      /\ UNCHANGED <<kind, obj, pods, sha, full, failed, touched>>
  BY DEF List, cluster
<1>2. sha \in Commit /\ full \in BOOLEAN /\ seen = [s \in Res |-> seen[s]]
      /\ \A s \in Res : SeenOK(s)
  BY <1>1 DEF PassInv, Running, SeenOK
<1>3. PICK look \in {Missing(r), Look(r)} : seen' = [seen EXCEPT ![r] = look]
  BY DEF List
<1>4. /\ seen' = [s \in Res |-> seen'[s]] /\ seen'[r] = look
      /\ \A s \in Res : s # r => seen'[s] = seen[s]
  BY <1>2, <1>3
<1>5. LookType(look) /\ HealthOf(look, r) /\ DriftOf(look, r)
  <2>1. full => \/ ~Exists(r) \/ r \in failed \/ r \in touched
                \/ Holds(Desired(r), obj[r].body)
    BY <1>1, <1>2 DEF SeenOK, Applied, Running
  <2>. QED BY <1>2, <1>3, <2>1, MissingOK, LookOK DEF DriftOf
<1>6. \/ pc' = "list" /\ todo' = todo \ {r}
      \/ todo = {r} /\ pc' = "apply" /\ ~full
      \/ todo = {r} /\ pc' \in {"write", "relist"}
         /\ (pc' = "relist" => \A s \in Res : ~seen'[s].found)
  BY <1>1, Finished DEF List
<1>7. ASSUME NEW s \in Res
      PROVE  /\ LookType(seen'[s])
             /\ Listed(s)' => HealthOf(seen'[s], s) /\ DriftOf(seen'[s], s)
  <2>1. CASE s = r
    BY <1>4, <1>5, <2>1
  <2>2. CASE s # r
    <3>1. SeenOK(s) /\ seen'[s] = seen[s]
      BY <1>2, <1>4, <2>2
    <3>2. Listed(s)' => Listed(s)
      BY <1>1, <1>6, <2>2 DEF Listed
    <3>. QED BY <3>1, <3>2 DEF SeenOK
  <2>. QED BY <2>1, <2>2
<1>8. ASSUME NEW s \in Res PROVE SeenOK(s)'
  <2>1. LookType(seen[s])'
    BY <1>7 DEF LookType
  <2>2. Listed(s)' => HealthOf(seen[s], s)' /\ DriftOf(seen[s], s)'
    BY <1>1, <1>7 DEF HealthOf, DriftOf
  <2>3. pc' = "relist" /\ ~full' => seen'[s].drift
    <3>. SUFFICES ASSUME pc' = "relist", ~full PROVE seen'[s].drift
      BY <1>1
    <3>1. Listed(s)' /\ ~seen'[s].found
      BY <1>6 DEF Listed
    <3>. QED BY <1>7, <3>1 DEF DriftOf
  <2>4. Applied(s)' => Applied(s)
    BY <1>1, <1>6 DEF Applied, Running
  <2>5. Exists(s)' = Exists(s) /\ Desired(s)' = Desired(s) /\ obj'[s] = obj[s]
    BY <1>1 DEF Exists, Desired
  <2>6. Applied(s) => \/ ~Exists(s) \/ s \in failed \/ s \in touched
                      \/ Holds(Desired(s), obj[s].body)
    BY <1>2 DEF SeenOK
  <2>. QED BY <1>1, <2>1, <2>2, <2>3, <2>4, <2>5, <2>6 DEF SeenOK
<1>9. pc' \in Running
  BY <1>6 DEF Running
<1>. QED BY <1>1, <1>2, <1>4, <1>8, <1>9 DEF PassInv, SeenOK

LEMMA RelistStep ==
  ASSUME ClusterInv, PassInv, NEW r \in Res, Relist(r)
  PROVE  PassInv'
<1>1. /\ pc = "relist" /\ r \in todo /\ pc' \in {"relist", "write"}
      /\ UNCHANGED <<kind, obj, pods, sha, full, failed, touched>>
  BY DEF Relist, cluster
<1>2. sha \in Commit /\ full \in BOOLEAN /\ seen = [s \in Res |-> seen[s]]
      /\ \A s \in Res : SeenOK(s)
  BY <1>1 DEF PassInv, Running, SeenOK
<1>3. PICK look \in {Missing(r), Look(r)} :
        seen' = [seen EXCEPT ![r] = [look EXCEPT !.drift = seen[r].drift]]
  BY DEF Relist
<1>. DEFINE drift == seen[r].drift
            again == [found |-> look.found, verdict |-> look.verdict, drift |-> drift,
                      rolled |-> look.rolled, held |-> look.held]
<1>4. LookType(look) /\ HealthOf(look, r) /\ drift \in BOOLEAN /\ (~full => drift)
      /\ (look.found => Exists(r) /\ (Holds(Desired(r), obj[r].body) => look.held))
  <2>1. SeenOK(r)
    BY <1>2
  <2>. QED BY <1>1, <1>2, <1>3, <2>1, MissingOK, LookOK DEF SeenOK, LookType
<1>5. [look EXCEPT !.drift = drift] = again
  <2>. HIDE DEF drift
  <2>. QED BY <1>4 DEF LookType
<1>6. /\ seen' = [s \in Res |-> seen'[s]] /\ seen'[r] = again
      /\ \A s \in Res : s # r => seen'[s] = seen[s]
  <2>. HIDE DEF again
  <2>. QED BY <1>2, <1>3, <1>5
<1>7. LookType(again) /\ HealthOf(again, r) /\ DriftOf(again, r) /\ (~full => again.drift)
  <2>1. full => \/ ~Exists(r) \/ r \in failed \/ r \in touched
                \/ Holds(Desired(r), obj[r].body)
    BY <1>1, <1>2 DEF SeenOK, Applied, Running
  <2>. HIDE DEF drift
  <2>2. LookType(again) /\ HealthOf(again, r)
    BY <1>4 DEF LookType, HealthOf
  <2>3. full => DriftOf(again, r)
    BY <1>4, <2>1 DEF DriftOf
  <2>4. ~full => DriftOf(again, r) /\ again.drift
    BY <1>4 DEF DriftOf
  <2>. QED BY <2>2, <2>3, <2>4
<1>8. ASSUME NEW s \in Res
      PROVE  LookType(seen'[s]) /\ HealthOf(seen'[s], s) /\ DriftOf(seen'[s], s)
             /\ (~full => seen'[s].drift)
  <2>1. CASE s = r
    <3>. HIDE DEF again
    <3>. QED BY <1>6, <1>7, <2>1
  <2>2. CASE s # r
    <3>1. SeenOK(s) /\ seen'[s] = seen[s] /\ Listed(s)
      BY <1>1, <1>2, <1>6, <2>2 DEF Listed
    <3>. QED BY <1>1, <3>1 DEF SeenOK
  <2>. QED BY <2>1, <2>2
<1>9. ASSUME NEW s \in Res PROVE SeenOK(s)'
  <2>1. LookType(seen[s])' /\ HealthOf(seen[s], s)' /\ DriftOf(seen[s], s)'
    BY <1>1, <1>8 DEF LookType, HealthOf, DriftOf
  <2>2. pc' = "relist" /\ ~full' => seen'[s].drift
    BY <1>1, <1>8
  <2>3. Applied(s)' => Applied(s)
    BY <1>1 DEF Applied, Running
  <2>4. Exists(s)' = Exists(s) /\ Desired(s)' = Desired(s) /\ obj'[s] = obj[s]
    BY <1>1 DEF Exists, Desired
  <2>5. Applied(s) => \/ ~Exists(s) \/ s \in failed \/ s \in touched
                      \/ Holds(Desired(s), obj[s].body)
    BY <1>2 DEF SeenOK
  <2>. QED BY <1>1, <2>1, <2>2, <2>3, <2>4, <2>5 DEF SeenOK
<1>10. pc' \in Running
  BY <1>1 DEF Running
<1>. QED BY <1>1, <1>2, <1>6, <1>9, <1>10 DEF PassInv, SeenOK

(* An apply that did not fail left what Git declares.                        *)
LEMMA ApplyStores ==
  ASSUME ClusterInv, sha \in Commit, NEW r \in Res, Apply(r)
  PROVE  /\ ClusterInv'
         /\ \A s \in Res : s # r => obj'[s] = obj[s]
         /\ r \in failed' \/ (Exists(r)' /\ Holds(Desired(r), obj'[r].body))
<1>. DEFINE live == IF Exists(r) THEN obj[r].body ELSE Obj(<<>>)
            served == Serve(kind[r], live, Desired(r))
<1>1. kind' = kind
  BY DEF Apply
<1>2. served \in Bodies[kind[r]] /\ Holds(Desired(r), served)
  <2>1. kind \in Worlds /\ live \in Bodies[kind[r]] \cup {Obj(<<>>)}
    BY DEF ClusterInv, ObjectOK
  <2>. HIDE DEF live
  <2>. QED BY <2>1, KindManifest DEF Desired
<1>3. Store(r, served) \/ (r \in failed' /\ UNCHANGED <<obj, pods>>)
  BY DEF Apply, cluster
<1>. HIDE DEF served
<1>4. CASE Store(r, served)
  <2>1. /\ ClusterInv' /\ Exists(r)' /\ obj'[r].body = served
        /\ \A s \in Res : s # r => obj'[s] = obj[s]
    BY <1>1, <1>2, <1>4, StoreStep
  <2>. QED BY <1>2, <2>1
<1>5. CASE r \in failed' /\ UNCHANGED <<obj, pods>>
  BY <1>1, <1>5 DEF ClusterInv, PodsOK, Exists, ObjectOK, StatusOK, Current
<1>. QED BY <1>3, <1>4, <1>5

LEMMA ApplyStep ==
  ASSUME ClusterInv, PassInv, NEW r \in Res, Apply(r)
  PROVE  ClusterInv' /\ PassInv'
<1>1. /\ pc = "apply" /\ r \in todo /\ failed \subseteq failed'
      /\ UNCHANGED <<kind, sha, full, seen, touched>>
  BY DEF Apply
<1>2. sha \in Commit /\ full \in BOOLEAN /\ seen = [s \in Res |-> seen[s]]
      /\ \A s \in Res : SeenOK(s)
  BY <1>1 DEF PassInv, Running, SeenOK
<1>3. /\ ClusterInv'
      /\ \A s \in Res : s # r => obj'[s] = obj[s]
      /\ r \in failed' \/ (Exists(r)' /\ Holds(Desired(r), obj'[r].body))
  BY <1>2, ApplyStores
<1>4. \/ pc' = "apply" /\ todo' = todo \ {r}
      \/ todo = {r} /\ full /\ pc' = "list" /\ todo' = Res
      \/ todo = {r} /\ ~full /\ pc' \in {"write", "relist"}
         /\ (pc' = "relist" => \A s \in Res : ~seen[s].found)
  BY <1>1, Finished DEF Apply
<1>5. ASSUME NEW s \in Res PROVE SeenOK(s)'
  <2>1. LookType(seen[s])'
    BY <1>1, <1>2 DEF SeenOK, LookType
  <2>2. Listed(s)' => ~full /\ Listed(s)
    BY <1>1, <1>4 DEF Listed
  <2>3. Listed(s)' => HealthOf(seen[s], s)' /\ DriftOf(seen[s], s)'
    <3>. SUFFICES ASSUME Listed(s)' PROVE HealthOf(seen[s], s)' /\ DriftOf(seen[s], s)'
      OBVIOUS
    <3>1. HealthOf(seen[s], s) /\ DriftOf(seen[s], s)
      BY <1>2, <2>2 DEF SeenOK
    <3>. QED BY <1>1, <2>2, <3>1 DEF HealthOf, DriftOf
  <2>4. pc' = "relist" /\ ~full' => seen'[s].drift
    <3>. SUFFICES ASSUME pc' = "relist", ~full PROVE seen[s].drift
      BY <1>1
    <3>1. Listed(s) /\ ~seen[s].found
      BY <1>1, <1>4 DEF Listed
    <3>. QED BY <1>2, <3>1 DEF SeenOK, DriftOf
  <2>5. Desired(s)' = Desired(s)
    BY <1>1 DEF Desired
  <2>6. Applied(s)' => \/ ~Exists(s)' \/ s \in failed' \/ s \in touched'
                       \/ Holds(Desired(s), obj'[s].body)
    <3>1. CASE s = r
      BY <1>3, <3>1
    <3>2. CASE s # r
      <4>1. Applied(s)' => Applied(s)
        BY <1>1, <1>4, <3>2 DEF Applied, Running
      <4>2. obj'[s] = obj[s] /\ Exists(s)' = Exists(s)
        BY <1>3, <3>2 DEF Exists
      <4>3. Applied(s) => \/ ~Exists(s) \/ s \in failed \/ s \in touched
                          \/ Holds(Desired(s), obj[s].body)
        BY <1>2 DEF SeenOK
      <4>. QED BY <1>1, <4>1, <4>2, <4>3
    <3>. QED BY <3>1, <3>2
  <2>. QED BY <2>1, <2>3, <2>4, <2>5, <2>6 DEF SeenOK
<1>6. pc' \in Running
  BY <1>4 DEF Running
<1>. QED BY <1>1, <1>2, <1>3, <1>5, <1>6 DEF PassInv, SeenOK

-----------------------------------------------------------------------------
(* A verdict that health may come to, of a resource's own object or of a     *)
(* namesake's: never none of a kind with a check, and Healthy only of a      *)
(* resource listed rolled out, or of a name under which something was listed.*)
LEMMA JudgedVerdict ==
  ASSUME PassInv, pc = "write", NEW verdict \in Judged, NEW r \in Res
  PROVE  /\ verdict[r] \in Codes \cup {"none"}
         /\ has_health_check(kind[r]) =>
              verdict[r] # "none" /\ (verdict[r] = "Healthy" => Sound(r))
<1>1. verdict[r] \in Judgements(r)
  BY DEF Judged
<1>2. LookType(seen[r]) /\ HealthOf(seen[r], r)
  BY DEF PassInv, Listed
<1>3. CASE \A s \in Namesakes(r) : ~seen[s].found
  <2>1. verdict[r] = seen[r].verdict
    BY <1>1, <1>3 DEF Judgements
  <2>. QED BY <1>2, <2>1 DEF LookType, HealthOf, Sound
<1>4. CASE ~\A s \in Namesakes(r) : ~seen[s].found
  <2>1. Sound(r)
    BY <1>4 DEF Sound
  <2>2. verdict[r] \in IF has_health_check(kind[r]) THEN ToSet(HealthOrder) \ {"Missing"}
                       ELSE {"none", "Progressing"}
    BY <1>1, <1>4 DEF Judgements
  <2>3. ToSet(HealthOrder) \subseteq Codes /\ "none" \notin Codes /\ "Progressing" \in Codes
    BY DEF Codes, ToSet, HealthOrder
  <2>. QED BY <2>1, <2>2, <2>3
<1>. QED BY <1>3, <1>4

(* What is written: the summary counts every resource with a check, is       *)
(* healthy only if each of them was; the rest is of what the listing showed. *)
LEMMA WriteHealth ==
  ASSUME PassInv, pc = "write", NEW verdict \in Judged
  PROVE  LET health == assess([i \in DOMAIN Managed |-> verdict[Managed[i]]])
         IN  /\ Total(health.count) >= Cardinality(Checks)
             /\ WorstCounts(health)
             /\ health.worst = "Healthy" =>
                  \A r \in Res : has_health_check(kind[r]) => Sound(r)
<1>. DEFINE verdicts == [i \in DOMAIN Managed |-> verdict[Managed[i]]]
            health == assess(verdicts)
            N == Len(Managed)
<1>1. N \in Nat /\ DOMAIN Managed = 1..N /\ \A i \in 1..N : Managed[i] \in Res
  BY ManagedSeq
<1>2. verdicts = [i \in 1..N |-> verdict[Managed[i]]] /\ Len(verdicts) = N
  BY <1>1
<1>3. \A i \in 1..N : verdicts[i] \in Codes \cup {"none"}
  BY <1>1, <1>2, JudgedVerdict
<1>4. Summarises(health, verdicts, N)
  <2>. HIDE DEF verdicts
  <2>. QED BY <1>2, <1>3, AssessSummarises
<1>5. ASSUME NEW r \in Checks
      PROVE  \E i \in 1..N : Managed[i] = r /\ verdicts[i] = verdict[r] /\ verdicts[i] # "none"
  <2>1. r \in Res /\ verdict[r] # "none"
    BY <1>5, JudgedVerdict DEF Checks
  <2>2. PICK i \in 1..N : Managed[i] = r
    BY <2>1, ManagedSeq
  <2>. QED BY <1>2, <2>1, <2>2
<1>. HIDE DEF verdicts, N
<1>6. Total(health.count) >= Cardinality(Checks)
  <2>1. Checks \in SUBSET Voted(verdicts, N)
    BY <1>5 DEF Voted, Checks
  <2>2. IsFiniteSet(Voted(verdicts, N)) /\ Cardinality(Voted(verdicts, N)) <= Total(health.count)
    BY <1>4 DEF Summarises
  <2>3. Cardinality(Checks) <= Cardinality(Voted(verdicts, N)) /\ IsFiniteSet(Checks)
    BY <2>1, <2>2, FS_Subset
  <2>4. /\ Total(health.count) \in Nat /\ Cardinality(Checks) \in Nat
        /\ Cardinality(Voted(verdicts, N)) \in Nat
    BY <1>4, <2>2, <2>3, TotalType, FS_CardinalityType DEF Summarises
  <2>. HIDE DEF health
  <2>. QED BY <2>2, <2>3, <2>4
<1>7. WorstCounts(health)
  BY <1>4 DEF Summarises
<1>8. ASSUME health.worst = "Healthy", NEW r \in Res, has_health_check(kind[r])
      PROVE  Sound(r)
  <2>1. PICK i \in 1..N : verdicts[i] = verdict[r] /\ verdicts[i] # "none"
    BY <1>5, <1>8 DEF Checks
  <2>2. verdicts[i] \in Codes /\ health.count[verdicts[i]] > 0
    BY <1>3, <1>4, <2>1 DEF Summarises
  <2>3. ~is_worse("Healthy", verdicts[i])
    BY <1>7, <1>8, <2>2 DEF WorstCounts
  <2>4. verdicts[i] = "Healthy"
    BY <2>2, <2>3, RankType, Ranks DEF is_worse
  <2>. QED BY <1>8, <2>1, <2>4, JudgedVerdict
<1>. HIDE DEF health
<1>9. /\ Total(health.count) >= Cardinality(Checks) /\ WorstCounts(health)
      /\ health.worst = "Healthy" => \A r \in Res : has_health_check(kind[r]) => Sound(r)
  BY <1>6, <1>7, <1>8
<1>. QED BY <1>9 DEF health, verdicts

LEMMA WriteStep ==
  ASSUME PassInv, Write
  PROVE  StateInv'
<1>. DEFINE summary(verdict) == assess([i \in DOMAIN Managed |-> verdict[Managed[i]]])
            drift == IF full THEN 0 ELSE Cardinality(Drifts)
            rolled == \A r \in Res : has_health_check(kind[r]) => Sound(r)
            held == \A r \in Res :
                      seen[r].held \/ (full /\ (r \in touched \/ ~seen[r].found))
<1>1. PICK post \in BOOLEAN, verdict \in Judged :
        state' = [synced |-> TRUE, error |-> post, sha |-> sha, failures |-> failed,
                  drift |-> drift, health |-> summary(verdict), rolled |-> rolled, held |-> held]
  BY DEF Write
<1>. DEFINE health == summary(verdict)
<1>2. pc = "write" /\ kind' = kind
  BY DEF Write
<1>3. /\ Total(health.count) >= Cardinality(Checks) /\ WorstCounts(health)
      /\ health.worst = "Healthy" => rolled
  BY <1>2, WriteHealth
<1>4. ASSUME drift = 0, failed = {} PROVE held
  <2>. SUFFICES ASSUME NEW r \in Res
                PROVE  seen[r].held \/ (full /\ (r \in touched \/ ~seen[r].found))
    OBVIOUS
  <2>1. DriftOf(seen[r], r) /\ LookType(seen[r])
    BY <1>2 DEF PassInv, Listed
  <2>2. CASE full
    BY <1>4, <2>1, <2>2 DEF DriftOf
  <2>3. CASE ~full
    <3>1. Cardinality(Drifts) = 0 /\ Drifts \in SUBSET Res
      BY <1>4, <2>3 DEF Drifts
    <3>2. Drifts = {}
      BY <3>1, ResFinite, FS_EmptySet
    <3>3. ~seen[r].drift
      BY <3>2 DEF Drifts
    <3>. QED BY <2>1, <2>3, <3>3 DEF DriftOf
  <2>. QED BY <2>2, <2>3
<1>5. state' = [synced |-> TRUE, error |-> post, sha |-> sha, failures |-> failed,
                 drift |-> drift, health |-> health, rolled |-> rolled, held |-> held]
  BY <1>1
<1>. HIDE DEF health, drift, rolled, held
<1>6. {"synced", "error", "failures", "drift", "health", "rolled", "held"} \subseteq DOMAIN state'
  BY <1>5
<1>7. /\ state'.failures = failed /\ state'.drift = drift /\ state'.health = health
      /\ (state'.rolled <=> rolled) /\ (state'.held <=> held)
  BY <1>5
<1>8. Checks' = Checks
  BY <1>2 DEF Checks
<1>9. Written(state')
  BY <1>3, <1>4, <1>6, <1>7 DEF Written
<1>. QED BY <1>6, <1>8, <1>9 DEF StateInv, Written

-----------------------------------------------------------------------------
(* TypeOK without the cluster, of which ClusterInv says more.                *)
Bounds ==
  /\ git \in Commit /\ sha \in Commit \cup {"none"}
  /\ pc \in {"idle", "list", "relist", "apply", "write", "record"}
  /\ todo \cup failed \cup touched \subseteq Res
  /\ stale \in BOOLEAN /\ left \in 0..Mishaps[kind]

LEMMA TypeIsBounds == ClusterInv => (TypeOK <=> Bounds)
BY DEF ClusterInv, ObjectOK, PodsOK, TypeOK, Bounds

LEMMA ReportInit == Init => IInv
<1>. SUFFICES ASSUME Init PROVE IInv
  OBVIOUS
<1>1. kind \in Worlds /\ Commit # {} /\ git \in Commit /\ Mishaps[kind] \in Nat
  BY ManagedAssumption DEF Init
<1>2. ASSUME NEW r \in Res
      PROVE  ~Exists(r) /\ PodsOK(r) /\ SeenOK(r)
  <2>1. obj[r] = Absent /\ pods[r] = NoPods /\ seen[r] = Unseen /\ pc = "idle"
    BY DEF Init
  <2>2. LookType(Unseen)
    BY DEF LookType, Unseen
  <2>3. ~Listed(r) /\ ~Applied(r)
    BY <2>1 DEF Listed, Applied, Running
  <2>4. ~Exists(r) /\ PodsOK(r)
    BY <2>1 DEF Exists, PodsOK, NoPods
  <2>. QED BY <2>1, <2>2, <2>3, <2>4 DEF SeenOK
<1>3. ClusterInv
  BY <1>1, <1>2 DEF ClusterInv, Init
<1>4. PassInv
  BY <1>2 DEF PassInv, SeenOK, Init, Running
<1>5. StateInv
  BY DEF StateInv, Init, NoState
<1>6. Bounds
  <2>1. left = Mishaps[kind]
    BY DEF Init
  <2>2. left \in 0..Mishaps[kind]
    BY <1>1, <2>1
  <2>3. /\ sha = "none" /\ pc = "idle" /\ todo = {} /\ failed = {} /\ touched = {}
        /\ stale = FALSE
    BY DEF Init
  <2>. QED BY <1>1, <2>2, <2>3 DEF Bounds
<1>. QED BY <1>3, <1>4, <1>5, <1>6, TypeIsBounds DEF IInv

LEMMA LeftFalls ==
  ASSUME kind \in Worlds, kind' = kind, left \in 0..Mishaps[kind], Mishap \/ left' = left
  PROVE  left' \in 0..Mishaps[kind']
<1>1. Mishaps[kind] \in Nat
  BY ManagedAssumption
<1>. QED BY <1>1 DEF Mishap

LEMMA BoundsStep ==
  ASSUME kind \in Worlds, Bounds, Next
  PROVE  Bounds'
<1>1. kind' = kind /\ (Mishap \/ left' = left)
  <2>1. CASE PassStep
    BY <2>1 DEF PassStep, Begin, Write, RecordError, List, Relist, Apply, Answers
  <2>2. CASE \E r \in Res : Cluster(r) \/ PodFails(r) \/ Edit(r) \/ Delete(r)
    BY <2>2 DEF Cluster, Roll, SyncStatus, Evolve, Vanish, PodFails, Edit, Delete
  <2>3. CASE Tick \/ PassFails \/ RecordFails \/ Crash \/ Push
    BY <2>3 DEF Tick, PassFails, RecordFails, Crash, Push
  <2>. QED BY <2>1, <2>2, <2>3 DEF Next
<1>2. left' \in 0..Mishaps[kind']
  BY <1>1, LeftFalls DEF Bounds
<1>3. stale' \in BOOLEAN
  <2>1. CASE PassStep
    BY <2>1 DEF Bounds, PassStep, Begin, Write, RecordError, List, Relist, Apply
  <2>2. CASE \E r \in Res : Cluster(r) \/ PodFails(r) \/ Edit(r) \/ Delete(r)
    BY <2>2 DEF Bounds, Cluster, Roll, SyncStatus, Evolve, Vanish, PodFails, Edit, Delete
  <2>3. CASE Tick \/ PassFails \/ RecordFails \/ Crash \/ Push
    BY <2>3 DEF Bounds, Tick, PassFails, RecordFails, Crash, Push
  <2>. QED BY <2>1, <2>2, <2>3 DEF Next
<1>4. /\ git' \in Commit /\ sha' \in Commit \cup {"none"}
      /\ pc' \in {"idle", "list", "relist", "apply", "write", "record"}
      /\ todo' \cup failed' \cup touched' \subseteq Res
  <2>1. CASE Begin
    BY <2>1 DEF Bounds, Begin
  <2>2. CASE Write \/ RecordError \/ PassFails \/ RecordFails \/ Crash
    BY <2>2 DEF Bounds, Write, RecordError, PassFails, RecordFails, Crash, PassOver
  <2>3. ASSUME NEW r \in Res, List(r) \/ Relist(r) \/ Apply(r)
        PROVE  /\ git' \in Commit /\ sha' \in Commit \cup {"none"}
               /\ pc' \in {"idle", "list", "relist", "apply", "write", "record"}
               /\ todo' \cup failed' \cup touched' \subseteq Res
    BY <2>3 DEF Bounds, List, Relist, Apply, Finish
  <2>4. CASE \E r \in Res : Cluster(r) \/ PodFails(r) \/ Edit(r) \/ Delete(r)
    BY <2>4 DEF Bounds, Cluster, Roll, SyncStatus, Evolve, Vanish, PodFails, Edit, Delete, pass
  <2>5. CASE Tick \/ Push
    BY <2>5 DEF Bounds, Tick, Push, pass
  <2>. QED BY <2>1, <2>2, <2>3, <2>4, <2>5 DEF Next, PassStep
<1>. QED BY <1>2, <1>3, <1>4 DEF Bounds

-----------------------------------------------------------------------------
(* One step of the whole.                                                    *)
LEMMA WholeFrame ==
  ASSUME ClusterInv, PassInv, UNCHANGED <<kind, obj, pods>>
  PROVE  ClusterInv' /\ (UNCHANGED pass => PassInv')
<1>1. ClusterInv'
  BY DEF ClusterInv, PodsOK, Exists, ObjectOK, StatusOK, Current
<1>2. ASSUME UNCHANGED pass PROVE PassInv'
  <2>1. UNCHANGED <<kind, pc, sha, full, todo, seen, failed>> /\ touched' = touched
    BY <1>2 DEF pass
  <2>2. \A r \in Res : ~Exists(r)' \/ (Exists(r) /\ obj'[r].body = obj[r].body)
    BY DEF Exists
  <2>. QED BY <2>1, <2>2, ClusterFrame
<1>. QED BY <1>1, <1>2

LEMMA PassStepInv ==
  ASSUME IInv, PassStep
  PROVE  ClusterInv' /\ PassInv'
<1>1. TypeOK /\ ClusterInv /\ PassInv
  BY DEF IInv
<1>2. CASE Begin
  <2>1. UNCHANGED <<kind, obj, pods>>
    BY <1>2 DEF Begin, cluster
  <2>. QED BY <1>1, <1>2, <2>1, WholeFrame, BeginStep
<1>3. CASE Write \/ RecordError
  <2>1. UNCHANGED <<kind, obj, pods>> /\ PassOver("idle")
    BY <1>3 DEF Write, RecordError, cluster
  <2>. QED BY <1>1, <2>1, WholeFrame, PassOverStep
<1>4. ASSUME NEW r \in Res, List(r) \/ Relist(r)
      PROVE  ClusterInv' /\ PassInv'
  <2>1. UNCHANGED <<kind, obj, pods>>
    BY <1>4 DEF List, Relist, cluster
  <2>. QED BY <1>1, <1>4, <2>1, WholeFrame, ListStep, RelistStep
<1>5. ASSUME NEW r \in Res, Apply(r)
      PROVE  ClusterInv' /\ PassInv'
  BY <1>1, <1>5, ApplyStep
<1>. QED BY <1>2, <1>3, <1>4, <1>5 DEF PassStep

LEMMA ClusterStepInv ==
  ASSUME IInv, NEW r \in Res, Cluster(r) \/ PodFails(r) \/ Edit(r) \/ Delete(r)
  PROVE  ClusterInv' /\ PassInv'
<1>1. ClusterInv /\ PassInv
  BY DEF IInv
<1>2. UNCHANGED <<kind, pc, sha, full, todo, seen, failed>> /\ touched \subseteq touched'
  BY DEF Cluster, Roll, SyncStatus, Evolve, Vanish, PodFails, Edit, Delete, pass
<1>3. /\ ClusterInv'
      /\ \A s \in Res : s # r => obj'[s] = obj[s]
      /\ \/ obj'[r] = obj[r] \/ ~Exists(r)' \/ r \in touched'
         \/ Exists(r) /\ obj'[r].body = obj[r].body
  <2>1. CASE Roll(r) \/ PodFails(r)
    BY <1>1, <2>1, RollStep, PodFailsStep
  <2>2. CASE SyncStatus(r)
    BY <1>1, <2>2, SyncStatusStep
  <2>3. CASE Evolve(r)
    BY <1>1, <2>3, EvolveStep
  <2>4. CASE Vanish(r)
    BY <1>1, <2>4, VanishStep
  <2>5. CASE Delete(r)
    BY <1>1, <2>5, DeleteStep
  <2>6. CASE Edit(r)
    <3>1. PICK body \in Edits[kind[r]] : Store(r, body)
      BY <2>6 DEF Edit
    <3>2. kind \in Worlds /\ body \in Bodies[kind[r]] /\ r \in touched'
      BY <1>1, <2>6, KindBodies DEF ClusterInv, Edit
    <3>. QED BY <1>1, <1>2, <3>1, <3>2, StoreStep
  <2>. QED BY <2>1, <2>2, <2>3, <2>4, <2>5, <2>6 DEF Cluster
<1>4. ASSUME NEW s \in Res
      PROVE  \/ ~Exists(s)' \/ s \in touched'
             \/ Exists(s) /\ obj'[s].body = obj[s].body
  <2>1. CASE obj'[s] = obj[s]
    BY <2>1 DEF Exists
  <2>2. CASE s = r
    BY <1>3, <2>1, <2>2
  <2>. QED BY <1>3, <2>1, <2>2
<1>. QED BY <1>1, <1>2, <1>3, <1>4, ClusterFrame

LEMMA StateStep ==
  ASSUME IInv, Next
  PROVE  StateInv'
<1>1. StateInv /\ PassInv
  BY DEF IInv
<1>2. kind' = kind
  <2>1. CASE PassStep
    BY <2>1 DEF PassStep, Begin, Write, RecordError, List, Relist, Apply
  <2>2. CASE \E r \in Res : Cluster(r) \/ PodFails(r) \/ Edit(r) \/ Delete(r)
    BY <2>2 DEF Cluster, Roll, SyncStatus, Evolve, Vanish, PodFails, Edit, Delete
  <2>3. CASE Tick \/ PassFails \/ RecordFails \/ Crash \/ Push
    BY <2>3 DEF Tick, PassFails, RecordFails, Crash, Push
  <2>. QED BY <2>1, <2>2, <2>3 DEF Next
<1>3. Checks' = Checks
  BY <1>2 DEF Checks
<1>4. CASE Write
  BY <1>1, <1>4, WriteStep
<1>5. CASE RecordError
  <2>1. state' = [state EXCEPT !.error = TRUE]
    BY <1>5 DEF RecordError
  <2>2. DOMAIN state' = DOMAIN state /\ \A f \in DOMAIN state : f # "error" => state'[f] = state[f]
    BY <2>1
  <2>3. state'.synced = state.synced
    BY <1>1, <2>2 DEF StateInv
  <2>4. ASSUME Written(state) PROVE Written(state)'
    <3>1. /\ state'.failures = state.failures /\ state'.drift = state.drift
          /\ state'.health = state.health
          /\ state'.rolled = state.rolled /\ state'.held = state.held
      BY <2>2, <2>4 DEF Written
    <3>. QED BY <1>3, <2>2, <2>4, <3>1 DEF Written
  <2>. QED BY <1>1, <2>2, <2>3, <2>4 DEF StateInv
<1>6. CASE state' = state
  BY <1>1, <1>3, <1>6 DEF StateInv, Written
<1>7. state' = state \/ Write \/ RecordError
  <2>1. CASE PassStep
    BY <2>1 DEF PassStep, Begin, List, Relist, Apply
  <2>2. CASE \E r \in Res : Cluster(r) \/ PodFails(r) \/ Edit(r) \/ Delete(r)
    BY <2>2 DEF Cluster, Roll, SyncStatus, Evolve, Vanish, PodFails, Edit, Delete
  <2>3. CASE Tick \/ PassFails \/ RecordFails \/ Crash \/ Push
    BY <2>3 DEF Tick, PassFails, RecordFails, Crash, Push
  <2>. QED BY <2>1, <2>2, <2>3 DEF Next
<1>. QED BY <1>4, <1>5, <1>6, <1>7

LEMMA ReportNext == IInv /\ [Next]_vars => IInv'
<1>. SUFFICES ASSUME IInv, [Next]_vars PROVE IInv'
  OBVIOUS
<1>1. TypeOK /\ ClusterInv /\ PassInv /\ StateInv
  BY DEF IInv
<1>2. CASE UNCHANGED vars
  <2>1. UNCHANGED <<kind, obj, pods>> /\ UNCHANGED pass
        /\ UNCHANGED <<git, sha, pc, todo, failed, touched, stale, left, state>>
    BY <1>2 DEF vars, cluster, pass
  <2>2. ClusterInv' /\ PassInv'
    BY <1>1, <2>1, WholeFrame
  <2>3. Bounds'
    BY <1>1, <2>1, TypeIsBounds DEF Bounds
  <2>4. StateInv'
    BY <1>1, <2>1 DEF StateInv, Written, Checks
  <2>5. TypeOK'
    BY <2>2, <2>3 DEF ClusterInv, ObjectOK, PodsOK, Exists, TypeOK, Bounds
  <2>. QED BY <2>2, <2>4, <2>5 DEF IInv
<1>3. CASE Next
  <2>1. ClusterInv' /\ PassInv'
    <3>1. CASE PassStep
      BY <3>1, PassStepInv
    <3>2. CASE \E r \in Res : Cluster(r) \/ PodFails(r) \/ Edit(r) \/ Delete(r)
      BY <3>2, ClusterStepInv
    <3>3. CASE Tick \/ Push
      <4>1. UNCHANGED <<kind, obj, pods>> /\ UNCHANGED pass
        BY <3>3 DEF Tick, Push, cluster
      <4>. QED BY <1>1, <4>1, WholeFrame
    <3>4. CASE PassFails \/ RecordFails \/ Crash
      <4>1. UNCHANGED <<kind, obj, pods>> /\ (PassOver("idle") \/ PassOver("record"))
        BY <3>4 DEF PassFails, RecordFails, Crash, cluster
      <4>. QED BY <1>1, <4>1, WholeFrame, PassOverStep
    <3>. QED BY <1>3, <3>1, <3>2, <3>3, <3>4 DEF Next
  <2>2. Bounds'
    BY <1>1, <1>3, TypeIsBounds, BoundsStep DEF ClusterInv
  <2>3. TypeOK'
    BY <2>1, <2>2 DEF ClusterInv, ObjectOK, PodsOK, Exists, TypeOK, Bounds
  <2>. QED BY <1>3, <2>1, <2>3, StateStep DEF IInv
<1>. QED BY <1>2, <1>3

LEMMA Inductive == Spec => []IInv
BY ReportInit, ReportNext, PTL DEF Spec

(* The types of Report's variables.                                          *)
THEOREM TypeCorrect == Spec => []TypeOK
<1>1. IInv => TypeOK
  BY DEF IInv
<1>. QED BY Inductive, <1>1, PTL

(* The summary that a pass writes to the state counts every resource whose   *)
(* kind has a check, and its worst health is one that it counts, none of     *)
(* which is worse: assess and its callers drop nothing on the way.           *)
THEOREM SummaryComplete == Spec => []SummaryInv
<1>1. IInv => SummaryInv
  BY DEF IInv, SummaryInv, StateInv, Written, WorstCounts, Checks, Codes
<1>. QED BY Inductive, <1>1, PTL

(* assess and the checks of resource_health.rs: the state says Healthy only  *)
(* of a listing that showed every resource whose kind has a check rolled out,*)
(* but for those that share a name with another kind's: of these it says only*)
(* that one is there.                                                        *)
THEOREM HealthyMeansRolledOut == Spec => []HealthySound
<1>1. IInv => HealthySound
  BY DEF IInv, HealthySound, StateInv, Written
<1>. QED BY Inductive, <1>1, PTL

(* The state reports no drift and no failed apply only of a listing that     *)
(* showed what Git declares in its place, but for what users undid meanwhile.*)
THEOREM InSyncMeansHeld == Spec => []InSyncSound
<1>1. IInv => InSyncSound
  BY DEF IInv, InSyncSound, Clean, StateInv, Written
<1>. QED BY Inductive, <1>1, PTL
-----------------------------------------------------------------------------
(* The drift that a listing shows of an object is real, until a relist takes *)
(* the drift of one listing with the object of another.                      *)
AlarmInv == \A r \in Res : pc \in {"list", "apply"} => Real(seen[r])

LEMMA UnseenReal == Real(Unseen)
BY DEF Real, Unseen

LEMMA AlarmInit == Init => AlarmInv
BY DEF Init, AlarmInv

LEMMA ListReal ==
  ASSUME IInv, AlarmInv, NEW r \in Res, List(r)
  PROVE  \A s \in Res : Real(seen'[s])
<1>1. pc = "list" /\ ClusterInv /\ PassInv
  BY DEF IInv, List
<1>2. sha \in Commit /\ seen = [s \in Res |-> seen[s]]
  BY <1>1 DEF PassInv, Running
<1>3. PICK look \in {Missing(r), Look(r)} : seen' = [seen EXCEPT ![r] = look]
  BY DEF List
<1>4. Real(look)
  BY <1>1, <1>2, <1>3, MissingOK, LookOK DEF Real
<1>5. ASSUME NEW s \in Res PROVE Real(seen'[s])
  <2>1. seen'[s] = IF s = r THEN look ELSE seen[s]
    BY <1>2, <1>3
  <2>. QED BY <1>1, <1>4, <2>1 DEF AlarmInv
<1>. QED BY <1>5

LEMMA AlarmNext ==
  ASSUME IInv, AlarmInv, [Next]_vars
  PROVE  AlarmInv' /\ (pc = "list" => \A r \in Res : Real(seen'[r]))
<1>1. CASE Begin \/ PassOver("idle") \/ PassOver("record")
  <2>1. \A r \in Res : seen'[r] = Unseen
    BY <1>1 DEF Begin, PassOver
  <2>. QED BY <2>1, UnseenReal DEF AlarmInv, Real
<1>2. ASSUME NEW r \in Res, List(r)
      PROVE  AlarmInv' /\ (pc = "list" => \A s \in Res : Real(seen'[s]))
  <2>1. \A s \in Res : Real(seen'[s])
    BY <1>2, ListReal
  <2>. QED BY <2>1 DEF AlarmInv, Real
<1>3. ASSUME NEW r \in Res, Relist(r)
      PROVE  pc = "relist" /\ pc' \notin {"list", "apply"}
  BY <1>3 DEF Relist
<1>4. ASSUME NEW r \in Res, Apply(r)
      PROVE  pc = "apply" /\ seen' = seen
  BY <1>4 DEF Apply
<1>5. CASE \E r \in Res : Cluster(r) \/ PodFails(r) \/ Edit(r) \/ Delete(r)
  <2>1. pc' = pc /\ seen' = seen
    BY <1>5 DEF Cluster, Roll, SyncStatus, Evolve, Vanish, PodFails, Edit, Delete, pass
  <2>. QED BY <2>1 DEF AlarmInv, Real
<1>6. CASE Tick \/ Push \/ UNCHANGED vars
  <2>1. pc' = pc /\ seen' = seen
    BY <1>6 DEF Tick, Push, vars, pass
  <2>. QED BY <2>1 DEF AlarmInv, Real
<1>7. CASE Write \/ RecordError \/ PassFails \/ RecordFails \/ Crash
  BY <1>1, <1>7 DEF Write, RecordError, PassFails, RecordFails, Crash
<1>8. CASE PassStep
  <2>1. CASE \E r \in Res : Relist(r)
    <3>1. pc = "relist" /\ pc' \notin {"list", "apply"}
      BY <1>3, <2>1
    <3>. QED BY <3>1 DEF AlarmInv
  <2>2. CASE \E r \in Res : Apply(r)
    <3>1. pc = "apply" /\ seen' = seen
      BY <1>4, <2>2
    <3>. QED BY <3>1 DEF AlarmInv, Real
  <2>. QED BY <1>1, <1>2, <1>7, <1>8, <2>1, <2>2 DEF PassStep
<1>. QED BY <1>1, <1>5, <1>6, <1>7, <1>8 DEF Next

(* A listing shows drift of an object that is there only if it lacks what Git*)
(* declares: one that is as an apply leaves it is not applied again.         *)
THEOREM DriftIsReal == Spec => NoFalseAlarm
<1>1. IInv /\ AlarmInv /\ [Next]_vars =>
        AlarmInv' /\ (pc = "list" => \A r \in Res : Real(seen'[r]))
  BY AlarmNext
<1>2. Init => AlarmInv
  BY AlarmInit
<1>3. (pc = "list" => \A r \in Res : Real(seen'[r])) =>
        [pc = "list" => \A r \in Res : seen'[r].drift /\ seen'[r].found => ~seen'[r].held]_vars
  BY DEF Real
<1>. QED BY Inductive, <1>1, <1>2, <1>3, PTL DEF Spec, NoFalseAlarm
=============================================================================
