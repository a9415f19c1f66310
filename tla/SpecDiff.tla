------------------------------ MODULE SpecDiff ------------------------------
(* drift.rs: does a live object hold what its manifest declares?             *)
EXTENDS Json

is_k8s_zero_value_NotBool(x) ==
  \/ x.t = "null"
  \/ x.t = "num" /\ x.v = 0
  \/ x.t = "array" /\ x.v = <<>>

(* The zero values that the API server may leave out of what it stores.      *)
is_k8s_zero_value(x) ==
  \/ x.t = "null"
  \/ x.t = "bool" /\ ~x.v
  \/ x.t = "num" /\ x.v = 0
  \/ x.t = "array" /\ x.v = <<>>

(* spec_subset[git][live]: a function of values, whose definition recurs     *)
(* into what they are made of.                                               *)
spec_subset[git \in Json] == [live \in Json |->
  CASE git.t = "object" /\ live.t = "object" ->
         \A k \in DOMAIN git.v :
           \/ is_k8s_zero_value(git.v[k]) /\ k \notin DOMAIN live.v
           \/ k \in DOMAIN live.v /\ spec_subset[git.v[k]][live.v[k]]
    [] git.t = "array" /\ live.t = "array" ->
         /\ Len(git.v) <= Len(live.v)
         /\ \A i \in DOMAIN git.v : spec_subset[git.v[i]][live.v[i]]
    [] OTHER -> Same(git, live)]

remove_top_level_keys(x, keys) ==
  IF x.t = "object" THEN Obj([k \in DOMAIN x.v \ keys |-> x.v[k]]) ELSE x

Ignored == {"apiVersion", "kind", "stringData"}

ASSUME RemoveAssumption == \A x \in Json : remove_top_level_keys(x, Ignored) \in Json

specs_differ_Raw(git, live) ==
  IF Has(git, "spec") THEN ~(Has(live, "spec") /\ spec_subset[Get(git, "spec")][Get(live, "spec")])
  ELSE ~spec_subset[git][live]

specs_differ_SpecOnly(git, live) ==
  Has(git, "spec")
    /\ ~(Has(live, "spec") /\ spec_subset[Get(git, "spec")][Get(live, "spec")])

(* The specs are compared, or, of a manifest without one, all but its type.  *)
specs_differ(git, live) ==
  LET g == remove_top_level_keys(git, Ignored)
      l == remove_top_level_keys(live, Ignored)
  IN  IF Has(g, "spec") THEN ~(Has(l, "spec") /\ spec_subset[Get(g, "spec")][Get(l, "spec")])
      ELSE ~spec_subset[g][l]

-----------------------------------------------------------------------------
(* For reference: a value and all it is made of, each with its path, that is *)
(* <<>>, or a key and the path from there.                                   *)
Nodes[x \in Json] ==
  {[path |-> <<>>, value |-> x]}
    \cup UNION {{[path |-> <<k, n.path>>, value |-> n.value] : n \in Nodes[x.v[k]]} : k \in Keys(x)}

At(nodes, path) == {n.value : n \in {m \in nodes : m.path = path}}

(* A value is in place where a live one is what it says, or, of a list or    *)
(* object, has its type and is no shorter; a zero value may be missing.      *)
InPlace(x, live) ==
  \/ \E y \in live :
       CASE x.t = "object" -> y.t = "object"
         [] x.t = "array"  -> y.t = "array" /\ Len(x.v) <= Len(y.v)
         [] OTHER          -> Same(y, x)
  \/ Zero(x) /\ live = {}

(* What a manifest declares: its spec or, if it has none, all but its type.  *)
Declares(git, path) ==
  path # <<>> /\ IF Has(git, "spec") THEN path[1] = "spec" ELSE path[1] \notin Ignored

(* A live object holds what a manifest declares: it has a spec if the        *)
(* manifest has one, and all that is declared is in place.                   *)
Holds(git, live) ==
  LET there == Nodes[live]
  IN  /\ Has(git, "spec") => Has(live, "spec")
      /\ \A n \in Nodes[git] : Declares(git, n.path) => InPlace(n.value, At(there, n.path))
=============================================================================
