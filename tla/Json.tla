-------------------------------- MODULE Json --------------------------------
(* JSON values (serde_json::Value). They carry their type, so that values of *)
(* different types can be compared.                                          *)
EXTENDS Integers, Sequences

CONSTANTS
  Json,      \* the values there are
  Depth,     \* Depth[x]: how deep x is nested
  MaxDepth   \* and how deep a parser lets values be nested

Null == [t |-> "null", v |-> 0]
Bool(b) == [t |-> "bool", v |-> b]
Num(n) == [t |-> "num", v |-> n]
Str(s) == [t |-> "str", v |-> s]
Arr(s) == [t |-> "array", v |-> s]
Obj(f) == [t |-> "object", v |-> f]

Has(x, key) == x.t = "object" /\ key \in DOMAIN x.v
Get(x, key) == IF Has(x, key) THEN x.v[key] ELSE Null

Same(x, y) == x.t = y.t /\ x.v = y.v

(* The keys of an object, the indices of an array.                           *)
Keys(x) == IF x.t \in {"object", "array"} THEN DOMAIN x.v ELSE {}
Within(x) == {x.v[k] : k \in Keys(x)}

(* Values are made of values, and nested to a finite depth.                  *)
ASSUME JsonAssumption ==
  /\ MaxDepth \in Nat
  /\ \A x \in Json :
       /\ x.t = "null" => x.v = 0
       /\ x.t = "bool" => x.v \in BOOLEAN
       /\ x.t = "array" => x.v \in Seq(Json)
       /\ Depth[x] \in 0..MaxDepth
       /\ \A k \in Keys(x) : x.v[k] \in Json /\ Depth[x.v[k]] < Depth[x]

(* The zero values that the API server leaves out of a field that is         *)
(* `omitempty` (external).                                                   *)
Zero(x) ==
  Same(x, Null) \/ Same(x, Bool(FALSE)) \/ Same(x, Num(0)) \/ Same(x, Arr(<<>>))
=============================================================================
