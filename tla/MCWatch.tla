------------------------------ MODULE MCWatch -------------------------------
(* Two objects of one kind, each of which may become small or too large to *)
(* cache. Git declares a small one and a large one.                        *)
EXTENDS Watch, TLC

CONSTANTS web, api, Deployment, v1, big

PairObject == {web, api}
PairKindOf == [o \in PairObject |-> Deployment]
PairDeclared == (web :> v1) @@ (api :> big)
=============================================================================
