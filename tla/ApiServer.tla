------------------------------ MODULE ApiServer ------------------------------
(* The API server (external), of an apply: it overlays what the manifest     *)
(* declares, lists as a whole, moves stringData into data, leaves out zero   *)
(* values of the fields that are `omitempty`, and fills in defaults.         *)
EXTENDS SpecDiff

RECURSIVE Overlay(_, _)
Overlay(live, git) ==
  IF live.t = "object" /\ git.t = "object"
  THEN Obj([k \in DOMAIN live.v \cup DOMAIN git.v |->
              IF k \notin DOMAIN git.v THEN live.v[k]
              ELSE IF k \notin DOMAIN live.v THEN git.v[k]
              ELSE Overlay(live.v[k], git.v[k])])
  ELSE git

RECURSIVE Elide(_, _)
Elide(x, omitempty) ==
  CASE x.t = "object" ->
         Obj([k \in {k \in DOMAIN x.v : ~(Zero(x.v[k]) /\ k \in omitempty)} |->
                Elide(x.v[k], omitempty)])
    [] x.t = "array" -> Arr([i \in DOMAIN x.v |-> Elide(x.v[i], omitempty)])
    [] OTHER -> x

Stringless(x) ==
  LET rest == remove_top_level_keys(x, {"stringData"})
  IN  IF Has(x, "stringData") THEN Overlay(rest, Obj([data |-> x.v.stringData])) ELSE rest

Served(live, git, defaults, omitempty) ==
  Elide(Overlay(defaults, Overlay(live, Stringless(git))), omitempty)
=============================================================================
