------------------------------- MODULE MCPass -------------------------------
(* Two resources, one without a spec, over four commits: the second changes*)
(* one, which it no longer marks keep, and drops the other, the third is an*)
(* emptied path, the fourth does not parse.                                *)
EXTENDS Pass

CONSTANTS web, conf,               \* keys
          bare, spelled,
          Deployment, ConfigMap,   \* kinds
          c1, c2, c3, c4

MCKey == {web, conf}
MCGvkOf == [k \in MCKey |-> IF k = conf THEN ConfigMap ELSE Deployment]
(* Every key names an object of its own, by the name a listing gives it.   *)
MCObjectOf == [k \in MCKey |-> k]
MCCommit == {c1, c2, c3, c4}
MCManifests ==
  [c \in MCCommit |->
     CASE c = c1 ->
            [k \in MCKey |->
               [spec |-> IF k = conf THEN NoSpec ELSE 1, meta |-> 1,
                keep |-> k = web]]
       [] c = c2 -> [k \in {web} |-> [spec |-> 2, meta |-> 2, keep |-> FALSE]]
       [] OTHER -> [k \in {} |-> 0]]
MCBroken == {c4}
MCNoDirs == {c3}
MCEditable == {web}

(* Failures of every kind and another process; a process alone, with       *)
(* failures and users; and a process alone that only hooks and edits       *)
(* disturb, for which OrphansPruned is claimed.                            *)
MCWeather == {{"api", "hook", "crash", "overlap"},
              {"api", "crash", "edit", "keep"},
              {"hook", "edit"}}

(* Two processes, and an API that fails.                                   *)
OverlapWeather == {{"api", "overlap"}}

(* One object under two keys: a manifest that omits its namespace, and the *)
(* listing's key with the default namespace spelled out.                   *)
NsKey == {bare, spelled}
NsGvkOf == [k \in NsKey |-> ConfigMap]
NsObject == {spelled}
NsObjectOf == [k \in NsKey |-> spelled]
NsListed == {spelled}
NsManifests ==
  [c \in MCCommit |->
     IF c \in {c1, c2}
     THEN [k \in {bare} |->
             [spec |-> NoSpec, meta |-> IF c = c1 THEN 1 ELSE 2, keep |-> FALSE]]
     ELSE MCManifests[c]]
Calm == {{}}
=============================================================================
