------------------------------- MODULE MCSource -------------------------------
(* Three commits: one with two environments and a List, one whose new file  *)
(* does not parse, one whose resources moved to other directories.          *)
EXTENDS Source

CONSTANTS c1, c2, c3, web, db

MCCommit == {c1, c2, c3}
MCParentOf == [c \in MCCommit |-> CASE c = c1 -> NoCommit [] c = c2 -> c1 [] OTHER -> c2]
MCGeneration == [c \in MCCommit |-> CASE c = c1 -> 0 [] c = c2 -> 1 [] OTHER -> 2]

Inner == List({Resource(db)})
Outer == List({Resource(web), Inner})
MCDocument == {Other, Resource(web), Resource(db), Inner, Outer}
MCNesting == [d \in MCDocument |-> CASE d = Outer -> 2 [] d = Inner -> 1 [] OTHER -> 0]

File(at, docs) == [at |-> at, yaml |-> TRUE, parses |-> TRUE, docs |-> docs]
Notes == [File(<<"live">>, {Resource(db)}) EXCEPT !.yaml = FALSE]
Bad == [File(<<"live", "a">>, {Resource(db)}) EXCEPT !.parses = FALSE]

MCTree == [c \in MCCommit |->
  CASE c = c1 -> {Notes, File(<<"live", "a">>, {Resource(web)})}
    [] c = c2 -> {File(<<"live", "a">>, {Resource(web)}), Bad}
    [] OTHER  -> {File(<<"live", "b", "prod">>, {Other, Outer}), File(<<"old">>, {Resource(web)})}]

ValidPaths == {{<<"live", "**">>}, {<<"*", "*", "prod">>, <<"old">>}}

(* An operator who types one asterisk too many.                             *)
TypedPaths == {{<<"live", "**">>}, {<<"live", "***">>}}
=============================================================================
