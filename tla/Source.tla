-------------------------------- MODULE Source --------------------------------
(* manifest.rs and the part of reconcile_inner between the checkout and the *)
(* cluster: the files of the work dir that module Checkout leaves there     *)
(* become the set of resources a pass applies and remembers, or the pass    *)
(* fails, or, no directory matching the sync path, everything is torn down. *)
EXTENDS Checkout, Sequences, SequencesExt

CONSTANTS
  Document,    \* the YAML documents there are,
  Nesting,     \* Nesting[d]: how deep Lists are nested in d,
  MaxNesting,  \* and how deep a parser lets them be
  Tree,        \* Tree[c]: the files commit c holds
  Paths        \* values of `path` the operator may configure: sets of patterns

(* A file: the directory it is in, whether its name ends in .yaml or .yml,  *)
(* its YAML documents and whether all of them parse. A document: a resource,*)
(* a List, or anything value_to_manifest passes over (null, a scalar, no    *)
(* apiVersion, kind or name). Neither the order of files, documents and     *)
(* items nor duplicates are kept.                                           *)
Resource(k) == [doc |-> "resource", key |-> k]
List(items) == [doc |-> "list", items |-> items]
Other == [doc |-> "other"]

Items(d) == IF d.doc = "list" THEN d.items ELSE {}

ASSUME DocumentAssumption ==
  /\ MaxNesting \in Nat
  /\ \A d \in Document :
       /\ Nesting[d] \in 0..MaxNesting
       /\ \A i \in Items(d) : i \in Document /\ Nesting[i] < Nesting[d]

ASSUME TreeAssumption ==
  \A c \in Commit : \A f \in Tree[c] :
    /\ f.at \in Seq(ToSet(f.at)) /\ f.docs \subseteq Document
    /\ {f.yaml, f.parses} \subseteq BOOLEAN

VARIABLES
  path,     \* the configured one
  applied,  \* keys of the state ConfigMap's `applied`
  outcome   \* of the pass: "none" yet, "failed", "synced"

svars == <<vars, path, applied, outcome>>

-----------------------------------------------------------------------------
(* A failure, Error::Config told apart from the rest, or the keys of the    *)
(* manifests found.                                                         *)
Failed == [ok |-> FALSE, config |-> FALSE]
Unmatched == [ok |-> FALSE, config |-> TRUE]
Found(keys) == [ok |-> TRUE, keys |-> keys]

expand_value[d \in Document] ==
  CASE d.doc = "list"     -> UNION {expand_value[i] : i \in d.items}
    [] d.doc = "resource" -> {d.key}
    [] OTHER              -> {}

parse_str_Lenient(f) == Found(UNION {expand_value[d] : d \in f.docs})

parse_str(f) ==
  IF f.parses THEN Found(UNION {expand_value[d] : d \in f.docs}) ELSE Failed

(* A failure, or everything.                                                *)
Collect(results) ==
  IF \E r \in results : ~r.ok THEN Failed ELSE Found(UNION {r.keys : r \in results})

collect_yaml_files(root, files) == {f \in files : f.yaml /\ IsPrefix(root, f.at)}

parse_dir(root, files) == Collect({parse_str(f) : f \in collect_yaml_files(root, files)})

parse_paths(roots, files) == Collect({parse_dir(r, files) : r \in roots})

(* Patterns are sequences of segments, the empty one being ".". `*` stands  *)
(* for one segment, `**` for any number of them (at least one where it is   *)
(* last): a name matches that can be cut up that way. `***` does not compile.*)
Invalid(p) == \E i \in DOMAIN p : p[i] = "***"

glob(p, dirname) ==
  \E cut \in [0..Len(p) -> 0..Len(dirname)] :
    /\ cut[0] = 0 /\ cut[Len(p)] = Len(dirname)
    /\ \A i \in DOMAIN p :
         IF p[i] = "**" /\ i < Len(p) THEN cut[i - 1] <= cut[i]
         ELSE IF p[i] = "**" THEN cut[i - 1] < cut[i]
         ELSE cut[i] = cut[i - 1] + 1 /\ p[i] \in {"*", dirname[cut[i]]}

(* The directories of a checkout: git keeps none that hold no file.         *)
Upto(at, n) == SubSeq(at, 1, n)
Directories(files) ==
  {<<>>, <<".git">>} \cup UNION {{Upto(f.at, n) : n \in 0..Len(f.at)} : f \in files}

expand_roots(patterns, files) ==
  LET matched == {d \in Directories(files) : \E p \in patterns : glob(p, d)}
  IN  IF (\E p \in patterns : Invalid(p)) \/ matched = {} THEN Unmatched
      ELSE [ok |-> TRUE, roots |-> matched]

-----------------------------------------------------------------------------
SInit ==
  /\ Init
  /\ path \in Paths /\ applied = {} /\ outcome = "none"

(* The pass reads the work dir. Untracked files, those commit x left, are   *)
(* read like any other.                                                     *)
Reading == [c \in Commit |-> [x \in Commit |-> [p \in Paths |->
  LET files == Tree[c] \cup Tree[x]
      dirs == expand_roots(p, files)
  IN  IF dirs.ok THEN parse_paths(dirs.roots, files) ELSE dirs]]]

Reconcile_NoTeardown ==
  /\ pc = "done" /\ outcome = "none"
  /\ \E x \in IF stray THEN Commit ELSE {tree} :
       LET read == Reading[tree][x][path]
       IN  \/ read.ok /\ outcome' = "synced" /\ applied' = read.keys
           \/ ~read.ok /\ outcome' = "failed" /\ UNCHANGED applied
  /\ UNCHANGED <<vars, path>>

(* Without a directory to read, everything applied before is torn down.     *)
Reconcile ==
  /\ pc = "done" /\ outcome = "none"
  /\ \E x \in IF stray THEN Commit ELSE {tree} :
       LET read == Reading[tree][x][path]
           teardown == read = Unmatched /\ applied # {}
       IN  \/ read.ok /\ outcome' = "synced" /\ applied' = read.keys
           \/ teardown /\ outcome' = "synced" /\ applied' = {}
           \/ ~read.ok /\ ~teardown /\ outcome' = "failed" /\ UNCHANGED applied
  /\ UNCHANGED <<vars, path>>

(* A file that cannot be read, a failed hook, the cluster.                  *)
PassFails ==
  /\ ~quiet /\ "pass" \in Faults
  /\ pc = "done" /\ outcome = "none" /\ outcome' = "failed"
  /\ UNCHANGED <<vars, path, applied>>

PassEnds ==
  /\ End /\ (pc = "done" => outcome # "none")
  /\ outcome' = "none"
  /\ UNCHANGED <<path, applied>>

PassCrashes ==
  /\ Crash
  /\ outcome' = "none"
  /\ UNCHANGED <<path, applied>>

(* A new configuration is a new Pod.                                        *)
Reconfigure ==
  /\ ~quiet /\ Reschedule
  /\ path' \in Paths \ {path}
  /\ UNCHANGED <<applied, outcome>>

CheckoutStep ==
  /\ (\E t \in Target : Start(t)) \/ GitStep
  /\ UNCHANGED <<path, applied, outcome>>

Elsewhere ==
  /\ GitFails \/ Reschedule \/ Push \/ Quieten
  /\ UNCHANGED <<path, applied, outcome>>

PassStep == CheckoutStep \/ Reconcile \/ PassEnds

SNext == PassStep \/ PassFails \/ PassCrashes \/ Reconfigure \/ Elsewhere

SSpec == SInit /\ [][SNext]_svars

(* The loop polls forever, and every command and request ends.              *)
SFairSpec == SSpec /\ WF_svars(PassStep)

-----------------------------------------------------------------------------
(* What a commit declares, said without the parser: the resources named in  *)
(* its YAML files at or below a directory the path matches, at any depth of *)
(* Lists: by the documents in each set that has this one and the items of   *)
(* all its Lists.                                                           *)
Opened == {S \in SUBSET Document : \A d \in S : Items(d) \subseteq S}

Mentioned(d) ==
  {x.key : x \in {y \in Document : y.doc = "resource" /\ \A S \in Opened : d \in S => y \in S}}

InPath == [c \in Commit |-> [patterns \in Paths |->
  {f \in Tree[c] :
     f.yaml /\ \E n \in 0..Len(f.at), p \in patterns : glob(p, Upto(f.at, n))}]]

Declared == [c \in Commit |-> [p \in Paths |->
  UNION {Mentioned(d) : d \in UNION {f.docs : f \in InPath[c][p]}}]]

Parses(c) == \A f \in InPath[c][path] : f.parses

Valid == ~\E p \in path : Invalid(p)

(* A pass applies and remembers exactly what its commit declares. A file    *)
(* that does not parse fails the pass: manifest.rs, "its resources are never*)
(* silently dropped from the Git set only to be pruned".                    *)
AppliesTheCommit ==
  [][Reconcile /\ Valid /\ ~stray =>
       IF outcome' = "synced" THEN Parses(sha) /\ applied' = Declared[sha][path]
       ELSE applied' = applied]_svars

(* manifest.rs calls expand_roots' error "a fail-fast so a typo never       *)
(* silently prunes every resource": a pass over a path that does not even   *)
(* compile leaves what is applied alone.                                    *)
TypoPrunesNothing == [][~Valid => applied \subseteq applied']_svars

(* Once pushes, rollbacks and faults are over, what is applied is what the  *)
(* tip declares and stays so, if the tip parses; whatever kills and failures*)
(* left in the work dir, but a lock file, which nothing removes, and        *)
(* untracked files, which no reset removes.                                 *)
Follows ==
  <>quiet /\ <>[](locks = {} /\ ~stray)
    => <>[](Parses(tip) => applied = Declared[tip][path])
=============================================================================
