----------------------------- MODULE DriftProofs -----------------------------
(* Theorems about SpecDiff: drift detection lets a live object pass just if  *)
(* it holds what its manifest declares. The definitions recur into JSON      *)
(* values; what is proved of them is proved by induction on how deep values  *)
(* are nested.                                                               *)
EXTENDS SpecDiff, TLAPS, WellFoundedInduction

(* Induction over the natural numbers, of a set instead of a predicate: the  *)
(* numbers outside of it would have a least one.                             *)
Below == {pair \in Nat \X Nat : pair[1] < pair[2]}

LEMMA BelowWellFounded == IsWellFoundedOn(Below, Nat)
BY NatLessThanWellFounded, Zenon DEF OpToRel, Below

LEMMA Least ==
  ASSUME NEW T \in SUBSET Nat, T # {}
  PROVE  \E n \in T : \A m \in T : n <= m
<1>1. \E n \in T : \A m \in T : ~(<<m, n>> \in Below)
  BY BelowWellFounded, WFMin
<1>2. PICK n \in T : \A m \in T : ~(<<m, n>> \in Below)
  BY <1>1
<1>3. ASSUME NEW m \in T PROVE n <= m
  <2>1. ~(m < n)
    BY <1>2 DEF Below
  <2>. QED BY <2>1
<1>. QED BY <1>3

LEMMA Induction ==
  ASSUME NEW S, 0 \in S, \A n \in Nat : n \in S => n + 1 \in S
  PROVE  Nat \subseteq S
<1>. SUFFICES ASSUME Nat \ S # {} PROVE FALSE
  OBVIOUS
<1>1. PICK n \in Nat \ S : \A m \in Nat \ S : n <= m
  BY Least
<1>2. n - 1 \in Nat /\ n - 1 \in S
  BY <1>1
<1>. QED BY <1>1, <1>2

-----------------------------------------------------------------------------
(* The right-hand sides of the two recursive definitions, of any function in *)
(* the place of the one they define.                                         *)
SubsetOf(f, git, live) ==
  CASE git.t = "object" /\ live.t = "object" ->
         \A k \in DOMAIN git.v :
           \/ is_k8s_zero_value(git.v[k]) /\ k \notin DOMAIN live.v
           \/ k \in DOMAIN live.v /\ f[git.v[k]][live.v[k]]
    [] git.t = "array" /\ live.t = "array" ->
         /\ Len(git.v) <= Len(live.v)
         /\ \A i \in DOMAIN git.v : f[git.v[i]][live.v[i]]
    [] OTHER -> Same(git, live)

NodesOf(f, x) ==
  {[path |-> <<>>, value |-> x]}
    \cup UNION {{[path |-> <<k, n.path>>, value |-> n.value] : n \in f[x.v[k]]} : k \in Keys(x)}

LEMMA SubsetCongruence ==
  ASSUME NEW f, NEW g, NEW x \in Json, NEW y \in Json, \A k \in Keys(x) : f[x.v[k]] = g[x.v[k]]
  PROVE  SubsetOf(f, x, y) = SubsetOf(g, x, y)
<1>1. CASE x.t = "object" /\ y.t = "object"
  BY <1>1 DEF SubsetOf, Keys
<1>2. CASE x.t = "array" /\ y.t = "array"
  BY <1>2 DEF SubsetOf, Keys
<1>3. CASE ~(x.t = "object" /\ y.t = "object") /\ ~(x.t = "array" /\ y.t = "array")
  BY <1>3 DEF SubsetOf
<1>. QED BY <1>1, <1>2, <1>3

LEMMA NodesCongruence ==
  ASSUME NEW f, NEW g, NEW x \in Json, \A k \in Keys(x) : f[x.v[k]] = g[x.v[k]]
  PROVE  NodesOf(f, x) = NodesOf(g, x)
BY DEF NodesOf

LEMMA Nesting ==
  ASSUME NEW x \in Json
  PROVE  /\ MaxDepth \in Nat /\ Depth[x] \in Nat
         /\ ~(Depth[x] < 0) /\ Depth[x] < MaxDepth + 1
         /\ \A k \in Keys(x) : x.v[k] \in Json /\ Depth[x.v[k]] < Depth[x]
<1>1. MaxDepth \in Nat /\ Depth[x] \in 0..MaxDepth
  BY JsonAssumption
<1>2. \A k \in Keys(x) : x.v[k] \in Json /\ Depth[x.v[k]] < Depth[x]
  BY JsonAssumption
<1>. QED BY <1>1, <1>2

(* Each is defined: by induction, up to any depth, and values have one.      *)
SubsetUpTo(f, n) ==
  f = [x \in Json |-> IF Depth[x] < n THEN [y \in Json |-> SubsetOf(f, x, y)] ELSE <<>>]

LEMMA SubsetExists == \A n \in Nat : \E f : SubsetUpTo(f, n)
<1>. DEFINE S == {n \in Nat : \E f : SubsetUpTo(f, n)}
<1>1. 0 \in S
  <2>1. \A x \in Json : ~(Depth[x] < 0)
    BY Nesting
  <2>2. SubsetUpTo([x \in Json |-> <<>>], 0)
    BY <2>1 DEF SubsetUpTo
  <2>. QED BY <2>2
<1>2. ASSUME NEW n \in Nat, n \in S
      PROVE  n + 1 \in S
  <2>1. PICK f : SubsetUpTo(f, n)
    BY <1>2
  <2>. DEFINE g == [x \in Json |-> IF Depth[x] < n + 1 THEN [y \in Json |-> SubsetOf(f, x, y)] ELSE <<>>]
  <2>2. ASSUME NEW x \in Json, Depth[x] < n + 1, NEW k \in Keys(x)
        PROVE  g[x.v[k]] = f[x.v[k]]
    <3>1. x.v[k] \in Json /\ Depth[x.v[k]] < n
      BY <2>2, Nesting
    <3>2. f[x.v[k]] = [y \in Json |-> SubsetOf(f, x.v[k], y)]
      BY <2>1, <3>1 DEF SubsetUpTo
    <3>3. Depth[x.v[k]] < n + 1
      BY <3>1, Nesting
    <3>. QED BY <3>1, <3>2, <3>3
  <2>. HIDE DEF g
  <2>3. ASSUME NEW x \in Json, Depth[x] < n + 1, NEW y \in Json
        PROVE  SubsetOf(f, x, y) = SubsetOf(g, x, y)
    BY <2>2, <2>3, SubsetCongruence
  <2>4. g = [x \in Json |-> IF Depth[x] < n + 1 THEN [y \in Json |-> SubsetOf(g, x, y)] ELSE <<>>]
    BY <2>3 DEF g
  <2>. QED BY <2>4 DEF SubsetUpTo
<1>. HIDE DEF S
<1>3. Nat \subseteq S
  BY <1>1, <1>2, Induction
<1>. QED BY <1>3 DEF S

LEMMA SubsetDefined ==
  ASSUME NEW git \in Json, NEW live \in Json
  PROVE  spec_subset[git][live] = SubsetOf(spec_subset, git, live)
<1>1. PICK f : SubsetUpTo(f, MaxDepth + 1)
  <2>1. MaxDepth + 1 \in Nat
    BY JsonAssumption
  <2>. QED BY <2>1, SubsetExists
<1>2. f = [x \in Json |-> [y \in Json |-> SubsetOf(f, x, y)]]
  <2>1. \A x \in Json : Depth[x] < MaxDepth + 1
    BY Nesting
  <2>. QED BY <1>1, <2>1 DEF SubsetUpTo
<1>3. spec_subset = CHOOSE g : g = [x \in Json |-> [y \in Json |-> SubsetOf(g, x, y)]]
  BY DEF spec_subset, SubsetOf
<1>4. spec_subset = [x \in Json |-> [y \in Json |-> SubsetOf(spec_subset, x, y)]]
  BY <1>2, <1>3
<1>. QED BY <1>4

NodesUpTo(f, n) == f = [x \in Json |-> IF Depth[x] < n THEN NodesOf(f, x) ELSE {}]

LEMMA NodesExist == \A n \in Nat : \E f : NodesUpTo(f, n)
<1>. DEFINE S == {n \in Nat : \E f : NodesUpTo(f, n)}
<1>1. 0 \in S
  <2>1. \A x \in Json : ~(Depth[x] < 0)
    BY Nesting
  <2>2. NodesUpTo([x \in Json |-> {}], 0)
    BY <2>1 DEF NodesUpTo
  <2>. QED BY <2>2
<1>2. ASSUME NEW n \in Nat, n \in S
      PROVE  n + 1 \in S
  <2>1. PICK f : NodesUpTo(f, n)
    BY <1>2
  <2>. DEFINE g == [x \in Json |-> IF Depth[x] < n + 1 THEN NodesOf(f, x) ELSE {}]
  <2>2. ASSUME NEW x \in Json, Depth[x] < n + 1, NEW k \in Keys(x)
        PROVE  g[x.v[k]] = f[x.v[k]]
    <3>1. x.v[k] \in Json /\ Depth[x.v[k]] < n
      BY <2>2, Nesting
    <3>2. f[x.v[k]] = NodesOf(f, x.v[k])
      BY <2>1, <3>1 DEF NodesUpTo
    <3>3. Depth[x.v[k]] < n + 1
      BY <3>1, Nesting
    <3>. QED BY <3>1, <3>2, <3>3
  <2>. HIDE DEF g
  <2>3. ASSUME NEW x \in Json, Depth[x] < n + 1
        PROVE  NodesOf(f, x) = NodesOf(g, x)
    BY <2>2, <2>3, NodesCongruence
  <2>4. g = [x \in Json |-> IF Depth[x] < n + 1 THEN NodesOf(g, x) ELSE {}]
    BY <2>3 DEF g
  <2>. QED BY <2>4 DEF NodesUpTo
<1>. HIDE DEF S
<1>3. Nat \subseteq S
  BY <1>1, <1>2, Induction
<1>. QED BY <1>3 DEF S

LEMMA NodesDefined ==
  ASSUME NEW x \in Json
  PROVE  Nodes[x] = NodesOf(Nodes, x)
<1>1. PICK f : NodesUpTo(f, MaxDepth + 1)
  <2>1. MaxDepth + 1 \in Nat
    BY JsonAssumption
  <2>. QED BY <2>1, NodesExist
<1>2. f = [y \in Json |-> NodesOf(f, y)]
  <2>1. \A y \in Json : Depth[y] < MaxDepth + 1
    BY Nesting
  <2>. QED BY <1>1, <2>1 DEF NodesUpTo
<1>3. Nodes = CHOOSE g : g = [y \in Json |-> NodesOf(g, y)]
  BY DEF Nodes, NodesOf
<1>4. Nodes = [y \in Json |-> NodesOf(Nodes, y)]
  BY <1>2, <1>3
<1>. QED BY <1>4

(* What is found at a path.                                                  *)
LEMMA NodeCases ==
  ASSUME NEW x \in Json, NEW n \in Nodes[x]
  PROVE  \/ n = [path |-> <<>>, value |-> x]
         \/ \E k \in Keys(x) : \E c \in Nodes[x.v[k]] :
              n = [path |-> <<k, c.path>>, value |-> c.value]
BY NodesDefined DEF NodesOf

LEMMA AtRoot ==
  ASSUME NEW x \in Json
  PROVE  At(Nodes[x], <<>>) = {x}
<1>1. [path |-> <<>>, value |-> x] \in Nodes[x]
  BY NodesDefined DEF NodesOf
<1>2. ASSUME NEW n \in Nodes[x], n.path = <<>>
      PROVE  n.value = x
  BY <1>2, NodeCases
<1>. QED BY <1>1, <1>2 DEF At

LEMMA AtKey ==
  ASSUME NEW x \in Json, NEW k, NEW path
  PROVE  At(Nodes[x], <<k, path>>) = IF k \in Keys(x) THEN At(Nodes[x.v[k]], path) ELSE {}
<1>1. ASSUME NEW y \in At(Nodes[x], <<k, path>>)
      PROVE  k \in Keys(x) /\ y \in At(Nodes[x.v[k]], path)
  <2>1. PICK n \in Nodes[x] : n.path = <<k, path>> /\ n.value = y
    BY <1>1 DEF At
  <2>2. PICK j \in Keys(x) :
          \E c \in Nodes[x.v[j]] : n = [path |-> <<j, c.path>>, value |-> c.value]
    BY <2>1, NodeCases
  <2>4. PICK c \in Nodes[x.v[j]] : n = [path |-> <<j, c.path>>, value |-> c.value]
    BY <2>2
  <2>3. j = k /\ c.path = path /\ c.value = y
    BY <2>1, <2>4
  <2>. QED BY <2>4, <2>3 DEF At
<1>2. ASSUME k \in Keys(x), NEW y \in At(Nodes[x.v[k]], path)
      PROVE  y \in At(Nodes[x], <<k, path>>)
  <2>1. PICK c \in Nodes[x.v[k]] : c.path = path /\ c.value = y
    BY <1>2 DEF At
  <2>2. [path |-> <<k, c.path>>, value |-> c.value] \in Nodes[x]
    BY <1>2, NodesDefined DEF NodesOf
  <2>. QED BY <2>1, <2>2 DEF At
<1>. QED BY <1>1, <1>2

(* A zero value is one by either account, and is made of nothing.            *)
LEMMA ZeroLeaf ==
  ASSUME NEW x \in Json
  PROVE  /\ is_k8s_zero_value(x) <=> Zero(x)
         /\ Zero(x) => Keys(x) = {}
<1>1. (x.t = "null" => x.v = 0) /\ (x.t = "bool" => x.v \in BOOLEAN)
  BY JsonAssumption
<1>2. is_k8s_zero_value(x) <=> Zero(x)
  BY <1>1 DEF is_k8s_zero_value, Zero, Same, Null, Bool, Num, Arr
<1>3. Zero(x) => Keys(x) = {}
  BY <1>2 DEF is_k8s_zero_value, Keys
<1>. QED BY <1>2, <1>3

-----------------------------------------------------------------------------
(* All that a value is made of is in its place in another one: the value     *)
(* itself, and, under each key, all that is there, or a zero value that is   *)
(* missing.                                                                  *)
Places(git, live) ==
  \A n \in Nodes[git] : InPlace(n.value, At(Nodes[live], n.path))

Part(git, live, k) ==
  IF k \in Keys(live) THEN Places(git.v[k], live.v[k]) ELSE Zero(git.v[k])

LEMMA PartNodes ==
  ASSUME NEW git \in Json, NEW live \in Json, NEW k \in Keys(git)
  PROVE  Part(git, live, k)
           <=> \A c \in Nodes[git.v[k]] : InPlace(c.value, At(Nodes[live], <<k, c.path>>))
<1>1. CASE k \in Keys(live)
  <2>1. \A c \in Nodes[git.v[k]] : At(Nodes[live], <<k, c.path>>) = At(Nodes[live.v[k]], c.path)
    BY <1>1, AtKey
  <2>. QED BY <1>1, <2>1 DEF Part, Places
<1>2. CASE k \notin Keys(live)
  <2>1. \A c \in Nodes[git.v[k]] : At(Nodes[live], <<k, c.path>>) = {}
    BY <1>2, AtKey
  <2>2. git.v[k] \in Json /\ [path |-> <<>>, value |-> git.v[k]] \in Nodes[git.v[k]]
    BY Nesting, NodesDefined DEF NodesOf
  <2>3. \A x : InPlace(x, {}) <=> Zero(x)
    BY DEF InPlace
  <2>4. ASSUME Zero(git.v[k]), NEW c \in Nodes[git.v[k]]
        PROVE  c.value = git.v[k]
    <3>1. Keys(git.v[k]) = {}
      BY <2>2, <2>4, ZeroLeaf
    <3>. QED BY <2>2, <3>1, NodeCases
  <2>. QED BY <1>2, <2>1, <2>2, <2>3, <2>4 DEF Part
<1>. QED BY <1>1, <1>2

LEMMA PlacesParts ==
  ASSUME NEW git \in Json, NEW live \in Json
  PROVE  Places(git, live) <=> InPlace(git, {live}) /\ \A k \in Keys(git) : Part(git, live, k)
<1>1. [path |-> <<>>, value |-> git] \in Nodes[git] /\ At(Nodes[live], <<>>) = {live}
  BY NodesDefined, AtRoot DEF NodesOf
<1>2. ASSUME NEW k \in Keys(git), NEW c \in Nodes[git.v[k]]
      PROVE  [path |-> <<k, c.path>>, value |-> c.value] \in Nodes[git]
  BY NodesDefined DEF NodesOf
<1>3. ASSUME Places(git, live)
      PROVE  InPlace(git, {live}) /\ \A k \in Keys(git) : Part(git, live, k)
  <2>1. InPlace(git, {live})
    BY <1>1, <1>3 DEF Places
  <2>2. ASSUME NEW k \in Keys(git), NEW c \in Nodes[git.v[k]]
        PROVE  InPlace(c.value, At(Nodes[live], <<k, c.path>>))
    BY <1>2, <1>3 DEF Places
  <2>. QED BY <2>1, <2>2, PartNodes
<1>4. ASSUME InPlace(git, {live}), \A k \in Keys(git) : Part(git, live, k), NEW n \in Nodes[git]
      PROVE  InPlace(n.value, At(Nodes[live], n.path))
  <2>1. CASE n = [path |-> <<>>, value |-> git]
    BY <1>1, <1>4, <2>1
  <2>2. CASE \E k \in Keys(git) : \E c \in Nodes[git.v[k]] :
               n = [path |-> <<k, c.path>>, value |-> c.value]
    BY <1>4, <2>2, PartNodes
  <2>. QED BY <2>1, <2>2, NodeCases
<1>. QED BY <1>3, <1>4 DEF Places

(* One value is a subset of another just if all of it is in place, where     *)
(* that is true of what it is made of.                                       *)
LEMMA PlacesStep ==
  ASSUME NEW git \in Json, NEW live \in Json,
         \A k \in Keys(git) : \A y \in Json : spec_subset[git.v[k]][y] <=> Places(git.v[k], y)
  PROVE  spec_subset[git][live] <=> Places(git, live)
<1>1. spec_subset[git][live] <=> SubsetOf(spec_subset, git, live)
  BY SubsetDefined
<1>2. \A k \in Keys(git) : is_k8s_zero_value(git.v[k]) <=> Zero(git.v[k])
  BY Nesting, ZeroLeaf
<1>3. \A k \in Keys(git) \cap Keys(live) :
        spec_subset[git.v[k]][live.v[k]] <=> Places(git.v[k], live.v[k])
  BY Nesting
<1>4. CASE git.t = "object" /\ live.t = "object"
  <2>1. InPlace(git, {live})
    BY <1>4 DEF InPlace
  <2>2. Keys(git) = DOMAIN git.v /\ Keys(live) = DOMAIN live.v
    BY <1>4 DEF Keys
  <2>3. SubsetOf(spec_subset, git, live)
          <=> \A k \in DOMAIN git.v :
                \/ is_k8s_zero_value(git.v[k]) /\ k \notin DOMAIN live.v
                \/ k \in DOMAIN live.v /\ spec_subset[git.v[k]][live.v[k]]
    BY <1>4 DEF SubsetOf
  <2>. QED BY <1>1, <1>2, <1>3, <2>1, <2>2, <2>3, PlacesParts DEF Part
<1>5. CASE git.t = "array" /\ live.t = "array"
  <2>1. git.v \in Seq(Json) /\ live.v \in Seq(Json)
    BY <1>5, JsonAssumption
  <2>2. InPlace(git, {live}) <=> Len(git.v) <= Len(live.v)
    BY <1>5 DEF InPlace, Zero, Same
  <2>3. Keys(git) = DOMAIN git.v /\ Keys(live) = DOMAIN live.v
    BY <1>5 DEF Keys
  <2>4. Len(git.v) <= Len(live.v) => DOMAIN git.v \subseteq DOMAIN live.v
    BY <2>1
  <2>5. SubsetOf(spec_subset, git, live)
          <=> /\ Len(git.v) <= Len(live.v)
              /\ \A k \in DOMAIN git.v : spec_subset[git.v[k]][live.v[k]]
    BY <1>5 DEF SubsetOf
  <2>. QED BY <1>1, <1>3, <2>2, <2>3, <2>4, <2>5, PlacesParts DEF Part
<1>6. CASE ~(git.t = "object" /\ live.t = "object") /\ ~(git.t = "array" /\ live.t = "array")
  <2>1. SubsetOf(spec_subset, git, live) <=> Same(git, live)
    BY <1>6 DEF SubsetOf
  <2>2. CASE git.t \in {"object", "array"}
    <3>1. ~Same(git, live)
      BY <1>6, <2>2 DEF Same
    <3>2. ~InPlace(git, {live})
      BY <1>6, <2>2 DEF InPlace
    <3>. QED BY <1>1, <2>1, <3>1, <3>2, PlacesParts
  <2>3. CASE git.t \notin {"object", "array"}
    <3>1. Keys(git) = {}
      BY <2>3 DEF Keys
    <3>2. InPlace(git, {live}) <=> Same(git, live)
      BY <2>3 DEF InPlace, Same
    <3>. QED BY <1>1, <2>1, <3>1, <3>2, PlacesParts
  <2>. QED BY <2>2, <2>3
<1>. QED BY <1>4, <1>5, <1>6

LEMMA SubsetPlaces ==
  ASSUME NEW git \in Json, NEW live \in Json
  PROVE  spec_subset[git][live] <=> Places(git, live)
<1>. DEFINE S == {n \in Nat : \A x, y \in Json :
                     Depth[x] < n => (spec_subset[x][y] <=> Places(x, y))}
<1>1. 0 \in S
  <2>1. \A x \in Json : ~(Depth[x] < 0)
    BY Nesting
  <2>. QED BY <2>1
<1>2. ASSUME NEW n \in Nat, n \in S
      PROVE  n + 1 \in S
  <2>1. ASSUME NEW x \in Json, NEW y \in Json, Depth[x] < n + 1
        PROVE  spec_subset[x][y] <=> Places(x, y)
    <3>1. ASSUME NEW k \in Keys(x)
          PROVE  x.v[k] \in Json /\ Depth[x.v[k]] < n
      BY <2>1, <3>1, Nesting
    <3>2. \A k \in Keys(x) : \A z \in Json : spec_subset[x.v[k]][z] <=> Places(x.v[k], z)
      BY <1>2, <3>1
    <3>. QED BY <3>2, PlacesStep
  <2>. QED BY <2>1
<1>. HIDE DEF S
<1>3. MaxDepth + 1 \in S
  BY <1>1, <1>2, Induction, JsonAssumption
<1>. QED BY <1>3, Nesting DEF S

(* No drift is reported of an object just if it holds what its manifest      *)
(* declares: its spec or, where it has none, all but its type, each value in *)
(* its place, a zero value perhaps left out. So nothing that is missing or   *)
(* changed passes, and nothing the server adds is taken for drift.           *)
THEOREM NoDriftHolds ==
  ASSUME NEW git \in Json, NEW live \in Json, git.t = "object", live.t = "object"
  PROVE  ~specs_differ(git, live) <=> Holds(git, live)
<1>. DEFINE g == remove_top_level_keys(git, Ignored)
            l == remove_top_level_keys(live, Ignored)
            Compared(k) == IF Has(git, "spec") THEN k = "spec" ELSE k \notin Ignored
            Found(n) == InPlace(n.value, At(Nodes[live], n.path))
<1>1. g \in Json /\ l \in Json
  BY RemoveAssumption
<1>2. /\ g.t = "object" /\ l.t = "object"
      /\ \A k : k \in DOMAIN g.v <=> k \in DOMAIN git.v /\ k \notin Ignored
      /\ \A k : k \in DOMAIN l.v <=> k \in DOMAIN live.v /\ k \notin Ignored
      /\ \A k \in DOMAIN g.v : g.v[k] = git.v[k]
      /\ \A k \in DOMAIN l.v : l.v[k] = live.v[k]
  BY DEF remove_top_level_keys, Obj
<1>3. ~specs_differ(git, live)
        <=> IF Has(g, "spec") THEN Has(l, "spec") /\ spec_subset[Get(g, "spec")][Get(l, "spec")]
                              ELSE spec_subset[g][l]
  BY DEF specs_differ
<1>. HIDE DEF g, l
(* What is declared lies under the keys that are compared.                   *)
<1>4. (\A n \in Nodes[git] : Declares(git, n.path) => Found(n))
        <=> \A k \in Keys(git) : Compared(k) => Part(git, live, k)
  <2>1. ASSUME NEW k \in Keys(git), NEW c \in Nodes[git.v[k]],
               NEW n, n = [path |-> <<k, c.path>>, value |-> c.value]
        PROVE  /\ n \in Nodes[git]
               /\ Declares(git, n.path) <=> Compared(k)
               /\ Found(n) <=> InPlace(c.value, At(Nodes[live], <<k, c.path>>))
    <3>1. n \in Nodes[git]
      BY <2>1, NodesDefined DEF NodesOf
    <3>2. n.path = <<k, c.path>> /\ n.value = c.value /\ n.path # <<>> /\ n.path[1] = k
      BY <2>1
    <3>3. Declares(git, n.path) <=> Compared(k)
      BY <3>2 DEF Declares
    <3>4. Found(n) <=> InPlace(c.value, At(Nodes[live], <<k, c.path>>))
      BY <3>2
    <3>. QED BY <3>1, <3>3, <3>4
  <2>2. ASSUME NEW n \in Nodes[git], Declares(git, n.path)
        PROVE  \E k \in Keys(git) : \E c \in Nodes[git.v[k]] :
                 n = [path |-> <<k, c.path>>, value |-> c.value]
    BY <2>2, NodeCases DEF Declares
  <2>. HIDE DEF Compared, Found
  <2>3. ASSUME \A n \in Nodes[git] : Declares(git, n.path) => Found(n),
               NEW k \in Keys(git), Compared(k)
        PROVE  Part(git, live, k)
    <3>1. ASSUME NEW c \in Nodes[git.v[k]]
          PROVE  InPlace(c.value, At(Nodes[live], <<k, c.path>>))
      BY <2>1, <2>3
    <3>. QED BY <3>1, PartNodes
  <2>4. ASSUME \A k \in Keys(git) : Compared(k) => Part(git, live, k),
               NEW n \in Nodes[git], Declares(git, n.path)
        PROVE  Found(n)
    <3>1. PICK k \in Keys(git) : \E c \in Nodes[git.v[k]] :
                 n = [path |-> <<k, c.path>>, value |-> c.value]
      BY <2>2, <2>4
    <3>2. PICK c \in Nodes[git.v[k]] : n = [path |-> <<k, c.path>>, value |-> c.value]
      BY <3>1
    <3>3. Compared(k) /\ (Found(n) <=> InPlace(c.value, At(Nodes[live], <<k, c.path>>)))
      BY <2>1, <2>4, <3>2
    <3>. QED BY <2>4, <3>3, PartNodes
  <2>. QED BY <2>3, <2>4
<1>5. Holds(git, live) <=> /\ Has(git, "spec") => Has(live, "spec")
                           /\ \A k \in Keys(git) : Compared(k) => Part(git, live, k)
  <2>. HIDE DEF Compared
  <2>. QED BY <1>4 DEF Holds
<1>6. CASE Has(git, "spec")
  <2>1. Has(g, "spec") /\ "spec" \in Keys(git) /\ git.v["spec"] \in Json
        /\ Get(g, "spec") = git.v["spec"]
    BY <1>2, <1>6, Nesting DEF Has, Get, Ignored, Keys
  <2>2. Has(l, "spec") <=> Has(live, "spec")
    BY <1>2 DEF Has, Ignored
  <2>3. Holds(git, live) <=> Has(live, "spec") /\ Part(git, live, "spec")
    BY <1>5, <1>6, <2>1
  <2>4. CASE Has(live, "spec")
    <3>1. "spec" \in Keys(live) /\ live.v["spec"] \in Json /\ Get(l, "spec") = live.v["spec"]
      BY <1>2, <2>2, <2>4, Nesting DEF Has, Get, Keys
    <3>2. spec_subset[git.v["spec"]][live.v["spec"]] <=> Part(git, live, "spec")
      BY <2>1, <3>1, SubsetPlaces DEF Part
    <3>. QED BY <1>3, <2>1, <2>2, <2>3, <2>4, <3>1, <3>2
  <2>5. CASE ~Has(live, "spec")
    BY <1>3, <2>1, <2>2, <2>3, <2>5
  <2>. QED BY <2>4, <2>5
<1>7. CASE ~Has(git, "spec")
  <2>1. ~Has(g, "spec")
    BY <1>2, <1>7 DEF Has
  <2>2. spec_subset[g][l] <=> \A k \in Keys(g) : Part(g, l, k)
    <3>1. InPlace(g, {l})
      BY <1>2 DEF InPlace
    <3>. QED BY <1>1, <3>1, SubsetPlaces, PlacesParts
  <2>3. /\ Keys(g) = {k \in Keys(git) : k \notin Ignored}
        /\ \A k \in Keys(g) : Part(g, l, k) <=> Part(git, live, k)
    BY <1>2 DEF Keys, Part
  <2>4. Holds(git, live) <=> \A k \in Keys(g) : Part(git, live, k)
    BY <1>5, <1>7, <2>3
  <2>. QED BY <1>3, <2>1, <2>2, <2>3, <2>4
<1>. QED BY <1>6, <1>7
=============================================================================
