---------------------------- MODULE WatchProofs -----------------------------
(***************************************************************************)
(* Theorems about Watch, for any kinds, objects, contents and limits: what *)
(* a store of watch.rs shows is its kind at one moment of the cluster, and *)
(* the stores implement Mirror.                                            *)
(***************************************************************************)
EXTENDS Watch, TLAPS

LEMMA NoTiersType == NoTiers \in Tiers
BY DEF NoTiers, Tiers

LEMMA PutType ==
  ASSUME NEW t \in Tiers, NEW o \in Object, NEW b \in Body \cup {Gone}
  PROVE  Put(t, o, b) \in Tiers /\ Drop(t, o) \in Tiers
BY DEF Put, Drop, Tiers

LEMMA NowType ==
  ASSUME log \in Seq(Cluster), Len(log) > 0
  PROVE  Now \in Cluster
BY DEF Now

LEMMA DeliverType ==
  ASSUME TypeOK, NEW t \in Tiers, NEW g \in Kind, NEW n \in Nat,
         n > 0, n < Len(log)
  PROVE  Deliver(t, g, n) \in Tiers
<1>1. log[n + 1] \in Cluster
  BY DEF TypeOK
<1>2. CASE \E o \in Of(g) : log[n + 1][o] # log[n][o]
  <2> DEFINE x == CHOOSE y \in Of(g) : log[n + 1][y] # log[n][y]
  <2>1. x \in Object
    BY <1>2 DEF Of
  <2>2. log[n + 1][x] \in Body \cup {Gone}
    BY <1>1, <2>1 DEF Cluster
  <2>3. Deliver(t, g, n) = IF log[n + 1][x] = Gone THEN Drop(t, x)
                           ELSE Put(t, x, log[n + 1][x])
    BY <1>2 DEF Deliver
  <2> QED BY <2>1, <2>2, <2>3, PutType
<1>3. CASE ~ \E o \in Of(g) : log[n + 1][o] # log[n][o]
  BY <1>3 DEF Deliver
<1> QED BY <1>2, <1>3

LEMMA IdleType == Idle \in Check
BY DEF Idle, Check

LEMMA OffType == Off \in Stream
BY DEF Off, Stream, Phase

LEMMA TypeInit == Init => TypeOK
<1> SUFFICES ASSUME Init
             PROVE  TypeOK
  OBVIOUS
<1>1. log \in Seq(Cluster) /\ Len(log) > 0
  <2>1. PICK c \in Cluster : log = <<c>>
    BY DEF Init
  <2> QED BY <2>1
<1>2. /\ stream \in [Kind -> Stream]
      /\ seen \in [Kind -> Tiers]
      /\ buffer \in [Kind -> Tiers]
      /\ check \in Check
  BY NoTiersType, IdleType, OffType DEF Init
<1>3. \A g \in Kind : StreamOK(g)
  BY <1>1 DEF Init, StreamOK, Off
<1> QED BY <1>1, <1>2, <1>3 DEF TypeOK

(* What a check does leaves the stores alone.                              *)
CheckStep ==
  \/ BeginCheck \/ EndCheck
  \/ \E g \in Kind : ReadCache(g) \/ ReadList(g) \/ ReadListFails(g)

LEMMA CheckStepFrame == CheckStep => UNCHANGED <<log, watching>>
BY DEF CheckStep, BeginCheck, EndCheck, ReadCache, ReadList, ReadListFails

LEMMA CheckStepType == TypeOK /\ CheckStep => check' \in Check
<1> SUFFICES ASSUME TypeOK, CheckStep
             PROVE  check' \in Check
  OBVIOUS
<1>2. CASE BeginCheck
  <2>1. check' = [running |-> TRUE, cache |-> {g \in Kind : Wanted(g) # {}},
                  list |-> {}, drifts |-> {},
                  since |-> [g \in Kind |-> 0], lost |-> {}]
    BY <1>2 DEF BeginCheck, Idle
  <2> QED BY <2>1 DEF Check
<1>3. CASE EndCheck
  BY <1>3, IdleType DEF EndCheck
<1>4. ASSUME NEW g \in Kind, ReadCache(g)
      PROVE  check' \in Check
  <2>1. check \in Check /\ stream[g].shown \in Nat
    BY DEF TypeOK, Stream
  <2> DEFINE new == {o \in Wanted(g) : TierOf(g, o) = "large"}
             bad == {o \in Wanted(g) :
                       \/ TierOf(g, o) = "absent"
                       \/ TierOf(g, o) = "small" /\ seen[g].small[o] # Declared[o]}
  <2>2. new \subseteq Object /\ bad \subseteq Object
    BY DEF Wanted, Of
  <2>3. check' = [check EXCEPT !.cache = @ \ {g}, !.list = @ \cup new,
                               !.drifts = @ \cup bad,
                               !.since = [@ EXCEPT ![g] = stream[g].shown]]
    BY <1>4 DEF ReadCache
  <2> HIDE DEF new, bad
  <2> QED BY <2>1, <2>2, <2>3 DEF Check
<1>5. ASSUME NEW g \in Kind, ReadList(g)
      PROVE  check' \in Check
  BY <1>5 DEF ReadList, TypeOK, Check, Deferred, Of
<1>6. ASSUME NEW g \in Kind, ReadListFails(g)
      PROVE  check' \in Check
  BY <1>6 DEF ReadListFails, TypeOK, Check
<1> QED BY <1>2, <1>3, <1>4, <1>5, <1>6 DEF CheckStep

LEMMA CheckStepTypeOK == TypeOK /\ CheckStep => TypeOK'
BY CheckStepType, CheckStepFrame DEF TypeOK, StreamOK, Present, Of, watching

(* The log grows at its end only.                                          *)
LEMMA ChangeLog ==
  ASSUME TypeOK, NEW o \in Object, NEW b \in Body \cup {Gone}, Change(o, b)
  PROVE  /\ log' \in Seq(Cluster) /\ Len(log') = Len(log) + 1
         /\ \A n \in 1..Len(log) : log'[n] = log[n]
         /\ log'[Len(log) + 1] = [Now EXCEPT ![o] = b]
         /\ UNCHANGED <<watching, check>>
<1>1. Now \in Cluster
  BY NowType DEF TypeOK
<1>2. [Now EXCEPT ![o] = b] \in Cluster
  BY <1>1 DEF Cluster
<1> QED BY <1>2 DEF Change, TypeOK

LEMMA ChangeType ==
  ASSUME TypeOK, NEW o \in Object, NEW b \in Body \cup {Gone}, Change(o, b)
  PROVE  TypeOK'
<1>0. /\ log' \in Seq(Cluster) /\ Len(log') = Len(log) + 1
      /\ \A n \in 1..Len(log) : log'[n] = log[n]
      /\ UNCHANGED <<watching, check>>
  BY ChangeLog
<1>a. Len(log) \in Nat
  BY DEF TypeOK
<1>1. \A g \in Kind : StreamOK(g)'
  <2> SUFFICES ASSUME NEW g \in Kind
               PROVE  StreamOK(g)'
    OBVIOUS
  <2>1. stream' = stream /\ stream[g] \in Stream /\ StreamOK(g)
    BY <1>0 DEF TypeOK, watching
  <2>2. /\ stream[g].listed \in Nat /\ stream[g].shown \in Nat
        /\ stream[g].listed <= Len(log) /\ stream[g].shown <= Len(log)
    BY <2>1 DEF StreamOK, Stream
  <2>3. stream[g].listed > 0 => log'[stream[g].listed] = log[stream[g].listed]
    BY <1>0, <1>a, <2>2
  <2> QED BY <1>0, <1>a, <2>1, <2>2, <2>3 DEF StreamOK, Present
<1> QED BY <1>0, <1>a, <1>1 DEF TypeOK, watching

(* The steps of the drivers change what concerns one kind.                 *)
StreamStep(g) ==
  \/ Spawn(g) \/ Abort(g) \/ Driver(g) \/ ListFails(g) \/ Expire(g)

LEMMA StreamStepType ==
  ASSUME TypeOK, NEW g \in Kind, StreamStep(g)
  PROVE  TypeOK'
<1>1. /\ log' = log /\ check' = check
      /\ \A h \in Kind \ {g} : stream'[h] = stream[h]
  BY DEF StreamStep, Spawn, Abort, Driver, EventInit, List, EventInitApply,
         EventInitDone, Event, ListFails, Expire, Becomes, TypeOK
<1>2. stream' \in [Kind -> Stream] /\ StreamOK(g)'
  <2>0. /\ stream[g] \in Stream /\ StreamOK(g)
        /\ stream \in [Kind -> Stream] /\ Len(log) \in Nat /\ Len(log) > 0
    BY DEF TypeOK
  <2>1. CASE Spawn(g)
    BY <2>0, <2>1, <1>1 DEF Spawn, Becomes, Stream, StreamOK, Phase
  <2>2. CASE Abort(g)
    BY <2>0, <2>2 DEF Abort, Stream, StreamOK, Phase, Off
  <2>3. CASE EventInit(g)
    BY <2>0, <2>3 DEF EventInit, Becomes, Stream, StreamOK, Phase
  <2>4. CASE List(g)
    <3>2. Present(g, log[Len(log)]) \subseteq Object
      BY DEF Present, Of
    <3> QED BY <2>0, <2>4, <3>2, <1>1 DEF List, Now, Becomes, Stream, StreamOK, Phase
  <2>5. CASE EventInitApply(g)
    BY <2>0, <2>5, <1>1 DEF EventInitApply, Becomes, Stream, StreamOK, Phase, Present, Of
  <2>6. CASE EventInitDone(g)
    BY <2>0, <2>6, <1>1 DEF EventInitDone, Becomes, Stream, StreamOK, Phase
  <2>7. CASE Event(g)
    BY <2>0, <2>7, <1>1 DEF Event, Becomes, Stream, StreamOK, Phase
  <2>8. CASE ListFails(g)
    BY <2>0, <2>8, <1>1 DEF ListFails, Becomes, Stream, StreamOK, Phase
  <2>9. CASE Expire(g)
    BY <2>0, <2>9, <1>1 DEF Expire, Becomes, Stream, StreamOK, Phase
  <2> QED BY <2>1, <2>2, <2>3, <2>4, <2>5, <2>6, <2>7, <2>8, <2>9
          DEF StreamStep, Driver
<1>3. seen' \in [Kind -> Tiers] /\ buffer' \in [Kind -> Tiers]
  <2>0. seen \in [Kind -> Tiers] /\ buffer \in [Kind -> Tiers]
    BY DEF TypeOK
  <2>1. CASE EventInitApply(g)
    <3>1. PICK o \in stream[g].todo :
            buffer' = [buffer EXCEPT ![g] = Put(@, o, log[stream[g].listed][o])]
      BY <2>1 DEF EventInitApply
    <3>2. /\ o \in Object /\ stream[g].listed \in 1..Len(log)
      BY <2>1 DEF EventInitApply, TypeOK, StreamOK, Stream
    <3>3. log[stream[g].listed][o] \in Body \cup {Gone}
      BY <3>2 DEF TypeOK, Cluster
    <3> QED BY <2>0, <2>1, <3>1, <3>2, <3>3, PutType DEF EventInitApply
  <2>2. CASE Event(g)
    <3>1. /\ stream[g].shown \in Nat /\ stream[g].shown > 0
          /\ stream[g].shown < Len(log)
      BY <2>2 DEF Event, TypeOK, StreamOK, Stream
    <3>2. Deliver(seen[g], g, stream[g].shown) \in Tiers
      BY <2>0, <3>1, DeliverType
    <3> QED BY <2>0, <2>2, <3>2 DEF Event
  <2>3. CASE ~EventInitApply(g) /\ ~Event(g)
    BY <2>0, <2>3, NoTiersType
       DEF StreamStep, Driver, Spawn, Abort, EventInit, List, EventInitDone,
           ListFails, Expire
  <2> QED BY <2>1, <2>2, <2>3
<1>4. \A h \in Kind \ {g} : StreamOK(h)'
  BY <1>1 DEF TypeOK, StreamOK, Present, Of
<1> QED BY <1>1, <1>2, <1>3, <1>4 DEF TypeOK

LEMMA StepCases ==
  Next => \/ \E o \in Object, b \in Body \cup {Gone} : Change(o, b)
          \/ \E g \in Kind : StreamStep(g)
          \/ CheckStep
BY DEF Next, StreamStep, CheckStep

LEMMA TypeStep == TypeOK /\ [Next]_vars => TypeOK'
<1>1. TypeOK /\ Next => TypeOK'
  BY StepCases, ChangeType, StreamStepType, CheckStepTypeOK
<1>2. TypeOK /\ UNCHANGED vars => TypeOK'
  BY DEF vars, watching, TypeOK, StreamOK, Present, Of
<1> QED BY <1>1, <1>2

(* The stores, the streams and the check keep their types on every         *)
(* schedule, and no stream runs ahead of the cluster.                      *)
THEOREM WatchTypeOK == Spec => []TypeOK
BY TypeInit, TypeStep, PTL DEF Spec

-----------------------------------------------------------------------------
(* apply_event keeps a store that is right for c right for c changed at o. *)
LEMMA PutTiered ==
  ASSUME NEW g \in Kind, NEW c \in Cluster, NEW o \in Of(g), NEW b \in Body
  PROVE  Put(Tiered(g, c), o, b) = Tiered(g, [c EXCEPT ![o] = b])
<1> DEFINE d == [c EXCEPT ![o] = b]
<1>1. /\ o \in Object /\ d[o] = b /\ b # Gone
      /\ \A x \in Object \ {o} : d[x] = c[x]
  BY WatchConstants DEF Of, Cluster
<1> HIDE DEF d
<1>2. CASE b \in Heavy
  <2>1. Put(Tiered(g, c), o, b).small = Tiered(g, d).small
    BY <1>1, <1>2 DEF Put, Tiered
  <2>2. Put(Tiered(g, c), o, b).large = Tiered(g, d).large
    BY <1>1, <1>2 DEF Put, Tiered, Of
  <2> QED BY <1>2, <2>1, <2>2 DEF Put, Tiered, d
<1>3. CASE b \notin Heavy
  <2>1. Put(Tiered(g, c), o, b).small = Tiered(g, d).small
    BY <1>1, <1>3 DEF Put, Tiered
  <2>2. Put(Tiered(g, c), o, b).large = Tiered(g, d).large
    BY <1>1, <1>3 DEF Put, Tiered, Of
  <2> QED BY <1>3, <2>1, <2>2 DEF Put, Tiered, d
<1> QED BY <1>2, <1>3

LEMMA DropTiered ==
  ASSUME NEW g \in Kind, NEW c \in Cluster, NEW o \in Of(g)
  PROVE  Drop(Tiered(g, c), o) = Tiered(g, [c EXCEPT ![o] = Gone])
<1> DEFINE d == [c EXCEPT ![o] = Gone]
<1>1. /\ o \in Object /\ d[o] = Gone /\ Gone \notin Heavy
      /\ \A x \in Object \ {o} : d[x] = c[x]
  BY WatchConstants DEF Of, Cluster
<1> HIDE DEF d
<1>2. Drop(Tiered(g, c), o).small = Tiered(g, d).small
  BY <1>1 DEF Drop, Tiered
<1>3. Drop(Tiered(g, c), o).large = Tiered(g, d).large
  BY <1>1 DEF Drop, Tiered, Of
<1> QED BY <1>2, <1>3 DEF Drop, Tiered, d

(* What is not of kind g does not show in its store.                       *)
LEMMA OtherTiered ==
  ASSUME NEW g \in Kind, NEW c, NEW d, \A o \in Of(g) : c[o] = d[o]
  PROVE  Tiered(g, c) = Tiered(g, d)
<1>1. \A o \in Object : (IF o \in Of(g) /\ c[o] \notin Heavy THEN c[o] ELSE Gone)
                     = (IF o \in Of(g) /\ d[o] \notin Heavy THEN d[o] ELSE Gone)
  OBVIOUS
<1>2. {o \in Of(g) : c[o] \in Heavy} = {o \in Of(g) : d[o] \in Heavy}
  OBVIOUS
<1> QED BY <1>1, <1>2 DEF Tiered

LEMMA NothingTiered ==
  ASSUME NEW g \in Kind, NEW c, \A o \in Of(g) : c[o] = Gone
  PROVE  Tiered(g, c) = NoTiers
<1>1. \A o \in Object : (IF o \in Of(g) /\ c[o] \notin Heavy THEN c[o] ELSE Gone)
                     = Gone
  OBVIOUS
<1>2. {o \in Of(g) : c[o] \in Heavy} = {}
  BY WatchConstants
<1> QED BY <1>1, <1>2 DEF Tiered, NoTiers

(* An event brings a store from one moment of the cluster to the next.     *)
LEMMA DeliverTiered ==
  ASSUME TypeOK, LogInv, NEW g \in Kind, NEW n \in Nat, n > 0, n < Len(log)
  PROVE  Deliver(Tiered(g, log[n]), g, n) = Tiered(g, log[n + 1])
<1>1. log[n] \in Cluster /\ log[n + 1] \in Cluster /\ n \in 1..(Len(log) - 1)
  BY DEF TypeOK
<1>2. PICK o \in Object : \E b \in Body \cup {Gone} :
        log[n + 1] = [log[n] EXCEPT ![o] = b]
  BY <1>1 DEF LogInv
<1>3. PICK b \in Body \cup {Gone} : log[n + 1] = [log[n] EXCEPT ![o] = b]
  BY <1>2
<1>4. log[n + 1][o] = b /\ \A x \in Object \ {o} : log[n + 1][x] = log[n][x]
  BY <1>1, <1>3 DEF Cluster
<1>5. CASE \E x \in Of(g) : log[n + 1][x] # log[n][x]
  <2> DEFINE x == CHOOSE y \in Of(g) : log[n + 1][y] # log[n][y]
  <2>1. x \in Of(g) /\ log[n + 1][x] # log[n][x]
    BY <1>5
  <2>2. x = o
    BY <1>4, <2>1 DEF Of
  <2>3. Deliver(Tiered(g, log[n]), g, n) =
          IF log[n + 1][x] = Gone THEN Drop(Tiered(g, log[n]), x)
          ELSE Put(Tiered(g, log[n]), x, log[n + 1][x])
    BY <1>5 DEF Deliver
  <2> HIDE DEF x
  <2>4. CASE b = Gone
    BY <1>1, <1>3, <1>4, <2>1, <2>2, <2>3, <2>4, DropTiered
  <2>5. CASE b # Gone
    BY <1>1, <1>3, <1>4, <2>1, <2>2, <2>3, <2>5, PutTiered
  <2> QED BY <2>4, <2>5
<1>6. CASE ~ \E x \in Of(g) : log[n + 1][x] # log[n][x]
  <2>1. Tiered(g, log[n]) = Tiered(g, log[n + 1])
    BY <1>6, OtherTiered
  <2> QED BY <1>6, <2>1 DEF Deliver
<1> QED BY <1>5, <1>6

-----------------------------------------------------------------------------
LEMMA StoreInit == Init => StoreInv
<1> SUFFICES ASSUME Init
             PROVE  StoreInv
  OBVIOUS
<1>1. PICK c \in Cluster : log = <<c>>
  BY DEF Init
<1>2. LogInv
  BY <1>1 DEF LogInv
<1>3. SeenInv /\ BufferInv
  BY DEF Init, SeenInv, BufferInv, Off
<1> QED BY <1>2, <1>3, TypeInit DEF StoreInv

(* Stores and listings are of the past, which a change leaves alone.       *)
LEMMA ChangeStore ==
  ASSUME StoreInv, NEW o \in Object, NEW b \in Body \cup {Gone}, Change(o, b)
  PROVE  StoreInv'
<1>0. /\ log' \in Seq(Cluster) /\ Len(log') = Len(log) + 1
      /\ \A n \in 1..Len(log) : log'[n] = log[n]
      /\ log'[Len(log) + 1] = [log[Len(log)] EXCEPT ![o] = b]
      /\ stream' = stream /\ seen' = seen /\ buffer' = buffer
  BY ChangeLog DEF StoreInv, watching, Now
<1>1. TypeOK /\ Len(log) \in Nat /\ Len(log) > 0
  BY DEF StoreInv, TypeOK
<1>2. ASSUME NEW g \in Kind
      PROVE  /\ stream[g].shown # 0 => log'[stream[g].shown] = log[stream[g].shown]
             /\ stream[g].phase = "page" =>
                  log'[stream[g].listed] = log[stream[g].listed]
  <2>1. StreamOK(g) /\ stream[g] \in Stream
    BY <1>1 DEF TypeOK
  <2>2. stream[g].shown \in Nat /\ stream[g].listed \in Nat
    BY <2>1 DEF Stream
  <2> QED BY <1>0, <1>1, <2>1, <2>2 DEF StreamOK
<1>3. SeenInv' /\ BufferInv'
  BY <1>0, <1>2 DEF StoreInv, SeenInv, BufferInv
<1>4. LogInv'
  <2> SUFFICES ASSUME NEW n \in 1..(Len(log') - 1)
               PROVE  \E x \in Object : \E y \in Body \cup {Gone} :
                        log'[n + 1] = [log'[n] EXCEPT ![x] = y]
    BY DEF LogInv
  <2>1. CASE n = Len(log)
    <3>1. log'[n] = log[Len(log)] /\ n + 1 = Len(log) + 1
      BY <1>0, <1>1, <2>1
    <3>2. log'[n + 1] = [log'[n] EXCEPT ![o] = b]
      BY <1>0, <3>1
    <3> QED BY <3>2
  <2>2. CASE n \in 1..(Len(log) - 1)
    <3>1. log'[n] = log[n] /\ log'[n + 1] = log[n + 1]
      BY <1>0, <1>1, <2>2
    <3> QED BY <2>2, <3>1 DEF StoreInv, LogInv
  <2>3. n \in 1..(Len(log) - 1) \/ n = Len(log)
    <3>1. Len(log') - 1 = Len(log)
      BY <1>0, <1>1
    <3>2. n \in 1..Len(log)
      BY <3>1
    <3> QED BY <1>1, <3>2
  <2> QED BY <2>1, <2>2, <2>3
<1> QED BY <1>1, <1>3, <1>4, ChangeType DEF StoreInv

LEMMA StreamStepStore ==
  ASSUME StoreInv, NEW g \in Kind, StreamStep(g)
  PROVE  StoreInv'
<1>0. log' = log
  BY DEF StreamStep, Spawn, Abort, Driver, EventInit, List, EventInitApply,
         EventInitDone, Event, ListFails, Expire
<1>1. /\ log' = log /\ stream \in [Kind -> Stream] /\ seen \in [Kind -> Tiers]
      /\ buffer \in [Kind -> Tiers] /\ stream[g] \in Stream /\ StreamOK(g)
      /\ TypeOK /\ LogInv /\ Len(log) \in Nat
  BY <1>0 DEF StoreInv, TypeOK
<1>2. \A h \in Kind \ {g} : /\ stream'[h] = stream[h] /\ seen'[h] = seen[h]
                            /\ buffer'[h] = buffer[h]
  BY <1>1 DEF StreamStep, Spawn, Abort, Driver, EventInit, List, EventInitApply,
         EventInitDone, Event, ListFails, Expire, Becomes
<1> DEFINE Good == seen'[g] = IF stream'[g].shown = 0 THEN NoTiers
                              ELSE Tiered(g, log[stream'[g].shown])
           Filling ==
             /\ stream'[g].phase = "init" => buffer'[g] = NoTiers
             /\ stream'[g].phase = "page" => buffer'[g] =
                  Tiered(g, Without(log[stream'[g].listed], stream'[g].todo))
<1>3. seen[g] = IF stream[g].shown = 0 THEN NoTiers
                ELSE Tiered(g, log[stream[g].shown])
  BY DEF StoreInv, SeenInv
<1>4. stream[g].phase = "page" =>
        buffer[g] = Tiered(g, Without(log[stream[g].listed], stream[g].todo))
  BY DEF StoreInv, BufferInv
<1>5. Good /\ Filling
  <2>1. CASE Spawn(g)
    <3>1. stream[g].shown = 0
      BY <1>1, <2>1 DEF Spawn, StreamOK
    <3> QED BY <1>1, <1>3, <2>1, <3>1 DEF Spawn, Becomes
  <2>2. CASE Abort(g)
    BY <1>1, <2>2 DEF Abort, Off
  <2>3. CASE EventInit(g)
    BY <1>1, <1>3, <2>3 DEF EventInit, Becomes
  <2>4. CASE List(g)
    <3>1. Tiered(g, Without(Now, Present(g, Now))) = NoTiers
      <4>1. \A o \in Of(g) : Without(Now, Present(g, Now))[o] = Gone
        BY DEF Without, Present, Of
      <4> QED BY <4>1, NothingTiered
    <3>2. buffer[g] = NoTiers
      BY <2>4 DEF List, StoreInv, BufferInv
    <3> QED BY <1>1, <1>3, <2>4, <3>1, <3>2 DEF List, Becomes, Now
  <2>5. CASE EventInitApply(g)
    <3>1. PICK o \in stream[g].todo :
            /\ Becomes(g, "page", stream[g].shown, stream[g].listed,
                       stream[g].todo \ {o})
            /\ buffer' = [buffer EXCEPT ![g] = Put(@, o, log[stream[g].listed][o])]
      BY <2>5 DEF EventInitApply
    <3> DEFINE c == log[stream[g].listed]
               todo == stream[g].todo
    <3>2. /\ stream[g].phase = "page" /\ c \in Cluster
          /\ o \in Of(g) /\ o \in Object /\ c[o] \in Body
      <4>1. stream[g].phase = "page" /\ stream[g].listed \in 1..Len(log)
        BY <1>1, <2>5 DEF EventInitApply, StreamOK, Stream
      <4>2. c \in Cluster
        BY <1>1, <4>1 DEF TypeOK
      <4>3. o \in Present(g, c)
        BY <1>1, <4>1 DEF StreamOK
      <4> QED BY <4>1, <4>2, <4>3 DEF Present, Of, Cluster
    <3>3. Without(c, todo) \in Cluster
      BY <3>2 DEF Without, Cluster
    <3>4. [Without(c, todo) EXCEPT ![o] = c[o]] = Without(c, todo \ {o})
      BY <3>2 DEF Without
    <3>5. Put(Tiered(g, Without(c, todo)), o, c[o])
            = Tiered(g, Without(c, todo \ {o}))
      BY <3>2, <3>3, <3>4, PutTiered
    <3>6. /\ stream'[g].phase = "page" /\ stream'[g].shown = stream[g].shown
          /\ stream'[g].listed = stream[g].listed /\ stream'[g].todo = todo \ {o}
      BY <1>1, <3>1 DEF Becomes
    <3>7. buffer'[g] = Put(buffer[g], o, c[o]) /\ seen' = seen
      BY <1>1, <2>5, <3>1 DEF EventInitApply
    <3> HIDE DEF c, todo
    <3>8. buffer[g] = Tiered(g, Without(c, todo))
      BY <1>4, <3>2 DEF c, todo
    <3>9. Filling
      BY <3>5, <3>6, <3>7, <3>8 DEF c
    <3>10. Good
      BY <1>3, <3>6, <3>7
    <3> QED BY <3>9, <3>10
  <2>6. CASE EventInitDone(g)
    <3>1. /\ stream[g].phase = "page" /\ stream[g].todo = {}
          /\ stream[g].listed \in 1..Len(log)
      BY <1>1, <2>6 DEF EventInitDone, StreamOK, Stream
    <3>2. Without(log[stream[g].listed], {}) = log[stream[g].listed]
      BY <1>1, <3>1 DEF Without, TypeOK, Cluster
    <3>3. buffer[g] = Tiered(g, log[stream[g].listed])
      BY <1>4, <3>1, <3>2
    <3> QED BY <1>1, <2>6, <3>1, <3>3 DEF EventInitDone, Becomes
  <2>7. CASE Event(g)
    <3>1. /\ stream[g].shown \in Nat /\ stream[g].shown > 0
          /\ stream[g].shown < Len(log)
      BY <1>1, <2>7 DEF Event, StreamOK, Stream
    <3>2. Deliver(seen[g], g, stream[g].shown) = Tiered(g, log[stream[g].shown + 1])
      BY <1>1, <1>3, <3>1, DeliverTiered
    <3>3. stream'[g].phase = "watch" /\ stream'[g].shown = stream[g].shown + 1
      BY <1>1, <2>7 DEF Event, Becomes
    <3>4. seen'[g] = Deliver(seen[g], g, stream[g].shown)
      BY <1>1, <2>7 DEF Event
    <3> QED BY <3>1, <3>2, <3>3, <3>4
  <2>8. CASE ListFails(g)
    BY <1>1, <1>3, <2>8 DEF ListFails, Becomes
  <2>9. CASE Expire(g)
    BY <1>1, <1>3, <2>9 DEF Expire, Becomes
  <2> QED BY <2>1, <2>2, <2>3, <2>4, <2>5, <2>6, <2>7, <2>8, <2>9
          DEF StreamStep, Driver
<1>6. SeenInv'
  BY <1>1, <1>2, <1>5 DEF StoreInv, SeenInv
<1>7. BufferInv'
  BY <1>1, <1>2, <1>5 DEF StoreInv, BufferInv
<1>8. LogInv'
  BY <1>1 DEF LogInv
<1> QED BY <1>1, <1>6, <1>7, <1>8, StreamStepType DEF StoreInv

LEMMA StoreStep == StoreInv /\ [Next]_vars => StoreInv'
<1>1. ASSUME StoreInv, CheckStep
      PROVE  StoreInv'
  <2>1. UNCHANGED <<log, stream, seen, buffer>>
    BY <1>1, CheckStepFrame DEF watching
  <2>2. TypeOK'
    BY <1>1, CheckStepTypeOK DEF StoreInv
  <2> QED BY <1>1, <2>1, <2>2 DEF StoreInv, SeenInv, BufferInv, LogInv
<1>2. ASSUME StoreInv, UNCHANGED vars
      PROVE  StoreInv'
  <2>1. UNCHANGED <<log, stream, seen, buffer>>
    BY <1>2 DEF vars, watching
  <2>2. TypeOK'
    BY <1>2, TypeStep DEF StoreInv
  <2> QED BY <1>2, <2>1, <2>2 DEF StoreInv, SeenInv, BufferInv, LogInv
<1> QED BY <1>1, <1>2, StepCases, ChangeStore, StreamStepStore

(* LightweightStore: on every schedule of events, relists, changes and     *)
(* rebuilds, what readers of a store see is its kind at one moment.        *)
THEOREM WatchStores == Spec => []StoreInv
BY StoreInit, StoreStep, PTL DEF Spec

-----------------------------------------------------------------------------
(* What a step of a driver does to its store is a refresh of Mirror's view,*)
(* or nothing a reader of the store sees.                                  *)
Marks == [g \in Kind |-> stream[g].shown]

LEMMA StreamStepMark ==
  ASSUME TypeOK, NEW g \in Kind, StreamStep(g)
  PROVE  /\ log' = log
         /\ stream' \in [Kind -> Stream] /\ seen' \in [Kind -> Tiers]
         /\ \A h \in Kind \ {g} : stream'[h] = stream[h] /\ seen'[h] = seen[h]
         /\ \/ stream'[g].shown = 0
            \/ stream'[g].shown >= stream[g].shown
         /\ stream'[g].shown \in 0..Len(log)
<1>0. TypeOK'
  BY StreamStepType
<1>1. /\ stream \in [Kind -> Stream] /\ seen \in [Kind -> Tiers]
      /\ stream[g] \in Stream /\ StreamOK(g) /\ Len(log) \in Nat
  BY DEF TypeOK
<1>2. log' = log
  BY DEF StreamStep, Spawn, Abort, Driver, EventInit, List, EventInitApply,
         EventInitDone, Event, ListFails, Expire
<1>3. \A h \in Kind \ {g} : stream'[h] = stream[h] /\ seen'[h] = seen[h]
  BY <1>1 DEF StreamStep, Spawn, Abort, Driver, EventInit, List, EventInitApply,
         EventInitDone, Event, ListFails, Expire, Becomes
<1>4. stream'[g].shown = 0 \/ stream'[g].shown >= stream[g].shown
  <2>1. CASE Abort(g)
    BY <1>1, <2>1 DEF Abort, Off
  <2>2. CASE Spawn(g)
    BY <1>1, <2>2 DEF Spawn, Becomes
  <2>3. CASE EventInitDone(g)
    BY <1>1, <2>3 DEF EventInitDone, Becomes, StreamOK, Stream
  <2>4. CASE Event(g)
    BY <1>1, <2>4 DEF Event, Becomes, Stream
  <2>5. CASE EventInit(g) \/ List(g) \/ ListFails(g) \/ Expire(g)
    BY <1>1, <2>5 DEF EventInit, List, ListFails, Expire, Becomes, Stream
  <2>6. CASE EventInitApply(g)
    BY <1>1, <2>6 DEF EventInitApply, Becomes, Stream
  <2> QED BY <2>1, <2>2, <2>3, <2>4, <2>5, <2>6 DEF StreamStep, Driver
<1>5. stream'[g].shown \in 0..Len(log)
  <2>1. stream'[g] \in Stream /\ StreamOK(g)'
    BY <1>0 DEF TypeOK
  <2> QED BY <1>1, <1>2, <2>1 DEF StreamOK, Stream
<1> QED BY <1>0, <1>2, <1>3, <1>4, <1>5 DEF TypeOK

LEMMA MirrorInit == Init => Mirror!Init
<1> SUFFICES ASSUME Init
             PROVE  Mirror!Init
  OBVIOUS
<1>1. Marks = [g \in Kind |-> 0]
  BY DEF Init, Marks, Off
<1>2. seen = [g \in Kind |-> Mirror!Shown(g, log, Marks[g])]
  BY <1>1 DEF Init, Mirror!Shown, BlankOf
<1> QED BY <1>1, <1>2 DEF Init, Mirror!Init, Marks

LEMMA MirrorChange ==
  ASSUME TypeOK, NEW o \in Object, NEW b \in Body \cup {Gone}, Change(o, b)
  PROVE  Mirror!Evolve
<1>1. Now \in Cluster
  BY NowType DEF TypeOK
<1>2. [Now EXCEPT ![o] = b] \in Cluster
  BY <1>1 DEF Cluster
<1> QED BY <1>2 DEF Change, Mirror!Evolve, watching

LEMMA MirrorRefresh ==
  ASSUME StoreInv, StoreInv', NEW g \in Kind, StreamStep(g)
  PROVE  Mirror!Refresh(g) \/ UNCHANGED <<log, Marks, seen>>
<1> DEFINE m == stream'[g].shown
<1>1. /\ log' = log
      /\ stream' \in [Kind -> Stream] /\ seen' \in [Kind -> Tiers]
      /\ \A h \in Kind \ {g} : stream'[h] = stream[h] /\ seen'[h] = seen[h]
      /\ m = 0 \/ m >= stream[g].shown
      /\ m \in 0..Len(log)
  BY StreamStepMark DEF StoreInv
<1>2. /\ stream \in [Kind -> Stream] /\ seen \in [Kind -> Tiers]
      /\ stream[g].shown \in Nat /\ Len(log) \in Nat
  BY DEF StoreInv, TypeOK, Stream
<1>3. /\ seen[g] = IF stream[g].shown = 0 THEN NoTiers
                   ELSE Tiered(g, log[stream[g].shown])
      /\ seen'[g] = IF m = 0 THEN NoTiers ELSE Tiered(g, log[m])
  BY <1>1 DEF StoreInv, SeenInv
<1>4. /\ Marks \in [Kind -> Nat] /\ Marks' \in [Kind -> Nat]
      /\ Marks[g] = stream[g].shown /\ Marks'[g] = m
      /\ \A h \in Kind \ {g} : Marks'[h] = Marks[h]
  BY <1>1, <1>2 DEF Marks, Stream
<1> HIDE DEF m
<1>5. CASE m = stream[g].shown
  <2>1. seen' = seen
    BY <1>1, <1>2, <1>3, <1>5
  <2>2. Marks' = Marks
    BY <1>4, <1>5
  <2> QED BY <1>1, <2>1, <2>2
<1>6. CASE m # stream[g].shown
  <2>1. m = 0 \/ m > Marks[g]
    BY <1>1, <1>2, <1>4, <1>6
  <2>2. Marks' = [Marks EXCEPT ![g] = m]
    BY <1>4
  <2>3. seen' = [seen EXCEPT ![g] = Mirror!Shown(g, log, m)]
    BY <1>1, <1>2, <1>3 DEF Mirror!Shown, BlankOf
  <2> QED BY <1>1, <2>1, <2>2, <2>3 DEF Mirror!Refresh, Marks
<1> QED BY <1>5, <1>6

LEMMA MirrorStep ==
  StoreInv /\ StoreInv' /\ [Next]_vars => [Mirror!Next]_<<log, Marks, seen>>
<1>1. ASSUME CheckStep \/ UNCHANGED vars
      PROVE  UNCHANGED <<log, Marks, seen>>
  <2>1. UNCHANGED <<log, watching>>
    BY <1>1, CheckStepFrame DEF vars
  <2> QED BY <2>1 DEF watching, Marks
<1> QED BY <1>1, StepCases, MirrorChange, MirrorRefresh
        DEF StoreInv, Mirror!Next

(* Whatever the cluster, the watches and the rebuilds do, each store shows *)
(* a moment of the cluster, and never an older one than before.            *)
THEOREM WatchImplementsMirror == Spec => ImplementsMirror
<1>1. Init => Mirror!Init
  BY MirrorInit
<1>2. StoreInv /\ StoreInv' /\ [Next]_vars => [Mirror!Next]_<<log, Marks, seen>>
  BY MirrorStep
<1> QED BY <1>1, <1>2, WatchStores, PTL
        DEF Spec, ImplementsMirror, Mirror!Spec, Marks

-----------------------------------------------------------------------------
(* The inductive form of CheckInv: what a check has decided of an object of*)
(* a kind it has read is justified already, and what it has put off to a   *)
(* list it has not decided.                                                *)
Justified(g) ==
  \A o \in Wanted(g) :
    \/ o \in check.list /\ o \notin check.drifts
    \/ o \in check.drifts /\ Deviated(o, check.since[g])
    \/ o \notin check.drifts /\ Held(o, check.since[g], Declared[o])

Unread(g) ==
  /\ check.since[g] = 0
  /\ check.drifts \cap Of(g) = {} /\ check.list \cap Of(g) = {}

CheckKind(g) ==
  /\ check.since[g] <= Len(log)
  /\ g \in check.cache => Unread(g)
  /\ check.since[g] > 0 /\ g \notin check.lost => Justified(g)

CheckIInv == \A g \in Kind : CheckKind(g)

LEMMA CheckIInvImplies == TypeOK /\ CheckIInv => CheckInv
BY DEF CheckIInv, CheckKind, Justified, CheckInv, Checked

LEMMA CheckIInvInit == Init => CheckIInv
BY DEF Init, CheckIInv, CheckKind, Unread, Idle

(* A change takes nothing back of what was found in the past.              *)
LEMMA CheckIInvChange ==
  ASSUME TypeOK, CheckIInv, NEW o \in Object, NEW b \in Body \cup {Gone}, Change(o, b)
  PROVE  CheckIInv'
<1>1. /\ Len(log') = Len(log) + 1 /\ Len(log) \in Nat
      /\ \A n \in 1..Len(log) : log'[n] = log[n]
      /\ check' = check
  <2>1. Len(log) \in Nat
    BY DEF TypeOK
  <2> QED BY <2>1, ChangeLog
<1>2. SUFFICES ASSUME NEW g \in Kind
               PROVE  CheckKind(g)'
  BY DEF CheckIInv
<1>3. CheckKind(g) /\ check.since[g] \in Nat
  BY DEF CheckIInv, TypeOK, Check
<1>4. ASSUME check.since[g] > 0, NEW x
      PROVE  /\ Deviated(x, check.since[g]) => Deviated(x, check.since[g])'
             /\ \A d : Held(x, check.since[g], d) => Held(x, check.since[g], d)'
  <2>1. \A n \in check.since[g]..Len(log) :
          n \in check.since[g]'..Len(log') /\ log'[n] = log[n]
    BY <1>1, <1>3, <1>4
  <2> QED BY <1>1, <2>1 DEF Deviated, Held
<1>5. check.since[g] > 0 /\ Justified(g) => Justified(g)'
  BY <1>1, <1>4 DEF Justified
<1> QED BY <1>1, <1>3, <1>5 DEF CheckKind, Unread

(* A read of the store decides what the store shows of every small object. *)
LEMMA ReadCacheKind ==
  ASSUME StoreInv, CheckIInv, NEW g \in Kind, ReadCache(g)
  PROVE  CheckKind(g)'
<1> DEFINE n == stream[g].shown
           late == {o \in Wanted(g) : TierOf(g, o) = "large"}
           bad == {o \in Wanted(g) :
                     \/ TierOf(g, o) = "absent"
                     \/ TierOf(g, o) = "small" /\ seen[g].small[o] # Declared[o]}
<1>1. /\ check \in Check /\ n \in Nat /\ n <= Len(log) /\ Len(log) \in Nat
      /\ log \in Seq(Cluster)
  BY DEF StoreInv, TypeOK, Stream, StreamOK
<1>2. /\ check'.cache = check.cache \ {g} /\ check'.list = check.list \cup late
      /\ check'.drifts = check.drifts \cup bad /\ check'.lost = check.lost
      /\ check'.since = [check.since EXCEPT ![g] = n]
      /\ log' = log
  BY <1>1 DEF ReadCache, Check
<1>3. check'.since[g] = n
  BY <1>1, <1>2 DEF Check
<1>4. Unread(g)
  BY DEF CheckIInv, CheckKind, ReadCache
<1>5. ASSUME n > 0, NEW o \in Wanted(g)
      PROVE  \/ o \in check'.list /\ o \notin check'.drifts
             \/ o \in check'.drifts /\ Deviated(o, n)
             \/ o \notin check'.drifts /\ Held(o, n, Declared[o])
  <2>1. seen[g] = Tiered(g, log[n]) /\ log[n] \in Cluster
    BY <1>1, <1>5 DEF StoreInv, SeenInv
  <2>2. o \in Of(g) /\ o \in Object /\ Declared[o] # Gone
    BY DEF Wanted, Of
  <2>3. n \in n..Len(log)
    BY <1>1
  <2>4. o \notin check.drifts
    BY <1>4, <2>2 DEF Unread
  <2>5. seen[g].small[o] = IF log[n][o] \notin Heavy THEN log[n][o] ELSE Gone
    BY <2>1, <2>2 DEF Tiered
  <2>6. o \in seen[g].large <=> log[n][o] \in Heavy
    BY <2>1, <2>2 DEF Tiered
  <2>7. CASE TierOf(g, o) = "large"
    BY <1>2, <2>4, <2>7
  <2>8. CASE TierOf(g, o) = "absent"
    <3>1. log[n][o] = Gone
      BY <2>5, <2>6, <2>8 DEF TierOf
    <3> QED BY <1>2, <2>2, <2>3, <2>8, <3>1 DEF Deviated
  <2>9. CASE TierOf(g, o) = "small"
    <3>1. seen[g].small[o] = log[n][o]
      BY <2>5, <2>9 DEF TierOf
    <3> QED BY <1>2, <2>3, <2>4, <2>9, <3>1 DEF Deviated, Held
  <2> QED BY <2>7, <2>8, <2>9 DEF TierOf
<1>6. n > 0 => Justified(g)'
  <2>1. \A o : Deviated(o, n)' = Deviated(o, n)
    BY <1>2 DEF Deviated, n, ReadCache, watching
  <2>2. \A o : Held(o, n, Declared[o])' = Held(o, n, Declared[o])
    BY <1>2 DEF Held, n, ReadCache, watching
  <2>3. n' = n
    BY DEF ReadCache, watching
  <2> HIDE DEF n
  <2> QED BY <1>2, <1>3, <1>5 DEF Justified, Deviated, Held
<1> QED BY <1>1, <1>2, <1>3, <1>6 DEF CheckKind

(* Steps of a check concern one kind, but for its beginning and its end.   *)
LEMMA OtherKinds ==
  ASSUME TypeOK, CheckIInv, NEW g \in Kind, NEW h \in Kind \ {g},
         ReadCache(g) \/ ReadList(g) \/ ReadListFails(g)
  PROVE  CheckKind(h)'
<1>1. /\ check \in Check /\ log' = log
  BY DEF TypeOK, ReadCache, ReadList, ReadListFails
<1>2. CheckKind(h)
  BY DEF CheckIInv
<1>3. Of(g) \cap Of(h) = {} /\ Wanted(h) \subseteq Of(h) /\ Wanted(g) \subseteq Of(g)
  BY DEF Of, Wanted
<1>4. /\ check'.since[h] = check.since[h]
      /\ h \in check'.cache <=> h \in check.cache
      /\ h \in check'.lost <=> h \in check.lost
      /\ \A o \in Of(h) : (o \in check'.list <=> o \in check.list)
                        /\ (o \in check'.drifts <=> o \in check.drifts)
  <2>1. CASE ReadCache(g)
    BY <1>1, <1>3, <2>1 DEF ReadCache, Check
  <2>2. CASE ReadList(g)
    BY <1>1, <1>3, <2>2 DEF ReadList, Check, Deferred
  <2>3. CASE ReadListFails(g)
    BY <1>1, <1>3, <2>3 DEF ReadListFails, Check
  <2> QED BY <2>1, <2>2, <2>3
<1>5. Unread(h) => Unread(h)'
  BY <1>4 DEF Unread
<1>6. Justified(h) => Justified(h)'
  BY <1>1, <1>3, <1>4 DEF Justified, Deviated, Held
<1> QED BY <1>1, <1>2, <1>4, <1>5, <1>6 DEF CheckKind

(* A list is read after the store, and shows a moment not older.           *)
LEMMA ReadListKind ==
  ASSUME TypeOK, CheckIInv, NEW g \in Kind, ReadList(g) \/ ReadListFails(g)
  PROVE  CheckKind(g)'
<1>1. /\ check \in Check /\ log' = log /\ Len(log) \in Nat
      /\ CheckKind(g) /\ g \notin check.cache
      /\ check'.since = check.since /\ check'.cache = check.cache
  <2>1. check \in Check /\ Len(log) \in Nat /\ CheckKind(g)
    BY DEF TypeOK, CheckIInv
  <2>2. log' = log /\ check.cache = {}
    BY DEF ReadList, ReadListFails
  <2>3. check'.since = check.since /\ check'.cache = check.cache
    BY <2>1 DEF ReadList, ReadListFails, Check
  <2> QED BY <2>1, <2>2, <2>3
<1>2. check.since[g] \in Nat /\ check.since[g] <= Len(log)
  BY <1>1 DEF Check, CheckKind
<1>3. CASE ReadListFails(g)
  <2>1. g \in check'.lost
    BY <1>1, <1>3 DEF ReadListFails, Check
  <2> QED BY <1>1, <2>1 DEF CheckKind
<1>4. CASE ReadList(g)
  <2> DEFINE n == check.since[g]
  <2>1. /\ check'.list = check.list \ Of(g) /\ check'.lost = check.lost
        /\ check'.drifts = check.drifts \cup
             {o \in Deferred(g) : Now[o] # Declared[o]}
    BY <1>1, <1>4 DEF ReadList, Check
  <2>2. Len(log) \in n..Len(log)
    BY <1>1, <1>2
  <2>3. ASSUME Justified(g), NEW o \in Wanted(g)
        PROVE  \/ o \in check'.drifts /\ Deviated(o, n)
               \/ o \notin check'.drifts /\ Held(o, n, Declared[o])
    <3>1. o \in Of(g)
      BY DEF Wanted
    <3>2. CASE o \in check.list /\ o \notin check.drifts
      <4>1. o \in check'.drifts <=> Now[o] # Declared[o]
        BY <2>1, <3>1, <3>2 DEF Deferred
      <4> QED BY <2>2, <4>1 DEF Now, Deviated, Held
    <3>3. CASE o \in check.drifts /\ Deviated(o, n)
      BY <2>1, <3>3
    <3>4. CASE o \notin check.drifts /\ Held(o, n, Declared[o])
      <4>1. CASE o \in check.list
        BY <3>2, <3>4, <4>1
      <4>2. CASE o \notin check.list
        BY <2>1, <3>4, <4>2 DEF Deferred
      <4> QED BY <4>1, <4>2
    <3> QED BY <2>3, <3>2, <3>3, <3>4 DEF Justified
  <2>4. Justified(g) => Justified(g)'
    <3>1. check'.since[g] = n
      BY <1>1
    <3> HIDE DEF n
    <3> QED BY <1>1, <2>3, <3>1 DEF Justified, Deviated, Held
  <2> QED BY <1>1, <2>1, <2>4 DEF CheckKind
<1> QED BY <1>3, <1>4

LEMMA CheckIInvStep == StoreInv /\ CheckIInv /\ [Next]_vars => CheckIInv'
<1> SUFFICES ASSUME StoreInv, CheckIInv, [Next]_vars
             PROVE  CheckIInv'
  OBVIOUS
<1>0. TypeOK
  BY DEF StoreInv
<1>1. ASSUME NEW g \in Kind, ReadCache(g)
      PROVE  CheckIInv'
  BY <1>0, <1>1, ReadCacheKind, OtherKinds DEF CheckIInv
<1>2. ASSUME NEW g \in Kind, ReadList(g) \/ ReadListFails(g)
      PROVE  CheckIInv'
  BY <1>0, <1>2, ReadListKind, OtherKinds DEF CheckIInv
<1>3. CASE BeginCheck
  <2>1. check' = [running |-> TRUE, cache |-> {g \in Kind : Wanted(g) # {}},
                  list |-> {}, drifts |-> {},
                  since |-> [g \in Kind |-> 0], lost |-> {}]
    BY <1>3 DEF BeginCheck, Idle
  <2>2. log' = log /\ Len(log) \in Nat
    BY <1>0, <1>3 DEF BeginCheck, TypeOK
  <2> QED BY <2>1, <2>2 DEF CheckIInv, CheckKind, Unread
<1>4. CASE EndCheck
  <2>1. log' = log /\ Len(log) \in Nat
    BY <1>0, <1>4 DEF EndCheck, TypeOK
  <2> QED BY <1>4, <2>1 DEF EndCheck, Idle, CheckIInv, CheckKind, Unread
<1>5. ASSUME NEW g \in Kind, StreamStep(g)
      PROVE  CheckIInv'
  <2>1. log' = log /\ check' = check
    BY <1>5 DEF StreamStep, Spawn, Abort, Driver, EventInit, List, EventInitApply,
                EventInitDone, Event, ListFails, Expire
  <2> QED BY <2>1 DEF CheckIInv, CheckKind, Unread, Justified, Deviated, Held
<1>6. CASE UNCHANGED vars
  BY <1>6 DEF vars, CheckIInv, CheckKind, Unread, Justified, Deviated, Held
<1> QED BY <1>0, <1>1, <1>2, <1>3, <1>4, <1>5, <1>6, StepCases, CheckIInvChange
        DEF CheckStep

(* detect_from_lw, on every schedule of events, changes and failing lists: *)
(* a drift it reports was there, and what it passes over was in sync,      *)
(* unless the list of its kind failed.                                     *)
THEOREM WatchChecks == Spec => []CheckInv
<1>1. Init => CheckIInv
  BY CheckIInvInit
<1>2. StoreInv /\ CheckIInv /\ [Next]_vars => CheckIInv'
  BY CheckIInvStep
<1>3. StoreInv /\ CheckIInv => CheckInv
  BY CheckIInvImplies DEF StoreInv
<1> QED BY <1>1, <1>2, <1>3, WatchStores, PTL DEF Spec
=============================================================================
