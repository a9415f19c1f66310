-------------------------------- MODULE Watch -------------------------------
(***************************************************************************)
(* The watch drivers and the LightweightStore of watch.rs, and the cache   *)
(* mode of drift.rs that reads it, against a cluster that changes all the  *)
(* time. The kube-rs watcher and the API server behind it are external:    *)
(* `log` is the API server's history of the managed objects, a list is     *)
(* taken from its end, a watch delivers it change by change, and may be    *)
(* told at any time that it has to list again.                             *)
(***************************************************************************)
EXTENDS Integers, Sequences, FiniteSets

CONSTANTS
  Kind,        \* the (group, version, kind)s ever declared
  Object,      \* managed objects
  KindOf,      \* KindOf[o]: the kind of o
  Body,        \* what an object may hold
  Heavy,       \* the bodies larger than cache_max_object_bytes
  Gone,        \* no such object, or not one with the managed-by label
  Declared,    \* Declared[o]: what Git declares of o, Gone for nothing
  Faults,      \* what may go wrong: "list", "expire"
  MaxLog       \* bound on the history

ASSUME WatchConstants ==
  /\ KindOf \in [Object -> Kind]
  /\ Heavy \subseteq Body
  /\ Gone \notin Body
  /\ Declared \in [Object -> Body \cup {Gone}]
  /\ Faults \subseteq {"list", "expire"}
  /\ MaxLog \in Nat

Cluster == [Object -> Body \cup {Gone}]
Of(g) == {o \in Object : KindOf[o] = g}
Present(g, c) == {o \in Of(g) : c[o] # Gone}

(* The two tiers of a store: bodies of small objects, names of large ones. *)
Tiers == [small : [Object -> Body \cup {Gone}], large : SUBSET Object]
NoTiers == [small |-> [o \in Object |-> Gone], large |-> {}]

VARIABLES
  log,      \* the cluster states so far, the last one current
  stream,   \* stream[g]: what the watcher of g is doing
  seen,     \* seen[g]: the tiers readers of the store of g see
  buffer,   \* buffer[g]: the tiers a relist fills, empty outside of one
  check     \* the drift check in flight

watching == <<stream, seen, buffer>>
vars == <<log, watching, check>>

(* "off": no driver. "empty": about to list. "init": Init was delivered.   *)
(* "page": the listing of `listed` is being delivered, `todo` is left of   *)
(* it. "watch": watching. In every phase, `shown` is the point of the log  *)
(* that the last swap or event has brought the store to.                   *)
Phase == {"off", "empty", "init", "page", "watch"}
Off == [phase |-> "off", shown |-> 0, listed |-> 0, todo |-> {}]

Becomes(g, phase, shown, listed, todo) ==
  stream' = [stream EXCEPT ![g] = [phase |-> phase, shown |-> shown,
                                   listed |-> listed, todo |-> todo]]

(* detect_from_lw first reads the stores, kind by kind, then lists the     *)
(* kinds with an object whose body is not cached. `cache` and `list` are   *)
(* what it has yet to read, `drifts` what it has found. `since` and `lost` *)
(* are for stating properties: the point of the log each store showed when *)
(* it was read, and the kinds whose list failed.                           *)
Idle == [running |-> FALSE, cache |-> {}, list |-> {}, drifts |-> {},
         since |-> [g \in Kind |-> 0], lost |-> {}]

Stream == [phase : Phase, shown : Nat, listed : Nat, todo : SUBSET Object]
Check == [running : BOOLEAN, cache : SUBSET Kind, list : SUBSET Object,
          drifts : SUBSET Object, since : [Kind -> Nat], lost : SUBSET Kind]

(* Positions are in the log, and a relist has a listing to deliver.        *)
StreamOK(g) ==
  /\ stream[g].shown <= Len(log) /\ stream[g].listed <= Len(log)
  /\ stream[g].phase = "page" =>
       /\ stream[g].listed > 0 /\ stream[g].shown <= stream[g].listed
       /\ stream[g].todo \subseteq Present(g, log[stream[g].listed])
  /\ stream[g].phase = "watch" => stream[g].shown > 0
  /\ stream[g].phase = "off" => stream[g].shown = 0

TypeOK ==
  /\ log \in Seq(Cluster) /\ Len(log) > 0
  /\ stream \in [Kind -> Stream]
  /\ seen \in [Kind -> Tiers]
  /\ buffer \in [Kind -> Tiers]
  /\ check \in Check
  /\ \A g \in Kind : StreamOK(g)

Init ==
  /\ log \in {<<c>> : c \in Cluster}
  /\ stream = [g \in Kind |-> Off]
  /\ seen = [g \in Kind |-> NoTiers]
  /\ buffer = [g \in Kind |-> NoTiers]
  /\ check = Idle

Now == log[Len(log)]
Wanted(g) == {o \in Of(g) : Declared[o] # Gone}

-----------------------------------------------------------------------------
(* An object that grows past the limit stays in the small tier.            *)
Put_KeepsSmall(t, o, b) ==
  IF b \in Heavy THEN [t EXCEPT !.large = @ \cup {o}]
  ELSE [small |-> [t.small EXCEPT ![o] = b], large |-> t.large \ {o}]

(* apply_event: an object goes to the tier its size calls for and leaves   *)
(* the other one.                                                          *)
Put(t, o, b) ==
  IF b \in Heavy
  THEN [small |-> [t.small EXCEPT ![o] = Gone], large |-> t.large \cup {o}]
  ELSE [small |-> [t.small EXCEPT ![o] = b], large |-> t.large \ {o}]

(* A delete event is taken for one of a large object only.                 *)
Drop_LargeOnly(t, o) == [t EXCEPT !.large = @ \ {o}]

Drop(t, o) ==
  [small |-> [t.small EXCEPT ![o] = Gone], large |-> t.large \ {o}]

TierOf(g, o) == IF seen[g].small[o] # Gone THEN "small"
                ELSE IF o \in seen[g].large THEN "large"
                ELSE "absent"

-----------------------------------------------------------------------------
(* Faulty variants of what follows.                                        *)
(* InitDone adds to the old contents and drops nothing.                    *)
EventInitDone_Merges(g) ==
  /\ stream[g].phase = "page" /\ stream[g].todo = {}
  /\ Becomes(g, "watch", stream[g].listed, 0, {})
  /\ seen' = [seen EXCEPT ![g] =
       [small |-> [o \in Object |-> IF buffer[g].small[o] # Gone
                                    THEN buffer[g].small[o] ELSE @.small[o]],
        large |-> @.large \cup buffer[g].large]]
  /\ buffer' = [buffer EXCEPT ![g] = NoTiers]
  /\ UNCHANGED <<log, check>>

(* A large object counts as in sync when it exists.                        *)
ReadCache_TrustsLarge(g) ==
  /\ g \in check.cache
  /\ check' = [check EXCEPT
       !.cache = @ \ {g},
       !.drifts = @ \cup {o \in Wanted(g) :
                            \/ TierOf(g, o) = "absent"
                            \/ TierOf(g, o) = "small"
                               /\ seen[g].small[o] # Declared[o]},
       !.since = [@ EXCEPT ![g] = stream[g].shown]]
  /\ UNCHANGED <<log, watching>>

-----------------------------------------------------------------------------
(* Cluster users, other controllers and passes write, create and delete    *)
(* objects and labels. A write that changes nothing is no event.           *)
Change(o, b) ==
  /\ Len(log) < MaxLog
  /\ b # Now[o]
  /\ log' = Append(log, [Now EXCEPT ![o] = b])
  /\ UNCHANGED <<watching, check>>

(* rebuild: a kind that entered Git gets a driver and an empty store, one  *)
(* that left it loses both. Kinds whose discovery fails are left for the    *)
(* next rebuild.                                                           *)
Spawn(g) ==
  /\ stream[g].phase = "off"
  /\ Becomes(g, "empty", 0, 0, {})
  /\ UNCHANGED <<log, seen, buffer, check>>

Abort(g) ==
  /\ stream[g].phase # "off"
  /\ stream' = [stream EXCEPT ![g] = Off]
  /\ seen' = [seen EXCEPT ![g] = NoTiers]
  /\ buffer' = [buffer EXCEPT ![g] = NoTiers]
  /\ UNCHANGED <<log, check>>

-----------------------------------------------------------------------------
(* A relist of the watcher, and what apply_event does with it.             *)
EventInit(g) ==
  /\ stream[g].phase = "empty"
  /\ Becomes(g, "init", stream[g].shown, 0, {})
  /\ buffer' = [buffer EXCEPT ![g] = NoTiers]
  /\ UNCHANGED <<log, seen, check>>

List(g) ==
  /\ stream[g].phase = "init"
  /\ Becomes(g, "page", stream[g].shown, Len(log), Present(g, Now))
  /\ UNCHANGED <<log, seen, buffer, check>>

(* A request for the list, or for its next page, fails: all over again.    *)
ListFails(g) ==
  /\ "list" \in Faults
  /\ \/ stream[g].phase = "init"
     \/ stream[g].phase = "page" /\ stream[g].todo # {}
  /\ Becomes(g, "empty", stream[g].shown, 0, {})
  /\ UNCHANGED <<log, seen, buffer, check>>

EventInitApply(g) == \E o \in stream[g].todo :
  /\ stream[g].phase = "page"
  /\ Becomes(g, "page", stream[g].shown, stream[g].listed, stream[g].todo \ {o})
  /\ buffer' = [buffer EXCEPT ![g] = Put(@, o, log[stream[g].listed][o])]
  /\ UNCHANGED <<log, seen, check>>

EventInitDone(g) ==
  /\ stream[g].phase = "page" /\ stream[g].todo = {}
  /\ Becomes(g, "watch", stream[g].listed, 0, {})
  /\ seen' = [seen EXCEPT ![g] = buffer[g]]
  /\ buffer' = [buffer EXCEPT ![g] = NoTiers]
  /\ UNCHANGED <<log, check>>

(* The next change of the history, if it is one of this kind.              *)
Deliver(t, g, n) ==
  IF \E o \in Of(g) : log[n + 1][o] # log[n][o]
  THEN LET o == CHOOSE x \in Of(g) : log[n + 1][x] # log[n][x]
       IN  IF log[n + 1][o] = Gone THEN Drop(t, o) ELSE Put(t, o, log[n + 1][o])
  ELSE t

Event(g) ==
  /\ stream[g].phase = "watch" /\ stream[g].shown < Len(log)
  /\ Becomes(g, "watch", stream[g].shown + 1, 0, {})
  /\ seen' = [seen EXCEPT ![g] = Deliver(@, g, stream[g].shown)]
  /\ UNCHANGED <<log, buffer, check>>

(* The watch has fallen behind what the API server remembers (410 Gone).   *)
Expire(g) ==
  /\ "expire" \in Faults
  /\ stream[g].phase = "watch"
  /\ Becomes(g, "empty", stream[g].shown, 0, {})
  /\ UNCHANGED <<log, seen, buffer, check>>

-----------------------------------------------------------------------------
(* The cache-mode drift check.                                             *)
BeginCheck ==
  /\ ~check.running
  /\ check' = [Idle EXCEPT !.running = TRUE,
                           !.cache = {g \in Kind : Wanted(g) # {}}]
  /\ UNCHANGED <<log, watching>>

(* drift_from_cache: what a small object holds is compared, what a large   *)
(* one holds is left to a list, and any other is missing: of a kind without*)
(* a store (the watch of which is not built yet), everything is.           *)
ReadCache(g) ==
  /\ g \in check.cache
  /\ check' = [check EXCEPT
       !.cache = @ \ {g},
       !.list = @ \cup {o \in Wanted(g) : TierOf(g, o) = "large"},
       !.drifts = @ \cup {o \in Wanted(g) :
                            \/ TierOf(g, o) = "absent"
                            \/ TierOf(g, o) = "small"
                               /\ seen[g].small[o] # Declared[o]},
       !.since = [@ EXCEPT ![g] = stream[g].shown]]
  /\ UNCHANGED <<log, watching>>

(* The List fallback of a kind with large objects.                         *)
Deferred(g) == check.list \cap Of(g)

ReadList(g) ==
  /\ check.cache = {} /\ Deferred(g) # {}
  /\ check' = [check EXCEPT
       !.list = @ \ Of(g),
       !.drifts = @ \cup {o \in Deferred(g) : Now[o] # Declared[o]}]
  /\ UNCHANGED <<log, watching>>

(* A failed list is logged, and its objects are passed over.               *)
ReadListFails(g) ==
  /\ "list" \in Faults
  /\ check.cache = {} /\ Deferred(g) # {}
  /\ check' = [check EXCEPT !.list = @ \ Of(g), !.lost = @ \cup {g}]
  /\ UNCHANGED <<log, watching>>

Checked == check.running /\ check.cache = {} /\ check.list = {}

EndCheck ==
  /\ Checked
  /\ check' = Idle
  /\ UNCHANGED <<log, watching>>

Driver(g) == \/ EventInit(g) \/ List(g) \/ EventInitApply(g) \/ EventInitDone(g)
             \/ Event(g)

Next ==
  \/ \E o \in Object, b \in Body \cup {Gone} : Change(o, b)
  \/ \E g \in Kind : \/ Spawn(g) \/ Abort(g)
                     \/ Driver(g) \/ ListFails(g) \/ Expire(g)
                     \/ ReadCache(g) \/ ReadList(g) \/ ReadListFails(g)
  \/ BeginCheck \/ EndCheck

Spec == Init /\ [][Next]_vars

(* A driver is a task of its own, and the API server answers it.           *)
FairSpec == Spec /\ \A g \in Kind : WF_vars(Driver(g))

-----------------------------------------------------------------------------
(* What a store must hold when its kind is as in state c of the cluster.   *)
Tiered(g, c) ==
  [small |-> [o \in Object |-> IF o \in Of(g) /\ c[o] \notin Heavy
                               THEN c[o] ELSE Gone],
   large |-> {o \in Of(g) : c[o] \in Heavy}]

(* What readers see of a kind, relists included, is that kind as it was at *)
(* one moment: no object in both tiers, none of a relist half done, none a *)
(* relist should have dropped. Before the first listing they see nothing.  *)
SeenInv ==
  \A g \in Kind :
    seen[g] = IF stream[g].shown = 0 THEN NoTiers
              ELSE Tiered(g, log[stream[g].shown])

(* The buffer of a relist holds what was delivered of the one listing, and *)
(* a change of the cluster alters one object.                              *)
Without(c, todo) == [o \in Object |-> IF o \in todo THEN Gone ELSE c[o]]

BufferInv ==
  \A g \in Kind :
    /\ stream[g].phase = "init" => buffer[g] = NoTiers
    /\ stream[g].phase = "page" =>
         buffer[g] = Tiered(g, Without(log[stream[g].listed], stream[g].todo))

LogInv ==
  \A n \in 1..(Len(log) - 1) : \E o \in Object : \E b \in Body \cup {Gone} :
    log[n + 1] = [log[n] EXCEPT ![o] = b]

StoreInv == TypeOK /\ SeenInv /\ BufferInv /\ LogInv

(* watch.rs promises what Mirror says: each store is an earlier moment of  *)
(* the cluster and only moves forward while its driver lives.              *)
BlankOf(g) == NoTiers
Mirror == INSTANCE Mirror
          WITH State <- Cluster, View <- Tiered, Blank <- BlankOf,
               mark <- [g \in Kind |-> stream[g].shown], view <- seen

ImplementsMirror == Mirror!Spec

(* detect_from_lw: what a check reports of a kind that was listed is true: *)
(* a drift it reports was there, and what it passes over was in sync, at   *)
(* some moment not older than what the store showed when it was read.      *)
Held(o, from, b) == \E n \in from..Len(log) : log[n][o] = b
Deviated(o, from) == \E n \in from..Len(log) : log[n][o] # Declared[o]

CheckInv ==
  Checked =>
    \A g \in Kind \ check.lost : check.since[g] > 0 =>
      \A o \in Wanted(g) :
        IF o \in check.drifts THEN Deviated(o, check.since[g])
        ELSE Held(o, check.since[g], Declared[o])

(* When neither the cluster changes nor lists fail any more, every driver  *)
(* that stays catches up.                                                  *)
UpToDate(g) == seen[g] = Tiered(g, Now)
CatchesUp ==
  <>[][\A g \in Kind : ~ListFails(g)]_vars =>
    \A g \in Kind : <>[](stream[g].phase # "off") => <>[]UpToDate(g)

=============================================================================
