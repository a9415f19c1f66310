# Lean CD in TLA+

Lean CD is a small GitOps controller for Kubernetes (Rust, `src/src/`). It polls
one Git branch, applies the manifests it finds with server-side apply, prunes
what Git no longer declares, repairs drift, and keeps all it has to remember in
one ConfigMap. This directory models it in TLA+: the modules are checked with
TLC on small instances and the theorems about them are proved with TLAPS.
`PROJECT.json` lists components, runs, mutants, findings, hazards and theorems,
and maps every definition to the source lines it stands for.

## 1. The system

### Components

| component | source | state it keeps | operations | status |
|---|---|---|---|---|
| reconcile lease | `lock.rs` | the `coordination.k8s.io` Lease; a guard in memory | acquire (get / create / replace), renew, release | modelled |
| reconcile pass | `reconcile.rs` | locals of a pass | `run_once`, `reconcile_inner`, `apply_all`, `record_error` | modelled but for dry runs and metrics |
| run loop | `reconcile.rs` `run_loop` | failure count, watch set, stop flag | poll, back off, wake on watch pokes, stop | modelled |
| prune | `prune.rs` | none | set difference, safety net, keep check, delete | modelled |
| sync state | `state.rs` | the state ConfigMap | read, write | modelled but for `sync_count`, `managed_count` |
| drift | `drift.rs` | none | List-based and cache-based check, subset comparison | modelled |
| hooks | `hooks.rs` | hook objects in the cluster | run a phase, await Jobs and Pods, delete policies | modelled |
| watch | `watch.rs` | one store per kind, driver tasks | watcher events, rebuild, pokes | modelled |
| git sync | `git_sync.rs` | a work dir with a shallow clone | clone, fetch, deepen, checkout of a branch, commit or ancestor | modelled but for credentials |
| manifests | `manifest.rs` | none | expand roots, collect files, parse, label | modelled but for YAML text and the label |
| kube access | `kube_util.rs` | discovery cache of a pass | resolve, apply, list, get, delete | one atomic, fallible request each |
| resource health | `resource_health.rs` | none | a verdict per kind, the summary | modelled but for messages |
| health probe | `health.rs` | none | classify the state | modelled |
| lifecycle | `main.rs` | stop flag | controller, sync, rollback, shutdown, abort | modelled where it reaches lease and pass |
| CLI, config, metrics, errors, version | | none that decides | | not modelled |

### How they interact

A *controller* runs passes for ever; a `leancd sync` or `leancd rollback` runs
one, in another process (a `kubectl exec` in the same Pod, or another Pod).
All share three things in the cluster: the Lease, the state ConfigMap and the
managed objects. `reconcile()` acquires the Lease, runs `reconcile_inner`,
releases the Lease; if that failed, `run_once` calls `record_error`, which reads
and writes the state *after* the Lease is released, or without ever having held
it. `reconcile_inner` reads the state, checks Git out, and takes one of three
branches: *teardown* (nothing declared, something applied), *full* (first pass,
moved head, rollback), *drift* (check, re-apply everything on any difference);
then it prunes and writes the state. At a few points it touches the Lease.
Around the apply or the prune it runs *hooks*: Jobs, Pods and plain resources,
one at a time, each awaited.

Between passes the controller's loop sleeps: the poll interval, or a back-off
after failures. *Watch drivers*, one task per kind Git declares, follow the
managed objects. In `trigger` mode they poke the loop through a `Notify`; in
`cache` mode, the default, they fill a `LightweightStore` that the next pass's
drift check reads instead of listing.

A pass ends with a report: from the objects it listed it derives drift and health
(`resource_health.rs`), and writes them, with failures and the time, to the state.
The liveness probe, `leancd health`, is another process that reads only the state.

### What is hard

* **Two processes, one lock, no fencing.** The Lease is read and replaced in
  separate requests, judged on the clock of whoever looks at it, renewed only at
  touch points, and deleted by name on release. Nothing interrupts a pass that
  has lost it.
* **Every await is a failure point.** An API call fails before or after it took
  effect; the task may be aborted (`main.rs:151`) or the Pod killed anywhere. What
  survives is the cluster and the ConfigMap.
* **State is written once, at the end**, from what Git declares, not from what
  was done. Failed applies and deletes are repaired, if at all, by later passes.
* **Prune trusts names.** The set difference compares keys of manifests with
  keys of listed objects.
* **Look, then delete.** The keep annotation is read in one request and the
  object deleted in the next.
* **The world moves meanwhile**: pushes, rollbacks, users editing objects; the
  branch, too, between two fetches of one checkout.
* **A work dir outlives its process.** It is named by a PID and lies on an
  emptyDir: what a killed git leaves there, the next process with that PID finds.
* **What was applied is not what is served.** The API server adds defaults and
  omits zero values; a status speaks of an earlier generation for a while.
* **An error has two meanings**: a path that matches nothing may have been emptied,
  to be torn down, or misspelt, which is to stop the pass.
* **Events are not the cluster.** A store lags behind; a relist arrives object by
  object, between two markers, and may break off; deletions of that time are never
  delivered. Objects change tier as they cross the size limit.
* **Hooks outlive passes.** A Job may finish, hang or be deleted at any time, a
  foreground deletion takes its time, and a crash leaves the Job running.
* **Three things end a sleep**: the timer, a poke, the stop flag; pokes come
  during passes and debounces too.

### What makes each component correct

* Lease: a lease changes hands without a release only when stale; passes of
  processes that renew in time never overlap; a crashed holder's lease is
  reclaimed; shutdown is not held up by a busy lease.
* Pass: a pass that records no failure left everything in sync; after any
  history, a quiet environment means the cluster comes to hold the head.
* Prune: nothing declared is deleted, nor anything marked keep when prune looks;
  nothing managed and undeclared stays for good.
* State: recording an error leaves the record of syncs alone (finding 3: not beside
  another process).
* Watch: a reader of a store sees its kind at one moment, which only moves
  forward; a drift check on it reports the truth about that moment or a later one;
  a quiet cluster is mirrored in the end.
* Hooks: they run in order, each after all before it passed; the main work awaits
  them; what passes a hook is a run of its own (finding 4: not beside a lingering
  delete); a phase ends.
* Run loop: an edit brings about a pass; a back-off is bounded, and honoured;
  a stop ends it.
* Git sync: a finished checkout leaves the work dir at its target, whatever it found
  there; only a commit beyond the cap is given up on.
* Manifests: a pass applies and remembers what its commit declares, all or nothing.
* Drift comparison: in sync means that the live object holds what Git declares, and
  what was applied undisturbed is in sync.
* Health: Healthy means rolled out, where kinds do not share names; the summary leaves nothing out and names the
  worst; reports settle once nothing interferes.
* Probe: a controller that no longer gets through its passes does not stay fresh.

## 2. Modules

| module | what it is |
|---|---|
| `Lease` | the lock protocol of `lock.rs`, any number of processes, arbitrary schedules |
| `TimelyLease` | `Lease` under the assumption that passes renew in time; mutual exclusion and the refinement |
| `PassLock` | what the lock promises: one pass at a time |
| `LeaseProofs` | theorems about `Lease` and `TimelyLease` |
| `Pass` | the passes, their failures, `record_error`, Git, users and the cluster |
| `PassProofs` | theorems about `Pass` |
| `Watch` | the stores and drivers of cache mode, and the drift check that reads them |
| `Mirror` | what a store promises its readers: moments of the cluster, forward only |
| `WatchProofs` | theorems about `Watch`, the refinement of `Mirror` among them |
| `Hooks` | the hook engine within passes, and the Jobs and Pods it runs |
| `HooksProofs` | theorems about `Hooks` |
| `RunLoop` | the loop around the passes: back-off, pokes, debounce, stop |
| `RunLoopProofs` | theorems about the back-off |
| `Checkout` | the work dir, and one checkout after another in it |
| `CheckoutProofs` | theorems about `Checkout` and `Source` |
| `Source` | `Checkout` composed with path patterns and parsing: what a pass takes from Git |
| `Json` | JSON values, and what is assumed of those there are |
| `SpecDiff` | drift's comparison of a manifest with a live object, and the reference for it |
| `DriftProofs` | theorems about `SpecDiff`, and induction |
| `ResourceHealth` | the health checks of all kinds and their summary |
| `Report` | drift and health of objects that controllers roll out, the state, the probe |
| `ReportProofs` | theorems about `Report` |
| `ApiServer` | what an apply leaves (external): the one `MCReport` runs with |
| `MCLease`, `MCTimelyLease`, `MCPass`, `MCWatch`, `MCHooks`, `MCSource`, `MCReport` | instances for TLC; `RunLoop` has only numbers for constants and needs none |

`TimelyLease` extends `Lease` and instantiates `PassLock` with the refinement
mapping `running <- {p : InPass(p)}`. `Pass` takes the promise of `PassLock` for
granted (its passes do not overlap) except where the code does not have it:
`record_error`. `Source` extends `Checkout`; its steps are those of `Checkout` and a pass
over what they leave. `Report` extends `SpecDiff` and `ResourceHealth`, which extend
`Json`: functions of one object, used in the actions of a system.

Operators named `X_Y` are faulty variants of `X` (a dropped guard, a missing
check). No specification uses them; replacing `X` by one must violate the
property `PROJECT.json` names under "mutants".

### Lease

One process is one `holderIdentity` (`<pod>:<pid>`). The variables:

* `now`: a global clock; `Clock(p) = now + Skew[p]` is `Timestamp::now()` of p.
* `lease`: the stored object (`holderIdentity`, `leaseDurationSeconds`,
  `renewTime`) or `NoLease`.
* `current[p]`: whether the `resourceVersion` p last read is still the stored
  one. Every write and delete clears it for all (`Store`); a get sets it. A
  `replace` succeeds exactly when it is set. This stands for versions without
  counting them.
* `pc[p]`: the await p is at. `stamp[p]`: the timestamp it took; it is taken
  before the get in `try_acquire` (`lock.rs:216`) and between get and replace in
  `renew`. `deadline[p]`: end of `lock_wait_timeout`. `stop[p]`: the stop flag.

An acquire is `StartPass`, then rounds of `TryAcquire`, one of
`GetMissing/GetFresh/GetStale`, one of `Create/CreateConflict/Replace/
ReplaceConflict`, and after a busy attempt `CheckDeadline`, `Wake` or
`StopWaiting`. `AcquireFails` is any API error; `AcquireReplyLost` one whose
request took effect, so that the lease is held but no guard exists. A pass is
`RenewGet` and `RenewReplace/RenewFails` any number of times, `EndPass`,
`Release/ReleaseFails`. `Release` deletes the Lease whoever holds it, as
`lock.rs:72` does. `Crash` is process death and `abort()` alike: a dropped guard
releases nothing. A request of a dead process is not executed later.

### Pass

A *key* is a `ResourceKey`; `ObjectOf` says which object the API server finds
under it, so two keys may name one object (an omitted namespace and the default
one). `Manifests[c]` is what commit c parses to. Of an object the model keeps
what the code's decisions tell apart: the part drift compares (`spec`), the rest
of what Git declares (`meta`), the keep annotation, and the managed-by label.

One action is one await or a run of them nothing can observe in between:
`Begin` (state read, checkout, parse, choice of branch), `Detect`, `PreHooks`,
`ApplyOne` for each manifest, `PostHooks`, `PruneList`, `PruneGet` and
`PruneDelete` for each target, `WriteState`, `RecordRead`, `RecordWrite`. `mode`
is the branch taken: a teardown goes pre hooks, prune, post hooks, write; a full
apply pre hooks, apply, post hooks, prune, write; a drift check detect, then
either prune or what a full apply does. Failures: a call may fail without effect
(`ApplyFails`, `PruneSkip`, `PruneDeleteFails`, a kind outside `seen` in `Detect`
and `PruneList`) or take effect and answer with an error (`ApplyOne` noting
failure, `WriteFails`); a failed hook phase aborts (`PreHooksFail`) or is noted
(`PostHooks`). `Crash` forgets the pass.

`recorder` holds what a `record_error` in flight has read. What may go wrong in a
behaviour is its `weather`, one of the sets of `Weather`, drawn in `Init`: calls fail
("api"), hooks fail ("hook"), processes die ("crash"); users edit, unmanage, delete and
create objects ("edit"), or set and remove the keep annotation on live ones ("keep"), at
any time, between prune's get and its delete included. `keep` is the set of those who
marked an object, Git or users: server-side apply takes back Git's mark and leaves the
users'. Without "overlap" one process runs everything and the next pass waits for its
`record_error`; with it, passes of other processes go on, and `OtherFails` starts a
`record_error` for a process whose acquire was answered with an error.

`quiet` divides a behaviour: before it, Git moves and the weather's things happen at
will; after it none does. Liveness is about what follows. `touched` is read by properties
only: the objects that users touched since the pass last looked at, or wrote, them.

### Watch

`log` is the API server's history of the managed objects; its last element is the
cluster now. `stream[g]` is the kube-rs watcher of kind g: listing (`empty`,
`init`, `page`) or following the log (`watch`), with `shown`, the position its
store has been brought to. `seen[g]` are the two tiers readers see (`small`:
bodies up to `cache_max_object_bytes`; `large`: names), `buffer[g]` those a relist
fills. `EventInit`, `EventInitApply`, `EventInitDone` and `Event` are the watcher's
events with what `apply_event` does for each; `List`, `ListFails` and `Expire` are
the API server's part; `Spawn` and `Abort` are `rebuild`. A drift check
(`BeginCheck`, `ReadCache` for each kind, `ReadList` or `ReadListFails` for each
kind with large objects, `EndCheck`) is interleaved with all of that. Its fields
`since` and `lost` only remember, for the properties, how old the store read was
and which lists failed.

### Hooks

`Types`, `Listed`, `Weight` and `Name` are what the annotations of a hook parse to.
A pass is `BeginPass`, the hooks before the main work, `MainWork` (the apply, or
the prune of a teardown), the hooks after it. A hook is `StartHook` (discovery and
the delete of before-hook-creation), `ApplyHook`, rounds of `Poll` (or
`PollFails`), `CheckDeadline` and `Sleep`, and `CleanUp` (hook-succeeded or
hook-failed). Every request may fail; the two deletes may fail unnoticed.
`obj[h]` is the object of h: its status, whether it is being deleted (`dying`),
and whether it was created since the hook was started (`fresh`) and whether the delete
of that start failed (`spared`), which only the properties read. Objects live on between passes and through a `Crash`.
With the fault "linger" a foreground deletion is not over at once.

### RunLoop

`pc` is where `run_loop` is; a pass is one step that succeeds or fails and may
write managed objects. `permit` is the permit of the `Notify` (at most one,
kept until `notified()` takes it). `delay` and `slept` count the sleep in ticks.
`driver` and `touched` are one watch driver and whether it has events to
deliver; `unwoken` says that someone edited a managed object and no pass has begun
since. `Rebuild` is `WatchSet::rebuild` with the choice of the next delay.

### Checkout and Source

The remote is `tip`, any commit at any time (`Push`): a force-push is no different from
a push. The clone is its objects `have`, where history is cut off (`shallow`), `head`,
FETCH_HEAD (`fetched`) and the commit its files are of (`tree`; `NoCommit` if a kill left
them half-written). `stray` says that there may be untracked files of another
commit, `locks` which lock files of a killed git are left. `dir` is "junk" when the
directory is there without `.git`. A checkout is `Start`, then, by its target:

* the branch: `Fetch` and `Reset`, or `Clone` (after `Wipe` if something is in the
  way), then `RevParse`;
* a commit (`leancd sync --revision`): `CatFile` and `Deepen` until it is there, at
  most `Rounds` times, then `Switch` and `Hard`;
* an ancestor (`leancd rollback`): the same with `RevList`, which counts below HEAD,
  while `Named` goes down from FETCH_HEAD, as the code does.

`GitFails` is a command that fails, `Refused` one that cannot work with what it
finds, `Unresolved` a revision that is not there, `Crash` a kill at any point. What a git
command does to a shallow clone is external: `Deepen` moves every cut in the
branch's history down by `Batch` commits, `Fetch` (of depth 1) cuts at the tip anew.
`Line` is the least set that has a commit and is closed under first parents. No commit is
its own ancestor: each has a `Generation`, and a distance is a difference of those.
`seen` and `cloned` are read by properties only.

In `Source` a commit is a set of files, a file a set of documents, a document a
resource, a List or something that is passed over: the keys a pass remembers do not tell
orders or duplicates apart. `Document` is the set of the documents there are, closed under
the items of Lists, which are nested to a finite depth (`Nesting`). `expand_roots`,
`collect_yaml_files`, `parse_dir`, `parse_str` and `expand_value` are the functions of the
code, the last one a recursive function; `glob`, the glob crate's matching of a directory, is
external: a name matches that can be cut up the way the pattern says. `Reconcile` is the
rest of a pass: it remembers what it read, tears down, or fails, by `reconcile.rs:144-184`.
`AppliesTheCommit` and `Follows` compare that with `Declared`, which is written without
the parser, the scan of directories and recursion: of the YAML files some leading part of
whose directory the path matches, what is in every set of documents that has the file's
own and, with a List, its items (`Opened`).

### SpecDiff, ResourceHealth and Report

JSON values carry their types (`Json`): the constant `Json` is the set of those there are,
closed under taking parts, each nested to a finite depth. `specs_differ`, `spec_subset`
and `is_k8s_zero_value` are those of `drift.rs`; `spec_subset` is a recursive function of
two values. `Holds` is the reference, written without it: of all the nodes of a manifest,
each with its path (`Nodes`), every one that Git declares has its like at the same path of
the live object (an equal scalar, an object, an array that is no shorter), or is a zero
value the API server omits (`InPlace`).
`ResourceHealth` has one operator per kind, with the fields its check reads as the
status of an object; of generations only the order counts; of the reasons a container
may wait for, three stand for those `is_waiting_error` accepts by prefix and suffix. `assess` is the loop over all
verdicts, as a recursive function of its index.

The API server is external, and a constant of `Report`: `Serve(kind, live, git)` is what an
apply leaves. All that is assumed of it is that the manifest is held afterwards
(`BodyAssumption`). `ApiServer` is the server `MCReport` runs with: an apply merges the
manifest over what is live, moves `stringData` into `data`, fills in defaults and leaves
out zero values; TLC evaluates the assumption for it.

`Report` puts them to work. The cluster (external) rolls workloads out pod by pod:
`Roll`, `PodFails`, and `SyncStatus`, by which a controller writes the status some time
later. Other kinds take a status from a set (`Evolve`). Users `Edit` and `Delete`. A pass
is `Begin`, `List` for each resource, `Apply` for each, `Relist` if nothing was found, and
`Write`; a full one applies first, another lists first and applies if anything drifted.
`PassFails` is followed by `RecordError` or `RecordFails`; `Crash` ends it anywhere. A list
that fails shows nothing. Drift is told kind by kind (`drift.rs:126`), so `List` looks at
the resource's own object. Health is not: `assess` takes the first object of a manifest's
name and namespace in the lists of all kinds, in any order. `NameOf` says which resources
share a name (`Namesakes`), and `Write` then judges each by its own verdict, or, if an object
of its name was listed, by any that its kind's check can return of an object of another
kind, which is all but Missing (`Judgements`). The state is what a pass writes, `stale` whether it is
older than the probe allows (`Tick`), `classify_health` the probe. `rolled` and `held`
in the state, and `touched`, are for the properties: the listing the report rests on
showed everything rolled out (`Rolled`; of resources that share a name, that one of them is
there), or holding what Git declares. `Rolled` is said of
the pods and of what a status stands for (`Ready`), without the checks. Workloads are of
one replica (`KindAssumption`); no key of a spec has a dot in it, so that the lookup of
`updateStrategy.type` as one key never succeeds. `left` is the number of
mishaps (edits, deletions, pushes, failing pods, calls and passes) yet to come.

## 3. Runs

| run | question | answer |
|---|---|---|
| `lease_schedules` | can a fresh lease be stolen on any schedule, is a dead holder's reclaimed, does shutdown end? | no: `StealOnlyStale`, with its inductive invariant `LeaseInv`; yes: `StaleReclaimed`, `ShutdownTerminates` |
| `lease_timely` | do passes exclude each other if they renew in time? | yes: `MutualExclusion`, `ImplementsPassLock`, `TimelyInv` |
| `pass_reconciles` | what does prune delete, what does a clean pass mean, under all faults, with users; does the cluster come to hold the head, does anything undeclared stay? | `KeepNeverPruned`, `DeclaredNeverPruned`, `CleanMeansSynced`, with `SyncInv`; yes: `Converges`, lost state updates included; not without API failures, crashes or a second process: `OrphansPruned` |
| `pass_overlap` | does recording an error leave the record of syncs alone? | not beside another process: finding 3 |
| `pass_omitted_namespace` | and if a manifest omits its namespace? | its object is pruned: finding 1 |
| `watch_stores` | what do readers of a store see, what does a check on it say, does it catch up? | one moment, forward only: `StoreInv`, `ImplementsMirror`; the truth: `CheckInv`; in the end the last one: `CatchesUp` |
| `hooks_faults` | do hooks keep their order and hold up the main work, may an earlier run pass one, does a pass end? | `InOrder`, `WorkAwaitsHooks`, `PassEnds`, with the invariant `HookInv`; only if a delete failed or is not over: `FreshOrLeft` |
| `hooks_fresh` | is a hook with before-hook-creation passed by a fresh run only? | not while the old Job lingers: finding 4 |
| `loop_trigger` | is any edit left to the timer, any back-off out of bounds, any stop held up? | no: `EditWakes`, `LoopInv`, `StopEnds` |
| `source_checkout` | is the work dir at its target whatever was left there, is only a commit beyond the cap given up on, does a pass apply the commit, do passes follow the branch? | yes: `OnTarget` (with `TypeOK`), `GivesUpBeyondReach`, `AppliesTheCommit`, `Follows` |
| `source_teardown` | does a pattern that does not compile leave everything alone? | no: finding 2 |
| `report_settles` | is what the state says of drift and health true when it is good, is drift real, does it become good, does the probe notice passes that no longer come through? | yes: `HealthySound`, `InSyncSound`, `NoFalseAlarm`, `SummaryInv`, `SettlesHealthy`, `ProbeNotices` |

### Bounds

* `lease_schedules`: two processes (a controller and a sync), terms of one tick,
  clocks one apart, two ticks: enough for a term to expire, be taken over, and
  expire again, with every interleaving of the requests of both. The protocol is
  symmetric in everything but the durations and the stop flag, and the theorems
  have no bound. At the last tick the clock stands still and a lease stamped then
  stays fresh; the liveness properties speak of stale leases and of stopping only.
* `lease_timely`: terms of three and two ticks, clocks one apart, five ticks: a
  pass may renew and a term end twice.
* `pass_reconciles`: two keys of two kinds, one with a spec, marked keep by one commit
  only, one without; four commits, that declare both, drop one and change the other,
  empty the path, break the tree: each branch of `reconcile_inner` is entered from each
  other one. Three weathers: failures of every kind and another process; failures and
  crashes with users who edit and mark one resource; failing hooks and users, which is what
  `OrphansPruned` is claimed for. Nothing in a pass relates more than two keys. All faults
  at once are left to the theorems, which know no bounds.
* `pass_overlap`, `pass_omitted_namespace`: the same commits, without users; in the second
  a key that names an object in two ways, and no failures at all.
* `watch_stores`: one kind with two objects, each small, large or gone, and a history
  of four states: an object may change tier in the middle of a relist of both, and
  again after it. Kinds do not interact: each has its own store and driver, and a
  check reads each separately. The theorems have any number of kinds.
* `hooks_faults`: three hooks whose names, weights and phases disagree in order, a hook
  of two phases, one of no kind awaited, and each delete policy; two polls to the
  deadline, and any number of passes, with all faults, deletes that fail unnoticed
  ("delete") among them. `hooks_fresh`: the same hooks, with lingering deletions only.
* `loop_trigger`: poll interval 3, back-off 4 to 14 ticks, a factor of 3 bits where the
  code has 32 and five failures: the cap, the clamp of the exponent and the
  saturation of the count are all reached. One kind and one driver: all drivers
  share the one permit.
* `source_checkout`: a chain of three commits, one commit per deepening and two of
  them, targets the branch, its parent, its first and its last commit: one is there
  at once, one after a deepening, one beyond the cap, and forced pushes go up and down
  the chain. Histories that fork are left to the theorems. The commits differ in
  directories, in depth of Lists, and one has a file that does not parse; two paths, one
  of which two of the commits match nowhere.
* `report_settles`: one resource, of each kind that has a check in turn, beside a
  Namespace, which has none; a Secret beside a ConfigMap; and a Service beside an Ingress of
  its name. Verdicts depend on one object each, and the summary on one of every code. Two
  commits and two mishaps (one with the other workloads, whose rollouts differ in
  order from a Deployment's, and with the shared name):
  an edit during a pass that fails, a push while a rollout is under way, and so on.
  Rollouts, statuses and the clock are not counted as mishaps.
* A run that shows a violation uses the smallest of its component's instances that
  has it.

No counter is cut off silently: `MaxClock` bounds `Tick` of `Lease` and `MaxLog`
the history of `Watch`, `Mishaps` what interferes in `Report`; these are the only bounds
in guards. (`Rounds` is the code's own.) `sync_count` and the
number of passes are not in the models. `MaxFailures` stands for the `u32` the
count of failures saturates at.

### Fairness

* `Lease`: time passes (`WF(Tick)`); a live process keeps moving (`WF(Step(p))`:
  every request of kube-rs returns or times out). A pass ends (`SF(EndPass)`): it
  has finitely many touch points, so it cannot renew for ever. A controller is
  restarted (`WF(Start)`: a Deployment) and polls for ever; it is not killed or
  refused at the same point of every pass (`SF` of the steps of one takeover).
  Nothing is assumed of a `sync`: it may be started never or die always.
* `Pass`: `WF(PassStep)`: the run loop polls for ever and each call returns;
  `WF(RecordWrite)`: so does the one of `record_error`. Failures, crashes, pushes
  and edits are never fair: they need not happen.
* `Watch`: `WF(Driver(g))`: a driver is a task of its own and the API server answers
  in the end. `CatchesUp` itself supposes that lists stop failing, as a list that always
  fails shows nothing; watches may expire for ever, each after a relist.
* `Hooks`: `WF(Step)`: each await of the pass returns, a sleep included. Nothing is
  assumed of Jobs: they may never finish.
* `RunLoop`: passes end, tasks run, the debounce passes. Nothing is assumed of the
  long timer, so that what wakes the loop is the poke.
* `Source`: `WF(PassStep)`, as in `Pass`. `Follows` supposes that lock files and untracked
  files are gone: nothing in the code removes them, a new Pod does.
* `Report`: time passes (`WF(Tick)`) and the controllers of Kubernetes do their work
  (`WF(Cluster(r))`). Passes need not go on: `git_sync.rs` bounds no command.
  `SettlesHealthy` supposes that they begin and end again and again; `ProbeNotices` is
  about those that do not.

## 4. Findings

Shown by runs:

1. **A manifest without a namespace is pruned** (`prune.rs:154`): the safety net
   compares keys with and without namespace. The same mismatch makes the drift
   check report it missing (`drift.rs:332`), so it is re-applied, and deleted
   again, every pass.
2. **A misspelt path tears everything down** (`reconcile.rs:144`): `expand_roots` answers
   a pattern that matches no directory, or does not compile, with `Error::Config`, "a
   fail-fast so a typo never silently prunes every resource" (`manifest.rs:203-205`).
   The pass takes any `Error::Config` for an emptied path: with anything applied, it
   prunes all of it.
3. **Recording an error loses a sync** (`reconcile.rs:83`): `record_error` runs after the
   Lease is released, or without it, so that passes are serialized and it is not,
   against `lock.rs:19-20` "with passes serialized, the SSA `state::write` cannot lose
   updates". A state another process's pass writes between its read and its write is
   undone, `last_sha` and the applied set included. `Converges` holds all the same: a full
   apply repairs what the lost `last_sha` causes; but an object whose key the lost set
   had and no later one has is an orphan, which is why `OrphansPruned` supposes one process.
4. **A hook may pass without running** (`hooks.rs:314`), against `hooks.rs:311` "remove any
   prior instance so the hook runs fresh": the delete is foreground and not awaited, the
   apply patches the Job that is being deleted, and its old condition is read as success.
   A delete that fails is ignored, with the same end. `FreshOrLeft` says that these are
   the only two ways; a user's or the garbage collector's doings add none.

Met while modelling; the properties leave room for them, and no run is kept. On the
lock, the state and the loop:

* **A late release breaks the lock for others** (`lock.rs:72`). `release`
  deletes by name. If p's pass outlives its term, q takes over, p's release
  deletes q's lease, and r creates its own while q still runs. `lock.rs:5-8`
  promises "never two passes at once".
* **A lock duration below one second never expires** (`lock.rs:215`): it is truncated
  to 0, which `is_stale` takes for "never".
* **Cache mode wakes nobody** (`watch.rs:354`), against `watch.rs:1-4` and
  `doc/user-manual.md:611`.
* **A poke ends the back-off** (`reconcile.rs:622`), against `doc/architecture.md:446`:
  a failing pass that writes managed objects wakes itself.
* **The last deletion may wake nobody** (`watch.rs:316`): a relist of an emptied kind
  has no events. `EditWakes` leaves that to the timer.

On prune, drift and hooks:

* **A keep may come too late** (`prune.rs:174-212`): the annotation is read in one request
  and the object deleted in the next, by name and without a precondition, so a keep that
  users set in between is lost with the object. `KeepNeverPruned` excepts objects touched
  since that get, and nothing else.
* **A failed prune is forgotten** (`prune.rs:212`, `reconcile.rs:345`): with the last
  key of a kind gone from Git, the kind is never listed again. `OrphansPruned`
  supposes that no API call fails. `doc/architecture.md` states the safety net's
  limit to previously applied kinds.
* **A failed metadata change is never re-applied** (`drift.rs:353`), against
  `state.rs:52-54` "Self-healing": `Synced` compares what drift compares.
* **A fresh store says absent** (`watch.rs:204`), against `watch.rs:88` "the store is
  past `InitDone`": until the first `InitDone` of a new driver a check reports the
  whole kind missing. `CheckInv` leaves such stores out.
* **A failed fallback list hides drift** (`drift.rs:304`), where the List-based check
  reports it (`drift.rs:114`). `CheckInv` leaves such kinds out.
* **A hook without before-hook-creation keeps failing** (`hooks.rs:187`): a failed Job left
  by one pass is found failed by the next, which ran nothing.
* **A failed PostSync hook is forgotten** (`reconcile.rs:343`): the next clean pass clears the
  error; the hook is not run again.

On Git and manifests:

* **A lock file of a killed git stays.** With `.git/index.lock` or `.git/shallow.lock` every
  later checkout in that directory fails, until the Pod is replaced.
* **A reset that failed half-way leaves untracked files** (`git_sync.rs:88`); no later reset
  removes them, and `parse_dir` reads them.
* **A rollback may fail in a work dir that is used again** (`git_sync.rs:205`): `ensure_depth`
  counts below HEAD, the target is `FETCH_HEAD~n`, and a fetch of depth 1 has cut that
  history off; so does a branch that moves between two fetches.
* **The last deepening is not looked at** (`git_sync.rs:176`): the cap is 19 batches, not 20.
* **A branch that changes lines during a search wastes deepenings** (`git_sync.rs:182`): on the
  new line the clone may be cut off anywhere by a checkout of the past, and the rounds
  spent on the old one are gone, so that a commit within the cap of every tip seen is
  given up on. `GivesUpBeyondReach` supposes one line.
* **Overlapping roots** parse a file several times: the count of resources is too
  high, and hooks in it run once for each.
* **A document without a name is passed over** in silence, and what it declared before
  is pruned.
* **`*` matches `.git`**: with such a pattern an emptied repository is no error.

On health and reports:

* **`updateStrategy.type` is looked up as one key** (`resource_health.rs:259`, `:339`), which no
  object has: the branches for OnDelete and for partitions are never taken, against the
  comment above them; such a workload can be Progressing for ever.
* **Kinds that share a name share their health** (`resource_health.rs:580`, `drift.rs:336-339`):
  `assess` looks a manifest up by name and namespace in the lists of all kinds, so that a
  Deployment with a Service of its name may be judged by the Service's object, which lacks
  every field its check reads, and be Healthy before it is rolled out or Progressing for
  ever. Drift is grouped by kind and not affected. `HealthySound` and `SettlesHealthy` claim
  a rollout only where names are not shared.
* **A drift pass reports the health of before** its applies (`reconcile.rs:324`).
* **A HorizontalPodAutoscaler is Healthy by its first condition**: AbleToScale, listed first,
  hides one further on that says it cannot read its metrics.
* **An explicit null on a field the server fills drifts for ever**; a change of `stringData`
  alone is never seen (`specs_differ` strips it).

## 5. Proofs

All proofs are for any constants satisfying the modules' assumptions.

**`LeaseProofs`.** `LeaseStealOnlyStale` says that on any schedule the lease
changes holder without a deletion only when it is stale on the taker's clock.
That is not inductive: a replace does not look at the lease, it only presents a
version. `LeaseInv` adds why the version suffices: whoever is about to replace
with a current version has judged *the very object stored now* (`TakeoversJudged`),
on a stamp not ahead of its clock (`StampsArePast`), or, renewing, found itself its
holder (`RenewalsMine`). Since any write makes all other versions stale, the
judgement cannot be outdated; since clocks only advance, stale stays stale.

`LeaseMutualExclusion` and `LeaseImplementsPassLock` assume `Punctual = Proc`:
no clock reaches the end of a term while its owner is in a pass, or while its
request for it is in flight. **The code does not enforce this**: `renew` is
called after the checkout, after prune, before the state write and in hook polls
only, with a default term of 60 s. `TimelySpec` is the place where that assumption
is written down. Its invariant `TimelyInv` adds to `LeaseInv` that every guard is
backed by its own unexpired lease (`GuardsCovered`), that requests in flight still
have their term ahead (`RequestsCovered`), and that a renewal moves `renewTime`
forward (`RenewalsAdvance`). Two guards would then share one holder.

**`PassProofs`.** `PassKeepNeverPruned` needs no assumption: with a delete in
flight its object is not marked keep, unless users touched it since prune's get
(`VictimsUnkept`), because no apply runs while pruning and `PruneGet` looks before it takes a
victim. `PassDeclaredNeverPruned` assumes that keys name distinct objects (`Injective`);
finding 1 is what happens otherwise. Their invariant `PassInv` says besides that targets are
undeclared by the commit checked out, that a pass starts afresh and that a teardown declares
nothing. `PassCleanMeansSynced` assumes `Injective` too, and has users edit and mark at will;
its invariant `SyncInv` says that from the first apply to the write of the state each
declared resource is noted as failed, still to be applied, in sync, or touched by users since
the pass compared or applied it: every step that clears `touched` of an object has just made
it, or found it, in sync. All four are for any weather: failures, crashes, users and
overlapping processes at once.

**`WatchProofs`.** `SeenInv` (readers see the kind as of `log[shown]`) is not
inductive: what `InitDone` swaps in must be right beforehand, hence `BufferInv` (the
buffer is the listing less what is still to come), and an event changes one object
only because the history does (`LogInv`). `StoreInv` is their conjunction with
the types. The refinement of `Mirror` (`mark <- shown`, `view <- seen`) follows: a
swap or an event is a `Refresh`, since a listing is never older than what was shown
(a conjunct of `TypeOK`), an abort goes back to the blank view, all else stutters.
`WatchChecks` needs `CheckIInv`, which follows each object through a check: unread,
deferred to a list, reported, or passed over, with a moment since the store was
read that justifies it; moments in the log stay where they are.

**`HooksProofs`.** `InOrder` and `WorkAwaitsHooks` rest on `HookInv`: the hooks of
the phase are partitioned into to start, in hand and passed (`ProgressInv`), no
hook that was started comes after one that was not (`OrderInv`: `StartHook` takes
a least one), and a hook that passed is not running, since nothing makes an
object run again (`StillInv`). At `MainWork` none is left to start, so all passed.
`HooksFreshOrLeft` proves `FreshOrLeft`, without an assumption: deletes may fail unnoticed and
linger, Jobs be deleted by users, passes die. Its invariant `FreshInv` says that from the
apply of a before-hook-creation hook to its last poll its object is new, told to go, spared
by a delete that failed, or gone.

**`RunLoopProofs`.** `LoopBackoff` proves `LoopInv` for any intervals, width of the factor and
limit of the count. The clamp of the exponent keeps the factor from losing its bit
(`BackoffExact`). The provers know of `2 ^ e` only that it is an integer, so that powers of
two are positive and grow, `PowersFit`, is a hypothesis of the theorem; it is true of
every width.

**`CheckoutProofs`.** `CheckoutLandsOnTarget` says that a finished checkout left HEAD, the
files and the answer at its target, for any history, any cap and all faults. `OnTarget`
is about the end only; `CheckoutInv` follows the checkout there: `tip` and FETCH_HEAD are
among the tips seen (`SeenInv`; the tip alone would not do, it moves between a fetch and
its use), each step is reached with its targets only (`RouteInv`), and before `rev-parse`
HEAD and the files are one commit that serves the target (`PlaceInv`). What was in the
work dir before appears in none of these: it is always overwritten before it is read.

`CheckoutGivesUpBeyondReach` proves `GivesUpBeyondReach`, for any history, batch and number of
rounds. It came with a correction: as first stated, without the second conjunct of
`WithinReach` for commits, it is false of histories that fork (four commits suffice besides
the one asked for), and a chain, which is what `source_checkout` has, does not show that.
Giving up is the end of a search, so `ReachInv` follows it there. For a commit asked for
(`ShaInv`), it is there or some cut above it, in the history of a tip seen, is at most
`(Rounds - 1 - round) * Batch` above it: `CutsMove` shows that a deepening moves *the oldest*
cut above it down by a batch, whichever tip the branch has by then, because on one line
the oldest cut in the tip's history is not younger than the one known before, and with no
cut in between everything is fetched. For FETCH_HEAD~n (`ParentInv`), what is known below
the tip is exactly the newest `round * Batch` generations (`KnownNewest`, `EdgeMoves`), so that
the count of `rev-list` says how far down they go (`NewestReach`, by a bijection of
generations and commits). The lemmas about histories need no recursion: what holds of a
commit and of the parents of what it holds of, holds of all its history
(`HistoryInduction`).

`PassAppliesTheCommit` proves `AppliesTheCommit`, of passes over any commits, documents and
paths. Every step of `Source` is one of `Checkout` or leaves the work dir alone, so
`CheckoutInv` holds of it too (`SourceStep`): when the files are read, they are those of the
commit `sha`, unless `stray`. What remains is about functions. `ExpandsToMentioned`: the
recursive `expand_value` finds what is `Mentioned`. The induction is over documents
(`DocumentInduction`: one not in a set that has every document whose items it has would be
nested least deep, by `Least`); and that a function satisfying the definition of
`expand_value` exists at all is shown by naming one. `FilesInPath`: a file lies
below a directory that was matched just if some leading part of its directory matches,
since git keeps no directory without files. `ReadingDeclares` puts the two together, for the
three outcomes of a reading: no directory, a file that does not parse, everything.

**`DriftProofs`.** `NoDriftHolds` says that `specs_differ` finds no difference in a live
object just if that holds what its manifest declares, whatever the two look like and however
deep they are nested: it misses nothing, and it sees no difference in what the API server
adds or leaves out. `spec_subset` and `Nodes` recur into values, so this takes induction. The
library states induction for a predicate, which the provers cannot instantiate;
`Induction` states it for a *set* of numbers, from the least element of its complement
(`Least`). That there are functions satisfying the two recursive definitions at all has to
be shown first (`SubsetDefined`, `NodesDefined`): for each depth there is one that is right
on values up to that depth, by induction, and what is right at one value is determined by
what is right below it (`SubsetCongruence`, `NodesCongruence`). `PlacesStep` is the
step over one level: all nodes of a manifest are in place just if its root is, and those of
each of its parts are in the part that the same key leads to on the live side
(`PlacesParts`) or, of a zero value, that part is missing (`ZeroLeaf`).

**`ReportProofs`.** `SummaryComplete`, `HealthyMeansRolledOut` and `InSyncMeansHeld` prove
`SummaryInv`, `HealthySound` and `InSyncSound`, for any API server, kinds, edits and number of
mishaps. None of them is inductive: they are about the state, which says nothing of how it
came to be written. `IInv` adds, besides the types:

* `ClusterInv`: an object is of the kind its world says, with a body its kind may have; and
  if the status of a workload was written for its current generation and says that the
  rollout is over, then no pod of an earlier template is left (`Current`). That stays so:
  new pods are of the new template, only a Deployment has pods of two templates at a time,
  and a body with another template makes `Store` mark the status as behind. This is where
  "never on the grounds of a status written for the generation before" comes from.
* `PassInv`: what a pass knows of each resource, at each of its program points. Once listed
  (`Listed`), a resource has a verdict if its kind has a check, Healthy only if it was
  rolled out (`HealthOf`), and shows drift unless it holds what Git declares (`DriftOf`).
  In a full pass, once applied (`Applied`), it is gone, failed, touched by users, or holds
  what Git declares: an apply leaves it held and nobody but users changes a body. So
  the listing after the applies, which compares nothing, finds it held.
* `StateInv`: the three properties, of the state last written.

`Write` then needs what `assess` returns, a fold over a sequence of verdicts of any length:
`AssessSummarises`, by `Induction` over the index of the loop, says that the counts count
each verdict, and that the worst is one that is counted and none counted is worse.
The verdicts it is given are those of `Judged`: a resource without listed namesakes has its own
(`JudgedVerdict`), and one with has at least a listed object of its name. `NoDriftHolds` is what
turns "no drift" into "held".

`DriftIsReal` is the other direction, the action property `NoFalseAlarm`. Its invariant
`AlarmInv` says that drift which a pass has seen is real while it lists or applies; it
cannot say so of a second listing, which keeps the drift of the first beside objects that
may have changed since.

**Only model-checked**: all liveness (`StaleReclaimed`, `ShutdownTerminates`,
`Converges`, `OrphansPruned`, `CatchesUp`, `PassEnds`, `EditWakes`, `StopEnds`, `Follows`,
`SettlesHealthy`, `ProbeNotices`), which the prover does not handle under fairness.

## 6. What is abstracted, and what is missing

* Deletion is immediate in `Pass`. The code deletes with foreground propagation, so
  an object may linger and be listed, or be applied to while terminating; `Hooks`
  has that for hook objects.
* `Pass` checks drift by lists; the check of cache mode is in `Watch`, with
  whatever reads and re-applies left out. A rebuild in `Watch` may come at any time,
  in the code between passes only.
* The status of a hook is one value; the resource of a hook is the same in each
  commit, so an apply of an existing one changes nothing that is modelled.
* `RunLoop` has no clock but that of its sleep: the debounce and the 100 ms of
  `watch_stop` have no length.
* Users mark live objects as to be kept and take all marks off; an object they create is
  not marked. The annotation `helm.sh/hook`, which prune honours too, is not in `Pass`.
* `Detect` and `PruneList` list all kinds in one step. The lists are separate
  requests; no decision compares objects of different kinds.
* In `Pass` a hook phase passes or fails; hook objects, which prune skips, are not in `live`.
* The order in which manifests are applied and targets pruned is left open. The
  code applies in file order; prune iterates over a hash set.
* In `Source` the resources of a pass are applied at once or not at all; `Pass` has the
  applies one by one. In `Report` a pass reads one commit's manifests at its start, and
  hooks and prune are one chance to fail (`PassFails`, `post` of `Write`).
* The commits of `MCReport` declare the same fields, so that a field server-side apply
  would remove is not in question. Server-side conflicts are forced by the code.
* The kinds of a world are distinct in `Report`: a list that fails is one resource's.
* Not modelled: dry runs, `diff`, `status`, logging, metrics, tracing, messages,
  credentials and SSH keys, YAML text, the splitting of `apiVersion`, parsing of flags and
  durations, a corrupt state ConfigMap (it reads as an empty one). They decide
  nothing the properties speak of, or are pure functions of text.

## 7. Plan

Done, in the order of importance: the lock (`Lease`, `TimelyLease`, `PassLock`,
`LeaseProofs`), the pass (`Pass`, `PassProofs`), the stores (`Watch`, `Mirror`,
`WatchProofs`), the hooks (`Hooks`, `HooksProofs`), the loop (`RunLoop`, `RunLoopProofs`), Git
(`Checkout`, `CheckoutProofs`, `Source`), the report (`Json`, `SpecDiff`, `ResourceHealth`,
`Report`, `DriftProofs`, `ReportProofs`).

Next:

1. `SyncedPass`: `Pass` with several processes over `Lease`, showing which of
   `Pass`'s properties survive an overlap of passes, and that serial passes are
   what `PassLock` gives.
2. `Hooks` in place of the two hook steps of `Pass`: a phase as an abstract
   specification (passes, or fails once) that `Hooks` implements; the recorded error
   of a failed post phase.
3. `Pass` with lingering deletions; `Lease` with a duration truncated to zero.
