------------------------------ MODULE Checkout ------------------------------
(* git_sync.rs: one `checkout` after another in a PID-scoped work dir, of a *)
(* branch that is pushed to and force-pushed all the while. The remote and  *)
(* the git command are external: what a command does to the shallow clone   *)
(* is modelled, not how. The work dir is on an emptyDir: it outlives the    *)
(* process, and the next process with its PID finds what a kill left there. *)
EXTENDS Integers, FiniteSets

CONSTANTS
  Commit, NoCommit,   \* NoCommit: unborn HEAD, no FETCH_HEAD, half-written tree
  ParentOf,           \* first parents, NoCommit for a root
  Generation,         \* of a commit: how many ancestors it has
  Batch,              \* commits a `fetch --deepen` adds (50)
  Rounds,             \* deepenings before giving up (20)
  Depths,             \* the n of CheckoutTarget::Parent(n)
  Wanted,             \* the commits of CheckoutTarget::Sha
  Faults              \* of {"git", "crash", "lock"}

ASSUME CheckoutAssumption ==
  /\ NoCommit \notin Commit /\ ParentOf \in [Commit -> Commit \cup {NoCommit}]
  /\ Batch \in Nat \ {0} /\ Rounds \in Nat \ {0} /\ Depths \subseteq Nat \ {0}
  /\ Wanted \subseteq Commit

(* No commit is an ancestor of its own.                                     *)
ASSUME GenerationAssumption ==
  \A c \in Commit :
    /\ Generation[c] \in Nat
    /\ ParentOf[c] # NoCommit => Generation[c] = Generation[ParentOf[c]] + 1

Branch == [kind |-> "branch"]
Sha(c) == [kind |-> "sha", commit |-> c]
Parent(n) == [kind |-> "parent", depth |-> n]
Target == {Branch} \cup {Sha(c) : c \in Wanted} \cup {Parent(n) : n \in Depths}

VARIABLES
  tip,         \* the branch
  dir,         \* the work dir: "none", "junk" (no .git in it) or "git"
  have,        \* commits in its object store
  shallow,     \* those of them whose parents are cut off (.git/shallow)
  head,        \* HEAD
  fetched,     \* FETCH_HEAD, of this checkout; a clone writes none
  tree,        \* the commit the files are of
  stray,       \* there may be untracked files, of a reset that failed half-way
  locks,       \* lock files of a killed git: "index", "shallow"
  pc,          \* where the checkout is
  target, round, sha,
  seen,        \* tips of the branch since this checkout began
  cloned,      \* this checkout began with a clone
  quiet        \* pushes, rollbacks and faults are over

repo == <<dir, have, shallow, head, tree, stray, locks>>
locals == <<target, round, sha, seen, cloned, fetched>>
vars == <<tip, repo, pc, locals, quiet>>

Steps == {"fetch", "reset", "wipe", "clone", "rev-parse", "cat-file", "rev-list",
          "deepen", "checkout", "hard"}

TypeOK ==
  /\ tip \in Commit
  /\ dir \in {"none", "junk", "git"} /\ have \subseteq Commit /\ shallow \subseteq Commit
  /\ {head, fetched, tree, sha} \subseteq Commit \cup {NoCommit}
  /\ stray \in BOOLEAN /\ locks \subseteq {"index", "shallow"}
  /\ pc \in Steps \cup {"idle", "done", "failed"}
  /\ target \in Target /\ round \in 0..Rounds
  /\ seen \subseteq Commit /\ cloned \in BOOLEAN /\ quiet \in BOOLEAN

-----------------------------------------------------------------------------
(* A commit and its first parents, on the server and as far as the clone    *)
(* knows them: what is in each set that has it and is closed under parents. *)
Closed ==
  {S \in SUBSET (Commit \cup {NoCommit}) : \A c \in S \ {NoCommit} : ParentOf[c] \in S}

Line == [c \in Commit \cup {NoCommit} |-> {a \in Commit : \A S \in Closed : c \in S => a \in S}]

History(c) == Line[c]

(* Generations from c up to its ancestor a.                                 *)
Distance(c, a) == Generation[c] - Generation[a]

Known(c) ==
  {a \in History(c) : \A s \in shallow \cap History(c) : a \notin History(ParentOf[s])}

(* `c~n`, in a history of which only some is there.                         *)
Ancestor(history, c, n) == {a \in history : Distance(c, a) = n}

Roots == {c \in Commit : ParentOf[c] = NoCommit}

-----------------------------------------------------------------------------
Init ==
  /\ tip \in Commit
  /\ dir = "none" /\ have = {} /\ shallow = {} /\ locks = {}
  /\ head = NoCommit /\ tree = NoCommit /\ stray = FALSE
  /\ pc = "idle" /\ target = Branch /\ round = 0 /\ sha = NoCommit
  /\ seen = {} /\ cloned = FALSE /\ fetched = NoCommit
  /\ quiet = FALSE

(* No checkout is under way. FETCH_HEAD stays, but is written before it is  *)
(* read again.                                                              *)
Idle ==
  /\ pc' = "idle" /\ target' = Branch /\ round' = 0 /\ sha' = NoCommit
  /\ seen' = {} /\ cloned' = FALSE /\ fetched' = NoCommit

Removed ==
  /\ dir' = "none" /\ have' = {} /\ shallow' = {} /\ locks' = {}
  /\ head' = NoCommit /\ tree' = NoCommit /\ stray' = FALSE

(* checkout() begins: an existing clone is brought up to date, anything     *)
(* else is cleared away and cloned afresh.                                  *)
Start(t) ==
  /\ pc = "idle" /\ (quiet => t = Branch)
  /\ target' = t /\ seen' = {tip} /\ cloned' = (dir # "git")
  /\ pc' = CASE dir = "git" -> "fetch" [] dir = "junk" -> "wipe" [] OTHER -> "clone"
  /\ UNCHANGED <<tip, repo, round, sha, fetched, quiet>>

(* Where a checkout goes once the tip is there.                             *)
AfterTip ==
  CASE target.kind = "branch" -> "rev-parse"
    [] target.kind = "sha"    -> "cat-file"
    [] OTHER                  -> "rev-list"

(* `git fetch --depth 1 <url> <branch>`: the tip, and nothing below it, even*)
(* if more was known.                                                       *)
Fetch_NoReset ==
  /\ pc = "fetch" /\ "shallow" \notin locks
  /\ have' = have \cup {tip}
  /\ shallow' = shallow \cup ({tip} \ Roots)
  /\ fetched' = tip /\ pc' = AfterTip
  /\ UNCHANGED <<tip, dir, head, tree, stray, locks, target, round, sha, seen, cloned, quiet>>

Fetch ==
  /\ pc = "fetch" /\ "shallow" \notin locks
  /\ have' = have \cup {tip}
  /\ shallow' = shallow \cup ({tip} \ Roots)
  /\ fetched' = tip
  /\ pc' = IF target = Branch THEN "reset" ELSE AfterTip
  /\ UNCHANGED <<tip, dir, head, tree, stray, locks, target, round, sha, seen, cloned, quiet>>

(* `git reset --hard FETCH_HEAD`.                                           *)
Reset ==
  /\ pc = "reset" /\ "index" \notin locks
  /\ head' = fetched /\ tree' = fetched
  /\ pc' = AfterTip
  /\ UNCHANGED <<tip, dir, have, shallow, stray, locks, locals, quiet>>

Wipe ==
  /\ pc = "wipe" /\ pc' = "clone"
  /\ Removed
  /\ UNCHANGED <<tip, locals, quiet>>

(* `git clone --depth 1 --branch <branch>`.                                 *)
Clone ==
  /\ pc = "clone"
  /\ dir' = "git" /\ have' = {tip} /\ shallow' = {tip} \ Roots
  /\ head' = tip /\ tree' = tip
  /\ pc' = AfterTip
  /\ UNCHANGED <<tip, stray, locks, locals, quiet>>

(* `git rev-parse HEAD`, on the way out.                                    *)
RevParse ==
  /\ pc = "rev-parse" /\ pc' = "done"
  /\ sha' = head
  /\ UNCHANGED <<tip, repo, target, round, seen, cloned, fetched, quiet>>

(* ensure_sha_reachable: the object is there, or the history is deepened.   *)
CatFile_Uncapped ==
  /\ pc = "cat-file"
  /\ pc' = IF target.commit \in have THEN "checkout" ELSE "deepen"
  /\ UNCHANGED <<tip, repo, locals, quiet>>

CatFile ==
  /\ pc = "cat-file" /\ round < Rounds
  /\ pc' = IF target.commit \in have THEN "checkout" ELSE "deepen"
  /\ UNCHANGED <<tip, repo, locals, quiet>>

(* ensure_depth: as many commits as the target needs, counted below HEAD by *)
(* `git rev-list --count HEAD`.                                             *)
RevList_OneMore ==
  /\ pc = "rev-list" /\ round < Rounds /\ head # NoCommit
  /\ pc' = IF Cardinality(Known(head)) > target.depth + 1 THEN "checkout" ELSE "deepen"
  /\ UNCHANGED <<tip, repo, locals, quiet>>

RevList ==
  /\ pc = "rev-list" /\ round < Rounds /\ head # NoCommit
  /\ pc' = IF Cardinality(Known(head)) >= target.depth + 1 THEN "checkout" ELSE "deepen"
  /\ UNCHANGED <<tip, repo, locals, quiet>>

(* `git fetch --deepen=50 <url> <branch>`: the branch's history above what  *)
(* was cut off, and Batch commits below each cut.                           *)
Cuts == shallow \cap History(tip)
Within(n) == {a \in History(tip) : \E s \in Cuts : a \in History(s) /\ Distance(s, a) <= n}

Deepen ==
  /\ pc = "deepen" /\ "shallow" \notin locks
  /\ have' = have \cup Within(Batch)
                  \cup {a \in History(tip) : \A s \in Cuts : a \notin History(s)}
  /\ shallow' = (shallow \ Within(Batch - 1))
                \cup (Within(Batch) \ (Within(Batch - 1) \cup Roots))
  /\ fetched' = tip
  /\ round' = round + 1
  /\ pc' = AfterTip
  /\ UNCHANGED <<tip, dir, head, tree, stray, locks, target, sha, seen, cloned, quiet>>

(* What the target names: the commit asked for, or FETCH_HEAD~n.            *)
Named ==
  IF target.kind = "sha" THEN {target.commit} \cap have
  ELSE IF fetched = NoCommit THEN {}
  ELSE Ancestor(Known(fetched), fetched, target.depth)

(* `git checkout <commit>`: leaves half-written files to the reset.         *)
Switch ==
  /\ pc = "checkout" /\ "index" \notin locks
  /\ \E c \in Named : head' = c /\ tree' = IF tree = NoCommit THEN tree ELSE c
  /\ pc' = "hard"
  /\ UNCHANGED <<tip, dir, have, shallow, stray, locks, locals, quiet>>

(* `git reset --hard <commit>`; a commit asked for is returned as it is.    *)
Hard ==
  /\ pc = "hard" /\ "index" \notin locks
  /\ \E c \in Named :
       /\ head' = c /\ tree' = c
       /\ IF target.kind = "sha" THEN sha' = c /\ pc' = "done"
                                 ELSE sha' = sha /\ pc' = "rev-parse"
  /\ UNCHANGED <<tip, dir, have, shallow, stray, locks, target, round, seen, cloned, fetched, quiet>>

Fail ==
  /\ pc' = "failed"
  /\ UNCHANGED <<tip, repo, locals, quiet>>

(* All deepenings spent.                                                    *)
GiveUp == pc \in {"cat-file", "rev-list"} /\ round = Rounds /\ Fail

(* A revision that does not resolve: no commit on HEAD, or FETCH_HEAD~n     *)
(* beyond what was fetched.                                                 *)
Unresolved ==
  /\ \/ pc = "rev-list" /\ round < Rounds /\ head = NoCommit
     \/ pc \in {"checkout", "hard"} /\ Named = {}
  /\ Fail

(* A lock file left behind, or files in the way.                            *)
Refused ==
  /\ \/ pc \in {"fetch", "deepen"} /\ "shallow" \in locks
     \/ pc \in {"reset", "checkout", "hard"} /\ "index" \in locks
     \/ pc = "checkout" /\ (tree = NoCommit \/ stray)
  /\ Fail

(* The network, the server, a disk that is full: a failed clone clears up   *)
(* after itself, a failed reset does not.                                   *)
HalfWritten == tree' = NoCommit /\ stray' = TRUE

GitFails ==
  /\ ~quiet /\ "git" \in Faults /\ pc \in Steps /\ pc' = "failed"
  /\ \/ UNCHANGED <<tree, stray>>
     \/ pc \in {"reset", "checkout", "hard"} /\ HalfWritten
  /\ UNCHANGED <<tip, dir, have, shallow, head, locks, locals, quiet>>

-----------------------------------------------------------------------------
(* A process is killed. A clone in the making may be anything from nothing  *)
(* to a repository without files; other commands leave half-written files,  *)
(* and their lock unless they could still catch the signal.                 *)
LeavesLock(l) ==
  \/ locks' = locks
  \/ "lock" \in Faults /\ locks' = locks \cup {l}

LeavesClone ==
  /\ \/ dir' \in {"none", "junk"} /\ have' = {} /\ head' = NoCommit /\ locks' = locks
     \/ dir' = "git" /\ have' = {} /\ head' = NoCommit /\ LeavesLock("shallow")
     \/ dir' = "git" /\ have' = {tip} /\ head' = tip /\ LeavesLock("index")
  /\ shallow' = have' \ Roots
  /\ tree' = NoCommit /\ stray' = (have' # {})

Crash ==
  /\ ~quiet /\ "crash" \in Faults /\ pc \in Steps \cup {"done"} /\ Idle
  /\ CASE pc = "clone" -> LeavesClone
       [] pc \in {"fetch", "deepen"} ->
            LeavesLock("shallow") /\ UNCHANGED <<dir, have, shallow, head, tree, stray>>
       [] pc \in {"reset", "checkout", "hard"} ->
            HalfWritten /\ LeavesLock("index") /\ UNCHANGED <<dir, have, shallow, head>>
       [] OTHER -> UNCHANGED repo
  /\ UNCHANGED <<tip, quiet>>

(* A sync or rollback removes its work dir when it ends, if it can; the     *)
(* controller keeps its own.                                                *)
End ==
  /\ pc \in {"done", "failed"} /\ Idle
  /\ \/ Removed
     \/ (target = Branch \/ (~quiet /\ "crash" \in Faults)) /\ UNCHANGED repo
  /\ UNCHANGED <<tip, quiet>>

(* Another Pod, another emptyDir.                                           *)
Reschedule ==
  /\ pc = "idle" /\ Removed
  /\ UNCHANGED <<tip, pc, locals, quiet>>

(* A push, or a force-push of any history.                                  *)
Push ==
  /\ ~quiet
  /\ tip' \in Commit \ {tip}
  /\ seen' = IF pc = "idle" THEN {} ELSE seen \cup {tip'}
  /\ UNCHANGED <<repo, pc, target, round, sha, cloned, fetched, quiet>>

Quieten ==
  /\ quiet' = TRUE
  /\ UNCHANGED <<tip, repo, pc, locals>>

GitStep ==
  \/ Fetch \/ Reset \/ Wipe \/ Clone \/ RevParse
  \/ CatFile \/ RevList \/ Deepen \/ Switch \/ Hard
  \/ GiveUp \/ Unresolved \/ Refused

Step == (\E t \in Target : Start(t)) \/ GitStep \/ End

Next == Step \/ GitFails \/ Crash \/ Reschedule \/ Push \/ Quieten

Spec == Init /\ [][Next]_vars

-----------------------------------------------------------------------------
(* checkout is to "leave the working tree at target": what it returns, what *)
(* HEAD names and what the files are of is one commit, and that is a tip of *)
(* the branch not older than the checkout, the commit asked for, or the     *)
(* ancestor of such a tip; whatever an earlier process left in the work dir.*)
OnTarget ==
  pc = "done" =>
    /\ head = sha /\ tree = sha
    /\ CASE target.kind = "branch" -> sha \in seen
         [] target.kind = "sha"    -> sha = target.commit
         [] OTHER -> \E t \in seen : sha \in Ancestor(History(t), t, target.depth)

(* git_sync.rs: it "deepens the shallow clone in batches until it is        *)
(* reachable (capped, so a bogus SHA fails fast)". Only a commit beyond the *)
(* cap is given up on: the deepenings but the last, which is not looked at, *)
(* would not have brought it. For a branch that moves meanwhile this is true*)
(* as long as it stays on one line: on another one the clone may be cut off *)
(* anywhere, by checkouts of the past. FETCH_HEAD~n, whose depth is counted *)
(* below HEAD, supposes a clone of its own and a branch that stays put.     *)
Cap == (Rounds - 1) * Batch

WithinReach ==
  IF target.kind = "sha"
  THEN /\ \A t \in seen : target.commit \in History(t) /\ Distance(t, target.commit) <= Cap
       /\ \A t, u \in seen : t \in History(u) \/ u \in History(t)
  ELSE cloned /\ seen = {tip} /\ target.depth <= Cap
       /\ Ancestor(History(tip), tip, target.depth) # {}

GivesUpBeyondReach == [][GiveUp \/ Unresolved => ~WithinReach]_vars
=============================================================================
