--------------------------- MODULE CheckoutProofs ---------------------------
(***************************************************************************)
(* Theorems about Checkout and Source, for any history, pushes, faults and *)
(* caps: what a finished checkout leaves in the work dir is the target it  *)
(* was given, a target within reach is not given up on, and a pass applies *)
(* what the files left there declare.                                      *)
(***************************************************************************)
EXTENDS Source, FiniteSetTheorems, FunctionTheorems, SequenceTheorems, WellFoundedInduction, TLAPS

(* A commit that the checkout under way may end at.                        *)
Serves(c) ==
  CASE target.kind = "branch" -> c \in seen
    [] target.kind = "sha"    -> c = target.commit
    [] OTHER -> \E t \in seen : c \in Ancestor(History(t), t, target.depth)

(* The tip is among those seen, and so is FETCH_HEAD. (The tip alone would *)
(* not do: the branch moves between a fetch and the use of its outcome.)   *)
SeenInv ==
  /\ pc # "idle" => tip \in seen
  /\ fetched \in seen \cup {NoCommit}
  /\ pc = "idle" => fetched = NoCommit
  /\ pc = "reset" => fetched \in seen

(* Each step is only reached with the targets whose step it is.            *)
RouteInv ==
  /\ pc = "reset" => target.kind = "branch"
  /\ pc = "rev-parse" => target.kind # "sha"
  /\ pc = "cat-file" => target.kind = "sha"
  /\ pc = "rev-list" => target.kind = "parent"
  /\ pc \in {"deepen", "checkout", "hard"} => target.kind # "branch"
  /\ pc = "deepen" => round < Rounds

(* The last step before the end finds the target in place.                 *)
PlaceInv ==
  /\ pc = "rev-parse" => head = tree /\ Serves(head)
  /\ pc = "done" => head = sha /\ tree = sha /\ Serves(sha)

CheckoutInv == TypeOK /\ SeenInv /\ RouteInv /\ PlaceInv

LEMMA TargetKind ==
  ASSUME NEW t \in Target
  PROVE  /\ t.kind \in {"branch", "sha", "parent"}
         /\ t.kind = "branch" <=> t = Branch
         /\ t.kind = "sha" => t.commit \in Commit
BY CheckoutAssumption DEF Target, Branch, Sha, Parent

LEMMA Subsets ==
  ASSUME TypeOK
  PROVE  /\ \A n : Within(n) \subseteq Commit
         /\ \A c \in Commit : History(c) \subseteq Commit /\ Known(c) \subseteq History(c)
         /\ Roots \subseteq Commit
BY DEF TypeOK, Within, History, Line, Known, Roots

(* What a target names is a commit it may end at.                          *)
LEMMA NamedServes ==
  ASSUME TypeOK, SeenInv, target.kind # "branch", NEW c \in Named
  PROVE  c \in Commit /\ Serves(c) /\ (target.kind = "sha" => c = target.commit)
<1>0. target \in Target /\ target.kind \in {"sha", "parent"}
  BY TargetKind DEF TypeOK
<1>1. CASE target.kind = "sha"
  <2>1. c = target.commit /\ c \in have
    BY <1>1 DEF Named
  <2> QED BY <1>1, <2>1 DEF Serves, TypeOK
<1>2. CASE target.kind = "parent"
  <2>1. fetched # NoCommit /\ c \in Ancestor(Known(fetched), fetched, target.depth)
    BY <1>2 DEF Named
  <2>2. fetched \in seen /\ c \in Ancestor(History(fetched), fetched, target.depth)
    BY <2>1, Subsets DEF SeenInv, TypeOK, Ancestor
  <2>3. c \in Commit
    BY <2>2, Subsets DEF TypeOK, Ancestor
  <2>4. Serves(c)
    BY <1>2, <2>2 DEF Serves
  <2> QED BY <1>2, <2>3, <2>4
<1> QED BY <1>0, <1>1, <1>2

LEMMA CheckoutInit == Init => CheckoutInv
<1> SUFFICES ASSUME Init
             PROVE  CheckoutInv
  OBVIOUS
<1>1. Branch \in Target /\ 0 \in 0..Rounds
  BY CheckoutAssumption DEF Target
<1>2. TypeOK
  BY <1>1 DEF Init, TypeOK, Steps
<1> QED BY <1>2 DEF Init, CheckoutInv, SeenInv, RouteInv, PlaceInv

(* Ending, in any way, makes every claim about a checkout under way void.  *)
LEMMA IdleStep ==
  ASSUME TypeOK, Idle, UNCHANGED tip,
         dir' \in {"none", "junk", "git"}, have' \subseteq Commit,
         shallow' \subseteq Commit, {head, tree}' \subseteq Commit \cup {NoCommit},
         stray' \in BOOLEAN, locks' \subseteq {"index", "shallow"}, UNCHANGED quiet
  PROVE  CheckoutInv'
<1>1. Branch \in Target /\ 0 \in 0..Rounds
  BY CheckoutAssumption DEF Target
<1>2. TypeOK'
  BY <1>1 DEF Idle, TypeOK
<1> QED BY <1>2 DEF Idle, CheckoutInv, SeenInv, RouteInv, PlaceInv

(* Failing too.                                                            *)
LEMMA FailStep ==
  ASSUME CheckoutInv, pc # "idle", pc' = "failed",
         UNCHANGED <<tip, dir, have, shallow, head, locks, locals, quiet>>,
         tree' \in Commit \cup {NoCommit}, stray' \in BOOLEAN
  PROVE  CheckoutInv'
<1>1. TypeOK'
  BY DEF CheckoutInv, TypeOK, locals
<1>2. SeenInv' /\ RouteInv' /\ PlaceInv'
  BY DEF CheckoutInv, SeenInv, RouteInv, PlaceInv, locals
<1> QED BY <1>1, <1>2 DEF CheckoutInv

LEMMA StartStep ==
  ASSUME CheckoutInv, NEW t \in Target, Start(t)
  PROVE  CheckoutInv'
<1>1. pc' \in {"fetch", "wipe", "clone"}
  BY DEF Start
<1>2. TypeOK'
  BY <1>1 DEF Start, CheckoutInv, TypeOK, repo, Steps
<1>3. SeenInv'
  BY <1>1 DEF Start, CheckoutInv, SeenInv, TypeOK, repo
<1>4. RouteInv' /\ PlaceInv'
  BY <1>1 DEF RouteInv, PlaceInv
<1> QED BY <1>2, <1>3, <1>4 DEF CheckoutInv

LEMMA FetchStep == CheckoutInv /\ Fetch => CheckoutInv'
<1> SUFFICES ASSUME CheckoutInv, Fetch
             PROVE  CheckoutInv'
  OBVIOUS
<1>0. TypeOK /\ SeenInv /\ pc = "fetch" /\ fetched' = tip /\ tip \in seen
  BY DEF CheckoutInv, SeenInv, Fetch
<1>1. /\ pc' \in {"reset", "cat-file", "rev-list"}
      /\ pc' = "reset" => target.kind = "branch"
      /\ pc' = "cat-file" => target.kind = "sha"
      /\ pc' = "rev-list" => target.kind = "parent"
  BY <1>0, TargetKind DEF Fetch, AfterTip, TypeOK
<1>2. TypeOK'
  BY <1>0, <1>1, Subsets DEF Fetch, TypeOK, Steps
<1>3. SeenInv'
  BY <1>0, <1>1 DEF Fetch, SeenInv
<1>4. RouteInv' /\ PlaceInv'
  BY <1>1 DEF Fetch, RouteInv, PlaceInv
<1> QED BY <1>2, <1>3, <1>4 DEF CheckoutInv

LEMMA ResetStep == CheckoutInv /\ Reset => CheckoutInv'
<1> SUFFICES ASSUME CheckoutInv, Reset
             PROVE  CheckoutInv'
  OBVIOUS
<1>0. /\ TypeOK /\ SeenInv /\ pc = "reset" /\ pc' = "rev-parse"
      /\ target.kind = "branch" /\ fetched \in seen
  BY DEF CheckoutInv, RouteInv, SeenInv, Reset, AfterTip
<1>1. TypeOK'
  BY <1>0 DEF Reset, TypeOK, locals, Steps
<1>2. SeenInv' /\ RouteInv'
  BY <1>0 DEF Reset, SeenInv, RouteInv, locals
<1>3. head' = tree' /\ Serves(head)'
  BY <1>0 DEF Reset, Serves, locals
<1>4. PlaceInv'
  BY <1>0, <1>3 DEF PlaceInv
<1> QED BY <1>1, <1>2, <1>4 DEF CheckoutInv

LEMMA WipeStep == CheckoutInv /\ Wipe => CheckoutInv'
<1> SUFFICES ASSUME CheckoutInv, Wipe
             PROVE  CheckoutInv'
  OBVIOUS
<1>1. TypeOK'
  BY DEF CheckoutInv, Wipe, Removed, TypeOK, locals, Steps
<1>2. SeenInv' /\ RouteInv' /\ PlaceInv'
  BY DEF CheckoutInv, Wipe, SeenInv, RouteInv, PlaceInv, locals
<1> QED BY <1>1, <1>2 DEF CheckoutInv

LEMMA CloneStep == CheckoutInv /\ Clone => CheckoutInv'
<1> SUFFICES ASSUME CheckoutInv, Clone
             PROVE  CheckoutInv'
  OBVIOUS
<1>0. TypeOK /\ SeenInv /\ pc = "clone" /\ tip \in seen /\ head' = tip /\ tree' = tip
  BY DEF CheckoutInv, SeenInv, Clone
<1>1. /\ pc' \in {"rev-parse", "cat-file", "rev-list"}
      /\ pc' = "rev-parse" => target.kind = "branch"
      /\ pc' = "cat-file" => target.kind = "sha"
      /\ pc' = "rev-list" => target.kind = "parent"
  BY <1>0, TargetKind DEF Clone, AfterTip, TypeOK
<1>2. TypeOK'
  BY <1>0, <1>1, Subsets DEF Clone, TypeOK, locals, Steps
<1>3. SeenInv' /\ RouteInv'
  BY <1>0, <1>1 DEF Clone, SeenInv, RouteInv, locals
<1>4. pc' = "rev-parse" => Serves(head)'
  BY <1>0, <1>1 DEF Clone, Serves, locals
<1>5. PlaceInv'
  BY <1>0, <1>1, <1>4 DEF PlaceInv
<1> QED BY <1>2, <1>3, <1>5 DEF CheckoutInv

LEMMA RevParseStep == CheckoutInv /\ RevParse => CheckoutInv'
<1> SUFFICES ASSUME CheckoutInv, RevParse
             PROVE  CheckoutInv'
  OBVIOUS
<1>0. TypeOK /\ head = tree /\ Serves(head) /\ sha' = head /\ UNCHANGED <<head, tree>>
  BY DEF CheckoutInv, PlaceInv, RevParse, repo
<1>1. TypeOK'
  BY <1>0 DEF RevParse, TypeOK, repo
<1>2. SeenInv' /\ RouteInv'
  BY DEF CheckoutInv, RevParse, SeenInv, RouteInv
<1>3. Serves(sha)'
  BY <1>0 DEF RevParse, Serves
<1>4. PlaceInv'
  BY <1>0, <1>3 DEF RevParse, PlaceInv
<1> QED BY <1>1, <1>2, <1>4 DEF CheckoutInv

LEMMA LookStep == CheckoutInv /\ (CatFile \/ RevList) => CheckoutInv'
<1> SUFFICES ASSUME CheckoutInv, CatFile \/ RevList
             PROVE  CheckoutInv'
  OBVIOUS
<1>0. /\ TypeOK /\ target.kind # "branch" /\ round < Rounds
      /\ pc # "idle" /\ pc' \in {"checkout", "deepen"}
      /\ UNCHANGED <<tip, repo, locals, quiet>>
  BY DEF CheckoutInv, RouteInv, CatFile, RevList
<1>1. TypeOK'
  BY <1>0 DEF TypeOK, repo, locals, Steps
<1>2. SeenInv' /\ RouteInv' /\ PlaceInv'
  BY <1>0 DEF CheckoutInv, SeenInv, RouteInv, PlaceInv, locals
<1> QED BY <1>1, <1>2 DEF CheckoutInv

LEMMA DeepenStep == CheckoutInv /\ Deepen => CheckoutInv'
<1> SUFFICES ASSUME CheckoutInv, Deepen
             PROVE  CheckoutInv'
  OBVIOUS
<1>0. /\ TypeOK /\ SeenInv /\ tip \in seen /\ round < Rounds /\ pc = "deepen"
      /\ target.kind # "branch"
  BY DEF CheckoutInv, SeenInv, RouteInv, Deepen
<1>1. /\ pc' \in {"cat-file", "rev-list"}
      /\ pc' = "cat-file" => target.kind = "sha"
      /\ pc' = "rev-list" => target.kind = "parent"
  BY <1>0, TargetKind DEF Deepen, AfterTip, TypeOK
<1>2. round' \in 0..Rounds
  BY <1>0, CheckoutAssumption DEF Deepen, TypeOK
<1>3. have' \subseteq Commit /\ shallow' \subseteq Commit
  <2>1. {a \in History(tip) : \A s \in Cuts : a \notin History(s)} \subseteq Commit
    BY <1>0, Subsets DEF TypeOK
  <2>2. Within(Batch) \subseteq Commit
    BY <1>0, Subsets
  <2> QED BY <1>0, <2>1, <2>2 DEF Deepen, TypeOK
<1>4. TypeOK'
  BY <1>0, <1>1, <1>2, <1>3 DEF Deepen, TypeOK, Steps
<1>5. SeenInv' /\ RouteInv' /\ PlaceInv'
  BY <1>0, <1>1 DEF Deepen, SeenInv, RouteInv, PlaceInv
<1> QED BY <1>4, <1>5 DEF CheckoutInv

LEMMA SwitchStep == CheckoutInv /\ Switch => CheckoutInv'
<1> SUFFICES ASSUME CheckoutInv, Switch
             PROVE  CheckoutInv'
  OBVIOUS
<1>0. /\ TypeOK /\ SeenInv /\ target.kind # "branch" /\ pc = "checkout" /\ pc' = "hard"
      /\ UNCHANGED <<tip, dir, have, shallow, stray, locks, locals, quiet>>
  BY DEF CheckoutInv, RouteInv, Switch
<1>1. {head, tree}' \subseteq Commit \cup {NoCommit}
  BY <1>0, NamedServes DEF Switch, TypeOK
<1>2. TypeOK'
  BY <1>0, <1>1 DEF TypeOK, locals, Steps
<1>3. SeenInv' /\ RouteInv' /\ PlaceInv'
  BY <1>0 DEF SeenInv, RouteInv, PlaceInv, locals
<1> QED BY <1>2, <1>3 DEF CheckoutInv

LEMMA HardStep == CheckoutInv /\ Hard => CheckoutInv'
<1> SUFFICES ASSUME CheckoutInv, Hard
             PROVE  CheckoutInv'
  OBVIOUS
<1>0. /\ TypeOK /\ SeenInv /\ target.kind # "branch" /\ pc = "hard"
      /\ UNCHANGED <<tip, dir, have, shallow, stray, locks, target, round, seen, cloned,
                     fetched, quiet>>
  BY DEF CheckoutInv, RouteInv, Hard
<1>1. PICK c \in Named :
        /\ head' = c /\ tree' = c
        /\ IF target.kind = "sha" THEN sha' = c /\ pc' = "done"
                                  ELSE sha' = sha /\ pc' = "rev-parse"
  BY DEF Hard
<1>2. c \in Commit /\ Serves(c)
  BY <1>0, <1>1, NamedServes
<1>3. TypeOK'
  BY <1>0, <1>1, <1>2 DEF TypeOK, Steps
<1>4. SeenInv' /\ RouteInv'
  BY <1>0, <1>1 DEF SeenInv, RouteInv
<1>5. /\ pc' = "rev-parse" => Serves(head)'
      /\ pc' = "done" => sha' = head' /\ Serves(sha)'
  BY <1>0, <1>1, <1>2 DEF Serves
<1>6. PlaceInv'
  BY <1>1, <1>5 DEF PlaceInv
<1> QED BY <1>3, <1>4, <1>6 DEF CheckoutInv

LEMMA FailingStep ==
  CheckoutInv /\ (GiveUp \/ Unresolved \/ Refused \/ GitFails) => CheckoutInv'
<1> SUFFICES ASSUME CheckoutInv, GiveUp \/ Unresolved \/ Refused \/ GitFails
             PROVE  CheckoutInv'
  OBVIOUS
<1>0. TypeOK
  BY DEF CheckoutInv
<1>1. CASE GitFails
  <2>1. /\ pc # "idle" /\ pc' = "failed"
        /\ UNCHANGED <<tip, dir, have, shallow, head, locks, locals, quiet>>
        /\ tree' \in Commit \cup {NoCommit} /\ stray' \in BOOLEAN
    BY <1>0, <1>1 DEF GitFails, Steps, HalfWritten, TypeOK
  <2> QED BY <2>1, FailStep
<1>2. CASE GiveUp \/ Unresolved \/ Refused
  <2>1. pc # "idle" /\ pc' = "failed" /\ UNCHANGED <<tip, repo, locals, quiet>>
    BY <1>2 DEF GiveUp, Unresolved, Refused, Fail
  <2>2. /\ UNCHANGED <<tip, dir, have, shallow, head, locks, locals, quiet>>
        /\ tree' \in Commit \cup {NoCommit} /\ stray' \in BOOLEAN
    BY <1>0, <2>1 DEF repo, TypeOK
  <2> QED BY <2>1, <2>2, FailStep
<1> QED BY <1>1, <1>2

LEMMA CrashStep == CheckoutInv /\ Crash => CheckoutInv'
<1> SUFFICES ASSUME CheckoutInv, Crash
             PROVE  CheckoutInv'
  OBVIOUS
<1>0. TypeOK /\ Idle /\ UNCHANGED tip /\ UNCHANGED quiet
  BY DEF CheckoutInv, Crash
<1> DEFINE Kept == /\ dir' \in {"none", "junk", "git"} /\ have' \subseteq Commit
                   /\ shallow' \subseteq Commit
                   /\ {head, tree}' \subseteq Commit \cup {NoCommit}
                   /\ stray' \in BOOLEAN /\ locks' \subseteq {"index", "shallow"}
<1>1. CASE pc = "clone"
  <2>1. LeavesClone
    BY <1>1 DEF Crash
  <2>2. have' \subseteq Commit /\ head' \in Commit \cup {NoCommit} /\ dir' \in {"none", "junk", "git"}
    BY <1>0, <2>1 DEF LeavesClone, TypeOK
  <2>3. locks' \subseteq {"index", "shallow"}
    BY <1>0, <2>1 DEF LeavesClone, LeavesLock, TypeOK
  <2>4. Kept
    BY <2>1, <2>2, <2>3 DEF LeavesClone
  <2> QED BY <1>0, <2>4, IdleStep
<1>2. CASE pc # "clone"
  <2>1. Kept
    BY <1>0, <1>2 DEF Crash, LeavesLock, HalfWritten, TypeOK, repo
  <2> QED BY <1>0, <2>1, IdleStep
<1> QED BY <1>1, <1>2

LEMMA EndStep == CheckoutInv /\ End => CheckoutInv'
<1> SUFFICES ASSUME CheckoutInv, End
             PROVE  CheckoutInv'
  OBVIOUS
<1>1. Idle /\ UNCHANGED tip /\ UNCHANGED quiet
  BY DEF End
<1>2. /\ dir' \in {"none", "junk", "git"} /\ have' \subseteq Commit
      /\ shallow' \subseteq Commit
      /\ {head, tree}' \subseteq Commit \cup {NoCommit}
      /\ stray' \in BOOLEAN /\ locks' \subseteq {"index", "shallow"}
  BY DEF CheckoutInv, TypeOK, End, Removed, repo
<1> QED BY <1>1, <1>2, IdleStep DEF CheckoutInv

LEMMA AroundStep == CheckoutInv /\ (Reschedule \/ Push \/ Quieten) => CheckoutInv'
<1> SUFFICES ASSUME CheckoutInv, Reschedule \/ Push \/ Quieten
             PROVE  CheckoutInv'
  OBVIOUS
<1>1. CASE Reschedule
  <2>1. TypeOK'
    BY <1>1 DEF CheckoutInv, TypeOK, Reschedule, Removed, locals
  <2> QED BY <1>1, <2>1 DEF CheckoutInv, Reschedule, SeenInv, RouteInv, PlaceInv, locals
<1>2. CASE Push
  <2>1. TypeOK'
    BY <1>2 DEF CheckoutInv, TypeOK, Push, repo
  <2>2. seen \subseteq seen' \/ pc = "idle"
    BY <1>2 DEF Push
  <2>3. SeenInv' /\ RouteInv'
    BY <1>2 DEF CheckoutInv, SeenInv, RouteInv, Push
  <2>4. \A c : Serves(c) /\ pc # "idle" => Serves(c)'
    BY <1>2, <2>2 DEF Push, Serves
  <2>5. PlaceInv'
    BY <1>2, <2>4 DEF CheckoutInv, PlaceInv, Push, repo
  <2> QED BY <2>1, <2>3, <2>5 DEF CheckoutInv
<1>3. CASE Quieten
  <2>1. TypeOK'
    BY <1>3 DEF CheckoutInv, TypeOK, Quieten, repo, locals
  <2> QED BY <1>3, <2>1 DEF CheckoutInv, SeenInv, RouteInv, PlaceInv, Serves, Quieten, repo, locals
<1> QED BY <1>1, <1>2, <1>3

LEMMA CheckoutPreserved == CheckoutInv /\ [Next]_vars => CheckoutInv'
<1> SUFFICES ASSUME CheckoutInv, [Next]_vars
             PROVE  CheckoutInv'
  OBVIOUS
<1>1. CASE \E t \in Target : Start(t)
  BY <1>1, StartStep
<1>2. CASE Fetch \/ Reset \/ Wipe \/ Clone \/ RevParse
  BY <1>2, FetchStep, ResetStep, WipeStep, CloneStep, RevParseStep
<1>3. CASE CatFile \/ RevList \/ Deepen \/ Switch \/ Hard
  BY <1>3, LookStep, DeepenStep, SwitchStep, HardStep
<1>4. CASE GiveUp \/ Unresolved \/ Refused \/ GitFails
  BY <1>4, FailingStep
<1>5. CASE Crash \/ End \/ Reschedule \/ Push \/ Quieten
  BY <1>5, CrashStep, EndStep, AroundStep
<1>6. CASE UNCHANGED vars
  <2>1. TypeOK'
    BY <1>6 DEF CheckoutInv, TypeOK, vars, repo, locals
  <2> QED BY <1>6, <2>1 DEF CheckoutInv, SeenInv, RouteInv, PlaceInv, Serves, vars, repo, locals
<1> QED BY <1>1, <1>2, <1>3, <1>4, <1>5, <1>6 DEF Next, Step, GitStep

LEMMA CheckoutInductive == Spec => []CheckoutInv
BY CheckoutInit, CheckoutPreserved, PTL DEF Spec

(* Every variable of git_sync.rs' model keeps its type; in particular no   *)
(* search deepens the clone more than Rounds times.                        *)
THEOREM CheckoutTypeCorrect == Spec => []TypeOK
BY CheckoutInductive, PTL DEF CheckoutInv

(* A finished checkout returns what HEAD and the files are, and that is its*)
(* target, for any history, any force-pushes between its fetches and any   *)
(* remains of killed ones.                                                 *)
THEOREM CheckoutLandsOnTarget == Spec => []OnTarget
<1>1. CheckoutInv => OnTarget
  BY DEF CheckoutInv, PlaceInv, Serves, OnTarget
<1> QED BY <1>1, CheckoutInductive, PTL

-----------------------------------------------------------------------------
(* Histories: they are lines, along which generations go down by one.       *)
LEMMA HistoryNone == History(NoCommit) = {}
<1>1. {NoCommit} \in Closed
  BY DEF Closed
<1>2. \A a \in Commit : a \notin {NoCommit}
  BY CheckoutAssumption
<1>. QED BY <1>1, <1>2 DEF History, Line

LEMMA HistorySelf ==
  ASSUME NEW c \in Commit
  PROVE  c \in History(c)
BY DEF History, Line

(* What holds of a commit and of the parents of what it holds of, holds of  *)
(* all its history.                                                         *)
LEMMA HistoryInduction ==
  ASSUME NEW c \in Commit, NEW S \in SUBSET Commit, c \in S,
         \A x \in S : ParentOf[x] \in S \cup {NoCommit}
  PROVE  History(c) \subseteq S
<1>1. S \cup {NoCommit} \in Closed
  BY DEF Closed
<1>2. NoCommit \notin Commit
  BY CheckoutAssumption
<1>. QED BY <1>1, <1>2 DEF History, Line

LEMMA HistoryClosed ==
  ASSUME NEW c \in Commit
  PROVE  /\ History(c) \subseteq Commit
         /\ \A a \in History(c) : ParentOf[a] \in History(c) \cup {NoCommit}
<1>1. ASSUME NEW a \in History(c), ParentOf[a] # NoCommit
      PROVE  ParentOf[a] \in History(c)
  <2>1. a \in Commit /\ a # NoCommit /\ ParentOf[a] \in Commit
    BY <1>1, CheckoutAssumption DEF History, Line
  <2>2. ASSUME NEW S \in Closed, c \in S
        PROVE  ParentOf[a] \in S
    BY <2>1, <2>2 DEF History, Line, Closed
  <2>. QED BY <2>1, <2>2 DEF History, Line
<1>. QED BY <1>1 DEF History, Line

LEMMA HistoryTransitive ==
  ASSUME NEW c \in Commit, NEW b \in History(c)
  PROVE  b \in Commit /\ History(b) \subseteq History(c)
<1>1. b \in Commit /\ History(c) \in SUBSET Commit
  BY HistoryClosed
<1>. QED BY <1>1, HistoryClosed, HistoryInduction

LEMMA HistoryParent ==
  ASSUME NEW c \in Commit
  PROVE  History(c) = {c} \cup History(ParentOf[c])
<1>. DEFINE p == ParentOf[c]
<1>1. p = NoCommit \/ (p \in Commit /\ p \in History(c))
  BY HistorySelf, HistoryClosed, CheckoutAssumption
<1>2. {c} \cup History(p) \subseteq History(c)
  <2>1. CASE p = NoCommit
    BY <2>1, HistoryNone, HistorySelf
  <2>2. CASE p \in Commit /\ p \in History(c)
    BY <2>2, HistoryTransitive, HistorySelf
  <2>. QED BY <1>1, <2>1, <2>2
<1>3. History(c) \subseteq {c} \cup History(p)
  <2>1. CASE p = NoCommit
    <3>. DEFINE S == {c}
    <3>1. \A x \in S : ParentOf[x] \in S \cup {NoCommit}
      BY <2>1
    <3>. QED BY <3>1, HistoryInduction, Zenon
  <2>2. CASE p \in Commit /\ p \in History(c)
    <3>. DEFINE S == {c} \cup History(p)
    <3>1. S \in SUBSET Commit /\ c \in S
      BY <2>2, HistoryClosed
    <3>2. \A x \in S : ParentOf[x] \in S \cup {NoCommit}
      BY <2>2, HistorySelf, HistoryClosed
    <3>. HIDE DEF S
    <3>3. History(c) \subseteq S
      BY <3>1, <3>2, HistoryInduction
    <3>. QED BY <3>3 DEF S
  <2>. QED BY <1>1, <2>1, <2>2
<1>. QED BY <1>2, <1>3

LEMMA HistoryOfRoot ==
  ASSUME NEW c \in Roots
  PROVE  c \in Commit /\ History(c) = {c}
BY HistoryParent, HistoryNone DEF Roots

LEMMA Generations ==
  ASSUME NEW c \in Commit, NEW a \in History(c)
  PROVE  /\ a \in Commit /\ Generation[a] \in Nat /\ Generation[c] \in Nat
         /\ Generation[a] <= Generation[c]
         /\ Generation[a] = Generation[c] => a = c
<1>. DEFINE S == {x \in Commit : x = c \/ Generation[x] < Generation[c]}
<1>1. c \in S /\ S \in SUBSET Commit
  OBVIOUS
<1>2. ASSUME NEW x \in S PROVE ParentOf[x] \in S \cup {NoCommit}
  <2>1. Generation[x] \in Nat /\ Generation[c] \in Nat /\ Generation[x] <= Generation[c]
    BY GenerationAssumption
  <2>2. CASE ParentOf[x] # NoCommit
    <3>1. ParentOf[x] \in Commit /\ Generation[ParentOf[x]] \in Nat
      BY <2>2, CheckoutAssumption, GenerationAssumption
    <3>2. Generation[x] = Generation[ParentOf[x]] + 1
      BY <2>2, GenerationAssumption
    <3>. QED BY <2>1, <3>1, <3>2
  <2>. QED BY <2>2
<1>3. History(c) \subseteq S
  <2>. HIDE DEF S
  <2>. QED BY <1>1, <1>2, HistoryInduction
<1>. QED BY <1>3, GenerationAssumption

LEMMA Comparable ==
  ASSUME NEW c \in Commit, NEW a \in History(c), NEW b \in History(c)
  PROVE  a \in History(b) \/ b \in History(a)
<1>. DEFINE S == {x \in History(c) : x \in History(b) \/ b \in History(x)}
<1>1. b \in Commit /\ c \in S /\ S \in SUBSET Commit
  BY HistoryClosed, HistorySelf
<1>2. ASSUME NEW x \in S PROVE ParentOf[x] \in S \cup {NoCommit}
  <2>. DEFINE p == ParentOf[x]
  <2>1. x \in Commit /\ p \in History(c) \cup {NoCommit}
    BY HistoryClosed
  <2>2. CASE x \in History(b)
    <3>1. p \in History(b) \cup {NoCommit}
      BY <1>1, <2>2, HistoryClosed
    <3>. QED BY <2>1, <3>1
  <2>3. CASE b \in History(x)
    <3>1. b = x \/ b \in History(p)
      BY <2>1, <2>3, HistoryParent
    <3>2. b = x => p \in History(b) \cup {NoCommit}
      BY <1>1, HistorySelf, HistoryClosed
    <3>. QED BY <2>1, <3>1, <3>2
  <2>. QED BY <2>2, <2>3
<1>3. History(c) \subseteq S
  <2>. HIDE DEF S
  <2>. QED BY <1>1, <1>2, HistoryInduction
<1>. QED BY <1>3

(* On one line, what is not younger is an ancestor.                         *)
LEMMA Older ==
  ASSUME NEW c \in Commit, NEW a \in History(c), NEW b \in History(c),
         Generation[a] <= Generation[b]
  PROVE  a \in History(b)
<1>1. a \in Commit /\ b \in Commit
  BY HistoryClosed
<1>2. CASE b \in History(a)
  <2>1. /\ Generation[a] \in Nat /\ Generation[b] \in Nat /\ Generation[b] <= Generation[a]
        /\ Generation[b] = Generation[a] => b = a
    BY <1>1, <1>2, Generations
  <2>2. a = b
    BY <2>1
  <2>. QED BY <1>1, <2>2, HistorySelf
<1>. QED BY <1>2, Comparable

(* No generation is missing between a commit and its ancestor.              *)
LEMMA Between ==
  ASSUME NEW c \in Commit, NEW a \in History(c), NEW n \in Nat,
         Generation[a] <= n, n <= Generation[c]
  PROVE  \E b \in History(c) : Generation[b] = n /\ a \in History(b)
<1>. DEFINE S == {x \in History(c) : Generation[x] <= n =>
                    \E b \in History(c) : Generation[b] = n /\ x \in History(b)}
<1>1. c \in S /\ S \in SUBSET Commit
  <2>1. Generation[c] \in Nat /\ c \in History(c) /\ History(c) \subseteq Commit
    BY GenerationAssumption, HistorySelf, HistoryClosed
  <2>2. Generation[c] <= n => Generation[c] = n
    BY <2>1
  <2>. QED BY <2>1, <2>2
<1>2. ASSUME NEW x \in S PROVE ParentOf[x] \in S \cup {NoCommit}
  <2>. DEFINE p == ParentOf[x]
  <2>1. x \in Commit /\ p \in History(c) \cup {NoCommit}
    BY HistoryClosed
  <2>. SUFFICES ASSUME p # NoCommit, Generation[p] <= n
                PROVE  \E b \in History(c) : Generation[b] = n /\ p \in History(b)
    BY <2>1
  <2>2. /\ p \in Commit /\ p \in History(c) /\ Generation[p] \in Nat
        /\ Generation[x] = Generation[p] + 1
    BY <2>1, CheckoutAssumption, GenerationAssumption
  <2>3. CASE Generation[p] = n
    BY <2>2, <2>3, HistorySelf
  <2>4. CASE Generation[p] # n
    <3>1. Generation[x] <= n
      BY <2>2, <2>4
    <3>2. PICK b \in History(c) : Generation[b] = n /\ x \in History(b)
      BY <3>1
    <3>3. p \in History(b)
      BY <2>2, <3>2, HistoryClosed
    <3>. QED BY <3>2, <3>3
  <2>. QED BY <2>3, <2>4
<1>3. History(c) \subseteq S
  <2>. HIDE DEF S
  <2>. QED BY <1>1, <1>2, HistoryInduction
<1>. QED BY <1>3

(* The first k generations of a history: as many commits.                   *)
Newest(c, k) == {a \in History(c) : Distance(c, a) <= k}

Ages(c, k) == [a \in Newest(c, k) |-> Distance(c, a)]

LEMMA NewestFinite ==
  ASSUME NEW c \in Commit, NEW k \in Nat
  PROVE  /\ IsFiniteSet(Newest(c, k))
         /\ Ages(c, k) \in [Newest(c, k) -> 0..k]
         /\ Ages(c, k) \in Surjection(Newest(c, k), 0..k) => Cardinality(Newest(c, k)) = k + 1
<1>. DEFINE E == Newest(c, k)
            d == Ages(c, k)
<1>1. ASSUME NEW a \in E
      PROVE  /\ a \in History(c) /\ Generation[a] \in Nat /\ Generation[c] \in Nat
             /\ d[a] = Generation[c] - Generation[a] /\ d[a] \in 0..k
  <2>1. a \in History(c) /\ Distance(c, a) <= k
    BY DEF Newest
  <2>2. Generation[a] \in Nat /\ Generation[c] \in Nat /\ Generation[a] <= Generation[c]
    BY <2>1, Generations
  <2>. QED BY <2>1, <2>2 DEF Distance, Ages
<1>2. d \in [E -> 0..k]
  BY <1>1 DEF Ages
<1>3. ASSUME NEW a \in E, NEW b \in E, d[a] = d[b]
      PROVE  a = b
  <2>1. Generation[a] = Generation[b] /\ b \in Commit
    BY <1>1, <1>3, HistoryClosed
  <2>2. a \in History(b)
    BY <1>1, <2>1, Older
  <2>. QED BY <2>1, <2>2, Generations
<1>4. IsFiniteSet(0..k) /\ Cardinality(0..k) = k + 1
  BY FS_Interval
<1>. HIDE DEF E, d
<1>5. d \in Injection(E, 0..k)
  BY <1>2, <1>3 DEF Injection, IsInjective
<1>6. IsFiniteSet(E) /\ (Cardinality(E) = Cardinality(0..k) <=> d \in Surjection(E, 0..k))
  BY <1>4, <1>5, FS_Injection
<1>. QED BY <1>2, <1>4, <1>6 DEF E, d

LEMMA NewestCounted ==
  ASSUME NEW c \in Commit, NEW k \in Nat, \E a \in History(c) : Distance(c, a) = k
  PROVE  Cardinality(Newest(c, k)) = k + 1
<1>1. PICK a \in History(c) : Distance(c, a) = k
  OBVIOUS
<1>2. Generation[a] \in Nat /\ Generation[c] \in Nat /\ Generation[c] - Generation[a] = k
  BY <1>1, Generations DEF Distance
<1>3. ASSUME NEW n \in 0..k
      PROVE  \E b \in Newest(c, k) : Ages(c, k)[b] = n
  <2>1. Generation[c] - n \in Nat /\ Generation[a] <= Generation[c] - n
    BY <1>2
  <2>2. PICK b \in History(c) : Generation[b] = Generation[c] - n
    BY <1>2, <2>1, Between
  <2>3. Distance(c, b) = n
    BY <1>2, <2>2 DEF Distance
  <2>4. b \in Newest(c, k)
    BY <2>2, <2>3 DEF Newest
  <2>. QED BY <2>3, <2>4 DEF Ages
<1>4. Ages(c, k) \in Surjection(Newest(c, k), 0..k)
  BY <1>3, NewestFinite DEF Surjection
<1>. QED BY <1>4, NewestFinite

(* How many there are says how far down they go.                            *)
LEMMA NewestReach ==
  ASSUME NEW c \in Commit, NEW m \in Nat, NEW k \in Nat,
         NEW a \in History(c), Distance(c, a) = k
  PROVE  Cardinality(Newest(c, m)) >= k + 1 <=> k <= m
<1>1. IsFiniteSet(Newest(c, m)) /\ Cardinality(Newest(c, m)) \in Nat
  BY NewestFinite, FS_CardinalityType
<1>2. ASSUME k <= m PROVE Cardinality(Newest(c, m)) >= k + 1
  <2>1. Newest(c, k) \subseteq Newest(c, m)
    <3>. SUFFICES ASSUME NEW b \in Newest(c, k) PROVE b \in Newest(c, m)
      OBVIOUS
    <3>1. b \in History(c) /\ Generation[b] \in Nat /\ Generation[c] \in Nat
      BY Generations DEF Newest
    <3>. QED BY <1>2, <3>1 DEF Newest, Distance
  <2>2. Cardinality(Newest(c, k)) = k + 1
    BY NewestCounted
  <2>. QED BY <1>1, <2>1, <2>2, FS_Subset
<1>3. ASSUME ~(k <= m) PROVE Cardinality(Newest(c, m)) = m + 1
  <2>1. Generation[a] \in Nat /\ Generation[c] \in Nat /\ Generation[c] - Generation[a] = k
    BY Generations DEF Distance
  <2>2. Generation[c] - m \in Nat /\ Generation[a] <= Generation[c] - m
    BY <1>3, <2>1
  <2>3. PICK b \in History(c) : Generation[b] = Generation[c] - m
    BY <2>1, <2>2, Between
  <2>4. Distance(c, b) = m
    BY <2>1, <2>3 DEF Distance
  <2>. QED BY <2>4, NewestCounted
<1>. QED BY <1>1, <1>2, <1>3

(* Of commits, some there is than which none is older, since of a set of    *)
(* numbers there is a least one.                                            *)
LEMMA Least ==
  ASSUME NEW T \in SUBSET Nat, T # {}
  PROVE  \E n \in T : \A m \in T : n <= m
<1>. DEFINE Below == {pair \in Nat \X Nat : pair[1] < pair[2]}
<1>1. IsWellFoundedOn(Below, Nat)
  BY NatLessThanWellFounded, Zenon DEF OpToRel
<1>2. PICK n \in T : \A m \in T : ~(<<m, n>> \in Below)
  <2>. HIDE DEF Below
  <2>. QED BY <1>1, WFMin
<1>3. ASSUME NEW m \in T PROVE n <= m
  <2>1. m \in Nat /\ n \in Nat /\ ~(<<m, n>> \in Below)
    BY <1>2
  <2>. QED BY <2>1
<1>. QED BY <1>3

LEMMA Oldest ==
  ASSUME NEW C \in SUBSET Commit, C # {}
  PROVE  \E z \in C : \A x \in C : Generation[z] <= Generation[x]
<1>. DEFINE T == {Generation[x] : x \in C}
<1>1. T \in SUBSET Nat /\ T # {}
  BY GenerationAssumption
<1>2. PICK n \in T : \A m \in T : n <= m
  <2>. HIDE DEF T
  <2>. QED BY <1>1, Least
<1>3. PICK z \in C : Generation[z] = n
  BY <1>2
<1>. QED BY <1>2, <1>3

-----------------------------------------------------------------------------
(* The search for a target. A commit asked for is there, or a cut above it, *)
(* in the history of a tip seen, is so near that the deepenings left, but   *)
(* the last, reach it.                                                      *)
Above(w) == {s \in shallow : w \in History(s) /\ \E t \in seen : s \in History(t)}

Near(w) == \E s \in Above(w) : Distance(s, w) <= (Rounds - 1 - round) * Batch

ShaInv ==
  /\ pc \in {"checkout", "hard"} => target.commit \in have
  /\ pc = "deepen" => target.commit \notin have
  /\ WithinReach /\ pc \in {"cat-file", "deepen"} =>
       round < Rounds /\ (target.commit \in have \/ Near(target.commit))

(* Below the tip, of a clone of its own, the history is there that the      *)
(* deepenings so far have brought; all but the last were not enough.        *)
Edge == {a \in History(tip) \ Roots : Distance(tip, a) = round * Batch}

ParentInv ==
  WithinReach /\ pc \in {"rev-list", "deepen", "checkout", "hard"} =>
    /\ shallow \cap History(tip) = Edge
    /\ round > 0 => fetched = tip
    /\ pc \in {"rev-list", "deepen"} => head = tip
    /\ pc = "rev-list" => round = 0 \/ (round - 1) * Batch < target.depth
    /\ pc = "deepen" => round * Batch < target.depth
    /\ pc \in {"checkout", "hard"} => target.depth <= round * Batch

ReachInv ==
  /\ shallow \subseteq have
  /\ pc \in {"idle", "fetch", "wipe", "clone"} => round = 0
  /\ pc \in {"fetch", "reset"} => ~cloned
  /\ target.kind = "sha" => ShaInv
  /\ target.kind = "parent" => ParentInv

LEMMA Batches ==
  ASSUME NEW m \in Int
  PROVE  /\ Batch \in Nat /\ Batch >= 1 /\ Rounds \in Nat /\ Rounds >= 1
         /\ m * Batch \in Int /\ 0 * Batch = 0
         /\ (m + 1) * Batch = m * Batch + Batch
         /\ (m - 1) * Batch = m * Batch - Batch
         /\ m >= 0 => m * Batch >= 0
         /\ m * Batch >= 1 => m >= 1
<1>1. Batch \in Nat /\ Batch >= 1 /\ Rounds \in Nat /\ Rounds >= 1
  BY CheckoutAssumption
<1>2. m * Batch \in Int /\ 0 * Batch = 0 /\ (m + 1) * Batch = m * Batch + Batch
      /\ (m - 1) * Batch = m * Batch - Batch
  BY <1>1
<1>3. m >= 0 => m * Batch >= 0
  BY <1>1
<1>4. ASSUME m <= 0 PROVE m * Batch <= 0
  BY <1>1, <1>4
<1>. QED BY <1>1, <1>2, <1>3, <1>4

(* Where no search is under way, there is little to show.                   *)
LEMMA NoSearch ==
  ASSUME shallow' \subseteq have',
         pc' \in {"idle", "fetch", "reset", "wipe", "clone", "rev-parse", "done", "failed"},
         pc' \in {"idle", "fetch", "wipe", "clone"} => round' = 0,
         pc' \in {"fetch", "reset"} => ~cloned'
  PROVE  ReachInv'
BY DEF ReachInv, ShaInv, ParentInv

(* What a clone knows, when it is cut off at one generation.                *)
LEMMA KnownNewest ==
  ASSUME TypeOK, shallow \cap History(tip) = Edge
  PROVE  round * Batch \in Nat /\ Known(tip) = Newest(tip, round * Batch)
<1>. DEFINE m == round * Batch
<1>0. tip \in Commit /\ round \in Nat /\ m \in Nat
  BY Batches DEF TypeOK
<1>. HIDE DEF m
<1>1. ASSUME NEW a \in Known(tip)
      PROVE  a \in Newest(tip, m)
  <2>1. a \in History(tip) /\ \A s \in Edge : a \notin History(ParentOf[s])
    BY DEF Known
  <2>2. Generation[a] \in Nat /\ Generation[tip] \in Nat /\ Generation[a] <= Generation[tip]
    BY <1>0, <2>1, Generations
  <2>. SUFFICES ASSUME Generation[tip] - Generation[a] > m PROVE FALSE
    BY <1>0, <2>1, <2>2 DEF Newest, Distance
  <2>3. Generation[tip] - m \in Nat
    BY <1>0, <2>2
  <2>4. PICK b \in History(tip) : Generation[b] = Generation[tip] - m /\ a \in History(b)
    BY <1>0, <2>1, <2>2, <2>3, Between
  <2>5. b \in Commit /\ a # b
    BY <1>0, <2>2, <2>4, HistoryClosed
  <2>6. b \notin Roots /\ a \in History(ParentOf[b])
    BY <2>4, <2>5, HistoryOfRoot, HistoryParent
  <2>7. b \in Edge
    BY <1>0, <2>2, <2>4, <2>6 DEF Edge, Distance, m
  <2>. QED BY <2>1, <2>6, <2>7
<1>2. ASSUME NEW a \in Newest(tip, m)
      PROVE  a \in Known(tip)
  <2>1. a \in History(tip) /\ Distance(tip, a) <= m
    BY DEF Newest
  <2>2. Generation[a] \in Nat /\ Generation[tip] \in Nat
    BY <1>0, <2>1, Generations
  <2>3. ASSUME NEW s \in Edge, a \in History(ParentOf[s])
        PROVE  FALSE
    <3>1. s \in Commit /\ s \in History(tip) /\ Distance(tip, s) = m
      BY <1>0, HistoryClosed DEF Edge, m
    <3>2. ParentOf[s] # NoCommit
      BY <3>1 DEF Edge, Roots
    <3>3. ParentOf[s] \in Commit /\ Generation[s] = Generation[ParentOf[s]] + 1
      BY <3>1, <3>2, CheckoutAssumption, GenerationAssumption
    <3>4. Generation[ParentOf[s]] \in Nat /\ Generation[a] <= Generation[ParentOf[s]]
      BY <2>3, <3>3, Generations
    <3>. QED BY <1>0, <2>1, <2>2, <3>1, <3>3, <3>4 DEF Distance
  <2>. QED BY <2>1, <2>3 DEF Known
<1>. QED BY <1>0, <1>1, <1>2 DEF m

LEMMA ReachInit == Init => ReachInv
BY DEF Init, ReachInv, Branch, ShaInv, ParentInv

LEMMA ReachStart ==
  ASSUME ReachInv, NEW t \in Target, Start(t)
  PROVE  ReachInv'
<1>1. pc' \in {"fetch", "wipe", "clone"} /\ (pc' = "fetch" => ~cloned')
  BY DEF Start
<1>2. round' = 0 /\ shallow' \subseteq have'
  BY DEF Start, ReachInv, repo
<1>. QED BY <1>1, <1>2, NoSearch

(* With the tip in the clone, the search begins: the tip is the cut, unless *)
(* it is a root.                                                            *)
LEMMA ReachTip ==
  ASSUME CheckoutInv, ReachInv, Fetch \/ Clone
  PROVE  ReachInv'
<1>0. /\ TypeOK /\ target \in Target /\ tip \in Commit /\ tip' = tip /\ tip \in seen
      /\ target' = target /\ seen' = seen /\ cloned' = cloned
      /\ round = 0 /\ round' = 0 /\ shallow \subseteq have
  BY DEF CheckoutInv, TypeOK, SeenInv, ReachInv, Fetch, Clone, locals
<1>1. /\ tip \in have' /\ shallow' \subseteq have'
      /\ tip \notin Roots => tip \in shallow'
      /\ Clone => have' = {tip} /\ shallow' = {tip} \ Roots /\ head' = tip
  BY <1>0 DEF Fetch, Clone
<1>2. Fetch => ~cloned'
  BY <1>0 DEF Fetch, ReachInv
<1>3. CASE target.kind = "branch"
  <2>1. pc' \in {"reset", "rev-parse"} /\ (pc' = "reset" => Fetch)
    BY <1>0, <1>3, TargetKind DEF Fetch, Clone, AfterTip
  <2>. QED BY <1>1, <1>2, <2>1, NoSearch
<1>4. CASE target.kind = "sha"
  <2>. DEFINE w == target.commit
  <2>1. pc' = "cat-file"
    BY <1>4 DEF Fetch, Clone, AfterTip, Branch
  <2>2. ASSUME WithinReach'
        PROVE  round' < Rounds /\ (w \in have' \/ Near(w)')
    <3>1. w \in History(tip) /\ Distance(tip, w) <= Cap
      BY <1>0, <1>4, <2>2 DEF WithinReach
    <3>2. CASE tip \in Roots
      <4>1. w = tip
        BY <3>1, <3>2, HistoryOfRoot
      <4>. QED BY <1>0, <1>1, <4>1, Batches
    <3>3. CASE tip \notin Roots
      <4>1. tip \in shallow' /\ tip \in History(tip) /\ tip \in seen'
        BY <1>0, <1>1, <3>3, HistorySelf
      <4>2. Distance(tip, w) <= (Rounds - 1 - round') * Batch
        BY <1>0, <3>1, Batches DEF Cap
      <4>3. Near(w)'
        BY <1>0, <3>1, <4>1, <4>2 DEF Near, Above
      <4>. QED BY <1>0, <4>3, Batches
    <3>. QED BY <3>2, <3>3
  <2>3. ShaInv'
    BY <1>0, <2>1, <2>2 DEF ShaInv
  <2>. QED BY <1>0, <1>1, <1>4, <2>1, <2>3 DEF ReachInv
<1>5. CASE target.kind = "parent"
  <2>1. pc' = "rev-list"
    BY <1>5 DEF Fetch, Clone, AfterTip, Branch
  <2>2. ASSUME WithinReach'
        PROVE  Clone /\ shallow' \cap History(tip) = Edge'
    <3>1. Clone
      BY <1>0, <1>2, <1>5, <2>2 DEF WithinReach
    <3>2. shallow' = {tip} \ Roots /\ tip \in History(tip)
      BY <1>0, <1>1, <3>1, HistorySelf
    <3>3. ASSUME NEW a \in History(tip)
          PROVE  Distance(tip, a) = 0 <=> a = tip
      BY <1>0, <3>3, Generations DEF Distance
    <3>4. Edge' = {a \in History(tip) \ Roots : Distance(tip, a) = 0}
      BY <1>0, Batches DEF Edge
    <3>. QED BY <3>1, <3>2, <3>3, <3>4
  <2>3. ParentInv'
    BY <1>0, <1>1, <2>1, <2>2 DEF ParentInv
  <2>. QED BY <1>0, <1>1, <1>5, <2>1, <2>3 DEF ReachInv
<1>. QED BY <1>0, <1>3, <1>4, <1>5, TargetKind

LEMMA ReachCatFile ==
  ASSUME CheckoutInv, ReachInv, CatFile
  PROVE  ReachInv'
<1>1. /\ target.kind = "sha" /\ pc' = (IF target.commit \in have THEN "checkout" ELSE "deepen")
      /\ UNCHANGED <<have, shallow, target, round, seen, cloned, tip>> /\ round < Rounds
      /\ pc = "cat-file" /\ shallow \subseteq have
  BY DEF CheckoutInv, RouteInv, ReachInv, CatFile, repo, locals
<1>2. WithinReach' = WithinReach /\ Near(target.commit)' = Near(target.commit)
  BY <1>1 DEF WithinReach, Near, Above
<1>3. ShaInv'
  BY <1>1, <1>2 DEF ReachInv, ShaInv
<1>. QED BY <1>1, <1>3 DEF ReachInv

LEMMA ReachRevList ==
  ASSUME CheckoutInv, ReachInv, RevList
  PROVE  ReachInv'
<1>1. /\ target.kind = "parent" /\ pc = "rev-list" /\ target \in Target /\ round \in Nat
      /\ pc' = (IF Cardinality(Known(head)) >= target.depth + 1 THEN "checkout" ELSE "deepen")
      /\ UNCHANGED <<have, shallow, head, fetched, target, round, seen, cloned, tip>>
      /\ shallow \subseteq have /\ TypeOK /\ tip \in Commit
  BY DEF CheckoutInv, TypeOK, RouteInv, ReachInv, RevList, repo, locals
<1>2. WithinReach' = WithinReach /\ Edge' = Edge
  BY <1>1 DEF WithinReach, Edge
<1>3. ASSUME WithinReach
      PROVE  Cardinality(Known(head)) >= target.depth + 1 <=> target.depth <= round * Batch
  <2>1. ParentInv /\ head = tip /\ shallow \cap History(tip) = Edge
    BY <1>1, <1>3 DEF ReachInv, ParentInv
  <2>2. Known(head) = Newest(tip, round * Batch) /\ round * Batch \in Nat
    BY <1>1, <2>1, KnownNewest
  <2>3. PICK a \in History(tip) : Distance(tip, a) = target.depth
    BY <1>1, <1>3 DEF WithinReach, Ancestor
  <2>4. target.depth \in Nat
    BY <1>1, CheckoutAssumption DEF Target, Branch, Sha, Parent
  <2>. QED BY <1>1, <2>2, <2>3, <2>4, NewestReach
<1>4. round * Batch \in Int /\ target.depth \in Int
  BY <1>1, Batches, CheckoutAssumption DEF Target, Branch, Sha, Parent
<1>5. ParentInv'
  BY <1>1, <1>2, <1>3, <1>4 DEF ReachInv, ParentInv
<1>. QED BY <1>1, <1>5 DEF ReachInv

LEMMA ReachSwitch ==
  ASSUME CheckoutInv, ReachInv, Switch
  PROVE  ReachInv'
<1>1. /\ target.kind # "branch" /\ pc = "checkout" /\ pc' = "hard"
      /\ UNCHANGED <<have, shallow, fetched, target, round, seen, cloned, tip>>
      /\ shallow \subseteq have
  BY DEF CheckoutInv, RouteInv, ReachInv, Switch, locals
<1>2. WithinReach' = WithinReach /\ Edge' = Edge
  BY <1>1 DEF WithinReach, Edge
<1>. QED BY <1>1, <1>2 DEF ReachInv, ShaInv, ParentInv

(* A deepening moves the oldest cut above a commit asked for, and with it   *)
(* the whole search, down by Batch.                                         *)
LEMMA CutsMove ==
  ASSUME CheckoutInv, ReachInv, Deepen, target.kind = "sha", WithinReach
  PROVE  target.commit \in have' \/ Near(target.commit)'
<1>. DEFINE w == target.commit
            D == (Rounds - 1 - round) * Batch
            C == {x \in Cuts : w \in History(x)}
<1>1. /\ tip \in seen /\ tip \in Commit /\ seen \subseteq Commit /\ round \in Nat
      /\ round' = round + 1 /\ seen' = seen /\ target' = target
      /\ D \in Int /\ (Rounds - 1 - round') * Batch = D - Batch
  <2>1. /\ tip \in seen /\ tip \in Commit /\ seen \subseteq Commit /\ round \in Nat
        /\ round' = round + 1 /\ seen' = seen /\ target' = target
    BY DEF CheckoutInv, TypeOK, SeenInv, Deepen
  <2>2. Rounds - 1 - round \in Int /\ Rounds - 1 - round' = (Rounds - 1 - round) - 1
    BY <2>1, CheckoutAssumption
  <2>. QED BY <2>1, <2>2, Batches
<1>2. /\ \A t \in seen : w \in History(t)
      /\ \A t, u \in seen : t \in History(u) \/ u \in History(t)
      /\ w \notin have /\ Near(w)
  BY DEF ReachInv, ShaInv, WithinReach, Deepen
<1>3. /\ have' = have \cup Within(Batch)
                   \cup {a \in History(tip) : \A s \in Cuts : a \notin History(s)}
      /\ shallow' = (shallow \ Within(Batch - 1))
                      \cup (Within(Batch) \ (Within(Batch - 1) \cup Roots))
  BY DEF Deepen
<1>4. PICK s \in shallow : /\ w \in History(s) /\ \E t \in seen : s \in History(t)
                           /\ Distance(s, w) <= D
  BY <1>2 DEF Near, Above
<1>5. w \in History(tip) /\ w \in Commit /\ s \in Commit
  BY <1>1, <1>2, <1>4, HistoryClosed
<1>. HIDE DEF D
<1>6. CASE C = {}
  BY <1>3, <1>5, <1>6
<1>7. CASE C # {}
  <2>1. C \subseteq Commit
    BY <1>1, HistoryClosed DEF Cuts
  <2>2. PICK z \in C : \A x \in C : Generation[z] <= Generation[x]
    BY <1>7, <2>1, Oldest
  <2>3. z \in Commit /\ z \in shallow /\ z \in History(tip) /\ z \in Cuts /\ w \in History(z)
    BY <2>1 DEF Cuts
  <2>4. Generation[z] <= Generation[s]
    <3>1. PICK t \in seen : s \in History(t)
      BY <1>4
    <3>2. CASE t \in History(tip)
      <4>1. s \in History(tip)
        BY <1>1, <3>1, <3>2, HistoryTransitive
      <4>2. s \in C
        BY <1>4, <4>1 DEF Cuts
      <4>. QED BY <2>2, <4>2
    <3>3. CASE tip \in History(t)
      <4>1. t \in Commit /\ z \in History(t)
        BY <1>1, <2>3, <3>3, HistoryTransitive
      <4>2. CASE z \in History(s)
        BY <1>5, <4>2, Generations
      <4>3. CASE s \in History(z)
        <5>1. s \in History(tip)
          BY <1>1, <2>3, <4>3, HistoryTransitive
        <5>2. s \in C
          BY <1>4, <5>1 DEF Cuts
        <5>. QED BY <2>2, <5>2
      <4>. QED BY <3>1, <4>1, <4>2, <4>3, Comparable
    <3>. QED BY <1>1, <1>2, <3>1, <3>2, <3>3
  <2>5. /\ Generation[z] \in Nat /\ Generation[s] \in Nat /\ Generation[w] \in Nat
        /\ Generation[w] <= Generation[z] /\ Generation[z] - Generation[w] <= D
    BY <1>1, <1>4, <1>5, <2>3, <2>4, Generations DEF Distance
  <2>6. CASE Generation[z] - Generation[w] <= Batch
    <3>1. w \in Within(Batch)
      BY <1>5, <2>3, <2>6 DEF Within, Distance
    <3>. QED BY <1>3, <3>1
  <2>7. CASE Generation[z] - Generation[w] > Batch
    <3>. DEFINE n == Generation[z] - Batch
    <3>1. Batch \in Nat /\ Batch >= 1 /\ n \in Nat /\ Generation[w] < n /\ n < Generation[z]
      BY <2>5, <2>7, CheckoutAssumption
    <3>2. PICK f \in History(z) : Generation[f] = n /\ w \in History(f)
      BY <2>3, <2>5, <3>1, Between
    <3>3. f \in Commit /\ f \in History(tip)
      BY <1>1, <2>3, <3>2, HistoryTransitive
    <3>4. f \in Within(Batch)
      BY <2>3, <2>5, <3>1, <3>2, <3>3 DEF Within, Distance
    <3>5. f \notin Within(Batch - 1)
      <4>. SUFFICES ASSUME NEW x \in Cuts, f \in History(x), Distance(x, f) <= Batch - 1
                    PROVE  FALSE
        BY DEF Within
      <4>1. x \in Commit
        BY <1>1, HistoryClosed DEF Cuts
      <4>2. w \in History(x)
        BY <3>2, <4>1, HistoryTransitive
      <4>3. Generation[z] <= Generation[x] /\ Generation[x] \in Nat
        BY <2>2, <4>1, <4>2, GenerationAssumption
      <4>. QED BY <2>5, <3>1, <3>2, <4>3 DEF Distance
    <3>6. f \notin Roots
      <4>1. w # f
        BY <3>1, <3>2
      <4>. QED BY <3>2, <4>1, HistoryOfRoot
    <3>7. f \in shallow'
      BY <1>3, <3>4, <3>5, <3>6
    <3>8. Distance(f, w) <= (Rounds - 1 - round') * Batch
      BY <1>1, <2>5, <3>1, <3>2 DEF Distance
    <3>9. Near(w)'
      BY <1>1, <3>2, <3>3, <3>7, <3>8 DEF Near, Above
    <3>. QED BY <3>9
  <2>. QED BY <2>5, <2>6, <2>7, CheckoutAssumption
<1>. QED BY <1>6, <1>7

(* And the edge of what is known of the branch.                             *)
LEMMA EdgeMoves ==
  ASSUME CheckoutInv, ReachInv, Deepen, target.kind = "parent", WithinReach
  PROVE  shallow' \cap History(tip) = Edge'
<1>. DEFINE m == round * Batch
<1>1. /\ TypeOK /\ tip \in Commit /\ round \in Nat /\ round' = round + 1 /\ tip' = tip
      /\ m \in Nat /\ round' * Batch = m + Batch /\ Batch \in Nat /\ Batch >= 1
      /\ pc = "deepen"
  <2>1. /\ TypeOK /\ tip \in Commit /\ round \in Nat /\ round' = round + 1 /\ tip' = tip
        /\ pc = "deepen"
    BY DEF CheckoutInv, TypeOK, Deepen
  <2>2. round * Batch \in Int /\ round * Batch >= 0 /\ (round + 1) * Batch = round * Batch + Batch
    BY <2>1, Batches
  <2>. QED BY <2>1, <2>2, Batches
<1>2. shallow \cap History(tip) = Edge /\ m < target.depth
  BY <1>1 DEF ReachInv, ParentInv
<1>3. shallow' = (shallow \ Within(Batch - 1))
                   \cup (Within(Batch) \ (Within(Batch - 1) \cup Roots))
  BY DEF Deepen
<1>4. target.depth \in Nat
  BY <1>1, CheckoutAssumption DEF TypeOK, Target, Branch, Sha, Parent
<1>5. PICK a \in History(tip) : Distance(tip, a) = target.depth
  BY <1>1 DEF WithinReach, Ancestor
<1>6. Cuts = {z \in History(tip) \ Roots : Distance(tip, z) = m}
  BY <1>2 DEF Cuts, Edge
<1>. HIDE DEF m
<1>7. PICK z \in History(tip) : z \in Cuts
  <2>1. /\ Generation[a] \in Nat /\ Generation[tip] \in Nat
        /\ Generation[tip] - Generation[a] = target.depth
    BY <1>1, <1>5, Generations DEF Distance
  <2>2. Generation[tip] - m \in Nat /\ Generation[a] < Generation[tip] - m
    BY <1>1, <1>2, <1>4, <2>1
  <2>3. PICK z \in History(tip) : Generation[z] = Generation[tip] - m /\ a \in History(z)
    BY <1>1, <1>5, <2>1, <2>2, Between
  <2>4. z # a /\ z \notin Roots
    BY <2>2, <2>3, HistoryOfRoot
  <2>5. Distance(tip, z) = m
    BY <1>1, <2>1, <2>3 DEF Distance
  <2>. QED BY <1>6, <2>4, <2>5
<1>8. ASSUME NEW k \in Int, k >= 0, NEW b \in History(tip)
      PROVE  b \in Within(k) <=> Distance(tip, b) \in m..(m + k)
  <2>1. /\ Generation[b] \in Nat /\ Generation[tip] \in Nat /\ Generation[z] \in Nat
        /\ Generation[tip] - Generation[z] = m /\ z \in Commit
    BY <1>1, <1>6, <1>7, Generations DEF Distance
  <2>2. ASSUME b \in Within(k)
        PROVE  Distance(tip, b) \in m..(m + k)
    <3>1. PICK s \in Cuts : b \in History(s) /\ Distance(s, b) <= k
      BY <2>2 DEF Within
    <3>2. s \in History(tip) /\ Generation[tip] - Generation[s] = m
      BY <1>6 DEF Distance
    <3>3. s \in Commit /\ Generation[s] \in Nat
      BY <1>1, <3>2, Generations
    <3>4. Generation[b] <= Generation[s]
      BY <3>1, <3>3, Generations
    <3>. QED BY <1>1, <2>1, <3>1, <3>2, <3>3, <3>4 DEF Distance
  <2>3. ASSUME Distance(tip, b) \in m..(m + k)
        PROVE  b \in Within(k)
    <3>1. Generation[b] <= Generation[z] /\ Generation[z] - Generation[b] <= k
      BY <1>1, <1>8, <2>1, <2>3 DEF Distance
    <3>2. b \in History(z)
      BY <1>1, <1>7, <3>1, Older
    <3>. QED BY <1>7, <3>1, <3>2 DEF Within, Distance
  <2>. QED BY <2>2, <2>3
<1>9. ASSUME NEW b \in History(tip)
      PROVE  b \in shallow' <=> b \notin Roots /\ Distance(tip, b) = m + Batch
  <2>1. Distance(tip, b) \in Int
    BY <1>1, Generations DEF Distance
  <2>2. /\ b \in Within(Batch) <=> Distance(tip, b) \in m..(m + Batch)
        /\ b \in Within(Batch - 1) <=> Distance(tip, b) \in m..(m + (Batch - 1))
    BY <1>1, <1>8
  <2>3. b \in shallow => b \notin Roots /\ Distance(tip, b) = m
    BY <1>6 DEF Cuts
  <2>. QED BY <1>1, <1>3, <2>1, <2>2, <2>3
<1>10. Edge' = {b \in History(tip) \ Roots : Distance(tip, b) = m + Batch}
  BY <1>1 DEF Edge
<1>. QED BY <1>9, <1>10

LEMMA ReachDeepen ==
  ASSUME CheckoutInv, ReachInv, Deepen
  PROVE  ReachInv'
<1>1. /\ TypeOK /\ pc = "deepen" /\ round \in Nat /\ round' = round + 1 /\ round < Rounds
      /\ UNCHANGED <<tip, head, target, seen, cloned>> /\ fetched' = tip
      /\ target \in Target /\ target.kind # "branch" /\ shallow \subseteq have
  BY DEF CheckoutInv, TypeOK, RouteInv, ReachInv, Deepen
<1>2. shallow' \subseteq have'
  BY <1>1 DEF Deepen
<1>3. WithinReach' = WithinReach
  BY <1>1 DEF WithinReach
<1>4. CASE target.kind = "sha"
  <2>. DEFINE w == target.commit
  <2>1. pc' = "cat-file"
    BY <1>4 DEF Deepen, AfterTip
  <2>2. ASSUME WithinReach
        PROVE  round' < Rounds /\ (w \in have' \/ Near(w)')
    <3>1. w \notin have /\ Near(w)
      BY <1>1, <1>4, <2>2 DEF ReachInv, ShaInv
    <3>2. PICK s \in shallow : /\ w \in History(s) /\ \E t \in seen : s \in History(t)
                               /\ Distance(s, w) <= (Rounds - 1 - round) * Batch
      BY <3>1 DEF Near, Above
    <3>3. s # w /\ s \in Commit
      BY <1>1, <3>1, <3>2 DEF TypeOK
    <3>4. /\ Generation[s] \in Nat /\ Generation[w] \in Nat
          /\ Generation[s] - Generation[w] >= 1
      BY <3>2, <3>3, Generations
    <3>5. Rounds - 1 - round \in Int /\ Rounds \in Nat
      BY <1>1, CheckoutAssumption
    <3>6. (Rounds - 1 - round) * Batch >= 1
      <4>1. (Rounds - 1 - round) * Batch \in Int
        BY <3>5, Batches
      <4>2. Generation[s] - Generation[w] <= (Rounds - 1 - round) * Batch
        BY <3>2 DEF Distance
      <4>. QED BY <3>4, <4>1, <4>2
    <3>7. Rounds - 1 - round >= 1
      BY <3>5, <3>6, Batches
    <3>. QED BY <1>1, <1>4, <2>2, <3>5, <3>7, CutsMove
  <2>3. ShaInv'
    BY <1>1, <1>3, <2>1, <2>2 DEF ShaInv
  <2>. QED BY <1>1, <1>2, <1>4, <2>1, <2>3 DEF ReachInv
<1>5. CASE target.kind = "parent"
  <2>1. pc' = "rev-list"
    BY <1>5 DEF Deepen, AfterTip
  <2>2. ASSUME WithinReach
        PROVE  /\ shallow' \cap History(tip) = Edge' /\ head = tip
               /\ (round' - 1) * Batch < target.depth
    BY <1>1, <1>5, <2>2, EdgeMoves DEF ReachInv, ParentInv
  <2>3. ParentInv'
    BY <1>1, <1>3, <2>1, <2>2 DEF ParentInv
  <2>. QED BY <1>1, <1>2, <1>5, <2>1, <2>3 DEF ReachInv
<1>. QED BY <1>1, <1>4, <1>5, TargetKind

(* A push makes reach no better, and a branch that has moved at all is none *)
(* that FETCH_HEAD~n supposes.                                              *)
LEMMA ReachPush ==
  ASSUME CheckoutInv, ReachInv, Push
  PROVE  ReachInv'
<1>1. /\ UNCHANGED <<have, shallow, pc, target, round, cloned>> /\ tip' # tip
      /\ pc # "idle" => seen' = seen \cup {tip'} /\ tip \in seen
      /\ shallow \subseteq have
  BY DEF CheckoutInv, SeenInv, ReachInv, Push, repo
<1>2. ASSUME target.kind = "sha"
      PROVE  ShaInv'
  <2>1. ShaInv
    BY <1>2 DEF ReachInv
  <2>2. ASSUME WithinReach', pc \in {"cat-file", "deepen"}
        PROVE  WithinReach /\ (Near(target.commit) => Near(target.commit)')
    <3>1. seen \subseteq seen'
      BY <1>1, <2>2
    <3>2. WithinReach
      BY <1>1, <1>2, <2>2, <3>1 DEF WithinReach
    <3>. QED BY <1>1, <3>1, <3>2 DEF Near, Above
  <2>. QED BY <1>1, <2>1, <2>2 DEF ShaInv
<1>3. ASSUME target.kind = "parent"
      PROVE  ParentInv'
  <2>. SUFFICES ASSUME WithinReach', pc # "idle" PROVE FALSE
    BY <1>1 DEF ParentInv
  <2>1. seen' = {tip'} /\ tip \in seen'
    BY <1>1, <1>3 DEF WithinReach
  <2>. QED BY <1>1, <2>1
<1>. QED BY <1>1, <1>2, <1>3 DEF ReachInv

LEMMA ReachElsewhere ==
  ASSUME CheckoutInv, ReachInv,
         \/ Reset \/ Wipe \/ RevParse \/ Hard \/ GiveUp \/ Unresolved \/ Refused
         \/ GitFails \/ Crash \/ End \/ Reschedule
  PROVE  ReachInv'
<1>. DEFINE Away ==
       /\ shallow' \subseteq have'
       /\ pc' \in {"idle", "fetch", "reset", "wipe", "clone", "rev-parse", "done", "failed"}
       /\ pc' \in {"idle", "fetch", "wipe", "clone"} => round' = 0
       /\ pc' \in {"fetch", "reset"} => ~cloned'
<1>0. shallow \subseteq have
  BY DEF ReachInv
<1>1. CASE Reset \/ Wipe \/ RevParse \/ Hard
  <2>1. Reset => pc' = "rev-parse"
    BY DEF CheckoutInv, RouteInv, Reset, AfterTip
  <2>2. Wipe => round' = 0 /\ pc' = "clone" /\ shallow' = {}
    BY DEF ReachInv, Wipe, Removed, locals
  <2>3. Hard => pc' \in {"done", "rev-parse"}
    BY DEF Hard
  <2>4. Away
    BY <1>0, <1>1, <2>1, <2>2, <2>3 DEF Reset, RevParse, Hard, repo
  <2>. QED BY <2>4, NoSearch
<1>2. CASE GiveUp \/ Unresolved \/ Refused \/ GitFails
  <2>1. pc' = "failed" /\ UNCHANGED <<have, shallow>>
    BY <1>2 DEF GiveUp, Unresolved, Refused, Fail, GitFails, repo
  <2>2. Away
    BY <1>0, <2>1
  <2>. QED BY <2>2, NoSearch
<1>3. CASE Crash \/ End \/ Reschedule
  <2>1. pc' = "idle" /\ round' = 0
    BY <1>3 DEF ReachInv, Crash, End, Reschedule, Idle, locals
  <2>2. CASE Crash
    <3>1. pc = "clone" => shallow' = have' \ Roots
      BY <2>2 DEF Crash, LeavesClone
    <3>2. pc # "clone" => shallow' = shallow /\ have' = have
      BY <2>2 DEF Crash, repo
    <3>. QED BY <1>0, <2>1, <3>1, <3>2, NoSearch
  <2>3. CASE End \/ Reschedule
    <3>1. shallow' \subseteq have'
      BY <1>0, <2>3 DEF End, Reschedule, Removed, repo
    <3>. QED BY <2>1, <3>1, NoSearch
  <2>. QED BY <1>3, <2>2, <2>3
<1>. QED BY <1>1, <1>2, <1>3

LEMMA ReachStep == CheckoutInv /\ ReachInv /\ [Next]_vars => ReachInv'
<1>. SUFFICES ASSUME CheckoutInv, ReachInv, [Next]_vars
              PROVE  ReachInv'
  OBVIOUS
<1>1. CASE \E t \in Target : Start(t)
  BY <1>1, ReachStart
<1>2. CASE Fetch \/ Clone
  BY <1>2, ReachTip
<1>3. CASE CatFile \/ RevList \/ Deepen \/ Switch
  BY <1>3, ReachCatFile, ReachRevList, ReachDeepen, ReachSwitch
<1>4. CASE Reset \/ Wipe \/ RevParse \/ Hard \/ GiveUp \/ Unresolved \/ Refused
  BY <1>4, ReachElsewhere
<1>5. CASE GitFails \/ Crash \/ End \/ Reschedule
  BY <1>5, ReachElsewhere
<1>6. CASE Push
  BY <1>6, ReachPush
<1>7. CASE Quieten \/ UNCHANGED vars
  <2>1. UNCHANGED <<tip, have, shallow, head, pc, target, round, seen, cloned, fetched>>
    BY <1>7 DEF Quieten, vars, repo, locals
  <2>2. /\ WithinReach' = WithinReach /\ Edge' = Edge
        /\ Near(target.commit)' = Near(target.commit)
    BY <2>1 DEF WithinReach, Edge, Near, Above
  <2>. QED BY <2>1, <2>2 DEF ReachInv, ShaInv, ParentInv
<1>. QED BY <1>1, <1>2, <1>3, <1>4, <1>5, <1>6, <1>7 DEF Next, Step, GitStep

(* Whoever gives up on a target, or finds that it does not resolve, has     *)
(* looked as far as the cap allows: a commit asked for is farther than that *)
(* from a tip the branch had meanwhile, or not in its history, or the branch*)
(* left its line; FETCH_HEAD~n is farther away than that, or the branch     *)
(* moved or the work dir was used before.                                   *)
LEMMA ReachGivesUp ==
  ASSUME CheckoutInv, ReachInv, GiveUp \/ Unresolved
  PROVE  ~WithinReach
<1>. SUFFICES ASSUME WithinReach PROVE FALSE
  OBVIOUS
<1>0. /\ TypeOK /\ target \in Target /\ tip \in Commit /\ round \in Nat
      /\ pc \in {"cat-file", "rev-list", "checkout", "hard"}
  BY DEF CheckoutInv, TypeOK, GiveUp, Unresolved
<1>1. CASE target.kind = "sha"
  <2>1. pc # "rev-list" /\ ShaInv
    BY <1>1 DEF CheckoutInv, RouteInv, ReachInv
  <2>2. CASE pc = "cat-file"
    BY <1>0, <2>1, <2>2, CheckoutAssumption DEF ShaInv, GiveUp, Unresolved
  <2>3. CASE pc \in {"checkout", "hard"}
    BY <1>1, <2>1, <2>3 DEF ShaInv, GiveUp, Unresolved, Named
  <2>. QED BY <1>0, <2>1, <2>2, <2>3
<1>2. CASE target.kind = "parent"
  <2>1. pc # "cat-file" /\ ParentInv
    BY <1>2 DEF CheckoutInv, RouteInv, ReachInv
  <2>2. target.depth \in Nat /\ target.depth >= 1 /\ target.depth <= Cap
    BY <1>0, <1>2, CheckoutAssumption DEF WithinReach, Target, Branch, Sha, Parent
  <2>3. CASE pc = "rev-list"
    <3>1. head = tip /\ (round = 0 \/ (round - 1) * Batch < target.depth)
      BY <2>1, <2>3 DEF ParentInv
    <3>2. round = Rounds
      BY <1>0, <2>3, <3>1, CheckoutAssumption DEF GiveUp, Unresolved
    <3>3. Rounds # 0 /\ Cap \in Int
      BY <1>0, <3>2, Batches DEF Cap
    <3>. QED BY <2>2, <3>1, <3>2, <3>3 DEF Cap
  <2>4. CASE pc \in {"checkout", "hard"}
    <3>1. /\ shallow \cap History(tip) = Edge /\ target.depth <= round * Batch
          /\ round > 0 => fetched = tip
      BY <2>1, <2>4 DEF ParentInv
    <3>2. fetched = tip
      <4>1. round * Batch \in Int /\ (round * Batch >= 1 => round >= 1)
        BY <1>0, Batches
      <4>. QED BY <1>0, <2>2, <3>1, <4>1
    <3>3. Known(tip) = Newest(tip, round * Batch)
      BY <1>0, <3>1, KnownNewest
    <3>4. PICK a \in History(tip) : Distance(tip, a) = target.depth
      BY <1>2 DEF WithinReach, Ancestor
    <3>5. a \in Ancestor(Known(tip), tip, target.depth)
      BY <3>1, <3>3, <3>4 DEF Ancestor, Newest
    <3>6. Named = Ancestor(Known(tip), tip, target.depth)
      BY <1>0, <1>2, <3>2, CheckoutAssumption DEF Named
    <3>7. Named = {}
      BY <2>4 DEF GiveUp, Unresolved
    <3>. QED BY <3>5, <3>6, <3>7
  <2>. QED BY <1>0, <2>1, <2>3, <2>4
<1>3. CASE target.kind = "branch"
  BY <1>0, <1>3 DEF CheckoutInv, RouteInv
<1>. QED BY <1>0, <1>1, <1>2, <1>3, TargetKind

LEMMA ReachInductive == Spec => [](CheckoutInv /\ ReachInv)
BY CheckoutInit, CheckoutPreserved, ReachInit, ReachStep, PTL DEF Spec

THEOREM CheckoutGivesUpBeyondReach == Spec => GivesUpBeyondReach
<1>1. CheckoutInv /\ ReachInv /\ [Next]_vars => [GiveUp \/ Unresolved => ~WithinReach]_vars
  BY ReachGivesUp
<1>. QED BY <1>1, ReachInductive, PTL DEF Spec, GivesUpBeyondReach
-----------------------------------------------------------------------------
(* Documents, opened List by List.                                          *)
LEMMA DocumentInduction ==
  ASSUME NEW S \in SUBSET Document, \A d \in Document : Items(d) \subseteq S => d \in S
  PROVE  S = Document
<1>. SUFFICES ASSUME Document \ S # {} PROVE FALSE
  OBVIOUS
<1>. DEFINE T == {Nesting[d] : d \in Document \ S}
<1>1. T \in SUBSET Nat /\ T # {}
  BY DocumentAssumption
<1>2. PICK n \in T : \A m \in T : n <= m
  <2>. HIDE DEF T
  <2>. QED BY <1>1, Least
<1>3. PICK d \in Document \ S : Nesting[d] = n
  BY <1>2
<1>4. ASSUME NEW i \in Items(d)
      PROVE  i \in S
  <2>1. i \in Document /\ Nesting[i] < Nesting[d] /\ Nesting[i] \in Nat /\ Nesting[d] \in Nat
    BY DocumentAssumption
  <2>2. i \notin S => Nesting[i] \in T
    BY <2>1
  <2>. QED BY <1>2, <1>3, <2>1, <2>2
<1>. QED BY <1>3, <1>4

(* A document and what its Lists hold, at any depth.                        *)
Contents(d) == {y \in Document : \A S \in Opened : d \in S => y \in S}

LEMMA ContentsOpened ==
  ASSUME NEW d \in Document
  PROVE  Contents(d) \in Opened /\ d \in Contents(d)
<1>1. ASSUME NEW x \in Contents(d), NEW i \in Items(x)
      PROVE  i \in Contents(d)
  <2>1. i \in Document
    BY DocumentAssumption DEF Contents
  <2>2. ASSUME NEW S \in Opened, d \in S
        PROVE  i \in S
    BY <2>2 DEF Contents, Opened
  <2>. QED BY <2>1, <2>2 DEF Contents
<1>. QED BY <1>1 DEF Contents, Opened

LEMMA ContentsOfItems ==
  ASSUME NEW d \in Document
  PROVE  Contents(d) = {d} \cup UNION {Contents(i) : i \in Items(d)}
<1>. DEFINE S == {d} \cup UNION {Contents(i) : i \in Items(d)}
<1>1. \A i \in Items(d) : i \in Document /\ i \in Contents(i) /\ Contents(i) \in Opened
  BY DocumentAssumption, ContentsOpened
<1>2. S \in Opened
  <2>1. S \subseteq Document
    BY DEF Contents
  <2>2. ASSUME NEW x \in S, NEW j \in Items(x)
        PROVE  j \in S
    <3>1. CASE x = d
      BY <1>1, <3>1
    <3>2. CASE \E i \in Items(d) : x \in Contents(i)
      BY <1>1, <3>2 DEF Opened
    <3>. QED BY <3>1, <3>2
  <2>. HIDE DEF S
  <2>. QED BY <2>1, <2>2 DEF Opened
<1>3. Contents(d) \subseteq S
  BY <1>2 DEF Contents
<1>4. ASSUME NEW i \in Items(d), NEW y \in Contents(i)
      PROVE  y \in Contents(d)
  BY <1>4 DEF Contents, Opened
<1>. QED BY <1>3, <1>4, ContentsOpened

LEMMA MentionedItems ==
  ASSUME NEW d \in Document
  PROVE  Mentioned(d) = CASE d.doc = "list"     -> UNION {Mentioned(i) : i \in d.items}
                          [] d.doc = "resource" -> {d.key}
                          [] OTHER              -> {}
<1>1. \A x : Mentioned(x) = {y.key : y \in {z \in Contents(x) : z.doc = "resource"}}
  BY DEF Mentioned, Contents
<1>2. Contents(d) = {d} \cup UNION {Contents(i) : i \in Items(d)}
  BY ContentsOfItems
<1>3. CASE d.doc = "list"
  <2>1. {z \in Contents(d) : z.doc = "resource"}
          = UNION {{z \in Contents(i) : z.doc = "resource"} : i \in d.items}
    BY <1>2, <1>3 DEF Items
  <2>. QED BY <1>1, <1>3, <2>1
<1>4. CASE d.doc = "resource"
  BY <1>1, <1>2, <1>4 DEF Items
<1>5. CASE d.doc \notin {"list", "resource"}
  <2>1. {z \in Contents(d) : z.doc = "resource"} = {}
    BY <1>2, <1>5 DEF Items
  <2>. QED BY <1>1, <1>5, <2>1
<1>. QED BY <1>3, <1>4, <1>5

(* The parser finds the resources a document mentions. (The definition is   *)
(* satisfied by what is mentioned, and by no other function.)               *)
LEMMA ExpandsToMentioned ==
  ASSUME NEW d \in Document
  PROVE  expand_value[d] = Mentioned(d)
<1>. DEFINE Of(f, x) == CASE x.doc = "list"     -> UNION {f[i] : i \in x.items}
                          [] x.doc = "resource" -> {x.key}
                          [] OTHER              -> {}
            S == {x \in Document : expand_value[x] = Mentioned(x)}
<1>. DEFINE g == [x \in Document |-> Mentioned(x)]
<1>1. \A x \in Document : x.doc = "list" => \A i \in x.items : i \in Document
  BY DocumentAssumption DEF Items
<1>2. ASSUME NEW x \in Document
      PROVE  Of(g, x) = Mentioned(x)
  <2>1. CASE x.doc = "list"
    <3>1. UNION {g[i] : i \in x.items} = UNION {Mentioned(i) : i \in x.items}
      BY <1>1, <2>1
    <3>. QED BY <2>1, <3>1, MentionedItems
  <2>2. CASE x.doc # "list"
    BY <2>2, MentionedItems
  <2>. QED BY <2>1, <2>2
<1>3. g = [x \in Document |-> Of(g, x)]
  BY <1>2
<1>4. expand_value = CHOOSE f : f = [x \in Document |-> Of(f, x)]
  BY DEF expand_value
<1>. HIDE DEF g
<1>5. expand_value = [x \in Document |-> Of(expand_value, x)]
  <2>. HIDE DEF Of
  <2>. QED BY <1>3, <1>4
<1>6. ASSUME NEW x \in Document, Items(x) \subseteq S
      PROVE  x \in S
  <2>1. expand_value[x] = Of(expand_value, x)
    BY <1>5
  <2>2. CASE x.doc = "list"
    <3>1. \A i \in x.items : expand_value[i] = Mentioned(i)
      BY <1>6, <2>2 DEF Items
    <3>2. UNION {expand_value[i] : i \in x.items} = UNION {Mentioned(i) : i \in x.items}
      BY <3>1
    <3>. QED BY <2>1, <2>2, <3>2, MentionedItems
  <2>3. CASE x.doc # "list"
    BY <2>1, <2>3, MentionedItems
  <2>. QED BY <2>2, <2>3
<1>7. S = Document
  <2>. HIDE DEF S
  <2>1. S \in SUBSET Document
    BY DEF S
  <2>. QED BY <1>6, <2>1, DocumentInduction
<1>. QED BY <1>7

-----------------------------------------------------------------------------
(* The files below the directories matched are those of the path.           *)
LEMMA Prefixed ==
  ASSUME NEW X, NEW at \in Seq(X), NEW n \in 0..Len(at)
  PROVE  /\ Upto(at, n) \in Seq(X) /\ Len(Upto(at, n)) = n
         /\ Upto(Upto(at, n), n) = Upto(at, n)
<1>1. Upto(at, n) \in Seq(X) /\ Len(Upto(at, n)) = n
  BY SubSeqProperties, LenProperties DEF Upto
<1>. QED BY <1>1, SubSeqFull DEF Upto

LEMMA FilesInPath ==
  ASSUME NEW c \in Commit, NEW p \in Paths, NEW f \in Tree[c],
         NEW matched, matched = {d \in Directories(Tree[c]) : \E q \in p : glob(q, d)}
  PROVE  (\E r \in matched : IsPrefix(r, f.at))
           <=> (\E n \in 0..Len(f.at), q \in p : glob(q, Upto(f.at, n)))
<1>0. f.at \in Seq(ToSet(f.at)) /\ Len(f.at) \in Nat
  BY TreeAssumption, LenProperties
<1>1. ASSUME NEW r \in matched, IsPrefix(r, f.at)
      PROVE  r = Upto(f.at, Len(r)) /\ Len(r) \in 0..Len(f.at)
  <2>1. r \in Directories(Tree[c])
    BY <1>1
  <2>2. Len(r) \in Nat /\ SubSeq(r, 1, Len(r)) = r
    <3>1. CASE r = <<>>
      <4>1. r \in Seq({})
        BY <3>1, EmptySeq
      <4>. QED BY <4>1, SubSeqFull, LenProperties
    <3>2. CASE r = <<".git">>
      <4>1. r \in Seq({".git"})
        BY <3>2
      <4>. QED BY <4>1, SubSeqFull, LenProperties
    <3>3. CASE \E g \in Tree[c] : \E n \in 0..Len(g.at) : r = Upto(g.at, n)
      <4>0. PICK g \in Tree[c] : \E n \in 0..Len(g.at) : r = Upto(g.at, n)
        BY <3>3
      <4>1. PICK n \in 0..Len(g.at) : r = Upto(g.at, n)
        BY <4>0
      <4>2. g.at \in Seq(ToSet(g.at))
        BY TreeAssumption
      <4>3. r \in Seq(ToSet(g.at))
        BY <4>1, <4>2, Prefixed
      <4>. QED BY <4>3, SubSeqFull, LenProperties
    <3>. QED BY <2>1, <3>1, <3>2, <3>3 DEF Directories
  <2>. QED BY <1>0, <1>1, <2>2 DEF IsPrefix, Upto
<1>2. ASSUME NEW n \in 0..Len(f.at), NEW q \in p, glob(q, Upto(f.at, n))
      PROVE  Upto(f.at, n) \in matched /\ IsPrefix(Upto(f.at, n), f.at)
  <2>1. Upto(f.at, n) \in Directories(Tree[c])
    BY DEF Directories
  <2>2. Len(Upto(f.at, n)) = n /\ Upto(Upto(f.at, n), n) = Upto(f.at, n)
    BY <1>0, Prefixed
  <2>3. IsPrefix(Upto(f.at, n), f.at)
    BY <1>0, <2>2 DEF IsPrefix, Upto
  <2>. QED BY <1>2, <2>1, <2>3
<1>3. ASSUME NEW r \in matched, IsPrefix(r, f.at)
      PROVE  \E n \in 0..Len(f.at), q \in p : glob(q, Upto(f.at, n))
  <2>1. PICK q \in p : glob(q, r)
    OBVIOUS
  <2>2. glob(q, Upto(f.at, Len(r)))
    BY <1>1, <1>3, <2>1
  <2>. QED BY <1>1, <1>3, <2>2
<1>. QED BY <1>2, <1>3

LEMMA ParsedFile ==
  ASSUME NEW c \in Commit, NEW f \in Tree[c]
  PROVE  parse_str(f) = IF f.parses THEN Found(UNION {Mentioned(d) : d \in f.docs}) ELSE Failed
<1>1. \A d \in f.docs : expand_value[d] = Mentioned(d)
  BY TreeAssumption, ExpandsToMentioned
<1>2. UNION {expand_value[d] : d \in f.docs} = UNION {Mentioned(d) : d \in f.docs}
  BY <1>1
<1>. QED BY <1>2 DEF parse_str

(* What a pass reads of a work dir without untracked files: nothing at all  *)
(* if no directory matches, a failure if a file of the path does not parse, *)
(* or what the files of the path declare.                                   *)
LEMMA ReadingDeclares ==
  ASSUME NEW c \in Commit, NEW p \in Paths, ~\E q \in p : Invalid(q)
  PROVE  \/ Reading[c][c][p] = Unmatched /\ InPath[c][p] = {}
         \/ Reading[c][c][p] = Failed /\ \E f \in InPath[c][p] : ~f.parses
         \/ Reading[c][c][p] = Found(Declared[c][p]) /\ \A f \in InPath[c][p] : f.parses
<1>. DEFINE files == Tree[c]
            matched == {d \in Directories(files) : \E q \in p : glob(q, d)}
            F(r) == collect_yaml_files(r, files)
            in == InPath[c][p]
<1>1. Reading[c][c][p] = IF matched = {} THEN Unmatched ELSE parse_paths(matched, files)
  <2>1. Reading[c][c][p] = IF expand_roots(p, files).ok THEN parse_paths(expand_roots(p, files).roots, files)
                           ELSE expand_roots(p, files)
    <3>1. files \cup files = files
      OBVIOUS
    <3>. QED BY <3>1 DEF Reading
  <2>2. expand_roots(p, files) = IF matched = {} THEN Unmatched ELSE [ok |-> TRUE, roots |-> matched]
    BY DEF expand_roots
  <2>. HIDE DEF matched
  <2>3. CASE matched = {}
    BY <2>1, <2>2, <2>3 DEF Unmatched
  <2>4. CASE matched # {}
    BY <2>1, <2>2, <2>4
  <2>. QED BY <2>3, <2>4
<1>2. in = UNION {F(r) : r \in matched}
  <2>1. in = {f \in files : f.yaml /\ \E n \in 0..Len(f.at), q \in p : glob(q, Upto(f.at, n))}
    BY DEF InPath
  <2>2. \A f \in files : (\E r \in matched : IsPrefix(r, f.at))
                           <=> (\E n \in 0..Len(f.at), q \in p : glob(q, Upto(f.at, n)))
    BY FilesInPath
  <2>. HIDE DEF in, matched
  <2>. QED BY <2>1, <2>2 DEF collect_yaml_files
<1>3. ASSUME NEW r \in matched
      PROVE  parse_dir(r, files) = IF \E f \in F(r) : ~f.parses THEN Failed
                                   ELSE Found(UNION {UNION {Mentioned(d) : d \in f.docs} : f \in F(r)})
  <2>. DEFINE results == {parse_str(f) : f \in F(r)}
  <2>1. \A f \in F(r) : parse_str(f) = IF f.parses THEN Found(UNION {Mentioned(d) : d \in f.docs}) ELSE Failed
    BY ParsedFile DEF collect_yaml_files
  <2>2. parse_dir(r, files) = Collect(results)
    BY DEF parse_dir
  <2>3. CASE \E f \in F(r) : ~f.parses
    <3>1. PICK f \in F(r) : ~f.parses
      BY <2>3
    <3>2. parse_str(f) = Failed /\ parse_str(f) \in results
      BY <2>1, <3>1
    <3>3. ~Failed.ok
      BY DEF Failed
    <3>. HIDE DEF results
    <3>. QED BY <2>2, <2>3, <3>2, <3>3 DEF Collect
  <2>4. CASE \A f \in F(r) : f.parses
    <3>1. \A f \in F(r) : parse_str(f) = Found(UNION {Mentioned(d) : d \in f.docs})
      BY <2>1, <2>4
    <3>2. \A x \in results : x.ok
      BY <3>1 DEF Found
    <3>3. \A f \in F(r) : parse_str(f).keys = UNION {Mentioned(d) : d \in f.docs}
      BY <3>1 DEF Found
    <3>4. {x.keys : x \in results} = {parse_str(f).keys : f \in F(r)}
      OBVIOUS
    <3>5. {x.keys : x \in results} = {UNION {Mentioned(d) : d \in f.docs} : f \in F(r)}
      BY <3>3, <3>4
    <3>. HIDE DEF results
    <3>. QED BY <2>2, <2>4, <3>2, <3>5 DEF Collect
  <2>. QED BY <2>3, <2>4
<1>4. parse_paths(matched, files) = IF \E f \in in : ~f.parses THEN Failed
                                    ELSE Found(UNION {UNION {Mentioned(d) : d \in f.docs} : f \in in})
  <2>. DEFINE results == {parse_dir(r, files) : r \in matched}
              K(f) == UNION {Mentioned(d) : d \in f.docs}
              L(r) == UNION {K(f) : f \in F(r)}
  <2>2. parse_paths(matched, files) = Collect(results)
    BY DEF parse_paths
  <2>. HIDE DEF matched, in
  <2>3. CASE \E f \in in : ~f.parses
    <3>1. PICK r \in matched : \E f \in F(r) : ~f.parses
      BY <1>2, <2>3
    <3>2. parse_dir(r, files) = Failed
      BY <1>3, <3>1
    <3>3. \E x \in results : ~x.ok
      BY <3>2 DEF Failed
    <3>. QED BY <2>2, <2>3, <3>3 DEF Collect
  <2>4. CASE \A f \in in : f.parses
    <3>1. \A r \in matched : parse_dir(r, files) = Found(L(r))
      BY <1>2, <1>3, <2>4
    <3>2. UNION {L(r) : r \in matched} = UNION {K(f) : f \in in}
      BY <1>2
    <3>. HIDE DEF K, L
    <3>3. ASSUME NEW r \in matched
          PROVE  parse_dir(r, files).ok /\ parse_dir(r, files).keys = L(r)
      <4>1. parse_dir(r, files) = Found(L(r))
        BY <3>1
      <4>2. Found(L(r)).ok /\ Found(L(r)).keys = L(r)
        BY DEF Found
      <4>. QED BY <4>1, <4>2
    <3>4. /\ {x.keys : x \in results} = {parse_dir(r, files).keys : r \in matched}
          /\ \A x \in results : x.ok
      BY <3>3
    <3>5. {x.keys : x \in results} = {L(r) : r \in matched}
      BY <3>3, <3>4
    <3>. HIDE DEF results
    <3>6. Collect(results) = Found(UNION {K(f) : f \in in})
      BY <3>2, <3>4, <3>5 DEF Collect
    <3>. QED BY <2>2, <2>4, <3>6 DEF K
  <2>. QED BY <2>3, <2>4
<1>5. Declared[c][p] = UNION {UNION {Mentioned(d) : d \in f.docs} : f \in in}
  <2>1. Declared[c][p] = UNION {Mentioned(d) : d \in UNION {f.docs : f \in in}}
    BY DEF Declared
  <2>. HIDE DEF in
  <2>. QED BY <2>1
<1>. HIDE DEF matched, in
<1>6. matched = {} => in = {}
  BY <1>2
<1>. QED BY <1>1, <1>4, <1>5, <1>6 DEF in

-----------------------------------------------------------------------------
(* A pass is a checkout and what is done with the files it leaves: the work *)
(* dir is as the checkout left it when they are read.                       *)
SourceInv == CheckoutInv /\ path \in Paths

LEMMA SourceStep == SourceInv /\ [SNext]_svars => SourceInv'
<1>. SUFFICES ASSUME SourceInv, [SNext]_svars
              PROVE  SourceInv'
  OBVIOUS
<1>1. [Next]_vars
  <2>1. CASE CheckoutStep \/ Elsewhere
    BY <2>1 DEF CheckoutStep, Elsewhere, Next, Step
  <2>2. CASE Reconcile \/ PassFails
    BY <2>2 DEF Reconcile, PassFails
  <2>3. CASE PassEnds \/ PassCrashes \/ Reconfigure
    BY <2>3 DEF PassEnds, PassCrashes, Reconfigure, Next, Step
  <2>4. CASE UNCHANGED svars
    BY <2>4 DEF svars
  <2>. QED BY <2>1, <2>2, <2>3, <2>4 DEF SNext, PassStep
<1>2. path' \in Paths
  <2>1. CASE Reconfigure
    BY <2>1 DEF Reconfigure
  <2>2. CASE ~Reconfigure
    <3>1. path' = path
      BY <2>2 DEF SNext, PassStep, CheckoutStep, Elsewhere, Reconcile, PassFails, PassEnds,
                  PassCrashes, svars
    <3>. QED BY <3>1 DEF SourceInv
  <2>. QED BY <2>1, <2>2
<1>. QED BY <1>1, <1>2, CheckoutPreserved DEF SourceInv

LEMMA SourceInductive == SSpec => []SourceInv
<1>1. SInit => SourceInv
  BY CheckoutInit DEF SInit, SourceInv
<1>. QED BY <1>1, SourceStep, PTL DEF SSpec

LEMMA ReconcileApplies ==
  ASSUME SourceInv, Reconcile, Valid, ~stray
  PROVE  IF outcome' = "synced" THEN Parses(sha) /\ applied' = Declared[sha][path]
         ELSE applied' = applied
<1>1. tree = sha /\ sha \in Commit /\ path \in Paths
  <2>1. pc = "done" /\ tree = sha /\ Serves(sha) /\ target \in Target /\ seen \subseteq Commit
    BY DEF SourceInv, CheckoutInv, PlaceInv, TypeOK, Reconcile
  <2>2. sha \in Commit
    <3>1. CASE target.kind = "branch"
      BY <2>1, <3>1 DEF Serves
    <3>2. CASE target.kind = "sha"
      BY <2>1, <3>2, TargetKind DEF Serves
    <3>3. CASE target.kind = "parent"
      <4>1. PICK t \in seen : sha \in Ancestor(History(t), t, target.depth)
        BY <2>1, <3>3 DEF Serves
      <4>. QED BY <2>1, <4>1, HistoryClosed DEF Ancestor
    <3>. QED BY <2>1, <3>1, <3>2, <3>3, TargetKind
  <2>. QED BY <2>1, <2>2 DEF SourceInv
<1>. DEFINE read == Reading[sha][sha][path]
<1>2. \/ read.ok /\ outcome' = "synced" /\ applied' = read.keys
      \/ read = Unmatched /\ outcome' = "synced" /\ applied' = {}
      \/ ~read.ok /\ outcome' = "failed" /\ applied' = applied
  BY <1>1 DEF Reconcile
<1>3. \/ read = Unmatched /\ InPath[sha][path] = {}
      \/ read = Failed /\ \E f \in InPath[sha][path] : ~f.parses
      \/ read = Found(Declared[sha][path]) /\ \A f \in InPath[sha][path] : f.parses
  BY <1>1, ReadingDeclares DEF Valid
<1>. HIDE DEF read
<1>4. CASE read = Unmatched /\ InPath[sha][path] = {}
  <2>1. Parses(sha)
    BY <1>4 DEF Parses
  <2>2. Declared[sha][path] = {}
    BY <1>1, <1>4 DEF Declared
  <2>. QED BY <1>2, <1>4, <2>1, <2>2 DEF Unmatched
<1>5. CASE read = Failed
  BY <1>2, <1>5 DEF Failed, Unmatched
<1>6. CASE read = Found(Declared[sha][path]) /\ \A f \in InPath[sha][path] : f.parses
  BY <1>2, <1>6 DEF Found, Unmatched, Parses
<1>. QED BY <1>3, <1>4, <1>5, <1>6

(* A pass applies and remembers exactly what the commit it checked out      *)
(* declares below the path, for any histories, trees, Lists and paths, or   *)
(* leaves what is applied alone; whatever the passes before it were killed  *)
(* at, as long as no half-finished reset left untracked files.              *)
THEOREM PassAppliesTheCommit == SSpec => AppliesTheCommit
<1>1. SourceInv /\ [SNext]_svars
        => [Reconcile /\ Valid /\ ~stray =>
              IF outcome' = "synced" THEN Parses(sha) /\ applied' = Declared[sha][path]
              ELSE applied' = applied]_svars
  BY ReconcileApplies
<1>. QED BY <1>1, SourceInductive, PTL DEF SSpec, AppliesTheCommit
=============================================================================
