--------------------------- MODULE MergeRun_proofs ---------------------------
(***************************************************************************)
(* Theorems about MergeRun, on both routes, for any number of runs,        *)
(* deaths, commits and pull requests, and any redo limit.                  *)
(***************************************************************************)
EXTENDS MergeRun, FiniteSetTheorems, WellFoundedInduction, TLAPS

\* The two windows of the code, closed.
Uninterrupted == "resolve" \notin Windows
OnBase == "switch" \notin Windows

-----------------------------------------------------------------------------
(* Types *)

Ancestry == SUBSET Nat
PullRequest == [state : {"open", "closed", "merged"}, draft : BOOLEAN, head : Ancestry]

HubType == [on : BOOLEAN, branch : Ancestry, prs : Seq(PullRequest), queued : Nat]
RunType == [tip : Ancestry, locked : Ancestry, head : Ancestry, ibase : Ancestry,
            redo : 0..RedoLimit, pr : Nat]
EnvType == [runs : Nat, deaths : Nat, stray : Nat, moves : Nat, pushes : Nat, hands : Nat]
TakenType == [commit : Ancestry, run : Nat, checked : Ancestry]
SeenType == [stray : Ancestry, judged : Ancestry, tested : SUBSET Ancestry, ci : SUBSET Ancestry,
             checked : Ancestry, took : SUBSET TakenType, queued : BOOLEAN]

Typed ==
    /\ made \in Nat
    /\ integ \in Ancestry /\ base \in Ancestry /\ second \in Ancestry
    /\ wt \in {"absent", "clean", "changed", "merging"}
    /\ main \in {"ready", "dirty", "switched"}
    /\ hub \in HubType /\ hub.queued =< Len(hub.prs)
    /\ run \in RunType
    /\ lock \in {"none", "held", "lost"}
    /\ res.value \in {"none", "merged", "already_merged", "not_merged"}
    /\ env \in EnvType
    /\ seen \in SeenType

\* The steps of one route only.
PrSteps == {"resolve", "create_push", "create_pr", "read_tip", "push", "ci_head", "ci_checks",
            "pr_state", "pr_merge", "pr_confirm"}
LocalSteps == {"merged", "tree", "tree_check", "tip_check", "local_merge", "parents"}

Routed ==
    /\ pc \in Terminal \cup Calls \cup {"release", "remove", "delete", "render"}
    /\ pc \in PrSteps => hub.on
    /\ pc \in LocalSteps => ~hub.on
    /\ ~hub.on => Len(hub.prs) = 0

\* On the pull request route a run has its pull request from the lock on.
HasPr ==
    hub.on /\ pc \in {"lock", "recheck", "worktree", "add", "abort", "integrate", "integrate_merge",
                      "conflict", "read_head", "commands", "verify_head", "base_check", "lock_check"}
                     \cup (PrSteps \ {"resolve", "create_push", "create_pr"})
        => run.pr \in DOMAIN hub.prs

Shape == Typed /\ Routed /\ HasPr

\* No commit is in anything before it is made.
Numbered ==
    /\ integ \cup base \cup second \cup hub.branch \subseteq 1..made
    /\ run.tip \cup run.locked \cup run.head \cup run.ibase \subseteq 1..made
    /\ seen.stray \cup seen.judged \subseteq 1..made
    /\ \A t \in seen.took : t.commit \subseteq 1..made

-----------------------------------------------------------------------------
(* The worktree, and what a result says *)

\* A conflict is resolved in a worktree with a merge in it; a worktree has its branch.
CheckedOut ==
    /\ pc = "conflict" => wt = "merging"
    /\ wt # "absent" => integ # {}

\* What backs the word merged.
Backed ==
    /\ main # "switched"
    /\ \A i \in DOMAIN hub.prs : hub.prs[i].state = "merged" => hub.prs[i].head \subseteq base
    /\ pc = "local_merge" => run.head \subseteq integ
    /\ pc = "parents" => run.head \subseteq base

-----------------------------------------------------------------------------
(* What is merged *)

Merging == {"lock_check", "pr_state", "pr_merge", "tree_check", "tip_check", "local_merge"}
Tested == {"push", "ci_head", "ci_checks", "base_check", "pr_confirm", "parents"} \cup Merging
Combined == {"commands", "verify_head"} \cup Tested
Integrated == {"integrate_merge", "conflict", "read_head"} \cup Combined

Judged(c) == c \cap seen.stray \subseteq seen.judged

\* The branch is c, or has gone beyond it.
Beyond(b, c) == b = c \/ ~(b \subseteq c)

\* Commits of others get into the base and the pushed branch through the branch.
StrayIntegrated ==
    integ # {} => (base \cup hub.branch) \cap seen.stray \subseteq integ

\* The head a run works on holds judged commits only, and so does its base.
HeadJudged ==
    /\ run.tip \subseteq seen.judged
    /\ pc \in Calls \ ({"integrate"} \cup Integrated) => run.redo = 0
    /\ pc \in Integrated \/ (pc = "integrate" /\ run.redo # 0) =>
        run.head # {} /\ Judged(run.head)
    /\ pc \in Integrated => Judged(run.ibase) /\ Beyond(integ, run.head)
    /\ pc = "conflict" => integ = run.head
    /\ pc = "read_head" => Judged(integ) /\ run.ibase \subseteq integ /\ integ # {}
    /\ pc \in Combined => run.ibase \subseteq run.head

\* The checks a run has behind it were of this head.
HeadTested ==
    /\ pc = "verify_head" /\ wt = "clean" => ~(integ \subseteq run.head) \/ run.head \in seen.tested
    /\ pc \in Tested => run.head \in seen.tested
    /\ hub.on /\ pc = "ci_checks" /\ hub.prs[run.pr].state = "open" => Beyond(hub.branch, run.head)
    /\ hub.on /\ pc \in {"base_check"} \cup Merging /\ hub.prs[run.pr].state = "open" =>
        ~(hub.branch \subseteq run.head) \/ run.head \in seen.ci
    /\ pc \in Merging => seen.checked = run.ibase

\* What this run took is its head, or it will see that it is not.
TookHead ==
    /\ pc \in Calls => res.value = "none"
    /\ \A t \in seen.took :
        /\ t.run =< env.runs
        /\ t.run = env.runs => pc \notin Calls \ {"pr_confirm", "parents"}
        /\ t.run = env.runs /\ pc = "pr_confirm" => t.commit = run.head
        /\ t.run = env.runs /\ pc = "parents" /\ t.commit # run.head =>
            second # run.head /\ ~(integ \subseteq run.head)

Verified == StrayIntegrated /\ HeadJudged /\ HeadTested /\ TookHead /\ MergedIsVerified

-----------------------------------------------------------------------------
(* How often *)

\* Nobody adds commits, handles pull requests, or leaves a merge to the queue.
Alone == seen.stray = {} /\ env.pushes = 0 /\ env.hands = 0 /\ ~seen.queued

IsMerged(i) == hub.prs[i].state = "merged"

\* After the one merge every run finds it before it integrates anything.
Once ==
    /\ pc \in Combined => integ = run.head
    /\ ~seen.queued => hub.queued = 0
    /\ ~hub.on =>
        /\ \A t, u \in seen.took : t.run = u.run
        /\ seen.took # {} => /\ integ \subseteq base
                             /\ pc \notin Calls \ {"preflight", "route", "merged", "parents"}
    /\ hub.on => \A i \in DOMAIN hub.prs : IsMerged(i) =>
        /\ \A j \in DOMAIN hub.prs : IsMerged(j) => i = j
        /\ hub.prs[i].head = integ \/ integ = {}
        /\ pc \notin Calls \ {"preflight", "route", "resolve", "pr_confirm"}
        /\ pc \in {"route", "resolve"} => run.tip = integ /\ integ # {}

IInv ==
    /\ Shape /\ Numbered /\ CheckedOut
    /\ OnBase => Backed /\ ResultIsTrue
    /\ Uninterrupted /\ OnBase => Verified
    /\ Alone => Once
-----------------------------------------------------------------------------
(* The pull request a run works on *)

LEMMA Greatest ==
    ASSUME NEW n \in Nat, NEW S \in SUBSET (1..n), S # {}
    PROVE  \E m \in S : \A k \in S : k =< m
<1> DEFINE T == {n - k : k \in S}
<1>1. T \subseteq Nat /\ T # {}
  <2>1. \A k \in S : n - k \in Nat
    OBVIOUS
  <2>2. T \subseteq Nat
    BY <2>1, Zenon
  <2>3. T # {}
    BY Zenon
  <2> QED
    BY <2>2, <2>3, Zenon
<1>2. PICK x \in T : \A y \in T : ~(<<y, x>> \in OpToRel(<, Nat))
  <2> HIDE DEF T
  <2> QED
    BY <1>1, NatLessThanWellFounded, WFMin, Zenon
<1>3. \A y \in T : ~(y < x)
  <2> HIDE DEF T
  <2>1. ASSUME NEW y \in T, y < x PROVE <<y, x>> \in OpToRel(<, Nat)
    <3>1. <<y, x>> \in Nat \X Nat /\ <<y, x>>[1] < <<y, x>>[2]
      BY <1>1, <2>1
    <3> QED
      BY <3>1, Zenon DEF OpToRel
  <2> QED
    BY <1>2, <2>1, Zenon
<1>4. PICK m \in S : x = n - m
  BY Zenon
<1>5. ASSUME NEW k \in S PROVE k =< m
  <2>1. n - k \in T
    BY Zenon
  <2>2. ~(n - k < n - m)
    BY <2>1, <1>3, <1>4, Zenon
  <2> HIDE DEF T
  <2> QED
    BY <2>2
<1> QED
  BY <1>5, Zenon

\* resolve names an open pull request when its answer is that there is one.
LEMMA OpenIsKnown ==
    ASSUME NEW prs \in Seq(PullRequest), NEW tip, Resolve(prs, tip) = "open"
    PROVE  NewestOpen(prs) \in DOMAIN prs
<1> DEFINE open == {i \in DOMAIN prs : prs[i].state = "open" /\ ~prs[i].draft}
<1>1. open \in SUBSET (1..Len(prs)) /\ Len(prs) \in Nat
  OBVIOUS
<1>2. open # {}
  BY DEF Resolve
<1>3. \E m \in open : \A k \in open : k =< m
  BY <1>1, <1>2, Greatest
<1> QED
  BY <1>3 DEF NewestOpen
-----------------------------------------------------------------------------
(* How a step ends, and what it leaves alone *)

RunField == {"tip", "locked", "head", "ibase", "redo", "pr"}
SeenField == {"stray", "judged", "tested", "ci", "checked", "took", "queued"}
HubField == {"on", "branch", "prs", "queued"}
EnvField == {"runs", "deaths", "stray", "moves", "pushes", "hands"}

\* Fields outside F keep their value.
RunBut(F) == run' \in RunType /\ \A f \in RunField \ F : run'[f] = run[f]
SeenBut(F) == seen' \in SeenType /\ \A f \in SeenField \ F : seen'[f] = seen[f]
HubBut(F) == hub' \in HubType /\ \A f \in HubField \ F : hub'[f] = hub[f]
EnvBut(F) == env' \in EnvType /\ \A f \in EnvField \ F : env'[f] = env[f]

Stopped == pc' \in {"render", "release"} /\ lock' = lock /\ res'.value = "not_merged"
Moved(p) == pc' = p /\ lock' = lock /\ res' = res
Found(c) == /\ pc' \in {"remove", "release"} /\ lock' = lock
            /\ res'.value = "already_merged" /\ res'.known = c

LEMMA Ends ==
    /\ \A p : GoTo(p) => Moved(p)
    /\ \A reason : Stop(reason) => Stopped
    /\ \A commit : FoundMerged(commit) => Found(commit)
BY DEF GoTo, Moved, Stop, Stopped, FoundMerged, Found, NoResult

-----------------------------------------------------------------------------
(* Types and routes *)

LEMMA AncestryOps ==
    /\ {} \in Ancestry
    /\ \A a, b \in Ancestry : a \cup b \in Ancestry
    /\ made \in Nat => {New} \in Ancestry /\ New \in Nat
BY DEF Ancestry, New

LEMMA RunEdits ==
    ASSUME NEW r \in RunType, NEW c \in Ancestry, NEW d \in Ancestry, NEW n \in Nat
    PROVE  /\ [r EXCEPT !.tip = c] \in RunType
           /\ [r EXCEPT !.locked = c] \in RunType
           /\ [r EXCEPT !.head = c] \in RunType
           /\ [r EXCEPT !.head = c, !.ibase = d] \in RunType
           /\ [r EXCEPT !.pr = n] \in RunType
           /\ r.redo < RedoLimit => [r EXCEPT !.redo = @ + 1] \in RunType
<1> USE LimitAssumption DEF RunType
<1>1. [r EXCEPT !.tip = c] \in RunType
  OBVIOUS
<1>2. [r EXCEPT !.locked = c] \in RunType
  OBVIOUS
<1>3. [r EXCEPT !.head = c] \in RunType
  OBVIOUS
<1>4. [r EXCEPT !.head = c, !.ibase = d] \in RunType
  OBVIOUS
<1>5. [r EXCEPT !.pr = n] \in RunType
  OBVIOUS
<1>6. r.redo < RedoLimit => [r EXCEPT !.redo = @ + 1] \in RunType
  OBVIOUS
<1> QED
  BY <1>1, <1>2, <1>3, <1>4, <1>5, <1>6

LEMMA RunFields ==
    ASSUME NEW r \in RunType
    PROVE  /\ DOMAIN r = RunField
           /\ r.tip \in Ancestry /\ r.locked \in Ancestry /\ r.head \in Ancestry
           /\ r.ibase \in Ancestry /\ r.pr \in Nat /\ r.redo \in Nat
BY LimitAssumption DEF RunType, RunField

LEMMA SeenEdits ==
    ASSUME NEW s \in SeenType, NEW c \in Ancestry
    PROVE  /\ [s EXCEPT !.judged = @ \cup c] \in SeenType
           /\ [s EXCEPT !.stray = @ \cup c] \in SeenType
           /\ [s EXCEPT !.tested = @ \cup {c}] \in SeenType
           /\ [s EXCEPT !.ci = @ \cup {c}] \in SeenType
           /\ [s EXCEPT !.checked = c] \in SeenType
BY AncestryOps DEF SeenType

LEMMA SeenTakes ==
    ASSUME NEW s \in SeenType, NEW t \in TakenType, NEW q \in BOOLEAN
    PROVE  /\ [s EXCEPT !.took = @ \cup {t}] \in SeenType
           /\ [s EXCEPT !.took = @ \cup {t}, !.queued = @ \/ q] \in SeenType
BY DEF SeenType

LEMMA SeenFields ==
    ASSUME NEW s \in SeenType
    PROVE  /\ DOMAIN s = SeenField
           /\ s.checked \in Ancestry /\ s.stray \in Ancestry /\ s.judged \in Ancestry
           /\ s.tested \in SUBSET Ancestry /\ s.ci \in SUBSET Ancestry
           /\ s.took \in SUBSET TakenType /\ s.queued \in BOOLEAN
BY DEF SeenType, SeenField

LEMMA HubEdits ==
    ASSUME NEW h \in HubType, NEW c \in Ancestry, NEW n \in Nat
    PROVE  /\ [h EXCEPT !.branch = c, !.queued = n] \in HubType
           /\ [h EXCEPT !.queued = n] \in HubType
BY DEF HubType

LEMMA PrEdits ==
    ASSUME NEW h \in HubType, NEW c \in Ancestry, NEW n \in Nat, NEW i \in DOMAIN h.prs,
           NEW s \in {"open", "closed", "merged"}
    PROVE  /\ [h EXCEPT !.prs[i].draft = TRUE, !.queued = n] \in HubType
           /\ [h EXCEPT !.prs[i].state = s, !.prs[i].head = c, !.queued = n] \in HubType
           /\ [h EXCEPT !.prs[i] = [@ EXCEPT !.state = s, !.head = c], !.queued = n] \in HubType
           /\ h.branch \in Ancestry
           /\ h.prs[i].head \in Ancestry
<1>3. h.prs \in Seq(PullRequest) /\ h.prs[i] \in PullRequest
  BY DEF HubType
<1>4. ASSUME NEW p \in PullRequest
      PROVE  [h EXCEPT !.prs = [@ EXCEPT ![i] = p], !.queued = n] \in HubType
  <2>1. [h.prs EXCEPT ![i] = p] \in Seq(PullRequest)
    BY <1>3
  <2> QED
    BY <2>1 DEF HubType
<1>5. /\ [h.prs[i] EXCEPT !.draft = TRUE] \in PullRequest
      /\ [h.prs[i] EXCEPT !.state = s, !.head = c] \in PullRequest
      /\ h.prs[i].head \in Ancestry
  BY <1>3 DEF PullRequest
<1>6. h.branch \in Ancestry
  BY DEF HubType
<1>7. [h EXCEPT !.prs[i].draft = TRUE, !.queued = n] \in HubType
  <2>1. [h EXCEPT !.prs[i].draft = TRUE, !.queued = n]
          = [h EXCEPT !.prs = [@ EXCEPT ![i] = [h.prs[i] EXCEPT !.draft = TRUE]], !.queued = n]
    OBVIOUS
  <2> QED
    BY <2>1, <1>4, <1>5
<1>8. [h EXCEPT !.prs[i].state = s, !.prs[i].head = c, !.queued = n] \in HubType
  <2>1. [h EXCEPT !.prs[i].state = s, !.prs[i].head = c, !.queued = n]
          = [h EXCEPT !.prs = [@ EXCEPT ![i] = [h.prs[i] EXCEPT !.state = s, !.head = c]],
                      !.queued = n]
    OBVIOUS
  <2> QED
    BY <2>1, <1>4, <1>5
<1>9. [h EXCEPT !.prs[i] = [@ EXCEPT !.state = s, !.head = c], !.queued = n] \in HubType
  <2>1. [h EXCEPT !.prs[i] = [@ EXCEPT !.state = s, !.head = c], !.queued = n]
          = [h EXCEPT !.prs = [@ EXCEPT ![i] = [h.prs[i] EXCEPT !.state = s, !.head = c]],
                      !.queued = n]
    OBVIOUS
  <2> QED
    BY <2>1, <1>4, <1>5
<1> QED
  BY <1>5, <1>6, <1>7, <1>8, <1>9

LEMMA HubAppends ==
    ASSUME NEW h \in HubType
    PROVE  /\ [h EXCEPT !.prs = Append(@, [state |-> "open", draft |-> FALSE, head |-> {}])]
                \in HubType
           /\ h.prs \in Seq(PullRequest)
<1>1. [state |-> "open", draft |-> FALSE, head |-> {}] \in PullRequest
  BY AncestryOps DEF PullRequest
<1>2. h.prs \in Seq(PullRequest)
  BY DEF HubType
<1> QED
  BY <1>1, <1>2 DEF HubType

LEMMA HubFields ==
    ASSUME NEW h \in HubType
    PROVE  /\ DOMAIN h = HubField
           /\ h.on \in BOOLEAN /\ h.branch \in Ancestry /\ h.prs \in Seq(PullRequest)
           /\ h.queued \in Nat
           /\ DOMAIN h.prs = 1..Len(h.prs) /\ Len(h.prs) \in Nat
<1>1. h.prs \in Seq(PullRequest)
  BY DEF HubType
<1> QED
  BY <1>1 DEF HubType, HubField

LEMMA EnvEdits ==
    ASSUME env \in EnvType, NEW f \in EnvField, NEW b, Used(f, b)
    PROVE  EnvBut({f}) /\ env'[f] = env[f] + 1
BY DEF Used, EnvType, EnvBut, EnvField

LEMMA ShapeInit == Init => Shape
<1> SUFFICES ASSUME Init PROVE Shape
  OBVIOUS
<1>1. PICK on \in BOOLEAN : hub = [on |-> on, branch |-> {}, prs |-> <<>>, queued |-> 0]
  BY DEF Init
<1>2. hub \in HubType /\ hub.queued =< Len(hub.prs)
  BY <1>1 DEF HubType, Ancestry
<1>3. run \in RunType
  BY LimitAssumption DEF Init, NoRun, RunType, Ancestry
<1>4. seen \in SeenType
  BY DEF Init, SeenType, Ancestry
<1>5. env \in EnvType
  BY DEF Init, EnvType
<1>6. res.value = "none"
  BY DEF Init, NoResult
<1>7. Typed
  BY <1>2, <1>3, <1>4, <1>5, <1>6 DEF Init, Typed, Ancestry
<1> QED
  BY <1>7 DEF Init, Shape, Routed, HasPr, Terminal, PrSteps, LocalSteps

\* What the pull request of a run shows.
LEMMA PrHead ==
    ASSUME Typed, NEW i \in DOMAIN hub.prs
    PROVE  Pr(i).head \in Ancestry /\ Pr(i).state = hub.prs[i].state
<1>1. hub.prs \in Seq(PullRequest) /\ hub.branch \in Ancestry
  BY DEF Typed, HubType
<1>2. hub.prs[i] \in PullRequest
  BY <1>1
<1> QED
  BY <1>1, <1>2 DEF Pr, PullRequest

LEMMA ShownPrs == Typed => Prs \in Seq(PullRequest) /\ DOMAIN Prs = DOMAIN hub.prs
<1> SUFFICES ASSUME Typed PROVE Prs \in Seq(PullRequest) /\ DOMAIN Prs = DOMAIN hub.prs
  OBVIOUS
<1>1. hub.prs \in Seq(PullRequest) /\ hub.branch \in Ancestry
  BY DEF Typed, HubType
<1>2. ASSUME NEW i \in DOMAIN hub.prs PROVE Pr(i) \in PullRequest
  <2>1. hub.prs[i] \in PullRequest
    BY <1>1
  <2> QED
    BY <1>1, <2>1 DEF Pr, PullRequest
<1>3. DOMAIN hub.prs = 1..Len(hub.prs) /\ Len(hub.prs) \in Nat
  BY <1>1
<1> QED
  BY <1>2, <1>3 DEF Prs

-----------------------------------------------------------------------------
(* What the steps do *)

LEMMA InvokeDoes ==
    ASSUME Typed, Invoke
    PROVE  /\ pc \in Terminal /\ pc' = "preflight" /\ res'.value = "none" /\ lock' = lock
           /\ run' = NoRun /\ run' \in RunType /\ run'.tip = {} /\ run'.redo = 0
           /\ EnvBut({"runs"}) /\ env'.runs = env.runs + 1
           /\ UNCHANGED <<integ, wt, base, second, main, hub, made, seen>>
<1>1. EnvBut({"runs"}) /\ env'["runs"] = env["runs"] + 1
  BY EnvEdits DEF Invoke, Typed, EnvField
<1>2. NoRun \in RunType /\ NoRun.tip = {} /\ NoRun.redo = 0
  BY LimitAssumption DEF NoRun, RunType, Ancestry
<1>3. NoResult.value = "none"
  BY DEF NoResult
<1> QED
  BY <1>1, <1>2, <1>3 DEF Invoke, gitVars

LEMMA PreflightDoes ==
    ASSUME Typed, PreflightStep
    PROVE  /\ pc = "preflight"
           /\ \/ /\ Moved("route") /\ integ # {} /\ run'.tip = integ /\ RunBut({"tip"})
                 /\ SeenBut({"judged"}) /\ seen'.judged = seen.judged \cup integ
              \/ Stopped /\ UNCHANGED <<run, seen>>
           /\ UNCHANGED <<integ, wt, base, second, main, hub, made, env>>
<1>1. CASE integ # {} /\ GoTo("route") /\ run' = [run EXCEPT !.tip = integ]
           /\ seen' = [seen EXCEPT !.judged = @ \cup integ]
  <2>1. run'.tip = integ /\ RunBut({"tip"})
    <3>1. run \in RunType /\ integ \in Ancestry /\ DOMAIN run = RunField
      BY RunFields DEF Typed
    <3>2. run' \in RunType
      BY <1>1, <3>1, RunEdits
    <3>3. run'.tip = integ /\ \A f \in RunField \ {"tip"} : run'[f] = run[f]
      BY <1>1, <3>1 DEF RunField
    <3> QED
      BY <3>2, <3>3 DEF RunBut
  <2>2. SeenBut({"judged"}) /\ seen'.judged = seen.judged \cup integ
    <3>1. seen \in SeenType /\ integ \in Ancestry /\ DOMAIN seen = SeenField
      BY SeenFields DEF Typed
    <3>2. seen' \in SeenType
      BY <1>1, <3>1, SeenEdits
    <3>3. /\ seen'.judged = seen.judged \cup integ
          /\ \A f \in SeenField \ {"judged"} : seen'[f] = seen[f]
      BY <1>1, <3>1 DEF SeenField
    <3> QED
      BY <3>2, <3>3 DEF SeenBut
  <2> QED
    BY <1>1, <2>1, <2>2, Ends DEF PreflightStep, gitVars
<1>2. CASE \E r : Stop(r) /\ UNCHANGED <<run, seen>>
  BY <1>2, Ends DEF PreflightStep, gitVars
<1> QED
  BY <1>1, <1>2 DEF PreflightStep

LEMMA ResolveDoes ==
    ASSUME Typed, ResolvePr \/ Recheck
    PROVE  /\ pc \in {"resolve", "recheck"}
           /\ \/ Moved("create_push") /\ pc = "resolve" /\ run' = run
              \/ Moved("worktree") /\ pc = "recheck" /\ ~hub.on /\ run' = run
                    /\ ~(integ \subseteq base)
              \/ /\ Moved(IF pc = "resolve" THEN "lock" ELSE "worktree")
                 /\ pc = "recheck" => hub.on
                 /\ RunBut({"pr"}) /\ run'.pr \in DOMAIN hub.prs
              \/ Stopped /\ run' = run
              \/ run' = run /\ Found(run.tip) /\ pc = "resolve" /\ Resolve(Prs, run.tip) = "merged"
              \/ run' = run /\ Found(run.locked) /\ pc = "recheck" /\ hub.on
                    /\ Resolve(Prs, run.locked) = "merged"
              \/ run' = run /\ Found(integ) /\ pc = "recheck" /\ ~hub.on /\ integ \subseteq base
           /\ UNCHANGED <<integ, wt, base, second, main, hub, made, env, seen>>
<1>1. ASSUME NEW tip, Resolve(Prs, tip) = "open", run' = [run EXCEPT !.pr = NewestOpen(Prs)]
      PROVE  RunBut({"pr"}) /\ run'.pr \in DOMAIN hub.prs
  <2>1. NewestOpen(Prs) \in DOMAIN hub.prs
    BY <1>1, ShownPrs, OpenIsKnown
  <2>2. NewestOpen(Prs) \in Nat
    BY <2>1 DEF Typed, HubType
  <2>3. [run EXCEPT !.pr = NewestOpen(Prs)] \in RunType
    BY <2>2, RunEdits, AncestryOps DEF Typed
  <2> QED
    BY <1>1, <2>1, <2>3, RunFields DEF Typed, RunBut, RunField
<1>2. CASE ResolvePr
  <2>1. UNCHANGED <<integ, wt, base, second, main, hub, made, env, seen>> /\ pc = "resolve"
    BY <1>2 DEF ResolvePr, gitVars
  <2>2. \/ Resolve(Prs, run.tip) = "merged" /\ FoundMerged(run.tip) /\ run' = run
        \/ Resolve(Prs, run.tip) = "open" /\ GoTo("lock") /\ run' = [run EXCEPT !.pr = NewestOpen(Prs)]
        \/ GoTo("create_push") /\ run' = run
        \/ Stop(Resolve(Prs, run.tip)) /\ run' = run
    BY <1>2, Zenon DEF ResolvePr
  <2> QED
    BY <1>1, <2>1, <2>2, Ends
<1>3. CASE Recheck
  <2> DEFINE a == IF hub.on          THEN Resolve(Prs, run.locked)
                  ELSE IF integ = {} THEN "integration_branch_missing"
                  ELSE AlreadyMerged(integ, base)
  <2>1. UNCHANGED <<integ, wt, base, second, main, hub, made, env, seen>> /\ pc = "recheck"
    BY <1>3 DEF Recheck, gitVars
  <2>2. hub.on \in BOOLEAN
    BY DEF Typed, HubType
  <2>3. hub.on => a = Resolve(Prs, run.locked) /\ a # "not_merged"
    <3>1. Resolve(Prs, run.locked) # "not_merged"
      BY DEF Resolve
    <3> QED
      BY <3>1
  <2>4. ~hub.on => /\ a \notin {"open", "none"}
                   /\ a = "merged" => integ \subseteq base
                   /\ a = "not_merged" => ~(integ \subseteq base)
    BY <2>2 DEF AlreadyMerged
  <2>5. \/ a = "merged" /\ FoundMerged(IF hub.on THEN run.locked ELSE integ) /\ run' = run
        \/ a = "not_merged" /\ GoTo("worktree") /\ run' = run
        \/ a = "open" /\ GoTo("worktree") /\ run' = [run EXCEPT !.pr = NewestOpen(Prs)]
        \/ Stop("internal_error") /\ run' = run
        \/ Stop(a) /\ run' = run
    BY <1>3, Zenon DEF Recheck
  <2> HIDE DEF a
  <2> QED
    BY <1>1, <2>1, <2>2, <2>3, <2>4, <2>5, Ends
<1> QED
  BY <1>2, <1>3

LEMMA PushDoes ==
    ASSUME Typed, CreatePush \/ Push
    PROVE  /\ pc \in {"create_push", "push"}
           /\ \/ /\ Moved(IF pc = "push" THEN "ci_head" ELSE "create_pr")
                 /\ integ # {} /\ hub.branch \subseteq integ
                 /\ HubBut({"branch", "queued"}) /\ hub'.branch = integ
                 /\ hub'.queued \in {0, hub.queued}
              \/ Stopped /\ hub' = hub
           /\ UNCHANGED <<integ, wt, base, second, main, made, run, env, seen>>
<1>1. pc \in {"create_push", "push"} /\ PushTo(IF pc = "push" THEN "ci_head" ELSE "create_pr")
  BY DEF CreatePush, Push
<1>2. CASE Stop("push_rejected") /\ UNCHANGED hub
  BY <1>1, <1>2, Ends DEF PushTo
<1>3. CASE integ # {} /\ hub.branch \subseteq integ
  <2> DEFINE q == IF hub.branch = integ THEN hub.queued ELSE 0
  <2>1. hub' = [hub EXCEPT !.branch = integ, !.queued = q]
    BY <1>1, <1>3 DEF PushTo
  <2>2. q \in {0, hub.queued} /\ q \in Nat
    BY HubFields DEF Typed
  <2> HIDE DEF q
  <2>3. HubBut({"branch", "queued"}) /\ hub'.branch = integ /\ hub'.queued = q
    <3>1. hub \in HubType /\ integ \in Ancestry /\ DOMAIN hub = HubField
      BY HubFields DEF Typed
    <3>2. hub' \in HubType
      BY <2>1, <2>2, <3>1, HubEdits
    <3>3. /\ hub'.branch = integ /\ hub'.queued = q
          /\ \A f \in HubField \ {"branch", "queued"} : hub'[f] = hub[f]
      BY <2>1, <3>1 DEF HubField
    <3> QED
      BY <3>2, <3>3 DEF HubBut
  <2> QED
    BY <1>1, <1>3, <2>2, <2>3, Ends DEF PushTo
<1> QED
  BY <1>1, <1>2, <1>3 DEF PushTo

LEMMA CreatePrDoes ==
    ASSUME Typed, CreatePr
    PROVE  /\ pc = "create_pr"
           /\ \/ /\ Moved("lock") /\ HubBut({"prs"})
                 /\ Len(hub'.prs) = Len(hub.prs) + 1
                 /\ DOMAIN hub'.prs = DOMAIN hub.prs \cup {Len(hub.prs) + 1}
                 /\ \A i \in DOMAIN hub.prs : hub'.prs[i] = hub.prs[i]
                 /\ hub'.prs[Len(hub.prs) + 1].state = "open"
                 /\ RunBut({"pr"}) /\ run'.pr = Len(hub.prs) + 1
              \/ Stopped /\ UNCHANGED <<hub, run>>
           /\ UNCHANGED <<integ, wt, base, second, main, made, env, seen>>
<1>1. CASE /\ hub' = [hub EXCEPT !.prs = Append(@, [state |-> "open", draft |-> FALSE, head |-> {}])]
           /\ run' = [run EXCEPT !.pr = Len(hub'.prs)]
           /\ GoTo("lock")
  <2> DEFINE p == [state |-> "open", draft |-> FALSE, head |-> {}]
  <2>1. hub' \in HubType /\ hub.prs \in Seq(PullRequest) /\ hub \in HubType
    BY <1>1, HubAppends DEF Typed
  <2>2. hub' = [hub EXCEPT !.prs = Append(@, p)] /\ p.state = "open"
    BY <1>1
  <2> HIDE DEF p
  <2>3. HubBut({"prs"}) /\ hub'.prs = Append(hub.prs, p)
    BY <2>1, <2>2, HubFields DEF HubBut, HubField
  <2>4. /\ Len(hub'.prs) = Len(hub.prs) + 1 /\ Len(hub.prs) \in Nat
        /\ DOMAIN hub'.prs = DOMAIN hub.prs \cup {Len(hub.prs) + 1}
        /\ \A i \in DOMAIN hub.prs : hub'.prs[i] = hub.prs[i]
        /\ hub'.prs[Len(hub.prs) + 1] = p
    BY <2>1, <2>3
  <2>5. [run EXCEPT !.pr = Len(hub'.prs)] \in RunType
    <3>1. Len(hub'.prs) \in Nat /\ {} \in Ancestry /\ run \in RunType
      BY <2>4, AncestryOps DEF Typed
    <3> QED
      BY <3>1, RunEdits
  <2>6. RunBut({"pr"}) /\ run'.pr = Len(hub.prs) + 1
    BY <1>1, <2>4, <2>5, RunFields DEF Typed, RunBut, RunField
  <2> QED
    BY <1>1, <2>2, <2>3, <2>4, <2>6, Ends DEF CreatePr
<1>2. CASE Stop("pr_create_failed") /\ UNCHANGED <<hub, run>>
  BY <1>2, Ends DEF CreatePr
<1> QED
  BY <1>1, <1>2 DEF CreatePr

LEMMA ReadTipDoes ==
    ASSUME Typed, ReadTip
    PROVE  /\ pc = "read_tip"
           /\ \/ Moved("recheck") /\ RunBut({"locked"}) /\ run'.locked = integ
              \/ Stopped /\ run' = run
           /\ UNCHANGED <<integ, wt, base, second, main, hub, made, env, seen>>
<1>1. CASE GoTo("recheck") /\ run' = [run EXCEPT !.locked = integ]
  <2>1. run' \in RunType
    BY <1>1, RunEdits DEF Typed
  <2>2. RunBut({"locked"}) /\ run'.locked = integ
    BY <1>1, <2>1, RunFields DEF Typed, RunBut, RunField
  <2> QED
    BY <1>1, <2>2, Ends DEF ReadTip, gitVars
<1>2. CASE Stop("internal_error") /\ run' = run
  BY <1>2, Ends DEF ReadTip, gitVars
<1> QED
  BY <1>1, <1>2 DEF ReadTip

LEMMA PrepareDoes ==
    ASSUME Prepare
    PROVE  /\ pc \in {"add", "abort"}
           /\ \/ Moved("integrate") /\ wt \in {"absent", "merging"} /\ wt' = "clean" /\ integ # {}
              \/ Stopped /\ wt' = wt
           /\ UNCHANGED <<integ, base, second, main, hub, made, run, env, seen>>
BY Ends DEF Prepare

LEMMA IntegrateDoes ==
    ASSUME Typed, Integrate
    PROVE  /\ pc = "integrate"
           /\ \/ /\ wt = "clean" /\ integ = ExpectedHead(run)
                 /\ RunBut({"head", "ibase"}) /\ run'.head = integ /\ run'.ibase = base
                 /\ Moved(IF base \subseteq integ THEN "commands" ELSE "integrate_merge")
              \/ Stopped /\ run' = run
           /\ UNCHANGED <<integ, wt, base, second, main, hub, made, env, seen>>
<1>1. CASE /\ wt = "clean" /\ integ = ExpectedHead(run)
           /\ run' = [run EXCEPT !.head = integ, !.ibase = base]
           /\ GoTo(IF base \subseteq integ THEN "commands" ELSE "integrate_merge")
  <2>1. run' \in RunType
    BY <1>1, RunEdits DEF Typed
  <2>2. RunBut({"head", "ibase"}) /\ run'.head = integ /\ run'.ibase = base
    BY <1>1, <2>1, RunFields DEF Typed, RunBut, RunField
  <2> QED
    BY <1>1, <2>2, Ends DEF Integrate, gitVars
<1>2. CASE \E r : Stop(r) /\ run' = run
  BY <1>2, Ends DEF Integrate, gitVars
<1> QED
  BY <1>1, <1>2 DEF Integrate

\* The branch and the base it was integrated with, in a new commit.
Integrates == integ' = integ \cup run.ibase \cup {made + 1} /\ integ' \in Ancestry /\ made' = made + 1

LEMMA IntegratesTypes ==
    ASSUME Typed, made' = New, integ' = integ \cup run.ibase \cup {New}
    PROVE  Integrates
BY AncestryOps, RunFields DEF Integrates, Typed, New

LEMMA IntegrateMergeDoes ==
    ASSUME Typed, IntegrateMerge
    PROVE  /\ pc = "integrate_merge"
           /\ \/ Stopped /\ UNCHANGED <<integ, wt, made, run>>
              \/ /\ wt = "clean" /\ wt' = wt /\ Integrates
                 /\ \/ integ = run.head /\ Moved("commands") /\ RunBut({"head"}) /\ run'.head = integ'
                    \/ Stopped /\ run' = run
              \/ /\ wt = "clean" /\ wt' = "merging" /\ UNCHANGED <<integ, made, run>>
                 /\ \/ Moved("conflict") /\ integ = run.head
                    \/ Stopped
           /\ UNCHANGED <<base, second, main, hub, env, seen>>
<1>1. CASE wt # "clean"
  BY <1>1, Ends DEF IntegrateMerge
<1>2. CASE /\ wt = "clean" /\ made' = New /\ integ' = integ \cup run.ibase \cup {New} /\ UNCHANGED wt
           /\ IF integ = run.head THEN GoTo("commands") /\ run' = [run EXCEPT !.head = integ']
                                  ELSE Stop("git_failed") /\ UNCHANGED run
  <2>1. Integrates
    BY <1>2, IntegratesTypes
  <2>2. CASE GoTo("commands") /\ run' = [run EXCEPT !.head = integ'] /\ integ = run.head
    <3>1. [run EXCEPT !.head = integ'] \in RunType
      BY <2>1, RunEdits DEF Integrates, Typed
    <3>2. RunBut({"head"}) /\ run'.head = integ'
      BY <2>2, <3>1, RunFields DEF Typed, RunBut, RunField
    <3> QED
      BY <1>2, <2>1, <2>2, <3>2, Ends DEF IntegrateMerge
  <2>3. CASE Stop("git_failed") /\ UNCHANGED run
    BY <1>2, <2>1, <2>3, Ends DEF IntegrateMerge
  <2> QED
    BY <1>2, <2>2, <2>3
<1>3. CASE /\ wt = "clean" /\ wt' = "merging" /\ UNCHANGED <<integ, made, run>>
           /\ IF integ = run.head THEN GoTo("conflict") ELSE Stop("git_failed")
  BY <1>3, Ends DEF IntegrateMerge
<1> QED
  BY <1>1, <1>2, <1>3 DEF IntegrateMerge

LEMMA ConflictDoes ==
    ASSUME Typed, Conflict
    PROVE  /\ pc = "conflict" /\ wt' = "clean"
           /\ \/ Integrates /\ Moved("read_head")
              \/ Stopped /\ UNCHANGED <<integ, made>>
           /\ UNCHANGED <<base, second, main, hub, run, env, seen>>
<1>0. pc = "conflict" /\ wt' = "clean" /\ UNCHANGED <<base, second, main, hub, run, env, seen>>
  BY DEF Conflict
<1>1. CASE made' = New /\ integ' = integ \cup run.ibase \cup {New} /\ GoTo("read_head")
  <2>1. Integrates
    BY <1>1, IntegratesTypes
  <2>2. Moved("read_head")
    BY <1>1, Ends
  <2> QED
    BY <1>0, <2>1, <2>2
<1>2. CASE Stop("conflict_unattributable") /\ UNCHANGED <<integ, made>>
  BY <1>0, <1>2, Ends
<1> QED
  BY <1>1, <1>2 DEF Conflict

LEMMA ReadHeadDoes ==
    ASSUME Typed, ReadHead
    PROVE  /\ pc = "read_head" /\ Moved("commands") /\ RunBut({"head"}) /\ run'.head = integ
           /\ UNCHANGED <<integ, wt, base, second, main, hub, made, env, seen>>
<1>1. run' = [run EXCEPT !.head = integ] /\ run' \in RunType
  BY RunEdits DEF ReadHead, Typed
<1> QED
  BY <1>1, Ends, RunFields DEF ReadHead, Typed, RunBut, RunField, gitVars

LEMMA CommandsDoes ==
    ASSUME Typed, Commands
    PROVE  /\ pc = "commands"
           /\ \/ Moved("verify_head") /\ SeenBut({"tested"})
                 /\ seen'.tested = IF wt = "clean" THEN seen.tested \cup {integ} ELSE seen.tested
              \/ Stopped /\ seen' = seen
           /\ UNCHANGED <<integ, wt, base, second, main, hub, made, run, env>>
<1>1. CASE /\ GoTo("verify_head")
           /\ seen' = [seen EXCEPT !.tested = IF wt = "clean" THEN @ \cup {integ} ELSE @]
  <2>1. CASE wt = "clean"
    <3>1. seen' = [seen EXCEPT !.tested = @ \cup {integ}]
      BY <1>1, <2>1
    <3>2. seen' \in SeenType
      BY <3>1, SeenEdits DEF Typed
    <3>3. SeenBut({"tested"}) /\ seen'.tested = seen.tested \cup {integ}
      BY <3>1, <3>2, SeenFields DEF Typed, SeenBut, SeenField
    <3> QED
      BY <1>1, <2>1, <3>3, Ends DEF Commands, gitVars
  <2>2. CASE wt # "clean"
    <3>1. seen' = seen
      BY <1>1, <2>2, SeenFields DEF Typed, SeenType
    <3> QED
      BY <1>1, <2>2, <3>1, Ends DEF Commands, Typed, SeenBut, gitVars
  <2> QED
    BY <2>1, <2>2
<1>2. CASE Stop("verification_failed") /\ UNCHANGED seen
  BY <1>2, Ends DEF Commands, gitVars
<1> QED
  BY <1>1, <1>2 DEF Commands

LEMMA CiChecksDoes ==
    ASSUME Shape, CiChecks
    PROVE  /\ pc = "ci_checks" /\ run.pr \in DOMAIN hub.prs
           /\ \/ /\ Moved("base_check") /\ SeenBut({"ci"})
                 /\ seen'.ci = seen.ci \cup {Pr(run.pr).head}
              \/ Moved("ci_head") /\ seen' = seen
              \/ Stopped /\ seen' = seen
           /\ UNCHANGED <<integ, wt, base, second, main, hub, made, run, env>>
<1>1. pc = "ci_checks" /\ UNCHANGED <<integ, wt, base, second, main, hub, made, run, env>>
  BY DEF CiChecks, gitVars
<1>2. run.pr \in DOMAIN hub.prs
  BY <1>1 DEF Shape, Routed, HasPr, PrSteps
<1>3. \/ GoTo("base_check") /\ seen' = [seen EXCEPT !.ci = @ \cup {Pr(run.pr).head}]
      \/ GoTo("ci_head") /\ seen' = seen
      \/ \E r : Stop(r) /\ seen' = seen
  BY Zenon DEF CiChecks
<1>4. Pr(run.pr).head \in Ancestry /\ seen \in SeenType
  BY <1>2, PrHead DEF Shape, Typed
<1>5. seen' = [seen EXCEPT !.ci = @ \cup {Pr(run.pr).head}]
        => SeenBut({"ci"}) /\ seen'.ci = seen.ci \cup {Pr(run.pr).head}
  BY <1>4, SeenEdits, SeenFields DEF SeenBut, SeenField
<1> QED
  BY <1>1, <1>2, <1>3, <1>5, Ends

LEMMA BaseCheckDoes ==
    ASSUME Typed, BaseCheckStep
    PROVE  /\ pc = "base_check"
           /\ \/ Moved("lock_check") /\ run' = run /\ base = run.ibase
              \/ /\ Moved("integrate") /\ RunBut({"redo"})
                 /\ run'.redo = run.redo + 1
              \/ Stopped /\ run' = run
           /\ SeenBut({"checked"}) /\ seen'.checked = base
           /\ UNCHANGED <<integ, wt, base, second, main, hub, made, env>>
<1> DEFINE a == BaseCheck(base, run.ibase, run.redo, RedoLimit)
<1>1. /\ pc = "base_check" /\ UNCHANGED <<integ, wt, base, second, main, hub, made, env>>
      /\ seen' = [seen EXCEPT !.checked = base]
  BY DEF BaseCheckStep, gitVars
<1>2. \/ a = "unchanged" /\ GoTo("lock_check") /\ run' = run
      \/ a = "redo" /\ GoTo("integrate") /\ run' = [run EXCEPT !.redo = @ + 1]
      \/ Stop(a) /\ run' = run
  BY Zenon DEF BaseCheckStep, AfterRedo
<1>3. run.redo \in Nat /\ RedoLimit \in Nat /\ run \in RunType
  BY LimitAssumption, RunFields DEF Typed
<1>4. a = "unchanged" => base = run.ibase
  BY DEF BaseCheck
<1>5. a = "redo" => run.redo < RedoLimit
  BY <1>3 DEF BaseCheck
<1>6. SeenBut({"checked"}) /\ seen'.checked = base
  <2>1. seen' \in SeenType
    BY <1>1, SeenEdits DEF Typed
  <2> QED
    BY <1>1, <2>1, SeenFields DEF Typed, SeenBut, SeenField
<1> HIDE DEF a
<1>7. CASE a = "redo" /\ GoTo("integrate") /\ run' = [run EXCEPT !.redo = @ + 1]
  <2>1. run' \in RunType
    BY <1>3, <1>5, <1>7, RunEdits, AncestryOps
  <2>2. RunBut({"redo"}) /\ run'.redo = run.redo + 1
    BY <1>3, <1>7, <2>1, RunFields DEF RunBut, RunField
  <2> QED
    BY <1>1, <1>6, <1>7, <2>2, Ends
<1> QED
  BY <1>1, <1>2, <1>4, <1>6, <1>7, Ends

\* A pull request becomes merged, at the pushed branch.
Merges(i) ==
    /\ i \in DOMAIN hub.prs
    /\ made' = made + 1 /\ base' = base \cup hub.branch \cup {made + 1} /\ base' \in Ancestry
    /\ second' = hub.branch /\ second' \in Ancestry
    /\ HubBut({"prs", "queued"}) /\ hub'.queued = 0
    /\ DOMAIN hub'.prs = DOMAIN hub.prs /\ Len(hub'.prs) = Len(hub.prs)
    /\ \A j \in DOMAIN hub.prs \ {i} : hub'.prs[j] = hub.prs[j]
    /\ hub'.prs[i].state = "merged" /\ hub'.prs[i].head = hub.branch

LEMMA MergedDoes ==
    ASSUME Typed, NEW i \in DOMAIN hub.prs, Merged(i)
    PROVE  Merges(i)
<1>1. /\ hub.branch \in Ancestry /\ {made + 1} \in Ancestry /\ made + 1 \in Nat
      /\ base \in Ancestry /\ hub \in HubType
  BY AncestryOps, HubFields DEF Typed, New
<1>2. /\ made' = made + 1 /\ second' = hub.branch /\ base' = base \cup hub.branch \cup {made + 1}
      /\ hub' = [hub EXCEPT !.prs[i] = [@ EXCEPT !.state = "merged", !.head = hub.branch],
                            !.queued = 0]
  BY DEF Merged, New
<1>3. hub' \in HubType
  BY <1>1, <1>2, PrEdits
<1>4. HubBut({"prs", "queued"}) /\ hub'.queued = 0
  BY <1>1, <1>2, <1>3, HubFields DEF HubBut, HubField
<1>5. hub'.prs = [hub.prs EXCEPT ![i] = [@ EXCEPT !.state = "merged", !.head = hub.branch]]
  BY <1>1, <1>2, HubFields DEF HubField
<1>6. hub.prs \in Seq(PullRequest) /\ hub'.prs \in Seq(PullRequest)
  BY <1>1, <1>3, HubFields
<1>7. /\ DOMAIN hub'.prs = DOMAIN hub.prs /\ Len(hub'.prs) = Len(hub.prs)
      /\ \A j \in DOMAIN hub.prs \ {i} : hub'.prs[j] = hub.prs[j]
      /\ hub'.prs[i] = [hub.prs[i] EXCEPT !.state = "merged", !.head = hub.branch]
  BY <1>5, <1>6
<1>8. hub.prs[i] \in PullRequest
  BY <1>6
<1>9. hub'.prs[i].state = "merged" /\ hub'.prs[i].head = hub.branch
  BY <1>7, <1>8 DEF PullRequest
<1> QED
  BY <1>1, <1>2, <1>4, <1>7, <1>9, AncestryOps DEF Merges

LEMMA TakingType ==
    ASSUME Typed, NEW c \in Ancestry
    PROVE  /\ Taking(c) \in TakenType /\ Taking(c).commit = c /\ Taking(c).run = env.runs
           /\ Taking(c).checked = seen.checked
BY SeenFields DEF Taking, TakenType, Typed, EnvType

LEMMA PrMergeDoes ==
    ASSUME Shape, PrMerge
    PROVE  /\ pc = "pr_merge" /\ run.pr \in DOMAIN hub.prs /\ hub.on
           /\ \/ Stopped /\ UNCHANGED <<base, second, made, hub, seen>>
              \/ /\ Moved("pr_confirm") /\ hub.prs[run.pr].state = "open" /\ hub.branch = run.head
                 /\ SeenBut({"took", "queued"})
                 /\ seen'.took = seen.took \cup {Taking(run.head)}
                 /\ \/ Merges(run.pr) /\ seen'.queued = seen.queued
                    \/ /\ HubBut({"queued"}) /\ hub'.queued = run.pr /\ seen'.queued
                       /\ UNCHANGED <<base, second, made>>
           /\ UNCHANGED <<integ, wt, main, run, env>>
<1>1. pc = "pr_merge" /\ UNCHANGED <<integ, wt, main, run, env>>
  BY DEF PrMerge
<1>2. run.pr \in DOMAIN hub.prs /\ hub.on
  BY <1>1 DEF Shape, Routed, HasPr, PrSteps
<1>3. CASE Stop("merge_failed") /\ UNCHANGED <<base, second, made, hub, seen>>
  BY <1>1, <1>2, <1>3, Ends
<1>4. ASSUME NEW queues \in BOOLEAN, Pr(run.pr).state = "open", MatchHead(run), GoTo("pr_confirm"),
             IF queues THEN hub' = [hub EXCEPT !.queued = run.pr] /\ UNCHANGED <<base, second, made>>
                       ELSE Merged(run.pr),
             seen' = [seen EXCEPT !.took = @ \cup {Taking(hub.branch)}, !.queued = @ \/ queues]
      PROVE  /\ Moved("pr_confirm") /\ hub.prs[run.pr].state = "open" /\ hub.branch = run.head
             /\ SeenBut({"took", "queued"})
             /\ seen'.took = seen.took \cup {Taking(run.head)}
             /\ \/ Merges(run.pr) /\ seen'.queued = seen.queued
                \/ /\ HubBut({"queued"}) /\ hub'.queued = run.pr /\ seen'.queued
                   /\ UNCHANGED <<base, second, made>>
  <2>1. Moved("pr_confirm") /\ hub.prs[run.pr].state = "open" /\ hub.branch = run.head
    BY <1>2, <1>4, PrHead, Ends DEF Shape, MatchHead
  <2>2. run.head \in Ancestry /\ seen \in SeenType /\ hub \in HubType
    BY RunFields DEF Shape, Typed
  <2>3. seen' \in SeenType
    BY <1>4, <2>1, <2>2, TakingType, SeenTakes DEF Shape
  <2>4. /\ SeenBut({"took", "queued"}) /\ seen'.took = seen.took \cup {Taking(run.head)}
        /\ seen'.queued = (seen.queued \/ queues)
    BY <1>4, <2>1, <2>2, <2>3, SeenFields DEF SeenBut, SeenField
  <2>5. CASE queues
    <3>1. hub' = [hub EXCEPT !.queued = run.pr] /\ run.pr \in Nat
      BY <1>2, <1>4, <2>2, <2>5, HubFields
    <3>2. hub' \in HubType
      BY <2>2, <3>1, HubEdits, AncestryOps
    <3>3. HubBut({"queued"}) /\ hub'.queued = run.pr
      BY <2>2, <3>1, <3>2, HubFields DEF HubBut, HubField
    <3> QED
      BY <1>4, <2>1, <2>4, <2>5, <3>3
  <2>6. CASE ~queues
    <3>1. Merges(run.pr)
      BY <1>2, <1>4, <2>6, MergedDoes DEF Shape
    <3>2. seen'.queued = seen.queued
      BY <2>2, <2>4, <2>6, SeenFields
    <3> QED
      BY <2>1, <2>4, <3>1, <3>2
  <2> QED
    BY <2>5, <2>6
<1> QED
  BY <1>1, <1>2, <1>3, <1>4 DEF PrMerge

LEMMA LocalMergeDoes ==
    ASSUME Typed, LocalMerge
    PROVE  /\ pc = "local_merge"
           /\ \/ /\ Moved("parents")
                 /\ main = "switched" \/ integ \subseteq base
                 /\ UNCHANGED <<base, second, made, seen>>
              \/ /\ Moved("parents") /\ ~(integ \subseteq base)
                 /\ made' = made + 1 /\ base' = base \cup integ \cup {made + 1}
                 /\ base' \in Ancestry /\ second' = integ
                 /\ SeenBut({"took"}) /\ seen'.took = seen.took \cup {Taking(integ)}
              \/ Stopped /\ UNCHANGED <<base, second, made, seen>>
           /\ UNCHANGED <<integ, wt, main, hub, run, env>>
<1>1. pc = "local_merge" /\ UNCHANGED <<integ, wt, main, hub, run, env>>
  BY DEF LocalMerge
<1>2. CASE /\ GoTo("parents") /\ ~(main = "switched" \/ integ \subseteq base)
           /\ made' = New /\ base' = base \cup integ \cup {New} /\ second' = integ
           /\ seen' = [seen EXCEPT !.took = @ \cup {Taking(integ)}]
  <2>1. base' \in Ancestry /\ made' = made + 1 /\ base' = base \cup integ \cup {made + 1}
    BY <1>2, AncestryOps DEF Typed, New
  <2>2. seen' \in SeenType
    BY <1>2, SeenTakes, TakingType DEF Typed
  <2>3. SeenBut({"took"}) /\ seen'.took = seen.took \cup {Taking(integ)}
    BY <1>2, <2>2, SeenFields DEF Typed, SeenBut, SeenField
  <2> QED
    BY <1>1, <1>2, <2>1, <2>3, Ends
<1>3. CASE /\ GoTo("parents")
           /\ main = "switched" \/ integ \subseteq base
           /\ UNCHANGED <<base, second, made, seen>>
  BY <1>1, <1>3, Ends
<1>4. CASE Stop("merge_failed") /\ UNCHANGED <<base, second, made, seen>>
  BY <1>1, <1>4, Ends
<1> QED
  BY <1>2, <1>3, <1>4 DEF LocalMerge

LEMMA RemoveDoes ==
    ASSUME Remove
    PROVE  /\ pc = "remove"
           /\ \/ Moved("delete") /\ wt \in {"clean", "absent"} /\ wt' = "absent"
              \/ Moved("render") /\ wt' = wt
           /\ UNCHANGED <<integ, base, second, main, hub, made, run, env, seen>>
BY Ends DEF Remove

LEMMA DeleteDoes ==
    ASSUME Delete
    PROVE  /\ pc = "delete" /\ Moved("render")
           /\ \/ integ' = integ
              \/ integ' = {} /\ wt = "absent"
           /\ UNCHANGED <<wt, base, second, main, hub, made, run, env, seen>>
BY Ends DEF Delete, Deletable

\* A step that touches nothing but the run's own place, lock and result.
Claimed == pc' = "release" /\ lock' = lock /\ res'.value = "merged" /\ res'.known = run.head

Quiet == UNCHANGED <<integ, wt, base, second, main, hub, made, run, env, seen>>

ControlStep ==
    \/ pc = "route" /\ Moved(IF hub.on THEN "resolve" ELSE "merged")
    \/ pc = "merged" /\ Moved("tree") /\ ~(integ \subseteq base)
    \/ pc = "merged" /\ Found(integ) /\ integ \subseteq base
    \/ pc = "tree" /\ Moved("lock")
    \/ pc = "lock" /\ pc' = (IF hub.on THEN "read_tip" ELSE "recheck") /\ lock' = "held" /\ res' = res
    \/ pc = "worktree" /\ pc' \in {"integrate", "add", "abort"} /\ Moved(pc')
    \/ pc = "verify_head" /\ wt = "clean" /\ integ = run.head
        /\ Moved(IF hub.on THEN "push" ELSE "base_check")
    \/ pc = "ci_head" /\ Moved("ci_checks") /\ Pr(run.pr).head = run.head
    \/ pc = "lock_check" /\ Moved(IF hub.on THEN "pr_state" ELSE "tree_check")
    \/ pc = "pr_state" /\ Moved("pr_merge")
    \/ /\ pc = "pr_state" /\ Found(run.head)
       /\ Pr(run.pr).state = "merged" /\ Pr(run.pr).head = run.head
    \/ pc = "pr_confirm" /\ Claimed /\ Resolve(Prs, run.head) = "merged"
    \/ pc = "tree_check" /\ Moved("tip_check")
    \/ pc = "tip_check" /\ Moved("local_merge") /\ integ = run.head
    \/ /\ pc = "parents" /\ Claimed
       /\ ~res'.noted => run.head = IF main = "switched" THEN integ ELSE second
    \/ pc = "release" /\ pc' = "render" /\ lock' = "none" /\ res' = res
    \/ pc = "release" /\ pc' = "remove" /\ lock' = "none" /\ res' = res /\ res.value # "not_merged"
    \/ pc = "render" /\ Moved("ended")
    \/ pc \in Calls /\ Stopped

LEMMA ControlDoes ==
    ASSUME \/ Route \/ CheckMerged \/ CheckTree \/ Lock \/ Worktree \/ VerifyHead \/ CiHead
           \/ LockCheck \/ PrStateStep \/ PrConfirm \/ TreeCheck \/ TipCheck \/ Parents
           \/ Release \/ Render \/ CallFails \/ CiTimeout
    PROVE  ControlStep /\ Quiet
<1> DEFINE Does == ControlStep /\ Quiet
<1> SUFFICES Does
  OBVIOUS
<1>0. Keep => Quiet
  BY DEF Keep, Quiet, gitVars
<1>1. CASE Route \/ CheckMerged \/ CheckTree
  BY <1>0, <1>1, Ends DEF Route, CheckMerged, CheckTree, AlreadyMerged, MainTree, ControlStep, Calls
<1>2. CASE Lock \/ VerifyHead
  BY <1>0, <1>2, Ends DEF Lock, VerifyHead, StillVerified, ControlStep, Calls
<1>10. CASE Worktree
  <2>1. \/ \E p \in {"integrate", "add", "abort"} : GoTo(p)
        \/ \E r : Stop(r)
    BY <1>10, Zenon DEF Worktree
  <2>2. pc = "worktree" /\ Quiet
    BY <1>0, <1>10 DEF Worktree
  <2> QED
    BY <2>1, <2>2, Ends DEF ControlStep, Calls, Moved
<1>3. CASE CiHead \/ LockCheck
  BY <1>0, <1>3, Ends DEF CiHead, LockCheck, ControlStep, Calls
<1>4. CASE PrStateStep
  BY <1>0, <1>4, Ends DEF PrStateStep, PrState, ControlStep, Calls
<1>5. CASE PrConfirm
  BY <1>0, <1>5, Ends DEF PrConfirm, Confirmed, NoResult, ControlStep, Claimed, Calls
<1>6. CASE TreeCheck \/ TipCheck
  BY <1>0, <1>6, Ends DEF TreeCheck, TipCheck, MainTree, ControlStep, Calls
<1>7. CASE Parents
  BY <1>0, <1>7 DEF Parents, Noted, NoResult, ControlStep, Claimed
<1>8. CASE Release \/ Render
  BY <1>0, <1>8, Ends DEF Release, Render, ControlStep
<1>9. CASE CallFails \/ CiTimeout
  BY <1>0, <1>9, Ends DEF CallFails, CiTimeout, PastDeadline, ControlStep, Calls
<1> QED
  BY <1>1, <1>2, <1>3, <1>4, <1>5, <1>6, <1>7, <1>8, <1>9, <1>10

LEMMA DieDoes ==
    ASSUME Typed, Die
    PROVE  /\ pc' = "idle" /\ lock' = "none" /\ EnvBut({"deaths"})
           /\ UNCHANGED <<integ, wt, base, second, main, hub, made, run, res, seen>>
BY EnvEdits DEF Die, Typed, EnvField, gitVars

\* Somebody touches what is not the run's.
ByHand == EnvBut({"hands"}) /\ env'.hands = env.hands + 1

LEMMA HandsUsed == Typed /\ Used("hands", MaxHands) => ByHand
BY EnvEdits DEF Typed, EnvField, ByHand

LEMMA LoseLockDoes ==
    ASSUME Typed, LoseLock
    PROVE  /\ lock' = "lost" /\ ByHand
           /\ UNCHANGED <<integ, wt, base, second, main, hub, made, pc, run, res, seen>>
BY HandsUsed DEF LoseLock, gitVars

LEMMA EditDoes ==
    ASSUME Typed, EditWorktree
    PROVE  /\ wt = "clean" /\ wt' = "changed" /\ ByHand
           /\ UNCHANGED <<integ, base, second, main, hub, made, pc, run, lock, res, seen>>
BY HandsUsed DEF EditWorktree

LEMMA MoveMainDoes ==
    ASSUME Typed, MoveMain
    PROVE  /\ main' \in {"dirty", "switched"} /\ ByHand
           /\ main' = "switched" => "switch" \in Windows
           /\ UNCHANGED <<integ, wt, base, second, hub, made, pc, run, lock, res, seen>>
BY HandsUsed DEF MoveMain

LEMMA StrayDoes ==
    ASSUME Typed, Stray
    PROVE  /\ integ # {} /\ wt # "merging" /\ (pc = "read_head" => "resolve" \in Windows)
           /\ made' = made + 1 /\ integ' = integ \cup {made + 1} /\ integ' \in Ancestry
           /\ SeenBut({"stray"}) /\ seen'.stray = seen.stray \cup {made + 1}
           /\ EnvBut({"stray"})
           /\ UNCHANGED <<wt, base, second, main, hub, pc, run, lock, res>>
<1>1. {made + 1} \in Ancestry /\ integ \cup {made + 1} \in Ancestry
  BY AncestryOps DEF Typed, New
<1>2. seen' = [seen EXCEPT !.stray = @ \cup {made + 1}] /\ seen' \in SeenType
  BY <1>1, SeenEdits DEF Stray, New, Typed
<1>3. SeenBut({"stray"}) /\ seen'.stray = seen.stray \cup {made + 1}
  BY <1>2, SeenFields DEF Typed, SeenBut, SeenField
<1>4. EnvBut({"stray"})
  BY EnvEdits DEF Stray, Typed, EnvField
<1> QED
  BY <1>1, <1>3, <1>4 DEF Stray, New

LEMMA MoveBaseDoes ==
    ASSUME Typed, MoveBase
    PROVE  /\ made' = made + 1 /\ base' \in Ancestry /\ EnvBut({"moves"})
           /\ \/ base' = base \cup {made + 1} /\ second' = {}
              \/ /\ ~hub.on /\ ~(integ \subseteq base)
                 /\ base' = base \cup integ \cup {made + 1} /\ second' = integ
           /\ UNCHANGED <<integ, wt, main, hub, pc, run, lock, res, seen>>
<1>1. /\ base \cup {made + 1} \in Ancestry /\ base \cup integ \cup {made + 1} \in Ancestry
  BY AncestryOps DEF Typed, New
<1>2. EnvBut({"moves"})
  BY EnvEdits DEF MoveBase, Typed, EnvField
<1> QED
  BY <1>1, <1>2 DEF MoveBase, New

LEMMA ForeignPushDoes ==
    ASSUME Typed, ForeignPush
    PROVE  /\ hub.on /\ made' = made + 1
           /\ HubBut({"branch", "queued"}) /\ hub'.branch = hub.branch \cup {made + 1}
           /\ hub'.queued = 0
           /\ EnvBut({"pushes"}) /\ env'.pushes = env.pushes + 1
           /\ UNCHANGED <<integ, wt, base, second, main, pc, run, lock, res, seen>>
<1>1. hub' = [hub EXCEPT !.branch = hub.branch \cup {made + 1}, !.queued = 0]
  BY DEF ForeignPush, New
<1>2. hub.branch \cup {made + 1} \in Ancestry /\ hub \in HubType
  BY AncestryOps, HubFields DEF Typed, New
<1>3. hub' \in HubType
  BY <1>1, <1>2, HubEdits
<1>4. HubBut({"branch", "queued"}) /\ hub'.branch = hub.branch \cup {made + 1} /\ hub'.queued = 0
  BY <1>1, <1>2, <1>3, HubFields DEF HubBut, HubField
<1>5. EnvBut({"pushes"}) /\ env'.pushes = env.pushes + 1
  BY EnvEdits DEF ForeignPush, Typed, EnvField
<1> QED
  BY <1>4, <1>5 DEF ForeignPush, New

\* An open pull request is made a draft or closed.
Shuts(i) ==
    /\ i \in DOMAIN hub.prs
    /\ HubBut({"prs", "queued"}) /\ hub'.queued = 0
    /\ DOMAIN hub'.prs = DOMAIN hub.prs /\ Len(hub'.prs) = Len(hub.prs)
    /\ \A j \in DOMAIN hub.prs \ {i} : hub'.prs[j] = hub.prs[j]
    /\ hub'.prs[i].state # "merged"

LEMMA HandleDoes ==
    ASSUME Typed, HandlePr
    PROVE  /\ ByHand
           /\ \E i \in DOMAIN hub.prs :
                /\ hub.prs[i].state = "open"
                /\ \/ Merges(i)
                   \/ Shuts(i) /\ UNCHANGED <<base, second, made>>
           /\ UNCHANGED <<integ, wt, main, pc, run, lock, res, seen>>
<1>1. ByHand /\ UNCHANGED <<integ, wt, main, pc, run, lock, res, seen>>
  BY HandsUsed DEF HandlePr
<1>2. PICK i \in DOMAIN hub.prs :
         /\ hub.prs[i].state = "open"
         /\ \/ /\ hub' = [hub EXCEPT !.prs[i].draft = TRUE, !.queued = 0]
               /\ UNCHANGED <<base, second, made>>
            \/ /\ hub' = [hub EXCEPT !.prs[i].state = "closed", !.prs[i].head = hub.branch, !.queued = 0]
               /\ UNCHANGED <<base, second, made>>
            \/ Merged(i)
  BY DEF HandlePr
<1>3. hub \in HubType /\ hub.branch \in Ancestry /\ hub.prs \in Seq(PullRequest)
  BY HubFields DEF Typed
<1>4. hub.prs[i] \in PullRequest
  BY <1>3
<1>5. ASSUME NEW p, p.state # "merged", hub' \in HubType,
             hub' = [hub EXCEPT !.prs = [hub.prs EXCEPT ![i] = p], !.queued = 0]
      PROVE  Shuts(i)
  <2>1. HubBut({"prs", "queued"}) /\ hub'.queued = 0 /\ hub'.prs = [hub.prs EXCEPT ![i] = p]
    BY <1>3, <1>5, HubFields DEF HubBut, HubField
  <2>2. hub'.prs \in Seq(PullRequest)
    BY <1>5, HubFields
  <2> QED
    BY <1>3, <1>5, <2>1, <2>2 DEF Shuts
<1>6. CASE hub' = [hub EXCEPT !.prs[i].draft = TRUE, !.queued = 0] /\ UNCHANGED <<base, second, made>>
  <2>1. hub' \in HubType
    BY <1>3, <1>6, PrEdits
  <2>2. hub' = [hub EXCEPT !.prs = [hub.prs EXCEPT ![i] = [hub.prs[i] EXCEPT !.draft = TRUE]],
                           !.queued = 0]
    BY <1>6
  <2>3. [hub.prs[i] EXCEPT !.draft = TRUE].state # "merged"
    BY <1>2, <1>4 DEF PullRequest
  <2> QED
    BY <1>1, <1>2, <1>5, <1>6, <2>1, <2>2, <2>3
<1>7. CASE /\ hub' = [hub EXCEPT !.prs[i].state = "closed", !.prs[i].head = hub.branch, !.queued = 0]
           /\ UNCHANGED <<base, second, made>>
  <2>1. hub' \in HubType
    BY <1>3, <1>7, PrEdits
  <2>2. hub' = [hub EXCEPT !.prs = [hub.prs EXCEPT ![i] =
                              [hub.prs[i] EXCEPT !.state = "closed", !.head = hub.branch]],
                           !.queued = 0]
    BY <1>7
  <2>3. [hub.prs[i] EXCEPT !.state = "closed", !.head = hub.branch].state # "merged"
    BY <1>4 DEF PullRequest
  <2> QED
    BY <1>1, <1>2, <1>5, <1>7, <2>1, <2>2, <2>3
<1>8. CASE Merged(i)
  BY <1>1, <1>2, <1>8, MergedDoes
<1> QED
  BY <1>2, <1>6, <1>7, <1>8

LEMMA QueueDoes ==
    ASSUME Typed, QueueMerges
    PROVE  /\ hub.queued # 0
           /\ \/ Merges(hub.queued)
              \/ HubBut({"queued"}) /\ hub'.queued = 0 /\ UNCHANGED <<base, second, made>>
           /\ UNCHANGED <<integ, wt, main, pc, run, lock, res, env, seen>>
<1>1. hub \in HubType /\ hub.queued \in DOMAIN hub.prs
  BY HubFields DEF QueueMerges, Typed
<1>2. CASE hub' = [hub EXCEPT !.queued = 0] /\ UNCHANGED <<base, second, made>>
  <2>1. hub' \in HubType
    BY <1>1, <1>2, HubEdits, AncestryOps
  <2>2. HubBut({"queued"}) /\ hub'.queued = 0
    BY <1>1, <1>2, <2>1, HubFields DEF HubBut, HubField
  <2> QED
    BY <1>2, <2>2 DEF QueueMerges
<1>3. CASE Merged(hub.queued)
  BY <1>1, <1>3, MergedDoes DEF QueueMerges
<1> QED
  BY <1>2, <1>3 DEF QueueMerges
-----------------------------------------------------------------------------
(* Types, routes and the pull request are kept *)

LEMMA TypedKept == Shape /\ [Next]_vars => Typed'
<1> SUFFICES ASSUME Shape, Typed, [Next]_vars PROVE Typed'
  BY DEF Shape
<1>0. /\ hub \in HubType /\ run \in RunType /\ seen \in SeenType /\ env \in EnvType /\ made \in Nat
      /\ integ \in Ancestry /\ base \in Ancestry /\ second \in Ancestry
      /\ hub.branch \in Ancestry /\ hub.queued \in Nat /\ Len(hub.prs) \in Nat
      /\ hub.queued =< Len(hub.prs) /\ DOMAIN hub.prs = 1..Len(hub.prs)
  BY HubFields DEF Typed
<1>1. CASE Invoke
  BY <1>1, InvokeDoes DEF Typed, EnvBut
<1>2. CASE PreflightStep
  BY <1>2, PreflightDoes DEF Typed, Moved, Stopped, RunBut, SeenBut
<1>3. CASE ResolvePr \/ Recheck
  BY <1>3, ResolveDoes DEF Typed, Moved, Stopped, Found, RunBut
<1>4. CASE CreatePush \/ Push
  BY <1>0, <1>4, PushDoes DEF Typed, Moved, Stopped, HubBut, HubField
<1>5. CASE CreatePr
  BY <1>0, <1>5, CreatePrDoes DEF Typed, Moved, Stopped, HubBut, HubField, RunBut
<1>6. CASE ReadTip \/ Integrate
  BY <1>6, ReadTipDoes, IntegrateDoes DEF Typed, Moved, Stopped, RunBut
<1>7. CASE Prepare
  BY <1>7, PrepareDoes DEF Typed, Moved, Stopped
<1>8. CASE IntegrateMerge
  BY <1>0, <1>8, IntegrateMergeDoes DEF Typed, Moved, Stopped, RunBut, Integrates
<1>9. CASE Conflict \/ ReadHead
  BY <1>0, <1>9, ConflictDoes, ReadHeadDoes DEF Typed, Moved, Stopped, RunBut, Integrates
<1>10. CASE Commands \/ CiChecks \/ BaseCheckStep
  BY <1>10, CommandsDoes, CiChecksDoes, BaseCheckDoes DEF Typed, Moved, Stopped, RunBut, SeenBut
<1>11. CASE PrMerge
  BY <1>0, <1>11, PrMergeDoes DEF Typed, Moved, Stopped, SeenBut, HubBut, HubField, Merges
<1>12. CASE LocalMerge
  BY <1>0, <1>12, LocalMergeDoes DEF Typed, Moved, Stopped, SeenBut
<1>13. CASE Remove \/ Delete
  BY <1>0, <1>13, RemoveDoes, DeleteDoes, AncestryOps DEF Typed, Moved
<1>14. CASE \/ Route \/ CheckMerged \/ CheckTree \/ Lock \/ Worktree \/ VerifyHead \/ CiHead
            \/ LockCheck \/ PrStateStep \/ PrConfirm \/ TreeCheck \/ TipCheck \/ Parents
            \/ Release \/ Render \/ CallFails \/ CiTimeout
  BY <1>14, ControlDoes DEF Typed, ControlStep, Quiet, Moved, Stopped, Found, Claimed
<1>15. CASE Die
  BY <1>15, DieDoes DEF Typed, EnvBut
<1>16. CASE LoseLock \/ EditWorktree \/ MoveMain
  BY <1>16, LoseLockDoes, EditDoes, MoveMainDoes DEF Typed, ByHand, EnvBut
<1>17. CASE Stray
  BY <1>0, <1>17, StrayDoes DEF Typed, EnvBut, SeenBut
<1>18. CASE MoveBase
  BY <1>0, <1>18, MoveBaseDoes, AncestryOps DEF Typed, EnvBut
<1>19. CASE ForeignPush
  BY <1>0, <1>19, ForeignPushDoes DEF Typed, EnvBut, HubBut, HubField
<1>20. CASE HandlePr
  BY <1>0, <1>20, HandleDoes DEF Typed, ByHand, EnvBut, HubBut, Merges, Shuts
<1>21. CASE QueueMerges
  BY <1>0, <1>21, QueueDoes DEF Typed, HubBut, HubField, Merges
<1>22. CASE UNCHANGED vars
  BY <1>22 DEF vars, gitVars, Typed
<1> QED
  BY <1>1, <1>2, <1>3, <1>4, <1>5, <1>6, <1>7, <1>8, <1>9, <1>10, <1>11, <1>12, <1>13, <1>14,
     <1>15, <1>16, <1>17, <1>18, <1>19, <1>20, <1>21, <1>22 DEF Next, Steps, Environment

\* A run stays on its route and, from the lock on, has its pull request.
LEMMA RouteKept == Shape /\ [Next]_vars => Routed' /\ HasPr' /\ hub'.on = hub.on
<1> SUFFICES ASSUME Shape, Typed, Routed, HasPr, [Next]_vars
             PROVE  Routed' /\ HasPr' /\ hub'.on = hub.on
  BY DEF Shape
<1> USE DEF Routed, HasPr, Terminal, Calls, PrSteps, LocalSteps
<1>0. hub.on \in BOOLEAN /\ Len(hub.prs) \in Nat /\ DOMAIN hub.prs = 1..Len(hub.prs)
  BY HubFields DEF Typed
<1>1. CASE Invoke
  BY <1>1, InvokeDoes
<1>2. CASE PreflightStep
  BY <1>2, PreflightDoes DEF Moved, Stopped
<1>3. CASE ResolvePr \/ Recheck
  BY <1>0, <1>3, ResolveDoes DEF Moved, Stopped, Found, RunBut, RunField
<1>4. CASE CreatePush \/ Push
  BY <1>0, <1>4, PushDoes DEF Moved, Stopped, HubBut, HubField
<1>5. CASE CreatePr
  BY <1>0, <1>5, CreatePrDoes DEF Moved, Stopped, HubBut, HubField
<1>6. CASE ReadTip \/ Integrate
  BY <1>6, ReadTipDoes, IntegrateDoes DEF Moved, Stopped, RunBut, RunField
<1>7. CASE Prepare
  BY <1>7, PrepareDoes DEF Moved, Stopped
<1>8. CASE IntegrateMerge
  BY <1>8, IntegrateMergeDoes DEF Moved, Stopped, RunBut, RunField
<1>9. CASE Conflict \/ ReadHead
  BY <1>9, ConflictDoes, ReadHeadDoes DEF Moved, Stopped, RunBut, RunField
<1>10. CASE Commands \/ CiChecks \/ BaseCheckStep
  BY <1>10, CommandsDoes, CiChecksDoes, BaseCheckDoes DEF Moved, Stopped, RunBut, RunField
<1>11. CASE PrMerge
  BY <1>0, <1>11, PrMergeDoes DEF Moved, Stopped, HubBut, HubField, Merges
<1>12. CASE LocalMerge \/ Remove \/ Delete
  BY <1>12, LocalMergeDoes, RemoveDoes, DeleteDoes DEF Moved, Stopped
<1>13. CASE \/ Route \/ CheckMerged \/ CheckTree \/ Lock \/ Worktree \/ VerifyHead \/ CiHead
            \/ LockCheck \/ PrStateStep \/ PrConfirm \/ TreeCheck \/ TipCheck \/ Parents
            \/ Release \/ Render \/ CallFails \/ CiTimeout
  BY <1>13, ControlDoes DEF ControlStep, Quiet, Moved, Stopped, Found, Claimed
<1>14. CASE Die \/ LoseLock \/ EditWorktree \/ MoveMain \/ Stray \/ MoveBase
  BY <1>14, DieDoes, LoseLockDoes, EditDoes, MoveMainDoes, StrayDoes, MoveBaseDoes
<1>15. CASE ForeignPush
  BY <1>0, <1>15, ForeignPushDoes DEF HubBut, HubField
<1>16. CASE HandlePr
  BY <1>0, <1>16, HandleDoes DEF HubBut, HubField, Merges, Shuts
<1>17. CASE QueueMerges
  BY <1>0, <1>17, QueueDoes DEF HubBut, HubField, Merges
<1>18. CASE UNCHANGED vars
  BY <1>18 DEF vars, gitVars
<1> QED
  BY <1>1, <1>2, <1>3, <1>4, <1>5, <1>6, <1>7, <1>8, <1>9, <1>10, <1>11, <1>12, <1>13, <1>14,
     <1>15, <1>16, <1>17, <1>18 DEF Next, Steps, Environment

LEMMA ShapeKept == Shape /\ [Next]_vars => Shape'
BY TypedKept, RouteKept DEF Shape

LEMMA NumberedInit == Init => Numbered
BY DEF Init, Numbered, NoRun

\* New commits get new numbers, and go nowhere else.
LEMMA NumberedKept == Shape /\ Numbered /\ [Next]_vars => Numbered'
<1> SUFFICES ASSUME Shape, Typed, Numbered, [Next]_vars PROVE Numbered'
  BY DEF Shape
<1> USE DEF Numbered
<1>0. made \in Nat /\ {} \subseteq 1..made
  BY DEF Typed
<1>1. made' = made + 1 => 1..made \subseteq 1..made' /\ made + 1 \in 1..made'
  BY <1>0
<1>2. CASE Invoke
  BY <1>0, <1>2, InvokeDoes DEF NoRun
<1>3. CASE PreflightStep
  BY <1>3, PreflightDoes DEF RunBut, RunField, SeenBut, SeenField
<1>4. CASE ResolvePr \/ Recheck \/ ReadTip
  BY <1>4, ResolveDoes, ReadTipDoes DEF RunBut, RunField
<1>5. CASE CreatePush \/ Push
  BY <1>5, PushDoes DEF HubBut, HubField
<1>6. CASE CreatePr
  BY <1>6, CreatePrDoes DEF RunBut, RunField, HubBut, HubField
<1>7. CASE Prepare \/ Integrate
  BY <1>7, PrepareDoes, IntegrateDoes DEF RunBut, RunField
<1>8. CASE IntegrateMerge
  BY <1>1, <1>8, IntegrateMergeDoes DEF RunBut, RunField, Integrates
<1>9. CASE Conflict \/ ReadHead
  BY <1>1, <1>9, ConflictDoes, ReadHeadDoes DEF RunBut, RunField, Integrates
<1>10. CASE Commands \/ CiChecks \/ BaseCheckStep
  BY <1>10, CommandsDoes, CiChecksDoes, BaseCheckDoes DEF RunBut, RunField, SeenBut, SeenField
<1>11. CASE PrMerge
  <2>1. Taking(run.head).commit = run.head
    BY DEF Taking
  <2> QED
    BY <1>1, <1>11, <2>1, PrMergeDoes DEF SeenBut, SeenField, HubBut, HubField, Merges
<1>12. CASE LocalMerge
  <2>1. Taking(integ).commit = integ
    BY DEF Taking
  <2> QED
    BY <1>1, <1>12, <2>1, LocalMergeDoes DEF SeenBut, SeenField
<1>13. CASE Remove \/ Delete
  BY <1>0, <1>13, RemoveDoes, DeleteDoes
<1>14. CASE \/ Route \/ CheckMerged \/ CheckTree \/ Lock \/ Worktree \/ VerifyHead \/ CiHead
            \/ LockCheck \/ PrStateStep \/ PrConfirm \/ TreeCheck \/ TipCheck \/ Parents
            \/ Release \/ Render \/ CallFails \/ CiTimeout
  BY <1>14, ControlDoes DEF Quiet
<1>15. CASE Die \/ LoseLock \/ EditWorktree \/ MoveMain
  BY <1>15, DieDoes, LoseLockDoes, EditDoes, MoveMainDoes
<1>16. CASE Stray
  BY <1>1, <1>16, StrayDoes DEF SeenBut, SeenField
<1>17. CASE MoveBase
  BY <1>1, <1>17, MoveBaseDoes
<1>18. CASE ForeignPush
  BY <1>1, <1>18, ForeignPushDoes DEF HubBut, HubField
<1>19. CASE HandlePr \/ QueueMerges
  BY <1>1, <1>19, HandleDoes, QueueDoes DEF HubBut, HubField, Merges, Shuts
<1>20. CASE UNCHANGED vars
  BY <1>20 DEF vars, gitVars
<1> QED
  BY <1>2, <1>3, <1>4, <1>5, <1>6, <1>7, <1>8, <1>9, <1>10, <1>11, <1>12, <1>13, <1>14,
     <1>15, <1>16, <1>17, <1>18, <1>19, <1>20 DEF Next, Steps, Environment

-----------------------------------------------------------------------------
(* What is deleted *)

LEMMA CheckedOutInit == Init => CheckedOut
BY DEF Init, CheckedOut

LEMMA CheckedOutKept == Shape /\ CheckedOut /\ [Next]_vars => CheckedOut'
<1> SUFFICES ASSUME Shape, Typed, CheckedOut, [Next]_vars PROVE CheckedOut'
  BY DEF Shape
<1> USE DEF CheckedOut, Moved, Stopped, Found, Terminal
<1>1. CASE Invoke \/ PreflightStep \/ ResolvePr \/ Recheck \/ CreatePush \/ Push
  BY <1>1, InvokeDoes, PreflightDoes, ResolveDoes, PushDoes
<1>2. CASE CreatePr \/ ReadTip \/ Prepare \/ Integrate
  BY <1>2, CreatePrDoes, ReadTipDoes, PrepareDoes, IntegrateDoes
<1>3. CASE IntegrateMerge \/ Conflict \/ ReadHead
  BY <1>3, IntegrateMergeDoes, ConflictDoes, ReadHeadDoes DEF Integrates
<1>4. CASE Commands \/ CiChecks \/ BaseCheckStep
  BY <1>4, CommandsDoes, CiChecksDoes, BaseCheckDoes
<1>5. CASE PrMerge \/ LocalMerge \/ Remove \/ Delete
  BY <1>5, PrMergeDoes, LocalMergeDoes, RemoveDoes, DeleteDoes
<1>6. CASE \/ Route \/ CheckMerged \/ CheckTree \/ Lock \/ Worktree \/ VerifyHead \/ CiHead
           \/ LockCheck \/ PrStateStep \/ PrConfirm \/ TreeCheck \/ TipCheck \/ Parents
           \/ Release \/ Render \/ CallFails \/ CiTimeout
  BY <1>6, ControlDoes DEF ControlStep, Quiet, Claimed
<1>7. CASE Die \/ LoseLock \/ EditWorktree \/ MoveMain
  BY <1>7, DieDoes, LoseLockDoes, EditDoes, MoveMainDoes
<1>8. CASE Stray \/ MoveBase \/ ForeignPush \/ HandlePr \/ QueueMerges
  BY <1>8, StrayDoes, MoveBaseDoes, ForeignPushDoes, HandleDoes, QueueDoes
<1>9. CASE UNCHANGED vars
  BY <1>9 DEF vars, gitVars
<1> QED
  BY <1>1, <1>2, <1>3, <1>4, <1>5, <1>6, <1>7, <1>8, <1>9 DEF Next, Steps, Environment

-----------------------------------------------------------------------------
(* What a result says *)

\* A pull request that is found merged at a commit has brought it into the base.
LEMMA FoundInBase ==
    ASSUME Typed, Backed, NEW tip, Resolve(Prs, tip) = "merged"
    PROVE  tip \subseteq base
<1>1. PICK i \in DOMAIN Prs : Prs[i].state = "merged" /\ Prs[i].head = tip
  BY DEF Resolve
<1>2. i \in DOMAIN hub.prs /\ Prs[i] = Pr(i)
  BY DEF Prs
<1>3. Pr(i) = hub.prs[i]
  BY <1>1, <1>2, PrHead DEF Pr
<1> QED
  BY <1>1, <1>2, <1>3 DEF Backed

LEMMA BackedInit == Init => Backed /\ ResultIsTrue
<1> SUFFICES ASSUME Init PROVE Backed /\ ResultIsTrue
  OBVIOUS
<1>1. hub.prs = <<>>
  BY DEF Init
<1>2. res.value = "none" /\ main = "ready" /\ pc = "idle"
  BY DEF Init, NoResult
<1> QED
  BY <1>1, <1>2 DEF Backed, ResultIsTrue

LEMMA BackedKept ==
    OnBase /\ Shape /\ Backed /\ ResultIsTrue /\ [Next]_vars => Backed' /\ ResultIsTrue'
<1> SUFFICES ASSUME OnBase, Shape, Typed, HasPr, Backed, ResultIsTrue, [Next]_vars
             PROVE  Backed' /\ ResultIsTrue'
  BY DEF Shape
<1> USE DEF Backed, ResultIsTrue, Moved, Stopped, Found, Terminal
<1>1. CASE Invoke \/ PreflightStep
  BY <1>1, InvokeDoes, PreflightDoes
<1>2. CASE ResolvePr \/ Recheck
  BY <1>2, ResolveDoes, FoundInBase
<1>3. CASE CreatePush \/ Push
  BY <1>3, PushDoes DEF HubBut, HubField
<1>4. CASE CreatePr
  BY <1>4, CreatePrDoes
<1>5. CASE ReadTip \/ Prepare \/ Integrate
  BY <1>5, ReadTipDoes, PrepareDoes, IntegrateDoes
<1>6. CASE IntegrateMerge \/ Conflict \/ ReadHead
  BY <1>6, IntegrateMergeDoes, ConflictDoes, ReadHeadDoes
<1>7. CASE Commands \/ CiChecks \/ BaseCheckStep
  BY <1>7, CommandsDoes, CiChecksDoes, BaseCheckDoes
<1>8. CASE PrMerge
  BY <1>8, PrMergeDoes DEF Merges, HubBut, HubField
<1>9. CASE LocalMerge \/ Remove \/ Delete
  BY <1>9, LocalMergeDoes, RemoveDoes, DeleteDoes
<1>10. CASE \/ Route \/ CheckMerged \/ CheckTree \/ Lock \/ Worktree \/ VerifyHead \/ CiHead
            \/ LockCheck \/ PrStateStep \/ PrConfirm \/ TreeCheck \/ TipCheck \/ Parents
            \/ Release \/ Render \/ CallFails \/ CiTimeout
  <2>1. pc = "pr_state" /\ Pr(run.pr).state = "merged" => Pr(run.pr).head \subseteq base
    <3>1. pc = "pr_state" => run.pr \in DOMAIN hub.prs
      BY DEF Shape, Routed, HasPr, PrSteps
    <3> QED
      BY <3>1, PrHead DEF Pr
  <2> QED
    BY <1>10, <2>1, ControlDoes, FoundInBase DEF ControlStep, Quiet, Claimed
<1>11. CASE Die \/ LoseLock \/ EditWorktree \/ MoveMain
  BY <1>11, DieDoes, LoseLockDoes, EditDoes, MoveMainDoes DEF OnBase
<1>12. CASE Stray \/ MoveBase
  BY <1>12, StrayDoes, MoveBaseDoes
<1>13. CASE ForeignPush
  BY <1>13, ForeignPushDoes DEF HubBut, HubField
<1>14. CASE HandlePr \/ QueueMerges
  BY <1>14, HandleDoes, QueueDoes DEF Merges, Shuts, HubBut, HubField
<1>15. CASE UNCHANGED vars
  BY <1>15 DEF vars, gitVars
<1> QED
  BY <1>1, <1>2, <1>3, <1>4, <1>5, <1>6, <1>7, <1>8, <1>9, <1>10, <1>11, <1>12, <1>13, <1>14,
     <1>15 DEF Next, Steps, Environment

-----------------------------------------------------------------------------
(* What is merged: every step keeps each part of Verified *)

Facts == Shape /\ Numbered /\ CheckedOut /\ Backed /\ Uninterrupted /\ OnBase /\ Verified

LEMMA StrayIntegratedKept == Facts /\ [Next]_vars => StrayIntegrated'
<1> SUFFICES ASSUME Typed, Numbered, Shape, CheckedOut, StrayIntegrated, [Next]_vars
             PROVE  StrayIntegrated'
  BY DEF Facts, Shape, Verified
<1> USE DEF StrayIntegrated
<1>0. made \in Nat /\ made + 1 \notin seen.stray /\ made + 1 \notin base /\ made + 1 \notin hub.branch
  BY DEF Typed, Numbered
<1>1. CASE Invoke \/ PreflightStep \/ ResolvePr \/ Recheck
  BY <1>1, InvokeDoes, PreflightDoes, ResolveDoes DEF SeenBut, SeenField
<1>2. CASE CreatePush \/ Push \/ CreatePr
  BY <1>2, PushDoes, CreatePrDoes DEF HubBut, HubField
<1>3. CASE ReadTip \/ Prepare \/ Integrate
  BY <1>3, ReadTipDoes, PrepareDoes, IntegrateDoes
<1>4. CASE IntegrateMerge \/ Conflict \/ ReadHead
  BY <1>4, IntegrateMergeDoes, ConflictDoes, ReadHeadDoes DEF Integrates, CheckedOut
<1>5. CASE Commands \/ CiChecks \/ BaseCheckStep
  BY <1>5, CommandsDoes, CiChecksDoes, BaseCheckDoes DEF SeenBut, SeenField
<1>6. CASE PrMerge \/ LocalMerge
  BY <1>0, <1>6, PrMergeDoes, LocalMergeDoes DEF Merges, HubBut, HubField, SeenBut, SeenField
<1>7. CASE Remove \/ Delete
  BY <1>7, RemoveDoes, DeleteDoes
<1>8. CASE \/ Route \/ CheckMerged \/ CheckTree \/ Lock \/ Worktree \/ VerifyHead \/ CiHead
           \/ LockCheck \/ PrStateStep \/ PrConfirm \/ TreeCheck \/ TipCheck \/ Parents
           \/ Release \/ Render \/ CallFails \/ CiTimeout
  BY <1>8, ControlDoes DEF Quiet
<1>9. CASE Die \/ LoseLock \/ EditWorktree \/ MoveMain
  BY <1>9, DieDoes, LoseLockDoes, EditDoes, MoveMainDoes
<1>10. CASE Stray
  BY <1>0, <1>10, StrayDoes DEF SeenBut, SeenField
<1>11. CASE MoveBase \/ ForeignPush
  BY <1>0, <1>11, MoveBaseDoes, ForeignPushDoes DEF HubBut, HubField
<1>12. CASE HandlePr \/ QueueMerges
  BY <1>0, <1>12, HandleDoes, QueueDoes DEF Merges, Shuts, HubBut, HubField
<1>13. CASE UNCHANGED vars
  BY <1>13 DEF vars, gitVars
<1> QED
  BY <1>1, <1>2, <1>3, <1>4, <1>5, <1>6, <1>7, <1>8, <1>9, <1>10, <1>11, <1>12, <1>13
     DEF Next, Steps, Environment

LEMMA HeadJudgedKept == Facts /\ [Next]_vars => HeadJudged'
<1> SUFFICES ASSUME Typed, Numbered, Shape, CheckedOut, Uninterrupted, StrayIntegrated, HeadJudged,
                    [Next]_vars
             PROVE  HeadJudged'
  BY DEF Facts, Shape, Verified
<1> USE DEF HeadJudged, Judged, Beyond, Integrated, Combined, Tested, Merging,
            Moved, Stopped, Found, Terminal, Calls
<1>0. /\ made \in Nat /\ made + 1 \notin run.tip /\ made + 1 \notin run.head
      /\ made + 1 \notin run.ibase /\ made + 1 \notin integ /\ made + 1 \notin seen.stray
  BY DEF Typed, Numbered
<1>1. CASE Invoke
  BY <1>1, InvokeDoes DEF NoRun
<1>2. CASE PreflightStep
  BY <1>2, PreflightDoes DEF RunBut, RunField, SeenBut, SeenField
<1>3. CASE ResolvePr \/ Recheck \/ ReadTip
  BY <1>3, ResolveDoes, ReadTipDoes DEF RunBut, RunField
<1>4. CASE CreatePush \/ Push
  BY <1>4, PushDoes
<1>5. CASE CreatePr
  BY <1>5, CreatePrDoes DEF RunBut, RunField
<1>6. CASE Prepare
  BY <1>6, PrepareDoes
<1>7. CASE Integrate
  BY <1>7, IntegrateDoes DEF RunBut, RunField, ExpectedHead, StrayIntegrated, CheckedOut
<1>8. CASE IntegrateMerge
  BY <1>0, <1>8, IntegrateMergeDoes DEF RunBut, RunField, Integrates
<1>9. CASE Conflict \/ ReadHead
  BY <1>0, <1>9, ConflictDoes, ReadHeadDoes DEF RunBut, RunField, Integrates
<1>10. CASE Commands \/ CiChecks
  BY <1>10, CommandsDoes, CiChecksDoes DEF SeenBut, SeenField
<1>11. CASE BaseCheckStep
  BY <1>11, BaseCheckDoes DEF RunBut, RunField, SeenBut, SeenField
<1>12. CASE PrMerge \/ LocalMerge
  BY <1>12, PrMergeDoes, LocalMergeDoes DEF SeenBut, SeenField
<1>13. CASE Remove \/ Delete
  BY <1>13, RemoveDoes, DeleteDoes
<1>14. CASE \/ Route \/ CheckMerged \/ CheckTree \/ Lock \/ Worktree \/ VerifyHead \/ CiHead
            \/ LockCheck \/ PrStateStep \/ PrConfirm \/ TreeCheck \/ TipCheck \/ Parents
            \/ Release \/ Render \/ CallFails \/ CiTimeout
  BY <1>14, ControlDoes DEF ControlStep, Quiet, Claimed
<1>15. CASE Die \/ LoseLock \/ EditWorktree \/ MoveMain
  BY <1>15, DieDoes, LoseLockDoes, EditDoes, MoveMainDoes
<1>16. CASE Stray
  BY <1>0, <1>16, StrayDoes DEF SeenBut, SeenField, Uninterrupted, CheckedOut
<1>17. CASE MoveBase \/ ForeignPush \/ HandlePr \/ QueueMerges
  BY <1>17, MoveBaseDoes, ForeignPushDoes, HandleDoes, QueueDoes
<1>18. CASE UNCHANGED vars
  BY <1>18 DEF vars, gitVars
<1> QED
  BY <1>1, <1>2, <1>3, <1>4, <1>5, <1>6, <1>7, <1>8, <1>9, <1>10, <1>11, <1>12, <1>13, <1>14,
     <1>15, <1>16, <1>17, <1>18 DEF Next, Steps, Environment

LEMMA HeadTestedKept == Facts /\ [Next]_vars => HeadTested'
<1> SUFFICES ASSUME Typed, Numbered, Shape, HasPr, HeadJudged, HeadTested, [Next]_vars
             PROVE  HeadTested'
  BY DEF Facts, Shape, Verified
<1> USE DEF HeadTested, Beyond, Tested, Merging, Moved, Stopped, Found, Terminal, Calls
<1>0. /\ made \in Nat /\ made + 1 \notin run.head /\ made + 1 \notin integ
      /\ DOMAIN hub.prs = 1..Len(hub.prs) /\ Len(hub.prs) \in Nat
  BY HubFields DEF Typed, Numbered
<1>1. pc \in {"commands"} \cup Tested /\ hub.on => run.pr \in DOMAIN hub.prs
  BY DEF Shape, HasPr, PrSteps, Routed, LocalSteps
<1>2. CASE Invoke \/ PreflightStep
  BY <1>2, InvokeDoes, PreflightDoes
<1>3. CASE ResolvePr \/ Recheck \/ ReadTip
  BY <1>3, ResolveDoes, ReadTipDoes
<1>4. CASE CreatePush \/ Push
  BY <1>4, PushDoes
<1>5. CASE CreatePr
  BY <1>5, CreatePrDoes
<1>6. CASE Prepare \/ Integrate
  BY <1>6, PrepareDoes, IntegrateDoes
<1>7. CASE IntegrateMerge \/ Conflict \/ ReadHead
  BY <1>7, IntegrateMergeDoes, ConflictDoes, ReadHeadDoes
<1>8. CASE Commands
  BY <1>8, CommandsDoes DEF SeenBut, SeenField, HeadJudged, Integrated, Combined
<1>9. CASE CiChecks
  BY <1>9, CiChecksDoes DEF SeenBut, SeenField, Pr
<1>10. CASE BaseCheckStep
  BY <1>10, BaseCheckDoes DEF RunBut, RunField, SeenBut, SeenField
<1>11. CASE PrMerge
  BY <1>11, PrMergeDoes DEF SeenBut, SeenField
<1>12. CASE LocalMerge
  BY <1>12, LocalMergeDoes DEF SeenBut, SeenField
<1>13. CASE Remove \/ Delete
  BY <1>13, RemoveDoes, DeleteDoes
<1>14. CASE \/ Route \/ CheckMerged \/ CheckTree \/ Lock \/ Worktree \/ VerifyHead \/ CiHead
            \/ LockCheck \/ PrStateStep \/ PrConfirm \/ TreeCheck \/ TipCheck \/ Parents
            \/ Release \/ Render \/ CallFails \/ CiTimeout
  BY <1>1, <1>14, ControlDoes DEF ControlStep, Quiet, Claimed, Pr, Shape, Routed, LocalSteps
<1>15. CASE Die \/ LoseLock \/ EditWorktree \/ MoveMain
  BY <1>15, DieDoes, LoseLockDoes, EditDoes, MoveMainDoes
<1>16. CASE Stray
  BY <1>0, <1>16, StrayDoes DEF SeenBut, SeenField
<1>17. CASE MoveBase
  BY <1>17, MoveBaseDoes
<1>18. CASE ForeignPush
  BY <1>0, <1>18, ForeignPushDoes DEF HubBut, HubField
<1>19. CASE HandlePr \/ QueueMerges
  BY <1>1, <1>19, HandleDoes, QueueDoes DEF Merges, Shuts, HubBut, HubField
<1>20. CASE UNCHANGED vars
  BY <1>20 DEF vars, gitVars
<1> QED
  BY <1>2, <1>3, <1>4, <1>5, <1>6, <1>7, <1>8, <1>9, <1>10, <1>11, <1>12, <1>13, <1>14,
     <1>15, <1>16, <1>17, <1>18, <1>19, <1>20 DEF Next, Steps, Environment

LEMMA TookHeadKept == Facts /\ [Next]_vars => TookHead'
<1> SUFFICES ASSUME Typed, Numbered, Shape, HeadJudged, TookHead, OnBase, Backed, [Next]_vars
             PROVE  TookHead'
  BY DEF Facts, Shape, Verified
<1> USE DEF TookHead, Moved, Stopped, Found, Terminal, Calls
<1>0. /\ made \in Nat /\ made + 1 \notin run.head /\ made + 1 \notin integ
      /\ env.runs \in Nat /\ \A t \in seen.took : t.run \in Nat
  BY SeenFields DEF Typed, Numbered, EnvType, TakenType
<1>1. CASE Invoke
  BY <1>0, <1>1, InvokeDoes
<1>2. CASE PreflightStep
  BY <1>2, PreflightDoes DEF SeenBut, SeenField
<1>3. CASE ResolvePr \/ Recheck \/ ReadTip
  BY <1>3, ResolveDoes, ReadTipDoes
<1>4. CASE CreatePush \/ Push \/ CreatePr
  BY <1>4, PushDoes, CreatePrDoes
<1>5. CASE Prepare \/ Integrate
  BY <1>5, PrepareDoes, IntegrateDoes
<1>6. CASE IntegrateMerge \/ Conflict \/ ReadHead
  BY <1>6, IntegrateMergeDoes, ConflictDoes, ReadHeadDoes
<1>7. CASE Commands \/ CiChecks \/ BaseCheckStep
  BY <1>7, CommandsDoes, CiChecksDoes, BaseCheckDoes DEF SeenBut, SeenField
<1>8. CASE PrMerge
  <2>1. Taking(run.head).commit = run.head /\ Taking(run.head).run = env.runs
    BY DEF Taking
  <2> QED
    BY <1>0, <1>8, <2>1, PrMergeDoes DEF SeenBut, SeenField
<1>9. CASE LocalMerge
  <2>1. Taking(integ).commit = integ /\ Taking(integ).run = env.runs
    BY DEF Taking
  <2>2. pc = "local_merge" => integ = run.head \/ ~(integ \subseteq run.head)
    BY DEF HeadJudged, Beyond, Integrated, Combined, Tested, Merging
  <2> QED
    BY <1>0, <1>9, <2>1, <2>2, LocalMergeDoes DEF SeenBut, SeenField
<1>10. CASE Remove \/ Delete
  BY <1>10, RemoveDoes, DeleteDoes
<1>11. CASE \/ Route \/ CheckMerged \/ CheckTree \/ Lock \/ Worktree \/ VerifyHead \/ CiHead
            \/ LockCheck \/ PrStateStep \/ PrConfirm \/ TreeCheck \/ TipCheck \/ Parents
            \/ Release \/ Render \/ CallFails \/ CiTimeout
  BY <1>11, ControlDoes DEF ControlStep, Quiet, Claimed
<1>12. CASE Die
  BY <1>12, DieDoes DEF EnvBut, EnvField
<1>13. CASE LoseLock \/ EditWorktree \/ MoveMain
  BY <1>13, LoseLockDoes, EditDoes, MoveMainDoes DEF ByHand, EnvBut, EnvField
<1>14. CASE Stray
  BY <1>0, <1>14, StrayDoes DEF SeenBut, SeenField, EnvBut, EnvField
<1>15. CASE MoveBase
  <2>1. pc = "parents" => run.head # {}
    BY DEF HeadJudged, Integrated, Combined, Tested
  <2> QED
    BY <1>15, <2>1, MoveBaseDoes DEF EnvBut, EnvField
<1>16. CASE ForeignPush
  BY <1>16, ForeignPushDoes DEF EnvBut, EnvField
<1>17. CASE HandlePr \/ QueueMerges
  <2>1. pc # "parents"
    <3>1. hub \in HubType /\ hub.queued =< Len(hub.prs)
      BY DEF Typed
    <3>2. HandlePr => Len(hub.prs) # 0
      BY <3>1, HandleDoes, HubFields
    <3>3. QueueMerges => Len(hub.prs) # 0
      BY <3>1, QueueDoes, HubFields
    <3> QED
      BY <1>17, <3>2, <3>3 DEF Shape, Routed, LocalSteps
  <2> QED
    BY <1>17, <2>1, HandleDoes, QueueDoes DEF ByHand, EnvBut, EnvField
<1>19. CASE UNCHANGED vars
  BY <1>19 DEF vars, gitVars
<1> QED
  BY <1>1, <1>2, <1>3, <1>4, <1>5, <1>6, <1>7, <1>8, <1>9, <1>10, <1>11, <1>12, <1>13, <1>14,
     <1>15, <1>16, <1>17, <1>19 DEF Next, Steps, Environment

LEMMA VerifiedInit == Init => Verified
<1> SUFFICES ASSUME Init PROVE Verified
  OBVIOUS
<1>1. /\ seen.took = {} /\ seen.stray = {} /\ res.value = "none" /\ pc = "idle"
      /\ run.tip = {} /\ run.redo = 0
  BY DEF Init, NoResult, NoRun
<1> QED
  BY <1>1 DEF Verified, StrayIntegrated, HeadJudged, HeadTested, TookHead, MergedIsVerified,
     TookTested, TookCombination, NoUnjudgedCommit, Claims, Calls, PrSteps, Combined, Integrated,
     Tested, Merging

\* The commit a merge command takes is tested, and contains what the base check saw.
LEMMA TakenIsVerified ==
    ASSUME Facts
    PROVE  /\ pc = "pr_merge" /\ hub.prs[run.pr].state = "open" /\ hub.branch = run.head =>
                run.head \in seen.tested \cap seen.ci /\ seen.checked \subseteq run.head
           /\ pc = "local_merge" => seen.checked \subseteq integ
<1>1. HeadJudged /\ HeadTested /\ Backed /\ Routed
  BY DEF Facts, Verified, Shape
<1>2. pc = "pr_merge" /\ hub.prs[run.pr].state = "open" /\ hub.branch = run.head =>
                run.head \in seen.tested \cap seen.ci /\ seen.checked \subseteq run.head
  BY <1>1 DEF HeadJudged, HeadTested, Routed, PrSteps, Combined, Integrated, Tested, Merging
<1>3. pc = "local_merge" => seen.checked \subseteq integ
  BY <1>1 DEF HeadJudged, HeadTested, Backed, Combined, Integrated, Tested, Merging
<1> QED
  BY <1>2, <1>3

LEMMA MergedIsVerifiedKept == Facts /\ [Next]_vars => MergedIsVerified'
<1> SUFFICES ASSUME Facts, Typed, Numbered, Shape, HeadJudged, HeadTested, TookHead, Backed,
                    MergedIsVerified, [Next]_vars
             PROVE  MergedIsVerified'
  BY DEF Facts, Shape, Verified
<1> USE DEF MergedIsVerified, TookTested, TookCombination, NoUnjudgedCommit, Claims,
            Moved, Stopped, Found
<1>0. /\ made \in Nat /\ \A t \in seen.took : made + 1 \notin t.commit
      /\ env.runs \in Nat /\ \A t \in seen.took : t.run \in Nat /\ t.run =< env.runs
  BY SeenFields DEF Typed, Numbered, EnvType, TakenType, TookHead
<1>1. CASE Invoke
  BY <1>1, InvokeDoes
<1>2. CASE PreflightStep
  BY <1>2, PreflightDoes DEF SeenBut, SeenField
<1>3. CASE ResolvePr \/ Recheck \/ ReadTip
  BY <1>3, ResolveDoes, ReadTipDoes
<1>4. CASE CreatePush \/ Push \/ CreatePr
  BY <1>4, PushDoes, CreatePrDoes DEF HubBut, HubField
<1>5. CASE Prepare \/ Integrate
  BY <1>5, PrepareDoes, IntegrateDoes
<1>6. CASE IntegrateMerge \/ Conflict \/ ReadHead
  BY <1>6, IntegrateMergeDoes, ConflictDoes, ReadHeadDoes
<1>7. CASE Commands \/ CiChecks \/ BaseCheckStep
  BY <1>7, CommandsDoes, CiChecksDoes, BaseCheckDoes DEF SeenBut, SeenField
<1>8. CASE PrMerge
  <2>1. /\ Taking(run.head).commit = run.head /\ Taking(run.head).run = env.runs
        /\ Taking(run.head).checked = seen.checked
    BY DEF Taking
  <2>2. hub'.on = hub.on /\ (pc = "pr_merge" => res.value = "none")
    BY RouteKept DEF TookHead, Calls
  <2> QED
    BY <1>8, <2>1, <2>2, PrMergeDoes, TakenIsVerified DEF SeenBut, SeenField
<1>9. CASE LocalMerge
  <2>1. Taking(integ).commit = integ /\ Taking(integ).checked = seen.checked
    BY DEF Taking
  <2>2. pc = "local_merge" => res.value = "none" /\ ~hub.on
    BY DEF TookHead, Calls, Shape, Routed, LocalSteps
  <2> QED
    BY <1>9, <2>1, <2>2, LocalMergeDoes, TakenIsVerified DEF SeenBut, SeenField
<1>10. CASE Remove \/ Delete
  BY <1>10, RemoveDoes, DeleteDoes
<1>11. CASE \/ Route \/ CheckMerged \/ CheckTree \/ Lock \/ Worktree \/ VerifyHead \/ CiHead
            \/ LockCheck \/ PrStateStep \/ PrConfirm \/ TreeCheck \/ TipCheck \/ Parents
            \/ Release \/ Render \/ CallFails \/ CiTimeout
  <2>1. pc \in {"parents", "pr_confirm"} => run.head \in seen.tested /\ Judged(run.head)
    BY DEF HeadJudged, HeadTested, Integrated, Combined, Tested
  <2>2. CASE pc = "parents" /\ Claimed /\ Quiet
             /\ (~res'.noted => run.head = IF main = "switched" THEN integ ELSE second)
    <3>1. ~res'.noted => \A t \in seen.took : t.run = env.runs => t.commit = run.head
      BY <2>2 DEF TookHead, Backed
    <3> QED
      BY <2>1, <2>2, <3>1 DEF Claimed, Quiet, Judged
  <2>3. CASE pc = "pr_confirm" /\ Claimed /\ Quiet
    <3>1. \A t \in seen.took : t.run = env.runs => t.commit = run.head
      BY <2>3 DEF TookHead
    <3>2. hub.on
      BY <2>3 DEF Shape, Routed, PrSteps
    <3> QED
      BY <2>1, <2>3, <3>1, <3>2 DEF Claimed, Quiet, Judged
  <2> QED
    BY <1>11, <2>2, <2>3, ControlDoes DEF ControlStep, Quiet
<1>12. CASE Die
  BY <1>12, DieDoes DEF EnvBut, EnvField
<1>13. CASE LoseLock \/ EditWorktree \/ MoveMain
  BY <1>13, LoseLockDoes, EditDoes, MoveMainDoes DEF ByHand, EnvBut, EnvField
<1>14. CASE Stray
  BY <1>0, <1>14, StrayDoes DEF SeenBut, SeenField, EnvBut, EnvField
<1>15. CASE MoveBase \/ ForeignPush
  BY <1>15, MoveBaseDoes, ForeignPushDoes DEF EnvBut, EnvField, HubBut, HubField
<1>16. CASE HandlePr \/ QueueMerges
  BY <1>16, HandleDoes, QueueDoes DEF Merges, Shuts, ByHand, EnvBut, EnvField, HubBut, HubField
<1>17. CASE UNCHANGED vars
  BY <1>17 DEF vars, gitVars
<1> QED
  BY <1>1, <1>2, <1>3, <1>4, <1>5, <1>6, <1>7, <1>8, <1>9, <1>10, <1>11, <1>12, <1>13, <1>14,
     <1>15, <1>16, <1>17 DEF Next, Steps, Environment

-----------------------------------------------------------------------------
(* How often the feature is merged *)

LEMMA OnceInit == Init => Once
<1> SUFFICES ASSUME Init PROVE Once
  OBVIOUS
<1>1. /\ pc = "idle" /\ seen.took = {} /\ hub.prs = <<>> /\ hub.queued = 0
  BY DEF Init
<1> QED
  BY <1>1 DEF Once, Combined, Tested, Merging

\* Who was alone has been alone before, and nobody else has taken this step.
LEMMA AloneBefore ==
    ASSUME Shape, [Next]_vars, Alone'
    PROVE  /\ Alone
           /\ ~(Stray \/ ForeignPush \/ HandlePr \/ LoseLock \/ EditWorktree \/ MoveMain)
<1>0. Typed /\ env.pushes \in Nat /\ env.hands \in Nat /\ made \in Nat /\ seen.queued \in BOOLEAN
  BY SeenFields DEF Shape, Typed, EnvType
<1> USE <1>0 DEF Alone
<1>1. ~LoseLock /\ ~EditWorktree /\ ~MoveMain /\ ~HandlePr
  BY LoseLockDoes, EditDoes, MoveMainDoes, HandleDoes DEF ByHand
<1>2. ~Stray /\ ~ForeignPush
  BY StrayDoes, ForeignPushDoes
<1>3. Alone
  <2>1. CASE Invoke \/ PreflightStep \/ ResolvePr \/ Recheck \/ CreatePush \/ Push \/ CreatePr
    BY <2>1, InvokeDoes, PreflightDoes, ResolveDoes, PushDoes, CreatePrDoes
       DEF EnvBut, EnvField, SeenBut, SeenField
  <2>2. CASE ReadTip \/ Prepare \/ Integrate \/ IntegrateMerge \/ Conflict \/ ReadHead
    BY <2>2, ReadTipDoes, PrepareDoes, IntegrateDoes, IntegrateMergeDoes, ConflictDoes, ReadHeadDoes
  <2>3. CASE Commands \/ CiChecks \/ BaseCheckStep \/ PrMerge \/ LocalMerge \/ Remove \/ Delete
    BY <2>3, CommandsDoes, CiChecksDoes, BaseCheckDoes, PrMergeDoes, LocalMergeDoes, RemoveDoes,
       DeleteDoes DEF SeenBut, SeenField
  <2>4. CASE \/ Route \/ CheckMerged \/ CheckTree \/ Lock \/ Worktree \/ VerifyHead \/ CiHead
             \/ LockCheck \/ PrStateStep \/ PrConfirm \/ TreeCheck \/ TipCheck \/ Parents
             \/ Release \/ Render \/ CallFails \/ CiTimeout
    BY <2>4, ControlDoes DEF Quiet
  <2>5. CASE Die \/ MoveBase \/ QueueMerges
    BY <2>5, DieDoes, MoveBaseDoes, QueueDoes DEF EnvBut, EnvField
  <2>6. CASE UNCHANGED vars
    BY <2>6 DEF vars, gitVars
  <2> QED
    BY <2>1, <2>2, <2>3, <2>4, <2>5, <2>6, <1>1, <1>2 DEF Next, Steps, Environment
<1> QED
  BY <1>1, <1>2, <1>3

LEMMA OnceKept == Shape /\ CheckedOut /\ (Alone => Once) /\ [Next]_vars => (Alone' => Once')
<1> SUFFICES ASSUME Shape, Typed, Routed, CheckedOut, Alone, Alone', Once, [Next]_vars
             PROVE  Once'
  BY AloneBefore DEF Shape
<1> USE DEF Once, IsMerged, Combined, Tested, Merging, Moved, Stopped, Found, Terminal, Calls
<1>0. /\ ~seen.queued /\ ~seen'.queued /\ hub.on \in BOOLEAN
      /\ DOMAIN hub.prs = 1..Len(hub.prs) /\ Len(hub.prs) \in Nat
  BY HubFields DEF Alone, Typed
<1>1. CASE Invoke
  BY <1>1, InvokeDoes
<1>2. CASE PreflightStep
  BY <1>2, PreflightDoes DEF SeenBut, SeenField
<1>3. CASE ResolvePr
  <2>1. \A i \in DOMAIN hub.prs : IsMerged(i) /\ pc = "resolve" => Resolve(Prs, run.tip) = "merged"
    <3> SUFFICES ASSUME NEW i \in DOMAIN hub.prs, IsMerged(i), hub.on, pc = "resolve"
                 PROVE  Resolve(Prs, run.tip) = "merged"
      BY <1>3, ResolveDoes DEF Routed, PrSteps
    <3>1. i \in DOMAIN Prs /\ Prs[i] = hub.prs[i] /\ hub.prs[i].head = run.tip
      BY <1>0 DEF Prs, Pr
    <3> QED
      BY <3>1 DEF Resolve
  <2>2. pc = "resolve"
    BY <1>3 DEF ResolvePr
  <2>3. \/ res'.value = "already_merged" /\ pc' \in {"remove", "release"}
        \/ \A i \in DOMAIN hub.prs : ~IsMerged(i)
        \/ Stopped
    BY <1>3, <2>1, <2>2, Ends, Zenon DEF ResolvePr
  <2> QED
    BY <1>3, <2>2, <2>3, ResolveDoes DEF RunBut, RunField, Routed, PrSteps
<1>4. CASE Recheck
  <2>1. pc = "recheck"
    BY <1>4 DEF Recheck
  <2>2. ~hub.on => seen.took = {}
    BY <2>1
  <2>3. hub.on => \A i \in DOMAIN hub.prs : ~IsMerged(i)
    BY <2>1
  <2>4. pc' \notin Combined \cup {"route", "resolve"}
    BY <1>4, <2>1, ResolveDoes
  <2> QED
    BY <1>0, <1>4, <2>1, <2>2, <2>3, <2>4, ResolveDoes
<1>19. CASE ReadTip
  BY <1>0, <1>19, ReadTipDoes DEF RunBut, RunField
<1>5. CASE CreatePush \/ Push
  BY <1>0, <1>5, PushDoes DEF HubBut, HubField
<1>6. CASE CreatePr
  BY <1>0, <1>6, CreatePrDoes DEF HubBut, HubField
<1>7. CASE Prepare \/ Integrate
  BY <1>0, <1>7, PrepareDoes, IntegrateDoes DEF RunBut, RunField
<1>8. CASE IntegrateMerge
  BY <1>0, <1>8, IntegrateMergeDoes DEF RunBut, RunField
<1>9. CASE Conflict \/ ReadHead
  BY <1>0, <1>9, ConflictDoes, ReadHeadDoes DEF RunBut, RunField
<1>10. CASE Commands \/ CiChecks \/ BaseCheckStep
  BY <1>0, <1>10, CommandsDoes, CiChecksDoes, BaseCheckDoes
     DEF RunBut, RunField, SeenBut, SeenField
<1>11. CASE PrMerge
  BY <1>0, <1>11, PrMergeDoes DEF SeenBut, SeenField, HubBut, HubField, Merges
<1>12. CASE LocalMerge
  <2>1. Taking(integ).run = env.runs
    BY DEF Taking
  <2> QED
    BY <1>0, <1>12, <2>1, LocalMergeDoes DEF SeenBut, SeenField, Routed, LocalSteps
<1>13. CASE Remove \/ Delete
  BY <1>0, <1>13, RemoveDoes, DeleteDoes
<1>14. CASE \/ Route \/ CheckMerged \/ CheckTree \/ Lock \/ Worktree \/ VerifyHead \/ CiHead
            \/ LockCheck \/ PrStateStep \/ PrConfirm \/ TreeCheck \/ TipCheck \/ Parents
            \/ Release \/ Render \/ CallFails \/ CiTimeout
  BY <1>0, <1>14, ControlDoes DEF ControlStep, Quiet, Claimed
<1>15. CASE Die
  BY <1>15, DieDoes
<1>16. CASE MoveBase
  BY <1>0, <1>16, MoveBaseDoes
<1>17. CASE QueueMerges
  BY <1>0, <1>17, QueueDoes
<1>18. CASE UNCHANGED vars
  BY <1>18 DEF vars, gitVars
<1> QED
  BY <1>1, <1>2, <1>3, <1>4, <1>5, <1>6, <1>7, <1>8, <1>9, <1>10, <1>11, <1>12, <1>13, <1>14,
     <1>15, <1>16, <1>17, <1>18, <1>19, AloneBefore DEF Next, Steps, Environment

LEMMA AtMostOne ==
    ASSUME NEW S, \A x, y \in S : x = y
    PROVE  Cardinality(S) =< 1
<1>1. CASE S = {}
  <2>1. Cardinality(S) = 0
    BY <1>1, FS_EmptySet
  <2> QED
    BY <2>1
<1>2. CASE S # {}
  <2>1. PICK x : x \in S
    BY <1>2
  <2>2. S = {x}
    BY <2>1
  <2>3. Cardinality(S) = 1
    BY <2>2, FS_Singleton
  <2> QED
    BY <2>3
<1> QED
  BY <1>1, <1>2

LEMMA OnceIsOnce == Typed /\ (Alone => Once) => RepeatsMergeOnce
<1> SUFFICES ASSUME Typed, Alone, Once
             PROVE  Cardinality(IF hub.on THEN {i \in DOMAIN hub.prs : hub.prs[i].state = "merged"}
                                          ELSE {t.run : t \in seen.took}) =< 1
  BY DEF RepeatsMergeOnce, MergedOnce, Alone
<1>1. CASE hub.on
  <2>1. \A i, j \in {k \in DOMAIN hub.prs : hub.prs[k].state = "merged"} : i = j
    BY <1>1 DEF Once, IsMerged
  <2> QED
    BY <1>1, <2>1, AtMostOne
<1>2. CASE ~hub.on
  <2>1. \A m, n \in {t.run : t \in seen.took} : m = n
    BY <1>2 DEF Once
  <2> QED
    BY <1>2, <2>1, AtMostOne
<1> QED
  BY <1>1, <1>2

-----------------------------------------------------------------------------
(* The theorems *)

LEMMA VerifiedKept == Facts /\ [Next]_vars => Verified'
<1> SUFFICES ASSUME Facts, [Next]_vars PROVE Verified'
  OBVIOUS
<1>1. StrayIntegrated' /\ HeadJudged'
  BY StrayIntegratedKept, HeadJudgedKept
<1>2. HeadTested' /\ TookHead'
  BY HeadTestedKept, TookHeadKept
<1>3. MergedIsVerified'
  BY MergedIsVerifiedKept
<1> QED
  BY <1>1, <1>2, <1>3, Zenon DEF Verified

\* IInv holds in every state of a behaviour of the code, however many runs, deaths, commits
\* and pull requests there are.
THEOREM Invariance == Spec => []IInv
<1>1. Init => IInv
  BY ShapeInit, NumberedInit, CheckedOutInit, BackedInit, VerifiedInit, OnceInit DEF IInv
<1>2. IInv /\ [Next]_vars => IInv'
  <2> SUFFICES ASSUME IInv, [Next]_vars PROVE IInv'
    OBVIOUS
  <2>1. Shape' /\ Numbered' /\ CheckedOut'
    BY ShapeKept, NumberedKept, CheckedOutKept DEF IInv
  <2>2. OnBase => Backed' /\ ResultIsTrue'
    BY BackedKept DEF IInv
  <2>3. Uninterrupted /\ OnBase => Verified'
    BY VerifiedKept, Zenon DEF IInv, Facts
  <2>4. Alone' => Once'
    BY OnceKept, Zenon DEF IInv
  <2>5. OnBase' = OnBase /\ Uninterrupted' = Uninterrupted
    BY DEF OnBase, Uninterrupted
  <2> QED
    BY <2>1, <2>2, <2>3, <2>4, <2>5, Zenon DEF IInv
<1> QED
  BY <1>1, <1>2, PTL DEF Spec

\* Types, and that no commit is in anything before it is made.
THEOREM Typing == Spec => []TypeOK
<1>1. IInv => TypeOK
  <2> SUFFICES ASSUME IInv, Typed, Routed, Numbered PROVE TypeOK
    BY DEF IInv, Shape
  <2>1. \A i \in DOMAIN hub.prs : hub.prs[i].state \in {"open", "closed", "merged"}
    <3>1. hub.prs \in Seq(PullRequest)
      BY HubFields DEF Typed
    <3> SUFFICES ASSUME NEW i \in DOMAIN hub.prs
                 PROVE  hub.prs[i].state \in {"open", "closed", "merged"}
      OBVIOUS
    <3>2. hub.prs[i] \in PullRequest
      BY <3>1
    <3> QED
      BY <3>2 DEF PullRequest
  <2>2. hub.queued \in 0..Len(hub.prs)
    BY HubFields DEF Typed
  <2>3. run.redo \in 0..RedoLimit
    BY DEF Typed, RunType
  <2>4. {run.tip, run.locked, run.head, run.ibase} \subseteq SUBSET (1..made)
    BY DEF Numbered
  <2>5. integ \in SUBSET (1..made) /\ base \in SUBSET (1..made) /\ second \in SUBSET (1..made)
        /\ hub.branch \in SUBSET (1..made) /\ seen.judged \cup seen.stray \in SUBSET (1..made)
    BY DEF Numbered
  <2>6. /\ wt \in {"absent", "clean", "changed", "merging"} /\ main \in {"ready", "dirty", "switched"}
        /\ lock \in {"none", "held", "lost"}
        /\ res.value \in {"none", "merged", "already_merged", "not_merged"}
    BY DEF Typed
  <2>7. pc \in Terminal \cup Calls \cup {"release", "remove", "delete", "render"}
    BY DEF Routed
  <2> QED
    BY <2>1, <2>2, <2>3, <2>4, <2>5, <2>6, <2>7, Zenon DEF TypeOK
<1> QED
  BY <1>1, Invariance, PTL

\* What a run reports as merged, itself or as found, is in the base, as long as the main
\* working tree stays on the base branch after its check.
THEOREM Truth == OnBase => (Spec => []ResultIsTrue)
<1> SUFFICES ASSUME OnBase PROVE Spec => []ResultIsTrue
  OBVIOUS
<1>1. IInv => ResultIsTrue
  BY DEF IInv
<1> QED
  BY <1>1, Invariance, PTL

\* What a run takes into the base and does not annotate is the head its commands, and on the
\* pull request route its CI, have passed on, holds the base that was last looked at and only
\* commits a preflight has judged, as long as the two windows of the code stay shut.
THEOREM VerifiedMerges == Uninterrupted /\ OnBase => (Spec => []MergedIsVerified)
<1> SUFFICES ASSUME Uninterrupted, OnBase PROVE Spec => []MergedIsVerified
  OBVIOUS
<1>1. IInv => MergedIsVerified
  BY DEF IInv, Verified
<1> QED
  BY <1>1, Invariance, PTL

\* A feature nobody else touches and GitHub does not queue is merged once, however often its
\* runs die and are repeated and the base moves.
THEOREM MergedOnceAlone == Spec => []RepeatsMergeOnce
<1>1. IInv => RepeatsMergeOnce
  BY OnceIsOnce DEF IInv, Shape
<1> QED
  BY <1>1, Invariance, PTL
=============================================================================
