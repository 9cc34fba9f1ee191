------------------------------ MODULE MergeRun ------------------------------
(***************************************************************************)
(* One feature taken into its base by unattended runs of                   *)
(* skills/merge/SKILL.md: preflight, route, pull request, lock, worktree,  *)
(* integration of the base, conflict, verification, push and CI, base      *)
(* check, merge, release and cleanup, each call of a script or of git a    *)
(* step of its own.  Between any two of them other sessions and people     *)
(* commit to the integration branch, move the base, push, open, close and  *)
(* merge pull requests, and the run itself dies and is started again.      *)
(*                                                                         *)
(* A commit is the set of its ancestors, numbered in the order they were   *)
(* made; {} is no commit.  `base` is the local base branch on the local    *)
(* route and the remote's on the pull request route.                       *)
(***************************************************************************)
EXTENDS MergeScripts

CONSTANTS
    RedoLimit,     \* how often a run starts over when the base moves (3 in the code)
    MaxRuns, MaxDeaths, MaxStray, MaxMoves, MaxPushes, MaxHands,   \* bounds on the environment
    Windows        \* "resolve": commits fall between the commit of a resolution and the
                   \*   reading of its name;
                   \* "switch": the main working tree leaves the base branch after its check

ASSUME LimitAssumption == RedoLimit \in Nat

VARIABLES
    integ, wt,     \* the integration branch and its worktree
    base, second,  \* the base branch; the second parent of its tip, {} if it has none
    main,          \* the main working tree
    hub,           \* the remote: the pushed branch, pull requests, the merge queue
    made,          \* commits made so far
    pc, run, lock, res,
    env,           \* how much of each environment bound is used
    seen           \* history: commits of others, judged, tested and CI-passed ones,
                   \* the base of the last base check, what the runs' own merge
                   \* commands took into the base, and whether one was only queued

gitVars == <<integ, wt, base, second, main, hub, made>>
vars == <<gitVars, pc, run, lock, res, env, seen>>

NoRun == [tip |-> {}, locked |-> {}, head |-> {}, ibase |-> {}, redo |-> 0, pr |-> 0]
NoResult == [value |-> "none", reason |-> "", noted |-> FALSE, known |-> {}]
Terminal == {"idle", "ended"}
Calls == {"preflight", "route", "merged", "tree", "resolve", "create_push", "create_pr",
          "lock", "read_tip", "recheck", "worktree", "add", "abort", "integrate",
          "integrate_merge", "conflict", "read_head", "commands", "verify_head", "push", "ci_head",
          "ci_checks", "base_check", "lock_check", "pr_state", "pr_merge", "pr_confirm",
          "tree_check", "tip_check", "local_merge", "parents"}

TypeOK ==
    LET Commit == SUBSET (1..made) IN
    /\ integ \in Commit /\ base \in Commit /\ second \in Commit
    /\ wt \in {"absent", "clean", "changed", "merging"}
    /\ main \in {"ready", "dirty", "switched"}
    /\ hub.branch \in Commit
    /\ \A i \in DOMAIN hub.prs : hub.prs[i].state \in {"open", "closed", "merged"}
    /\ hub.queued \in 0..Len(hub.prs)
    /\ pc \in Terminal \cup Calls \cup {"release", "remove", "delete", "render"}
    /\ {run.tip, run.locked, run.head, run.ibase} \subseteq Commit
    /\ run.redo \in 0..RedoLimit
    /\ lock \in {"none", "held", "lost"}
    /\ res.value \in {"none", "merged", "already_merged", "not_merged"}
    /\ seen.judged \cup seen.stray \in Commit

\* The feature has one commit above the base.
Init ==
    /\ made = 2 /\ integ = {1, 2} /\ base = {1} /\ second = {}
    /\ wt \in {"absent", "clean"}
    /\ main = "ready"
    /\ \E on \in BOOLEAN : hub = [on |-> on, branch |-> {}, prs |-> <<>>, queued |-> 0]
    /\ pc = "idle" /\ run = NoRun /\ lock = "none" /\ res = NoResult
    /\ env = [runs |-> 0, deaths |-> 0, stray |-> 0, moves |-> 0, pushes |-> 0, hands |-> 0]
    /\ seen = [stray |-> {}, judged |-> {}, tested |-> {}, ci |-> {},
            checked |-> {}, took |-> {}, queued |-> FALSE]

-----------------------------------------------------------------------------
(* How a step ends *)

GoTo(p) == pc' = p /\ UNCHANGED <<lock, res>>
Keep == UNCHANGED <<gitVars, run, env, seen>>

\* Every stop after step 6 releases the lock before it renders; one before has none.
Stop(reason) ==
    /\ res' = [NoResult EXCEPT !.value = "not_merged", !.reason = reason]
    /\ pc' = IF lock = "none" THEN "render" ELSE "release"
    /\ UNCHANGED lock

\* The already-merged path: release, then the cleanup.
FoundMerged(commit) ==
    /\ res' = [NoResult EXCEPT !.value = "already_merged", !.known = commit]
    /\ pc' = IF lock = "none" THEN "remove" ELSE "release"
    /\ UNCHANGED lock

New == made + 1
Used(f, bound) == env[f] < bound /\ env' = [env EXCEPT ![f] = @ + 1]
Taking(commit) == [commit |-> commit, run |-> env.runs, checked |-> seen.checked]
\* GitHub shows the pushed branch as the head of an open pull request.
Pr(i) == IF hub.prs[i].state = "open" THEN [hub.prs[i] EXCEPT !.head = hub.branch] ELSE hub.prs[i]
Prs == [i \in DOMAIN hub.prs |-> Pr(i)]

-----------------------------------------------------------------------------
(* Steps 2 to 6 *)

Invoke ==
    /\ pc \in Terminal
    /\ Used("runs", MaxRuns)
    /\ pc' = "preflight" /\ run' = NoRun /\ res' = NoResult
    /\ UNCHANGED <<gitVars, lock, seen>>

\* The record is read at the tip of the branch, and the tip is the one judged.
PreflightStep ==
    /\ pc = "preflight"
    /\ IF integ = {} THEN Stop("integration_branch_missing") /\ UNCHANGED <<run, seen>>
       ELSE \/ /\ GoTo("route")
               /\ run' = [run EXCEPT !.tip = integ]
               /\ seen' = [seen EXCEPT !.judged = @ \cup integ]
            \/ Stop("precondition_unmet") /\ UNCHANGED <<run, seen>>
    /\ UNCHANGED <<gitVars, env>>

Route ==
    /\ pc = "route" /\ Keep
    /\ GoTo(IF hub.on THEN "resolve" ELSE "merged")

CheckMerged ==
    /\ pc = "merged" /\ Keep
    /\ IF integ = {} THEN Stop("integration_branch_missing")
       ELSE IF AlreadyMerged(integ, base) = "merged" THEN FoundMerged(integ)
       ELSE GoTo("tree")

CheckTree ==
    /\ pc = "tree" /\ Keep
    /\ IF MainTree(main) = "ready" THEN GoTo("lock") ELSE Stop("main_tree_not_ready")

\* resolve before the lock, with the tip the preflight read.
ResolvePr ==
    /\ pc = "resolve"
    /\ LET a == Resolve(Prs, run.tip) IN
         CASE a = "merged" -> FoundMerged(run.tip) /\ UNCHANGED run
           [] a = "open"   -> GoTo("lock") /\ run' = [run EXCEPT !.pr = NewestOpen(Prs)]
           [] a = "none"   -> GoTo("create_push") /\ UNCHANGED run
           [] OTHER        -> Stop(a) /\ UNCHANGED run
    /\ UNCHANGED <<gitVars, env, seen>>

\* git push without force, in steps 5.3 and 11.
PushTo(next) ==
    /\ IF integ # {} /\ hub.branch \subseteq integ
       THEN hub' = [hub EXCEPT !.branch = integ, !.queued = IF hub.branch = integ THEN @ ELSE 0]
            /\ GoTo(next)
       ELSE Stop("push_rejected") /\ UNCHANGED hub
    /\ UNCHANGED <<integ, wt, base, second, main, made, run, env, seen>>
CreatePush == pc = "create_push" /\ PushTo("create_pr")

\* gh pr create; the second resolve must find it open.  GitHub refuses a second open one
\* and one without commits of its own.
CreatePr ==
    /\ pc = "create_pr"
    /\ IF (\E i \in DOMAIN hub.prs : hub.prs[i].state = "open") \/ hub.branch \subseteq base
       THEN Stop("pr_create_failed") /\ UNCHANGED <<hub, run>>
       ELSE /\ hub' = [hub EXCEPT !.prs = Append(@, [state |-> "open", draft |-> FALSE, head |-> {}])]
            /\ run' = [run EXCEPT !.pr = Len(hub'.prs)]
            /\ GoTo("lock")
    /\ UNCHANGED <<integ, wt, base, second, main, made, env, seen>>

Lock ==
    /\ pc = "lock" /\ Keep
    /\ \/ lock' = "held" /\ pc' = (IF hub.on THEN "read_tip" ELSE "recheck") /\ UNCHANGED res
       \/ Stop("lock_busy")

ReadTip ==
    /\ pc = "read_tip"
    /\ IF integ = {} THEN Stop("internal_error") /\ UNCHANGED run
       ELSE GoTo("recheck") /\ run' = [run EXCEPT !.locked = integ]
    /\ UNCHANGED <<gitVars, env, seen>>

\* Step 6.4: merged by another run while this one waited?
Recheck ==
    /\ pc = "recheck"
    /\ LET a == IF hub.on          THEN Resolve(Prs, run.locked)
                ELSE IF integ = {} THEN "integration_branch_missing"
                ELSE AlreadyMerged(integ, base)
       IN CASE a = "merged"     -> FoundMerged(IF hub.on THEN run.locked ELSE integ) /\ UNCHANGED run
            [] a = "not_merged" -> GoTo("worktree") /\ UNCHANGED run
            [] a = "open"       -> GoTo("worktree") /\ run' = [run EXCEPT !.pr = NewestOpen(Prs)]
            [] a = "none"       -> Stop("internal_error") /\ UNCHANGED run
            [] OTHER            -> Stop(a) /\ UNCHANGED run
    /\ UNCHANGED <<gitVars, env, seen>>

-----------------------------------------------------------------------------
(* Steps 7 to 10 *)

Worktree ==
    /\ pc = "worktree" /\ Keep
    /\ LET a == WorktreeState(wt) IN
         CASE a = "clean"   -> GoTo("integrate")
           [] a = "absent"  -> GoTo("add")
           [] a = "merging" -> GoTo("abort")
           [] OTHER         -> Stop(a)

\* git worktree add on the existing branch, git merge --abort on one a dead run left; both
\* are followed by a second look at the worktree.
Prepare ==
    /\ pc \in {"add", "abort"}
    /\ IF wt = (IF pc = "add" THEN "absent" ELSE "merging") /\ integ # {}
       THEN wt' = "clean" /\ GoTo("integrate")
       ELSE Stop("git_failed") /\ UNCHANGED wt
    /\ UNCHANGED <<integ, base, second, main, hub, made, run, env, seen>>

\* --expected-head: the judged tip, or what the run verified before it had to start over.
ExpectedHead(r) == IF r.redo = 0 THEN r.tip ELSE r.head

\* integrate: bound to the judged tip, then the base is fetched.
Integrate ==
    /\ pc = "integrate"
    /\ IF wt # "clean" THEN Stop("git_failed") /\ UNCHANGED run
       ELSE IF integ # ExpectedHead(run) THEN Stop("verification_failed") /\ UNCHANGED run
       ELSE /\ run' = [run EXCEPT !.head = integ, !.ibase = base]
            /\ GoTo(IF base \subseteq integ THEN "commands" ELSE "integrate_merge")
    /\ UNCHANGED <<gitVars, env, seen>>

\* ... and merged into what the branch is now; the parents of the result are checked.
IntegrateMerge ==
    /\ pc = "integrate_merge"
    /\ IF wt # "clean" THEN Stop("git_failed") /\ UNCHANGED <<integ, wt, made, run>>
       ELSE   \/ /\ made' = New /\ integ' = integ \cup run.ibase \cup {New} /\ UNCHANGED wt
                 /\ IF integ = run.head THEN GoTo("commands") /\ run' = [run EXCEPT !.head = integ']
                                        ELSE Stop("git_failed") /\ UNCHANGED run
              \/ /\ wt' = "merging"
                 /\ IF integ = run.head THEN GoTo("conflict") ELSE Stop("git_failed")
                 /\ UNCHANGED <<integ, made, run>>
    /\ UNCHANGED <<base, second, main, hub, env, seen>>

\* Step 9: attributable conflicts are resolved and committed, others aborted.
Conflict ==
    /\ pc = "conflict"
    /\ \/ made' = New /\ integ' = integ \cup run.ibase \cup {New} /\ GoTo("read_head")
       \/ Stop("conflict_unattributable") /\ UNCHANGED <<integ, made>>
    /\ wt' = "clean"
    /\ UNCHANGED <<base, second, main, hub, run, env, seen>>
ReadHead ==
    /\ pc = "read_head"
    /\ GoTo("commands") /\ run' = [run EXCEPT !.head = integ]
    /\ UNCHANGED <<gitVars, env, seen>>

\* The approved commands run on what is in the worktree.
Commands ==
    /\ pc = "commands"
    /\ \/ /\ GoTo("verify_head")
          /\ seen' = [seen EXCEPT !.tested = IF wt = "clean" THEN @ \cup {integ} ELSE @]
       \/ Stop("verification_failed") /\ UNCHANGED seen
    /\ UNCHANGED <<gitVars, run, env>>

\* Nothing uncommitted, and HEAD is the head that was to be verified.
StillVerified(r) == wt = "clean" /\ integ = r.head

VerifyHead ==
    /\ pc = "verify_head" /\ Keep
    /\ IF StillVerified(run) THEN GoTo(IF hub.on THEN "push" ELSE "base_check")
                             ELSE Stop("verification_failed")

-----------------------------------------------------------------------------
(* Steps 11 to 13 *)

Push == pc = "push" /\ PushTo("ci_head")

CiHead ==
    /\ pc = "ci_head" /\ Keep
    /\ IF Pr(run.pr).head = run.head THEN GoTo("ci_checks") ELSE Stop("pr_head_moved")

\* The checks are those of the head the pull request has now.
CiChecks ==
    /\ pc = "ci_checks"
    /\ \E buckets \in {{}, {"pass"}, {"pass", "pending"}, {"pass", "fail"}}, settled \in BOOLEAN :
         LET a == CiAnswer(buckets, settled) IN
         CASE a \in {"passed", "no_checks"} ->
                  GoTo("base_check") /\ seen' = [seen EXCEPT !.ci = @ \cup {Pr(run.pr).head}]
           [] a = "again" -> GoTo("ci_head") /\ UNCHANGED seen
           [] OTHER       -> Stop(a) /\ UNCHANGED seen
    /\ UNCHANGED <<gitVars, run, env>>

\* Bug: each further wait gets a deadline of its own.
PastDeadline_Extended == FALSE

\* Time passes: all waits after a push share one deadline.
PastDeadline == pc \in {"ci_head", "ci_checks"}

CiTimeout == PastDeadline /\ Keep /\ Stop("ci_timeout")

\* A run whose base has moved starts over with the integration.
AfterRedo == "integrate"

BaseCheckStep ==
    /\ pc = "base_check"
    /\ LET a == BaseCheck(base, run.ibase, run.redo, RedoLimit) IN
         CASE a = "unchanged" -> GoTo("lock_check") /\ UNCHANGED run
           [] a = "redo"      -> GoTo(AfterRedo) /\ run' = [run EXCEPT !.redo = @ + 1]
           [] OTHER           -> Stop(a) /\ UNCHANGED run
    /\ seen' = [seen EXCEPT !.checked = base]
    /\ UNCHANGED <<gitVars, env>>

LockCheck ==
    /\ pc = "lock_check" /\ Keep
    /\ IF lock = "held" THEN GoTo(IF hub.on THEN "pr_state" ELSE "tree_check") ELSE Stop("lock_lost")

PrStateStep ==
    /\ pc = "pr_state" /\ Keep
    /\ \E conflicting \in BOOLEAN :
         LET a == PrState(Pr(run.pr), run.head, conflicting) IN
         CASE a = "merged" -> FoundMerged(run.head)
           [] a = "ready"  -> GoTo("pr_merge")
           [] OTHER        -> Stop(a)

\* Bug: gh pr merge without --match-head-commit.
MatchHead_Any(r) == TRUE

\* --match-head-commit
MatchHead(r) == hub.branch = r.head

\* The merge of pull request i by whoever asked for it.
Merged(i) ==
    /\ made' = New /\ base' = base \cup hub.branch \cup {New} /\ second' = hub.branch
    /\ hub' = [hub EXCEPT !.prs[i] = [@ EXCEPT !.state = "merged", !.head = hub.branch],
                          !.queued = 0]

\* gh pr merge: merged at once, or taken into the merge queue.
PrMerge ==
    /\ pc = "pr_merge"
    /\ LET p == Pr(run.pr) IN
       \/ /\ p.state = "open" /\ ~p.draft /\ MatchHead(run)
          /\ GoTo("pr_confirm")
          /\ \E queues \in BOOLEAN :
              /\ IF queues THEN hub' = [hub EXCEPT !.queued = run.pr] /\ UNCHANGED <<base, second, made>>
                           ELSE Merged(run.pr)
              /\ seen' = [seen EXCEPT !.took = @ \cup {Taking(hub.branch)}, !.queued = @ \/ queues]
       \/ Stop("merge_failed") /\ UNCHANGED <<base, second, made, hub, seen>>
    /\ UNCHANGED <<integ, wt, main, run, env>>

\* Bug: the exit code of gh pr merge is taken for a merge.
Confirmed_ExitCode(prs, head) == "merged"

\* gh pr merge also succeeds when it only queues: ask again.
Confirmed(prs, head) == Resolve(prs, head)

PrConfirm ==
    /\ pc = "pr_confirm" /\ Keep
    /\ IF Confirmed(Prs, run.head) = "merged"
       THEN /\ res' = [NoResult EXCEPT !.value = "merged", !.known = run.head]
            /\ pc' = "release" /\ UNCHANGED lock
       ELSE Stop("merge_failed")

TreeCheck ==
    /\ pc = "tree_check" /\ Keep
    /\ IF MainTree(main) = "ready" THEN GoTo("tip_check") ELSE Stop("main_tree_not_ready")

TipCheck ==
    /\ pc = "tip_check" /\ Keep
    /\ IF integ = {}            THEN Stop("git_failed")
       ELSE IF integ = run.head THEN GoTo("local_merge")
       ELSE Stop("verification_failed")

\* git merge --no-ff of the branch, into whatever the main working tree is on.
LocalMerge ==
    /\ pc = "local_merge"
    /\ \/ /\ main # "dirty" /\ integ # {} /\ GoTo("parents")
          /\ IF main = "switched" \/ integ \subseteq base
             THEN UNCHANGED <<base, second, made, seen>>
             ELSE /\ made' = New /\ base' = base \cup integ \cup {New} /\ second' = integ
                  /\ seen' = [seen EXCEPT !.took = @ \cup {Taking(integ)}]
       \/ Stop("merge_failed") /\ UNCHANGED <<base, second, made, seen>>
    /\ UNCHANGED <<integ, wt, main, hub, run, env>>

\* Bug: the second parent is not compared.
Noted_Never(parent, head) == FALSE

\* The note on the result: what was merged is not what was verified, or cannot be read.
Noted(parent, head) == parent # head

\* On another branch than the base, HEAD is the merge the run has just made.
Parents ==
    /\ pc = "parents" /\ Keep
    /\ res' = [NoResult EXCEPT !.value = "merged", !.known = run.head,
                               !.noted = Noted(IF main = "switched" THEN integ ELSE second, run.head)]
    /\ pc' = "release" /\ UNCHANGED lock

-----------------------------------------------------------------------------
(* Steps 14 to 16 *)

Release ==
    /\ pc = "release" /\ Keep
    /\ lock' = "none" /\ UNCHANGED res
    /\ pc' = IF res.value = "not_merged" THEN "render" ELSE "remove"

\* git worktree remove without --force; on the already-merged path an absent one counts
\* as removed.
Remove ==
    /\ pc = "remove"
    /\ \/ wt = "clean" /\ wt' = "absent" /\ GoTo("delete")
       \/ wt = "absent" /\ res.value = "already_merged" /\ UNCHANGED wt /\ GoTo("delete")
       \/ UNCHANGED wt /\ GoTo("render")
    /\ UNCHANGED <<integ, base, second, main, hub, made, run, env, seen>>

\* git branch -d compares the branch with HEAD of the main working tree (no push of the run
\* sets an upstream).  On the local route that is the base as long as nobody switches; on
\* the pull request route it is a branch this model does not follow, and git may say either.
Deletable == wt = "absent" /\ (~hub.on /\ main # "switched" => integ \subseteq base)

\* A refusal or failure of the deletion changes nothing.
Delete ==
    /\ pc = "delete"
    /\ GoTo("render")
    /\ \/ Deletable /\ integ' = {}
       \/ UNCHANGED integ
    /\ UNCHANGED <<wt, base, second, main, hub, made, run, env, seen>>

Render == pc = "render" /\ GoTo("ended") /\ Keep

\* Any script or git call may fail, or answer what cannot be used.
CallFails == pc \in Calls \ {"parents"} /\ Keep /\ Stop("internal_error")

-----------------------------------------------------------------------------
(* The environment *)

\* The session ends, and with it the holder of the lock.
Die ==
    /\ pc \notin Terminal
    /\ Used("deaths", MaxDeaths)
    /\ pc' = "idle" /\ lock' = "none"
    /\ UNCHANGED <<gitVars, run, res, seen>>

LoseLock ==
    /\ lock = "held" /\ pc # "release"
    /\ Used("hands", MaxHands)
    /\ lock' = "lost"
    /\ UNCHANGED <<gitVars, pc, run, res, seen>>

\* A commit on the integration branch that is none of the run's.
Stray ==
    /\ integ # {} /\ wt # "merging"
    /\ pc = "read_head" => "resolve" \in Windows
    /\ Used("stray", MaxStray)
    /\ made' = New /\ integ' = integ \cup {New}
    /\ seen' = [seen EXCEPT !.stray = @ \cup {New}]
    /\ UNCHANGED <<wt, base, second, main, hub, pc, run, lock, res>>

\* Somebody edits files of the integration worktree.
EditWorktree ==
    /\ wt = "clean"
    /\ Used("hands", MaxHands)
    /\ wt' = "changed"
    /\ UNCHANGED <<integ, base, second, main, hub, made, pc, run, lock, res, seen>>

MoveMain ==
    /\ main = "ready" /\ ~hub.on
    /\ Used("hands", MaxHands)
    /\ main' \in {"dirty"} \cup (IF "switch" \in Windows THEN {"switched"} ELSE {})
    /\ UNCHANGED <<integ, wt, base, second, hub, made, pc, run, lock, res, seen>>

\* The base moves: another feature lands, or this branch by hand.
MoveBase ==
    /\ Used("moves", MaxMoves)
    /\ made' = New
    /\ \/ base' = base \cup {New} /\ second' = {}
       \/ ~hub.on /\ ~(integ \subseteq base) /\ base' = base \cup integ \cup {New} /\ second' = integ
    /\ UNCHANGED <<integ, wt, main, hub, pc, run, lock, res, seen>>

ForeignPush ==
    /\ hub.on /\ hub.branch # {}
    /\ Used("pushes", MaxPushes)
    /\ made' = New /\ hub' = [hub EXCEPT !.branch = @ \cup {New}, !.queued = 0]
    /\ UNCHANGED <<integ, wt, base, second, main, pc, run, lock, res, seen>>

\* A person makes a pull request a draft, closes it or merges it.
HandlePr ==
    /\ Used("hands", MaxHands)
    /\ \E i \in DOMAIN hub.prs :
         /\ hub.prs[i].state = "open"
         /\ \/ /\ hub' = [hub EXCEPT !.prs[i].draft = TRUE, !.queued = 0]
               /\ UNCHANGED <<base, second, made>>
            \/ /\ hub' = [hub EXCEPT !.prs[i].state = "closed", !.prs[i].head = hub.branch, !.queued = 0]
               /\ UNCHANGED <<base, second, made>>
            \/ ~hub.prs[i].draft /\ Merged(i)
    /\ UNCHANGED <<integ, wt, main, pc, run, lock, res, seen>>

\* The merge queue merges, or drops, what it was given.
QueueMerges ==
    /\ hub.queued # 0
    /\ \/ Merged(hub.queued)
       \/ hub' = [hub EXCEPT !.queued = 0] /\ UNCHANGED <<base, second, made>>
    /\ UNCHANGED <<integ, wt, main, pc, run, lock, res, env, seen>>

-----------------------------------------------------------------------------

Steps ==
    \/ PreflightStep \/ Route \/ CheckMerged \/ CheckTree \/ ResolvePr \/ CreatePush \/ CreatePr
    \/ Lock \/ ReadTip \/ Recheck \/ Worktree \/ Prepare \/ Integrate \/ IntegrateMerge
    \/ Conflict \/ ReadHead \/ Commands \/ VerifyHead \/ Push \/ CiHead \/ CiChecks
    \/ BaseCheckStep \/ LockCheck \/ PrStateStep \/ PrMerge \/ PrConfirm \/ TreeCheck
    \/ TipCheck \/ LocalMerge \/ Parents \/ Release \/ Remove \/ Delete \/ Render \/ CallFails
Environment ==
    \/ Die \/ LoseLock \/ Stray \/ EditWorktree \/ MoveMain \/ MoveBase \/ ForeignPush
    \/ HandlePr \/ QueueMerges
Next == Invoke \/ Steps \/ CiTimeout \/ Environment

\* A run goes on until it has rendered its result, and time passes for a CI wait.
Fairness == WF_vars(Steps) /\ WF_vars(CiTimeout)
Spec == Init /\ [][Next]_vars /\ Fairness

-----------------------------------------------------------------------------
(* Properties *)

Claims(value) == res.value = value

\* What was taken is a commit its verification commands passed on, on the pull request route also one whose
\* CI had passed: steps 10 to 13.
TookTested ==
    \A t \in seen.took :
        IF hub.on THEN t.commit \in seen.tested \cap seen.ci
        ELSE Claims("merged") /\ ~res.noted /\ t.run = env.runs => t.commit \in seen.tested

\* What was taken is a commit that contains all of the base its last base check saw, so that the combination
\* was verified: a base that moves makes the run start over (steps 8 and 12).
TookCombination == \A t \in seen.took : t.checked \subseteq t.commit

\* A result that says merged without a note is about a head that holds no commit of others
\* but those a preflight has judged (steps 2, 8, 10 and 13, integrate's --expected-head).
NoUnjudgedCommit ==
    Claims("merged") /\ ~res.noted =>
        \A t \in seen.took : t.run = env.runs => t.commit \cap seen.stray \subseteq seen.judged

\* Whatever a run took into the base by its own command and did not annotate is, over redos,
\* foreign pushes and commits in every gap, what its checks passed on.
MergedIsVerified == TookTested /\ TookCombination /\ NoUnjudgedCommit

\* What a result calls merged is in the base: merge queues, closed pull requests, pull
\* requests merged at another commit and branches moved meanwhile included.
ResultIsTrue == res.value \in {"merged", "already_merged"} => res.known \subseteq base

\* The feature is merged once, unless somebody adds commits or handles its pull requests.
MergedOnce ==
    seen.stray = {} /\ env.pushes = 0 /\ env.hands = 0 =>
        Cardinality(IF hub.on THEN {i \in DOMAIN hub.prs : hub.prs[i].state = "merged"}
                              ELSE {t.run : t \in seen.took}) =< 1

\* However often runs die and are repeated, the feature is merged once (the section on
\* repeating a run).  Excepted is a merge that GitHub only queued: it may fall into the
\* integration of a repeated run, whose merge commit then makes a pull request of its own.
RepeatsMergeOnce == ~seen.queued => MergedOnce

\* A run ends with a result or with its session: CI waits and redos are bounded.
RunEnds == pc = "preflight" ~> pc \in Terminal

\* A run that is repeated after its death comes to the same conclusion: what an earlier run
\* has merged is not reported as a branch that never was (the section on repeating a run).
RepeatsConverge ==
    pc = "ended" /\ res.reason = "integration_branch_missing" =>
        \A t \in seen.took : ~(t.commit \subseteq base)
=============================================================================
