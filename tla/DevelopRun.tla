----------------------------- MODULE DevelopRun -----------------------------
(***************************************************************************)
(* One feature as /em-workflow:develop drives it (skills/develop/SKILL.md) *)
(* from the first implement phase on: launches in the four mixes of        *)
(* --batch and --once, with and without --pr, Step B's choice of the next  *)
(* step, what each phase writes to workflow.yaml, the automatic resumes    *)
(* and reworks with their counters, the way back to create-spec when a     *)
(* rework needs another specification, and Step C, which runs its commands *)
(* past the failed-run cleanup guard.  Sessions die between any two        *)
(* writes, the user mends workflow.yaml by hand, and between the turns the *)
(* session issues cleanup commands of its own accord.                      *)
(*                                                                         *)
(* wf is workflow.yaml in the integration worktree (its field `change` is  *)
(* the spec_change record of phase-state/rework.yaml), saved the one on    *)
(* the branch; a write is committed before anything else is done.  run is  *)
(* the launched session: its flags, where it stands (at), and why the      *)
(* write it has just made returns a step to pending of its own accord.     *)
(* The phases themselves are LaunchLoop, TaskQueue, ReviewRound, Planning. *)
(***************************************************************************)
EXTENDS CleanupGuard, FiniteSets

CONSTANTS
    Self,               \* the feature; the rest of Feature are others
    MaxItem,            \* how many things verify may find failing
    Flags,              \* the flags a launch may have: sets of "batch", "once", "pr"
    MaxLaunches, MaxCrashes, MaxMends, MaxCommands,
    MaxIncidents,       \* crashes, mends and commands together
    MaxAnswers,         \* rounds a person may ask for
    MaxChanges          \* changes of the specification that batch makes out of review

ASSUME DevelopAssumption ==
    /\ Self \in Feature /\ Flags \subseteq SUBSET {"batch", "once", "pr"}
    /\ {MaxLaunches, MaxCrashes, MaxMends, MaxCommands, MaxIncidents,
        MaxAnswers, MaxChanges, MaxItem} \subseteq Nat

VARIABLES
    wf, saved,
    worktree, branch,   \* do the integration worktree and its branch exist?
    litter,             \* the worktree holds untracked files
    landed,             \* "no", "merged" or "pr"
    run,
    used,               \* launches, crashes, mends, commands, answers and changes so far
    allowed,            \* history: a person let a command through, or the hook had no parser
    verified,           \* history: verify has passed on the code of the branch
    auto,               \* history: automatic resumes and reworks, by reason
    reworked,           \* history: automatic reworks of each item
    undone              \* history: create-spec was left undone, and not for a recorded change

vars == <<wf, saved, worktree, branch, litter, landed, run, used, allowed,
          verified, auto, reworked, undone>>
place == <<worktree, branch, litter, landed, allowed>>
past == <<verified, auto, reworked, undone>>

Steps == <<"create-spec", "create-plan", "implement", "review", "verify", "retrospect">>
Item == 1..MaxItem
StepId == {Steps[i] : i \in DOMAIN Steps}
Status == {"pending", "in_progress", "needs_update", "completed", "failed"}
Why == {"infra", "review", "verify"}
Budget == {"launches", "crashes", "mends", "commands", "answers", "changes"}

INFRA_RESUME_CAP == 2
REVIEW_REWORK_CAP == 1
LINEAGE_CAP == 2
HARD_CAP == 3

NewWorkflow ==
    [status |-> [s \in StepId |->
                    IF s \in {"create-spec", "create-plan"} THEN "completed" ELSE "pending"],
     kind |-> "none", change |-> "none", resumes |-> 0, reviews |-> 0, rounds |-> 0,
     counts |-> [i \in Item |-> 0], items |-> {}]

Idle == [at |-> "off", batch |-> FALSE, once |-> FALSE, pr |-> FALSE, why |-> "none"]

Init ==
    /\ wf = NewWorkflow /\ saved = NewWorkflow
    /\ worktree = TRUE /\ branch = TRUE /\ litter = FALSE /\ landed = "no"
    /\ run = Idle
    /\ used = [b \in Budget |-> 0]
    /\ allowed = FALSE /\ verified = FALSE
    /\ auto = [w \in Why |-> 0]
    /\ reworked = [i \in Item |-> 0]
    /\ undone = FALSE

TypeOK ==
    /\ \A w \in {wf, saved} :
        /\ w.status \in [StepId -> Status] /\ w.kind \in {"none", "infra", "decision"}
        /\ w.change \in {"none", "open", "consumed"}
        /\ w.resumes \in 0..INFRA_RESUME_CAP /\ w.reviews \in Nat /\ w.rounds \in Nat
        /\ w.counts \in [Item -> Nat] /\ w.items \subseteq Item
    /\ {worktree, branch, litter, allowed, verified, undone} \subseteq BOOLEAN
    /\ landed \in {"no", "merged", "pr"}
    /\ run.at \in StepId \cup {"off", "entry", "select", "fail", "decide", "replan",
                               "counting", "boundary", "gone", "finish", "cleanup",
                               "drop", "delete", "record", "specify"}
    /\ run.why \in Why \cup {"none"}
    /\ used \in [Budget -> Nat] /\ auto \in [Why -> Nat] /\ reworked \in [Item -> Nat]

Spend(b, limit) == used[b] < limit /\ used' = [used EXCEPT ![b] = @ + 1]
Incident(b, limit) ==
    /\ used["crashes"] + used["mends"] + used["commands"] < MaxIncidents
    /\ Spend(b, limit)

\* The session is at p and everything it wrote is committed.
At(p) == run.at = p /\ wf = saved
Go(p) == run' = [run EXCEPT !.at = p]
Stop == run' = Idle

\* The write w, made of the session's own accord for the reason why.
Writes(w, p, why) == wf' = w /\ run' = [run EXCEPT !.at = p, !.why = why]
Set(steps, s) == [wf EXCEPT !.status = [t \in StepId |-> IF t \in steps THEN s ELSE @[t]]]

\* A create-spec that is to be entered again, and no open record of a change of
\* the specification says why: as a person leaves it who aborts it.
Aborted(w) == w.status["create-spec"] = "needs_update" /\ w.change # "open"

\* commit-docs.sh: the write is on the branch.
Commit ==
    /\ run.at # "off" /\ wf # saved
    /\ saved' = wf
    /\ run' = [run EXCEPT !.why = "none"]
    /\ auto' = [w \in Why |-> auto[w] + IF run.why = w THEN 1 ELSE 0]
    /\ reworked' = [i \in Item |-> reworked[i] + IF run.why = "verify" /\ i \in wf.items THEN 1 ELSE 0]
    /\ undone' = (wf.status["create-spec"] \in {"needs_update", "failed"} /\ run.at # "boundary")
    /\ UNCHANGED <<wf, place, used, verified>>

----------------------------------------------------------------------------
(* Launches *)

\* Steps A.2 and A.3: the worktree is materialised from the branch, or
\* refreshed with reset --hard; untracked files stay.
Launch ==
    /\ run.at = "off" /\ branch
    /\ Spend("launches", MaxLaunches)
    /\ worktree' = TRUE /\ allowed' = FALSE
    /\ wf' = saved
    /\ \E flags \in Flags :
        run' = [Idle EXCEPT !.at = "entry", !.batch = "batch" \in flags,
                            !.once = "once" \in flags, !.pr = "pr" \in flags]
    /\ UNCHANGED <<saved, branch, litter, landed, past>>

\* Step A.6: a failed implement whose failure is a rejected report name is
\* restored by a corrected path, in either mode.
Entry ==
    /\ At("entry")
    /\ \/ Go("select") /\ UNCHANGED wf
       \/ /\ wf.status["implement"] = "failed"
          /\ Writes([Set({"implement"}, "pending") EXCEPT !.kind = "none"], "select", "none")
    /\ UNCHANGED <<saved, place, used, past>>

----------------------------------------------------------------------------
(* Step B *)

Done(s) == wf.status[s] \in {"completed", "skipped"}
Next1 == CHOOSE i \in DOMAIN Steps : ~Done(Steps[i]) /\ \A j \in 1..(i - 1) : Done(Steps[j])
AllDone == \A s \in StepId : Done(s)

\* The lineage cap, of the items that fail now, and the hard cap.
Capped == wf.rounds >= HARD_CAP \/ \E i \in wf.items : wf.counts[i] >= LINEAGE_CAP

\* Bug: in batch no failed verify stops the run.
CapException_Any == run.batch /\ wf.status["verify"] = "failed"

\* The cap exception to stop conditions 1 and 3, in batch only.
CapException == run.batch /\ wf.status["verify"] = "failed" /\ Capped

Begin(s) ==
    IF s = "create-plan" THEN Go(s) /\ UNCHANGED wf
    ELSE Writes(Set({s}, "in_progress"), s, "none")

\* The first step that is not done is run; needs_update is run too when a phase
\* set it to be entered again.
SelectStep ==
    /\ At("select") /\ ~AllDone
    /\ LET s == Steps[Next1] IN
        \/ wf.status[s] # "failed" /\ ~(s = "create-spec" /\ Aborted(wf)) /\ Begin(s)
        \/ s = "verify" /\ CapException /\ ~Done("retrospect") /\ Begin("retrospect")
    /\ UNCHANGED <<saved, place, used, past>>

\* Batch resumes an implement that an interactive run left failed for an
\* external cause.
ResumeInfra ==
    /\ At("select") /\ ~AllDone /\ Steps[Next1] = "implement"
    /\ wf.status["implement"] = "failed" /\ wf.kind = "infra"
    /\ run.batch /\ wf.resumes < INFRA_RESUME_CAP
    /\ Writes([Set({"implement"}, "pending") EXCEPT !.kind = "none", !.resumes = @ + 1],
              "select", "infra")
    /\ UNCHANGED <<saved, place, used, past>>

\* Bug: a batch run, which reworks a failed verify, is not stopped by one.
Stops_NotVerify(s) ==
    \/ /\ wf.status[s] = "failed"
       /\ CASE s = "implement" ->
                 ~(wf.kind = "infra" /\ run.batch /\ wf.resumes < INFRA_RESUME_CAP)
            [] s = "verify" -> ~run.batch
            [] OTHER -> TRUE
    \/ s = "create-spec" /\ Aborted(wf)

\* Stop condition 3, with its exceptions.
Stops(s) ==
    \/ /\ wf.status[s] = "failed"
       /\ CASE s = "implement" ->
                 ~(wf.kind = "infra" /\ run.batch /\ wf.resumes < INFRA_RESUME_CAP)
            [] s = "verify" -> ~CapException
            [] OTHER -> TRUE
    \/ s = "create-spec" /\ Aborted(wf)

StopOnFailed ==
    /\ At("select") /\ ~AllDone /\ Stops(Steps[Next1])
    /\ Stop
    /\ UNCHANGED <<wf, saved, place, used, past>>

SelectFinish ==
    /\ At("select")
    /\ ~AllDone => Steps[Next1] = "verify" /\ CapException /\ Done("retrospect")
    /\ Go("finish")
    /\ UNCHANGED <<wf, saved, place, used, past>>

\* A phase boundary: with --once the turn ends here.
Boundary ==
    /\ At("boundary") \/ At("gone")
    /\ IF run.once \/ run.at = "gone" THEN Stop ELSE Go("select")
    /\ UNCHANGED <<wf, saved, place, used, past>>

----------------------------------------------------------------------------
(* The phases, as far as workflow.yaml tells them *)

\* Bug: the record of the change is left as it is.
ConsumeChange_Keeps ==
    /\ At("create-spec")
    /\ Go("specify") /\ UNCHANGED wf
    /\ UNCHANGED <<saved, place, used, past>>

\* create-spec is dispatched: a record it was entered for is used up, whatever
\* becomes of it.
ConsumeChange ==
    /\ At("create-spec")
    /\ Writes([wf EXCEPT !.change = IF @ = "open" THEN "consumed" ELSE @], "specify", "none")
    /\ UNCHANGED <<saved, place, used, past>>

\* What stalls is recorded as open in batch; a person may abort instead.
SpecPhase ==
    /\ At("specify")
    /\ \/ Writes(Set({"create-spec"}, "completed"), "boundary", "none")
       \/ /\ ~run.batch
          /\ \E s \in {"needs_update", "failed"} : Writes(Set({"create-spec"}, s), "select", "none")
       \/ Stop /\ UNCHANGED wf
    /\ UNCHANGED <<saved, place, used, past>>

PlanPhase ==
    /\ At("create-plan")
    /\ \/ Writes(Set({"create-plan"}, "completed"), "boundary", "none")
       \/ Stop /\ UNCHANGED wf
    /\ UNCHANGED <<saved, place, used, past>>

ImplementCompletes ==
    /\ At("implement")
    /\ Writes(Set({"implement"}, "completed"), "boundary", "none")
    /\ verified' = FALSE
    /\ UNCHANGED <<saved, place, used, auto, reworked, undone>>

\* The abort phase: batch writes `decision` always, a person's abort `infra`
\* when the failed task was orphaned.
ImplementFails ==
    /\ At("implement")
    /\ \E k \in {"infra", "decision"} :
        /\ run.batch => k = "decision"
        /\ Writes([Set({"implement"}, "failed") EXCEPT !.kind = k], "select", "none")
    /\ UNCHANGED <<saved, place, used, past>>

\* A person routes the failed tasks back to planning.
RouteBack ==
    /\ At("implement") /\ ~run.batch
    /\ Spend("answers", MaxAnswers)
    /\ Writes([Set({"implement"}, "pending") EXCEPT !.status["create-plan"] = "needs_update"],
              "boundary", "none")
    /\ UNCHANGED <<saved, place, past>>

\* Nothing critical is left, or it is accepted: by a person, or in batch when
\* its one rework is used up.
ReviewCompletes ==
    /\ At("review")
    /\ Writes(Set({"review"}, "completed"), "boundary", "none")
    /\ verified' = FALSE
    /\ UNCHANGED <<saved, place, used, auto, reworked, undone>>

\* Rework of what is left: new tasks, or corrected documents only.
ReviewRework ==
    /\ At("review")
    /\ IF run.batch THEN wf.reviews < REVIEW_REWORK_CAP /\ UNCHANGED used
       ELSE Spend("answers", MaxAnswers)
    /\ \E back \in {{"implement", "review"}, {"review"}} :
        Writes(Set(back, "pending"), IF run.batch THEN "counting" ELSE "select",
               IF run.batch THEN "review" ELSE "none")
    /\ UNCHANGED <<saved, place, past>>

CountReviewRework ==
    /\ At("counting")
    /\ Writes([wf EXCEPT !.reviews = @ + 1], "select", "none")
    /\ UNCHANGED <<saved, place, used, past>>

\* The fixed steps back to another specification; verify stays what it is.
ChangeSpec ==
    /\ LET w == Set({"create-plan", "implement", "review"}, "pending")
       IN  wf' = [w EXCEPT !.status["create-spec"] = "needs_update"]
    /\ run' = [run EXCEPT !.at = "record",
                          !.why = IF run.batch /\ run.at = "replan" THEN "verify" ELSE "none"]

\* The planner needs another specification, and the gate or the person agrees:
\* nothing is counted.
ReviewSpecChange ==
    /\ At("review")
    /\ IF run.batch THEN wf.reviews < REVIEW_REWORK_CAP /\ Spend("changes", MaxChanges)
       ELSE Spend("answers", MaxAnswers)
    /\ ChangeSpec
    /\ UNCHANGED <<saved, place, past>>

\* The record of the change follows the statuses.
RecordChange ==
    /\ At("record")
    /\ Writes([wf EXCEPT !.change = "open"], "boundary", "none")
    /\ UNCHANGED <<saved, place, used, past>>

\* The gate refuses, which ends a batch run; review returns to pending first.
ReviewGateAbort ==
    /\ At("review") /\ run.batch /\ wf.reviews < REVIEW_REWORK_CAP
    /\ Writes(Set({"review"}, "pending"), "gone", "none")
    /\ UNCHANGED <<saved, place, used, past>>

VerifyPasses ==
    /\ At("verify")
    /\ Writes([Set({"verify"}, "completed") EXCEPT !.items = {}], "boundary", "none")
    /\ litter' \in {litter, TRUE}
    /\ verified' = TRUE
    /\ UNCHANGED <<saved, worktree, branch, landed, allowed, used, auto, reworked, undone>>

\* The failing items are recorded and committed first.  Their names mean
\* nothing: they are numbered as they first fail.
VerifyFinds ==
    /\ At("verify")
    /\ \E found \in SUBSET Item \ {{}} :
        /\ \A i \in found : \A j \in 1..(i - 1) : j \in found \cup wf.items \/ wf.counts[j] > 0
        /\ Writes([wf EXCEPT !.items = found], "fail", "none")
    /\ litter' \in {litter, TRUE}
    /\ UNCHANGED <<saved, worktree, branch, landed, allowed, used, past>>

\* Bug: only items that have not failed before are counted.
Counted_New(w) ==
    [w EXCEPT !.rounds = @ + 1,
              !.counts = [i \in Item |-> @[i] + IF i \in w.items /\ @[i] = 0 THEN 1 ELSE 0]]

\* The counting rule: every item of the round, the round itself.
Counted(w) ==
    [w EXCEPT !.rounds = @ + 1,
              !.counts = [i \in Item |-> @[i] + IF i \in w.items THEN 1 ELSE 0]]

\* Counted before anything is decided, in batch.
VerifyFails ==
    /\ At("fail")
    /\ LET failed == Set({"verify"}, "failed") IN
        Writes(IF run.batch THEN Counted(failed) ELSE failed, "decide", "none")
    /\ UNCHANGED <<saved, place, used, past>>

DecideRework ==
    /\ At("decide")
    /\ \/ /\ run.batch /\ UNCHANGED <<wf, used>>
          /\ Go(IF Capped THEN "select" ELSE "replan")
       \/ /\ ~run.batch /\ Spend("answers", MaxAnswers)
          /\ \/ Go("replan") /\ UNCHANGED wf
             \/ Writes(Set({"review", "verify"}, "pending"), "select", "none")
       \/ ~run.batch /\ Stop /\ UNCHANGED <<wf, used>>
    /\ UNCHANGED <<saved, place, past>>

\* The rework planner: tasks, corrected documents only, another specification,
\* or a question that ends the run.
Replan ==
    /\ At("replan")
    /\ \/ \E back \in {{"implement", "verify"}, {"verify"}} :
            Writes(Set(back, "pending"), "boundary", IF run.batch THEN "verify" ELSE "none")
       \/ ChangeSpec
       \/ Stop /\ UNCHANGED wf
    /\ UNCHANGED <<saved, place, used, past>>

RetrospectPhase ==
    /\ At("retrospect")
    /\ Writes(Set({"retrospect"}, "completed"), "boundary", "none")
    /\ UNCHANGED <<saved, place, used, past>>

----------------------------------------------------------------------------
(* Step C, and the commands past the guard *)

\* What the hook may find of another feature.
OtherWorkflow ==
    {NewWorkflow, Unreadable,
     [NewWorkflow EXCEPT !.status["implement"] = "failed"],
     [NewWorkflow EXCEPT !.rounds = HARD_CAP,
          !.status = [s \in StepId |-> IF s = "verify" THEN "failed" ELSE "completed"]]}

Cwd == {"project", "outside"} \cup IF worktree THEN {Self} ELSE {}

Removal(operand) == [kind |-> "worktree_remove", operand |-> operand]
Delete(operand) == [kind |-> "branch_delete", operand |-> operand]
OpenPr == [kind |-> "pr_create", operand |-> Elsewhere]

\* What one run of the hook may see: this feature's worktree if there is one,
\* perhaps those of others, perhaps no parser.
Sight(cwd) ==
    LET own == IF worktree THEN {Self} ELSE {}
        seen == UNION {{[f \in own \cup others |-> IF f = Self THEN wf ELSE other] :
                          other \in OtherWorkflow} : others \in SUBSET (Feature \ {Self})}
    IN  [parser : BOOLEAN, cwd : {cwd}, wf : seen]

\* What the hook may make of a command.  allowed: it asks and somebody is there
\* to allow it, or it has no parser.
Ruling(command, cwd, unattended) ==
    LET verdict(sight) == Verdict(command, sight, unattended)
    IN  {[denied |-> verdict(s) = "deny", allowed |-> verdict(s) = "ask" \/ ~s.parser] : s \in Sight(cwd)}

Passes(command, cwd, unattended) ==
    allowed' \in {r.allowed : r \in {q \in Ruling(command, cwd, unattended) : ~q.denied}}

\* --pr fixes the way to finish, batch keeps the branch, a person chooses.
Keep ==
    /\ At("finish") /\ ~run.pr
    /\ Go("cleanup")
    /\ UNCHANGED <<wf, saved, place, used, past>>

\* A dirty main working tree stops the merge.
Merge ==
    /\ At("finish") /\ ~run.pr /\ ~run.batch
    /\ \/ landed' = "merged" /\ Go("drop")
       \/ Stop /\ UNCHANGED landed
    /\ UNCHANGED <<wf, saved, worktree, branch, litter, allowed, used, past>>

\* git push and gh pr create.
CreatePr ==
    /\ At("finish") /\ (run.pr \/ ~run.batch)
    /\ \/ /\ landed # "merged" /\ landed' = "pr" /\ Go("cleanup")
          /\ \E cwd \in Cwd : Passes(<<OpenPr>>, cwd, run.batch)
       \/ Stop /\ UNCHANGED <<landed, allowed>>
    /\ UNCHANGED <<wf, saved, worktree, branch, litter, used, past>>

\* git worktree remove without --force refuses untracked files.  A denied
\* operand that the shell would expand is written out and tried again; a denied
\* removal that names the feature ends the turn.
RemoveWorktree ==
    /\ At("cleanup") \/ At("drop")
    /\ \E operand \in {Self, Dynamic}, cwd \in Cwd :
        \E ruling \in Ruling(<<Removal(operand)>>, cwd, run.batch) :
            /\ ruling.denied => operand = Self
            /\ allowed' = ruling.allowed
            /\ worktree' = (litter \/ ruling.denied)
            /\ IF run.at = "drop" /\ ~worktree' THEN Go("delete") ELSE Stop
    /\ UNCHANGED <<wf, saved, branch, litter, landed, used, past>>

DeleteBranch ==
    /\ At("delete")
    /\ \E cwd \in Cwd : Passes(<<Delete(Self)>>, cwd, run.batch)
    /\ branch' = FALSE
    /\ Stop
    /\ UNCHANGED <<wf, saved, worktree, litter, landed, used, past>>

----------------------------------------------------------------------------
(* What happens to a run *)

\* The session dies; what it wrote and did not commit stays in the worktree.
Crash ==
    /\ run.at # "off"
    /\ Incident("crashes", MaxCrashes)
    /\ Stop
    /\ UNCHANGED <<wf, saved, place, past>>

\* The user takes a step that was left failed or aborted back to pending by hand.
Mend ==
    /\ run.at = "off" /\ worktree /\ wf = saved
    /\ Incident("mends", MaxMends)
    /\ \E s \in FailedSteps(wf) \cup (IF Aborted(wf) THEN {"create-spec"} ELSE {}) :
        /\ wf' = [Set({s}, "pending") EXCEPT !.kind = IF s = "implement" THEN "none" ELSE @]
        /\ undone' = (undone /\ s # "create-spec")
    /\ saved' = wf'
    /\ UNCHANGED <<place, run, verified, auto, reworked>>

Command ==
    LET removals == {Removal(f) : f \in Feature \cup {Dynamic}}
    IN  {<<s>> : s \in removals \cup {Delete(Self), Delete(Dynamic), OpenPr}}
        \cup {<<r, s>> : r \in removals, s \in {Removal(Self), Delete(Self)}}

\* A cleanup command of a session whose turn has ended with a step failed, with
\* somebody there: an unattended session is denied more.  Of
\* other features the hook has nothing to say.  git itself keeps a
\* worktree with changes in it, a branch that is checked out and one that is
\* merged nowhere.
OwnCommand ==
    /\ run.at = "off" /\ branch /\ FailedSteps(wf) # {}
    /\ Incident("commands", MaxCommands)
    /\ \E command \in Command, cwd \in Cwd :
        LET hits(kind) == {i \in DOMAIN command : /\ command[i].kind = kind
                                                /\ command[i].operand \in {Self, Dynamic}}
            removed == worktree /\ wf = saved /\ ~litter /\ hits("worktree_remove") # {}
        IN  /\ Passes(command, cwd, FALSE)
            /\ worktree' = (worktree /\ ~removed)
            /\ landed' = IF landed = "no" /\ (\E i \in DOMAIN command : command[i].kind = "pr_create")
                         THEN "pr" ELSE landed
            /\ branch' = ~\E j \in hits("branch_delete") :
                  /\ landed # "no"
                  /\ ~worktree \/ (removed /\ \E i \in hits("worktree_remove") : i < j)
    /\ UNCHANGED <<wf, saved, litter, run, past>>

----------------------------------------------------------------------------
RunStep ==
    \/ Commit \/ Entry \/ SelectStep \/ ResumeInfra \/ StopOnFailed \/ SelectFinish \/ Boundary
    \/ ConsumeChange \/ SpecPhase \/ PlanPhase \/ ImplementCompletes \/ ImplementFails \/ RouteBack
    \/ ReviewCompletes \/ ReviewRework \/ CountReviewRework
    \/ ReviewSpecChange \/ RecordChange \/ ReviewGateAbort
    \/ VerifyPasses \/ VerifyFinds \/ VerifyFails \/ DecideRework \/ Replan \/ RetrospectPhase
    \/ Keep \/ Merge \/ CreatePr \/ RemoveWorktree \/ DeleteBranch

Next == RunStep \/ Launch \/ Crash \/ Mend \/ OwnCommand

Spec == Init /\ [][Next]_vars

\* Nobody has to answer in a batch run: it goes on until its turn ends.
FairSpec == Spec /\ WF_vars(run.batch /\ RunStep)

----------------------------------------------------------------------------
(* Properties *)

\* Verify failed at the cap, and everything else is done.
CapEnd == /\ wf.status["verify"] = "failed" /\ Capped
          /\ \A s \in StepId \ {"verify"} : Done(s)

\* The worktree of a feature with a failed step is not taken away, by no run
\* and no command, unless verify failed at the cap and retrospect is done.
\* Excepted are a command that a person allowed or a hook without its parser
\* let pass, and a workflow mended by hand, whose old counts and retrospect may
\* look like that end.
FailedRunIsKept ==
    [][worktree /\ ~worktree' /\ Failed(wf)
          => CapEnd \/ allowed' \/ (used["mends"] > 0 /\ cap_reached(wf))]_vars

\* A run lands its branch or ends it only on code that verify has passed, or
\* with verify failed at the cap.
OnlyVerifiedLands ==
    [][run.at # "off" /\ ((worktree /\ ~worktree') \/ landed' # landed)
          => verified \/ CapEnd]_vars

\* Whatever crashes, mends and changes of mode, what a counter stands for is
\* bounded: two resumes, two rounds after a failed verify, changes of the
\* specification among them, one per failing item, and one review rework, which a
\* crash before its count may repeat.  A change of the specification out of
\* review has no counter, and is not among these.
CountedIsBounded ==
    /\ auto["infra"] <= 2 /\ auto["verify"] <= 2
    /\ \A i \in Item : reworked[i] <= 1
    /\ auto["review"] <= 1 + used["crashes"]

\* A batch turn ends, unless the specification is changed again out of review.
BatchTurnEnds ==
    \A n \in 0..MaxChanges :
        (run.batch /\ used["changes"] = n) ~> (run.at = "off" \/ used["changes"] # n)

\* A batch turn that reaches the verify cap ends with the worktree cleaned up: the
\* guard and the run agree on what the cap is.
CapIsCleanedUp ==
    \A c \in 0..MaxCrashes :
        (run.at = "decide" /\ run.batch /\ ~run.once /\ ~run.pr /\ Capped /\ used["crashes"] = c)
            ~> (~worktree \/ litter \/ used["crashes"] # c)

\* No run enters create-spec of its own accord when a person has aborted it, or a
\* crash has lost the reason it is to be entered for: the record of a change is
\* good for one entry.
AbortIsKept == [][run.at = "select" /\ run'.at = "create-spec" => ~undone]_vars
=============================================================================
