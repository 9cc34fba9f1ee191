------------------------------ MODULE Planning ------------------------------
(***************************************************************************)
(* The passes that change a feature's plan: the create-plan phase          *)
(* (initial planning, re-planning after a spec change or a route-back,     *)
(* final-path correction) and the rework phase, each from the dispatch of  *)
(* its worker to the commit of the step's status, with the concurrent      *)
(* commits that make commit-docs.sh exit 4, sessions that die between any  *)
(* two steps and the resume decision table of phase-state.md.              *)
(*                                                                         *)
(* disk is the integration worktree, saved its last commit; both hold      *)
(*   wf    workflow.yaml (see WorkflowPatch)                               *)
(*   ps    the phase state: status, discarded, stale count, applied        *)
(*   auth  spec_change.replan_authorized: "none", "granted" or "spent"     *)
(*   art   the worker's artifacts: "none", "unverified" or "verified"      *)
(* orch is the orchestrator: where it stands (pc), the kind of the pass,   *)
(* its number and the patch it holds.  A worker is adversarial: it returns *)
(* any patch over the bounded inputs.                                      *)
(***************************************************************************)
EXTENDS WorkflowPatch

CONSTANTS MaxId, MaxPass, MaxCrashes, MaxSpecChanges

\* OldPlan has two tasks.
ASSUME PlanningAssumption ==
    /\ MaxId \in Nat /\ MaxId >= 2 /\ MaxPass \in Nat
    /\ MaxCrashes \in Nat /\ MaxSpecChanges \in Nat

VARIABLES disk, saved, behind, orch, journal, crashes, changes,
          started,   \* history: id |-> the task as it was last launched
          written    \* history: the workflow the pass's last Write produced

vars == <<disk, saved, behind, orch, journal, crashes, changes,
          started, written>>

TaskIds == 1..MaxId
NoPatch == [op |-> "none"]

Pcs == {"idle", "dispatch", "working", "verified", "recorded", "written",
        "applied", "lost", "committed", "down", "stopped"}

Origin == "review"

PhaseStart == [status |-> "initialized", discarded |-> FALSE,
               stale |-> 0, applied |-> FALSE]

NewFeature == [plan |-> "pending", implement |-> "pending", review |-> "pending",
               base |-> FALSE, tasks |-> <<>>, tests |-> <<1, 2>>]

\* A feature planned before the report-name rule existed.
OldPlan == [NewFeature EXCEPT !.plan = "completed",
    !.tasks = [i \in 1..2 |-> [status |-> "pending", by |-> 0,
                               file |-> IF i = 1 THEN "report" ELSE "plain"]]]

Init ==
    /\ \E w \in {NewFeature, OldPlan} :
        /\ disk = [wf |-> w, ps |-> PhaseStart, auth |-> "none", art |-> "none"]
        /\ written = w
    /\ saved = disk
    /\ behind = FALSE
    /\ orch = [pc |-> "idle", kind |-> "none", pass |-> 0, patch |-> NoPatch]
    /\ journal = [i \in TaskIds |-> "none"]
    /\ crashes = 0 /\ changes = 0
    /\ started = <<>>

At(pc) == orch.pc = pc
Go(pc) == orch' = [orch EXCEPT !.pc = pc]

\* A commit of the phase state or of the step's status.  On exit 4 the
\* worktree is reset to the branch and the record is written again on what was
\* committed there; a second exit 4 stops the phase.
Record(once, again, pc) ==
    \/ ~behind /\ disk' = once /\ saved' = once /\ Go(pc) /\ UNCHANGED behind
    \/ behind /\ disk' = again /\ saved' = again /\ Go(pc) /\ behind' = FALSE
    \/ behind /\ disk' = saved /\ Go("stopped") /\ UNCHANGED <<saved, behind>>

\* --------------------------------------------------------------------------
\* The passes.

MayBegin(kind, w) ==
    \/ kind = "plan" /\ w.plan \in {"pending", "needs_update"}
    \/ kind = "plan" /\ w.plan = "completed" /\ w.implement = "failed"
        /\ \E i \in Ids(w) : w.tasks[i].file = "report" /\ w.tasks[i].status /= "merged"
    \/ kind = "rework" /\ w.plan = "completed" /\ w.implement = "completed"

Begin(kind) ==
    /\ At("idle") /\ orch.pass < MaxPass
    /\ MayBegin(kind, disk.wf)
    /\ LET w == IF kind = "rework" THEN [disk.wf EXCEPT !.review = "pending"] ELSE disk.wf
           d == [disk EXCEPT !.wf = w, !.ps = PhaseStart, !.art = "none"]
       IN  disk' = d /\ saved' = d
    /\ orch' = [pc |-> "dispatch", kind |-> kind, pass |-> orch.pass + 1, patch |-> NoPatch]
    /\ UNCHANGED <<behind, journal, crashes, changes, started, written>>

Clean(d, s) == d.wf = s.wf /\ d.art /= "unverified"

Dispatched(d) == [d EXCEPT !.ps.status = "dispatching", !.ps.discarded = FALSE,
                           !.ps.applied = FALSE]

Dispatch ==
    /\ At("dispatch")
    /\ IF Clean(disk, saved)
       THEN Record(Dispatched(disk), Dispatched(saved), "working")
       ELSE Go("stopped") /\ UNCHANGED <<disk, saved, behind>>
    /\ UNCHANGED <<journal, crashes, changes, started, written>>

\* What a worker may answer: any patch over small sets of its fields.
Replacing(w) ==
    [op : {"replace_planning"}, run : {orch.pass}, blob : {w},
     entries : {<<>>} \cup UNION {[{i} -> {"plain", "report"}] : i \in TaskIds},
     carried : {Ids(w), {}} \cup {Ids(w) \ {i} : i \in Ids(w)}, next : {0},
     fix : {{}} \cup {{i} : i \in Ids(w)}, keep : {TRUE}, steps : {{}},
     swaps : {<<>>}, more : {<<>>}]

Swaps == {<<>>, <<[from |-> 1, to |-> 3], [from |-> 2, to |-> 3]>>,
          <<[from |-> 1, to |-> 2], [from |-> 2, to |-> 3]>>,
          <<[from |-> 1, to |-> 2], [from |-> 2, to |-> 1]>>}

Appending(w) ==
    [op : {"append_rework"}, run : {orch.pass}, blob : {w},
     entries : {<<>>} \cup UNION {[{i} -> {"plain"}] : i \in {1, NextId(w)} \cap TaskIds},
     carried : {{}}, next : {NextId(w)}, fix : {{}}, keep : {TRUE},
     steps : {{[step |-> s, from |-> w[s], to |-> "pending"]} : s \in {"implement", "review"}},
     swaps : Swaps, more : {<<1, 10 + orch.pass>>}]

Answers(w) == IF orch.kind = "plan" THEN Replacing(w) ELSE Appending(w)

\* The worker writes its artifacts before it returns.
WorkerWrites ==
    /\ At("working") /\ disk.art /= "unverified"
    /\ disk' = [disk EXCEPT !.art = "unverified"]
    /\ UNCHANGED <<saved, behind, orch, journal, crashes, changes, started, written>>

\* A worker's result: the scope of what it wrote is checked, then its patch.
Return(p) ==
    /\ At("working") /\ disk.art = "unverified"
    /\ Accepted(disk.wf, journal, disk.auth, Origin, p)
    /\ orch' = [orch EXCEPT !.pc = "verified", !.patch = p]
    /\ disk' = [disk EXCEPT !.art = "verified"]
    /\ UNCHANGED <<saved, behind, journal, crashes, changes, started, written>>

Refuse ==
    /\ At("working") /\ disk.art = "unverified"
    /\ ~\A p \in Answers(disk.wf) : Accepted(disk.wf, journal, disk.auth, Origin, p)
    /\ Go("stopped")
    /\ UNCHANGED <<disk, saved, behind, journal, crashes, changes, started, written>>

Exceeded(stale) == stale >= 1

\* A commit that carries what the worker wrote.  Its exit 4 loses that work: the
\* worktree is reset, and the worker runs again once in a row.
CommitWork(d, pc) ==
    \/ ~behind /\ disk' = d /\ saved' = d /\ Go(pc) /\ UNCHANGED behind
    \/ /\ behind /\ behind' = FALSE /\ disk' = saved
       /\ Go(IF Exceeded(saved.ps.stale) THEN "stopped" ELSE "lost")
       /\ UNCHANGED saved

\* The verified result and its proposed patch; the commit sweeps in the artifacts.
RecordResult ==
    /\ At("verified")
    /\ CommitWork([disk EXCEPT !.ps.status = "applying_patch"], "recorded")
    /\ UNCHANGED <<journal, crashes, changes, started, written>>

\* Bug: the application is recorded with the write, ahead of the commit.
WritePatch_Recorded ==
    /\ At("recorded")
    /\ disk' = [disk EXCEPT !.wf = Apply(disk.wf, orch.patch), !.ps.applied = TRUE]
    /\ written' = disk'.wf
    /\ Go("written")
    /\ UNCHANGED <<saved, behind, journal, crashes, changes, started>>

\* The one Write to workflow.yaml.
WritePatch ==
    /\ At("recorded")
    /\ disk' = [disk EXCEPT !.wf = Apply(disk.wf, orch.patch)]
    /\ written' = disk'.wf
    /\ Go("written")
    /\ UNCHANGED <<saved, behind, journal, crashes, changes, started>>

CommitArtifact ==
    /\ At("written")
    /\ CommitWork(disk, "applied")
    /\ UNCHANGED <<journal, crashes, changes, started, written>>

Applied(d) == [d EXCEPT !.ps.applied = TRUE,
                   !.auth = IF @ = "granted" /\ orch.kind = "plan" THEN "spent" ELSE @]

\* One phase-state write records the application and spends the authorization.
RecordApplied ==
    /\ At("applied")
    /\ Record(Applied(disk), Applied(saved), "committed")
    /\ UNCHANGED <<journal, crashes, changes, started, written>>

\* Bug: the discard is recorded without its count.
Discarded_NotCounted(d) == [d EXCEPT !.ps.status = "dispatching", !.ps.discarded = TRUE]

Discarded(d) == [d EXCEPT !.ps.status = "dispatching", !.ps.discarded = TRUE,
                          !.ps.stale = @ + 1]

\* Bug: the discarded run is recorded while the next worker runs.
RecordDiscarded_Late ==
    /\ \/ At("lost") /\ Go("dispatch") /\ UNCHANGED <<disk, saved, behind>>
       \/ At("working") /\ ~disk.ps.discarded /\ Record(Discarded(disk), Discarded(saved), "working")
    /\ UNCHANGED <<journal, crashes, changes, started, written>>

\* The discarded run and the count are committed before the re-dispatch.
RecordDiscarded ==
    /\ At("lost")
    /\ Record(Discarded(disk), Discarded(saved), "dispatch")
    /\ UNCHANGED <<journal, crashes, changes, started, written>>

Completed(d) ==
    [d EXCEPT !.ps.status = "completed", !.ps.stale = 0,
              !.wf.plan = IF orch.kind = "plan" THEN "completed" ELSE @]

Complete ==
    /\ At("committed")
    /\ Record(Completed(disk), Completed(saved), "idle")
    /\ UNCHANGED <<journal, crashes, changes, started, written>>

\* --------------------------------------------------------------------------
\* Failures.

Committing == {"dispatch", "verified", "written", "applied", "lost", "committed"}

\* Another commit reaches the integration branch; it is only seen by a commit, so it
\* may as well come where one is next.
Advance ==
    /\ ~behind /\ orch.pc \in Committing
    /\ behind' = TRUE
    /\ UNCHANGED <<disk, saved, orch, journal, crashes, changes, started, written>>

\* The session ends; the patch's body may be lost with it.
Crash ==
    /\ orch.pc \notin {"idle", "down", "stopped"} /\ crashes < MaxCrashes
    /\ crashes' = crashes + 1
    /\ \E p \in {orch.patch, NoPatch} : orch' = [orch EXCEPT !.pc = "down", !.patch = p]
    /\ UNCHANGED <<disk, saved, behind, journal, changes, started, written>>

\* The resume decision table.
ResumeAt(d, patch) ==
    CASE d.ps.status \in {"initialized", "dispatching"} -> "dispatch"
      [] d.ps.status = "applying_patch" /\ ~d.ps.applied ->
            IF patch /= NoPatch /\ Accepted(d.wf, journal, d.auth, Origin, patch)
            THEN "recorded" ELSE "dispatch"
      [] d.ps.status = "applying_patch" /\ d.ps.applied -> "committed"
      [] OTHER -> "idle"

Inspected(art) == IF art = "none" THEN "none" ELSE "verified"

Resume ==
    /\ At("down")
    /\ Go(ResumeAt(disk, orch.patch))
    /\ disk' = [disk EXCEPT !.art = Inspected(@)]
    /\ UNCHANGED <<saved, behind, journal, crashes, changes, started, written>>

\* The user cleans the worktree after a stop.
Restart ==
    /\ At("stopped")
    /\ Go("idle")
    /\ disk' = saved /\ behind' = FALSE
    /\ UNCHANGED <<saved, journal, crashes, changes, started, written>>

\* --------------------------------------------------------------------------
\* What happens to the plan between two passes.

SetWf(w) == disk' = [disk EXCEPT !.wf = w] /\ saved' = [saved EXCEPT !.wf = w]

SetTask(i, status) == SetWf([disk.wf EXCEPT !.tasks[i].status = status])

Launch(i) ==
    LET w == disk.wf IN
    /\ At("idle") /\ w.plan = "completed" /\ w.implement \in {"pending", "in_progress"}
    /\ i \in Ids(w) /\ w.tasks[i].status = "pending" /\ journal[i] \in {"none", "failed"}
    /\ journal' = [journal EXCEPT ![i] = "launched"]
    /\ SetWf([w EXCEPT !.base = TRUE, !.implement = "in_progress",
                       !.tasks[i].status = "in_progress"])
    /\ started' = [k \in {i} \cup DOMAIN started |->
                      IF k = i THEN w.tasks[i] ELSE started[k]]
    /\ UNCHANGED <<behind, orch, crashes, changes, written>>

Land(i) ==
    /\ At("idle") /\ journal[i] = "launched"
    /\ \E e \in {"merged", "failed"} : journal' = [journal EXCEPT ![i] = e]
    /\ UNCHANGED <<disk, saved, behind, orch, crashes, changes, started, written>>

Settle(i) ==
    /\ At("idle") /\ i \in Ids(disk.wf)
    /\ disk.wf.tasks[i].status = "in_progress" /\ journal[i] \in {"merged", "failed"}
    /\ SetTask(i, journal[i])
    /\ UNCHANGED <<behind, orch, journal, crashes, changes, started, written>>

EndImplement ==
    LET w == disk.wf IN
    /\ At("idle") /\ w.implement = "in_progress"
    /\ ~SomeTask(w, {"in_progress", "pending"})
    /\ SetWf([w EXCEPT !.implement = IF SomeTask(w, {"failed"}) THEN "failed" ELSE "completed"])
    /\ UNCHANGED <<behind, orch, journal, crashes, changes, started, written>>

\* The implement phase routes failed tasks back to planning.
RouteBack ==
    LET w == disk.wf IN
    /\ At("idle") /\ w.plan = "completed" /\ w.implement = "failed"
    /\ SetWf([w EXCEPT !.plan = "needs_update", !.implement = "pending",
                !.tasks = [i \in Ids(w) |-> IF w.tasks[i].status = "failed"
                                THEN [w.tasks[i] EXCEPT !.status = "pending"] ELSE w.tasks[i]]])
    /\ UNCHANGED <<behind, orch, journal, crashes, changes, started, written>>

SpecChange ==
    /\ At("idle") /\ disk.wf.plan = "completed" /\ disk.wf.implement = "completed"
    /\ changes < MaxSpecChanges /\ changes' = changes + 1
    /\ LET w == [disk.wf EXCEPT !.plan = "pending", !.implement = "pending",
                                !.review = "pending"]
       IN  /\ disk' = [disk EXCEPT !.wf = w, !.auth = "granted"]
           /\ saved' = [saved EXCEPT !.wf = w, !.auth = "granted"]
    /\ UNCHANGED <<behind, orch, journal, crashes, started, written>>

\* --------------------------------------------------------------------------

Orchestrate ==
    \/ Dispatch \/ RecordResult \/ WritePatch \/ RecordApplied
    \/ CommitArtifact \/ RecordDiscarded \/ Complete \/ Resume

Worker == WorkerWrites \/ Refuse \/ \E p \in Answers(disk.wf) : Return(p)

Next ==
    \/ \E kind \in {"plan", "rework"} : Begin(kind)
    \/ Orchestrate \/ Worker \/ Advance \/ Crash \/ Restart
    \/ \E i \in TaskIds : Launch(i) \/ Land(i) \/ Settle(i)
    \/ EndImplement \/ RouteBack \/ SpecChange

Fairness == WF_vars(Orchestrate) /\ WF_vars(Worker)

Spec == Init /\ [][Next]_vars

FairSpec == Spec /\ Fairness

-----------------------------------------------------------------------------
TypeOK ==
    /\ \A d \in {disk, saved} :
        /\ Ids(d.wf) \subseteq TaskIds
        /\ \A i \in Ids(d.wf) :
            d.wf.tasks[i] \in [status : Statuses, by : 0..MaxPass, file : {"report", "plain"}]
        /\ d.ps \in [status : {"initialized", "dispatching", "applying_patch", "completed"},
                     discarded : BOOLEAN, stale : 0..1, applied : BOOLEAN]
        /\ d.auth \in {"none", "granted", "spent"}
        /\ d.art \in {"none", "unverified", "verified"}
    /\ orch.pc \in Pcs /\ orch.pass \in 0..MaxPass
    /\ behind \in BOOLEAN

\* No pass drops a task that was ever launched or gives its id to another
\* task, and none rewrites the path of a task in flight or merged: the
\* carry-over rules of validate-worker-output.py over any sequence of
\* re-planning, rework and correction passes.
StartedIsKept ==
    \A i \in DOMAIN started :
        /\ i \in Ids(disk.wf)
        /\ disk.wf.tasks[i].by = started[i].by
        /\ journal[i] \in {"launched", "merged"} => disk.wf.tasks[i].file = started[i].file

\* A scenario reference survives every accepted tests_replace: what one Write leaves
\* listed is the image of each listed scenario and what is appended, whatever the
\* order of the pairs, and when a scenario is listed more than once.
Image(p, t) ==
    IF t \in Froms(p) THEN {p.swaps[k].to : k \in {k \in DOMAIN p.swaps : p.swaps[k].from = t}}
                      ELSE {t}

ScenariosSurvive ==
    [][At("recorded") /\ orch'.pc = "written" =>
        Range(disk'.wf.tests) =
            (UNION {Image(orch.patch, t) : t \in Range(disk.wf.tests)})
                \cup Range(orch.patch.more)]_vars

\* The artifacts of a run whose result was not verified are in no commit.
UnverifiedIsNotCommitted == saved.art /= "unverified"

\* A planning step is recorded as completed only over the workflow its patch
\* produced, unchanged but for the status of the step itself: also when the session
\* died between the write, its commit and its record, or the worktree was reset on
\* the way; a recorded application is thus one that was committed.
CompletedIsApplied ==
    [][At("committed") /\ orch'.pc = "idle" =>
        saved'.wf = [written EXCEPT !.plan = IF orch.kind = "plan" THEN "completed" ELSE @]]_vars

\* A pass that began ends, or stops for the user.
PassEnds == orch.pc \notin {"idle", "stopped"} ~> orch.pc \in {"idle", "stopped"}

=============================================================================
