# TLA+ models of em-workflow

em-workflow (in `src/em-workflow`) is a Claude Code plugin: a language-model
*orchestrator* plans a feature, starts *implementer* agents for its tasks in
git worktrees of their own, merges their branches into the feature's integration
branch and finally merges that branch into its base. Everything the agents may
get wrong or in the wrong order is held together by a small set of programs:
hooks the harness runs at tool calls, and scripts the agents run. Those programs,
the files they share and the interleavings they meet are what is modelled here.

- [1. The system](#1-the-system)
- [2. The modules](#2-the-modules)
- [3. The runs](#3-the-runs)
- [4. What is proved](#4-what-is-proved)
- [5. Where code and documents disagree](#5-where-code-and-documents-disagree)
- [6. What is not modelled](#6-what-is-not-modelled)
- [7. Plan](#7-plan)

Check a configuration with `tlc -config X.cfg M`, a proof with `tlapm M.tla`.

## 1. The system

### State that is shared

| file or object | written by | read by |
|---|---|---|
| `journal.jsonl`, one per feature: lines `launched`, `merged`, `failed` of a task | `queue_launch_guard.py`, `queue_failure_net.py`, `queue_taskstop_net.py`, `merge-task.sh`, `journal-append-failed.py` | all of these, the orchestrator, `queue_stop_guard.py`, `recover-orphaned-task.py` |
| `agents.jsonl`, the agent index: identifiers of a launch and its task | `queue_agent_index.py` | the two nets, `recover-orphaned-task.py` |
| the integration branch and `em-workflow-merge.lock` | `merge-task.sh`, `commit-docs.sh`, `git reset --hard` in the integration worktree | the same |
| `workflow.yaml`: status of a task, `routeback_failed_journal_line` | the orchestrator, through `commit-docs.sh` | the orchestrator, `queue_stop_guard.py` |
| `stop-guard-state.json`, the sidecar of the Stop hook | `queue_stop_guard.py` | the same |
| the holder record and flock of the repository-wide merge lock | `merge-lock.py hold` | `merge-lock.py verify` |
| session transcripts | the harness | `recover-orphaned-task.py` |

Only the journal, the integration branch and the merge lock have a lock. Nothing
covers two of these files together, and each program dies at any point.

### Components

| component | state and operations | what is hard | what makes it correct |
|---|---|---|---|
| Launch guard, `queue_launch_guard.py` | before a `Task()` call: replay the journal under its lock, deny or append `launched` | parallel calls; fails open when the journal cannot be read | one implementer per task; a live implementer's line is the task's last |
| Agent index, `queue_agent_index.py` | after a `Task()` call: append the identifiers of the response | best-effort, comes after the agent has started, may be late | a stop can be traced to its task, and never to another |
| Failure net, `queue_failure_net.py` | when an agent ends: find its task, append `failed` if the last event is not terminal | its event may be lost or come after a retry; without a prompt it reads the index first and locks the journal later | a gone implementer's task does not stay in flight; a late net never ends a later launch |
| TaskStop recorder, `queue_taskstop_net.py` | after `TaskStop`: the same, always through the index | superseded and shared identifiers; two recorders for one stop | as above |
| Task merge, `merge-task.sh` | bind worktree to task, flock, re-check, merge, compare-and-swap of the ref, append `merged` | waits for the lock while its worktree moves; dies between swap and append | no merge is lost; only task branches are merged; every waiter ends |
| Document commit, `commit-docs.sh` | flock, compare the captured tip, refuse foreign paths, commit the index | the index was built from a tip that has moved | the commit of a stale index never takes work back |
| Journal helper, `journal-append-failed.py` | decide by reason under the journal's lock, append `failed` | the caller's knowledge is older than the lock | it ends only the launch it was asked about |
| Orphan recovery, `recover-orphaned-task.py` | read index, journal and transcript, prove a session gone, call the helper | three reads without a lock, another session acting in between, clocks with a tolerance | only dead launches are failed; a dead one is recovered in the end |
| Stop guard, `queue_stop_guard.py` | at the end of a turn: classify the tasks, block the stop when work is left, at most three times in one state | reads journal and `workflow.yaml` on its own; best-effort counter | it never orders a retry nobody decided; it never blocks for ever; it is not silent while work is left |
| Orchestrator, `references/implement-phase.md` | launch loop, reconcile at wake-up, failure handling, route back, document commits | a commit may be missed, launches are denied or left out, the session dies | what it books agrees with journal and git; a failure always reaches the user; no automatic retry |
| Merge lock, `merge-lock.py`, with the steps of `skills/merge/SKILL.md` | a background process holds a flock and leaves a record; the run probes the recorded process | the run never sees the flock; pids are reused, holders die, zombies linger | `held` is true when it is said; runs are serialized; an ended run leaves no holder |
| Feature merge, `merge-git.py`, `merge-pr.py`, `merge-ci-wait.py`, with `skills/merge/SKILL.md` | preflight, integration of the base, verification, CI wait, local merge or pull request, cleanup | branches, the base and pull requests move in every gap; a merge command's exit code proves nothing; runs die and are repeated | what is merged was verified in that combination; the result is true; a run ends |
| TTY reaper, `codex-hook-tty-reaper.py` | find terminal-bound descendants of the anchor process, SIGTERM, then SIGKILL | processes exit, move and change ids while the table is read entry by entry | no foreign process is signalled; every stuck one is ended |
| Review round, `review-shards.py`, `review-coverage.py`, `references/review-phase.md` | split the diff, dispatch reviewers per shard with fallbacks, fix, re-review, compute coverage | failed and cut outputs, retries, rescues, files fixed after their review | a file is called reviewed exactly when somebody has read it as it is now |
| Planning passes, `validate-worker-output.py`, `references/workflow-patch.md`, `references/phase-state.md` | plan, re-plan, rework, correct: dispatch, validate, one write, record, commit | crashes between any two of these, exit 4, stale and unverified results | started tasks survive; unverified work is in no commit; a completed step stands over what its patch produced |
| Develop loop, `skills/develop/SKILL.md` | launch, choose the next step, stop, resume or rework by itself, finish | crashes, changes of mode between launches, counters that outlive a run | counted automation is bounded; only verified code is finished |
| Failed-run cleanup guard, `failed-run-cleanup-guard.py` | before a Bash command: deny or ask when it would take a failed run away | operands the shell expands, worktrees that cannot be read, its own idea of the cap | a failed run's worktree stays; a run at its cap can clean up |
| Command guards, other validators, scanners, `decide-tier.py` | stateless checks of text | parsing | not modelled |

`PROJECT.json` lists every component with its sources and status, and the hazards
with their lines.

## 2. The modules

| module | models | proofs |
|---|---|---|
| `Journal` | the decision of every writer of the journal | used in both |
| `TaskLifecycle` | the abstract history of a task: what the journal promises its readers | `TaskQueue_proofs` |
| `TaskQueue` | launch guard, index, failure net, TaskStop recorder, merge append, reconcile, helper | `TaskQueue_proofs` |
| `IntegrationRef` | `merge-task.sh`, `commit-docs.sh`, the orchestrator's capture, refresh, edit, commit | `IntegrationRef_proofs` |
| `MergeLock` | `merge-lock.py` and the steps of the merge skill that use it | `MergeLock_proofs` |
| `OrphanRecovery` | `recover-orphaned-task.py`, both chains | `OrphanRecovery_proofs` |
| `LaunchLoop` | Steps I.2.a to I.2.c and the Stop hook | `LaunchLoop_proofs` |
| `TtyReaper` | `codex-hook-tty-reaper.py` against a changing process table | `OrphanRecovery_proofs` |
| `MergeScripts`, `MergeRun` | what the merge scripts answer; a run of the merge skill around them | `MergeRun_proofs` |
| `ReviewScripts`, `ReviewRound` | the shard and coverage computations; a review round around them | `DevelopRun_proofs` |
| `WorkflowPatch`, `Planning` | the rules of a workflow patch; the passes that make and apply them | `Planning_proofs` |
| `CleanupGuard`, `DevelopRun` | the hook's decision; a develop run whose commands it judges | `DevelopRun_proofs` |

An `MC` module per component only adds a symmetry set, the value of a constant or,
in `MCOrphanRecovery`, a choice among the renamings of sessions.
`Journal` is shared by `TaskQueue` and `OrphanRecovery`, so a change of a
decision is seen by both; `TaskQueue` implements `TaskLifecycle` by
`INSTANCE ... WITH history <- ..., doubted <- ...`. `LaunchLoop` sees the journal
at the grain at which the orchestrator and the Stop hook see it: physical lines of
all tasks, with their numbers.

A pure module (`Journal`, `MergeScripts`, `ReviewScripts`, `WorkflowPatch`,
`CleanupGuard`) holds what a program computes from what it has read; the module
that extends it holds when it reads, what happens in between, and what is done
with the answer.

**Faults.** A constant set names what may go wrong (`Faults`; `FaultSets` and
`Usage`, of which each behaviour picks one member; `Windows`; or the bounds on
crashes, moves and stray commits), and the module's head says what each member
admits. A property that needs an orderly environment is checked with the largest
set we know it to hold for; section 5 says what breaks beyond that.

**Mutated definitions.** A definition `X_Suffix` with a comment that starts with
"Bug:" is a plausible mistake in `X`. It is used by nothing: putting it in
place of `X` must make a named property fail.

### TaskQueue

One action per hook invocation or flock section. A launch identity `l` stands for
a `Task()` call; the journal is one sequence per task, each line with the launch it
is about (`by`), which real lines do not carry and no decision reads. The order of
the harness is in the guards: PreToolUse before the agent starts (`LaunchGuard`,
`AgentStart`), PostToolUse after (`IndexAppend`), the next tool call of the
orchestrator after the hooks of the last one (`StopHooksDone`, `IndexHookDone`,
both dropped by "late"). The two nets read the index in one step and lock the
journal in a later one (`TaskStopResolve`/`TaskStopAppend`,
`FailureNetResolve`/`FailureNetAppend`); with an assignment block in the payload
the failure net needs no index (`FailureNet`). `MergeLand`/`AppendMergedEvent`
are the two ends of `merge-task.sh` with the crash in between; the orchestrator
believes a `merged` line only when git confirms it (`ReconcileMerged`), otherwise it
asks the helper (`ReconcileUnverified`, `DecideAndAppend`).

### IntegrationRef

A commit is the set of commits it contains and the set of items (tasks' work and
documents) its tree has; that is all that "is ancestor", "conflicts", "lost" need.
`merge-task.sh` is `MergeStart`, `MergeLock`, `MergeDecide` or `MergeConflict`,
`MergeSwap`, `MergeAppend`, with `MergeDies` everywhere; `commit-docs.sh` is
`CommitStart`, `CommitLock` and one of `CommitStale` (exit 4), `CommitRefused`
(exit 3), `CommitDocs`. The call sites differ in how the third argument comes
about: captured before the refresh, after it, or left out (`mode`). `usage` says
which are in use, and whether `git reset --hard branch` takes the steps git gives it
("split") or nothing interferes with it ("atomic"). Implementers may leave their task
branch (detached HEAD, or a new branch), and commit there, while their script waits or
holds the lock (`SwitchBranch`, `StrayCommit`); `due` remembers what was checked out
when the script got it. Both guards of the code are needed for `CheckedOutIsMerged`: the
look at HEAD after the wait, without which a merge reports success for a worktree whose
commits it has not taken, and the source read from the exact task ref, without
which it takes commits of another branch. Each has its mutant.

### MergeLock

The process table maps a pid to a process with a start time; `Kill` makes zombies
and frees the flock, `Reap` frees the pid, `OtherStarts` reuses it. `verify` reads
the record and probes its process in two steps, with everything else in
between. A run walks through steps 4, 6.1 to 6.4, 7 to 12 (one step), 13 and 14 of
`skills/merge/SKILL.md`.

### OrphanRecovery

One task, several sessions, a clock of whole ticks. The script's program counter
has one step per file it reads; the evidence it carries between them is in `rec`.
`Tolerance` is `AGENT_ENTRY_BINDING_TOLERANCE`, `MinRun` the least time between two
launches of the task, both scaled to ticks.

### LaunchLoop

`pc` is where the orchestrator is. A language model may leave out any launch it
selected and ignore any block, so `LaunchTask` may happen for any subset of
`picked`, and `Ignore` is always possible. The hook classifies tasks with
definitions of its own (`GuardUnlaunched`, `GuardFailed`, `GuardReset`), as it has
its own code; nothing makes them equal to the orchestrator's (`Unlaunched`,
`Failed`, `Reset`). `undecided`, the failed tasks nobody has decided about, is
history.

### TtyReaper

The process table maps a pid to an incarnation with parent, start tick, terminal and
zombie flag. The hook walks up to its anchor, reads the table one pid per step, links
children to parents by the start-time rule, orders its targets, and opens, checks
and signals each through a pidfd. In every gap processes fork, exit, are reaped,
are handed to init, redirect their input, and pids are given out again, within
one clock tick too. `listing` is the table as it was when the hook began to read it;
`stuck` and `twins` are history too.

### MergeRun

One step per call of a script or of git, in the order of the skill: preflight,
route, pull request, lock, worktree, integration of the base, conflict, verification,
push and CI, base check, merge, release, cleanup. Between any two of them others
commit to the integration branch, move the base, push, and handle pull
requests; a merge queue may drop what `gh pr merge` accepted; the run dies and is
invoked again. A commit is the set of its ancestors. The lock is `MergeLock`'s
subject: here a run gets it, or does not. A run that finds a commit nobody judged
in what it has merged says so in a note on its result (`res.noted`), and the properties
about a result speak of results without a note. The cleanup leaves it to git what may go:
`git branch -d` compares with HEAD of the main working tree, which is the base on the
local route and is not followed on the other, where git may give either answer.

### ReviewRound

What a result is worth only the model knows; the orchestrator sees its form. Units
(perspective and shard) walk their chain of harnesses, fall back to Claude, `spec`
is rescued shard by shard; a fix changes files and a new pass follows. The record the
round ends with is computed from the recorded rows alone, as the script does.

### Planning

`disk` is the integration worktree, `saved` its last commit, so a crash or an exit
4 may take back what was written. Workers are adversarial: any patch over the
bounded inputs may come back, valid or not. The passes are the initial plan,
re-planning, rework and correction; tasks are launched, land and fail between
them.

Every update of the phase state is a commit with an exit 4 of its own. There are two
kinds, as in `phase-state.md`: `CommitWork` carries what the worker wrote, so its exit 4
loses that work, and the pass dispatches again, once in a row; `Record` carries a record
only, which is written again after the reset. A pass commits the verified result
(`RecordResult`, which sweeps the artifacts in), writes the patch to `workflow.yaml` in
one Write, commits that (`CommitArtifact`), records the application and the spent
authorization (`RecordApplied`), and completes the step. `ResumeAt` is the resume table,
row by row. The application is recorded after the commit it is about: rule R2 of
`workflow-patch.md` orders it so, and the mutant of `CompletedIsApplied` records it with
the Write instead. `tests_append` may repeat a listed id, which the validator lets pass.

### DevelopRun

One feature from its first implement phase on. A phase is what it writes to
`workflow.yaml`; every write is committed before anything else is done (`Commit`),
and the session may die in between, after which the next launch resets the worktree
to the branch. Launches come in any mode, one after the other. `VerifyFinds`
numbers failing items as they first fail, since only their identity over rounds
matters. Step C's commands (`CreatePr`, `RemoveWorktree`, `DeleteBranch`), and
those a session issues of its own accord (`OwnCommand`), pass `Verdict` of
`CleanupGuard`, which sees the worktrees of this feature and perhaps of another,
from the project, from outside, or from inside the worktree, with or without a YAML
parser.

A rework may need another specification. In batch the classification gate decides: it
refuses, which ends the run (`ReviewGateAbort`, `Replan`'s `Stop`), or it agrees, and then
the transition back to create-spec runs (`ChangeSpec`, from `ReviewSpecChange` out of review
and from `Replan` out of verify). Its first two steps are one write: create-spec
`needs_update`, the plan, implement and review `pending`; verify stays as it is. The
`spec_change` record follows in a commit of its own (`RecordChange`), and the next
dispatch of create-spec uses it up before anything else (`ConsumeChange`). A
create-spec that is `needs_update` without an open record is what a person left
who aborted it, and stop condition 3 ends the run there (`Aborted`). Only
the changes out of review are numbered (`MaxChanges`), as only they have no
counter in the code.

`Capped` (what develop calls the cap) and `cap_reached` (what the hook calls it) are
separate definitions, as they are separate texts: the one asks about the items that
fail now, the other about any item that ever failed.

## 3. The runs

| run | shows | bounds and why they are enough |
|---|---|---|
| `queue` | `TypeOK`, `InFlightMatches`, `OneImplementer`, `FailedBlamesItsLaunch`, `DoneIsLanded`, `GoneIsTerminal`, `LifecycleSpec` with unindexed launches, missing prompts, lost stop events and launches that never start | 2 tasks, 3 launches, 4 lines per task: launch, failure, relaunch, late failure; `MCTaskQueueFaults.cfg`, kept beside the runs, checks `LifecycleSpec` under all nine faults at once on 1 task, and `Refinement` proves it |
| `ref` | `ReportedIsKept`, `CheckedOutIsMerged`, `RefNeverLoses`, `MergeEnds` for all three call forms with an undisturbed refresh, with implementers who leave their task branches, and with git's real order in the refresh | 2 tasks that conflict, one of them touching artifact paths only, 1 document, nothing new after 3 commits: a merge before and one after the capture, and the retry, fit |
| `lock` | `ProvedHolder`, `Serialized`, `MergesOnce`, `EndedLeavesNoHolder` with dying holders and reused pids | 2 runs of one feature, 2 pids and 5 starts: both pids are reused after a holder, by other processes too |
| `recovery` | `RecoveredIsGone`, `OrphanRecovered`, with live sessions that write their transcripts in every tick | 2 sessions one after the other, 2 launches, 3 ticks, under lost ends, missing and late entries and brisk relaunches; 3 overlapping sessions for 2 ticks: a dead one, one that judges it, one that recovers and relaunches meanwhile |
| `loop` | `BooksMatchJournal`, `WorkLeftIsCapped`, `NoAutomaticRetry`, `TurnEnds`, `FailureIsAsked` with missed commits and dead sessions, or with a silent hook and an unwritable sidecar | 3 tasks in 2 slots, so that one waits; 6 lines: launch, failure, reset, relaunch of two tasks; one block before the cap |
| `tty_reaper` | `OnlyStuckSignalled`, `StuckIsEnded` | 5 pids: init, anchor, hook and 2 more; 2 clock ticks, 1 fork and 2 changes at any step: a parent exits and its pid is given out again. Both exceptions of the first property occur within these bounds; it also holds with one change more |
| `merge_run` | `MergedIsVerified`, `ResultIsTrue`, `RepeatsMergeOnce`, `RunEnds` on both routes | 2 invocations, each of the events of the environment once, one redo: every gap between two steps is met by every event, and by pairs of different ones |
| `review_round` | `CoverageIsExact` | 3 files that fit in one shard, overfill it or are too large alone, 2 perspectives with 2 dispatches each (so that a third shard exceeds the cap), one fix of one file |
| `planning` | `StartedIsKept`, `UnverifiedIsNotCommitted`, `ScenariosSurvive`, `CompletedIsApplied`, `PassEnds` | 3 task ids, 3 passes, 1 crash, 1 spec change: every pass after every other, a crash in each |
| `develop_run` | `CountedIsBounded`, `FailedRunIsKept`, `OnlyVerifiedLands`, `BatchTurnEnds`, `CapIsCleanedUp`, `AbortIsKept` | 3 items (so that the hard cap is met without a repeated item), 2 launches in 3 modes, 1 crash, 1 mend, 1 own command, one of these three at a time; one round asked for by a person, one change of the specification that batch makes out of review (those out of verify are bounded by its rounds) |
| `ref_reset_rewinds` | violation, section 5 | |
| `recovery_idle` | violation of `JudgedGoneIsGone`, section 5 | |

Bounds that stop new work (`MaxEvents`, `MaxCommits`, `MaxStart`, `MaxClock`,
`MaxLines`, `MaxLaunches` and the like) are guards on the actions that start something
or on events of the environment, never on those that finish something, so no liveness
property holds or fails because of them. Where such a bound makes the system
stop, the configuration says `CHECK_DEADLOCK FALSE`; it may also stop by
itself, when a phase is done or waits for the user.

Every module with variables states `TypeOK`, and TLC finds it to hold on the instance of each
passing run; it is listed once, for `queue`,
and proved for every module with a proof module.

Some properties in words:

- `InFlightMatches`: the last line of the task of a live implementer is that
  implementer's own. It is what makes the guard's reading of the last event right.
- `FailedBlamesItsLaunch`: a `failed` line of a stop hook stands right behind the
  `launched` line of the very launch that stopped.
- `GoneIsTerminal`: a stop that can be attributed, by its payload or by the index,
  ends its launch's being in flight. Stops nobody can attribute are left to orphan
  recovery.
- `RefNeverLoses`: the branch keeps every commit, and its tree every task's work
  and every document. Only when the tip was not captured first may a commit take back
  work that touches artifact paths alone; the check of the staged paths keeps the rest.
- `ProvedHolder`: whatever record a run has read, however long ago, if its process
  passes the probe, that process has the flock now.
- `RecoveredIsGone`: no recovery ends a launch that runs, except the `orphaned`
  chain when a third session has recovered the task and launched it again.
- `OrphanRecovered`: an implementer that died with its session, with an index entry
  of its own, does not stay in flight under a session that started later.
- `BooksMatchJournal`: a task that is `pending` with a failure behind it was decided
  about, its record names a `failed` line of its own, and what is in progress was
  launched since its last reset.
- `NoAutomaticRetry`: no task is launched whose failure nobody has decided about,
  neither by the selection nor because the Stop hook asked for it. A `pending` task
  with a `failed` last event may have been reset by a decision or may have missed
  its commit; the recorded line number tells the two apart, in the code of both.
- `WorkLeftIsCapped` excuses a hook that fails open, `TurnEnds` a sidecar that
  cannot be written, `FailureIsAsked` a session that died or missed its commit.
- `OnlyStuckSignalled`: what is signalled was a terminal-bound descendant of the
  anchor when the hook began to read the process table, never the hook or what it runs
  under, and SIGKILL goes only where SIGTERM went. The exceptions are in the
  code's nature: a pid on the recorded way from the target up to the anchor, the
  target's own included, that was given out again while the table was being read;
  and a process the hook never read, started with the pid of one it has read within
  the same clock tick.
- `MergedIsVerified`: whatever a run takes into the base by its own command was
  verified, with CI on the pull request route, together with the base of its last base
  check; and a result without a note is about judged commits only.
- `RepeatsMergeOnce`: a feature nobody else touches is merged once, however often its
  runs die and are repeated. A merge GitHub only queued is excepted (section 5).
- `CoverageIsExact`: a file is reported as unreviewed for a perspective exactly when
  no completed reviewer of it has read the file as it is now.
- `FailedRunIsKept`: neither a run nor a command takes the worktree away while a step
  is failed, unless verify failed at the cap and the rest is done. Excused are what a
  person allowed, a hook without its parser, and a workflow mended by hand (section
  5).
- `CountedIsBounded` bounds what the code counts: infra resumes, reworks after
  a failed verify (changes of the specification among them), the review rework. A
  change of the specification out of review is not counted, and nothing bounds it (section 5).
- `BatchTurnEnds`: a batch turn ends unless the specification is changed again out
  of review; between two such changes it always gets on.
- `CapIsCleanedUp`: a batch turn that meets the cap, without `--once`, `--pr` or a crash,
  ends with the worktree removed unless it holds untracked files: the hook does not
  stop the run's own cleanup.
- `AbortIsKept`: no run enters create-spec on its own after a person aborted it,
  however often the specification was changed before and whatever a crash left.

### Fairness

- `TaskQueue`: a hook process that was started runs to its end, and so does the
  helper. Nothing is assumed of agents or the orchestrator.
- `IntegrationRef`: a script goes on while the lock lets it (WF); a waiter for whom
  the lock is free again and again gets it (SF), as the kernel queues the
  waiters of a flock. Nothing is assumed of the orchestrator's own steps.
- `OrphanRecovery`: the reconcile step of a live session comes again while the
  task is a candidate, as every entry into the phase has one; a started script ends.
- `LaunchLoop`: a turn goes on to its end, the harness wakes the session when a
  notification waits, implementers end. Nothing is assumed of the user, and nothing
  of what the orchestrator launches or ignores.
- `TtyReaper`: the hook goes on. Its waits are bounded by deadlines.
- `MergeRun`: a started run goes on, and time passes for a CI wait.
- `Planning`: the orchestrator and a dispatched worker go on.
- `DevelopRun`: the steps of a batch run, as nobody has to answer. Nothing is assumed
  of interactive runs, launches or people.
- `MergeLock` and `ReviewRound` are checked for safety only, without fairness.

## 4. What is proved

For all values of the constants, from the named assumptions in the modules only:
any number of tasks, sessions, runs, commits, passes, files, processes and crashes, under every fault
the module admits except where the last column says what must hold. Each
model's type invariant is proved too (`Typing`, `RoundTyping`, `ReaperTyping`; in
`MergeLock_proofs` a part of `Proved`), and that its invariant is inductive. Eight proof
modules hold the theorems: those of `ReviewRound` are in `DevelopRun_proofs`, those of
`TtyReaper` in `OrphanRecovery_proofs`. With these, every invariant and every action
property of a passing run is a theorem.

| module, theorem | says | needs |
|---|---|---|
| `TaskQueue`, `Refinement` | `LifecycleSpec`: the journal implements `TaskLifecycle` | - |
| `TaskQueue`, `Safety` | `InFlightMatches`, `OneImplementer`, `FailedBlamesItsLaunch`, `DoneIsMerged`, `DoneIsLanded` | `Orderly`: none of "open", "both", "stopdead", "shared", "late" |
| `MergeLock`, `Proved` | `TypeOK` and `ProvedHolder` | - |
| `MergeLock`, `SerializedRuns` | `Serialized`, `MergesOnce`, `EndedLeavesNoHolder` | no holder ends by itself after its run was told `held` |
| `IntegrationRef`, `Kept` | `ReportedIsKept` | - |
| `IntegrationRef`, `AllCheckedOut` | `CheckedOutIsMerged` | - |
| `IntegrationRef`, `NoLostUpdate` | `RefNeverLoses` | - (the property itself is about an undisturbed refresh) |
| `OrphanRecovery`, `Recovered` | `RecoveredIsGone` | `NoRest`: live sessions' transcripts are written in every tick; and `Spaced`: where sessions overlap, an index entry is as old as its launch, and the next launch comes later than the tolerance |
| `LaunchLoop`, `Matches` | `BooksMatchJournal` | - |
| `LaunchLoop`, `Capped` | `WorkLeftIsCapped` | - |
| `LaunchLoop`, `Decided` | `NoAutomaticRetry` | - |
| `MergeRun`, `Truth` | `ResultIsTrue` | `OnBase`: the main working tree stays on the base branch after its check |
| `MergeRun`, `VerifiedMerges` | `MergedIsVerified` | `OnBase`, and `Uninterrupted`: no commit falls between a conflict's resolution and the reading of its name |
| `MergeRun`, `MergedOnceAlone` | `RepeatsMergeOnce` | - |
| `Planning`, `Kept` | `StartedIsKept` | - |
| `Planning`, `OnlyVerified` | `UnverifiedIsNotCommitted` | - |
| `Planning`, `CompletedOverWritten` | `CompletedIsApplied` | - |
| `Planning`, `ScenariosKept` | `ScenariosSurvive` | - |
| `DevelopRun`, `Bounded` | `CountedIsBounded` | - |
| `DevelopRun`, `VerifiedLands` | `OnlyVerifiedLands` | - |
| `DevelopRun`, `Kept` | `FailedRunIsKept` | - |
| `ReviewRound`, `Coverage` | `CoverageIsExact` | - |
| `ReviewScripts`, `ShardsPartition` | every split puts each file into exactly one shard, for any sizes and limit | - |
| `TtyReaper`, `OnlyStuck` | `OnlyStuckSignalled` | - |

Each hypothesis is met by the instance of the passing run that checks the property;
section 5 has what happens without it.

*TaskQueue, Refinement.* Each action of `TaskQueue` is an action of `TaskLifecycle` on
the events of the journal, or a stutter; the lemmas `EventsAppend`, `StatusMap` and
`RecordMap` carry one `Append` through the refinement mapping. The decision in
`Journal` a writer takes under the lock is exactly the guard of the abstract
action, which is why no fault of the environment matters.

*TaskQueue, Safety.* None of the five is inductive. The inductive invariant `IInv` adds

- `LiveOwns`: a launch that is *live* (allowed, running, or with a stop hook still
  at work) owns the last line of its task, and no other launch of that task is live;
- `Phases`: what hook may be at work for a launch in which state;
- `IndexSound`: an index entry with a launch's identifier is of the launch's task,
  so that a resolution that succeeds is right (`StopResolution`);
- `PendQuiet`, `DoneQuiet`: no launch is live for a task the helper is asked about,
  or that is booked as merged.

The point of the argument is `LiveOwns`: the guard denies a launch while the last
event is `launched` or `merged`, so it can only admit one after the previous
launch's own `failed`; and the orchestrator does not call it while a
hook of the last stop is at work. Take the second half away ("late", "both",
"stopdead") and a stop hook meets a line that is not its launch's.

*MergeLock.* `IInv` of `MergeLock_proofs`: the flock belongs to the process past it
(`LockOwned`), start times grow (`BornLater`), and every record, in the file or read
by a run, is `Traced`: if a process with its pid and start time is in the table,
it is the holder that wrote it, holding or a zombie. `BornLater` is what keeps a
reused pid from passing for it.

`SerializedRuns` adds `OwnLock` (a run past `held` has the lock through its
holder), `NothingYet` (its feature is unmerged once it was judged again under the
lock) and `StopsItsOwn` (before its holder is started, and after its end, a run has
no process).

*IntegrationRef.* `LockOwned` says which script is past the lock, and that there is
one; `AllNumbered` that every commit in sight was made, so that a new one differs from
all. The heart, `AtomicInv`, compares three values of the branch by their ancestors:
the tip that was captured, the commit the document was edited on, the branch
now. `CapturedInOrder` says they come in this order; a commit that is not stale has
the first equal to the last, hence all three, and takes nothing back. `SwapIsAhead`
says the same of the commit a merge is about to swap in. Where the tip was not captured
first, `StagedOutside` has seen every item the index would take back outside the
artifact paths. `DueKept` follows what was checked out into the value the merge will set. `ReportedIsKept` of documents needs none of this (`DocsKept`), and
holds through git's real refresh too.

*OrphanRecovery.* `Clocked` orders clocks, launches and index entries, `Owned` says
which session's implementer a line is about, `Scripts` what the evidence a running
script carries has to do with the files it was read from. A session that is judged gone
was silent past the bound, and one that writes in every tick is not; it never comes
back. What is left is the gap between the judgment and the append. The chain with
evidence compares the launch's time, so the last `launched` line must be the one it
read: `Dated` says two launches are never within the tolerance of each other. The chain
without evidence relies on `Owned`: the line is the judged session's, the
reader's own, whose implementers it has counted, or a third one's.

*LaunchLoop.* `UndecidedFailed` and `PickedIsDecided` carry the decision of the user
to the launch: a failure nobody decided about stays visible to the selection, in the
status or in the record's line number, until it is decided, through missed commits and
lost sessions; `picked` and what the Stop hook orders come from the same test.
`RunningIsInFlight` and `InProgressWasLaunched` tie the books to the journal.

*MergeRun.* The property speaks of the end of a run of some fifteen calls, so
`IInv` says at each of them what is known: `Shape` has the values a call may find and
where each comes from, `Numbered` that no commit is in anything before it is made,
`CheckedOut` what the worktree may hold. `Backed` follows a claim of
"merged" to the base, `Verified` the combination from the integration over
verification, push and CI wait to the base check and the merge; every way back
(redo, moved head, new base) gives up what has changed since. The two windows are where this
chain is not atomic in the code. `Once` is about the runs of one feature: after the
first merge, what every later run can reach is the exit "already merged", or nothing new
to integrate.

*Planning.* `Keeps`, of the disk and of the last commit, has every launched task in the
plan with its id and, in flight or merged, its path. What makes it inductive is the
second half: where the plan is `pending`, or the implementation complete, the launched
tasks are all merged. The validator demands no carry-over for a plan that is `pending`
and whose tasks all are, and there nothing was ever launched (`AcceptedCarries`).
`Judged` says a patch on its way to the write was accepted for the very workflow it is
written over, also when a resume takes it up again. `Booked` is a second invariant, about
the phase state: it says "applied" only once the workflow the last write made is
committed, and an exit 4 in between takes the write and the record's moment back together. The
resume table asks the record only, and so completes a step over nothing else.

*DevelopRun.* Each counter has an invariant that relates its values on the disk and in
the last commit to what has run (`InfraCounted`, `VerifyCounted`, `ReviewCounted`): a crash
forgets at most the increment that was not committed. `Placed` says what the place of
the run implies about the steps, `RetrospectLast` that retrospect is over only after a
verify that passed or met the cap. From these `Kept` compares two texts: what develop
takes for the end at the cap, and what the cleanup guard does.

*Planning, scenarios.* `ScenariosSurvive` is about a list that a worker's pairs rewrite
one after the other. `Judged` says the patch was accepted for the list it is written over,
`Listing` that both are lists of ids. The pairs of one patch replace distinct scenarios, none of which is
itself a replacement, so the order in which they are applied does not matter, and the
recursive functions that apply them and take repeated ids out are followed by a least
counterexample over their argument. A list may name a scenario twice: nothing
in the code prevents it, so the property is about the scenarios listed, not about how often.

*ReviewRound.* `ShardsPartition` is about the script alone: were there a file that the
greedy packing had put into no shard or two, there would be a first one. `RoundInv` then
relates the rows to what reviewers have read: `PassesKnown` and `UnitsKnown` say that
what a pass dispatches is in its split and on its chain of harnesses, `RowsKnown` that a
recorded row is of a pass that was, `VersionsKnown` that a reviewer has read a file as it
is or was, and `RowsAreTrue` that the rows since a file's last change are its readers. `CoverageIsExact`
is the last of these, taken through what the script computes at the end.

*TtyReaper.* The table the hook works on was never the process table at any one time, and
what was read of the ancestors may have changed since. `Forest` says what the
kernel keeps: incarnations are distinct, and every parent is there. `Linked` and
`Descent` follow the walk up the hook's own parents: it stays on the recorded chain
until it leaves it for process 1, for good. So what the hook runs under is on the
chain, and `Spared` that nothing on the chain is signalled. For the target,
`Constant` says that an incarnation keeps its parent or goes to process 1, and that
it may only lose its terminal; `Own` and `Aged` that whoever holds a recorded pid is the
recorded one, or started later, or within the same tick. With `Chosen` and `Stuck`, a
target is what the table says, and it had a terminal; if every entry on its
way was there from the beginning, it climbed the same way in the table the hook began to read.

Four of these proofs changed the model. `MergedOnce` was not invariant where
GitHub only queues a merge (section 5); `PlanningAssumption` now asks for the two
task ids the initial plan has. The exceptions in `OnlyStuckSignalled` were incomplete:
a target whose own pid is given out again while the table is read needs one change more than
the run has, and is now among them, while the rest of the property says more than
before: it speaks of one moment, not of some time. And `WorkflowPatch` and
`ReviewScripts` apply swaps and pack shards by recursive functions where they used folds.

Model-checked only is liveness, which the prover cannot express: `GoneIsTerminal`,
`MergeEnds`, `OrphanRecovered`, `TurnEnds`, `FailureIsAsked`, `StuckIsEnded`, `RunEnds`,
`PassEnds`, `BatchTurnEnds`, `CapIsCleanedUp`. `AbortIsKept` is safety and checked only.

## 5. Where code and documents disagree

- **`ref_reset_rewinds`** (`RefNeverRewinds`). `implement-phase.md` says of the
  refresh that it "can never rewind" the branch. `git reset --hard branch` resolves
  the name, checks the tree out and then sets the branch to the resolved commit,
  without the merge lock: a `merge-task.sh` that lands in between is taken off the
  branch although it has reported success. The reconcile step's
  ancestor check finds such a task later.

- **`recovery_idle`** (`JudgedGoneIsGone`). The docstring of
  `recover-orphaned-task.py` (line 15) says the script decides whether the session
  that launched an implementer "is provably gone". What it compares (line 865) is the
  newest line of that session's transcript with the start of its own session. A
  session that has ended its turn and waits for background implementers writes
  nothing, so a session that starts later takes it for gone, fails the task and may
  relaunch it while the implementer runs. `RecoveredIsGone` is therefore checked and
  proved without this fault (`NoRest`) only.

Four more configurations end in a violation. They are kept beside the runs and
are not among them:

- `MCMergeRunResolve.cfg` (`NoUnjudgedCommit`): a commit that falls between the
  commit of a conflict resolution and the reading of its name is merged unjudged, and
  without a note.
- `MCMergeRunSwitch.cfg` (`ResultIsTrue`): if the main working tree leaves the base
  branch after the check, `git merge` merges somewhere else and the result says
  `merged`.
- `MCMergeRunRepeat.cfg` (`RepeatsConverge`): a run that died after its merge and
  its cleanup of the branch is repeated and reports a missing branch, not the merge;
  the skill's section on repeating a run promises the latter.
- `MCMergeRunQueue.cfg` (`MergedOnce`): a merge that GitHub only queued is not
  believed (`merge_failed`), and the run is repeated. If the queue merges after the
  second run has looked, that run integrates the merge commit of its own feature; when it
  then fails, the third run finds a branch with a commit that is not in the base, and
  opens a second pull request for it. The same section promises that repeated runs
  converge; it is the exception in `RepeatsMergeOnce`.

More behaviours outside the environments of the passing runs. They follow from the
models with the constants given and have no run of their own:

- *Two recorders for one stop* (`TaskQueue`, "both"): the nets decide by the
  task's last event, not by the launch the stop is about. With a retry between
  them, one stop leaves two `failed` lines, the second on the retry.
- *Shared identifier* (`TaskQueue`, "shared" with "noindex"): if two launches share
  an identifier and the entry of the second is missing, the match is unambiguous
  and names the first one's task.
- *Late index entries* (`TaskQueue`, "late"): two entries of one task in the wrong
  order make the later launch look superseded; its stop is not recorded.
- *Two-argument `commit-docs.sh`*: a merge between the refresh and the start of the
  script is not noticed; work that touches artifact paths only is taken back. This
  is the exception in `RefNeverLoses`.
- *Holder that dies after the last verify* (`MergeLock`, "lose"): a second run gets
  `held` while the first is merging.
- *Relaunch by another session* (`OrphanRecovery`, "concurrent", three sessions):
  reason `orphaned` carries no launch identity, so a relaunch by a third session
  between the judgment and the append is failed while it runs. It is the
  exception in `RecoveredIsGone`; the chain with evidence does not have it.
- *Clock tolerance* (`OrphanRecovery`, "late" or "brisk" with "concurrent"): an
  index entry of an earlier launch binds to a later one within the tolerance.
- *Unwritable sidecar* (`LaunchLoop`, "sidecar"): the counter stays at 1 and an
  orchestrator that ignores the block never ends its turn.
- *Re-arming* (`LaunchLoop`): the counter is compared with the last state that was
  written; a queue that leaves that state and comes back to it is counted on.
- The comment at `recover-orphaned-task.py:144` calls the index hook PreToolUse; it
  is PostToolUse, which is why a running launch may have no entry.
- The Stop hook does not notice a retry the user decided on that the orchestrator
  left out: the task is `failed` without a reset.

- *Old counts* (`DevelopRun`, with a crash, a mend and a second launch): the hook
  asks whether any item ever failed twice, develop whether one that fails now did. A
  batch run that met the cap, whose verify is then set back to pending by
  hand and fails on something new, looks to the hook like the end at the cap:
  its worktree may be removed although verify failed below the cap.
- *Rounds* (`DevelopRun`): `SKILL.md` calls `rounds` the rounds in which rework was
  done, with a hard cap of 3. It is incremented before the decision, so two reworks
  are done, as `CountedIsBounded` says. Interactive rounds are not counted.
- *Review rework* (`DevelopRun`): the counter is written after the patch; a crash in
  between lets the one automatic rework happen again. `CountedIsBounded` allows one
  per crash.
- *Uncounted way round* (`DevelopRun`): `review-phase.md` 1385-1389 increments
  `review_rework_count` where a patch was applied. In batch, a review whose rework needs
  another specification goes back to create-spec past that counter, and the review after it
  may do so again. Nothing in the documents bounds the loop; it is the exception in
  `BatchTurnEnds`, and `CountedIsBounded` is silent about it.
- *Change of the specification out of verify* (`DevelopRun`): the transition leaves
  verify `failed`. Below the cap the run makes the new specification, plans, implements and
  reviews, and then meets stop condition 3 at verify. A person has to mend it.
- *Change without its record* (`DevelopRun`): a crash between the statuses and the
  record leaves create-spec `needs_update` without a reason, which reads as a person's
  abort: every later launch stops there until a person mends it.
- *Stop below the cap* (`DevelopRun`): a verify that is left `failed` below the cap,
  by the planner's question or a person, stays so over any number of launches;
  stop condition 3 fires each time. The default Step C has for a failed verify in an
  interactive run is not reachable, as the exception is for batch only.
- *Where a command starts* (`CleanupGuard`): `gh pr create` is judged by its working
  directory alone, so from the main working tree it gets no decision; a branch
  whose worktree is gone gets none either.

## 6. What is not modelled

- Parsing and formats: JSON lines, YAML, payloads of hooks, prompts. A malformed
  file makes the nets and the Stop hook do nothing and the launch guard fail open,
  which are faults of the models.
- Several features at once: tasks of different features share no file. A task of
  `TaskQueue` may be read as one of any feature (the TaskStop recorder searches the
  indexes of all of them, and only the order of the entries of one task matters);
  the Stop hook looks at features in turn, `LaunchLoop` has one. There the code has
  a corner: a first feature over its cap lets the stop through, and the later ones
  are not looked at.
- Worktree creation, deviations, the approval gate: sequential bookkeeping of the
  orchestrator.
- Symbolic-ref checks of `merge-task.sh`.
- The first create-spec, design and the tier upgrade, and the question loops: conversations
  with a user or a second model. `Planning` takes the answers as choices. Of the
  classification gate the dialogue is left out; both its outcomes are actions of
  `DevelopRun`.
- `destructive-guard.py`, `cross-repo-write-guard.py`, `bash_guard.py`,
  `codex-hook-interactive-guard.py` and the statement parser of the cleanup guard:
  they decide about one shell text, without state. The schema checks of
  `validate-worker-output.py`, `scan-dependencies.py`, `check-plugin-invariants.py`:
  the same about documents. Together they are more than half of the implementation's
  lines. A model of them would spell out strings; what is right there is a matter of
  examples, and the repository's tests have them. This keeps the share of lines that
  are modelled low.
- `decide-tier.py`: a table of thresholds; its definition is its specification.
- Prompts: the environment of the models. `src/em-review` has copies of em-workflow's
  scripts.

## 7. Plan

Done, in this order: the queue, because everything else trusts the journal; the
integration branch, where work can be lost; the lock between sessions; recovery; the
launch loop; the merge of a feature; the reaper; review and planning; the develop
loop with its cleanup guard. What would add most next:

1. Abstract specifications with a refinement that is proved: a mutual exclusion that
   `MergeLock` implements, an append-only branch that `IntegrationRef` implements.
2. `MergeRun` composed with `MergeLock`, whose `Integrate` and `Merge` it details.
