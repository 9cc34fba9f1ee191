--------------------------- MODULE IntegrationRef ---------------------------
(***************************************************************************)
(* Who moves a feature's integration branch: merge-task.sh, run by the     *)
(* implementers in their own worktrees, and commit-docs.sh, run by the     *)
(* orchestrator in the integration worktree after a capture and a refresh. *)
(* Both scripts hold the flock of em-workflow-merge.lock around reading    *)
(* and moving the ref; the capture, the refresh (git reset --hard) and the *)
(* edits of the orchestrator are made without it.                          *)
(*                                                                         *)
(* A commit is [anc, tree]: the set of all commits it contains, itself     *)
(* included, as numbers in order of creation, and the items its tree       *)
(* holds: the work of tasks, and documents.                                *)
(***************************************************************************)
EXTENDS Integers, FiniteSets

CONSTANTS
    Task,       \* tasks; also the item that is a task's work
    CodeTask,   \* tasks whose work touches paths outside the artifact roots
    Conflict,   \* pairs {t, u} of tasks whose changes conflict textually
    Doc,        \* documents the orchestrator commits, one per commit
    Stray,      \* work committed in a task's worktree off its task branch
    Orch,       \* the orchestrator, as holder of the lock
    Free,       \* the lock is free
    NoDoc,      \* no document in work
    MaxCommits, \* bound: nothing new is started after that many commits
    Usage       \* the ways of use, one of them per run: [capture, refresh, leaves]

(***************************************************************************)
(* capture, the set of ways to obtain commit-docs.sh's third argument that *)
(* are in use: "first", from the branch ref before the refresh; "after",   *)
(* with rev-parse HEAD after it; "none", the two-argument form.            *)
(* refresh: "split" is git's own order: the branch name is resolved, the   *)
(* tree is checked out, and then the branch is set to the resolved commit. *)
(* "atomic" is the case that nothing moves the branch in between.          *)
(* leaves: whether implementers leave their task branch.                   *)
(***************************************************************************)
Mode == {"first", "after", "none"}

ASSUME UsageAssumption ==
    Usage \subseteq [capture : SUBSET Mode, refresh : {"atomic", "split"}, leaves : BOOLEAN]
ASSUME ItemAssumption == /\ CodeTask \subseteq Task
                         /\ Task \cap Doc = {} /\ NoDoc \notin Doc
                         /\ Stray \notin Task \cup Doc
ASSUME LockAssumption == {Orch, Free} \cap Task = {} /\ Orch # Free
ASSUME CommitAssumption == MaxCommits \in Nat

VARIABLES
    ref,        \* refs/heads/em-workflow/{feature}/integration
    made,       \* number of the last commit made
    lock,       \* holder of em-workflow-merge.lock
    tip,        \* task -> its task branch
    head,       \* task -> what its worktree has checked out
    side,       \* task -> the tip of that, where it is not the task branch
    mpc,        \* task -> merge-task.sh in its worktree
    par, new,   \* task -> the script's PARENT, and the value it will set
    opc,        \* orchestrator: step of the refresh/edit/commit sequence
    doc,        \* document it is committing
    mode,       \* how the third argument is obtained for it
    retried,    \* TRUE after an exit 4 for that document
    wt,         \* commit the integration worktree and index were built from
    expected,   \* third argument of commit-docs.sh
    before,     \* BEFORE_TIP
    reported,   \* items whose script call ended with exit 0
    due,        \* history: task -> what was checked out when it got the lock
    usage       \* how the scripts are used in this run

vars == <<ref, made, lock, tip, head, side, mpc, par, new, opc, doc, mode, retried,
          wt, expected, before, reported, due, usage>>
mergers == <<tip, head, side, mpc, par, new, due>>
docs    == <<opc, doc, mode, retried, wt, expected, before>>

Item   == Task \cup Doc \cup {Stray}
Commit == [anc : SUBSET Nat, tree : SUBSET Item]
Root   == [anc |-> {0}, tree |-> {}]

TypeOK ==
    /\ {ref, wt, expected, before} \subseteq Commit
    /\ made \in Nat
    /\ lock \in Task \cup {Orch, Free}
    /\ tip \in [Task -> Commit]
    /\ {side, par, new, due} \subseteq [Task -> Commit]
    /\ head \in [Task -> {"task", "other"}]
    /\ mpc \in [Task -> {"idle", "waiting", "locked", "swap", "append"}]
    /\ opc \in {"idle", "captured", "resetting", "refreshed", "edited",
                "waiting", "locked", "stopped"}
    /\ doc \in Doc \cup {NoDoc}
    /\ mode \in Mode
    /\ retried \in BOOLEAN
    /\ reported \subseteq Item
    /\ usage \in Usage

Init ==
    /\ ref = Root /\ wt = Root /\ expected = Root /\ before = Root
    /\ made = 0
    /\ lock = Free
    /\ tip = [t \in Task |-> Root]
    /\ side = tip /\ par = tip /\ new = tip /\ due = tip
    /\ head = [t \in Task |-> "task"]
    /\ mpc = [t \in Task |-> "idle"]
    /\ opc = "idle"
    /\ doc = NoDoc
    /\ mode = "first"
    /\ retried = FALSE
    /\ reported = {}
    /\ usage \in Usage

\* git merge-base --is-ancestor
IsAncestor(a, b) == a.anc \subseteq b.anc

\* A new commit with the given parents' history and the given tree.
NewCommit(anc, tree) == [anc |-> anc \cup {made + 1}, tree |-> tree]
Make == made' = made + 1

\* Bound on what is started; a script that was started is not stopped by it.
MayStart == made < MaxCommits

-----------------------------------------------------------------------------
(***************************************************************************)
(* The implementer in its worktree, at any time, also while a merge-task.sh*)
(* it started is waiting for the lock.                                     *)
(***************************************************************************)
\* A commit on the task branch; the first one adds the task's work.
AgentCommit(t) ==
    /\ head[t] = "task" /\ MayStart
    /\ Make
    /\ tip' = [tip EXCEPT ![t] = NewCommit(@.anc, @.tree \cup {t})]
    /\ UNCHANGED <<ref, lock, head, side, mpc, par, new, docs, reported, due, usage>>

\* After a conflict: the parent is merged into the task branch.
Incorporate(t) ==
    /\ head[t] = "task" /\ mpc[t] = "idle"
    /\ ~IsAncestor(ref, tip[t]) /\ MayStart
    /\ Make
    /\ tip' = [tip EXCEPT ![t] = NewCommit(@.anc \cup ref.anc, @.tree \cup ref.tree)]
    /\ UNCHANGED <<ref, lock, head, side, mpc, par, new, docs, reported, due, usage>>

\* HEAD is detached, or a branch is made where it is; or the worktree goes back.
\* (Once the script has read the task ref, HEAD plays no part any more.)
SwitchBranch(t) ==
    /\ usage.leaves /\ mpc[t] \in {"idle", "waiting", "locked"}
    /\ head' = [head EXCEPT ![t] = IF @ = "task" THEN "other" ELSE "task"]
    /\ side' = [side EXCEPT ![t] = IF head[t] = "task" THEN tip[t] ELSE Root]
    /\ UNCHANGED <<ref, made, lock, tip, mpc, par, new, docs, reported, due, usage>>

\* A commit off the task branch (bound: one per switch, and only while a script needs HEAD).
StrayCommit(t) ==
    /\ head[t] = "other" /\ mpc[t] \in {"waiting", "locked"} /\ MayStart /\ Stray \notin side[t].tree
    /\ Make
    /\ side' = [side EXCEPT ![t] = NewCommit(@.anc, @.tree \cup {Stray})]
    /\ UNCHANGED <<ref, lock, tip, head, mpc, par, new, docs, reported, due, usage>>

CheckedOut(t) == IF head[t] = "task" THEN tip[t] ELSE side[t]

-----------------------------------------------------------------------------
(***************************************************************************)
(* merge-task.sh.  Every exit, by error or by death, frees the lock; what  *)
(* the script kept in variables is gone with it.                           *)
(***************************************************************************)
\* Bug: a script that fails keeps the lock.
Exit_KeepsLock(t) ==
    /\ mpc' = [mpc EXCEPT ![t] = "idle"]
    /\ par' = [par EXCEPT ![t] = Root]
    /\ new' = [new EXCEPT ![t] = Root]
    /\ due' = [due EXCEPT ![t] = Root]
    /\ UNCHANGED lock

Exit(t) ==
    /\ mpc' = [mpc EXCEPT ![t] = "idle"]
    /\ lock' = IF lock = t THEN Free ELSE lock
    /\ par' = [par EXCEPT ![t] = Root]
    /\ new' = [new EXCEPT ![t] = Root]
    /\ due' = [due EXCEPT ![t] = Root]

\* The identity binding before the lock: HEAD is the task branch.
MergeStart(t) ==
    /\ mpc[t] = "idle" /\ head[t] = "task" /\ MayStart
    /\ mpc' = [mpc EXCEPT ![t] = "waiting"]
    /\ UNCHANGED <<ref, made, lock, tip, head, side, par, new, docs, reported, due, usage>>

TakeLock(t) ==
    /\ lock' = t
    /\ mpc' = [mpc EXCEPT ![t] = "locked"]
    /\ due' = [due EXCEPT ![t] = CheckedOut(t)]
    /\ UNCHANGED <<par, new>>

\* Bug: HEAD is not looked at again after the wait.
MergeLock_Once(t) ==
    /\ mpc[t] = "waiting" /\ lock = Free
    /\ TakeLock(t)
    /\ UNCHANGED <<ref, made, tip, head, side, docs, reported, usage>>

\* flock, then the same question again.
MergeLock(t) ==
    /\ mpc[t] = "waiting" /\ lock = Free
    /\ IF head[t] = "task" THEN TakeLock(t) ELSE Exit(t)
    /\ UNCHANGED <<ref, made, tip, head, side, docs, reported, usage>>

\* git merge-tree: some task on each side alone conflicts with the other.
Conflicts(a, b) ==
    \E t \in a.tree \ b.tree, u \in b.tree \ a.tree : {t, u} \in Conflict

\* Bug: whatever HEAD has checked out is merged.
MergeSource_Head(t) == CheckedOut(t)

\* The commit merged is the tip of the exact task ref, whatever HEAD is.
MergeSource(t) == tip[t]

\* The value the ref gets: the parent itself when it already contains us, our
\* tip when it is ahead of the parent, else a merge commit of both.
Merged(src) ==
    CASE IsAncestor(src, ref) -> ref
      [] IsAncestor(ref, src) /\ ~IsAncestor(src, ref) -> src
      [] OTHER -> NewCommit(src.anc \cup ref.anc, src.tree \cup ref.tree)

NeedsCommit(src) == ~IsAncestor(src, ref) /\ ~IsAncestor(ref, src)

\* Both refs are read once; everything else follows from the two values.
MergeDecide(t) ==
    /\ mpc[t] = "locked"
    /\ LET src == MergeSource(t) IN
       /\ ~(NeedsCommit(src) /\ Conflicts(src, ref))
       /\ IF NeedsCommit(src) THEN Make ELSE UNCHANGED made
       /\ new' = [new EXCEPT ![t] = Merged(src)]
    /\ par' = [par EXCEPT ![t] = ref]
    /\ mpc' = [mpc EXCEPT ![t] = "swap"]
    /\ UNCHANGED <<ref, lock, tip, head, side, docs, reported, due, usage>>

\* Exit 1.
MergeConflict(t) ==
    /\ mpc[t] = "locked"
    /\ LET src == MergeSource(t) IN NeedsCommit(src) /\ Conflicts(src, ref)
    /\ Exit(t)
    /\ UNCHANGED <<ref, made, tip, head, side, docs, reported, usage>>

\* git update-ref with the old value: compare and swap, or exit 2.
MergeSwap(t) ==
    /\ mpc[t] = "swap"
    /\ IF ref = par[t]
         THEN /\ ref' = new[t]
              /\ mpc' = [mpc EXCEPT ![t] = "append"]
              /\ UNCHANGED <<lock, par, new, due>>
         ELSE Exit(t) /\ UNCHANGED ref
    /\ UNCHANGED <<made, tip, head, side, docs, reported, usage>>

\* append_merged_event, exit 0.
MergeAppend(t) ==
    /\ mpc[t] = "append"
    /\ reported' = reported \cup (new[t].tree \cap {t})
    /\ Exit(t)
    /\ UNCHANGED <<ref, made, tip, head, side, docs, usage>>

\* A dirty worktree, a git failure, or the implementer stopped.
MergeDies(t) ==
    /\ mpc[t] # "idle"
    /\ Exit(t)
    /\ UNCHANGED <<ref, made, tip, head, side, docs, reported, usage>>

-----------------------------------------------------------------------------
(***************************************************************************)
(* The orchestrator's sequence for one document.  The retry after an exit 4 *)
(* captures first, whatever the call site does.                            *)
(***************************************************************************)
\* A document is taken up, or the one whose commit was refused as stale.
TakeUp ==
    /\ opc = "idle" /\ (MayStart \/ retried)
    /\ \E d \in Doc \ reported : doc' = IF retried THEN doc ELSE d
    /\ opc' = "captured"
    /\ UNCHANGED <<ref, made, lock, mergers, retried, wt, before, reported,
                   usage>>

CaptureTip ==
    /\ TakeUp
    /\ retried \/ "first" \in usage.capture
    /\ mode' = "first"
    /\ expected' = ref

SkipCapture ==
    /\ TakeUp
    /\ ~retried
    /\ mode' \in usage.capture \ {"first"}
    /\ UNCHANGED expected

\* git reset --hard {branch}: worktree and index from the resolved commit.
RefreshWorktree ==
    /\ opc = "captured"
    /\ wt' = ref
    /\ opc' = IF usage.refresh = "atomic" THEN "refreshed" ELSE "resetting"
    /\ UNCHANGED <<ref, made, lock, mergers, doc, mode, retried, expected,
                   before, reported, usage>>

\* Its last act sets the checked-out branch to that commit.
RefreshMovesRef ==
    /\ opc = "resetting"
    /\ ref' = wt
    /\ opc' = "refreshed"
    /\ UNCHANGED <<made, lock, mergers, doc, mode, retried, wt, expected,
                   before, reported, usage>>

\* The edit, and the capture with rev-parse HEAD where it comes this late.
WriteDoc ==
    /\ opc = "refreshed"
    /\ expected' = IF mode = "after" THEN ref ELSE expected
    /\ opc' = "edited"
    /\ UNCHANGED <<ref, made, lock, mergers, doc, mode, retried, wt,
                   before, reported, usage>>

\* commit-docs.sh is called and reads BEFORE_TIP.
CommitStart ==
    /\ opc = "edited"
    /\ before' = ref
    /\ opc' = "waiting"
    /\ UNCHANGED <<ref, made, lock, mergers, doc, mode, retried, wt,
                   expected, reported, usage>>

CommitLock ==
    /\ opc = "waiting" /\ lock = Free
    /\ lock' = Orch
    /\ opc' = "locked"
    /\ UNCHANGED <<ref, made, mergers, doc, mode, retried, wt, expected,
                   before, reported, usage>>

\* Bug: the tip is not compared.
Stale_Unchecked == FALSE

\* The staleness check under the lock.
Stale == IF mode = "none" THEN before # ref ELSE expected # ref

\* Bug: what is staged is not looked at.
StagedOutside_Unchecked == FALSE

\* A staged path outside the artifact roots: the index differs from HEAD in
\* the work of a task that touches such paths.
StagedOutside == wt.tree \cap CodeTask # ref.tree \cap CodeTask

\* commit-docs.sh ends; what was captured and checked out is not used again.
CommitEnds ==
    /\ lock' = Free
    /\ mode' = "first" /\ wt' = Root /\ expected' = Root /\ before' = Root

\* Exit 4: once recovered by a new capture, refresh and edit, then the phase
\* stops.
CommitStale ==
    /\ opc = "locked" /\ Stale
    /\ CommitEnds
    /\ opc' = IF retried THEN "stopped" ELSE "idle"
    /\ retried' = TRUE
    /\ UNCHANGED <<ref, made, mergers, doc, reported, usage>>

\* Exit 3.
CommitRefused ==
    /\ opc = "locked" /\ ~Stale /\ StagedOutside
    /\ CommitEnds
    /\ opc' = "stopped"
    /\ UNCHANGED <<ref, made, mergers, doc, retried, reported, usage>>

\* Exit 0, with a commit of the index on top of whatever HEAD is, or without
\* one when nothing is staged.
CommitDocs ==
    /\ opc = "locked" /\ ~Stale /\ ~StagedOutside
    /\ LET staged == wt.tree \cup {doc} IN
       IF staged = ref.tree
         THEN UNCHANGED <<ref, made>>
         ELSE Make /\ ref' = NewCommit(ref.anc, staged)
    /\ reported' = reported \cup {doc}
    /\ CommitEnds
    /\ opc' = "idle" /\ doc' = NoDoc /\ retried' = FALSE
    /\ UNCHANGED <<mergers, usage>>

\* The session dies; the next one starts the sequence anew.
OrchDies ==
    /\ opc # "idle"
    /\ lock' = IF lock = Orch THEN Free ELSE lock
    /\ opc' = "idle" /\ doc' = NoDoc /\ retried' = FALSE
    /\ mode' = "first" /\ wt' = Root /\ expected' = Root /\ before' = Root
    /\ UNCHANGED <<ref, made, mergers, reported, usage>>

-----------------------------------------------------------------------------
MergeScript(t) ==
    \/ MergeLock(t) \/ MergeDecide(t) \/ MergeConflict(t)
    \/ MergeSwap(t) \/ MergeAppend(t)

CommitScript ==
    \/ CommitLock \/ CommitStale \/ CommitRefused \/ CommitDocs

Next ==
    \/ \E t \in Task : \/ AgentCommit(t) \/ Incorporate(t) \/ SwitchBranch(t)
                       \/ StrayCommit(t) \/ MergeStart(t) \/ MergeScript(t) \/ MergeDies(t)
    \/ CaptureTip \/ SkipCapture \/ RefreshWorktree \/ RefreshMovesRef
    \/ WriteDoc \/ CommitStart \/ CommitScript \/ OrchDies

Spec == Init /\ [][Next]_vars

(***************************************************************************)
(* A script that was started runs on while the lock lets it, and a waiter  *)
(* the lock was free for again and again gets it in the end: the kernel    *)
(* queues the waiters of a flock.                                          *)
(***************************************************************************)
FairSpec ==
    /\ Spec
    /\ \A t \in Task : SF_vars(MergeLock(t))
                       /\ WF_vars(MergeDecide(t) \/ MergeConflict(t)
                                  \/ MergeSwap(t) \/ MergeAppend(t))
    /\ SF_vars(CommitLock)
    /\ WF_vars(CommitStale \/ CommitRefused \/ CommitDocs)

-----------------------------------------------------------------------------
\* Work the call sites without an early capture do not protect: that of a task
\* which touches artifact paths only.
Exposed == IF usage.capture = {"first"} THEN {} ELSE Task \ CodeTask

\* Safety.  No update is lost: the branch keeps every commit it ever contained,
\* and its tree keeps every task's work and every document, except that a
\* commit whose tip was not captured first may take exposed work back.
RefNeverLoses ==
    [][usage.refresh = "atomic" =>
           /\ IsAncestor(ref, ref')
           /\ ref.tree \ ref'.tree \subseteq
                  IF mode = "first" THEN {} ELSE Exposed]_vars

\* Safety.  The branch itself is never set back.
RefNeverRewinds == [][IsAncestor(ref, ref')]_vars

\* Safety.  Whatever a script reported with exit 0 is on the branch; documents
\* also when git reset --hard sets the branch back, by which only merges can be
\* lost.
ReportedIsKept ==
    /\ usage.refresh = "atomic" => reported \ Exposed \subseteq ref.tree
    /\ reported \cap Doc \subseteq ref.tree

\* A merge that succeeds has put on the branch all that the task's worktree had
\* checked out when its merge-task.sh got the lock, commits made during the wait
\* included, and no commit that was made off the task branch.
CheckedOutIsMerged ==
    [][\A t \in Task : mpc[t] = "swap" /\ mpc'[t] = "append" =>
           /\ due[t].anc \subseteq ref'.anc
           /\ Stray \notin ref'.tree]_vars

\* Liveness.  A merge-task.sh that waits for the lock ends, one way or another.
MergeEnds == \A t \in Task : []<>(mpc[t] = "idle")
=============================================================================
