---------------------------- MODULE CleanupGuard ----------------------------
(***************************************************************************)
(* failed-run-cleanup-guard.py: the PreToolUse hook that judges a Bash     *)
(* command which would take away what a failed run left behind.            *)
(*                                                                         *)
(* A command is the sequence of its statements of the three guarded        *)
(* shapes; finding them in the text (statements, head, classify) is left   *)
(* out.  A statement names a feature, or its operand is Dynamic (expanded  *)
(* only by the shell), or names Elsewhere (not an integration worktree).   *)
(* Sight is what one run of the hook can see: whether a YAML parser is     *)
(* there, where the command starts (in the worktree of a feature, else in  *)
(* the "project" or "outside" of it), and the readable workflow.yaml of    *)
(* every integration worktree.                                             *)
(***************************************************************************)
EXTENDS Naturals, Sequences

CONSTANTS Feature, Dynamic, Elsewhere, Unreadable

ASSUME OperandAssumption == Dynamic \notin Feature /\ Elsewhere \notin Feature /\ Dynamic # Elsewhere

Kind == {"worktree_remove", "branch_delete", "pr_create"}
Statement == [kind : Kind, operand : Feature \cup {Dynamic, Elsewhere}]

HARD_CAP_ROUNDS == 3
LINEAGE_CAP_COUNT == 2
EXCLUDED_NO_DECISION_KINDS == {"worktree_remove", "pr_create"}

FailedSteps(wf) == {s \in DOMAIN wf.status : wf.status[s] = "failed"}

\* Bug: the lineage cap is not known to the guard.
cap_reached_Rounds(wf) == wf.rounds >= HARD_CAP_ROUNDS

cap_reached(wf) ==
    \/ wf.rounds >= HARD_CAP_ROUNDS
    \/ \E i \in DOMAIN wf.counts : wf.counts[i] >= LINEAGE_CAP_COUNT

\* Verify failed at the cap, and everything else is done, retrospect included.
is_excluded_state(wf) ==
    /\ FailedSteps(wf) = {"verify"}
    /\ wf.status["retrospect"] = "completed"
    /\ \A s \in DOMAIN wf.status \ {"verify"} : wf.status[s] \in {"completed", "skipped"}
    /\ cap_reached(wf)

\* Of a worktree whose workflow.yaml can be read: does it hold a failed step?
Failed(wf) == wf # Unreadable /\ FailedSteps(wf) # {}

\* The feature a statement is about; Elsewhere when the guard has no say.  A
\* branch name carries no path: its worktree is looked for above the cwd.
Target(stmt, sight) ==
    CASE stmt.kind = "worktree_remove" -> stmt.operand
      [] stmt.kind = "branch_delete" ->
           IF stmt.operand = Dynamic \/ (sight.cwd # "outside" /\ stmt.operand \in DOMAIN sight.wf)
           THEN stmt.operand ELSE Elsewhere
      [] stmt.kind = "pr_create" ->
           IF sight.cwd \in Feature THEN sight.cwd ELSE Elsewhere

CountsAsFailed(kind, wf) ==
    Failed(wf) /\ (kind \in EXCLUDED_NO_DECISION_KINDS => ~is_excluded_state(wf))

\* Bug: no worktree in sight is taken for nothing failed.
any_failed_worktree_Empty(kind, sight) ==
    LET seen == IF sight.parser /\ sight.cwd # "outside" THEN DOMAIN sight.wf ELSE {}
    IN  \E f \in seen : CountsAsFailed(kind, sight.wf[f])

\* An operand that cannot be resolved stays suspect when some worktree counts
\* as failed, and when none can be looked at.
any_failed_worktree(kind, sight) ==
    LET seen == IF sight.parser /\ sight.cwd # "outside" THEN DOMAIN sight.wf ELSE {}
    IN  seen = {} \/ \E f \in seen : CountsAsFailed(kind, sight.wf[f])

Asks(stmt, sight) ==
    Target(stmt, sight) = Dynamic /\ any_failed_worktree(stmt.kind, sight)

Denies(stmt, sight) ==
    /\ sight.parser
    /\ Target(stmt, sight) \in DOMAIN sight.wf
    /\ CountsAsFailed(stmt.kind, sight.wf[Target(stmt, sight)])

\* The first statement with a decision decides for the whole command; nobody
\* can answer an ask of an unattended session.
Verdict(command, sight, unattended) ==
    LET judged == {i \in DOMAIN command : Asks(command[i], sight) \/ Denies(command[i], sight)}
        asked == \E i \in judged : /\ \A j \in judged : i <= j
                                   /\ Asks(command[i], sight)
    IN  IF judged = {} THEN "none" ELSE IF asked /\ ~unattended THEN "ask" ELSE "deny"
=============================================================================
