---------------------------- MODULE MergeScripts ----------------------------
(***************************************************************************)
(* What the scripts of an unattended merge answer, as operators on what    *)
(* they have read: merge-git.py, merge-pr.py and merge-ci-wait.py.  An     *)
(* answer is an outcome, or the reason of a stop.  A commit is the set of  *)
(* commits it has as ancestors, itself among them; a pull request is       *)
(* [state, draft, head].                                                   *)
(***************************************************************************)
EXTENDS Integers, Sequences, FiniteSets

\* Bug: the tips are compared, not their ancestry.
AlreadyMerged_SameTip(tip, base) == IF tip = base THEN "merged" ELSE "not_merged"

\* merged: the base contains the tip.
AlreadyMerged(tip, base) == IF tip \subseteq base THEN "merged" ELSE "not_merged"

\* worktree_state of the integration worktree.
WorktreeState(w) == IF w = "changed" THEN "worktree_not_clean" ELSE w

\* main-tree
MainTree(t) == IF t = "ready" THEN "ready" ELSE "main_tree_not_ready"

\* resolve: a merged pull request counts only when it merged tip; merged before open,
\* open before draft, draft before closed.
Resolve(prs, tip) ==
    LET Has(state, draft) == \E i \in DOMAIN prs : prs[i].state = state /\ prs[i].draft \in draft
    IN  IF \E i \in DOMAIN prs : prs[i].state = "merged" /\ prs[i].head = tip THEN "merged"
        ELSE IF Has("open", {FALSE})   THEN "open"
        ELSE IF Has("open", {TRUE})    THEN "pr_draft"
        ELSE IF Has("closed", BOOLEAN) THEN "pr_closed"
        ELSE "none"

\* The number of the pull request an `open` answer names: the newest of them.
NewestOpen(prs) ==
    LET open == {i \in DOMAIN prs : prs[i].state = "open" /\ ~prs[i].draft}
    IN  CHOOSE i \in open : \A j \in open : j =< i

\* state: the pull request right before the merge, against the verified head.
PrState(p, head, conflicting) ==
    IF p.state = "merged"      THEN IF p.head = head THEN "merged" ELSE "pr_head_moved"
    ELSE IF p.state = "closed" THEN "pr_closed"
    ELSE IF p.draft            THEN "pr_draft"
    ELSE IF conflicting        THEN "pr_conflicting"
    ELSE IF p.head # head      THEN "pr_head_moved"
    ELSE "ready"

\* classify, in wait: a failing check decides at once; that there is no check counts only
\* after the settle window.
CiAnswer(buckets, settled) ==
    IF buckets \cap {"fail", "cancel"} # {}        THEN "ci_failed"
    ELSE IF buckets = {}                           THEN IF settled THEN "no_checks" ELSE "again"
    ELSE IF buckets \subseteq {"pass", "skipping"} THEN "passed"
    ELSE "again"

\* base-check
BaseCheck(tip, integrated, redos, limit) ==
    IF tip = integrated     THEN "unchanged"
    ELSE IF redos >= limit  THEN "base_moving"
    ELSE "redo"
=============================================================================
