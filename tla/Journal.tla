------------------------------ MODULE Journal ------------------------------
(***************************************************************************)
(* The decisions every writer of a feature's journal.jsonl takes.          *)
(*                                                                         *)
(* The file is one append-only log for all tasks of a feature, but every   *)
(* writer replays only the lines of its own task.  A journal is therefore  *)
(* modelled here as the sequence of the lines of ONE task; a component     *)
(* keeps one such sequence per task.  Each writer replays and appends      *)
(* inside one exclusive flock section of the file, so a component takes a  *)
(* whole decision in one step.                                             *)
(*                                                                         *)
(* A line carries its event; the models also attach the launch it is       *)
(* about, which the real lines do not carry.                               *)
(***************************************************************************)
EXTENDS Naturals, Sequences

Event == {"launched", "merged", "failed"}

\* last_event_for_task_fd: the last event of the task, "none" without one.
LastEvent(j) == IF j = <<>> THEN "none" ELSE j[Len(j)].event

\* Bug: the guard forgets that a task in flight is denied too.
LaunchAllowed_InFlight(j) == LastEvent(j) # "merged"

\* queue_launch_guard.py, hook_main: in flight and merged tasks are denied,
\* a first launch and a retry after `failed` are allowed.
LaunchAllowed(j) == LastEvent(j) \notin {"launched", "merged"}

\* Bug: a recorded merge is not treated as terminal.
NetAppends_OverMerged(j) == LastEvent(j) # "failed"

\* queue_failure_net.py and queue_taskstop_net.py: `failed` is appended
\* unless the task's last event is terminal, also when it has no event.
NetAppends(j) == LastEvent(j) \notin {"merged", "failed"}

\* journal-append-failed.py, reason merge-unverified.
UnverifiedAppends(j) == LastEvent(j) = "merged"

\* journal-append-failed.py, reason orphaned (no launch identity).
OrphanedAppends(j) == LastEvent(j) = "launched"

\* journal-append-failed.py, reason stale-launched: the last event must also
\* carry the very `at` the caller observed (compared as a string).
StaleLaunchedAppends(j, launchAt) ==
    /\ LastEvent(j) = "launched"
    /\ j[Len(j)].at = launchAt
=============================================================================
