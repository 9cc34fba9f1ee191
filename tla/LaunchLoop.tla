----------------------------- MODULE LaunchLoop -----------------------------
(***************************************************************************)
(* The launch loop of the implement phase (references/implement-phase.md,   *)
(* Steps I.2.a to I.2.c) and the Stop hook that watches it                  *)
(* (hooks/queue_stop_guard.py).                                            *)
(*                                                                         *)
(* Two places say what a task is: the journal, which the hooks write when    *)
(* something happens, and workflow.yaml, which the orchestrator commits      *)
(* later or, when a commit fails, not at all.  A failed task that is        *)
(* `pending` in workflow.yaml may have been reset by a decision or may just  *)
(* have missed its commit; the physical journal line of the failure,         *)
(* recorded by the reset, tells the two apart.                               *)
(*                                                                         *)
(* The orchestrator is a language model: it may leave out any launch it      *)
(* selected, and it may ignore what the Stop hook asks for.                  *)
(***************************************************************************)
EXTENDS Integers, Sequences, FiniteSets, FiniteSetsExt

CONSTANTS Task,        \* task numbers
          Slots,       \* MAX_PARALLEL_IMPLEMENTERS
          MaxBlocks,   \* MAX_CONSECUTIVE_BLOCKS
          MaxLines,    \* bound on the journal
          FaultSets    \* the combinations of faults, one of them per run:
                       \* "commit": a launch-state or wake commit does not
                       \*   happen (interruption, second exit 4);
                       \* "die": the session dies;
                       \* "quiet": the Stop hook fails open;
                       \* "sidecar": its sidecar file cannot be written

ASSUME TaskAssumption == Task \subseteq Nat /\ IsFiniteSet(Task)
ASSUME BoundsAssumption == Slots \in Nat /\ MaxBlocks \in Nat /\ MaxLines \in Nat

VARIABLES
    pc,         \* where the orchestrator is in Step I.2
    journal,    \* the physical lines [task, event] of journal.jsonl
    status,     \* tasks.{T}.status in workflow.yaml
    record,     \* tasks.{T}.routeback_failed_journal_line, 0 for none
    picked,     \* the tasks of this entry into I.2.a
    mark,       \* the extent of the selection-time replay
    running,    \* tasks whose implementer runs
    woken,      \* a completion notification is waiting
    sidecar,    \* stop-guard-state.json: [unlaunched, inFlight, counter]
    undecided,  \* history: failed tasks nobody has decided about
    faults      \* what may go wrong in this run

vars == <<pc, journal, status, record, picked, mark, running, woken, sidecar,
          undecided, faults>>
books == <<status, record>>

PC == {"launch", "launching", "turn", "blocked", "stopped", "wake", "ask",
       "routed", "aborted", "done"}
Sidecar == [unlaunched : SUBSET Task, inFlight : SUBSET Task,
            counter : 0..MaxBlocks + 1]

TypeOK ==
    /\ pc \in PC
    /\ journal \in Seq([task : Task, event : {"launched", "merged", "failed"}])
    /\ Len(journal) <= MaxLines
    /\ status \in [Task -> {"pending", "in_progress", "merged", "failed"}]
    /\ record \in [Task -> 0..MaxLines]
    /\ picked \subseteq Task
    /\ mark \in 0..MaxLines
    /\ running \subseteq Task
    /\ woken \in BOOLEAN
    /\ sidecar \in Sidecar
    /\ undecided \subseteq Task
    /\ faults \in FaultSets

Init ==
    /\ pc = "launch"
    /\ journal = <<>>
    /\ status = [t \in Task |-> "pending"]
    /\ record = [t \in Task |-> 0]
    /\ picked = {}
    /\ mark = 0
    /\ running = {}
    /\ woken = FALSE
    /\ sidecar = [unlaunched |-> {}, inFlight |-> {}, counter |-> 0]
    /\ undecided = {}
    /\ faults \in FaultSets

----------------------------------------------------------------------------
(* What the journal and workflow.yaml say of a task *)

LinesOf(t) == {i \in DOMAIN journal : journal[i].task = t}

\* read_journal: the physical line of the task's last event, 0 without one.
LastLine(t) == Max(LinesOf(t) \cup {0})

LastEvent(t) == IF LastLine(t) = 0 THEN "none" ELSE journal[LastLine(t)].event

InFlight == {t \in Task : LastEvent(t) = "launched"}

\* The recycled-task-id carve-out: this very failure was reset to `pending`.
Reset(t) ==
    /\ LastEvent(t) = "failed"
    /\ status[t] = "pending"
    /\ record[t] = LastLine(t)

\* Step I.2.b step 1.
Failed == {t \in Task : LastEvent(t) = "failed" /\ ~Reset(t)}
Unlaunched == {t \in Task : LastEvent(t) = "none" \/ Reset(t)}

\* The lowest n members of a set of task numbers.
FirstOf(S, n) == {t \in S : Cardinality({u \in S : u < t}) < n}

\* Step I.2.a: what this entry launches.
Selection == FirstOf({t \in Unlaunched : status[t] # "merged"},
                     Slots - Cardinality(InFlight))

Log(event, t) == journal' = Append(journal, [task |-> t, event |-> event])

----------------------------------------------------------------------------
(* Step I.2.a: launch phase *)

\* A failed task sends the phase to I.2.c, once nothing is in flight.
AfterFailure == IF InFlight = {} THEN "ask" ELSE "turn"

Select ==
    /\ pc = "launch"
    /\ IF Failed # {} THEN pc' = AfterFailure /\ UNCHANGED <<picked, mark>>
       ELSE pc' = "launching" /\ picked' = Selection /\ mark' = Len(journal)
    /\ UNCHANGED <<journal, books, running, woken, sidecar, undecided, faults>>

\* Nothing of an entry is kept for a later one.
Forget == picked' = {} /\ mark' = 0

\* The tasks of T whose launch this entry has put in the journal.
LaunchedHere(T) ==
    {t \in T : \E i \in LinesOf(t) : i > mark /\ journal[i].event = "launched"}

\* A Task() call the launch guard lets through; a retry is let through too.
\* MaxLines leaves room for the end of every launch.
LaunchTask(t) ==
    /\ pc = "launching"
    /\ Len(journal) + Cardinality(InFlight) + 2 <= MaxLines
    /\ t \in picked \ LaunchedHere(picked)
    /\ LastEvent(t) \notin {"launched", "merged"}
    /\ Log("launched", t)
    /\ running' = running \cup {t}
    /\ UNCHANGED <<pc, books, picked, mark, woken, sidecar, undecided, faults>>

\* Bug: what was selected is written, confirmed by the journal or not.
WriteSet_Selected ==
    [t \in Task |-> IF t \in picked THEN "in_progress" ELSE status[t]]

\* The launch-state write set: the in_progress part and the failed part.
WriteSet ==
    [t \in Task |->
        IF t \in picked /\ LastEvent(t) = "launched" THEN "in_progress"
        ELSE IF t \in LaunchedHere(picked) /\ LastEvent(t) = "failed" THEN "failed"
        ELSE status[t]]

\* The launch-state commit ends the entry and the turn; with an interruption
\* or a second exit 4 the turn ends without it.
CommitLaunches ==
    /\ pc = "launching"
    /\ \/ status' = WriteSet
       \/ "commit" \in faults /\ status' = status
    /\ pc' = "turn"
    /\ Forget
    /\ UNCHANGED <<journal, record, running, woken, sidecar, undecided, faults>>

----------------------------------------------------------------------------
(* queue_stop_guard.py *)

\* Bug: the carve-out compares no record.
GuardReset_NoRecord(t) == LastEvent(t) = "failed" /\ status[t] = "pending"

\* Bug: there is no carve-out, a failed task is always failed.
GuardReset_Never(t) == FALSE

GuardReset(t) ==
    /\ LastEvent(t) = "failed"
    /\ status[t] = "pending"
    /\ record[t] = LastLine(t)

\* evaluate_feature: its own reading of both files.
GuardUnlaunched == {t \in Task : LastEvent(t) = "none" \/ GuardReset(t)}
GuardFailed == {t \in Task : LastEvent(t) = "failed" /\ ~GuardReset(t)}

ToLaunch == FirstOf(GuardUnlaunched, Slots - Cardinality(InFlight))

\* The feature has refillable work: no failed task, an unlaunched one, a slot.
Refillable == pc # "done" /\ GuardFailed = {} /\ ToLaunch # {}

SameState == sidecar.unlaunched = GuardUnlaunched /\ sidecar.inFlight = InFlight

\* Bug: the state is never recognised as the same.
Counter_Restarts == 1

\* The consecutive blocks in this derived state, counted to one past the cap.
Counter == IF SameState THEN Min({sidecar.counter + 1, MaxBlocks + 1}) ELSE 1

WriteSidecar ==
    \/ sidecar' = [unlaunched |-> GuardUnlaunched, inFlight |-> InFlight,
                   counter |-> Counter]
    \/ "sidecar" \in faults /\ sidecar' = sidecar

\* Nothing to report, or the hook fails open: the sidecar is left alone.
StopPasses ==
    /\ pc = "turn"
    /\ ~Refillable \/ "quiet" \in faults
    /\ pc' = "stopped"
    /\ UNCHANGED <<journal, books, picked, mark, running, woken, sidecar,
                   undecided, faults>>

StopOverCap ==
    /\ pc = "turn"
    /\ Refillable
    /\ Counter > MaxBlocks
    /\ WriteSidecar
    /\ pc' = "stopped"
    /\ UNCHANGED <<journal, books, picked, mark, running, woken,
                   undecided, faults>>

StopBlocked ==
    /\ pc = "turn"
    /\ Refillable
    /\ Counter <= MaxBlocks
    /\ WriteSidecar
    /\ picked' = ToLaunch
    /\ pc' = "blocked"
    /\ UNCHANGED <<journal, books, mark, running, woken, undecided, faults>>

\* The blocked orchestrator launches what the hook named, or stops again.
Obey ==
    /\ pc = "blocked"
    /\ pc' = "launching"
    /\ mark' = Len(journal)
    /\ UNCHANGED <<journal, books, picked, running, woken, sidecar,
                   undecided, faults>>

Ignore ==
    /\ pc = "blocked"
    /\ pc' = "turn"
    /\ Forget
    /\ UNCHANGED <<journal, books, running, woken, sidecar, undecided, faults>>

----------------------------------------------------------------------------
(* Implementers and sessions *)

\* An implementer ends; merge-task.sh or the failure net records how.
AgentEnds(t) ==
    /\ t \in running
    /\ \/ Log("merged", t) /\ undecided' = undecided
       \/ Log("failed", t) /\ undecided' = undecided \cup {t}
    /\ running' = running \ {t}
    /\ woken' = TRUE
    /\ UNCHANGED <<pc, books, picked, mark, sidecar, faults>>

\* The session dies with its implementers; the next one enters the phase.
SessionDies ==
    /\ "die" \in faults
    /\ pc \in {"launching", "turn", "blocked", "stopped", "wake", "ask"}
    /\ running' = {}
    /\ woken' = FALSE
    /\ pc' = "wake"
    /\ Forget
    /\ UNCHANGED <<journal, books, sidecar, undecided, faults>>

\* Orphan recovery, part of the reconcile of Step I.2.b step 1.
Recover(t) ==
    /\ pc = "wake"
    /\ LastEvent(t) = "launched" /\ t \notin running
    /\ Log("failed", t)
    /\ undecided' = undecided \cup {t}
    /\ UNCHANGED <<pc, books, picked, mark, running, woken, sidecar, faults>>

----------------------------------------------------------------------------
(* Step I.2.b: wake phase *)

WakeUp ==
    /\ pc = "stopped" /\ woken
    /\ pc' = "wake"
    /\ woken' = FALSE
    /\ UNCHANGED <<journal, books, picked, mark, running, sidecar,
                   undecided, faults>>

\* Bug: only how the last implementer ended is looked at.
AfterReconcile_LastOnly ==
    CASE \A t \in Task : LastEvent(t) = "merged" -> "done"
      [] Failed # {} -> IF journal[Len(journal)].event = "failed"
                        THEN AfterFailure ELSE "turn"
      [] OTHER -> "launch"

\* Step 5 and the entry of I.2.c.
AfterReconcile ==
    CASE \A t \in Task : LastEvent(t) = "merged" -> "done"
      [] Failed # {} -> AfterFailure
      [] OTHER -> "launch"

Reconcile ==
    /\ pc = "wake"
    /\ \/ /\ status' = [t \in Task |->
                 IF LastEvent(t) = "merged" THEN "merged"
                 ELSE IF t \in Failed THEN "failed" ELSE status[t]]
          /\ pc' = AfterReconcile
       \/ "commit" \in faults /\ status' = status /\ pc' = "turn"
    /\ UNCHANGED <<journal, record, picked, mark, running, woken, sidecar,
                   undecided, faults>>

----------------------------------------------------------------------------
(* Step I.2.c: failed handling, and the ways back from it *)

\* The user (in batch: the single retry) decides to run the tasks R again.
Retry(R) ==
    /\ pc = "ask"
    /\ R # {} /\ R \subseteq Failed /\ Cardinality(R) <= Slots
    /\ picked' = R
    /\ mark' = Len(journal)
    /\ undecided' = undecided \ R
    /\ pc' = "launching"
    /\ UNCHANGED <<journal, books, running, woken, sidecar, faults>>

\* What a route back resets: reconciled failed, or failed in workflow.yaml.
ResetSet == Failed \cup {t \in Task : status[t] = "failed"}

\* The gate of the route back.
Gate ==
    /\ \A t \in Task : status[t] \notin {"merged", "in_progress"}
    /\ \A t \in Task : LastEvent(t) \notin {"merged", "launched"}

\* The physical line of the task's last `failed` event, 0 without one.
FailedLine(t) == Max({i \in LinesOf(t) : journal[i].event = "failed"} \cup {0})

\* The tasks T go back to `pending`, and the failure each had is recorded.
PutBack(T) ==
    /\ status' = [t \in Task |-> IF t \in T THEN "pending" ELSE status[t]]
    /\ record' = [t \in Task |->
           IF t \in T /\ FailedLine(t) # 0 THEN FailedLine(t) ELSE record[t]]
    /\ undecided' = undecided \ T

RouteBack ==
    /\ pc = "ask"
    /\ IF Gate THEN PutBack(ResetSet) /\ pc' = "routed"
       ELSE pc' = "aborted" /\ UNCHANGED <<books, undecided>>
    /\ UNCHANGED <<journal, picked, mark, running, woken, sidecar, faults>>

Abort ==
    /\ pc = "ask"
    /\ pc' = "aborted"
    /\ UNCHANGED <<journal, books, picked, mark, running, woken, sidecar,
                   undecided, faults>>

\* After re-planning, which carries every record over, and after the batch
\* resumption of an abort, which touches no task, the phase is entered again.
Reenter ==
    /\ pc \in {"routed", "aborted"}
    /\ pc' = "wake"
    /\ UNCHANGED <<journal, books, picked, mark, running, woken, sidecar,
                   undecided, faults>>

\* skills/develop Step A.6: a later start corrects the paths of the tasks V,
\* one of them failed, and restores them.
Restore(V) ==
    /\ pc = "aborted"
    /\ V \cap (Failed \cup {t \in Task : status[t] = "failed"}) # {}
    /\ \A t \in Task : status[t] # "in_progress" /\ LastEvent(t) # "launched"
    /\ \A t \in V : status[t] # "merged" /\ LastEvent(t) # "merged"
    /\ PutBack(V)
    /\ pc' = "routed"
    /\ UNCHANGED <<journal, picked, mark, running, woken, sidecar, faults>>

Next ==
    \/ Select \/ CommitLaunches
    \/ StopPasses \/ StopOverCap \/ StopBlocked \/ Obey \/ Ignore
    \/ \E t \in Task : LaunchTask(t) \/ AgentEnds(t) \/ Recover(t)
    \/ SessionDies \/ WakeUp \/ Reconcile
    \/ \E R \in SUBSET Task : Retry(R) \/ Restore(R)
    \/ RouteBack \/ Abort \/ Reenter

Spec == Init /\ [][Next]_vars

\* A turn goes on to its end, a notification wakes the session, implementers
\* end.  Nothing is assumed of the user.
Fairness ==
    /\ WF_vars(Select) /\ WF_vars(CommitLaunches)
    /\ WF_vars(StopPasses \/ StopOverCap \/ StopBlocked)
    /\ WF_vars(Obey \/ Ignore)
    /\ WF_vars(WakeUp) /\ WF_vars(Reconcile)
    /\ \A t \in Task : WF_vars(AgentEnds(t))

FairSpec == Spec /\ Fairness

----------------------------------------------------------------------------
(* Properties *)

\* FR1, no automatic retry: no task whose failure nobody has decided about is
\* launched, neither by the orchestrator's selection nor because the Stop hook
\* asked for it, whatever commits were missed on the way.
NoAutomaticRetry ==
    [][\A t \in Task : LaunchTask(t) => t \notin undecided]_vars

\* What workflow.yaml says of a task is what the journal recorded, however
\* commits are missed and launches denied, left out or failed on the way:
\* a task reset to `pending` is carved out only once its failure was decided
\* about; a record names a `failed` line of its own task, so that no line of
\* another task or launch can match it; what is in progress was launched since
\* its last reset, or the gate would refuse a route back with nothing running.
BooksMatchJournal ==
    \A t \in Task :
        /\ Reset(t) => t \notin undecided
        /\ record[t] # 0 =>
            /\ record[t] \in DOMAIN journal
            /\ journal[record[t]] = [task |-> t, event |-> "failed"]
        /\ status[t] = "in_progress" =>
            \E i \in LinesOf(t) : i > record[t] /\ journal[i].event = "launched"

\* A turn ends with work left to launch only after the hook has blocked it
\* MaxBlocks times in that state.  (A notification that is waiting starts the
\* next turn at once.)
WorkLeftIsCapped ==
    (pc = "stopped" /\ ~woken /\ Failed = {} /\ Selection # {})
        => (Counter > MaxBlocks \/ "quiet" \in faults)

\* The hook and an orchestrator that does not do what it asks never keep a
\* session from ending its turn, as long as the hook can write its sidecar.
TurnEnds == []<>(pc \notin {"turn", "blocked"} \/ "sidecar" \in faults)

\* The session dies, or a commit of it is missed.
Disturbed == faults \cap {"commit", "die"} # {}

\* A failure whose notification is waiting is put before the user, however the
\* other implementers end and whatever the turn at hand still does.
FailureIsAsked ==
    (woken /\ undecided # {} /\ pc \notin {"routed", "aborted"})
        ~> (undecided = {} \/ pc = "ask" \/ Disturbed)
=============================================================================
