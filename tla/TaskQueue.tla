----------------------------- MODULE TaskQueue -----------------------------
(***************************************************************************)
(* The implement phase's work queue: the orchestrator's Task() and         *)
(* TaskStop calls, the implementers they start and stop, and the hook      *)
(* processes that keep journal.jsonl and agents.jsonl (the agent index).   *)
(*                                                                         *)
(* Orchestrator, implementers and harness are the environment: they act in *)
(* any order the harness admits.  The steps of the hooks and of            *)
(* merge-task.sh are the code's.  Every journal step is one flock section. *)
(***************************************************************************)
EXTENDS Journal

CONSTANTS
    Task,       \* task ids of one feature
    Launch,     \* identities of the Task() calls that may be made
    NoTask,     \* "no task"
    NoLaunch,   \* "no launch": the cause of a failure nobody's stop reported
    SharedId,   \* an agent identifier several launches carry
    MaxEvents,  \* bound: no step that starts new work beyond this many lines
    Faults      \* what goes wrong in the environment, see FaultKind

(***************************************************************************)
(* "open"     the launch guard cannot reach the journal and lets a launch  *)
(*            through without a line (fail-open);                          *)
(* "noindex"  a launch response carries no identifier: it is not indexed;  *)
(* "noprompt" a stop payload carries no assignment block: the failure net  *)
(*            falls back to the agent index;                               *)
(* "lost"     a natural stop delivers no SubagentStop event;               *)
(* "nostart"  an allowed Task() call never starts an implementer;          *)
(* "both"     a TaskStop also delivers a SubagentStop event;               *)
(* "stopdead" TaskStop completes on an agent that is already gone;         *)
(* "shared"   a launch response also carries an identifier of its parent;  *)
(* "late"     the orchestrator acts on while hooks of earlier calls, or a  *)
(*            merge-task.sh of a stopped implementer, are still running.   *)
(***************************************************************************)
FaultKind == {"open", "noindex", "noprompt", "lost", "nostart", "both",
              "stopdead", "shared", "late"}

ASSUME FaultsAssumption == Faults \subseteq FaultKind
ASSUME NullsAssumption  == NoTask \notin Task /\ NoLaunch \notin Launch
ASSUME BoundAssumption  == MaxEvents \in Nat

VARIABLES
    journal,    \* task -> its lines of journal.jsonl
    agents,     \* agents.jsonl
    st,         \* launch -> "unused", "allowed", "running", "gone"
    taskOf,     \* launch -> the task it was made for
    index,      \* launch -> queue_agent_index.py: "idle", "due", "done"
    merging,    \* launch -> TRUE between merge-task.sh's ref update and append
    net,        \* launch -> queue_failure_net.py: "idle", "fired", "resolved"
    stopnet,    \* launch -> queue_taskstop_net.py: [pc, id, task]
    landed,     \* tasks whose branch tip the integration branch contains
    pend,       \* task of a merge-unverified helper call in progress
    done        \* tasks the orchestrator has set to `merged`

vars == <<journal, agents, st, taskOf, index, merging, net, stopnet, landed,
          pend, done>>
files == <<journal, agents>>
hooks == <<index, net, stopnet>>
orch  == <<pend, done>>

Line  == [event : Event, by : Launch \cup {NoLaunch}]
Ident == Launch \cup {SharedId}
Entry == [ids : SUBSET Ident, task : Task]

StopIdle == [pc |-> "idle", id |-> SharedId, task |-> NoTask]

TypeOK ==
    /\ journal \in [Task -> Seq(Line)]
    /\ agents \in Seq(Entry)
    /\ st \in [Launch -> {"unused", "allowed", "running", "gone"}]
    /\ taskOf \in [Launch -> Task \cup {NoTask}]
    /\ \A l \in Launch : st[l] # "unused" => taskOf[l] \in Task
    /\ index \in [Launch -> {"idle", "due", "done"}]
    /\ merging \in [Launch -> BOOLEAN]
    /\ net \in [Launch -> {"idle", "fired", "resolved"}]
    /\ stopnet \in [Launch -> [pc   : {"idle", "fired", "resolved"},
                               id   : Ident,
                               task : Task \cup {NoTask}]]
    /\ \A l \in Launch : stopnet[l].pc = "resolved" => stopnet[l].task \in Task
    /\ \A l \in Launch :
          index[l] # "idle" \/ merging[l] \/ net[l] # "idle" => st[l] # "unused"
    /\ landed \subseteq Task
    /\ pend \in Task \cup {NoTask}
    /\ done \subseteq Task

Init ==
    /\ journal = [t \in Task |-> <<>>]
    /\ agents = <<>>
    /\ st = [l \in Launch |-> "unused"]
    /\ taskOf = [l \in Launch |-> NoTask]
    /\ index = [l \in Launch |-> "idle"]
    /\ merging = [l \in Launch |-> FALSE]
    /\ net = [l \in Launch |-> "idle"]
    /\ stopnet = [l \in Launch |-> StopIdle]
    /\ landed = {}
    /\ pend = NoTask
    /\ done = {}

-----------------------------------------------------------------------------
Appended(t, event, l) ==
    [journal EXCEPT ![t] = Append(@, [event |-> event, by |-> l])]

\* The flock section both nets share: at most one `failed` line, for task t,
\* on account of the stop of launch l.
ReplayAndAppend(t, l) ==
    journal' = IF NetAppends(journal[t]) THEN Appended(t, "failed", l)
                                         ELSE journal

\* A Task() call for t that has not returned to the orchestrator.
Outstanding(t) ==
    \E l \in Launch :
        /\ taskOf[l] = t
        /\ st[l] \in {"allowed", "running"} \/ net[l] # "idle"

\* The orchestrator's next tool call waits for the hooks of the last one.
StopHooksDone == "late" \in Faults \/ \A l \in Launch : stopnet[l].pc = "idle"
IndexHookDone(l) == "late" \in Faults \/ index[l] # "due"

-----------------------------------------------------------------------------
(***************************************************************************)
(* A Task() call.  PreToolUse, queue_launch_guard.py: `launched` is        *)
(* appended before the implementer starts; a denied call changes nothing.  *)
(***************************************************************************)
LaunchGuard(t, l) ==
    /\ st[l] = "unused" /\ pend = NoTask /\ StopHooksDone
    /\ \A k \in Launch : taskOf[k] = t => IndexHookDone(k)
    /\ Len(journal[t]) < MaxEvents
    /\ \/ /\ LaunchAllowed(journal[t])
          /\ journal' = Appended(t, "launched", l)
       \/ /\ "open" \in Faults
          /\ UNCHANGED journal
    /\ st' = [st EXCEPT ![l] = "allowed"]
    /\ taskOf' = [taskOf EXCEPT ![l] = t]
    /\ UNCHANGED <<agents, hooks, merging, landed, orch>>

\* The implementer starts in the background; the tool call completes.
AgentStart(l) ==
    /\ st[l] = "allowed"
    /\ st' = [st EXCEPT ![l] = "running"]
    /\ index' = [index EXCEPT ![l] = "due"]
    /\ UNCHANGED <<files, taskOf, merging, net, stopnet, landed, orch>>

AgentNeverStarts(l) ==
    /\ "nostart" \in Faults
    /\ st[l] = "allowed"
    /\ st' = [st EXCEPT ![l] = "gone"]
    /\ UNCHANGED <<files, taskOf, hooks, merging, landed, orch>>

\* The identifiers a launch response may carry.
ResponseIds(l) ==
    {{l}} \cup (IF "shared" \in Faults THEN {{l, SharedId}} ELSE {})

\* PostToolUse, queue_agent_index.py: one entry per launch.
IndexAppend(l) ==
    /\ index[l] = "due"
    /\ index' = [index EXCEPT ![l] = "done"]
    /\ \/ \E ids \in ResponseIds(l) :
              agents' = Append(agents, [ids |-> ids, task |-> taskOf[l]])
       \/ "noindex" \in Faults /\ UNCHANGED agents
    /\ UNCHANGED <<journal, st, taskOf, merging, net, stopnet, landed, orch>>

-----------------------------------------------------------------------------
(***************************************************************************)
(* merge-task.sh in the implementer's worktree: the integration ref moves, *)
(* then `merged` is appended without a replay.  The append is best-effort, *)
(* and the process may die between the two.                                *)
(***************************************************************************)
MergeLand(l) ==
    /\ st[l] = "running" /\ ~merging[l]
    /\ Len(journal[taskOf[l]]) < MaxEvents
    /\ merging' = [merging EXCEPT ![l] = TRUE]
    /\ landed' = landed \cup {taskOf[l]}
    /\ UNCHANGED <<files, st, taskOf, hooks, orch>>

AppendMergedEvent(l) ==
    /\ merging[l]
    /\ merging' = [merging EXCEPT ![l] = FALSE]
    /\ \/ journal' = Appended(taskOf[l], "merged", l)
       \/ UNCHANGED journal
    /\ UNCHANGED <<agents, st, taskOf, hooks, landed, orch>>

\* A commit on the task branch after its merge.
AgentCommits(l) ==
    /\ st[l] = "running" /\ ~merging[l]
    /\ landed' = landed \ {taskOf[l]}
    /\ UNCHANGED <<files, st, taskOf, hooks, merging, orch>>

\* An implementer's end takes its merge-task.sh along, unless it lingers.
MergeDies(l) ==
    \/ merging' = [merging EXCEPT ![l] = FALSE]
    \/ "late" \in Faults /\ UNCHANGED merging

-----------------------------------------------------------------------------
\* The implementer ends by itself: completion, failure or crash.
AgentStop(l) ==
    /\ st[l] = "running"
    /\ st' = [st EXCEPT ![l] = "gone"]
    /\ MergeDies(l)
    /\ \/ net' = [net EXCEPT ![l] = "fired"]
       \/ "lost" \in Faults /\ UNCHANGED net
    /\ UNCHANGED <<files, taskOf, index, stopnet, landed, orch>>

\* The orchestrator stops an agent by an identifier the launch returned.
TaskStop(l, id) ==
    /\ index[l] = "done"
    /\ id = l \/ (id = SharedId /\ "shared" \in Faults)
    /\ st[l] = "running" \/ (st[l] = "gone" /\ "stopdead" \in Faults)
    /\ stopnet[l].pc = "idle"
    /\ pend = NoTask /\ StopHooksDone /\ \A k \in Launch : IndexHookDone(k)
    /\ Len(journal[taskOf[l]]) < MaxEvents
    /\ st' = [st EXCEPT ![l] = "gone"]
    /\ MergeDies(l)
    /\ stopnet' = [stopnet EXCEPT ![l] = [StopIdle EXCEPT !.pc = "fired",
                                                          !.id = id]]
    /\ \/ UNCHANGED net
       \/ /\ "both" \in Faults /\ st[l] = "running"
          /\ net' = [net EXCEPT ![l] = "fired"]
    /\ UNCHANGED <<files, taskOf, index, landed, orch>>

-----------------------------------------------------------------------------
\* Bug: staleness is judged by the last entry of any task.
FindTaskIdentity_LastOfAll(id, t) ==
    \E k \in DOMAIN agents :
        /\ id \in agents[k].ids /\ agents[k].task = t
        /\ k = Len(agents)

(***************************************************************************)
(* find_task_identity / resolve_via_agent_index: id names task t when all  *)
(* entries it matches are of t and the last of them is t's last entry.     *)
(***************************************************************************)
FindTaskIdentity(id, t) ==
    \E k \in DOMAIN agents :
        /\ id \in agents[k].ids /\ agents[k].task = t
        /\ \A i \in DOMAIN agents :
               /\ id \in agents[i].ids => agents[i].task = t
               /\ i > k => agents[i].task # t

\* SubagentStop with an assignment block: the task id comes from the prompt.
FailureNet(l) ==
    /\ net[l] = "fired"
    /\ ReplayAndAppend(taskOf[l], l)
    /\ net' = [net EXCEPT ![l] = "idle"]
    /\ UNCHANGED <<agents, st, taskOf, index, merging, stopnet, landed, orch>>

\* Without one: the index is read first, the journal locked later.
FailureNetResolve(l) ==
    /\ "noprompt" \in Faults
    /\ net[l] = "fired"
    /\ net' = [net EXCEPT ![l] = IF FindTaskIdentity(l, taskOf[l])
                                 THEN "resolved" ELSE "idle"]
    /\ UNCHANGED <<files, st, taskOf, index, merging, stopnet, landed, orch>>

FailureNetAppend(l) ==
    /\ net[l] = "resolved"
    /\ ReplayAndAppend(taskOf[l], l)
    /\ net' = [net EXCEPT ![l] = "idle"]
    /\ UNCHANGED <<agents, st, taskOf, index, merging, stopnet, landed, orch>>

\* Bug: an unresolved identifier is not an early return.
TaskStopResolve_NoReturn(l) ==
    /\ stopnet[l].pc = "fired"
    /\ stopnet' = [stopnet EXCEPT ![l] = [@ EXCEPT !.pc = "resolved"]]
    /\ UNCHANGED <<files, st, taskOf, index, merging, net, landed, orch>>

\* PostToolUse(TaskStop): the index is read first, the journal locked later.
TaskStopResolve(l) ==
    /\ stopnet[l].pc = "fired"
    /\ \/ \E t \in Task :
              /\ FindTaskIdentity(stopnet[l].id, t)
              /\ stopnet' = [stopnet EXCEPT
                              ![l] = [@ EXCEPT !.pc = "resolved", !.task = t]]
       \/ /\ \A t \in Task : ~FindTaskIdentity(stopnet[l].id, t)
          /\ stopnet' = [stopnet EXCEPT ![l] = StopIdle]
    /\ UNCHANGED <<files, st, taskOf, index, merging, net, landed, orch>>

TaskStopAppend(l) ==
    /\ stopnet[l].pc = "resolved"
    /\ ReplayAndAppend(stopnet[l].task, l)
    /\ stopnet' = [stopnet EXCEPT ![l] = StopIdle]
    /\ UNCHANGED <<agents, st, taskOf, index, merging, net, landed, orch>>

-----------------------------------------------------------------------------
\* Bug: the journal's claim is believed without asking git.
ReconcileMerged_Unchecked(t) ==
    /\ pend = NoTask /\ ~Outstanding(t) /\ StopHooksDone
    /\ t \notin done
    /\ LastEvent(journal[t]) = "merged"
    /\ done' = done \cup {t}
    /\ UNCHANGED <<files, st, taskOf, hooks, merging, landed, pend>>

(***************************************************************************)
(* The orchestrator's reconcile: a task the journal claims merged is       *)
(* believed only when git confirms it; otherwise, once no Task() call for  *)
(* it is outstanding, the helper is asked to take the claim back.          *)
(***************************************************************************)
ReconcileMerged(t) ==
    /\ pend = NoTask /\ ~Outstanding(t) /\ StopHooksDone
    /\ t \notin done
    /\ LastEvent(journal[t]) = "merged" /\ t \in landed
    /\ done' = done \cup {t}
    /\ UNCHANGED <<files, st, taskOf, hooks, merging, landed, pend>>

ReconcileUnverified(t) ==
    /\ pend = NoTask /\ ~Outstanding(t) /\ StopHooksDone
    /\ t \notin done
    /\ LastEvent(journal[t]) = "merged" /\ t \notin landed
    /\ pend' = t
    /\ UNCHANGED <<files, st, taskOf, hooks, merging, landed, done>>

\* journal-append-failed.py --reason merge-unverified.
DecideAndAppend ==
    /\ pend \in Task
    /\ journal' = IF UnverifiedAppends(journal[pend])
                  THEN Appended(pend, "failed", NoLaunch) ELSE journal
    /\ pend' = NoTask
    /\ UNCHANGED <<agents, st, taskOf, hooks, merging, landed, done>>

-----------------------------------------------------------------------------
LaunchSteps(l) ==
    \/ \E t \in Task : LaunchGuard(t, l)
    \/ AgentStart(l) \/ AgentNeverStarts(l) \/ IndexAppend(l)
    \/ MergeLand(l) \/ AppendMergedEvent(l) \/ AgentCommits(l)
    \/ AgentStop(l)
    \/ \E id \in Ident : TaskStop(l, id)
    \/ FailureNet(l) \/ FailureNetResolve(l) \/ FailureNetAppend(l)
    \/ TaskStopResolve(l) \/ TaskStopAppend(l)

Next ==
    \/ \E l \in Launch : LaunchSteps(l)
    \/ \E t \in Task : ReconcileMerged(t) \/ ReconcileUnverified(t)
    \/ DecideAndAppend

Spec == Init /\ [][Next]_vars

(***************************************************************************)
(* A hook process that was started runs to its end, and so does the helper *)
(* the orchestrator waits for.  Nothing is assumed of agents or of calls   *)
(* the orchestrator may make.                                              *)
(***************************************************************************)
HookFairness ==
    /\ \A l \in Launch :
          /\ WF_vars(FailureNet(l) \/ FailureNetResolve(l))
          /\ WF_vars(FailureNetAppend(l))
          /\ WF_vars(TaskStopResolve(l)) /\ WF_vars(TaskStopAppend(l))
    /\ WF_vars(DecideAndAppend)

FairSpec == Spec /\ HookFairness

-----------------------------------------------------------------------------
\* Refinement: whatever goes wrong around them, the writers of the journal
\* keep its promise to its readers.
Events(j) == [i \in DOMAIN j |-> j[i].event]

TL == INSTANCE TaskLifecycle WITH
          history <- [t \in Task |-> Events(journal[t])],
          doubted <- {pend} \ {NoTask}

LifecycleSpec == TL!Spec

\* Safety.  The last line of the task of a live implementer is that
\* implementer's own: its launch, or the merge it recorded.  (The failure
\* of an earlier attempt, however late its hook runs, never ends it.)
InFlightMatches ==
    \A l \in Launch : st[l] \in {"allowed", "running"} =>
        LET j == journal[taskOf[l]] IN
        /\ LastEvent(j) \in {"launched", "merged"}
        /\ j[Len(j)].by = l

\* Safety.  No task ever has two implementers at work, so no two of them
\* write to one task branch and worktree.
OneImplementer ==
    \A k, l \in Launch :
        /\ {st[k], st[l]} \subseteq {"allowed", "running"}
        /\ taskOf[k] = taskOf[l]
        => k = l

BlamesItsLaunch(j, i) ==
    (j[i].event = "failed" /\ j[i].by # NoLaunch) =>
        i > 1 /\ j[i-1] = [event |-> "launched", by |-> j[i].by]

\* Safety.  A `failed` line that a stop hook appends stands right behind the
\* `launched` line of the very launch that stopped.
FailedBlamesItsLaunch ==
    \A t \in Task : \A i \in DOMAIN journal[t] : BlamesItsLaunch(journal[t], i)

\* Safety.  What the orchestrator has booked as merged stays recorded as
\* merged and stays on the integration branch: no late hook, retry or
\* reconcile takes it back.
DoneIsMerged   == \A t \in done : LastEvent(journal[t]) = "merged"
DoneIsLanded   == done \subseteq landed

\* Liveness.  A stop that can be attributed, because its payload carries the
\* assignment or the launch is in the agent index, ends its launch: the task
\* does not stay in flight.
InFlightBy(l) ==
    \E t \in Task : /\ journal[t] # <<>>
                     /\ journal[t][Len(journal[t])]
                            = [event |-> "launched", by |-> l]

Indexed(l) == \E k \in DOMAIN agents : l \in agents[k].ids

StopAttributed(l) ==
    \/ net[l] = "fired" /\ ("noprompt" \in Faults => Indexed(l))
    \/ stopnet[l].pc = "fired" /\ Indexed(l)

GoneIsTerminal ==
    \A l \in Launch : StopAttributed(l) ~> ~InFlightBy(l)
=============================================================================
