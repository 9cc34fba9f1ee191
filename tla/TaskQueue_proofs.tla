-------------------------- MODULE TaskQueue_proofs --------------------------
(***************************************************************************)
(* Theorems about TaskQueue, for every set of tasks and launches and every *)
(* bound on the journal.                                                   *)
(***************************************************************************)
EXTENDS TaskQueue, TLAPS

Logs == [Task -> Seq(Line)]

\* What appending one line does to the journal of task t and to the others.
LEMMA AppendedFacts ==
    ASSUME journal \in Logs,
           NEW t \in Task, NEW event \in Event, NEW l \in Launch \cup {NoLaunch}
    PROVE  /\ Appended(t, event, l) \in Logs
           /\ \A u \in Task : u # t => Appended(t, event, l)[u] = journal[u]
           /\ Appended(t, event, l)[t]
                  = Append(journal[t], [event |-> event, by |-> l])
           /\ [event |-> event, by |-> l] \in Line
           /\ journal[t] \in Seq(Line)
<1>1. [event |-> event, by |-> l] \in Line
  BY DEF Line
<1>2. journal[t] \in Seq(Line)
  BY DEF Logs
<1>3. Append(journal[t], [event |-> event, by |-> l]) \in Seq(Line)
  BY <1>1, <1>2
<1> QED
  BY <1>1, <1>2, <1>3 DEF Appended, Logs

LEMMA AppendFacts ==
    ASSUME NEW j \in Seq(Line), NEW line \in Line
    PROVE  /\ Append(j, line) # <<>>
           /\ Len(j) \in Nat
           /\ Len(Append(j, line)) = Len(j) + 1
           /\ DOMAIN j = 1..Len(j)
           /\ DOMAIN Append(j, line) = 1..(Len(j) + 1)
           /\ \A i \in 1..Len(j) : Append(j, line)[i] = j[i]
           /\ Append(j, line)[Len(j) + 1] = line
           /\ LastEvent(Append(j, line)) = line.event
<1>1. /\ Append(j, line) \in Seq(Line)
      /\ Append(j, line) # <<>>
      /\ Len(j) \in Nat
      /\ Len(Append(j, line)) = Len(j) + 1
      /\ \A i \in 1..Len(j) : Append(j, line)[i] = j[i]
      /\ Append(j, line)[Len(j) + 1] = line
  OBVIOUS
<1>2. DOMAIN j = 1..Len(j) /\ DOMAIN Append(j, line) = 1..(Len(j) + 1)
  BY <1>1
<1> QED
  BY <1>1, <1>2 DEF LastEvent

-----------------------------------------------------------------------------
LEMMA AppendedType ==
    ASSUME journal \in Logs,
           NEW t \in Task, NEW event \in Event, NEW l \in Launch \cup {NoLaunch}
    PROVE  Appended(t, event, l) \in Logs
BY AppendedFacts DEF Logs

LEMMA ReplayType ==
    ASSUME journal \in Logs, NEW t \in Task, NEW l \in Launch,
           ReplayAndAppend(t, l)
    PROVE  journal' \in Logs
BY AppendedType DEF ReplayAndAppend, Event

\* Every variable keeps its type: no hook resolves a stop to no task, and
\* no call is at work for a launch that was never made.
THEOREM Typing == Spec => []TypeOK
<1>1. Init => TypeOK
  BY DEF Init, TypeOK, StopIdle, Ident, Entry, Line
<1>2. TypeOK /\ [Next]_vars => TypeOK'
  <2> SUFFICES ASSUME TypeOK, [Next]_vars PROVE TypeOK'
    OBVIOUS
  <2>0. /\ journal \in Logs
        /\ \A l \in Launch : st[l] # "unused" => taskOf[l] \in Task
        /\ \A l \in Launch : index[l] # "idle" \/ merging[l] \/ net[l] # "idle"
                               => st[l] # "unused"
        /\ \A l \in Launch : stopnet[l].pc = "resolved" => stopnet[l].task \in Task
    BY DEF TypeOK, Logs
  <2>1. ASSUME NEW l \in Launch, NEW t \in Task, LaunchGuard(t, l) PROVE TypeOK'
    <3>1. journal' \in Logs
      BY <2>0, <2>1, AppendedType DEF LaunchGuard, Event
    <3> QED
      BY <2>1, <3>1 DEF LaunchGuard, TypeOK, Logs, hooks, orch
  <2>2. ASSUME NEW l \in Launch, AgentStart(l) PROVE TypeOK'
    BY <2>2 DEF AgentStart, TypeOK, files, hooks, orch
  <2>3. ASSUME NEW l \in Launch, AgentNeverStarts(l) PROVE TypeOK'
    BY <2>3 DEF AgentNeverStarts, TypeOK, files, hooks, orch
  <2>4. ASSUME NEW l \in Launch, IndexAppend(l) PROVE TypeOK'
    <3>1. taskOf[l] \in Task
      BY <2>0, <2>4 DEF IndexAppend
    <3>2. agents' \in Seq(Entry)
      <4>1. ASSUME NEW ids \in ResponseIds(l)
            PROVE  [ids |-> ids, task |-> taskOf[l]] \in Entry
        BY <3>1 DEF ResponseIds, Entry, Ident
      <4>2. agents \in Seq(Entry)
        BY DEF TypeOK
      <4>3. ASSUME NEW ids \in ResponseIds(l)
            PROVE  Append(agents, [ids |-> ids, task |-> taskOf[l]]) \in Seq(Entry)
        BY <4>1, <4>2
      <4> QED
        BY <2>4, <4>2, <4>3 DEF IndexAppend
    <3> QED
      BY <2>4, <3>2 DEF IndexAppend, TypeOK, orch
  <2>5. ASSUME NEW l \in Launch, MergeLand(l) PROVE TypeOK'
    BY <2>5 DEF MergeLand, TypeOK, files, hooks, orch
  <2>6. ASSUME NEW l \in Launch, AppendMergedEvent(l) PROVE TypeOK'
    <3>1. journal' \in Logs
      BY <2>0, <2>6, AppendedType DEF AppendMergedEvent, Event
    <3> QED
      BY <2>6, <3>1 DEF AppendMergedEvent, TypeOK, Logs, files, hooks, orch
  <2>7. ASSUME NEW l \in Launch, AgentCommits(l) PROVE TypeOK'
    BY <2>7 DEF AgentCommits, TypeOK, files, hooks, orch
  <2>8. ASSUME NEW l \in Launch, AgentStop(l) PROVE TypeOK'
    BY <2>8 DEF AgentStop, MergeDies, TypeOK, files, hooks, orch
  <2>9. ASSUME NEW l \in Launch, NEW id \in Ident, TaskStop(l, id) PROVE TypeOK'
    BY <2>9 DEF TaskStop, MergeDies, StopIdle, TypeOK, files, hooks, orch
  <2>10. ASSUME NEW l \in Launch, FailureNet(l) PROVE TypeOK'
    <3>1. journal' \in Logs
      BY <2>0, <2>10, ReplayType DEF FailureNet
    <3> QED
      BY <2>10, <3>1 DEF FailureNet, TypeOK, Logs, orch
  <2>11. ASSUME NEW l \in Launch, FailureNetResolve(l) PROVE TypeOK'
    BY <2>11 DEF FailureNetResolve, TypeOK, files, hooks, orch
  <2>12. ASSUME NEW l \in Launch, FailureNetAppend(l) PROVE TypeOK'
    <3>1. journal' \in Logs
      BY <2>0, <2>12, ReplayType DEF FailureNetAppend
    <3> QED
      BY <2>12, <3>1 DEF FailureNetAppend, TypeOK, Logs, orch
  <2>13. ASSUME NEW l \in Launch, TaskStopResolve(l) PROVE TypeOK'
    <3>1. CASE stopnet' = [stopnet EXCEPT ![l] = StopIdle]
      BY <2>13, <3>1 DEF TaskStopResolve, StopIdle, Ident, TypeOK, files, orch
    <3>2. ASSUME NEW t \in Task,
                 stopnet' = [stopnet EXCEPT
                     ![l] = [@ EXCEPT !.pc = "resolved", !.task = t]]
          PROVE  TypeOK'
      <4>1. /\ journal' = journal /\ agents' = agents /\ st' = st /\ taskOf' = taskOf
            /\ index' = index /\ merging' = merging /\ net' = net /\ landed' = landed
            /\ pend' = pend /\ done' = done
        BY <2>13 DEF TaskStopResolve, files, orch
      <4>2. /\ stopnet' \in [Launch -> [pc : {"idle", "fired", "resolved"}, id : Ident,
                                        task : Task \cup {NoTask}]]
            /\ \A k \in Launch : stopnet'[k].pc = "resolved" => stopnet'[k].task \in Task
        <5> DEFINE N == [pc : {"idle", "fired", "resolved"}, id : Ident,
                         task : Task \cup {NoTask}]
                   r == [stopnet[l] EXCEPT !.pc = "resolved", !.task = t]
        <5>1. stopnet \in [Launch -> N]
          BY DEF TypeOK
        <5>2. r \in N /\ r.task \in Task
          BY <5>1
        <5>3. stopnet' = [stopnet EXCEPT ![l] = r]
          BY <3>2
        <5> HIDE DEF N, r
        <5>4. /\ stopnet' \in [Launch -> N]
              /\ \A k \in Launch : stopnet'[k].pc = "resolved" => stopnet'[k].task \in Task
          BY <2>0, <5>1, <5>2, <5>3
        <5> QED
          BY <5>4 DEF N
      <4> QED
        BY <4>1, <4>2 DEF TypeOK
    <3> QED
      BY <2>13, <3>1, <3>2 DEF TaskStopResolve
  <2>14. ASSUME NEW l \in Launch, TaskStopAppend(l) PROVE TypeOK'
    <3>1. journal' \in Logs
      BY <2>0, <2>14, ReplayType DEF TaskStopAppend
    <3> QED
      BY <2>14, <3>1 DEF TaskStopAppend, TypeOK, Logs, orch, StopIdle, Ident
  <2>15. ASSUME NEW t \in Task, ReconcileMerged(t) \/ ReconcileUnverified(t)
         PROVE TypeOK'
    BY <2>15 DEF ReconcileMerged, ReconcileUnverified, TypeOK, files, hooks, orch
  <2>16. CASE DecideAndAppend
    <3>1. journal' \in Logs
      BY <2>0, <2>16, AppendedType DEF DecideAndAppend, Event
    <3> QED
      BY <2>16, <3>1 DEF DecideAndAppend, TypeOK, Logs, hooks
  <2>17. CASE UNCHANGED vars
    BY <2>17 DEF vars, TypeOK
  <2> QED
    BY <2>1, <2>2, <2>3, <2>4, <2>5, <2>6, <2>7, <2>8, <2>9, <2>10, <2>11,
       <2>12, <2>13, <2>14, <2>15, <2>16, <2>17 DEF Next, LaunchSteps
<1> QED
  BY <1>1, <1>2, PTL DEF Spec

-----------------------------------------------------------------------------
(***************************************************************************)
(* The refinement of TaskLifecycle.                                        *)
(***************************************************************************)
LEMMA EventsAppend ==
    ASSUME NEW j \in Seq(Line), NEW line \in Line
    PROVE  /\ Events(j) \in Seq(Event)
           /\ Len(Events(j)) = Len(j)
           /\ Events(Append(j, line)) = Append(Events(j), line.event)
<1>1. Events(j) \in Seq(Event) /\ Len(Events(j)) = Len(j)
  <2>1. ASSUME NEW i \in 1..Len(j) PROVE j[i].event \in Event
    <3>1. j[i] \in Line
      OBVIOUS
    <3> QED
      BY <3>1 DEF Line
  <2>2. Events(j) = [i \in 1..Len(j) |-> j[i].event]
    BY DEF Events
  <2> QED
    BY <2>1, <2>2
<1>2. line.event \in Event /\ Append(j, line) \in Seq(Line)
  BY DEF Line
<1>3. Events(Append(j, line)) = [i \in 1..(Len(j) + 1) |-> Append(j, line)[i].event]
  BY <1>2 DEF Events
<1>4. Append(Events(j), line.event)
          = [i \in 1..(Len(j) + 1) |-> IF i = Len(j) + 1 THEN line.event
                                                       ELSE Events(j)[i]]
  BY <1>1, <1>2
<1>5. \A i \in 1..(Len(j) + 1) :
          Append(j, line)[i].event
              = IF i = Len(j) + 1 THEN line.event ELSE Events(j)[i]
  BY DEF Events
<1> QED
  BY <1>1, <1>3, <1>4, <1>5

LEMMA LastEventType ==
    ASSUME journal \in Logs, NEW t \in Task
    PROVE  LastEvent(journal[t]) \in {"none", "launched", "merged", "failed"}
<1>1. CASE journal[t] # <<>>
  <2>1. journal[t] \in Seq(Line) /\ Len(journal[t]) \in 1..Len(journal[t])
    BY <1>1 DEF Logs
  <2>2. journal[t][Len(journal[t])] \in Line
    BY <2>1
  <2> QED
    BY <2>2 DEF LastEvent, Line, Event
<1> QED
  BY <1>1 DEF LastEvent

LEMMA StatusMap ==
    ASSUME journal \in Logs, NEW t \in Task
    PROVE  TL!Status(t) = LastEvent(journal[t])
<1>1. journal[t] \in Seq(Line)
  BY DEF Logs
<1>2. journal[t] = <<>> <=> Len(journal[t]) = 0
  BY <1>1
<1>3. Events(journal[t]) = <<>> <=> Len(journal[t]) = 0
  BY <1>1 DEF Events
<1>4. journal[t] # <<>> =>
          Events(journal[t])[Len(Events(journal[t]))] = journal[t][Len(journal[t])].event
  BY <1>1, <1>2 DEF Events
<1> QED
  BY <1>2, <1>3, <1>4 DEF TL!Status, LastEvent

LEMMA RecordMap ==
    ASSUME journal \in Logs,
           NEW t \in Task, NEW event \in Event, NEW l \in Launch \cup {NoLaunch},
           journal' = Appended(t, event, l)
    PROVE  TL!Record(t, event)
<1> DEFINE line == [event |-> event, by |-> l]
<1>1. line \in Line /\ line.event = event
  BY DEF Line
<1>2. /\ journal'[t] = Append(journal[t], line)
      /\ \A u \in Task : u # t => journal'[u] = journal[u]
  BY AppendedFacts DEF Logs
<1>3. Events(journal'[t]) = Append(Events(journal[t]), event)
  BY <1>1, <1>2, EventsAppend DEF Logs
<1>4. \A u \in Task : u # t => Events(journal'[u]) = Events(journal[u])
  BY <1>2
<1> QED
  BY <1>3, <1>4 DEF TL!Record

\* The journal kept by the hooks, merge-task.sh and the helper is the history
\* TaskLifecycle promises, whatever goes wrong in their environment.
THEOREM Refinement == Spec => LifecycleSpec
<1> DEFINE hvars == <<[t \in Task |-> Events(journal[t])], {pend} \ {NoTask}>>
           Stutter == UNCHANGED <<journal, pend>>
<1>1. Init => TL!Init
  BY DEF Init, TL!Init, Events
<1>2. TypeOK /\ [Next]_vars => [TL!Next]_hvars
  <2> SUFFICES ASSUME TypeOK, [Next]_vars PROVE TL!Next \/ UNCHANGED hvars
    OBVIOUS
  <2>0. /\ journal \in Logs
        /\ \A l \in Launch : st[l] # "unused" => taskOf[l] \in Task
        /\ \A l \in Launch : merging[l] \/ net[l] # "idle" => st[l] # "unused"
        /\ \A l \in Launch : stopnet[l].pc = "resolved" => stopnet[l].task \in Task
    BY DEF TypeOK, Logs
  <2>1. Stutter => UNCHANGED hvars
    OBVIOUS
  <2>2. ASSUME NEW t \in Task, NEW l \in Launch, ReplayAndAppend(t, l), UNCHANGED pend
        PROVE  TL!Next \/ UNCHANGED hvars
    <3>1. CASE NetAppends(journal[t])
      <4>1. journal' = Appended(t, "failed", l)
        BY <2>2, <3>1 DEF ReplayAndAppend
      <4>2. TL!Record(t, "failed")
        BY <2>0, <4>1, RecordMap DEF Event
      <4>3. TL!Status(t) \in {"none", "launched"}
        BY <2>0, <3>1, StatusMap, LastEventType DEF NetAppends
      <4> QED
        BY <2>2, <4>2, <4>3 DEF TL!Next, TL!DoFail
    <3>2. CASE ~NetAppends(journal[t])
      BY <2>1, <2>2, <3>2 DEF ReplayAndAppend
    <3> QED
      BY <3>1, <3>2
  <2>3. ASSUME NEW l \in Launch, NEW t \in Task, LaunchGuard(t, l)
        PROVE  TL!Next \/ UNCHANGED hvars
    <3>1. CASE UNCHANGED journal
      BY <2>1, <2>3, <3>1 DEF LaunchGuard, orch
    <3>2. CASE LaunchAllowed(journal[t]) /\ journal' = Appended(t, "launched", l)
      <4>1. TL!Record(t, "launched")
        BY <2>0, <3>2, RecordMap DEF Event
      <4>2. TL!Status(t) \in {"none", "failed"}
        BY <2>0, <3>2, StatusMap, LastEventType DEF LaunchAllowed
      <4> QED
        BY <2>3, <4>1, <4>2 DEF TL!Next, TL!DoLaunch, LaunchGuard, orch
    <3> QED
      BY <2>3, <3>1, <3>2 DEF LaunchGuard
  <2>4. ASSUME NEW l \in Launch, AppendMergedEvent(l)
        PROVE  TL!Next \/ UNCHANGED hvars
    <3>1. CASE UNCHANGED journal
      BY <2>1, <2>4, <3>1 DEF AppendMergedEvent, orch
    <3>2. CASE journal' = Appended(taskOf[l], "merged", l)
      <4>1. taskOf[l] \in Task
        BY <2>0, <2>4 DEF AppendMergedEvent
      <4>2. TL!Record(taskOf[l], "merged")
        BY <2>0, <3>2, <4>1, RecordMap DEF Event
      <4> QED
        BY <2>4, <4>1, <4>2 DEF TL!Next, TL!DoMerge, AppendMergedEvent, orch
    <3> QED
      BY <2>4, <3>1, <3>2 DEF AppendMergedEvent
  <2>5. ASSUME NEW l \in Launch,
               AgentStart(l) \/ AgentNeverStarts(l) \/ IndexAppend(l) \/ MergeLand(l)
               \/ AgentCommits(l) \/ AgentStop(l) \/ FailureNetResolve(l)
               \/ TaskStopResolve(l)
        PROVE  Stutter
    BY <2>5 DEF AgentStart, AgentNeverStarts, IndexAppend, MergeLand, AgentCommits,
                AgentStop, FailureNetResolve, TaskStopResolve, files, orch
  <2>6. ASSUME NEW l \in Launch, NEW id \in Ident, TaskStop(l, id) PROVE Stutter
    BY <2>6 DEF TaskStop, files, orch
  <2>7. ASSUME NEW l \in Launch, FailureNet(l) \/ FailureNetAppend(l)
        PROVE  TL!Next \/ UNCHANGED hvars
    BY <2>0, <2>2, <2>7 DEF FailureNet, FailureNetAppend, orch
  <2>8. ASSUME NEW l \in Launch, TaskStopAppend(l) PROVE TL!Next \/ UNCHANGED hvars
    BY <2>0, <2>2, <2>8 DEF TaskStopAppend, orch
  <2>9. ASSUME NEW t \in Task, ReconcileMerged(t) PROVE Stutter
    BY <2>9 DEF ReconcileMerged, files
  <2>10. ASSUME NEW t \in Task, ReconcileUnverified(t)
         PROVE  TL!Next \/ UNCHANGED hvars
    <3>1. TL!Status(t) = "merged"
      BY <2>0, <2>10, StatusMap DEF ReconcileUnverified
    <3>2. {pend'} \ {NoTask} = ({pend} \ {NoTask}) \cup {t}
      BY <2>10, NullsAssumption DEF ReconcileUnverified
    <3> QED
      BY <2>10, <3>1, <3>2 DEF ReconcileUnverified, TL!Next, TL!DoDoubt, files
  <2>11. CASE DecideAndAppend
    <3>1. pend \in Task /\ pend \in {pend} \ {NoTask}
      BY <2>11, NullsAssumption DEF DecideAndAppend
    <3>2. {pend'} \ {NoTask} = ({pend} \ {NoTask}) \ {pend}
      BY <2>11 DEF DecideAndAppend
    <3>3. TL!Status(pend) = LastEvent(journal[pend])
      BY <2>0, <3>1, StatusMap
    <3>4. CASE UnverifiedAppends(journal[pend])
      <4>1. TL!Record(pend, "failed")
        BY <2>0, <2>11, <3>1, <3>4, RecordMap DEF DecideAndAppend, Event
      <4> QED
        BY <3>1, <3>2, <3>3, <3>4, <4>1 DEF UnverifiedAppends, TL!Next, TL!DoUnverify
    <3>5. CASE ~UnverifiedAppends(journal[pend])
      BY <2>11, <3>1, <3>2, <3>3, <3>5
      DEF DecideAndAppend, UnverifiedAppends, TL!Next, TL!DoUnverify
    <3> QED
      BY <3>4, <3>5
  <2>12. CASE UNCHANGED vars
    BY <2>1, <2>12 DEF vars
  <2> QED
    BY <2>1, <2>3, <2>4, <2>5, <2>6, <2>7, <2>8, <2>9, <2>10, <2>11, <2>12
    DEF Next, LaunchSteps
<1> QED
  BY <1>1, <1>2, Typing, PTL DEF Spec, LifecycleSpec, TL!Spec

-----------------------------------------------------------------------------
(***************************************************************************)
(* The safety invariants, in an environment in which the orchestrator's    *)
(* next call finds the hooks of its last one done, a stop is reported by   *)
(* one hook only, the guard reaches the journal and identifiers are not    *)
(* shared.  A launch is live until every hook its stop started has ended;  *)
(* the invariant is that the last line of a live launch's task is its own. *)
(***************************************************************************)
Orderly == Faults \cap {"open", "both", "stopdead", "shared", "late"} = {}

Live(l) ==
    st[l] \in {"allowed", "running"} \/ net[l] # "idle" \/ stopnet[l].pc # "idle"

Owns(j, l) ==
    j # <<>> /\ j[Len(j)].event \in {"launched", "merged"} /\ j[Len(j)].by = l

LiveOwns ==
    \A l \in Launch : Live(l) => taskOf[l] \in Task /\ Owns(journal[taskOf[l]], l)

Phases ==
    \A l \in Launch :
        /\ net[l] # "idle" => st[l] = "gone" /\ stopnet[l].pc = "idle"
        /\ stopnet[l].pc # "idle" => st[l] = "gone" /\ stopnet[l].id = l
        /\ stopnet[l].pc = "resolved" => stopnet[l].task = taskOf[l]
        /\ merging[l] => st[l] = "running"

IndexSound ==
    \A k \in DOMAIN agents : \E m \in Launch :
        agents[k] = [ids |-> {m}, task |-> taskOf[m]] /\ st[m] # "unused"

PendQuiet ==
    pend \in Task =>
        /\ pend \notin done
        /\ \A l \in Launch :
              stopnet[l].pc = "idle" /\ (Live(l) => taskOf[l] # pend)

DoneQuiet ==
    \A t \in done :
        /\ LastEvent(journal[t]) = "merged" /\ t \in landed
        /\ \A l \in Launch : Live(l) => taskOf[l] # t

IInv == /\ TypeOK /\ LiveOwns /\ Phases /\ IndexSound /\ PendQuiet /\ DoneQuiet
        /\ FailedBlamesItsLaunch

LEMMA OwnsUnique ==
    \A j : \A k, l \in Launch : Owns(j, k) /\ Owns(j, l) => k = l
BY DEF Owns

LEMMA OwnsAppended ==
    ASSUME journal \in Logs, NEW t \in Task, NEW l \in Launch,
           NEW event \in {"launched", "merged"}
    PROVE  /\ Owns(Appended(t, event, l)[t], l)
           /\ LastEvent(Appended(t, event, l)[t]) = event
           /\ \A u \in Task : u # t => Appended(t, event, l)[u] = journal[u]
<1>1. event \in Event /\ l \in Launch \cup {NoLaunch}
  BY DEF Event
<1>2. /\ Appended(t, event, l)[t] = Append(journal[t], [event |-> event, by |-> l])
      /\ [event |-> event, by |-> l] \in Line
      /\ journal[t] \in Seq(Line)
      /\ \A u \in Task : u # t => Appended(t, event, l)[u] = journal[u]
  BY <1>1, AppendedFacts
<1> QED
  BY <1>2, AppendFacts DEF Owns

\* An appended line keeps the blame right if it blames nobody or the launch of
\* the line before it.
LEMMA BlameAppend ==
    ASSUME NEW j \in Seq(Line), \A i \in DOMAIN j : BlamesItsLaunch(j, i),
           NEW line \in Line,
           \/ line.event # "failed" \/ line.by = NoLaunch
           \/ j # <<>> /\ j[Len(j)] = [event |-> "launched", by |-> line.by]
    PROVE  \A i \in DOMAIN Append(j, line) : BlamesItsLaunch(Append(j, line), i)
<1> SUFFICES ASSUME NEW i \in 1..(Len(j) + 1)
             PROVE  BlamesItsLaunch(Append(j, line), i)
  BY AppendFacts
<1>1. CASE i \in 1..Len(j)
  <2>1. i = 1 \/ i - 1 \in 1..Len(j)
    BY <1>1, AppendFacts
  <2>2. BlamesItsLaunch(j, i)
    BY <1>1, AppendFacts
  <2> QED
    BY <1>1, <2>1, <2>2, AppendFacts DEF BlamesItsLaunch
<1>2. CASE i = Len(j) + 1
  <2>1. j # <<>> => Len(j) \in 1..Len(j)
    OBVIOUS
  <2>2. Append(j, line)[i] = line
    BY <1>2, AppendFacts
  <2>3. j # <<>> => i > 1 /\ Append(j, line)[i-1] = j[Len(j)]
    BY <1>2, <2>1, AppendFacts
  <2> QED
    BY <2>2, <2>3 DEF BlamesItsLaunch
<1> QED
  BY <1>1, <1>2, AppendFacts

LEMMA BlameKept ==
    ASSUME journal \in Logs, FailedBlamesItsLaunch,
           NEW t \in Task, NEW event \in Event, NEW l \in Launch \cup {NoLaunch},
           \/ event # "failed" \/ l = NoLaunch
           \/ Owns(journal[t], l) /\ LastEvent(journal[t]) = "launched",
           journal' = Appended(t, event, l)
    PROVE  FailedBlamesItsLaunch'
<1> DEFINE line == [event |-> event, by |-> l]
<1>1. /\ journal'[t] = Append(journal[t], line)
      /\ line \in Line
      /\ journal[t] \in Seq(Line)
      /\ \A u \in Task : u # t => journal'[u] = journal[u]
  BY AppendedFacts
<1>2. Owns(journal[t], l) /\ LastEvent(journal[t]) = "launched" =>
          journal[t] # <<>> /\ journal[t][Len(journal[t])]
                                 = [event |-> "launched", by |-> l]
  <2> SUFFICES ASSUME Owns(journal[t], l), LastEvent(journal[t]) = "launched"
               PROVE  journal[t][Len(journal[t])] = [event |-> "launched", by |-> l]
    BY DEF Owns
  <2>1. Len(journal[t]) \in 1..Len(journal[t])
    BY <1>1 DEF Owns
  <2>2. journal[t][Len(journal[t])] \in Line
    BY <1>1, <2>1
  <2> QED
    BY <2>2 DEF Owns, LastEvent, Line
<1>3. \A i \in DOMAIN journal'[t] : BlamesItsLaunch(journal'[t], i)
  <2>1. \A i \in DOMAIN journal[t] : BlamesItsLaunch(journal[t], i)
    BY DEF FailedBlamesItsLaunch
  <2>2. \/ line.event # "failed" \/ line.by = NoLaunch
        \/ journal[t] # <<>> /\ journal[t][Len(journal[t])]
                                   = [event |-> "launched", by |-> line.by]
    BY <1>2
  <2> HIDE DEF line
  <2> QED
    BY <1>1, <2>1, <2>2, BlameAppend
<1> QED
  BY <1>1, <1>3 DEF FailedBlamesItsLaunch

\* The end of a live launch: only its own task's journal changes, and only to
\* record the failure of its own launch.
LEMMA ReplayEffect ==
    ASSUME journal \in Logs, FailedBlamesItsLaunch,
           NEW t \in Task, NEW l \in Launch, Owns(journal[t], l), ReplayAndAppend(t, l)
    PROVE  /\ FailedBlamesItsLaunch'
           /\ \A u \in Task : u # t => journal'[u] = journal[u]
<1>1. CASE NetAppends(journal[t])
  <2>1. LastEvent(journal[t]) = "launched"
    BY <1>1 DEF NetAppends, LastEvent, Owns
  <2>2. journal' = Appended(t, "failed", l)
    BY <1>1 DEF ReplayAndAppend
  <2> QED
    <3>1. FailedBlamesItsLaunch'
      BY <2>1, <2>2, BlameKept DEF Event
    <3>2. \A u \in Task : u # t => journal'[u] = journal[u]
      <4>1. "failed" \in Event /\ l \in Launch \cup {NoLaunch}
        BY DEF Event
      <4> QED
        BY <2>2, <4>1, AppendedFacts
    <3> QED
      BY <3>1, <3>2
<1>2. CASE ~NetAppends(journal[t])
  <2>1. journal' = journal
    BY <1>2 DEF ReplayAndAppend
  <2> QED
    BY <2>1 DEF FailedBlamesItsLaunch
<1> QED
  BY <1>1, <1>2

\* No step of this kind brings a launch to life or touches the journal.
LEMMA QuietStep ==
    ASSUME LiveOwns, FailedBlamesItsLaunch,
           journal' = journal, taskOf' = taskOf,
           \A k \in Launch : Live(k)' => Live(k)
    PROVE  LiveOwns' /\ FailedBlamesItsLaunch'
<1>1. LiveOwns'
  <2> SUFFICES ASSUME NEW k \in Launch, Live(k)'
               PROVE  taskOf'[k] \in Task /\ Owns(journal'[taskOf'[k]], k)
    BY DEF LiveOwns
  <2> QED
    BY DEF LiveOwns
<1> QED
  BY <1>1 DEF FailedBlamesItsLaunch

\* The last hook of the stop of launch l has its say.
LEMMA EndStep ==
    ASSUME journal \in Logs, LiveOwns, DoneQuiet, FailedBlamesItsLaunch,
           NEW l \in Launch, Live(l), ReplayAndAppend(taskOf[l], l),
           done \subseteq Task, done' = done, landed' = landed, taskOf' = taskOf,
           ~Live(l)', \A k \in Launch \ {l} : Live(k)' => Live(k)
    PROVE  LiveOwns' /\ DoneQuiet' /\ FailedBlamesItsLaunch'
<1>1. taskOf[l] \in Task /\ Owns(journal[taskOf[l]], l)
  BY DEF LiveOwns
<1>2. /\ FailedBlamesItsLaunch'
      /\ \A u \in Task : u # taskOf[l] => journal'[u] = journal[u]
  BY <1>1, ReplayEffect
<1>3. LiveOwns'
  <2> SUFFICES ASSUME NEW k \in Launch, Live(k)'
               PROVE  taskOf'[k] \in Task /\ Owns(journal'[taskOf'[k]], k)
    BY DEF LiveOwns
  <2>1. k # l /\ Live(k)
    OBVIOUS
  <2>2. taskOf[k] \in Task /\ Owns(journal[taskOf[k]], k)
    BY <2>1 DEF LiveOwns
  <2>3. taskOf[k] # taskOf[l]
    BY <1>1, <2>1, <2>2, OwnsUnique
  <2> QED
    BY <1>2, <2>2, <2>3
<1>4. DoneQuiet'
  <2> SUFFICES ASSUME NEW t \in done
               PROVE  /\ LastEvent(journal'[t]) = "merged" /\ t \in landed
                      /\ \A k \in Launch : Live(k)' => taskOf[k] # t
    BY DEF DoneQuiet
  <2>1. t # taskOf[l] /\ t \in Task
    BY DEF DoneQuiet
  <2>2. journal'[t] = journal[t]
    BY <1>2, <2>1
  <2> QED
    BY <2>2 DEF DoneQuiet
<1> QED
  BY <1>2, <1>3, <1>4

\* An identifier of an indexed launch names that launch's own task only.
LEMMA StopResolution ==
    ASSUME IndexSound, NEW l \in Launch, NEW t \in Task, FindTaskIdentity(l, t)
    PROVE  t = taskOf[l]
BY DEF IndexSound, FindTaskIdentity

LEMMA Invariance ==
    ASSUME Orderly
    PROVE  IInv /\ TypeOK' /\ [Next]_vars => IInv'
<1> SUFFICES ASSUME IInv, TypeOK', [Next]_vars PROVE IInv'
  OBVIOUS
<1>0. /\ TypeOK /\ LiveOwns /\ Phases /\ IndexSound /\ PendQuiet /\ DoneQuiet
      /\ FailedBlamesItsLaunch
      /\ journal \in Logs
      /\ st \in [Launch -> {"unused", "allowed", "running", "gone"}]
      /\ taskOf \in [Launch -> Task \cup {NoTask}]
      /\ net \in [Launch -> {"idle", "fired", "resolved"}]
      /\ \A k \in Launch : stopnet[k].pc \in {"idle", "fired", "resolved"}
      /\ stopnet = [k \in Launch |-> stopnet[k]]
      /\ merging \in [Launch -> BOOLEAN]
      /\ pend \in Task \cup {NoTask} /\ NoTask \notin Task
      /\ done \subseteq Task
      /\ \A k \in Launch : st[k] # "unused" => taskOf[k] \in Task
      /\ \A k \in Launch : index[k] # "idle" \/ merging[k] \/ net[k] # "idle"
                             => st[k] # "unused"
      /\ agents \in Seq(Entry)
  BY NullsAssumption DEF IInv, TypeOK, Logs
<1>a. "open" \notin Faults /\ "both" \notin Faults /\ "stopdead" \notin Faults
      /\ "shared" \notin Faults /\ "late" \notin Faults
  BY DEF Orderly
<1>b. \A k \in Launch : st[k] = "unused" => ~Live(k)
  BY <1>0 DEF Live, Phases
<1>1. ASSUME NEW l \in Launch, NEW t \in Task, LaunchGuard(t, l) PROVE IInv'
  <2>1. /\ st[l] = "unused" /\ pend = NoTask /\ LaunchAllowed(journal[t])
        /\ journal' = Appended(t, "launched", l)
        /\ st' = [st EXCEPT ![l] = "allowed"]
        /\ taskOf' = [taskOf EXCEPT ![l] = t]
        /\ agents' = agents /\ net' = net /\ stopnet' = stopnet /\ merging' = merging
        /\ pend' = pend /\ done' = done /\ landed' = landed
    BY <1>1, <1>a DEF LaunchGuard, hooks, orch
  <2>2. \A k \in Launch \ {l} : (Live(k)' <=> Live(k)) /\ taskOf'[k] = taskOf[k]
    BY <1>0, <2>1 DEF Live
  <2>3. /\ Owns(journal'[t], l)
        /\ \A u \in Task : u # t => journal'[u] = journal[u]
    BY <1>0, <2>1, OwnsAppended
  <2>4. \A k \in Launch : Live(k) => taskOf[k] # t
    BY <1>0, <2>1 DEF LiveOwns, Owns, LaunchAllowed, LastEvent
  <2>5. LiveOwns'
    <3> SUFFICES ASSUME NEW k \in Launch, Live(k)'
                 PROVE  taskOf'[k] \in Task /\ Owns(journal'[taskOf'[k]], k)
      BY DEF LiveOwns
    <3>1. CASE k = l
      BY <1>0, <2>1, <2>3, <3>1
    <3>2. CASE k # l
      BY <1>0, <2>2, <2>3, <2>4, <3>2 DEF LiveOwns
    <3> QED
      BY <3>1, <3>2
  <2>6. Phases'
    BY <1>0, <1>b, <2>1 DEF Phases, Live
  <2>7. IndexSound'
    BY <1>0, <2>1 DEF IndexSound
  <2>8. PendQuiet'
    BY <1>0, <2>1 DEF PendQuiet
  <2>9. DoneQuiet'
    <3> SUFFICES ASSUME NEW u \in done
                 PROVE  /\ LastEvent(journal'[u]) = "merged" /\ u \in landed
                        /\ \A k \in Launch : Live(k)' => taskOf'[k] # u
      BY <2>1 DEF DoneQuiet
    <3>1. u # t /\ u \in Task
      BY <1>0, <2>1 DEF DoneQuiet, LaunchAllowed
    <3>2. journal'[u] = journal[u]
      BY <2>3, <3>1
    <3> QED
      BY <1>0, <2>1, <2>2, <3>1, <3>2 DEF DoneQuiet
  <2>10. FailedBlamesItsLaunch'
    BY <1>0, <2>1, BlameKept DEF Event
  <2> QED
    BY <2>5, <2>6, <2>7, <2>8, <2>9, <2>10 DEF IInv
<1>2. ASSUME NEW l \in Launch, AgentStart(l) PROVE IInv'
  <2>1. /\ journal' = journal /\ taskOf' = taskOf /\ done' = done
        /\ \A k \in Launch : Live(k)' => Live(k)
    BY <1>0, <1>2 DEF AgentStart, Live, files, hooks, orch
  <2>2. LiveOwns' /\ FailedBlamesItsLaunch'
    BY <1>0, <2>1, QuietStep
  <2>3. Phases'
    BY <1>0, <1>a, <1>2 DEF AgentStart, Phases, Live, files, hooks, orch, MergeDies, StopHooksDone
  <2>4. IndexSound'
    BY <1>0, <1>a, <1>2 DEF AgentStart, IndexSound, files, hooks, orch
  <2>5. PendQuiet'
    BY <1>0, <1>2, <2>1 DEF AgentStart, PendQuiet, files, hooks, orch
  <2>6. DoneQuiet'
    BY <1>0, <1>2, <2>1 DEF AgentStart, DoneQuiet, files, hooks, orch, Live
  <2> QED
    BY <2>2, <2>3, <2>4, <2>5, <2>6 DEF IInv
<1>3. ASSUME NEW l \in Launch, AgentNeverStarts(l) PROVE IInv'
  <2>1. /\ journal' = journal /\ taskOf' = taskOf /\ done' = done
        /\ \A k \in Launch : Live(k)' => Live(k)
    BY <1>0, <1>3 DEF AgentNeverStarts, Live, files, hooks, orch
  <2>2. LiveOwns' /\ FailedBlamesItsLaunch'
    BY <1>0, <2>1, QuietStep
  <2>3. Phases'
    BY <1>0, <1>a, <1>3 DEF AgentNeverStarts, Phases, Live, files, hooks, orch, MergeDies, StopHooksDone
  <2>4. IndexSound'
    BY <1>0, <1>a, <1>3 DEF AgentNeverStarts, IndexSound, files, hooks, orch
  <2>5. PendQuiet'
    BY <1>0, <1>3, <2>1 DEF AgentNeverStarts, PendQuiet, files, hooks, orch
  <2>6. DoneQuiet'
    BY <1>0, <1>3, <2>1 DEF AgentNeverStarts, DoneQuiet, files, hooks, orch, Live
  <2> QED
    BY <2>2, <2>3, <2>4, <2>5, <2>6 DEF IInv
<1>4. ASSUME NEW l \in Launch, IndexAppend(l) PROVE IInv'
  <2>1. /\ journal' = journal /\ taskOf' = taskOf /\ done' = done
        /\ \A k \in Launch : Live(k)' => Live(k)
    BY <1>0, <1>4 DEF IndexAppend, Live, files, hooks, orch
  <2>2. LiveOwns' /\ FailedBlamesItsLaunch'
    BY <1>0, <2>1, QuietStep
  <2>3. Phases'
    BY <1>0, <1>a, <1>4 DEF IndexAppend, Phases, Live, files, hooks, orch, MergeDies, StopHooksDone
  <2>4. IndexSound'
    <3>1. st' = st /\ st[l] # "unused"
      BY <1>0, <1>4 DEF IndexAppend
    <3>2. CASE agents' = agents
      BY <1>0, <2>1, <3>1, <3>2 DEF IndexSound
    <3>3. CASE agents' = Append(agents, [ids |-> {l}, task |-> taskOf[l]])
      <4>1. /\ Len(agents) \in Nat /\ DOMAIN agents = 1..Len(agents)
            /\ DOMAIN agents' = 1..(Len(agents) + 1)
            /\ agents'[Len(agents) + 1] = [ids |-> {l}, task |-> taskOf[l]]
            /\ \A k \in 1..Len(agents) : agents'[k] = agents[k]
        BY <1>0, <3>3
      <4>2. ASSUME NEW k \in 1..(Len(agents) + 1)
            PROVE  k \in 1..Len(agents) \/ k = Len(agents) + 1
        BY <4>1
      <4>3. ASSUME NEW k \in DOMAIN agents'
            PROVE  \E m \in Launch :
                       agents'[k] = [ids |-> {m}, task |-> taskOf'[m]] /\ st'[m] # "unused"
        BY <1>0, <2>1, <3>1, <4>1, <4>2 DEF IndexSound
      <4> QED
        BY <4>3 DEF IndexSound
    <3> QED
      BY <1>4, <1>a, <3>2, <3>3 DEF IndexAppend, ResponseIds
  <2>5. PendQuiet'
    BY <1>0, <1>4, <2>1 DEF IndexAppend, PendQuiet, files, hooks, orch
  <2>6. DoneQuiet'
    BY <1>0, <1>4, <2>1 DEF IndexAppend, DoneQuiet, files, hooks, orch, Live
  <2> QED
    BY <2>2, <2>3, <2>4, <2>5, <2>6 DEF IInv
<1>5. ASSUME NEW l \in Launch, MergeLand(l) PROVE IInv'
  <2>1. /\ journal' = journal /\ taskOf' = taskOf /\ done' = done
        /\ \A k \in Launch : Live(k)' => Live(k)
    BY <1>0, <1>5 DEF MergeLand, Live, files, hooks, orch
  <2>2. LiveOwns' /\ FailedBlamesItsLaunch'
    BY <1>0, <2>1, QuietStep
  <2>3. Phases'
    BY <1>0, <1>a, <1>5 DEF MergeLand, Phases, Live, files, hooks, orch, MergeDies, StopHooksDone
  <2>4. IndexSound'
    BY <1>0, <1>a, <1>5 DEF MergeLand, IndexSound, files, hooks, orch
  <2>5. PendQuiet'
    BY <1>0, <1>5, <2>1 DEF MergeLand, PendQuiet, files, hooks, orch
  <2>6. DoneQuiet'
    BY <1>0, <1>5, <2>1 DEF MergeLand, DoneQuiet, files, hooks, orch, Live
  <2> QED
    BY <2>2, <2>3, <2>4, <2>5, <2>6 DEF IInv
<1>7. ASSUME NEW l \in Launch, AgentCommits(l) PROVE IInv'
  <2>1. /\ journal' = journal /\ taskOf' = taskOf /\ done' = done
        /\ \A k \in Launch : Live(k)' => Live(k)
    BY <1>0, <1>7 DEF AgentCommits, Live, files, hooks, orch
  <2>2. LiveOwns' /\ FailedBlamesItsLaunch'
    BY <1>0, <2>1, QuietStep
  <2>3. Phases'
    BY <1>0, <1>a, <1>7 DEF AgentCommits, Phases, Live, files, hooks, orch, MergeDies, StopHooksDone
  <2>4. IndexSound'
    BY <1>0, <1>a, <1>7 DEF AgentCommits, IndexSound, files, hooks, orch
  <2>5. PendQuiet'
    BY <1>0, <1>7, <2>1 DEF AgentCommits, PendQuiet, files, hooks, orch
  <2>6. DoneQuiet'
    BY <1>0, <1>7, <2>1 DEF AgentCommits, DoneQuiet, files, hooks, orch, Live
  <2> QED
    BY <2>2, <2>3, <2>4, <2>5, <2>6 DEF IInv
<1>8. ASSUME NEW l \in Launch, AgentStop(l) PROVE IInv'
  <2>1. /\ journal' = journal /\ taskOf' = taskOf /\ done' = done
        /\ \A k \in Launch : Live(k)' => Live(k)
    BY <1>0, <1>8 DEF AgentStop, Live, files, hooks, orch
  <2>2. LiveOwns' /\ FailedBlamesItsLaunch'
    BY <1>0, <2>1, QuietStep
  <2>3. Phases'
    BY <1>0, <1>a, <1>8 DEF AgentStop, Phases, Live, files, hooks, orch, MergeDies, StopHooksDone
  <2>4. IndexSound'
    BY <1>0, <1>a, <1>8 DEF AgentStop, IndexSound, files, hooks, orch
  <2>5. PendQuiet'
    BY <1>0, <1>8, <2>1 DEF AgentStop, PendQuiet, files, hooks, orch
  <2>6. DoneQuiet'
    BY <1>0, <1>8, <2>1 DEF AgentStop, DoneQuiet, files, hooks, orch, Live
  <2> QED
    BY <2>2, <2>3, <2>4, <2>5, <2>6 DEF IInv
<1>9. ASSUME NEW l \in Launch, NEW id \in Ident, TaskStop(l, id) PROVE IInv'
  <2>1. /\ journal' = journal /\ taskOf' = taskOf /\ done' = done
        /\ \A k \in Launch : Live(k)' => Live(k)
    <3>1. st[l] = "running" /\ UNCHANGED net
      BY <1>9, <1>a DEF TaskStop
    <3> QED
      BY <1>0, <1>9, <3>1 DEF TaskStop, Live, files, orch
  <2>2. LiveOwns' /\ FailedBlamesItsLaunch'
    BY <1>0, <2>1, QuietStep
  <2>3. Phases'
    BY <1>0, <1>a, <1>9 DEF TaskStop, Phases, Live, files, hooks, orch, MergeDies, StopHooksDone
  <2>4. IndexSound'
    BY <1>0, <1>a, <1>9 DEF TaskStop, IndexSound, files, hooks, orch
  <2>5. PendQuiet'
    BY <1>0, <1>9, <2>1 DEF TaskStop, PendQuiet, files, hooks, orch
  <2>6. DoneQuiet'
    BY <1>0, <1>9, <2>1 DEF TaskStop, DoneQuiet, files, hooks, orch, Live
  <2> QED
    BY <2>2, <2>3, <2>4, <2>5, <2>6 DEF IInv
<1>11. ASSUME NEW l \in Launch, FailureNetResolve(l) PROVE IInv'
  <2>1. /\ journal' = journal /\ taskOf' = taskOf /\ done' = done
        /\ \A k \in Launch : Live(k)' => Live(k)
    BY <1>0, <1>11 DEF FailureNetResolve, Live, files, hooks, orch
  <2>2. LiveOwns' /\ FailedBlamesItsLaunch'
    BY <1>0, <2>1, QuietStep
  <2>3. Phases'
    BY <1>0, <1>a, <1>11 DEF FailureNetResolve, Phases, Live, files, hooks, orch, MergeDies, StopHooksDone
  <2>4. IndexSound'
    BY <1>0, <1>a, <1>11 DEF FailureNetResolve, IndexSound, files, hooks, orch
  <2>5. PendQuiet'
    BY <1>0, <1>11, <2>1 DEF FailureNetResolve, PendQuiet, files, hooks, orch
  <2>6. DoneQuiet'
    BY <1>0, <1>11, <2>1 DEF FailureNetResolve, DoneQuiet, files, hooks, orch, Live
  <2> QED
    BY <2>2, <2>3, <2>4, <2>5, <2>6 DEF IInv
<1>6. ASSUME NEW l \in Launch, AppendMergedEvent(l) PROVE IInv'
  <2>1. /\ Live(l) /\ taskOf[l] \in Task
        /\ UNCHANGED <<agents, st, taskOf, net, stopnet, landed, pend, done>>
        /\ \A k \in Launch : Live(k)' <=> Live(k)
    BY <1>0, <1>6 DEF AppendMergedEvent, Phases, Live, LiveOwns, hooks, orch
  <2>2. ASSUME journal' = journal PROVE LiveOwns' /\ FailedBlamesItsLaunch'
    BY <1>0, <2>1, <2>2, QuietStep
  <2>3. ASSUME journal' = Appended(taskOf[l], "merged", l)
        PROVE  LiveOwns' /\ FailedBlamesItsLaunch'
    <3>1. /\ Owns(journal'[taskOf[l]], l)
          /\ \A u \in Task : u # taskOf[l] => journal'[u] = journal[u]
      BY <1>0, <2>1, <2>3, OwnsAppended
    <3>2. LiveOwns'
      <4> SUFFICES ASSUME NEW k \in Launch, Live(k)'
                   PROVE  taskOf'[k] \in Task /\ Owns(journal'[taskOf'[k]], k)
        BY DEF LiveOwns
      <4>1. taskOf[k] \in Task /\ Owns(journal[taskOf[k]], k)
        BY <1>0, <2>1 DEF LiveOwns
      <4>2. k # l => taskOf[k] # taskOf[l]
        BY <1>0, <2>1, <4>1, OwnsUnique DEF LiveOwns
      <4> QED
        BY <2>1, <3>1, <4>1, <4>2
    <3>3. FailedBlamesItsLaunch'
      BY <1>0, <2>1, <2>3, BlameKept DEF Event
    <3> QED
      BY <3>2, <3>3
  <2>4. LiveOwns' /\ FailedBlamesItsLaunch'
    BY <1>6, <2>2, <2>3 DEF AppendMergedEvent
  <2>5. Phases'
    BY <1>0, <1>6, <2>1 DEF AppendMergedEvent, Phases
  <2>6. IndexSound'
    BY <1>0, <2>1 DEF IndexSound
  <2>7. PendQuiet'
    BY <1>0, <2>1 DEF PendQuiet
  <2>8. DoneQuiet'
    <3> SUFFICES ASSUME NEW t \in done
                 PROVE  /\ LastEvent(journal'[t]) = "merged" /\ t \in landed
                        /\ \A k \in Launch : Live(k) => taskOf[k] # t
      BY <2>1 DEF DoneQuiet
    <3>1. t # taskOf[l] /\ t \in Task
      BY <1>0, <2>1 DEF DoneQuiet
    <3>2. journal'[t] = journal[t]
      BY <1>0, <1>6, <2>1, <3>1, OwnsAppended DEF AppendMergedEvent
    <3> QED
      BY <1>0, <3>2 DEF DoneQuiet
  <2> QED
    BY <2>4, <2>5, <2>6, <2>7, <2>8 DEF IInv
<1>10. ASSUME NEW l \in Launch, FailureNet(l) PROVE IInv'
  <2>1. /\ Live(l) /\ ~Live(l)' /\ ReplayAndAppend(taskOf[l], l)
        /\ \A k \in Launch \ {l} : Live(k)' <=> Live(k)
        /\ UNCHANGED <<agents, st, taskOf, merging, landed, pend, done>>
    BY <1>0, <1>10 DEF FailureNet, Phases, Live, orch
  <2>2. LiveOwns' /\ DoneQuiet' /\ FailedBlamesItsLaunch'
    BY <1>0, <2>1, EndStep
  <2>3. Phases'
    BY <1>0, <1>10 DEF FailureNet, Phases, orch
  <2>4. IndexSound'
    BY <1>0, <2>1 DEF IndexSound
  <2>5. PendQuiet'
    BY <1>0, <1>10, <2>1 DEF PendQuiet, FailureNet, orch
  <2> QED
    BY <2>2, <2>3, <2>4, <2>5 DEF IInv
<1>12. ASSUME NEW l \in Launch, FailureNetAppend(l) PROVE IInv'
  <2>1. /\ Live(l) /\ ~Live(l)' /\ ReplayAndAppend(taskOf[l], l)
        /\ \A k \in Launch \ {l} : Live(k)' <=> Live(k)
        /\ UNCHANGED <<agents, st, taskOf, merging, landed, pend, done>>
    BY <1>0, <1>12 DEF FailureNetAppend, Phases, Live, orch
  <2>2. LiveOwns' /\ DoneQuiet' /\ FailedBlamesItsLaunch'
    BY <1>0, <2>1, EndStep
  <2>3. Phases'
    BY <1>0, <1>12 DEF FailureNetAppend, Phases, orch
  <2>4. IndexSound'
    BY <1>0, <2>1 DEF IndexSound
  <2>5. PendQuiet'
    BY <1>0, <1>12, <2>1 DEF PendQuiet, FailureNetAppend, orch
  <2> QED
    BY <2>2, <2>3, <2>4, <2>5 DEF IInv
<1>13. ASSUME NEW l \in Launch, TaskStopResolve(l) PROVE IInv'
  <2>0. /\ stopnet[l].pc = "fired" /\ stopnet[l].id = l /\ st[l] = "gone"
        /\ net[l] = "idle"
        /\ UNCHANGED <<journal, agents, st, taskOf, merging, net, landed, pend, done>>
        /\ \A k \in Launch \ {l} : stopnet'[k] = stopnet[k]
        /\ \/ stopnet'[l].pc = "idle"
           \/ /\ stopnet'[l].pc = "resolved" /\ stopnet'[l].id = l
              /\ stopnet'[l].task = taskOf[l]
    <3>1. /\ stopnet[l].pc = "fired" /\ stopnet[l].id = l /\ st[l] = "gone"
          /\ net[l] = "idle"
          /\ UNCHANGED <<journal, agents, st, taskOf, merging, net, landed, pend, done>>
      BY <1>0, <1>13 DEF TaskStopResolve, Phases, files, orch
    <3>2. CASE stopnet' = [stopnet EXCEPT ![l] = StopIdle]
      BY <1>0, <3>1, <3>2 DEF StopIdle
    <3>3. ASSUME NEW t \in Task, FindTaskIdentity(l, t),
                 stopnet' = [stopnet EXCEPT
                     ![l] = [@ EXCEPT !.pc = "resolved", !.task = t]]
          PROVE  /\ \A k \in Launch \ {l} : stopnet'[k] = stopnet[k]
                 /\ stopnet'[l].pc = "resolved" /\ stopnet'[l].id = l
                 /\ stopnet'[l].task = taskOf[l]
      <4>1. t = taskOf[l]
        BY <1>0, <3>3, StopResolution
      <4>2. stopnet[l] \in [pc : {"idle", "fired", "resolved"}, id : Ident,
                            task : Task \cup {NoTask}]
        BY <1>0 DEF TypeOK
      <4> QED
        BY <1>0, <3>1, <3>3, <4>1, <4>2
    <3> QED
      BY <1>13, <3>1, <3>2, <3>3 DEF TaskStopResolve
  <2>1. \A k \in Launch : Live(k)' => Live(k)
    BY <2>0 DEF Live
  <2>2. LiveOwns' /\ FailedBlamesItsLaunch'
    BY <1>0, <2>0, <2>1, QuietStep
  <2>3. Phases'
    BY <1>0, <2>0 DEF Phases
  <2>4. IndexSound'
    BY <1>0, <2>0 DEF IndexSound
  <2>5. PendQuiet'
    <3>1. PendQuiet /\ l \in Launch /\ stopnet[l].pc # "idle"
      BY <1>0, <2>0
    <3>2. pend \notin Task
      BY <3>1 DEF PendQuiet
    <3> QED
      BY <2>0, <3>2 DEF PendQuiet
  <2>6. DoneQuiet'
    BY <1>0, <2>0, <2>1 DEF DoneQuiet
  <2> QED
    BY <2>2, <2>3, <2>4, <2>5, <2>6 DEF IInv
<1>14. ASSUME NEW l \in Launch, TaskStopAppend(l) PROVE IInv'
  <2>1. /\ Live(l) /\ ~Live(l)' /\ ReplayAndAppend(taskOf[l], l)
        /\ \A k \in Launch \ {l} : Live(k)' <=> Live(k)
        /\ UNCHANGED <<agents, st, taskOf, merging, landed, pend, done>>
    BY <1>0, <1>14 DEF TaskStopAppend, Phases, Live, StopIdle, orch
  <2>2. LiveOwns' /\ DoneQuiet' /\ FailedBlamesItsLaunch'
    BY <1>0, <2>1, EndStep
  <2>3. Phases'
    BY <1>0, <1>14 DEF TaskStopAppend, Phases, StopIdle, orch
  <2>4. IndexSound'
    BY <1>0, <2>1 DEF IndexSound
  <2>5. PendQuiet'
    BY <1>0, <1>14, <2>1 DEF PendQuiet, TaskStopAppend, StopIdle, orch
  <2> QED
    BY <2>2, <2>3, <2>4, <2>5 DEF IInv
<1>15. ASSUME NEW t \in Task, ReconcileMerged(t) PROVE IInv'
  <2>1. /\ UNCHANGED <<journal, agents, st, taskOf, net, stopnet, merging, landed, pend>>
        /\ done' = done \cup {t} /\ pend = NoTask
        /\ LastEvent(journal[t]) = "merged" /\ t \in landed
        /\ \A k \in Launch : Live(k)' <=> Live(k)
        /\ \A k \in Launch : Live(k) => taskOf[k] # t
    BY <1>0, <1>15, <1>a
    DEF ReconcileMerged, Outstanding, StopHooksDone, Live, files, hooks
  <2>2. LiveOwns' /\ FailedBlamesItsLaunch'
    BY <1>0, <2>1, QuietStep
  <2>3. Phases' /\ IndexSound' /\ PendQuiet'
    BY <1>0, <2>1 DEF Phases, IndexSound, PendQuiet
  <2>4. DoneQuiet'
    BY <1>0, <2>1 DEF DoneQuiet
  <2> QED
    BY <2>2, <2>3, <2>4 DEF IInv
<1>16. ASSUME NEW t \in Task, ReconcileUnverified(t) PROVE IInv'
  <2>1. /\ UNCHANGED <<journal, agents, st, taskOf, net, stopnet, merging, landed, done>>
        /\ pend' = t /\ t \notin done
        /\ \A k \in Launch : Live(k)' <=> Live(k)
        /\ \A k \in Launch : stopnet[k].pc = "idle" /\ (Live(k) => taskOf[k] # t)
    BY <1>0, <1>16, <1>a
    DEF ReconcileUnverified, Outstanding, StopHooksDone, Live, files, hooks
  <2>2. LiveOwns' /\ FailedBlamesItsLaunch'
    BY <1>0, <2>1, QuietStep
  <2>3. Phases' /\ IndexSound' /\ PendQuiet'
    BY <1>0, <2>1 DEF Phases, IndexSound, PendQuiet
  <2>4. DoneQuiet'
    BY <1>0, <2>1 DEF DoneQuiet
  <2> QED
    BY <2>2, <2>3, <2>4 DEF IInv
<1>17. ASSUME DecideAndAppend PROVE IInv'
  <2>1. /\ UNCHANGED <<agents, st, taskOf, net, stopnet, merging, landed, done>>
        /\ pend \in Task /\ pend' = NoTask
        /\ \A k \in Launch : Live(k)' <=> Live(k)
    BY <1>17 DEF DecideAndAppend, Live, hooks
  <2>2. /\ \A u \in Task : u # pend => journal'[u] = journal[u]
        /\ FailedBlamesItsLaunch'
    <3>1. CASE journal' = journal
      BY <1>0, <3>1 DEF FailedBlamesItsLaunch
    <3>2. CASE journal' = Appended(pend, "failed", NoLaunch)
      <4>1. "failed" \in Event /\ NoLaunch \in Launch \cup {NoLaunch}
        BY DEF Event
      <4>2. FailedBlamesItsLaunch'
        BY <1>0, <2>1, <3>2, <4>1, BlameKept
      <4>3. \A u \in Task : u # pend => Appended(pend, "failed", NoLaunch)[u] = journal[u]
        <5>1. journal \in Logs /\ pend \in Task
          BY <1>0, <2>1
        <5> QED
          BY <5>1 DEF Appended, Logs
      <4> QED
        BY <3>2, <4>2, <4>3
    <3> QED
      BY <1>17, <3>1, <3>2 DEF DecideAndAppend
  <2>3. LiveOwns'
    <3> SUFFICES ASSUME NEW k \in Launch, Live(k)'
                 PROVE  taskOf'[k] \in Task /\ Owns(journal'[taskOf'[k]], k)
      BY DEF LiveOwns
    <3>0. Live(k) /\ LiveOwns /\ PendQuiet /\ pend \in Task
      BY <1>0, <2>1
    <3>1. taskOf[k] \in Task /\ Owns(journal[taskOf[k]], k) /\ taskOf[k] # pend
      BY <3>0 DEF LiveOwns, PendQuiet
    <3> QED
      BY <2>1, <2>2, <3>1
  <2>4. Phases' /\ IndexSound' /\ PendQuiet'
    BY <1>0, <2>1 DEF Phases, IndexSound, PendQuiet
  <2>5. DoneQuiet'
    <3> SUFFICES ASSUME NEW t \in done
                 PROVE  /\ LastEvent(journal'[t]) = "merged" /\ t \in landed
                        /\ \A k \in Launch : Live(k) => taskOf[k] # t
      BY <2>1 DEF DoneQuiet
    <3>1. t # pend /\ t \in Task
      BY <1>0, <2>1 DEF PendQuiet
    <3>2. journal'[t] = journal[t]
      BY <2>2, <3>1
    <3> QED
      BY <1>0, <3>2 DEF DoneQuiet
  <2> QED
    BY <2>2, <2>3, <2>4, <2>5 DEF IInv
<1>18. ASSUME UNCHANGED vars PROVE IInv'
  <2>1. /\ UNCHANGED <<journal, agents, st, taskOf, net, stopnet, merging, landed, pend, done>>
        /\ \A k \in Launch : Live(k)' <=> Live(k)
    BY <1>18 DEF vars, Live
  <2>2. LiveOwns' /\ FailedBlamesItsLaunch'
    BY <1>0, <2>1, QuietStep
  <2>3. Phases' /\ IndexSound' /\ PendQuiet' /\ DoneQuiet'
    BY <1>0, <2>1 DEF Phases, IndexSound, PendQuiet, DoneQuiet
  <2> QED
    BY <2>2, <2>3 DEF IInv
<1> QED
  BY <1>1, <1>2, <1>3, <1>4, <1>5, <1>6, <1>7, <1>8, <1>9, <1>10, <1>11, <1>12,
     <1>13, <1>14, <1>15, <1>16, <1>17, <1>18 DEF Next, LaunchSteps

\* In an orderly environment no failure hook ever ends a launch but its own,
\* no task has two implementers, and what is booked as merged stays merged and
\* stays on the integration branch.
THEOREM Safety ==
    ASSUME Orderly
    PROVE  Spec => [](/\ InFlightMatches /\ OneImplementer /\ FailedBlamesItsLaunch
                      /\ DoneIsMerged /\ DoneIsLanded)
<1>1. Init => IInv
  BY DEF Init, IInv, TypeOK, LiveOwns, Live, Phases, IndexSound, PendQuiet, DoneQuiet,
         FailedBlamesItsLaunch, StopIdle, Ident, Entry, Line
<1>2. IInv /\ TypeOK' /\ [Next]_vars => IInv'
  BY Invariance
<1>3. IInv => /\ InFlightMatches /\ OneImplementer /\ FailedBlamesItsLaunch
              /\ DoneIsMerged /\ DoneIsLanded
  <2> SUFFICES ASSUME IInv
               PROVE  /\ InFlightMatches /\ OneImplementer /\ FailedBlamesItsLaunch
                      /\ DoneIsMerged /\ DoneIsLanded
    OBVIOUS
  <2>1. InFlightMatches
    BY DEF IInv, LiveOwns, Live, Owns, InFlightMatches, LastEvent
  <2>2. OneImplementer
    <3> SUFFICES ASSUME NEW k \in Launch, NEW l \in Launch, taskOf[k] = taskOf[l],
                        {st[k], st[l]} \subseteq {"allowed", "running"}
                 PROVE  k = l
      BY DEF OneImplementer
    <3>1. Owns(journal[taskOf[l]], k) /\ Owns(journal[taskOf[l]], l)
      BY DEF IInv, LiveOwns, Live
    <3> QED
      BY <3>1, OwnsUnique
  <2>3. FailedBlamesItsLaunch /\ DoneIsMerged /\ DoneIsLanded
    BY DEF IInv, DoneQuiet, DoneIsMerged, DoneIsLanded
  <2> QED
    BY <2>1, <2>2, <2>3
<1> QED
  BY <1>1, <1>2, <1>3, Typing, PTL DEF Spec
=============================================================================
