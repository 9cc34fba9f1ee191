--------------------------- MODULE OrphanRecovery ---------------------------
(***************************************************************************)
(* Recovery of a task whose implementer is gone and whose journal still     *)
(* says `launched`: scripts/recover-orphaned-task.py, its journal helper    *)
(* journal-append-failed.py, and the reconcile step of the implement phase  *)
(* that calls them.                                                        *)
(*                                                                         *)
(* The model follows ONE task through several sessions of the program.      *)
(* The script reads the agent index, the journal and a transcript one       *)
(* after the other without a lock; only the helper decides under the        *)
(* journal's lock.  All it knows of another session is when that session's  *)
(* transcript was last written.                                            *)
(*                                                                         *)
(* Time is a clock of whole ticks that stamps journal lines, index entries  *)
(* and transcripts.  A launch stands for its agent id as well.             *)
(***************************************************************************)
EXTENDS Journal, FiniteSets

CONSTANTS Session, Launch, NoLaunch, NoEntry,
          MaxClock,       \* bound on the clock
          Tolerance,      \* AGENT_ENTRY_BINDING_TOLERANCE
          MinRun,         \* time from a launch to the next one of the task
          FaultSets       \* the combinations of faults, one of them per run:
                          \* "concurrent": sessions overlap;
                          \* "idle": a live session's transcript may rest;
                          \* "lost": an implementer's end goes unrecorded;
                          \* "noindex": a launch is not indexed;
                          \* "late": index entries are written late;
                          \* "brisk": a relaunch within the tolerance

ASSUME BoundsAssumption == MaxClock \in Nat /\ Tolerance \in Nat /\ MinRun \in Nat
ASSUME NullAssumption == NoLaunch \notin Launch

VARIABLES
    now,        \* the clock
    session,    \* session -> [state, start, newest]
    journal,    \* the task's lines: [event, at, by]
    agents,     \* the task's index entries: [at, session, ids]
    st,         \* launch -> unused, running or gone
    owner,      \* launch -> the session that launched it
    index,      \* launches whose index hook has not run yet
    rec,        \* session -> its recovery script
    faults      \* what may go wrong in this run

vars == <<now, session, journal, agents, st, owner, index, rec, faults>>

Clock == 0..MaxClock

\* `by` is the launch of a launched or merged line, the recorder of a failed one.
Line == [event : {"launched", "merged"}, at : Clock, by : Launch]
        \cup [event : {"failed"}, at : Clock,
              by : {"net", "orphaned", "stale-launched"}]
Entry == [at : Clock, session : Session, ids : SUBSET Launch]

RecIdle == [pc |-> "idle", entry |-> NoEntry, launchAt |-> 0, target |-> NoLaunch]

\* Legacy chain: entry, bind, transcript, precheck, orphaned.
\* Evidence chain: journal2, entry2, bind2, stale.
Recovery == [pc : {"entry", "bind", "transcript", "precheck", "orphaned",
                   "journal2", "entry2", "bind2", "stale"},
             entry : Entry \cup {NoEntry}, launchAt : Clock,
             target : Launch \cup {NoLaunch}] \cup {RecIdle}

TypeOK ==
    /\ now \in Clock
    /\ session \in [Session -> [state : {"new", "live", "dead"},
                                start : Clock, newest : Clock]]
    /\ journal \in Seq(Line)
    /\ agents \in Seq(Entry)
    /\ st \in [Launch -> {"unused", "running", "gone"}]
    /\ owner \in [Launch -> Session]
    /\ index \subseteq Launch
    /\ rec \in [Session -> Recovery]
    /\ faults \in FaultSets

Init ==
    /\ now = 0
    /\ session = [s \in Session |-> [state |-> "new", start |-> 0, newest |-> 0]]
    /\ journal = <<>>
    /\ agents = <<>>
    /\ st = [l \in Launch |-> "unused"]
    /\ owner \in [Launch -> Session]
    /\ index = {}
    /\ rec = [s \in Session |-> RecIdle]
    /\ faults \in FaultSets

Live(s) == session[s].state = "live"

\* A tool call of session s is written to its transcript.
Wrote(s) == session' = [session EXCEPT ![s].newest = now]

LastLine == journal[Len(journal)]

\* find_last_launched_at: the task's launched lines, and the last of them.
Launched == {i \in DOMAIN journal : journal[i].event = "launched"}
LastLaunched == journal[CHOOSE i \in Launched : \A k \in Launched : k <= i]

Recorded(event, by) ==
    journal' = Append(journal, [event |-> event, at |-> now, by |-> by])

----------------------------------------------------------------------------
(* Sessions, implementers and their hooks (TaskQueue has their detail) *)

\* Time passes.  Without "idle" every live session writes its transcript in
\* each tick; without "late" an index hook ends within the tick of its launch.
Tick ==
    /\ now < MaxClock
    /\ index = {} \/ "late" \in faults
    /\ now' = now + 1
    /\ \E W \in SUBSET {s \in Session : Live(s)} :
        /\ "idle" \notin faults => W = {s \in Session : Live(s)}
        /\ session' = [s \in Session |->
               IF s \in W THEN [session[s] EXCEPT !.newest = now + 1] ELSE session[s]]
    /\ UNCHANGED <<journal, agents, st, owner, index, rec, faults>>

SessionStart(s) ==
    /\ session[s].state = "new"
    /\ "concurrent" \in faults \/ \A c \in Session : ~Live(c)
    /\ session' = [session EXCEPT
           ![s] = [state |-> "live", start |-> now, newest |-> now]]
    /\ UNCHANGED <<now, journal, agents, st, owner, index, rec, faults>>

\* A session dies, and its implementers, hooks and scripts with it.
SessionDies(s) ==
    /\ Live(s)
    /\ session' = [session EXCEPT ![s].state = "dead"]
    /\ st' = [l \in Launch |->
           IF st[l] = "running" /\ owner[l] = s THEN "gone" ELSE st[l]]
    /\ index' = {l \in index : owner[l] # s}
    /\ rec' = [rec EXCEPT ![s] = RecIdle]
    /\ UNCHANGED <<now, journal, agents, owner, faults>>

\* The Task() call of the task is still outstanding in session s.
Outstanding(s) == \E l \in Launch : st[l] = "running" /\ owner[l] = s

\* The launch guard lets a launch through and records it.
LaunchTask(s, l) ==
    /\ Live(s)
    /\ rec[s].pc = "idle"
    /\ ~Outstanding(s)
    /\ st[l] = "unused"
    /\ owner[l] = s
    /\ LaunchAllowed(journal)
    /\ Launched # {} /\ "brisk" \notin faults => LastLaunched.at + MinRun <= now
    /\ Recorded("launched", l)
    /\ st' = [st EXCEPT ![l] = "running"]
    /\ index' = index \cup {l}
    /\ Wrote(s)
    /\ UNCHANGED <<now, agents, owner, rec, faults>>

IndexAppend(l) ==
    /\ l \in index
    /\ index' = index \ {l}
    /\ \/ agents' = Append(agents, [at |-> now, session |-> owner[l], ids |-> {l}])
       \/ "noindex" \in faults /\ agents' = agents
    /\ UNCHANGED <<now, session, journal, st, owner, rec, faults>>

\* An implementer ends without a merge; the failure net records it.
AgentEnds(l) ==
    /\ st[l] = "running"
    /\ st' = [st EXCEPT ![l] = "gone"]
    /\ \/ NetAppends(journal) /\ Recorded("failed", "net")
       \/ (~NetAppends(journal) \/ "lost" \in faults) /\ UNCHANGED journal
    /\ UNCHANGED <<now, session, agents, owner, index, rec, faults>>

AgentMerges(l) ==
    /\ st[l] = "running"
    /\ st' = [st EXCEPT ![l] = "gone"]
    /\ Recorded("merged", l)
    /\ UNCHANGED <<now, session, agents, owner, index, rec, faults>>

----------------------------------------------------------------------------
(* recover-orphaned-task.py, run by session c *)

\* The script goes on with the fields of f changed.
Goes(c, pc, f) ==
    rec' = [rec EXCEPT ![c] = [k \in DOMAIN RecIdle |->
               IF k = "pc" THEN pc ELSE IF k \in DOMAIN f THEN f[k] ELSE rec[c][k]]]

\* Outcomes residual and noop_terminal: the script ends and writes nothing.
Residual(c) == rec' = [rec EXCEPT ![c] = RecIdle]

\* Bug: the reconcile step does not look at its own outstanding calls.
RecoverStart_AnyLaunch(c, target) ==
    /\ Live(c)
    /\ rec[c] = RecIdle
    /\ LastEvent(journal) = "launched"
    /\ target # NoLaunch => owner[target] = c /\ st[target] = "gone"
    /\ Goes(c, "entry", [target |-> target])
    /\ Wrote(c)
    /\ UNCHANGED <<now, journal, agents, st, owner, index, faults>>

\* Reconcile: the last event is `launched` and the call is not outstanding
\* here.  With a target the seven evidence inputs are given: the harness
\* reports that implementer of this session terminated, and the stop tool
\* reports it not running.
RecoverStart(c, target) ==
    /\ Live(c)
    /\ rec[c] = RecIdle
    /\ LastEvent(journal) = "launched"
    /\ ~Outstanding(c)
    /\ target # NoLaunch => owner[target] = c /\ st[target] = "gone"
    /\ Goes(c, "entry", [target |-> target])
    /\ Wrote(c)
    /\ UNCHANGED <<now, journal, agents, st, owner, index, faults>>

\* find_agent_entry: the last entry of the task.
FindAgentEntry == IF agents = <<>> THEN NoEntry ELSE agents[Len(agents)]

\* Step 1 of the legacy chain, and the first half of step 2 of the other.
ReadEntry(c) ==
    /\ rec[c].pc \in {"entry", "entry2"}
    /\ IF FindAgentEntry = NoEntry THEN Residual(c)
       ELSE Goes(c, IF rec[c].pc = "entry" THEN "bind" ELSE "bind2",
                 [entry |-> FindAgentEntry])
    /\ UNCHANGED <<now, session, journal, agents, st, owner, index, faults>>

\* Bug: the tolerance is on the wrong side, an entry of the launch's own tick is stale.
Bound_WrongSide(entry) == LastLaunched.at + Tolerance <= entry.at

\* agent_entry_is_bound (D7): not earlier than the last launch by more than
\* the tolerance; an entry that is later binds.
Bound(entry) == LastLaunched.at <= entry.at + Tolerance

\* Steps 2 to 6: bind the entry to the last launch, then choose the chain by
\* the session the entry names.
ReadLaunched(c) ==
    /\ rec[c].pc = "bind"
    /\ LET entry == rec[c].entry IN
       IF Launched # {} /\ ~Bound(entry) THEN Residual(c)
       ELSE IF entry.session # c THEN Goes(c, "transcript", <<>>)
       ELSE IF rec[c].target # NoLaunch THEN Goes(c, "journal2", <<>>)
       ELSE Residual(c)
    /\ UNCHANGED <<now, session, journal, agents, st, owner, index, faults>>

\* newest_transcript_timestamp against resolve_current_session (D3).
ProvenGone(s, c) == session[s].newest < session[c].start

\* Steps 7 to 9.
JudgeTranscript(c) ==
    /\ rec[c].pc = "transcript"
    /\ IF ProvenGone(rec[c].entry.session, c) THEN Goes(c, "precheck", <<>>)
       ELSE Residual(c)
    /\ UNCHANGED <<now, session, journal, agents, st, owner, index, faults>>

\* The journal pre-check of both chains.
PreCheck(c) ==
    /\ rec[c].pc \in {"precheck", "journal2"}
    /\ IF LastEvent(journal) # "launched" THEN Residual(c)
       ELSE Goes(c, IF rec[c].pc = "precheck" THEN "orphaned" ELSE "entry2", <<>>)
    /\ UNCHANGED <<now, session, journal, agents, st, owner, index, faults>>

\* resolve_bound_stop_target: the entry names one candidate, the stop target.
BoundStopTarget(entry, target) == entry.ids = {target}

\* Steps 2 to 6 of the evidence chain.  The entry's session is not compared
\* with the current one again.
EvidenceBind(c) ==
    /\ rec[c].pc = "bind2"
    /\ IF Launched # {} /\ Bound(rec[c].entry)
          /\ BoundStopTarget(rec[c].entry, rec[c].target)
       THEN Goes(c, "stale", [launchAt |-> LastLaunched.at])
       ELSE Residual(c)
    /\ UNCHANGED <<now, session, journal, agents, st, owner, index, faults>>

\* journal-append-failed.py, under the journal's lock: reason orphaned has no
\* launch identity, reason stale-launched compares it.
HelperAppend(c) ==
    /\ \/ /\ rec[c].pc = "orphaned"
          /\ IF OrphanedAppends(journal) THEN Recorded("failed", "orphaned")
             ELSE UNCHANGED journal
       \/ /\ rec[c].pc = "stale"
          /\ IF StaleLaunchedAppends(journal, rec[c].launchAt)
             THEN Recorded("failed", "stale-launched") ELSE UNCHANGED journal
    /\ Residual(c)
    /\ UNCHANGED <<now, session, agents, st, owner, index, faults>>

RecoveryStep(c) ==
    \/ ReadEntry(c) \/ ReadLaunched(c) \/ JudgeTranscript(c) \/ PreCheck(c)
    \/ EvidenceBind(c) \/ HelperAppend(c)

Next ==
    \/ Tick
    \/ \E s \in Session :
        \/ SessionStart(s) \/ SessionDies(s)
        \/ \E l \in Launch : LaunchTask(s, l)
        \/ \E t \in Launch \cup {NoLaunch} : RecoverStart(s, t)
        \/ RecoveryStep(s)
    \/ \E l \in Launch : IndexAppend(l) \/ AgentEnds(l) \/ AgentMerges(l)

Spec == Init /\ [][Next]_vars

\* A live session's reconcile step comes again as long as the task is a
\* candidate, and a script that was started runs to its end.
Fairness ==
    \A s \in Session : /\ WF_vars(\E t \in Launch \cup {NoLaunch} : RecoverStart(s, t))
                       /\ WF_vars(RecoveryStep(s))

FairSpec == Spec /\ Fairness

----------------------------------------------------------------------------
(* Properties *)

\* The implementer of the last launch runs.
LastRuns == LastEvent(journal) = "launched" /\ st[LastLine.by] = "running"

\* The script's docstring: it decides whether a session "is provably gone".  A
\* session that some run has judged gone (step 9) does not live.  The code does
\* not keep this under "idle": a live session that waits writes nothing.
JudgedGoneIsGone ==
    \A c \in Session : rec[c].pc \in {"precheck", "orphaned"} =>
        ~Live(rec[c].entry.session)

\* No recovery ends a launch whose implementer runs, by either reason.  The one
\* exception is a third session that has recovered the task first and launched
\* it again: reason orphaned names no launch.
RecoveredIsGone ==
    [][\A c \in Session :
          HelperAppend(c) /\ journal' # journal /\ LastRuns =>
              /\ rec[c].pc = "orphaned"
              /\ owner[LastLine.by] \notin {c, rec[c].entry.session}]_vars

\* An implementer that died with its session, with an entry of its own in the
\* index, does not stay in flight under a session that started later.
OrphanRecovered ==
    \A c \in Session :
        (/\ LastEvent(journal) = "launched"
         /\ st[LastLine.by] = "gone"
         /\ agents # <<>>
         /\ agents[Len(agents)].ids = {LastLine.by}
         /\ Live(c)
         /\ LET s == owner[LastLine.by] IN
               session[s].state = "dead" /\ session[s].newest < session[c].start)
        ~> (LastEvent(journal) # "launched" \/ ~Live(c))
=============================================================================
