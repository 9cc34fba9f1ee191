----------------------------- MODULE MergeLock -----------------------------
(***************************************************************************)
(* The repository-wide lock of unattended merge runs: scripts/merge-lock.py *)
(* (hold, verify) and the steps of skills/merge/SKILL.md that use it.      *)
(*                                                                         *)
(* A run starts a background process that takes a flock and replaces a     *)
(* holder record [token, pid, start]; the run itself never sees the flock: *)
(* it reads the record and probes the process the record names.  Process   *)
(* ids are reused, holders end at any time, and a dead holder stays a      *)
(* zombie until it is reaped.                                              *)
(*                                                                         *)
(* A run stands for its token, which no other run draws.  Two runs may be  *)
(* about the same feature.  The kernel frees the flock at the step that    *)
(* turns the process into a zombie.                                        *)
(***************************************************************************)
EXTENDS Naturals, FiniteSets

CONSTANTS Run, Feature, Pid,
          FeatureOf,    \* the feature a run merges
          MaxStart,     \* bound on processes ever started, and their clock
          NoPid, NoRecord, Other,
          Faults        \* "die": a holder ends by itself while it waits, or
                        \*   before its run was told `held`;
                        \* "lose": also after that;
                        \* "reuse": unrelated processes take free pids

ASSUME RunAssumption == FeatureOf \in [Run -> Feature] /\ MaxStart \in Nat
ASSUME NullAssumption == NoPid \notin Pid /\ Other \notin Run

VARIABLES
    proc,      \* the process table: pid -> process, or NoProc
    born,      \* start time of the next process
    lock,      \* the pid whose process has the flock, or NoPid
    record,    \* the holder record in the common git directory
    run,       \* where each run is in SKILL.md
    seen,      \* the record a run's verify has read and not yet probed
    merged     \* features that are merged into their base

vars == <<proc, born, lock, record, run, seen, merged>>

Process ==
    [start : 0..MaxStart, of : Run,
     state : {"starting", "locked", "holding", "zombie"}]
    \cup [start : 0..MaxStart, of : {Other}, state : {"other"}]
NoProc == [start |-> 0, of |-> Other, state |-> "none"]
Record == [token : Run, pid : Pid, start : 0..MaxStart] \cup {NoRecord}

\* Where a run is: before the lock, in `verify --wait 30` of step 6, in
\* steps 6.4 to 12, in the second verify and the merge of step 13, in step 14.
BeforeLock == {"start", "checked"}
Verifying == {"verify1", "probe1"}
Critical == {"integrating", "verify2", "probe2", "merging"}
Confirmed == {"recheck"} \cup Critical
RunState == BeforeLock \cup Verifying \cup {"recheck"} \cup Critical
            \cup {"stopping", "ended"}

TypeOK ==
    /\ proc \in [Pid -> Process \cup {NoProc}]
    /\ born \in 0..MaxStart
    /\ lock \in Pid \cup {NoPid}
    /\ record \in Record
    /\ run \in [Run -> RunState]
    /\ seen \in [Run -> Record]
    /\ merged \subseteq Feature

Init ==
    /\ proc = [p \in Pid |-> NoProc]
    /\ born = 0
    /\ lock = NoPid
    /\ record = NoRecord
    /\ run = [r \in Run |-> "start"]
    /\ seen = [r \in Run |-> NoRecord]
    /\ merged = {}

----------------------------------------------------------------------------
(* Processes *)

Running(p) == proc[p].state \notin {"none", "zombie"}

Start(p, r, s) ==
    /\ proc[p] = NoProc
    /\ born < MaxStart
    /\ proc' = [proc EXCEPT ![p] = [start |-> born, of |-> r, state |-> s]]
    /\ born' = born + 1

\* The processes P end; their flock is freed with them.
Kill(P) ==
    /\ proc' = [p \in Pid |-> IF p \in P THEN [proc[p] EXCEPT !.state = "zombie"]
                                         ELSE proc[p]]
    /\ lock' = IF lock \in P THEN NoPid ELSE lock

HoldersOf(r) == {p \in Pid : Running(p) /\ proc[p].of = r}

\* Bug: the pid alone identifies the holder.
HolderAlive_PidOnly(rec) == Running(rec.pid)

\* holder_alive: the pid exists, is no zombie, and was started when the
\* recorded holder was.
HolderAlive(rec) == Running(rec.pid) /\ proc[rec.pid].start = rec.start

\* Bug: any live holder is taken for one's own.
Classify_AnyToken(rec, r) ==
    IF rec = NoRecord THEN "none" ELSE IF HolderAlive(rec) THEN "held" ELSE "none"

Classify(rec, r) ==
    IF rec = NoRecord THEN "none"
    ELSE IF ~HolderAlive(rec) THEN "none"
    ELSE IF rec.token = r THEN "held" ELSE "busy"

----------------------------------------------------------------------------
(* merge-lock.py hold *)

HoldFlock(p) ==
    /\ proc[p].state = "starting"
    /\ lock = NoPid
    /\ lock' = p
    /\ proc' = [proc EXCEPT ![p].state = "locked"]
    /\ UNCHANGED <<born, record, run, seen, merged>>

\* The lock is busy: reported, and the process ends without touching the
\* record.  The feature it names in its report is the record's.
HoldBusy(p) ==
    /\ proc[p].state = "starting"
    /\ lock # NoPid
    /\ Kill({p})
    /\ UNCHANGED <<born, record, run, seen, merged>>

\* write_record, atomically replaced; then the process waits to be ended.
HoldRecord(p) ==
    /\ proc[p].state = "locked"
    /\ record' = [token |-> proc[p].of, pid |-> p, start |-> proc[p].start]
    /\ proc' = [proc EXCEPT ![p].state = "holding"]
    /\ UNCHANGED <<born, lock, run, seen, merged>>

HolderDies(p) ==
    /\ "die" \in Faults
    /\ proc[p].state \in {"starting", "locked", "holding"}
    /\ run[proc[p].of] \in Confirmed => "lose" \in Faults
    /\ Kill({p})
    /\ UNCHANGED <<born, record, run, seen, merged>>

Reap(p) ==
    /\ proc[p].state = "zombie"
    /\ proc' = [proc EXCEPT ![p] = NoProc]
    /\ UNCHANGED <<born, lock, record, run, seen, merged>>

OtherStarts(p) ==
    /\ "reuse" \in Faults
    /\ Start(p, Other, "other")
    /\ UNCHANGED <<lock, record, run, seen, merged>>

OtherEnds(p) ==
    /\ proc[p].state = "other"
    /\ proc' = [proc EXCEPT ![p] = NoProc]
    /\ UNCHANGED <<born, lock, record, run, seen, merged>>

----------------------------------------------------------------------------
(* A merge run *)

Goto(r, s) == run' = [run EXCEPT ![r] = s]

\* Steps 4 and 5: a feature that is merged already needs no lock.
Precheck(r) ==
    /\ run[r] = "start"
    /\ Goto(r, IF FeatureOf[r] \in merged THEN "ended" ELSE "checked")
    /\ UNCHANGED <<proc, born, lock, record, seen, merged>>

\* Step 6.2: the holder is started in the background.
StartHold(r) ==
    /\ run[r] = "checked"
    /\ \E p \in Pid : Start(p, r, "starting")
    /\ Goto(r, "verify1")
    /\ UNCHANGED <<lock, record, seen, merged>>

VerifyRead(r) ==
    /\ run[r] \in {"verify1", "verify2"}
    /\ seen' = [seen EXCEPT ![r] = record]
    /\ Goto(r, IF run[r] = "verify1" THEN "probe1" ELSE "probe2")
    /\ UNCHANGED <<proc, born, lock, record, merged>>

\* What the run does on an answer.  `none` is polled again until the
\* deadline of --wait 30; the verify of step 13 does not wait.
AfterProbe(r, answer) ==
    CASE answer = "held" -> {IF run[r] = "probe1" THEN "recheck" ELSE "merging"}
      [] answer = "none" /\ run[r] = "probe1" -> {"verify1", "stopping"}
      [] OTHER -> {"stopping"}

VerifyProbe(r) ==
    /\ run[r] \in {"probe1", "probe2"}
    /\ \E s \in AfterProbe(r, Classify(seen[r], r)) : Goto(r, s)
    /\ seen' = [seen EXCEPT ![r] = NoRecord]
    /\ UNCHANGED <<proc, born, lock, record, merged>>

\* Bug: the answer of step 4 is used again.
Recheck_Skipped(r) ==
    /\ run[r] = "recheck"
    /\ Goto(r, "integrating")
    /\ UNCHANGED <<proc, born, lock, record, seen, merged>>

\* Step 6.4: whether the feature is merged is judged again under the lock.
Recheck(r) ==
    /\ run[r] = "recheck"
    /\ Goto(r, IF FeatureOf[r] \in merged THEN "stopping" ELSE "integrating")
    /\ UNCHANGED <<proc, born, lock, record, seen, merged>>

\* Steps 7 to 12: integrate the base, verify, wait for CI; any may stop.
Integrate(r) ==
    /\ run[r] = "integrating"
    /\ \E s \in {"verify2", "stopping"} : Goto(r, s)
    /\ UNCHANGED <<proc, born, lock, record, seen, merged>>

\* Step 13.3: the merge lands or fails.
Merge(r) ==
    /\ run[r] = "merging"
    /\ merged' \in {merged, merged \cup {FeatureOf[r]}}
    /\ Goto(r, "stopping")
    /\ UNCHANGED <<proc, born, lock, record, seen>>

\* Bug: only a holder that got as far as its record is stopped.
TaskStop_HoldingOnly(r) ==
    /\ run[r] = "stopping"
    /\ Kill({p \in HoldersOf(r) : proc[p].state = "holding"})
    /\ Goto(r, "ended")
    /\ UNCHANGED <<born, record, seen, merged>>

\* Step 14, and the stops of step 6.3: the background task is stopped.
TaskStop(r) ==
    /\ run[r] = "stopping"
    /\ Kill(HoldersOf(r))
    /\ Goto(r, "ended")
    /\ UNCHANGED <<born, record, seen, merged>>

\* The session of the run ends, and its background processes with it.
SessionDies(r) ==
    /\ run[r] # "ended"
    /\ Kill(HoldersOf(r))
    /\ Goto(r, "ended")
    /\ seen' = [seen EXCEPT ![r] = NoRecord]
    /\ UNCHANGED <<born, record, merged>>

RunStep(r) ==
    \/ Precheck(r) \/ StartHold(r) \/ VerifyRead(r) \/ VerifyProbe(r)
    \/ Recheck(r) \/ Integrate(r) \/ Merge(r) \/ TaskStop(r)

Next ==
    \/ \E p \in Pid : HoldFlock(p) \/ HoldBusy(p) \/ HoldRecord(p)
                      \/ HolderDies(p) \/ Reap(p)
                      \/ OtherStarts(p) \/ OtherEnds(p)
    \/ \E r \in Run : RunStep(r) \/ SessionDies(r)

Spec == Init /\ [][Next]_vars

----------------------------------------------------------------------------
(* Properties *)

\* What any reader concludes from a record, the one in place or an older one
\* it still has in hand: if the record's process is alive (holder_alive), that
\* very process has the flock.  So `held` and `lock_busy` are both true at
\* the moment of the probe, whatever dies and whatever pid comes back.
ProvedHolder ==
    \A rec \in {record} \cup {seen[r] : r \in Run} :
        rec # NoRecord => (HolderAlive(rec) => lock = rec.pid)

\* No other hold, however it ends, replaces the record of a waiting holder.
OwnRecord ==
    \A p \in Pid : proc[p].state = "holding" =>
        record = [token |-> proc[p].of, pid |-> p, start |-> proc[p].start]

\* Two runs are never both between the confirmed lock and the end of their
\* merge, as long as no holder ends by itself after its run was told `held`.
Serialized ==
    \A r, s \in Run : run[r] \in Critical /\ run[s] \in Critical => r = s

\* No run merges a feature that another run of it has merged meanwhile.
MergesOnce ==
    \A r \in Run : run[r] = "merging" => FeatureOf[r] \notin merged

\* A run that ended, on whatever path, leaves no process that has the lock or
\* may still take it.
EndedLeavesNoHolder ==
    \A r \in Run : run[r] = "ended" => HoldersOf(r) = {}

=============================================================================
