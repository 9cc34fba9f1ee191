--------------------------- MODULE Planning_proofs ---------------------------
(***************************************************************************)
(* Theorems about Planning, for any number of task ids, passes, crashes    *)
(* and spec changes, and any answer of the workers within the shape of a   *)
(* patch.                                                                  *)
(***************************************************************************)
EXTENDS Planning, TLAPS, FiniteSetTheorems, WellFoundedInduction

-----------------------------------------------------------------------------
(* The invariant *)

Task == [status : Statuses, by : 0..MaxPass, file : {"report", "plain"}]

PhaseState ==
    [status : {"initialized", "dispatching", "applying_patch", "completed"},
     discarded : BOOLEAN, stale : 0..1, applied : BOOLEAN]

WfTyped(w) ==
    /\ w = [plan |-> w.plan, implement |-> w.implement, review |-> w.review,
            base |-> w.base, tasks |-> w.tasks, tests |-> w.tests]
    /\ Ids(w) \subseteq TaskIds
    /\ \A i \in Ids(w) : w.tasks[i] \in Task

DiskTyped(d) ==
    /\ d = [wf |-> d.wf, ps |-> d.ps, auth |-> d.auth, art |-> d.art]
    /\ WfTyped(d.wf)
    /\ d.ps \in PhaseState
    /\ d.auth \in {"none", "granted", "spent"}
    /\ d.art \in {"none", "unverified", "verified"}

\* What holds of every answer a worker may give.
PatchTyped(p) ==
    /\ p.op \in {"replace_planning", "append_rework"}
    /\ p.run \in 0..MaxPass
    /\ DOMAIN p.entries \subseteq TaskIds
    /\ \A i \in DOMAIN p.entries : p.entries[i] \in {"report", "plain"}
    /\ \A s \in p.steps : s.to = "pending"

OrchTyped ==
    /\ orch = [pc |-> orch.pc, kind |-> orch.kind, pass |-> orch.pass,
               patch |-> orch.patch]
    /\ orch.pc \in Pcs
    /\ orch.pass \in 0..MaxPass
    /\ orch.patch = NoPatch \/ PatchTyped(orch.patch)
    /\ behind \in BOOLEAN
    /\ journal \in [TaskIds -> {"none", "launched", "merged", "failed"}]

\* A workflow that has every task that was ever launched; and where it may be
\* planned as if nothing had been, or its implementation is complete, those
\* tasks are merged.
Keeps(w) ==
    /\ \A i \in DOMAIN started :
        /\ i \in Ids(w)
        /\ w.tasks[i].by = started[i].by
        /\ journal[i] \in {"launched", "merged"} => w.tasks[i].file = started[i].file
    /\ w.plan = "pending" \/ w.implement = "completed" =>
        \A i \in DOMAIN started : w.tasks[i].status = "merged"

Good(d) == DiskTyped(d) /\ Keeps(d.wf)

\* A patch that is about to be written was accepted for what it is written over.
Judged ==
    orch.pc \in {"verified", "recorded"} =>
        /\ PatchTyped(orch.patch)
        /\ Accepted(disk.wf, journal, disk.auth, Origin, orch.patch)

\* Unverified artifacts are on the disk only, while their worker runs or nobody
\* does.
Contained ==
    /\ saved.art # "unverified"
    /\ disk.art = "unverified" => orch.pc \in {"working", "down", "stopped"}

\* A run is discarded for the first time, or the phase stops.
CountedOnce == orch.pc = "lost" => disk.ps.stale = 0 /\ saved.ps.stale = 0

IInv ==
    /\ Good(disk) /\ Good(saved) /\ OrchTyped /\ Judged /\ Contained /\ CountedOnce

-----------------------------------------------------------------------------
(* Writing a patch *)

LEMMA StepAfterIs ==
    ASSUME NEW w, NEW p, PatchTyped(p), NEW step
    PROVE  StepAfter(w, p, step) \in {w[step], "pending"}
<1> DEFINE set == {s \in p.steps : s.step = step}
<1>1. CASE set = {}
  BY <1>1 DEF StepAfter
<1>2. CASE set # {}
  <2>1. (CHOOSE s \in set : TRUE) \in set
    BY <1>2
  <2>2. (CHOOSE s \in set : TRUE).to = "pending"
    BY <2>1 DEF PatchTyped
  <2> QED
    BY <1>2, <2>2 DEF StepAfter
<1> QED
  BY <1>1, <1>2

\* The fields of the workflow a patch makes.
LEMMA ApplyIs ==
    ASSUME NEW w, WfTyped(w), NEW p
    PROVE  /\ Apply(w, p).plan = w.plan
           /\ Apply(w, p).implement = StepAfter(w, p, "implement")
           /\ Apply(w, p).tasks = IF p.op = "replace_planning"
                                  THEN Joined(Corrected(w, p), p) ELSE Joined(w.tasks, p)
           /\ Apply(w, p) = [plan |-> Apply(w, p).plan,
                             implement |-> Apply(w, p).implement,
                             review |-> Apply(w, p).review, base |-> Apply(w, p).base,
                             tasks |-> Apply(w, p).tasks, tests |-> Apply(w, p).tests]
<1> DEFINE T == IF p.op = "replace_planning"
                THEN Joined(Corrected(w, p), p) ELSE Joined(w.tasks, p)
           S == SwapAll(w.tests, p.swaps) \o p.more
           I == StepAfter(w, p, "implement")
           R == StepAfter(w, p, "review")
<1>1. Apply(w, p) = [w EXCEPT !.tasks = T, !.tests = S, !.implement = I, !.review = R]
  BY DEF Apply
<1>2. w = [plan |-> w.plan, implement |-> w.implement, review |-> w.review,
           base |-> w.base, tasks |-> w.tasks, tests |-> w.tests]
  BY DEF WfTyped
<1> HIDE DEF T, S, I, R
<1>3. Apply(w, p) = [plan |-> w.plan, implement |-> I, review |-> R,
                     base |-> w.base, tasks |-> T, tests |-> S]
  BY <1>1, <1>2
<1> QED
  BY <1>3 DEF T, I

\* What a patch makes of the tasks: with the ids carried over it keeps those of
\* w, and has its own entries besides.
LEMMA JoinedIs ==
    ASSUME NEW w, WfTyped(w), NEW p, PatchTyped(p), EntriesOk(p),
           DOMAIN p.entries \cap Ids(w) = {}, NEW t, t = Joined(w.tasks, p)
    PROVE  /\ DOMAIN t = Ids(w) \cup DOMAIN p.entries
           /\ \A i \in DOMAIN t : t[i] \in Task
           /\ \A i \in Ids(w) : t[i] = w.tasks[i]
<1>1. \A i \in DOMAIN p.entries : NewTask(p, i) \in Task
  BY DEF PatchTyped, NewTask, Task, Statuses
<1> QED
  BY <1>1 DEF Joined, Ids, WfTyped

LEMMA CorrectedIs ==
    ASSUME NEW w, WfTyped(w), NEW p, PatchTyped(p), EntriesOk(p),
           NEW t, t = Joined(Corrected(w, p), p)
    PROVE  /\ DOMAIN t = (p.carried \cap Ids(w)) \cup DOMAIN p.entries
           /\ \A i \in DOMAIN t : t[i] \in Task
           /\ \A i \in (p.carried \cap Ids(w)) \ DOMAIN p.entries :
                  /\ t[i].by = w.tasks[i].by /\ t[i].status = w.tasks[i].status
                  /\ i \notin p.fix => t[i].file = w.tasks[i].file
<1> DEFINE C == Corrected(w, p)
<1>1. \A i \in DOMAIN p.entries : NewTask(p, i) \in Task
  BY DEF PatchTyped, NewTask, Task, Statuses
<1>2. ASSUME NEW i \in Ids(w)
      PROVE  LET u == [w.tasks[i] EXCEPT !.file = "plain"] IN
             u \in Task /\ u.by = w.tasks[i].by /\ u.status = w.tasks[i].status
  BY DEF WfTyped, Task
<1>3. DOMAIN C = p.carried \cap Ids(w)
      /\ \A i \in DOMAIN C : C[i] = IF i \in p.fix THEN [w.tasks[i] EXCEPT !.file = "plain"]
                                    ELSE w.tasks[i]
  BY DEF Corrected
<1>4. \A i \in DOMAIN C : /\ C[i] \in Task
                          /\ C[i].by = w.tasks[i].by /\ C[i].status = w.tasks[i].status
                          /\ i \notin p.fix => C[i].file = w.tasks[i].file
  BY <1>2, <1>3 DEF WfTyped
<1> HIDE DEF C
<1>5. DOMAIN Joined(C, p) = DOMAIN C \cup DOMAIN p.entries
      /\ \A i \in DOMAIN Joined(C, p) :
             Joined(C, p)[i] = IF i \in DOMAIN p.entries THEN NewTask(p, i) ELSE C[i]
  BY DEF Joined
<1>6. /\ DOMAIN Joined(C, p) = (p.carried \cap Ids(w)) \cup DOMAIN p.entries
      /\ \A i \in DOMAIN Joined(C, p) : Joined(C, p)[i] \in Task
      /\ \A i \in (p.carried \cap Ids(w)) \ DOMAIN p.entries :
             /\ Joined(C, p)[i].by = w.tasks[i].by
             /\ Joined(C, p)[i].status = w.tasks[i].status
             /\ i \notin p.fix => Joined(C, p)[i].file = w.tasks[i].file
  BY <1>1, <1>3, <1>4, <1>5
<1> QED
  BY <1>6 DEF C

\* Where a task was ever launched, what the validator accepts carries every id.
LEMMA AcceptedCarries ==
    ASSUME NEW w, WfTyped(w), Keeps(w), NEW auth, NEW p, p.op = "replace_planning",
           Accepted(w, journal, auth, Origin, p), DOMAIN started # {}
    PROVE  p.carried = Ids(w) /\ DOMAIN p.entries \cap Ids(w) = {}
<1>1. ReplaceOk(w, auth, p)
  BY DEF Accepted
<1>2. CASE PathState(w, auth, p) = "correction" \/ Replanning(w, auth)
  BY <1>1, <1>2 DEF ReplaceOk, CarryOk
<1>3. CASE ~(PathState(w, auth, p) = "correction" \/ Replanning(w, auth))
  <2>1. w.plan \in {"pending", "needs_update"} /\ ~SomeTask(w, Statuses \ {"pending"})
    BY <1>1, <1>3 DEF ReplaceOk
  <2>2. w.plan = "pending"
    BY <1>3, <2>1 DEF Replanning
  <2>3. PICK i \in DOMAIN started : i \in Ids(w) /\ w.tasks[i].status = "merged"
    BY <2>2 DEF Keeps
  <2> QED
    BY <2>1, <2>3 DEF SomeTask, Statuses
<1> QED
  BY <1>2, <1>3

\* Writing an accepted patch keeps every task that was ever launched, the path
\* of one in flight or merged too.
LEMMA ApplyKeeps ==
    ASSUME NEW w, WfTyped(w), Keeps(w), NEW auth, NEW p, PatchTyped(p),
           Accepted(w, journal, auth, Origin, p)
    PROVE  WfTyped(Apply(w, p)) /\ Keeps(Apply(w, p))
<1> DEFINE v == Apply(w, p)
<1>1. /\ v.plan = w.plan /\ v.implement \in {w.implement, "pending"}
      /\ v.tasks = IF p.op = "replace_planning"
                   THEN Joined(Corrected(w, p), p) ELSE Joined(w.tasks, p)
      /\ v = [plan |-> v.plan, implement |-> v.implement, review |-> v.review,
              base |-> v.base, tasks |-> v.tasks, tests |-> v.tests]
  <2>1. StepAfter(w, p, "implement") \in {w.implement, "pending"}
    <3>1. w["implement"] = w.implement
      OBVIOUS
    <3> QED
      BY <3>1, StepAfterIs
  <2> QED
    BY <2>1, ApplyIs
<1>2. EntriesOk(p) /\ CorrectionOk(w, journal, p)
  BY DEF Accepted
<1>3. /\ DOMAIN v.tasks \subseteq TaskIds
      /\ \A i \in DOMAIN v.tasks : v.tasks[i] \in Task
      /\ \A i \in DOMAIN started :
             /\ i \in DOMAIN v.tasks
             /\ v.tasks[i].by = w.tasks[i].by /\ v.tasks[i].status = w.tasks[i].status
             /\ journal[i] \in {"launched", "merged"} => v.tasks[i].file = w.tasks[i].file
  <2>0. Ids(w) \subseteq TaskIds /\ DOMAIN p.entries \subseteq TaskIds
        /\ \A i \in DOMAIN started : i \in Ids(w)
    BY DEF WfTyped, PatchTyped, Keeps
  <2>1. CASE p.op = "replace_planning"
    <3>1. v.tasks = Joined(Corrected(w, p), p)
      BY <1>1, <2>1
    <3>2. /\ DOMAIN v.tasks = (p.carried \cap Ids(w)) \cup DOMAIN p.entries
          /\ \A i \in DOMAIN v.tasks : v.tasks[i] \in Task
          /\ \A i \in (p.carried \cap Ids(w)) \ DOMAIN p.entries :
                 /\ v.tasks[i].by = w.tasks[i].by /\ v.tasks[i].status = w.tasks[i].status
                 /\ i \notin p.fix => v.tasks[i].file = w.tasks[i].file
      <4>1. EntriesOk(p)
        BY <1>2
      <4> HIDE DEF v
      <4> QED
        BY <3>1, <4>1, CorrectedIs, SMTT(30)
    <3>3. ASSUME NEW i \in DOMAIN started
          PROVE  i \in (p.carried \cap Ids(w)) \ DOMAIN p.entries
      BY <2>0, <2>1, <3>3, AcceptedCarries
    <3>4. ASSUME NEW i \in DOMAIN started, journal[i] \in {"launched", "merged"}
          PROVE  i \notin p.fix
      <4>1. i \in Ids(w)
        BY <2>0
      <4> QED
        BY <1>2, <3>4, <4>1 DEF CorrectionOk, InFlight, Merged
    <3> QED
      BY <2>0, <3>2, <3>3, <3>4
  <2>2. CASE p.op = "append_rework"
    <3>1. v.tasks = Joined(w.tasks, p)
      BY <1>1, <2>2
    <3>2. DOMAIN p.entries \cap Ids(w) = {}
      BY <2>2 DEF Accepted, AppendOk
    <3>3. /\ DOMAIN v.tasks = Ids(w) \cup DOMAIN p.entries
          /\ \A i \in DOMAIN v.tasks : v.tasks[i] \in Task
          /\ \A i \in Ids(w) : v.tasks[i] = w.tasks[i]
      <4>1. EntriesOk(p)
        BY <1>2
      <4> HIDE DEF v
      <4> QED
        BY <3>1, <3>2, <4>1, JoinedIs
    <3> QED
      BY <2>0, <3>3
  <2> QED
    BY <2>1, <2>2 DEF PatchTyped
<1> HIDE DEF v
<1>4. WfTyped(v)
  BY <1>1, <1>3 DEF WfTyped, Ids
<1>5. Keeps(v)
  BY <1>1, <1>3 DEF Keeps, Ids
<1> QED
  BY <1>4, <1>5 DEF v
-----------------------------------------------------------------------------
(* Commits *)

LEMMA GoIs ==
    ASSUME OrchTyped, NEW pc \in Pcs, Go(pc)
    PROVE  /\ orch' = [pc |-> pc, kind |-> orch.kind, pass |-> orch.pass,
                       patch |-> orch.patch]
           /\ orch'.pc = pc /\ orch'.kind = orch.kind /\ orch'.pass = orch.pass
           /\ orch'.patch = orch.patch
BY DEF OrchTyped, Go

LEMMA OrchKept ==
    ASSUME OrchTyped, NEW pc \in Pcs, Go(pc), behind' \in BOOLEAN, UNCHANGED journal
    PROVE  OrchTyped'
<1>1. /\ orch' = [pc |-> pc, kind |-> orch.kind, pass |-> orch.pass,
                  patch |-> orch.patch]
      /\ orch'.pc = pc /\ orch'.kind = orch.kind /\ orch'.pass = orch.pass
      /\ orch'.patch = orch.patch
  BY GoIs
<1> QED
  BY <1>1 DEF OrchTyped, PatchTyped

\* A commit of either of two good records, where a second exit 4 stops.
LEMMA RecordKeeps ==
    ASSUME IInv, NEW once, NEW again, Good(once), Good(again),
           once.art # "unverified", again.art # "unverified",
           NEW pc \in {"working", "dispatch", "committed", "idle"},
           Record(once, again, pc), UNCHANGED <<journal, started>>
    PROVE  IInv'
<1>1. /\ disk' \in {once, again, saved} /\ saved' \in {once, again, saved}
      /\ behind' \in BOOLEAN
  BY DEF Record, IInv, OrchTyped
<1>2. PICK go \in {pc, "stopped"} : Go(go)
  BY DEF Record
<1>3. go \in Pcs /\ orch'.pc = go
  BY <1>2, GoIs DEF Pcs, IInv
<1>4. OrchTyped'
  BY <1>1, <1>2, <1>3, OrchKept DEF IInv
<1>5. DiskTyped(disk') /\ Keeps(disk'.wf) /\ DiskTyped(saved') /\ Keeps(saved'.wf)
      /\ saved'.art # "unverified" /\ disk'.art # "unverified"
  BY <1>1 DEF IInv, Good, Contained
<1>6. Good(disk)' /\ Good(saved)'
  BY <1>5 DEF Good, Keeps
<1> QED
  BY <1>3, <1>4, <1>5, <1>6 DEF IInv, Judged, Contained, CountedOnce

\* A write to the phase state, the artifacts or the plan's status alone.
LEMMA DiskFacts ==
    ASSUME NEW d, Good(d)
    PROVE  /\ d = [wf |-> d.wf, ps |-> d.ps, auth |-> d.auth, art |-> d.art]
           /\ d.ps = [status |-> d.ps.status, discarded |-> d.ps.discarded,
                      stale |-> d.ps.stale, applied |-> d.ps.applied]
           /\ d.ps \in PhaseState /\ d.ps.stale \in 0..1
           /\ d.art \in {"none", "unverified", "verified"}
           /\ d.auth \in {"none", "granted", "spent"}
           /\ WfTyped(d.wf) /\ Keeps(d.wf)
BY DEF Good, DiskTyped, PhaseState

LEMMA PsTyped ==
    ASSUME NEW ps \in PhaseState, NEW x \in 0..1
    PROVE  /\ [ps EXCEPT !.status = "completed", !.stale = x] \in PhaseState
           /\ [ps EXCEPT !.status = "dispatching", !.discarded = TRUE, !.stale = x]
                  \in PhaseState
BY DEF PhaseState

LEMMA PsWritten ==
    ASSUME NEW d, Good(d), NEW ps
    PROVE  [d EXCEPT !.ps = ps] = [wf |-> d.wf, ps |-> ps, auth |-> d.auth, art |-> d.art]
<1>1. d = [wf |-> d.wf, ps |-> d.ps, auth |-> d.auth, art |-> d.art]
  BY DiskFacts
<1> QED
  BY <1>1

LEMMA GoodDisk ==
    ASSUME NEW w, NEW ps \in PhaseState, NEW auth \in {"none", "granted", "spent"},
           NEW art \in {"none", "unverified", "verified"}, WfTyped(w), Keeps(w)
    PROVE  Good([wf |-> w, ps |-> ps, auth |-> auth, art |-> art])
BY DEF Good, DiskTyped

LEMMA DispatchKeeps ==
    ASSUME IInv, Dispatch
    PROVE  IInv'
<1>1. UNCHANGED <<journal, started>> /\ At("dispatch") /\ OrchTyped
  BY DEF Dispatch, IInv
<1>2. ASSUME NEW d \in {disk, saved}
      PROVE  Good(Dispatched(d)) /\ Dispatched(d).art = d.art
  <2>1. Good(d)
    BY DEF IInv
  <2> DEFINE ps == [d.ps EXCEPT !.status = "dispatching", !.discarded = FALSE,
                                !.applied = FALSE]
  <2>2. Dispatched(d) = [d EXCEPT !.ps = ps]
    <3>1. d = [wf |-> d.wf, ps |-> d.ps, auth |-> d.auth, art |-> d.art]
      BY <2>1, DiskFacts
    <3> QED
      BY <3>1 DEF Dispatched
  <2>3. ps \in PhaseState
    <3>1. d.ps \in PhaseState
      BY <2>1, DiskFacts
    <3> QED
      BY <3>1 DEF PhaseState
  <2> HIDE DEF ps
  <2>4. Dispatched(d) = [wf |-> d.wf, ps |-> ps, auth |-> d.auth, art |-> d.art]
    BY <2>1, <2>2, PsWritten
  <2>5. /\ d.auth \in {"none", "granted", "spent"}
        /\ d.art \in {"none", "unverified", "verified"}
        /\ WfTyped(d.wf) /\ Keeps(d.wf)
    BY <2>1, DiskFacts
  <2>6. Good([wf |-> d.wf, ps |-> ps, auth |-> d.auth, art |-> d.art])
    BY <2>3, <2>5, GoodDisk
  <2> QED
    BY <2>4, <2>6
<1>3. CASE Clean(disk, saved)
  <2>1. disk.art # "unverified" /\ saved.art # "unverified"
    BY <1>3 DEF Clean, IInv, Contained
  <2>2. Record(Dispatched(disk), Dispatched(saved), "working")
    BY <1>3 DEF Dispatch
  <2> QED
    BY <1>1, <1>2, <2>1, <2>2, RecordKeeps
<1>4. CASE ~Clean(disk, saved)
  <2>1. Go("stopped") /\ UNCHANGED <<disk, saved, behind>>
    BY <1>4 DEF Dispatch
  <2>2. OrchTyped' /\ orch'.pc = "stopped"
    BY <1>1, <2>1, GoIs, OrchKept DEF Pcs, OrchTyped
  <2>3. Good(disk)' /\ Good(saved)'
    BY <1>1, <2>1 DEF IInv, Good, Keeps
  <2> QED
    BY <2>1, <2>2, <2>3 DEF IInv, Judged, Contained, CountedOnce
<1> QED
  BY <1>3, <1>4

LEMMA RecordDiscardedKeeps ==
    ASSUME IInv, RecordDiscarded
    PROVE  IInv'
<1>1. UNCHANGED <<journal, started>> /\ At("lost")
      /\ Record(Discarded(disk), Discarded(saved), "dispatch")
  BY DEF RecordDiscarded
<1>2. disk.ps.stale = 0 /\ saved.ps.stale = 0
      /\ disk.art # "unverified" /\ saved.art # "unverified"
  BY <1>1 DEF At, IInv, CountedOnce, Contained
<1>3. ASSUME NEW d \in {disk, saved}
      PROVE  Good(Discarded(d)) /\ Discarded(d).art = d.art
  <2>1. Good(d) /\ d.ps.stale = 0
    BY <1>2 DEF IInv
  <2> DEFINE ps == [d.ps EXCEPT !.status = "dispatching", !.discarded = TRUE, !.stale = @ + 1]
  <2>2. Discarded(d) = [d EXCEPT !.ps = ps]
    <3>1. d = [wf |-> d.wf, ps |-> d.ps, auth |-> d.auth, art |-> d.art]
      BY <2>1, DiskFacts
    <3> QED
      BY <3>1 DEF Discarded
  <2>3. ps \in PhaseState
    <3>1. d.ps \in PhaseState
      BY <2>1, DiskFacts
    <3>2. ps = [d.ps EXCEPT !.status = "dispatching", !.discarded = TRUE,
                            !.stale = d.ps.stale + 1]
      BY Zenon
    <3>3. d.ps.stale + 1 \in 0..1
      BY <2>1
    <3> HIDE DEF ps
    <3> QED
      BY <3>1, <3>2, <3>3, PsTyped
  <2> HIDE DEF ps
  <2>4. Discarded(d) = [wf |-> d.wf, ps |-> ps, auth |-> d.auth, art |-> d.art]
    BY <2>1, <2>2, PsWritten
  <2>5. /\ d.auth \in {"none", "granted", "spent"}
        /\ d.art \in {"none", "unverified", "verified"}
        /\ WfTyped(d.wf) /\ Keeps(d.wf)
    BY <2>1, DiskFacts
  <2>6. Good([wf |-> d.wf, ps |-> ps, auth |-> d.auth, art |-> d.art])
    BY <2>3, <2>5, GoodDisk
  <2> QED
    BY <2>4, <2>6
<1> QED
  BY <1>1, <1>2, <1>3, RecordKeeps

\* Completing the planning step only takes the plan out of `pending`.
LEMMA CompleteKeeps ==
    ASSUME IInv, Complete
    PROVE  IInv'
<1>1. UNCHANGED <<journal, started>> /\ At("committed")
      /\ Record(Completed(disk), Completed(saved), "idle")
  BY DEF Complete
<1>2. disk.art # "unverified" /\ saved.art # "unverified"
  BY <1>1 DEF At, IInv, Contained
<1>3. ASSUME NEW d \in {disk, saved}
      PROVE  Good(Completed(d)) /\ Completed(d).art = d.art
  <2> DEFINE plan == IF orch.kind = "plan" THEN "completed" ELSE d.wf.plan
             w == [d.wf EXCEPT !.plan = plan]
             ps == [d.ps EXCEPT !.status = "completed", !.stale = 0]
  <2>1. Good(d)
    BY DEF IInv
  <2>2. /\ d = [wf |-> d.wf, ps |-> d.ps, auth |-> d.auth, art |-> d.art]
        /\ WfTyped(d.wf) /\ Keeps(d.wf) /\ d.ps \in PhaseState
        /\ d.art \in {"none", "unverified", "verified"}
        /\ d.auth \in {"none", "granted", "spent"}
    BY <2>1, DiskFacts
  <2>3. Completed(d) = [d EXCEPT !.ps = ps, !.wf = w]
    BY <2>2 DEF Completed
  <2>4. w = [plan |-> plan, implement |-> d.wf.implement, review |-> d.wf.review,
             base |-> d.wf.base, tasks |-> d.wf.tasks, tests |-> d.wf.tests]
    BY <2>2 DEF WfTyped
  <2>5. plan = "pending" => d.wf.plan = "pending"
    OBVIOUS
  <2> HIDE DEF plan
  <2>6. WfTyped(w) /\ Keeps(w)
    <3> HIDE DEF w
    <3> QED
      BY <2>2, <2>4, <2>5 DEF WfTyped, Keeps, Ids
  <2>7. ps \in PhaseState
    <3>1. 0 \in 0..1
      OBVIOUS
    <3> QED
      BY <2>2, <3>1, PsTyped
  <2> HIDE DEF w, ps
  <2>8. Completed(d) = [wf |-> w, ps |-> ps, auth |-> d.auth, art |-> d.art]
    BY <2>2, <2>3
  <2>9. Good([wf |-> w, ps |-> ps, auth |-> d.auth, art |-> d.art])
    BY <2>2, <2>6, <2>7, GoodDisk
  <2> QED
    BY <2>8, <2>9
<1> QED
  BY <1>1, <1>2, <1>3, RecordKeeps
-----------------------------------------------------------------------------
(* The worker and the write *)

LEMMA GoodPrimed ==
    ASSUME UNCHANGED <<journal, started>>, Good(disk'), Good(saved')
    PROVE  Good(disk)' /\ Good(saved)'
BY DEF Good, Keeps

LEMMA ArtWritten ==
    ASSUME NEW d, Good(d), NEW art \in {"none", "unverified", "verified"}
    PROVE  /\ [d EXCEPT !.art = art]
                  = [wf |-> d.wf, ps |-> d.ps, auth |-> d.auth, art |-> art]
           /\ Good([d EXCEPT !.art = art])
<1>1. d = [wf |-> d.wf, ps |-> d.ps, auth |-> d.auth, art |-> d.art]
  BY DiskFacts
<1>2. [d EXCEPT !.art = art] = [wf |-> d.wf, ps |-> d.ps, auth |-> d.auth, art |-> art]
  BY <1>1
<1>3. /\ d.ps \in PhaseState /\ d.auth \in {"none", "granted", "spent"}
      /\ WfTyped(d.wf) /\ Keeps(d.wf)
  BY DiskFacts
<1>4. Good([wf |-> d.wf, ps |-> d.ps, auth |-> d.auth, art |-> art])
  BY <1>3, GoodDisk
<1> QED
  BY <1>2, <1>4

LEMMA WfWritten ==
    ASSUME NEW d, Good(d), NEW w, WfTyped(w), Keeps(w)
    PROVE  /\ [d EXCEPT !.wf = w]
                  = [wf |-> w, ps |-> d.ps, auth |-> d.auth, art |-> d.art]
           /\ Good([d EXCEPT !.wf = w])
<1>1. d = [wf |-> d.wf, ps |-> d.ps, auth |-> d.auth, art |-> d.art]
  BY DiskFacts
<1>2. [d EXCEPT !.wf = w] = [wf |-> w, ps |-> d.ps, auth |-> d.auth, art |-> d.art]
  BY <1>1
<1>3. /\ d.ps \in PhaseState /\ d.auth \in {"none", "granted", "spent"}
      /\ d.art \in {"none", "unverified", "verified"}
  BY DiskFacts
<1>4. Good([wf |-> w, ps |-> d.ps, auth |-> d.auth, art |-> d.art])
  BY <1>3, GoodDisk
<1> QED
  BY <1>2, <1>4

\* Every answer has the shape of a patch.
LEMMA AnswersTyped ==
    ASSUME OrchTyped, NEW w, NEW p \in Answers(w)
    PROVE  PatchTyped(p) /\ p # NoPatch
<1>1. orch.pass \in 0..MaxPass
  BY DEF OrchTyped
<1>2. DOMAIN <<>> = {}
  OBVIOUS
<1>3. CASE p \in Replacing(w)
  <2>1. /\ p.op = "replace_planning" /\ p.run = orch.pass /\ p.steps = {}
        /\ p.entries \in {<<>>} \cup UNION {[{i} -> {"plain", "report"}] : i \in TaskIds}
    BY <1>3 DEF Replacing
  <2>2. CASE p.entries = <<>>
    BY <1>1, <1>2, <2>1, <2>2 DEF PatchTyped, NoPatch
  <2>3. CASE \E i \in TaskIds : p.entries \in [{i} -> {"plain", "report"}]
    BY <1>1, <2>1, <2>3 DEF PatchTyped, NoPatch
  <2> QED
    BY <2>1, <2>2, <2>3
<1>4. CASE p \in Appending(w)
  <2>1. /\ p.op = "append_rework" /\ p.run = orch.pass
        /\ p.steps \in {{[step |-> s, from |-> w[s], to |-> "pending"]} :
                             s \in {"implement", "review"}}
        /\ p.entries \in {<<>>} \cup
               UNION {[{i} -> {"plain"}] : i \in {1, NextId(w)} \cap TaskIds}
    BY <1>4 DEF Appending
  <2>2. \A s \in p.steps : s.to = "pending"
    BY <2>1
  <2>3. CASE p.entries = <<>>
    BY <1>1, <1>2, <2>1, <2>2, <2>3 DEF PatchTyped, NoPatch
  <2>4. CASE \E i \in TaskIds : p.entries \in [{i} -> {"plain"}]
    BY <1>1, <2>1, <2>2, <2>4 DEF PatchTyped, NoPatch
  <2> QED
    BY <2>1, <2>3, <2>4
<1> QED
  BY <1>3, <1>4 DEF Answers

LEMMA WorkerWritesKeeps ==
    ASSUME IInv, WorkerWrites
    PROVE  IInv'
<1>1. UNCHANGED <<saved, behind, orch, journal, started>> /\ orch.pc = "working"
      /\ disk' = [disk EXCEPT !.art = "unverified"]
  BY DEF WorkerWrites, At
<1>2. Good(disk') /\ Good(saved')
  BY <1>1, ArtWritten DEF IInv
<1>3. Good(disk)' /\ Good(saved)'
  BY <1>1, <1>2, GoodPrimed
<1> QED
  BY <1>1, <1>3 DEF IInv, OrchTyped, PatchTyped, Judged, Contained, CountedOnce

LEMMA ReturnKeeps ==
    ASSUME IInv, NEW p \in Answers(disk.wf), Return(p)
    PROVE  IInv'
<1>1. /\ UNCHANGED <<saved, behind, journal, started>>
      /\ disk' = [disk EXCEPT !.art = "verified"]
      /\ orch' = [orch EXCEPT !.pc = "verified", !.patch = p]
      /\ Accepted(disk.wf, journal, disk.auth, Origin, p)
  BY DEF Return
<1>2. PatchTyped(p)
  BY AnswersTyped DEF IInv
<1>3. Good(disk') /\ Good(saved') /\ disk'.wf = disk.wf /\ disk'.auth = disk.auth
      /\ disk'.art = "verified"
  <2>1. Good(disk) /\ Good(saved)
    BY DEF IInv
  <2>2. disk' = [wf |-> disk.wf, ps |-> disk.ps, auth |-> disk.auth, art |-> "verified"]
        /\ Good(disk')
    BY <1>1, <2>1, ArtWritten
  <2> QED
    BY <1>1, <2>1, <2>2
<1>4. Good(disk)' /\ Good(saved)'
  BY <1>1, <1>3, GoodPrimed
<1>5. orch' = [pc |-> "verified", kind |-> orch.kind, pass |-> orch.pass, patch |-> p]
  BY <1>1 DEF IInv, OrchTyped
<1>6. OrchTyped'
  BY <1>1, <1>2, <1>5 DEF IInv, OrchTyped, PatchTyped, Pcs
<1>7. Accepted(disk'.wf, journal', disk'.auth, Origin, p)
  BY <1>1, <1>3
<1>8. Judged'
  BY <1>2, <1>5, <1>7 DEF Judged, PatchTyped
<1> QED
  BY <1>1, <1>3, <1>4, <1>5, <1>6, <1>8 DEF IInv, Contained, CountedOnce

LEMMA RefuseKeeps ==
    ASSUME IInv, Refuse
    PROVE  IInv'
<1>1. UNCHANGED <<disk, saved, behind, journal, started>> /\ Go("stopped")
  BY DEF Refuse
<1>2. OrchTyped' /\ orch'.pc = "stopped"
  BY <1>1, GoIs, OrchKept DEF Pcs, OrchTyped, IInv
<1>3. Good(disk)' /\ Good(saved)'
  BY <1>1, GoodPrimed DEF IInv
<1> QED
  BY <1>1, <1>2, <1>3 DEF IInv, Judged, Contained, CountedOnce

\* A commit of the worker's work, or the reset that loses it.
LEMMA CommitWorkKeeps ==
    ASSUME IInv, NEW d, Good(d), d.art # "unverified",
           NEW pc \in {"recorded", "applied"}, CommitWork(d, pc),
           UNCHANGED <<journal, started>>,
           pc = "recorded" => /\ PatchTyped(orch.patch)
                              /\ Accepted(d.wf, journal, d.auth, Origin, orch.patch)
    PROVE  IInv'
<1>1. CASE behind
  <2>1. disk' = saved /\ behind' = FALSE /\ UNCHANGED saved
        /\ Go(IF Exceeded(saved.ps.stale) THEN "stopped" ELSE "lost")
    BY <1>1 DEF CommitWork
  <2>2. Good(disk)' /\ Good(saved)'
    BY <2>1, GoodPrimed DEF IInv
  <2>3. saved.ps.stale \in 0..1
    BY DiskFacts DEF IInv
  <2>4. PICK go \in {"stopped", "lost"} :
            Go(go) /\ (go = "lost" => saved.ps.stale = 0)
    BY <2>1, <2>3 DEF Exceeded
  <2>5. OrchTyped' /\ orch'.pc = go
    BY <2>1, <2>4, GoIs, OrchKept DEF Pcs, OrchTyped, IInv
  <2> QED
    BY <2>1, <2>2, <2>4, <2>5 DEF IInv, Judged, Contained, CountedOnce
<1>2. CASE ~behind
  <2>1. disk' = d /\ saved' = d /\ Go(pc) /\ UNCHANGED behind
    BY <1>2 DEF CommitWork
  <2>2. Good(disk)' /\ Good(saved)'
    BY <2>1, GoodPrimed
  <2>3. OrchTyped' /\ orch'.pc = pc /\ orch'.patch = orch.patch
    BY <2>1, GoIs, OrchKept DEF Pcs, OrchTyped, IInv
  <2>4. Judged'
    BY <2>1, <2>3 DEF Judged, PatchTyped
  <2> QED
    BY <2>1, <2>2, <2>3, <2>4 DEF IInv, Contained, CountedOnce
<1> QED
  BY <1>1, <1>2 DEF IInv, OrchTyped

LEMMA RecordResultKeeps ==
    ASSUME IInv, RecordResult
    PROVE  IInv'
<1> DEFINE ps == [disk.ps EXCEPT !.status = "applying_patch"]
           d == [disk EXCEPT !.ps = ps]
<1>1. UNCHANGED <<journal, started>> /\ orch.pc = "verified"
  BY DEF RecordResult, At
<1>2. disk = [wf |-> disk.wf, ps |-> disk.ps, auth |-> disk.auth, art |-> disk.art]
      /\ disk.ps \in PhaseState /\ Good(disk)
  BY DiskFacts DEF IInv
<1>3. CommitWork(d, "recorded")
  <2>1. d = [disk EXCEPT !.ps.status = "applying_patch"]
    BY <1>2
  <2> HIDE DEF d
  <2> QED
    BY <2>1 DEF RecordResult
<1>4. ps \in PhaseState
  BY <1>2 DEF PhaseState
<1> HIDE DEF ps
<1>5. d = [wf |-> disk.wf, ps |-> ps, auth |-> disk.auth, art |-> disk.art]
  BY <1>2
<1>6. Good([wf |-> disk.wf, ps |-> ps, auth |-> disk.auth, art |-> disk.art])
  <2>1. /\ disk.auth \in {"none", "granted", "spent"}
        /\ disk.art \in {"none", "unverified", "verified"}
        /\ WfTyped(disk.wf) /\ Keeps(disk.wf)
    BY <1>2, DiskFacts
  <2> QED
    BY <1>4, <2>1, GoodDisk
<1> HIDE DEF d
<1>7. Good(d) /\ d.wf = disk.wf /\ d.auth = disk.auth /\ d.art = disk.art
  BY <1>5, <1>6
<1>8. d.art # "unverified"
  BY <1>1, <1>7 DEF IInv, Contained
<1>9. PatchTyped(orch.patch) /\ Accepted(d.wf, journal, d.auth, Origin, orch.patch)
  BY <1>1, <1>7 DEF IInv, Judged
<1> QED
  BY <1>1, <1>3, <1>7, <1>8, <1>9, CommitWorkKeeps

LEMMA WritePatchKeeps ==
    ASSUME IInv, WritePatch
    PROVE  IInv'
<1> DEFINE w == Apply(disk.wf, orch.patch)
<1>1. UNCHANGED <<saved, behind, journal, started>> /\ Go("written")
      /\ orch.pc = "recorded" /\ disk' = [disk EXCEPT !.wf = w]
  BY DEF WritePatch, At
<1>2. Good(disk) /\ WfTyped(disk.wf) /\ Keeps(disk.wf)
  BY DiskFacts DEF IInv
<1>3. WfTyped(w) /\ Keeps(w)
  BY <1>1, <1>2, ApplyKeeps DEF IInv, Judged
<1> HIDE DEF w
<1>4. Good(disk') /\ disk'.art = disk.art
  <2>1. disk' = [wf |-> w, ps |-> disk.ps, auth |-> disk.auth, art |-> disk.art]
        /\ Good(disk')
    BY <1>1, <1>2, <1>3, WfWritten
  <2> QED
    BY <2>1
<1>5. Good(disk)' /\ Good(saved)'
  BY <1>1, <1>4, GoodPrimed DEF IInv
<1>6. OrchTyped' /\ orch'.pc = "written"
  BY <1>1, GoIs, OrchKept DEF Pcs, OrchTyped, IInv
<1> QED
  BY <1>1, <1>4, <1>5, <1>6 DEF IInv, Judged, Contained, CountedOnce

LEMMA CommitArtifactKeeps ==
    ASSUME IInv, CommitArtifact
    PROVE  IInv'
<1>1. UNCHANGED <<journal, started>> /\ orch.pc = "written" /\ CommitWork(disk, "applied")
  BY DEF CommitArtifact, At
<1>2. Good(disk) /\ disk.art # "unverified"
  BY <1>1 DEF IInv, Contained
<1> QED
  BY <1>1, <1>2, CommitWorkKeeps

LEMMA RecordAppliedKeeps ==
    ASSUME IInv, RecordApplied
    PROVE  IInv'
<1>1. UNCHANGED <<journal, started>> /\ orch.pc = "applied"
      /\ Record(Applied(disk), Applied(saved), "committed")
  BY DEF RecordApplied, At
<1>2. disk.art # "unverified" /\ saved.art # "unverified"
  BY <1>1 DEF IInv, Contained
<1>3. ASSUME NEW d \in {disk, saved}
      PROVE  Good(Applied(d)) /\ Applied(d).art = d.art
  <2> DEFINE ps == [d.ps EXCEPT !.applied = TRUE]
             auth == IF d.auth = "granted" /\ orch.kind = "plan" THEN "spent" ELSE d.auth
  <2>1. /\ d = [wf |-> d.wf, ps |-> d.ps, auth |-> d.auth, art |-> d.art]
        /\ d.ps \in PhaseState
        /\ d.auth \in {"none", "granted", "spent"}
        /\ d.art \in {"none", "unverified", "verified"}
        /\ WfTyped(d.wf) /\ Keeps(d.wf)
    BY DiskFacts DEF IInv
  <2>2. Applied(d) = [d EXCEPT !.ps = ps, !.auth = auth]
    BY <2>1 DEF Applied
  <2>3. ps \in PhaseState
    BY <2>1 DEF PhaseState
  <2>4. auth \in {"none", "granted", "spent"}
    BY <2>1
  <2> HIDE DEF ps, auth
  <2>5. Applied(d) = [wf |-> d.wf, ps |-> ps, auth |-> auth, art |-> d.art]
    BY <2>1, <2>2
  <2>6. Good([wf |-> d.wf, ps |-> ps, auth |-> auth, art |-> d.art])
    BY <2>1, <2>3, <2>4, GoodDisk
  <2> QED
    BY <2>5, <2>6
<1> QED
  BY <1>1, <1>2, <1>3, RecordKeeps
-----------------------------------------------------------------------------
(* Passes that begin, crash, resume and restart *)

LEMMA BeginKeeps ==
    ASSUME IInv, NEW kind \in {"plan", "rework"}, Begin(kind)
    PROVE  IInv'
<1> DEFINE w == IF kind = "rework" THEN [disk.wf EXCEPT !.review = "pending"] ELSE disk.wf
           d == [disk EXCEPT !.wf = w, !.ps = PhaseStart, !.art = "none"]
<1>1. /\ UNCHANGED <<behind, journal, started>> /\ disk' = d /\ saved' = d
      /\ orch' = [pc |-> "dispatch", kind |-> kind, pass |-> orch.pass + 1,
                  patch |-> NoPatch]
      /\ orch.pass < MaxPass /\ MaxPass \in Nat /\ orch.pass \in 0..MaxPass
  BY PlanningAssumption DEF Begin, IInv, OrchTyped
<1>2. /\ disk = [wf |-> disk.wf, ps |-> disk.ps, auth |-> disk.auth, art |-> disk.art]
      /\ disk.auth \in {"none", "granted", "spent"}
      /\ WfTyped(disk.wf) /\ Keeps(disk.wf)
  BY DiskFacts DEF IInv
<1>3. WfTyped(w) /\ Keeps(w)
  <2>1. CASE kind = "rework"
    <3> DEFINE v == [disk.wf EXCEPT !.review = "pending"]
    <3>1. v = [plan |-> disk.wf.plan, implement |-> disk.wf.implement,
               review |-> "pending", base |-> disk.wf.base,
               tasks |-> disk.wf.tasks, tests |-> disk.wf.tests]
      BY <1>2 DEF WfTyped
    <3>2. w = v
      BY <2>1
    <3> HIDE DEF v
    <3>3. WfTyped(v) /\ Keeps(v)
      BY <1>2, <3>1 DEF WfTyped, Keeps, Ids
    <3> HIDE DEF w
    <3> QED
      BY <3>2, <3>3
  <2>2. CASE kind # "rework"
    BY <1>2, <2>2
  <2> QED
    BY <2>1, <2>2
<1>4. PhaseStart \in PhaseState
  <2>1. 0 \in 0..1
    OBVIOUS
  <2> QED
    BY <2>1 DEF PhaseStart, PhaseState
<1> HIDE DEF w
<1>5. d = [wf |-> w, ps |-> PhaseStart, auth |-> disk.auth, art |-> "none"]
  <2> DEFINE x == [disk EXCEPT !.wf = w]
             y == [x EXCEPT !.ps = PhaseStart]
             z == [y EXCEPT !.art = "none"]
  <2>1. x = [wf |-> w, ps |-> disk.ps, auth |-> disk.auth, art |-> disk.art]
    BY <1>2
  <2> HIDE DEF x
  <2>2. y = [wf |-> w, ps |-> PhaseStart, auth |-> disk.auth, art |-> disk.art]
    BY <2>1
  <2> HIDE DEF y
  <2>3. z = [wf |-> w, ps |-> PhaseStart, auth |-> disk.auth, art |-> "none"]
    BY <2>2
  <2> QED
    BY <2>3 DEF x, y, z
<1>6. Good([wf |-> w, ps |-> PhaseStart, auth |-> disk.auth, art |-> "none"])
  BY <1>2, <1>3, <1>4, GoodDisk
<1> HIDE DEF d
<1>7. Good(disk)' /\ Good(saved)' /\ saved'.art = "none" /\ disk'.art = "none"
  BY <1>1, <1>5, <1>6, GoodPrimed
<1>8. OrchTyped' /\ orch'.pc = "dispatch"
  BY <1>1 DEF IInv, OrchTyped, Pcs, PatchTyped
<1> QED
  BY <1>7, <1>8 DEF IInv, Judged, Contained, CountedOnce

LEMMA AdvanceKeeps ==
    ASSUME IInv, Advance
    PROVE  IInv'
<1>1. UNCHANGED <<disk, saved, orch, journal, started>> /\ behind' = TRUE
  BY DEF Advance
<1>2. Good(disk)' /\ Good(saved)'
  BY <1>1, GoodPrimed DEF IInv
<1> QED
  BY <1>1, <1>2 DEF IInv, OrchTyped, PatchTyped, Judged, Contained, CountedOnce

LEMMA CrashKeeps ==
    ASSUME IInv, Crash
    PROVE  IInv'
<1>1. UNCHANGED <<disk, saved, behind, journal, started>>
  BY DEF Crash
<1>2. PICK p \in {orch.patch, NoPatch} : orch' = [orch EXCEPT !.pc = "down", !.patch = p]
  BY DEF Crash
<1>3. orch' = [pc |-> "down", kind |-> orch.kind, pass |-> orch.pass, patch |-> p]
  BY <1>2 DEF IInv, OrchTyped
<1>4. p = NoPatch \/ PatchTyped(p)
  BY <1>2 DEF IInv, OrchTyped
<1>5. OrchTyped'
  BY <1>1, <1>3, <1>4 DEF IInv, OrchTyped, PatchTyped, Pcs
<1>6. Good(disk)' /\ Good(saved)'
  BY <1>1, GoodPrimed DEF IInv
<1> QED
  BY <1>1, <1>3, <1>5, <1>6 DEF IInv, Judged, Contained, CountedOnce

\* The resume table goes back to the write only where the patch would be
\* accepted again.
LEMMA ResumeKeeps ==
    ASSUME IInv, Resume
    PROVE  IInv'
<1> DEFINE pc == ResumeAt(disk, orch.patch)
           art == Inspected(disk.art)
<1>1. UNCHANGED <<saved, behind, journal, started>> /\ Go(pc)
      /\ disk' = [disk EXCEPT !.art = art]
  BY DEF Resume
<1>2. pc \in {"dispatch", "recorded", "committed", "applied", "idle"}
  BY DEF ResumeAt
<1>3. pc = "recorded" => /\ orch.patch # NoPatch
                         /\ Accepted(disk.wf, journal, disk.auth, Origin, orch.patch)
  BY DEF ResumeAt
<1>4. art \in {"none", "verified"}
  BY DEF Inspected
<1> HIDE DEF pc, art
<1>5. disk' = [wf |-> disk.wf, ps |-> disk.ps, auth |-> disk.auth, art |-> art]
      /\ Good(disk') /\ Good(saved')
  BY <1>1, <1>4, ArtWritten DEF IInv
<1>6. Good(disk)' /\ Good(saved)'
  BY <1>1, <1>5, GoodPrimed
<1>7. pc \in Pcs
  BY <1>2 DEF Pcs
<1>8. OrchTyped' /\ orch'.pc = pc /\ orch'.patch = orch.patch
  BY <1>1, <1>7, GoIs, OrchKept DEF OrchTyped, IInv
<1>9. disk'.wf = disk.wf /\ disk'.auth = disk.auth /\ disk'.art = art
  BY <1>5
<1>10. Judged'
  <2>1. pc = "recorded" => PatchTyped(orch'.patch)
            /\ Accepted(disk'.wf, journal', disk'.auth, Origin, orch'.patch)
    BY <1>1, <1>3, <1>8, <1>9 DEF IInv, OrchTyped
  <2> QED
    BY <1>2, <1>8, <2>1 DEF Judged, PatchTyped
<1> QED
  BY <1>1, <1>2, <1>4, <1>6, <1>8, <1>9, <1>10 DEF IInv, Contained, CountedOnce

LEMMA RestartKeeps ==
    ASSUME IInv, Restart
    PROVE  IInv'
<1>1. UNCHANGED <<saved, journal, started>> /\ disk' = saved /\ behind' = FALSE
      /\ Go("idle")
  BY DEF Restart
<1>2. OrchTyped' /\ orch'.pc = "idle"
  BY <1>1, GoIs, OrchKept DEF Pcs, IInv
<1>3. Good(disk)' /\ Good(saved)'
  BY <1>1, GoodPrimed DEF IInv
<1> QED
  BY <1>1, <1>2, <1>3 DEF IInv, Judged, Contained, CountedOnce

-----------------------------------------------------------------------------
(* Between two passes *)

\* A step of the implement phase, taken while no pass runs.
LEMMA IdleKeeps ==
    ASSUME IInv, At("idle"), UNCHANGED <<behind, orch>>,
           journal' \in [TaskIds -> {"none", "launched", "merged", "failed"}],
           DiskTyped(disk'), DiskTyped(saved'), Keeps(disk.wf)', Keeps(saved.wf)',
           disk'.art = disk.art, saved'.art = saved.art
    PROVE  IInv'
<1>1. Good(disk)' /\ Good(saved)'
  BY DEF Good, DiskTyped, WfTyped
<1>2. OrchTyped'
  BY DEF IInv, OrchTyped, PatchTyped
<1> QED
  BY <1>1, <1>2 DEF IInv, At, Judged, Contained, CountedOnce

\* A write to the plan on the disk and in the last commit.
LEMMA SetWfFacts ==
    ASSUME IInv, NEW w, WfTyped(w), disk' = [disk EXCEPT !.wf = w],
           saved' = [saved EXCEPT !.wf = w]
    PROVE  /\ disk'.wf = w /\ saved'.wf = w
           /\ DiskTyped(disk') /\ DiskTyped(saved')
           /\ disk'.art = disk.art /\ saved'.art = saved.art
<1>1. ASSUME NEW d \in {disk, saved}
      PROVE  /\ [d EXCEPT !.wf = w]
                    = [wf |-> w, ps |-> d.ps, auth |-> d.auth, art |-> d.art]
             /\ DiskTyped([wf |-> w, ps |-> d.ps, auth |-> d.auth, art |-> d.art])
  <2>1. Good(d)
    BY DEF IInv
  <2>2. d = [wf |-> d.wf, ps |-> d.ps, auth |-> d.auth, art |-> d.art]
        /\ d.ps \in PhaseState
        /\ d.art \in {"none", "unverified", "verified"}
        /\ d.auth \in {"none", "granted", "spent"}
    BY <2>1, DiskFacts
  <2>3. [d EXCEPT !.wf = w] = [wf |-> w, ps |-> d.ps, auth |-> d.auth, art |-> d.art]
    BY <2>2
  <2> QED
    BY <2>2, <2>3 DEF DiskTyped
<1>2. /\ disk' = [wf |-> w, ps |-> disk.ps, auth |-> disk.auth, art |-> disk.art]
      /\ saved' = [wf |-> w, ps |-> saved.ps, auth |-> saved.auth, art |-> saved.art]
      /\ DiskTyped(disk') /\ DiskTyped(saved')
  BY <1>1
<1> QED
  BY <1>2

LEMMA LaunchKeeps ==
    ASSUME IInv, NEW i \in TaskIds, Launch(i)
    PROVE  IInv'
<1> DEFINE w == disk.wf
           t == [w.tasks EXCEPT ![i].status = "in_progress"]
           v == [w EXCEPT !.base = TRUE, !.implement = "in_progress", !.tasks = t]
<1>1. /\ At("idle") /\ UNCHANGED <<behind, orch>> /\ w.plan = "completed"
      /\ i \in Ids(w) /\ journal' = [journal EXCEPT ![i] = "launched"]
      /\ started' = [k \in {i} \cup DOMAIN started |->
                        IF k = i THEN w.tasks[i] ELSE started[k]]
      /\ journal \in [TaskIds -> {"none", "launched", "merged", "failed"}]
      /\ WfTyped(w) /\ Keeps(w)
  BY DiskFacts DEF Launch, IInv, OrchTyped
<1>2. w = [plan |-> w.plan, implement |-> w.implement, review |-> w.review,
           base |-> w.base, tasks |-> w.tasks, tests |-> w.tests]
  BY <1>1 DEF WfTyped
<1>3. disk' = [disk EXCEPT !.wf = v] /\ saved' = [saved EXCEPT !.wf = v]
  <2>1. [w EXCEPT !.base = TRUE, !.implement = "in_progress",
                  !.tasks[i].status = "in_progress"] = v
    BY <1>2
  <2> QED
    BY <2>1 DEF Launch, SetWf
<1>4. /\ DOMAIN t = Ids(w) /\ \A k \in Ids(w) : t[k] \in Task
      /\ \A k \in Ids(w) : t[k].by = w.tasks[k].by /\ t[k].file = w.tasks[k].file
  <2>1. w.tasks[i] \in Task
    BY <1>1 DEF WfTyped
  <2>2. t = [w.tasks EXCEPT ![i] = [w.tasks[i] EXCEPT !.status = "in_progress"]]
    OBVIOUS
  <2>3. LET u == [w.tasks[i] EXCEPT !.status = "in_progress"] IN
        u \in Task /\ u.by = w.tasks[i].by /\ u.file = w.tasks[i].file
    BY <2>1 DEF Task, Statuses
  <2> HIDE DEF w, t
  <2> QED
    BY <1>1, <2>2, <2>3 DEF Ids, WfTyped
<1> HIDE DEF t
<1>5. v = [plan |-> w.plan, implement |-> "in_progress", review |-> w.review,
           base |-> TRUE, tasks |-> t, tests |-> w.tests]
  <2> DEFINE yes == TRUE
  <2> HIDE DEF yes
  <2> DEFINE x == [w EXCEPT !.base = yes]
             y == [x EXCEPT !.implement = "in_progress"]
             z == [y EXCEPT !.tasks = t]
  <2>1. x = [plan |-> w.plan, implement |-> w.implement, review |-> w.review,
                 base |-> yes, tasks |-> w.tasks, tests |-> w.tests]
    BY <1>2
  <2> HIDE DEF x
  <2>2. y = [plan |-> w.plan, implement |-> "in_progress", review |-> w.review,
                 base |-> yes, tasks |-> w.tasks, tests |-> w.tests]
    BY <2>1
  <2> HIDE DEF y
  <2>3. z = [plan |-> w.plan, implement |-> "in_progress", review |-> w.review,
                 base |-> yes, tasks |-> t, tests |-> w.tests]
    BY <2>2
  <2> QED
    BY <2>3 DEF x, y, z, yes
<1> HIDE DEF w, v
<1>6. WfTyped(v)
  BY <1>1, <1>4, <1>5 DEF WfTyped, Ids
<1>7. /\ disk'.wf = v /\ saved'.wf = v
      /\ DiskTyped(disk') /\ DiskTyped(saved')
      /\ disk'.art = disk.art /\ saved'.art = saved.art
  BY <1>3, <1>6, SetWfFacts
<1>8. /\ DOMAIN started' = {i} \cup DOMAIN started
      /\ \A k \in DOMAIN started' :
             started'[k] = IF k = i THEN w.tasks[i] ELSE started[k]
  BY <1>1
<1>9. journal' \in [TaskIds -> {"none", "launched", "merged", "failed"}]
      /\ \A k \in TaskIds \ {i} : journal'[k] = journal[k]
  BY <1>1
<1>10. ASSUME NEW k \in DOMAIN started'
       PROVE  /\ k \in Ids(v) /\ v.tasks[k].by = started'[k].by
              /\ journal'[k] \in {"launched", "merged"} => v.tasks[k].file = started'[k].file
  <2>1. v.tasks = t
    BY <1>5
  <2>2. CASE k = i
    BY <1>1, <1>4, <1>8, <2>1, <2>2 DEF Ids
  <2>3. CASE k # i
    <3>1. k \in DOMAIN started /\ started'[k] = started[k]
      BY <1>8, <2>3
    <3>2. /\ k \in Ids(w) /\ w.tasks[k].by = started[k].by
          /\ journal[k] \in {"launched", "merged"} => w.tasks[k].file = started[k].file
      BY <1>1, <3>1 DEF Keeps
    <3>3. k \in TaskIds /\ journal'[k] = journal[k]
      BY <1>1, <1>9, <2>3, <3>2 DEF WfTyped
    <3> QED
      BY <1>4, <2>1, <3>1, <3>2, <3>3 DEF Ids
  <2> QED
    BY <2>2, <2>3
<1>11. v.plan = "completed" /\ v.implement = "in_progress"
  BY <1>1, <1>5
<1>12. Keeps(disk.wf)' /\ Keeps(saved.wf)'
  BY <1>7, <1>10, <1>11 DEF Keeps
<1> QED
  BY <1>1, <1>7, <1>9, <1>12, IdleKeeps

LEMMA LandKeeps ==
    ASSUME IInv, NEW i \in TaskIds, Land(i)
    PROVE  IInv'
<1>1. /\ At("idle") /\ UNCHANGED <<disk, saved, behind, orch, started>>
      /\ journal[i] = "launched"
      /\ journal \in [TaskIds -> {"none", "launched", "merged", "failed"}]
  BY DEF Land, IInv, OrchTyped
<1>2. PICK e \in {"merged", "failed"} : journal' = [journal EXCEPT ![i] = e]
  BY DEF Land
<1>3. journal' \in [TaskIds -> {"none", "launched", "merged", "failed"}]
      /\ \A k \in TaskIds : journal'[k] \in {"launched", "merged"} =>
                                journal[k] \in {"launched", "merged"}
  BY <1>1, <1>2
<1>4. ASSUME NEW d \in {disk, saved}
      PROVE  /\ DiskTyped(d)
             /\ \A k \in DOMAIN started :
                    /\ k \in Ids(d.wf) /\ d.wf.tasks[k].by = started[k].by
                    /\ journal'[k] \in {"launched", "merged"} =>
                           d.wf.tasks[k].file = started[k].file
             /\ d.wf.plan = "pending" \/ d.wf.implement = "completed" =>
                    \A k \in DOMAIN started : d.wf.tasks[k].status = "merged"
  <2>1. Good(d)
    BY DEF IInv
  <2>2. Ids(d.wf) \subseteq TaskIds
    BY <2>1 DEF Good, DiskTyped, WfTyped
  <2> QED
    BY <1>3, <2>1, <2>2 DEF Good, Keeps
<1>5. Keeps(disk.wf)' /\ Keeps(saved.wf)'
  BY <1>1, <1>4 DEF Keeps
<1> QED
  BY <1>1, <1>3, <1>4, <1>5, IdleKeeps

\* What a write to the tasks' statuses has to keep, by field.
LEMMA StatusKeeps ==
    ASSUME IInv, At("idle"), UNCHANGED <<behind, orch, journal, started>>,
           NEW v, WfTyped(v), disk' = [disk EXCEPT !.wf = v],
           saved' = [saved EXCEPT !.wf = v], Ids(v) = Ids(disk.wf),
           \A k \in Ids(v) : /\ v.tasks[k].by = disk.wf.tasks[k].by
                             /\ v.tasks[k].file = disk.wf.tasks[k].file,
           v.plan = "pending" \/ v.implement = "completed" =>
               \A k \in DOMAIN started : v.tasks[k].status = "merged"
    PROVE  IInv'
<1>1. /\ disk'.wf = v /\ saved'.wf = v
      /\ DiskTyped(disk') /\ DiskTyped(saved')
      /\ disk'.art = disk.art /\ saved'.art = saved.art
  BY SetWfFacts
<1>2. Keeps(disk.wf)
  BY DEF IInv, Good
<1>3. Keeps(disk.wf)' /\ Keeps(saved.wf)'
  BY <1>1, <1>2 DEF Keeps
<1> QED
  BY <1>1, <1>3, IdleKeeps DEF IInv, OrchTyped

LEMMA SettleKeeps ==
    ASSUME IInv, NEW i \in TaskIds, Settle(i)
    PROVE  IInv'
<1> DEFINE w == disk.wf
           t == [w.tasks EXCEPT ![i].status = journal[i]]
           v == [w EXCEPT !.tasks = t]
<1>1. /\ At("idle") /\ UNCHANGED <<behind, orch, journal, started>>
      /\ i \in Ids(w) /\ w.tasks[i].status = "in_progress"
      /\ journal[i] \in {"merged", "failed"}
      /\ WfTyped(w) /\ Keeps(w)
  BY DiskFacts DEF Settle, IInv
<1>2. w = [plan |-> w.plan, implement |-> w.implement, review |-> w.review,
           base |-> w.base, tasks |-> w.tasks, tests |-> w.tests]
  BY <1>1 DEF WfTyped
<1>3. disk' = [disk EXCEPT !.wf = v] /\ saved' = [saved EXCEPT !.wf = v]
  <2>1. [w EXCEPT !.tasks[i].status = journal[i]] = v
    BY <1>2
  <2> QED
    BY <2>1 DEF Settle, SetTask, SetWf
<1>4. /\ DOMAIN t = Ids(w) /\ \A k \in Ids(w) : t[k] \in Task
      /\ \A k \in Ids(w) : t[k].by = w.tasks[k].by /\ t[k].file = w.tasks[k].file
      /\ \A k \in Ids(w) \ {i} : t[k] = w.tasks[k]
  <2>1. w.tasks[i] \in Task
    BY <1>1 DEF WfTyped
  <2>2. t = [w.tasks EXCEPT ![i] = [w.tasks[i] EXCEPT !.status = journal[i]]]
    OBVIOUS
  <2>3. LET u == [w.tasks[i] EXCEPT !.status = journal[i]] IN
        u \in Task /\ u.by = w.tasks[i].by /\ u.file = w.tasks[i].file
    BY <1>1, <2>1 DEF Task, Statuses
  <2> HIDE DEF w, t
  <2> QED
    BY <1>1, <2>2, <2>3 DEF Ids, WfTyped
<1> HIDE DEF t
<1>5. v = [plan |-> w.plan, implement |-> w.implement, review |-> w.review,
           base |-> w.base, tasks |-> t, tests |-> w.tests]
  BY <1>2
<1> HIDE DEF v
<1>6. WfTyped(v) /\ Ids(v) = Ids(w)
  BY <1>1, <1>4, <1>5 DEF WfTyped, Ids
<1>7. v.plan = "pending" \/ v.implement = "completed" =>
          \A k \in DOMAIN started : v.tasks[k].status = "merged"
  <2> SUFFICES ASSUME v.plan = "pending" \/ v.implement = "completed",
                      NEW k \in DOMAIN started
               PROVE  v.tasks[k].status = "merged"
    OBVIOUS
  <2>1. k \in Ids(w) /\ w.tasks[k].status = "merged"
    BY <1>1, <1>5 DEF Keeps
  <2> QED
    BY <1>1, <1>4, <1>5, <2>1
<1> QED
  BY <1>1, <1>3, <1>4, <1>5, <1>6, <1>7, StatusKeeps

LEMMA EndImplementKeeps ==
    ASSUME IInv, EndImplement
    PROVE  IInv'
<1> DEFINE w == disk.wf
           e == IF SomeTask(w, {"failed"}) THEN "failed" ELSE "completed"
           v == [w EXCEPT !.implement = e]
<1>1. /\ At("idle") /\ UNCHANGED <<behind, orch, journal, started>>
      /\ ~SomeTask(w, {"in_progress", "pending"})
      /\ disk' = [disk EXCEPT !.wf = v] /\ saved' = [saved EXCEPT !.wf = v]
      /\ WfTyped(w) /\ Keeps(w)
  BY DiskFacts DEF EndImplement, SetWf, IInv
<1>2. v = [plan |-> w.plan, implement |-> e, review |-> w.review,
           base |-> w.base, tasks |-> w.tasks, tests |-> w.tests]
  BY <1>1 DEF WfTyped
<1>3. e = "completed" => \A k \in Ids(w) : w.tasks[k].status = "merged"
  BY <1>1 DEF SomeTask, WfTyped, Task, Statuses
<1> HIDE DEF v, e
<1>4. WfTyped(v) /\ Ids(v) = Ids(w)
  BY <1>1, <1>2 DEF WfTyped, Ids
<1>5. v.plan = "pending" \/ v.implement = "completed" =>
          \A k \in DOMAIN started : v.tasks[k].status = "merged"
  BY <1>1, <1>2, <1>3 DEF Keeps
<1>6. v.tasks = w.tasks
  BY <1>2
<1> QED
  BY <1>1, <1>4, <1>5, <1>6, StatusKeeps

LEMMA RouteBackKeeps ==
    ASSUME IInv, RouteBack
    PROVE  IInv'
<1> DEFINE w == disk.wf
           t == [i \in Ids(w) |-> IF w.tasks[i].status = "failed"
                     THEN [w.tasks[i] EXCEPT !.status = "pending"] ELSE w.tasks[i]]
           v == [w EXCEPT !.plan = "needs_update", !.implement = "pending", !.tasks = t]
<1>1. /\ At("idle") /\ UNCHANGED <<behind, orch, journal, started>>
      /\ disk' = [disk EXCEPT !.wf = v] /\ saved' = [saved EXCEPT !.wf = v]
      /\ WfTyped(w)
  BY DiskFacts DEF RouteBack, SetWf, IInv
<1>2. ASSUME NEW i \in Ids(w)
      PROVE  t[i] \in Task /\ t[i].by = w.tasks[i].by /\ t[i].file = w.tasks[i].file
  <2>1. w.tasks[i] \in Task
    BY <1>1 DEF WfTyped
  <2>2. LET u == [w.tasks[i] EXCEPT !.status = "pending"] IN
        u \in Task /\ u.by = w.tasks[i].by /\ u.file = w.tasks[i].file
    BY <2>1 DEF Task, Statuses
  <2>3. t[i] = IF w.tasks[i].status = "failed"
               THEN [w.tasks[i] EXCEPT !.status = "pending"] ELSE w.tasks[i]
    OBVIOUS
  <2> HIDE DEF t
  <2> QED
    BY <2>1, <2>2, <2>3
<1>3. DOMAIN t = Ids(w)
  OBVIOUS
<1> HIDE DEF t
<1>4. v = [plan |-> "needs_update", implement |-> "pending", review |-> w.review,
           base |-> w.base, tasks |-> t, tests |-> w.tests]
  <2> DEFINE x == [w EXCEPT !.plan = "needs_update"]
             y == [x EXCEPT !.implement = "pending"]
             z == [y EXCEPT !.tasks = t]
  <2>1. x = [plan |-> "needs_update", implement |-> w.implement, review |-> w.review,
                 base |-> w.base, tasks |-> w.tasks, tests |-> w.tests]
    BY <1>1 DEF WfTyped
  <2> HIDE DEF x
  <2>2. y = [plan |-> "needs_update", implement |-> "pending", review |-> w.review,
                 base |-> w.base, tasks |-> w.tasks, tests |-> w.tests]
    BY <2>1
  <2> HIDE DEF y
  <2>3. z = [plan |-> "needs_update", implement |-> "pending", review |-> w.review,
                 base |-> w.base, tasks |-> t, tests |-> w.tests]
    BY <2>2
  <2> QED
    BY <2>3 DEF x, y, z
<1> HIDE DEF v
<1>5. WfTyped(v) /\ Ids(v) = Ids(w)
  BY <1>1, <1>2, <1>3, <1>4 DEF WfTyped, Ids
<1>6. v.plan # "pending" /\ v.implement # "completed" /\ v.tasks = t
  BY <1>4
<1> QED
  BY <1>1, <1>2, <1>5, <1>6, StatusKeeps

LEMMA SpecChangeKeeps ==
    ASSUME IInv, SpecChange
    PROVE  IInv'
<1> DEFINE w == disk.wf
           v == [w EXCEPT !.plan = "pending", !.implement = "pending", !.review = "pending"]
<1>1. /\ At("idle") /\ UNCHANGED <<behind, orch, journal, started>>
      /\ w.implement = "completed" /\ WfTyped(w) /\ Keeps(w)
      /\ disk' = [disk EXCEPT !.wf = v, !.auth = "granted"]
      /\ saved' = [saved EXCEPT !.wf = v, !.auth = "granted"]
      /\ journal \in [TaskIds -> {"none", "launched", "merged", "failed"}]
  BY DiskFacts DEF SpecChange, IInv, OrchTyped
<1>2. v = [plan |-> "pending", implement |-> "pending", review |-> "pending",
           base |-> w.base, tasks |-> w.tasks, tests |-> w.tests]
  <2> DEFINE x == [w EXCEPT !.plan = "pending"]
             y == [x EXCEPT !.implement = "pending"]
             z == [y EXCEPT !.review = "pending"]
  <2>1. x = [plan |-> "pending", implement |-> w.implement, review |-> w.review,
             base |-> w.base, tasks |-> w.tasks, tests |-> w.tests]
    BY <1>1 DEF WfTyped
  <2> HIDE DEF x
  <2>2. y = [plan |-> "pending", implement |-> "pending", review |-> w.review,
             base |-> w.base, tasks |-> w.tasks, tests |-> w.tests]
    BY <2>1
  <2> HIDE DEF y
  <2>3. z = [plan |-> "pending", implement |-> "pending", review |-> "pending",
             base |-> w.base, tasks |-> w.tasks, tests |-> w.tests]
    BY <2>2
  <2> QED
    BY <2>3 DEF x, y, z
<1> HIDE DEF v
<1>3. WfTyped(v)
  BY <1>1, <1>2 DEF WfTyped, Ids
<1>4. ASSUME NEW d \in {disk, saved}
      PROVE  /\ [d EXCEPT !.wf = v, !.auth = "granted"]
                    = [wf |-> v, ps |-> d.ps, auth |-> "granted", art |-> d.art]
             /\ DiskTyped([wf |-> v, ps |-> d.ps, auth |-> "granted", art |-> d.art])
  <2>1. d = [wf |-> d.wf, ps |-> d.ps, auth |-> d.auth, art |-> d.art]
        /\ d.ps \in PhaseState /\ d.art \in {"none", "unverified", "verified"}
    BY DiskFacts DEF IInv
  <2> DEFINE x == [d EXCEPT !.wf = v]
             y == [x EXCEPT !.auth = "granted"]
  <2>2. x = [wf |-> v, ps |-> d.ps, auth |-> d.auth, art |-> d.art]
    BY <2>1
  <2> HIDE DEF x
  <2>3. y = [wf |-> v, ps |-> d.ps, auth |-> "granted", art |-> d.art]
    BY <2>2
  <2>4. [d EXCEPT !.wf = v, !.auth = "granted"]
            = [wf |-> v, ps |-> d.ps, auth |-> "granted", art |-> d.art]
    BY <2>3 DEF x
  <2>5. DiskTyped([wf |-> v, ps |-> d.ps, auth |-> "granted", art |-> d.art])
    BY <1>3, <2>1 DEF DiskTyped
  <2> QED
    BY <2>4, <2>5
<1>5. /\ disk' = [wf |-> v, ps |-> disk.ps, auth |-> "granted", art |-> disk.art]
      /\ saved' = [wf |-> v, ps |-> saved.ps, auth |-> "granted", art |-> saved.art]
      /\ DiskTyped(disk') /\ DiskTyped(saved')
  BY <1>1, <1>4
<1>6. /\ disk'.wf = v /\ saved'.wf = v
      /\ disk'.art = disk.art /\ saved'.art = saved.art
  BY <1>5
<1>7. Keeps(disk.wf)' /\ Keeps(saved.wf)'
  BY <1>1, <1>2, <1>6 DEF Keeps, Ids
<1> QED
  BY <1>1, <1>5, <1>6, <1>7, IdleKeeps

-----------------------------------------------------------------------------
(* Every step; the theorems *)

LEMMA InitIInv == Init => IInv
<1> SUFFICES ASSUME Init PROVE IInv
  OBVIOUS
<1>1. PICK w \in {NewFeature, OldPlan} :
        disk = [wf |-> w, ps |-> PhaseStart, auth |-> "none", art |-> "none"]
  BY DEF Init
<1>2. /\ saved = disk /\ behind = FALSE /\ started = <<>>
      /\ orch = [pc |-> "idle", kind |-> "none", pass |-> 0, patch |-> NoPatch]
      /\ journal = [i \in TaskIds |-> "none"]
  BY DEF Init
<1>3. DOMAIN started = {}
  BY <1>2
<1>4. MaxPass \in Nat /\ 1..2 \subseteq TaskIds
  BY PlanningAssumption DEF TaskIds
<1>5. WfTyped(NewFeature)
  <2>1. DOMAIN <<>> = {}
    OBVIOUS
  <2> DEFINE no == FALSE
  <2>2. NewFeature = [plan |-> "pending", implement |-> "pending", review |-> "pending",
                      base |-> no, tasks |-> <<>>, tests |-> <<1, 2>>]
    BY DEF NewFeature
  <2> HIDE DEF no
  <2> QED
    BY <2>1, <2>2 DEF WfTyped, Ids
<1>6. WfTyped(OldPlan)
  <2> DEFINE task(i) == [status |-> "pending", by |-> 0,
                         file |-> IF i = 1 THEN "report" ELSE "plain"]
             t == [i \in 1..2 |-> task(i)]
             no == FALSE
             x == [NewFeature EXCEPT !.plan = "completed"]
             y == [x EXCEPT !.tasks = t]
  <2>1. \A i \in 1..2 : task(i) \in Task
    BY <1>4 DEF Task, Statuses
  <2>2. DOMAIN t = 1..2 /\ \A i \in 1..2 : t[i] = task(i)
    OBVIOUS
  <2>0. OldPlan = y
    BY Zenon DEF OldPlan
  <2> HIDE DEF t, task
  <2>3. NewFeature = [plan |-> "pending", implement |-> "pending", review |-> "pending",
                      base |-> no, tasks |-> <<>>, tests |-> <<1, 2>>]
    BY DEF NewFeature
  <2> HIDE DEF no
  <2>4. x = [plan |-> "completed", implement |-> "pending", review |-> "pending",
             base |-> no, tasks |-> <<>>, tests |-> <<1, 2>>]
    BY <2>3
  <2> HIDE DEF x
  <2>5. y = [plan |-> "completed", implement |-> "pending", review |-> "pending",
             base |-> no, tasks |-> t, tests |-> <<1, 2>>]
    BY <2>4
  <2> HIDE DEF y
  <2>6. WfTyped(y)
    BY <1>4, <2>1, <2>2, <2>5 DEF WfTyped, Ids
  <2> QED
    BY <2>0, <2>6
<1>7. PhaseStart \in PhaseState
  <2>1. 0 \in 0..1
    OBVIOUS
  <2> QED
    BY <2>1 DEF PhaseStart, PhaseState
<1>8. WfTyped(w) /\ Keeps(w)
  BY <1>3, <1>5, <1>6 DEF Keeps
<1>9. Good([wf |-> w, ps |-> PhaseStart, auth |-> "none", art |-> "none"])
  BY <1>7, <1>8, GoodDisk
<1>10. Good(disk) /\ Good(saved)
  BY <1>1, <1>2, <1>9
<1>11. OrchTyped /\ orch.pc = "idle"
  <2>1. behind \in BOOLEAN
    BY <1>2
  <2>2. journal \in [TaskIds -> {"none", "launched", "merged", "failed"}]
    BY <1>2
  <2>3. 0 \in 0..MaxPass
    BY <1>4
  <2>4. orch = [pc |-> orch.pc, kind |-> orch.kind, pass |-> orch.pass,
                patch |-> orch.patch]
    BY <1>2
  <2>5. orch.pc = "idle" /\ orch.pass = 0 /\ orch.patch = NoPatch
    BY <1>2
  <2> QED
    BY <2>1, <2>2, <2>3, <2>4, <2>5 DEF OrchTyped, Pcs
<1>12. disk.art = "none" /\ saved.art = "none"
  BY <1>1, <1>2
<1> QED
  BY <1>10, <1>11, <1>12 DEF IInv, Judged, Contained, CountedOnce

LEMMA StepIInv ==
    ASSUME IInv, [Next]_vars
    PROVE  IInv'
<1>1. CASE \E kind \in {"plan", "rework"} : Begin(kind)
  BY <1>1, BeginKeeps
<1>2. CASE Orchestrate
  BY <1>2, DispatchKeeps, RecordResultKeeps, WritePatchKeeps, RecordAppliedKeeps,
     CommitArtifactKeeps, RecordDiscardedKeeps, CompleteKeeps, ResumeKeeps
     DEF Orchestrate
<1>3. CASE Worker
  BY <1>3, WorkerWritesKeeps, RefuseKeeps, ReturnKeeps DEF Worker
<1>4. CASE Advance \/ Crash \/ Restart
  BY <1>4, AdvanceKeeps, CrashKeeps, RestartKeeps
<1>5. CASE \E i \in TaskIds : Launch(i) \/ Land(i) \/ Settle(i)
  BY <1>5, LaunchKeeps, LandKeeps, SettleKeeps
<1>6. CASE EndImplement \/ RouteBack \/ SpecChange
  BY <1>6, EndImplementKeeps, RouteBackKeeps, SpecChangeKeeps
<1>7. CASE UNCHANGED vars
  <2>1. UNCHANGED <<disk, saved, behind, orch, journal, started>>
    BY <1>7 DEF vars
  <2>2. Good(disk)' /\ Good(saved)'
    BY <2>1, GoodPrimed DEF IInv
  <2> QED
    BY <2>1, <2>2 DEF IInv, OrchTyped, PatchTyped, Judged, Contained, CountedOnce
<1> QED
  BY <1>1, <1>2, <1>3, <1>4, <1>5, <1>6, <1>7 DEF Next

THEOREM Invariance == Spec => []IInv
  BY InitIInv, StepIInv, PTL DEF Spec

\* The plan, the phase state and the orchestrator have their types.
THEOREM Typing == Spec => []TypeOK
<1>1. IInv => TypeOK
  <2> SUFFICES ASSUME IInv PROVE TypeOK
    OBVIOUS
  <2>1. ASSUME NEW d \in {disk, saved}
        PROVE  /\ Ids(d.wf) \subseteq TaskIds
               /\ \A i \in Ids(d.wf) : d.wf.tasks[i] \in Task
               /\ d.ps \in PhaseState
               /\ d.auth \in {"none", "granted", "spent"}
               /\ d.art \in {"none", "unverified", "verified"}
    BY DEF IInv, Good, DiskTyped, WfTyped
  <2> QED
    BY <2>1 DEF TypeOK, IInv, OrchTyped, Task, PhaseState
<1> QED
  BY <1>1, Invariance, PTL

\* No sequence of planning, re-planning, correction and rework passes drops a
\* task that was ever launched, gives its id to another, or rewrites the path of
\* one in flight or merged: what the validator accepts over a workflow that
\* keeps them makes one that does, and the one place where it asks for no
\* carry-over is reached only where no task was launched.
THEOREM Kept == Spec => []StartedIsKept
<1>1. IInv => StartedIsKept
  BY DEF IInv, Good, Keeps, StartedIsKept
<1> QED
  BY <1>1, Invariance, PTL

\* No commit has the artifacts of a run whose result was not verified.
THEOREM OnlyVerified == Spec => []UnverifiedIsNotCommitted
<1>1. IInv => UnverifiedIsNotCommitted
  BY DEF IInv, Contained, UnverifiedIsNotCommitted
<1> QED
  BY <1>1, Invariance, PTL

-----------------------------------------------------------------------------
(* What the phase state says was written *)

SaysApplied(d) == d.ps.status = "applying_patch" /\ d.ps.applied

Running == {"dispatch", "working", "verified", "recorded", "written", "applied", "lost"}

\* The phase state says that a patch was applied only where the workflow is the
\* one the last write made, on the disk and in the last commit.
Booked ==
    /\ orch.pc \in Running => ~disk.ps.applied /\ ~saved.ps.applied
    /\ orch.pc \in {"recorded", "written", "applied"} => disk.ps.status = "applying_patch"
    /\ orch.pc = "applied" => saved.ps.status = "applying_patch"
    /\ orch.pc = "written" => disk.wf = written
    /\ orch.pc \in {"applied", "committed"} => disk.wf = written /\ saved.wf = written
    /\ orch.pc = "committed" => SaysApplied(disk) /\ SaysApplied(saved)
    /\ orch.pc = "down" =>
        /\ disk.ps.applied => /\ SaysApplied(disk) /\ SaysApplied(saved)
                              /\ disk.wf = written /\ saved.wf = written
        /\ saved.ps.applied => disk.ps.applied

LEMMA PsFields ==
    ASSUME NEW ps \in PhaseState
    PROVE  /\ [ps EXCEPT !.status = "dispatching", !.discarded = FALSE,
                         !.applied = FALSE].applied = FALSE
           /\ [ps EXCEPT !.status = "applying_patch"].status = "applying_patch"
           /\ [ps EXCEPT !.status = "applying_patch"].applied = ps.applied
           /\ [ps EXCEPT !.applied = TRUE].status = ps.status
           /\ [ps EXCEPT !.applied = TRUE].applied = TRUE
           /\ \A x : [ps EXCEPT !.status = "dispatching", !.discarded = TRUE,
                              !.stale = x].applied = ps.applied
BY DEF PhaseState

LEMMA DispatchBooks ==
    ASSUME IInv, Booked, Dispatch
    PROVE  Booked'
<1>1. ASSUME NEW d \in {disk, saved}
      PROVE  Dispatched(d).ps.applied = FALSE
  <2> DEFINE ps == [d.ps EXCEPT !.status = "dispatching", !.discarded = FALSE,
                                !.applied = FALSE]
  <2>1. Good(d)
    BY DEF IInv
  <2>2. Dispatched(d) = [d EXCEPT !.ps = ps]
    <3>1. d = [wf |-> d.wf, ps |-> d.ps, auth |-> d.auth, art |-> d.art]
      BY <2>1, DiskFacts
    <3> QED
      BY <3>1 DEF Dispatched
  <2>3. ps.applied = FALSE
    BY <2>1, DiskFacts, PsFields
  <2> HIDE DEF ps
  <2>4. Dispatched(d) = [wf |-> d.wf, ps |-> ps, auth |-> d.auth, art |-> d.art]
    BY <2>1, <2>2, PsWritten
  <2> QED
    BY <2>3, <2>4
<1>2. CASE Go("stopped")
  <2>1. orch'.pc = "stopped"
    BY <1>2, GoIs DEF IInv, Pcs
  <2> QED
    BY <2>1 DEF Booked, Running
<1>3. CASE ~Go("stopped")
  <2>1. /\ disk' \in {Dispatched(disk), Dispatched(saved)}
        /\ saved' \in {Dispatched(disk), Dispatched(saved)} /\ Go("working")
    BY <1>3 DEF Dispatch, Record
  <2>2. disk'.ps.applied = FALSE /\ saved'.ps.applied = FALSE
    BY <1>1, <2>1
  <2>3. orch'.pc = "working"
    BY <2>1, GoIs DEF IInv, Pcs
  <2> QED
    BY <2>2, <2>3 DEF Booked, Running
<1> QED
  BY <1>2, <1>3

LEMMA RecordDiscardedBooks ==
    ASSUME IInv, Booked, RecordDiscarded
    PROVE  Booked'
<1>1. ~disk.ps.applied /\ ~saved.ps.applied
  BY DEF RecordDiscarded, At, Booked, Running
<1>2. ASSUME NEW d \in {disk, saved}
      PROVE  ~Discarded(d).ps.applied
  <2> DEFINE ps == [d.ps EXCEPT !.status = "dispatching", !.discarded = TRUE,
                                !.stale = d.ps.stale + 1]
  <2>1. Good(d) /\ ~d.ps.applied
    BY <1>1 DEF IInv
  <2>2. Discarded(d) = [d EXCEPT !.ps = ps]
    <3>1. d = [wf |-> d.wf, ps |-> d.ps, auth |-> d.auth, art |-> d.art]
      BY <2>1, DiskFacts
    <3> QED
      BY <3>1 DEF Discarded
  <2>3. ps.applied = d.ps.applied
    BY <2>1, DiskFacts, PsFields
  <2> HIDE DEF ps
  <2>4. Discarded(d) = [wf |-> d.wf, ps |-> ps, auth |-> d.auth, art |-> d.art]
    BY <2>1, <2>2, PsWritten
  <2> QED
    BY <2>1, <2>3, <2>4
<1>3. CASE Go("stopped")
  <2>1. orch'.pc = "stopped"
    BY <1>3, GoIs DEF IInv, Pcs
  <2> QED
    BY <2>1 DEF Booked, Running
<1>4. CASE ~Go("stopped")
  <2>1. /\ disk' \in {Discarded(disk), Discarded(saved)}
        /\ saved' \in {Discarded(disk), Discarded(saved)} /\ Go("dispatch")
    BY <1>4 DEF RecordDiscarded, Record
  <2>2. ~disk'.ps.applied /\ ~saved'.ps.applied
    BY <1>2, <2>1
  <2>3. orch'.pc = "dispatch"
    BY <2>1, GoIs DEF IInv, Pcs
  <2> QED
    BY <2>2, <2>3 DEF Booked, Running
<1> QED
  BY <1>3, <1>4

\* A write of the worker's artifacts leaves the plan and the phase state alone.
LEMMA ArtBooks ==
    ASSUME IInv, NEW art \in {"none", "unverified", "verified"},
           disk' = [disk EXCEPT !.art = art]
    PROVE  disk'.wf = disk.wf /\ disk'.ps = disk.ps
<1>1. Good(disk)
  BY DEF IInv
<1>2. disk' = [wf |-> disk.wf, ps |-> disk.ps, auth |-> disk.auth, art |-> art]
  BY <1>1, ArtWritten
<1> QED
  BY <1>2

LEMMA WorkerBooks ==
    ASSUME IInv, Booked, Worker
    PROVE  Booked'
<1>1. CASE WorkerWrites
  <2>1. disk' = [disk EXCEPT !.art = "unverified"] /\ UNCHANGED <<saved, orch, written>>
    BY <1>1 DEF WorkerWrites
  <2>2. disk'.wf = disk.wf /\ disk'.ps = disk.ps
    BY <2>1, ArtBooks
  <2> QED
    BY <2>1, <2>2 DEF Booked, SaysApplied, Running
<1>2. CASE Refuse
  <2>1. orch'.pc = "stopped"
    BY <1>2, GoIs DEF Refuse, IInv, Pcs
  <2> QED
    BY <2>1 DEF Booked, Running
<1>3. CASE \E p \in Answers(disk.wf) : Return(p)
  <2>1. PICK p \in Answers(disk.wf) : Return(p)
    BY <1>3
  <2>2. /\ disk' = [disk EXCEPT !.art = "verified"] /\ UNCHANGED <<saved, written>>
        /\ orch.pc = "working" /\ orch' = [orch EXCEPT !.pc = "verified", !.patch = p]
    BY <2>1 DEF Return, At
  <2>3. disk'.wf = disk.wf /\ disk'.ps = disk.ps
    BY <2>2, ArtBooks
  <2>4. orch'.pc = "verified"
    BY <2>2 DEF IInv, OrchTyped
  <2>5. ~disk.ps.applied /\ ~saved.ps.applied
    BY <2>2 DEF Booked, Running
  <2> QED
    BY <2>2, <2>3, <2>4, <2>5 DEF Booked, Running
<1> QED
  BY <1>1, <1>2, <1>3 DEF Worker

\* Where the commit of the worker's work finds the branch moved, nothing is said to
\* be applied.
LEMMA LostBooks ==
    ASSUME IInv, Booked, NEW d, NEW pc, CommitWork(d, pc), behind, orch.pc \in Running
    PROVE  Booked'
<1>1. disk' = saved /\ saved' = saved /\ (Go("stopped") \/ Go("lost"))
  BY DEF CommitWork
<1>2. orch'.pc \in {"stopped", "lost"}
  BY <1>1, GoIs DEF IInv, Pcs
<1>3. ~saved.ps.applied
  BY DEF Booked
<1> QED
  BY <1>1, <1>2, <1>3 DEF Booked, Running

LEMMA RecordResultBooks ==
    ASSUME IInv, Booked, RecordResult
    PROVE  Booked'
<1> DEFINE ps == [disk.ps EXCEPT !.status = "applying_patch"]
           d == [disk EXCEPT !.ps.status = "applying_patch"]
<1>1. orch.pc = "verified" /\ CommitWork(d, "recorded")
  BY DEF RecordResult, At
<1>2. CASE behind
  BY <1>1, <1>2, LostBooks DEF Running
<1>3. CASE ~behind
  <2>1. disk' = d /\ saved' = d /\ Go("recorded")
    BY <1>1, <1>3 DEF CommitWork
  <2>2. disk = [wf |-> disk.wf, ps |-> disk.ps, auth |-> disk.auth, art |-> disk.art]
        /\ disk.ps \in PhaseState
    BY DiskFacts DEF IInv
  <2>3. ps.status = "applying_patch" /\ ps.applied = disk.ps.applied
    BY <2>2, PsFields
  <2>4. d = [disk EXCEPT !.ps = ps]
    BY <2>2
  <2> HIDE DEF ps, d
  <2>5. d = [wf |-> disk.wf, ps |-> ps, auth |-> disk.auth, art |-> disk.art]
    BY <2>2, <2>4
  <2>6. d.ps = ps
    BY <2>5
  <2>7. ~disk.ps.applied
    BY <1>1 DEF Booked, Running
  <2>8. orch'.pc = "recorded"
    BY <2>1, GoIs DEF IInv, Pcs
  <2> QED
    BY <2>1, <2>3, <2>6, <2>7, <2>8 DEF Booked
<1> QED
  BY <1>2, <1>3

LEMMA WritePatchBooks ==
    ASSUME IInv, Booked, WritePatch
    PROVE  Booked'
<1> DEFINE w == Apply(disk.wf, orch.patch)
<1>1. UNCHANGED saved /\ Go("written") /\ orch.pc = "recorded"
      /\ disk' = [disk EXCEPT !.wf = w] /\ written' = disk'.wf
  BY DEF WritePatch, At
<1>2. disk = [wf |-> disk.wf, ps |-> disk.ps, auth |-> disk.auth, art |-> disk.art]
  BY DiskFacts DEF IInv
<1> HIDE DEF w
<1>3. disk' = [wf |-> w, ps |-> disk.ps, auth |-> disk.auth, art |-> disk.art]
  BY <1>1, <1>2
<1>4. disk'.ps = disk.ps
  BY <1>3
<1>5. ~disk.ps.applied /\ ~saved.ps.applied /\ disk.ps.status = "applying_patch"
  BY <1>1 DEF Booked, Running
<1>6. orch'.pc = "written"
  BY <1>1, GoIs DEF IInv, Pcs
<1> QED
  BY <1>1, <1>4, <1>5, <1>6 DEF Booked

LEMMA CommitArtifactBooks ==
    ASSUME IInv, Booked, CommitArtifact
    PROVE  Booked'
<1>1. /\ orch.pc = "written" /\ UNCHANGED written /\ CommitWork(disk, "applied")
      /\ disk.wf = written /\ ~disk.ps.applied /\ disk.ps.status = "applying_patch"
  BY DEF CommitArtifact, At, Booked, Running
<1>2. CASE behind
  BY <1>1, <1>2, LostBooks DEF Running
<1>3. CASE ~behind
  <2>1. disk' = disk /\ saved' = disk /\ Go("applied")
    BY <1>1, <1>3 DEF CommitWork
  <2>2. orch'.pc = "applied"
    BY <2>1, GoIs DEF IInv, Pcs
  <2> QED
    BY <1>1, <2>1, <2>2 DEF Booked
<1> QED
  BY <1>2, <1>3

LEMMA RecordAppliedBooks ==
    ASSUME IInv, Booked, RecordApplied
    PROVE  Booked'
<1>1. /\ orch.pc = "applied" /\ UNCHANGED written
      /\ Record(Applied(disk), Applied(saved), "committed")
      /\ \A d \in {disk, saved} : d.wf = written /\ d.ps.status = "applying_patch"
  BY DEF RecordApplied, At, Booked
<1>2. ASSUME NEW d \in {disk, saved}
      PROVE  Applied(d).wf = written /\ SaysApplied(Applied(d))
  <2> DEFINE ps == [d.ps EXCEPT !.applied = TRUE]
             auth == IF d.auth = "granted" /\ orch.kind = "plan" THEN "spent" ELSE d.auth
  <2>1. d = [wf |-> d.wf, ps |-> d.ps, auth |-> d.auth, art |-> d.art]
        /\ d.ps \in PhaseState
    BY DiskFacts DEF IInv
  <2>2. Applied(d) = [d EXCEPT !.ps = ps, !.auth = auth]
    BY <2>1 DEF Applied
  <2>3. ps.status = d.ps.status /\ ps.applied = TRUE
    BY <2>1, PsFields
  <2> HIDE DEF ps, auth
  <2>4. Applied(d) = [wf |-> d.wf, ps |-> ps, auth |-> auth, art |-> d.art]
    BY <2>1, <2>2
  <2> QED
    BY <1>1, <2>3, <2>4 DEF SaysApplied
<1>3. CASE Go("stopped")
  <2>1. orch'.pc = "stopped"
    BY <1>3, GoIs DEF IInv, Pcs
  <2> QED
    BY <2>1 DEF Booked, Running
<1>4. CASE ~Go("stopped")
  <2>1. /\ disk' \in {Applied(disk), Applied(saved)}
        /\ saved' \in {Applied(disk), Applied(saved)} /\ Go("committed")
    BY <1>1, <1>4 DEF Record
  <2>2. \A e \in {disk', saved'} : e.wf = written /\ SaysApplied(e)
    BY <1>2, <2>1
  <2>3. orch'.pc = "committed"
    BY <2>1, GoIs DEF IInv, Pcs
  <2>4. disk'.wf = written' /\ saved'.wf = written'
        /\ SaysApplied(disk)' /\ SaysApplied(saved)'
    BY <1>1, <2>2 DEF SaysApplied
  <2> QED
    BY <2>3, <2>4 DEF Booked, Running
<1> QED
  BY <1>3, <1>4

LEMMA BeginBooks ==
    ASSUME IInv, Booked, NEW kind \in {"plan", "rework"}, Begin(kind)
    PROVE  Booked'
<1> DEFINE w == IF kind = "rework" THEN [disk.wf EXCEPT !.review = "pending"] ELSE disk.wf
           ps == PhaseStart
           d == [disk EXCEPT !.wf = w, !.ps = ps, !.art = "none"]
<1>1. disk' = d /\ saved' = d
      /\ orch' = [pc |-> "dispatch", kind |-> kind, pass |-> orch.pass + 1,
                  patch |-> NoPatch]
  BY DEF Begin
<1>2. disk = [wf |-> disk.wf, ps |-> disk.ps, auth |-> disk.auth, art |-> disk.art]
  BY DiskFacts DEF IInv
<1>3. ~ps.applied
  BY DEF PhaseStart
<1> HIDE DEF w, ps
<1>4. d = [wf |-> w, ps |-> ps, auth |-> disk.auth, art |-> "none"]
  <2> DEFINE x == [disk EXCEPT !.wf = w]
             y == [x EXCEPT !.ps = ps]
             z == [y EXCEPT !.art = "none"]
  <2>1. x = [wf |-> w, ps |-> disk.ps, auth |-> disk.auth, art |-> disk.art]
    BY <1>2
  <2> HIDE DEF x
  <2>2. y = [wf |-> w, ps |-> ps, auth |-> disk.auth, art |-> disk.art]
    BY <2>1
  <2> HIDE DEF y
  <2>3. z = [wf |-> w, ps |-> ps, auth |-> disk.auth, art |-> "none"]
    BY <2>2
  <2> QED
    BY <2>3 DEF x, y, z
<1> HIDE DEF d
<1>5. disk'.ps = ps /\ saved'.ps = ps /\ orch'.pc = "dispatch"
  BY <1>1, <1>4
<1> QED
  BY <1>3, <1>5 DEF Booked, Running

LEMMA CrashBooks ==
    ASSUME IInv, Booked, Crash
    PROVE  Booked'
<1>1. UNCHANGED <<disk, saved, written>> /\ orch.pc \in Pcs \ {"idle", "down", "stopped"}
  BY DEF Crash, IInv, OrchTyped
<1>2. PICK p \in {orch.patch, NoPatch} : orch' = [orch EXCEPT !.pc = "down", !.patch = p]
  BY DEF Crash
<1>3. orch'.pc = "down"
  BY <1>2 DEF IInv, OrchTyped
<1>4. /\ disk.ps.applied => /\ SaysApplied(disk) /\ SaysApplied(saved)
                            /\ disk.wf = written /\ saved.wf = written
      /\ saved.ps.applied => disk.ps.applied
  BY <1>1 DEF Booked, Running, Pcs, SaysApplied
<1> QED
  BY <1>1, <1>3, <1>4 DEF Booked, Running, SaysApplied

\* The resume table reads the record of the application.
LEMMA ResumeBooks ==
    ASSUME IInv, Booked, Resume
    PROVE  Booked'
<1> DEFINE pc == ResumeAt(disk, orch.patch)
           art == Inspected(disk.art)
<1>1. UNCHANGED <<saved, written>> /\ Go(pc) /\ disk' = [disk EXCEPT !.art = art]
      /\ orch.pc = "down"
  BY DEF Resume, At
<1>2. /\ pc \in {"dispatch", "recorded", "committed", "idle"}
      /\ pc \in {"dispatch", "recorded"} =>
             disk.ps.status # "applying_patch" \/ ~disk.ps.applied
      /\ pc = "recorded" => disk.ps.status = "applying_patch"
      /\ pc = "committed" => disk.ps.applied
  BY DEF ResumeAt
<1>3. art \in {"none", "verified"}
  BY DEF Inspected
<1> HIDE DEF pc, art
<1>4. disk'.wf = disk.wf /\ disk'.ps = disk.ps
  BY <1>1, <1>3, ArtBooks
<1>5. orch'.pc = pc
  BY <1>1, <1>2, GoIs DEF IInv, Pcs
<1>6. /\ disk.ps.applied => /\ SaysApplied(disk) /\ SaysApplied(saved)
                            /\ disk.wf = written /\ saved.wf = written
      /\ saved.ps.applied => disk.ps.applied
  BY <1>1 DEF Booked
<1> QED
  BY <1>1, <1>2, <1>4, <1>5, <1>6 DEF Booked, Running, SaysApplied

\* While no pass runs there is nothing to book.
LEMMA IdleBooks ==
    ASSUME orch'.pc \in {"idle", "stopped"}
    PROVE  Booked'
BY DEF Booked, Running

LEMMA StepBooks ==
    ASSUME IInv, Booked, [Next]_vars
    PROVE  Booked'
<1>1. CASE \E kind \in {"plan", "rework"} : Begin(kind)
  BY <1>1, BeginBooks
<1>2. CASE Complete
  <2>1. Go("idle") \/ Go("stopped")
    BY <1>2 DEF Complete, Record
  <2>2. orch'.pc \in {"idle", "stopped"}
    BY <2>1, GoIs DEF IInv, Pcs
  <2> QED
    BY <2>2, IdleBooks
<1>3. CASE Orchestrate /\ ~Complete
  BY <1>3, DispatchBooks, RecordResultBooks, WritePatchBooks, RecordAppliedBooks,
     CommitArtifactBooks, RecordDiscardedBooks, ResumeBooks DEF Orchestrate
<1>4. CASE Worker
  BY <1>4, WorkerBooks
<1>5. CASE Crash
  BY <1>5, CrashBooks
<1>6. CASE Restart
  <2>1. orch'.pc = "idle"
    BY <1>6, GoIs DEF Restart, IInv, Pcs
  <2> QED
    BY <2>1, IdleBooks
<1>7. CASE \/ \E i \in TaskIds : Launch(i) \/ Land(i) \/ Settle(i)
           \/ EndImplement \/ RouteBack \/ SpecChange
  <2>1. orch'.pc = "idle"
    BY <1>7 DEF Launch, Land, Settle, EndImplement, RouteBack, SpecChange, At
  <2> QED
    BY <2>1, IdleBooks
<1>8. CASE Advance \/ UNCHANGED vars
  <2>1. UNCHANGED <<disk, saved, orch, written>>
    BY <1>8 DEF Advance, vars
  <2> QED
    BY <2>1 DEF Booked, SaysApplied, Running
<1> QED
  BY <1>1, <1>2, <1>3, <1>4, <1>5, <1>6, <1>7, <1>8 DEF Next

LEMMA InitBooked == Init => Booked
<1> SUFFICES ASSUME Init PROVE Booked
  OBVIOUS
<1>1. orch.pc = "idle"
  BY DEF Init
<1> QED
  BY <1>1 DEF Booked, Running

THEOREM Booking == Spec => []Booked
  BY InitBooked, StepBooks, Invariance, PTL DEF Spec

\* A planning step ends as completed over the workflow its patch produced, with
\* nothing but the plan's status changed: the phase state says "applied" only
\* while the workflow is the written one, on the disk and in the last commit, and
\* the resume table goes on to the completion by that word alone.
THEOREM CompletedOverWritten == Spec => CompletedIsApplied
<1> DEFINE Done == At("committed") /\ orch'.pc = "idle" =>
               saved'.wf = [written EXCEPT !.plan =
                                IF orch.kind = "plan" THEN "completed" ELSE @]
<1>1. ASSUME IInv, Booked, [Next]_vars
      PROVE  Done
  <2> SUFFICES ASSUME At("committed"), orch'.pc = "idle"
               PROVE  saved'.wf = [written EXCEPT !.plan =
                                       IF orch.kind = "plan" THEN "completed" ELSE @]
    OBVIOUS
  <2>1. orch.pc = "committed"
    BY DEF At
  <2>2. Complete
    <3>1. ~(Advance \/ UNCHANGED vars)
      BY <1>1, <2>1 DEF Advance, vars
    <3>2. ~Crash
      BY <1>1 DEF Crash, IInv, OrchTyped
    <3>3. ~(\E kind \in {"plan", "rework"} : Begin(kind)) /\ ~Worker /\ ~Restart
      BY <2>1 DEF Begin, Worker, WorkerWrites, Refuse, Return, Restart, At
    <3>4. ~(\/ \E i \in TaskIds : Launch(i) \/ Land(i) \/ Settle(i)
            \/ EndImplement \/ RouteBack \/ SpecChange)
      BY <2>1 DEF Launch, Land, Settle, EndImplement, RouteBack, SpecChange, At
    <3>5. Orchestrate
      BY <1>1, <3>1, <3>2, <3>3, <3>4 DEF Next
    <3> QED
      BY <2>1, <3>5 DEF Orchestrate, Dispatch, RecordResult, WritePatch, RecordApplied,
         CommitArtifact, RecordDiscarded, Resume, At
  <2>3. saved' \in {Completed(disk), Completed(saved)}
    <3>1. orch'.pc # "stopped"
      OBVIOUS
    <3>2. ~Go("stopped")
      BY <1>1, <3>1, GoIs DEF IInv, Pcs
    <3> QED
      BY <2>2, <3>2 DEF Complete, Record
  <2>4. disk.wf = written /\ saved.wf = written
    BY <1>1, <2>1 DEF Booked
  <2>5. ASSUME NEW d \in {disk, saved}
        PROVE  Completed(d).wf = [written EXCEPT !.plan =
                                      IF orch.kind = "plan" THEN "completed" ELSE @]
    <3> DEFINE plan == IF orch.kind = "plan" THEN "completed" ELSE d.wf.plan
               w == [d.wf EXCEPT !.plan = plan]
               ps == [d.ps EXCEPT !.status = "completed", !.stale = 0]
    <3>1. d = [wf |-> d.wf, ps |-> d.ps, auth |-> d.auth, art |-> d.art]
      BY <1>1, DiskFacts DEF IInv
    <3>2. Completed(d) = [d EXCEPT !.ps = ps, !.wf = w]
      BY <3>1 DEF Completed
    <3>3. w = [written EXCEPT !.plan = IF orch.kind = "plan" THEN "completed" ELSE @]
      BY <2>4
    <3> HIDE DEF w, ps, plan
    <3>4. Completed(d) = [wf |-> w, ps |-> ps, auth |-> d.auth, art |-> d.art]
      BY <3>1, <3>2
    <3> QED
      BY <3>3, <3>4
  <2> QED
    BY <2>3, <2>5
<1> HIDE DEF Done
<1>2. IInv /\ Booked /\ [Next]_vars => [Done]_vars
  BY <1>1
<1> QED
  BY <1>2, Invariance, Booking, PTL DEF Spec, CompletedIsApplied, Done

-----------------------------------------------------------------------------
(* The scenarios of a rework *)

LEMMA LeastNat ==
    ASSUME NEW T, T \subseteq Nat, T # {}
    PROVE  \E x \in T : \A y \in T : x <= y
<1>1. PICK x \in T : \A y \in T : ~(<<y, x>> \in OpToRel(<, Nat))
  BY NatLessThanWellFounded, WFMin
<1>2. ASSUME NEW y \in T
      PROVE  x <= y
  <2>1. ~(y < x)
    BY <1>1 DEF OpToRel
  <2> QED
    BY <2>1
<1> QED
  BY <1>2

LEMMA AppendedIs ==
    ASSUME NEW S, NEW x \in Seq(S), NEW e \in S
    PROVE  Append(x, e) \in Seq(S) /\ Range(Append(x, e)) = Range(x) \cup {e}
<1> DEFINE n == Len(x)
           m == Append(x, e)
<1>1. n \in Nat /\ DOMAIN x = 1..n /\ m \in Seq(S) /\ DOMAIN m = 1..(n + 1)
  OBVIOUS
<1>2. m[n + 1] = e /\ \A k \in 1..n : m[k] = x[k]
  OBVIOUS
<1> HIDE DEF n, m
<1>3. 1..(n + 1) = 1..n \cup {n + 1}
  BY <1>1
<1>4. Range(m) = Range(x) \cup {e}
  BY <1>1, <1>2, <1>3 DEF Range
<1> QED
  BY <1>1, <1>4 DEF m

\* The lists without t up to each position exist, so that Without is the last.
LEMMA UptoEach ==
    ASSUME NEW l, NEW t, Len(l) \in Nat
    PROVE  \E f : /\ f = [k \in 0..Len(l) |->
                            IF k = 0 THEN <<>>
                            ELSE IF l[k] = t THEN f[k - 1] ELSE Append(f[k - 1], l[k])]
                  /\ Without(l, t) = f[Len(l)]
<1> DEFINE Step(k, v) == IF l[k] = t THEN v ELSE Append(v, l[k])
           Rec(f, n) == [k \in 0..n |-> IF k = 0 THEN <<>> ELSE Step(k, f[k - 1])]
           Bad == {n \in Nat : ~\E f : f = Rec(f, n)}
<1>1. Bad = {}
  <2> SUFFICES ASSUME Bad # {} PROVE FALSE
    OBVIOUS
  <2>1. PICK n \in Bad : \A y \in Bad : n <= y
    <3>1. Bad \subseteq Nat
      OBVIOUS
    <3> HIDE DEF Bad
    <3> QED
      BY <3>1, LeastNat
  <2> HIDE DEF Step
  <2>2. n # 0
    <3> DEFINE g == [k \in 0..0 |-> <<>>]
    <3>1. g = Rec(g, 0)
      OBVIOUS
    <3> QED
      BY <3>1
  <2>3. PICK f : f = Rec(f, n - 1)
    <3>1. n \in Nat /\ n - 1 \in Nat /\ ~(n <= n - 1)
      BY <2>1, <2>2
    <3>2. n - 1 \notin Bad
      BY <2>1, <3>1
    <3> QED
      BY <3>1, <3>2
  <2> DEFINE g == [k \in 0..n |-> IF k = n THEN Step(n, f[n - 1]) ELSE f[k]]
  <2>4. ASSUME NEW k \in 0..n
        PROVE  g[k] = IF k = 0 THEN <<>> ELSE Step(k, g[k - 1])
    <3>1. CASE k = n
      BY <2>2, <3>1
    <3>2. CASE k # n
      <4>1. k \in 0..(n - 1) /\ g[k] = f[k]
        BY <2>2, <3>2
      <4>2. f[k] = IF k = 0 THEN <<>> ELSE Step(k, f[k - 1])
        BY <2>3, <4>1
      <4>3. k # 0 => g[k - 1] = f[k - 1]
        BY <4>1
      <4> QED
        BY <4>1, <4>2, <4>3
    <3> QED
      BY <3>1, <3>2
  <2>5. g = Rec(g, n)
    BY <2>4
  <2> QED
    BY <2>1, <2>5
<1>2. \E f : f = Rec(f, Len(l))
  BY <1>1
<1> DEFINE upto == CHOOSE f : f = Rec(f, Len(l))
<1>3. upto = Rec(upto, Len(l))
  BY <1>2
<1>4. Without(l, t) = upto[Len(l)]
  BY DEF Without
<1> QED
  BY <1>3, <1>4

LEMMA WithoutIs ==
    ASSUME NEW S, NEW l \in Seq(S), NEW t
    PROVE  Without(l, t) \in Seq(S) /\ Range(Without(l, t)) = Range(l) \ {t}
<1> DEFINE n == Len(l)
           Seen(k) == {l[j] : j \in 1..k}
<1>1. n \in Nat /\ DOMAIN l = 1..n /\ \A k \in 1..n : l[k] \in S
  OBVIOUS
<1>2. PICK f : f = [k \in 0..n |->
                       IF k = 0 THEN <<>>
                       ELSE IF l[k] = t THEN f[k - 1] ELSE Append(f[k - 1], l[k])]
               /\ Without(l, t) = f[n]
  BY <1>1, UptoEach
<1>3. f[0] = <<>>
      /\ \A k \in 1..n : f[k] = IF l[k] = t THEN f[k - 1] ELSE Append(f[k - 1], l[k])
  <2>1. 0 \in 0..n /\ \A k \in 1..n : k \in 0..n /\ k # 0
    BY <1>1
  <2> HIDE DEF n
  <2> QED
    BY <1>2, <2>1
<1> DEFINE Fine(k) == f[k] \in Seq(S) /\ Range(f[k]) = Seen(k) \ {t}
           Bad == {k \in 0..n : ~Fine(k)}
<1>4. Bad = {}
  <2> SUFFICES ASSUME Bad # {} PROVE FALSE
    OBVIOUS
  <2>1. PICK k \in Bad : \A y \in Bad : k <= y
    <3>1. Bad \subseteq Nat
      BY <1>1
    <3> HIDE DEF Bad
    <3> QED
      BY <3>1, LeastNat
  <2>2. k # 0
    <3>1. Seen(0) = {} /\ Range(<<>>) = {} /\ <<>> \in Seq(S)
      BY DEF Range
    <3>2. Fine(0)
      BY <1>3, <3>1
    <3> QED
      BY <3>2
  <2>3. k \in 1..n /\ k - 1 \in 0..n /\ ~(k <= k - 1)
    BY <1>1, <2>2
  <2>4. f[k - 1] \in Seq(S) /\ Range(f[k - 1]) = Seen(k - 1) \ {t}
    BY <2>1, <2>3
  <2>5. 1..k = (1..(k - 1)) \cup {k}
    BY <2>3
  <2>6. Seen(k) = Seen(k - 1) \cup {l[k]}
    BY <2>5
  <2> HIDE DEF Seen
  <2>7. CASE l[k] = t
    <3>1. f[k] = f[k - 1]
      BY <1>3, <2>3, <2>7
    <3> QED
      BY <2>1, <2>4, <2>6, <2>7, <3>1
  <2>8. CASE l[k] # t
    <3>1. f[k] = Append(f[k - 1], l[k]) /\ l[k] \in S
      BY <1>1, <1>3, <2>3, <2>8
    <3>2. f[k] \in Seq(S) /\ Range(f[k]) = Range(f[k - 1]) \cup {l[k]}
      BY <2>4, <3>1, AppendedIs
    <3> QED
      BY <2>1, <2>4, <2>6, <2>8, <3>2
  <2> QED
    BY <2>7, <2>8
<1>5. Fine(n)
  <2>1. n \in 0..n
    BY <1>1
  <2> HIDE DEF Fine
  <2> QED
    BY <1>4, <2>1
<1>6. Seen(n) = Range(l)
  BY <1>1 DEF Range
<1> QED
  BY <1>2, <1>5, <1>6

\* One pair: from gives way to to, wherever and however often it is listed.
LEMMA SwapIs ==
    ASSUME NEW S, NEW l \in Seq(S), NEW s, s.from # s.to, s.to \in S,
           s.from \in Range(l), NEW m, m = Swap(l, s)
    PROVE  m \in Seq(S) /\ Range(m) = (Range(l) \ {s.from}) \cup {s.to}
<1> DEFINE at(t) == {k \in DOMAIN l : l[k] = t}
           i == Min(at(s.from))
           r == ReplaceAt(l, i, s.to)
<1>1. at(s.from) # {} /\ at(s.from) \subseteq Nat
  BY DEF Range
<1>2. m = Without(IF at(s.to) # {} THEN l ELSE r, s.from)
  BY <1>1 DEF Swap
<1>3. CASE at(s.to) # {}
  <2>1. s.to \in Range(l)
    BY <1>3 DEF Range
  <2> QED
    BY <1>2, <1>3, <2>1, WithoutIs
<1>4. CASE at(s.to) = {}
  <2>1. i \in 1..Len(l) /\ l[i] = s.from
    <3> DEFINE T == at(s.from)
    <3>1. \E x \in T : \A y \in T : x <= y
      <4> HIDE DEF T
      <4> QED
        BY <1>1, LeastNat DEF T
    <3>2. i \in T
      <4>1. i = CHOOSE x \in T : \A y \in T : x <= y
        BY DEF Min
      <4> HIDE DEF T, i
      <4> QED
        BY <3>1, <4>1
    <3> HIDE DEF i
    <3> QED
      BY <3>2
  <2> HIDE DEF i
  <2>2. r = [l EXCEPT ![i] = s.to]
    BY DEF ReplaceAt
  <2>3. r \in Seq(S) /\ DOMAIN r = 1..Len(l)
    BY <2>1, <2>2
  <2>4. \A k \in 1..Len(l) : r[k] = IF k = i THEN s.to ELSE l[k]
    BY <2>1, <2>2
  <2> HIDE DEF r
  <2>5. Range(r) \ {s.from} = (Range(l) \ {s.from}) \cup {s.to}
    BY <2>1, <2>3, <2>4 DEF Range
  <2>6. Without(r, s.from) \in Seq(S) /\ Range(Without(r, s.from)) = Range(r) \ {s.from}
    BY <2>3, WithoutIs
  <2> QED
    BY <1>2, <1>4, <2>5, <2>6
<1> QED
  BY <1>3, <1>4

\* The list after each pair exists, so that SwapAll is the last of them.
LEMMA AfterEach ==
    ASSUME NEW tests, NEW swaps, Len(swaps) \in Nat
    PROVE  \E f : /\ f = [k \in 0..Len(swaps) |->
                            IF k = 0 THEN tests ELSE Swap(f[k - 1], swaps[k])]
                  /\ SwapAll(tests, swaps) = f[Len(swaps)]
<1> DEFINE Rec(f, n) == [k \in 0..n |-> IF k = 0 THEN tests ELSE Swap(f[k - 1], swaps[k])]
           Bad == {n \in Nat : ~\E f : f = Rec(f, n)}
<1>1. Bad = {}
  <2> SUFFICES ASSUME Bad # {} PROVE FALSE
    OBVIOUS
  <2>1. PICK n \in Bad : \A y \in Bad : n <= y
    <3>1. Bad \subseteq Nat
      OBVIOUS
    <3> HIDE DEF Bad
    <3> QED
      BY <3>1, LeastNat
  <2>2. n # 0
    <3> DEFINE g == [k \in 0..0 |-> tests]
    <3>1. g = Rec(g, 0)
      OBVIOUS
    <3> QED
      BY <3>1
  <2>3. PICK f : f = Rec(f, n - 1)
    <3>1. n \in Nat /\ n - 1 \in Nat /\ ~(n <= n - 1)
      BY <2>1, <2>2
    <3>2. n - 1 \notin Bad
      BY <2>1, <3>1
    <3> QED
      BY <3>1, <3>2
  <2> DEFINE g == [k \in 0..n |-> IF k = n THEN Swap(f[n - 1], swaps[n]) ELSE f[k]]
  <2>4. ASSUME NEW k \in 0..n
        PROVE  g[k] = IF k = 0 THEN tests ELSE Swap(g[k - 1], swaps[k])
    <3>1. CASE k = n
      BY <2>2, <3>1
    <3>2. CASE k # n
      <4>1. k \in 0..(n - 1) /\ g[k] = f[k]
        BY <2>2, <3>2
      <4>2. f[k] = IF k = 0 THEN tests ELSE Swap(f[k - 1], swaps[k])
        BY <2>3, <4>1
      <4>3. k # 0 => g[k - 1] = f[k - 1]
        BY <4>1
      <4> QED
        BY <4>1, <4>2, <4>3
    <3> QED
      BY <3>1, <3>2
  <2>5. g = Rec(g, n)
    BY <2>4
  <2> QED
    BY <2>1, <2>5
<1>2. \E f : f = Rec(f, Len(swaps))
  BY <1>1
<1> DEFINE after == CHOOSE f : f = Rec(f, Len(swaps))
<1>3. after = Rec(after, Len(swaps))
  BY <1>2
<1>4. SwapAll(tests, swaps) = after[Len(swaps)]
  BY DEF SwapAll
<1> QED
  BY <1>3, <1>4

\* No scenario is replaced by two pairs.
Distinct(p) ==
    \A j, k \in 1..Len(p.swaps) : j # k => p.swaps[j].from # p.swaps[k].from

\* All the pairs, in order: where no id is both replaced and a replacement, each
\* scenario is at the end what the pairs say of it, whatever their order.
LEMMA SwapAllIs ==
    ASSUME NEW l, l \in Seq(Nat), NEW p, p.swaps \in Seq([from : 1..3, to : 1..3]),
           Tos(p) \subseteq Nat, Froms(p) \subseteq Range(l), Froms(p) \cap Tos(p) = {},
           Distinct(p)
    PROVE  /\ SwapAll(l, p.swaps) \in Seq(Nat)
           /\ Range(SwapAll(l, p.swaps)) = (Range(l) \ Froms(p)) \cup Tos(p)
<1> DEFINE S == Nat
           T == [from : 1..3, to : 1..3]
           m == SwapAll(l, p.swaps)
<1>a. l \in Seq(S) /\ p.swaps \in Seq(T) /\ Tos(p) \subseteq S /\ m = SwapAll(l, p.swaps)
  OBVIOUS
<1> SUFFICES m \in Seq(S) /\ Range(m) = (Range(l) \ Froms(p)) \cup Tos(p)
  OBVIOUS
<1> HIDE DEF S, T, m
<1> DEFINE swaps == p.swaps
           n == Len(swaps)
           From(k) == {swaps[j].from : j \in 1..k}
           To(k) == {swaps[j].to : j \in 1..k}
<1>0. /\ n \in Nat /\ Froms(p) = From(n) /\ Tos(p) = To(n)
      /\ \A k \in 1..n : swaps[k].from \in Froms(p) /\ swaps[k].to \in Tos(p)
  <2>1. n \in Nat /\ DOMAIN swaps = 1..n
    BY <1>a
  <2> HIDE DEF swaps, n
  <2>2. Froms(p) = {swaps[k].from : k \in 1..n} /\ Tos(p) = {swaps[k].to : k \in 1..n}
    BY <2>1 DEF Froms, Tos, swaps
  <2> QED
    BY <2>1, <2>2
<1> HIDE DEF swaps
<1>1. PICK f : f = [k \in 0..n |-> IF k = 0 THEN l ELSE Swap(f[k - 1], swaps[k])]
               /\ m = f[n]
  BY <1>0, <1>a, AfterEach DEF swaps
<1>2. f[0] = l /\ \A k \in 1..n : f[k] = Swap(f[k - 1], swaps[k])
  <2>1. 0 \in 0..n /\ \A k \in 1..n : k \in 0..n /\ k # 0
    BY <1>0
  <2> HIDE DEF n
  <2> QED
    BY <1>1, <2>1
<1> DEFINE Fine(k) == /\ f[k] \in Seq(S)
                      /\ Range(f[k]) = (Range(l) \ From(k)) \cup To(k)
           Bad == {k \in 0..n : ~Fine(k)}
<1>3. Bad = {}
  <2> SUFFICES ASSUME Bad # {} PROVE FALSE
    OBVIOUS
  <2>1. PICK k \in Bad : \A y \in Bad : k <= y
    <3>1. Bad \subseteq Nat
      OBVIOUS
    <3> HIDE DEF Bad
    <3> QED
      BY <3>1, LeastNat
  <2>2. k # 0
    <3>1. From(0) = {} /\ To(0) = {}
      OBVIOUS
    <3>2. Fine(0)
      BY <1>2, <1>a, <3>1
    <3> QED
      BY <3>2
  <2>3. k \in 1..n /\ k - 1 \in 0..n /\ ~(k <= k - 1)
    BY <1>0, <2>2
  <2>4. Fine(k - 1)
    BY <2>1, <2>3
  <2>5. f[k] = Swap(f[k - 1], swaps[k])
    BY <1>2, <2>3
  <2>6. 1..k = (1..(k - 1)) \cup {k}
    BY <2>3
  <2>7. From(k) = From(k - 1) \cup {swaps[k].from} /\ To(k) = To(k - 1) \cup {swaps[k].to}
    BY <2>6
  <2>8. swaps[k].from \notin From(k - 1) /\ swaps[k].from \notin To(k)
        /\ swaps[k].from # swaps[k].to /\ swaps[k].to \in S /\ swaps[k].from \in Range(l)
    <3>1. 1..(k - 1) \subseteq 1..n /\ k \notin 1..(k - 1) /\ 1..k \subseteq 1..n
      BY <1>0, <2>3
    <3>2. swaps[k].from \in Froms(p) /\ To(k) \subseteq Tos(p) /\ swaps[k].to \in Tos(p)
      BY <1>0, <2>3, <3>1
    <3>3. \A j \in 1..(k - 1) : swaps[j].from # swaps[k].from
      BY <2>3, <3>1 DEF Distinct, swaps
    <3> QED
      BY <1>a, <3>2, <3>3
  <2> HIDE DEF From, To, n
  <2>9. swaps[k].from \in Range(f[k - 1])
    BY <2>4, <2>8
  <2>10. /\ f[k] \in Seq(S)
         /\ Range(f[k]) = (Range(f[k - 1]) \ {swaps[k].from}) \cup {swaps[k].to}
    <3>1. f[k - 1] \in Seq(S)
      BY <2>4
    <3> HIDE DEF Fine
    <3>2. swaps[k].from # swaps[k].to /\ swaps[k].to \in S
      BY <2>8
    <3> DEFINE g == f[k - 1]
               s == swaps[k]
    <3>3. /\ g \in Seq(S) /\ s.from # s.to /\ s.to \in S /\ s.from \in Range(g)
          /\ f[k] = Swap(g, s)
      BY <2>5, <2>9, <3>1, <3>2
    <3> HIDE DEF g, s
    <3>4. f[k] \in Seq(S) /\ Range(f[k]) = (Range(g) \ {s.from}) \cup {s.to}
      BY <3>3, SwapIs
    <3> QED
      BY <3>4 DEF g, s
  <2>11. \A t \in To(k - 1) : t # swaps[k].from
    BY <2>7, <2>8
  <2>12. Fine(k)
    BY <2>4, <2>7, <2>10, <2>11
  <2> QED
    BY <2>1, <2>12
<1>4. Fine(n)
  <2>1. n \in 0..n
    BY <1>0
  <2> HIDE DEF Fine
  <2> QED
    BY <1>3, <2>1
<1> HIDE DEF From, To
<1> QED
  BY <1>0, <1>1, <1>4

\* What the structural layer says of a patch's pairs.
LEMMA PairsAre ==
    ASSUME NEW w, NEW p, SwapsOk(p, w), NEW T, p.swaps \in Seq(T)
    PROVE  Froms(p) \subseteq Range(w.tests) /\ Froms(p) \cap Tos(p) = {} /\ Distinct(p)
<1> DEFINE D == 1..Len(p.swaps)
           g == [k \in D |-> p.swaps[k].from]
<1>1. DOMAIN p.swaps = D /\ Len(p.swaps) \in Nat
  OBVIOUS
<1>2. \A k \in D : p.swaps[k].from \in Froms(p) /\ p.swaps[k].to \in Tos(p)
  BY <1>1 DEF Froms, Tos
<1>3. g \in Surjection(D, Froms(p))
  BY <1>1, <1>2 DEF Froms, Surjection
<1>4. IsFiniteSet(D) /\ Cardinality(D) = Len(p.swaps)
  BY <1>1, FS_Interval
<1>5. Cardinality(Froms(p)) = Cardinality(D)
  BY <1>4 DEF SwapsOk
<1> HIDE DEF g
<1>6. g \in Injection(D, Froms(p))
  BY <1>3, <1>4, <1>5, FS_Surjection
<1>7. \A j, k \in D : j # k => p.swaps[j].from # p.swaps[k].from
  BY <1>6 DEF Injection, IsInjective, g
<1> QED
  BY <1>7 DEF SwapsOk, Range, Distinct

\* The lists and what a patch does to them are sequences of scenario ids.
Listing ==
    /\ disk.wf.tests \in Seq(Nat) /\ saved.wf.tests \in Seq(Nat)
    /\ orch.patch # NoPatch => orch.patch.swaps \in Swaps /\ orch.patch.more \in Seq(Nat)

LEMMA SwapsAre ==
    ASSUME NEW s \in Swaps
    PROVE  s \in Seq([from : 1..3, to : 1..3]) /\ Len(s) \in Nat
           /\ \A k \in 1..Len(s) : s[k].to \in 1..3
<1> DEFINE T == [from : 1..3, to : 1..3]
<1>1. \A a, b \in 1..3 : [from |-> a, to |-> b] \in T
  OBVIOUS
<1>2. \A x, y \in T : <<x, y>> \in Seq(T)
  OBVIOUS
<1> DEFINE r(a, b) == [from |-> a, to |-> b]
<1>3. s \in {<<>>, <<r(1, 3), r(2, 3)>>, <<r(1, 2), r(2, 3)>>, <<r(1, 2), r(2, 1)>>}
  BY Zenon DEF Swaps
<1>4. r(1, 3) \in T /\ r(2, 3) \in T /\ r(1, 2) \in T /\ r(2, 1) \in T
  BY <1>1
<1>5. <<>> \in Seq(T)
  OBVIOUS
<1> HIDE DEF T, r
<1>6. s \in Seq(T)
  BY <1>2, <1>3, <1>4, <1>5
<1>7. Len(s) \in Nat /\ \A k \in 1..Len(s) : s[k] \in T
  BY <1>6
<1>8. \A k \in 1..Len(s) : s[k].to \in 1..3
  BY <1>7 DEF T
<1> QED
  BY <1>6, <1>7, <1>8 DEF T

\* What the images of the listed scenarios are together.
LEMMA ImagesAre ==
    ASSUME NEW p, NEW R, Froms(p) \subseteq R
    PROVE  UNION {Image(p, t) : t \in R} = (R \ Froms(p)) \cup Tos(p)
<1>1. ASSUME NEW t \in R, NEW x \in Image(p, t)
      PROVE  x \in (R \ Froms(p)) \cup Tos(p)
  BY <1>1 DEF Image, Tos
<1>2. ASSUME NEW x \in R \ Froms(p)
      PROVE  x \in Image(p, x)
  BY DEF Image
<1>3. ASSUME NEW x \in Tos(p)
      PROVE  \E t \in R : x \in Image(p, t)
  <2>1. PICK k \in DOMAIN p.swaps : x = p.swaps[k].to
    BY DEF Tos
  <2>2. p.swaps[k].from \in Froms(p)
    BY DEF Froms
  <2>3. x \in Image(p, p.swaps[k].from)
    BY <2>1, <2>2 DEF Image
  <2> QED
    BY <2>2, <2>3
<1> QED
  BY <1>1, <1>2, <1>3

\* What a patch makes of the list of scenarios.
LEMMA Rewritten ==
    ASSUME NEW w, w.tests \in Seq(Nat), NEW p, p.swaps \in Swaps, p.more \in Seq(Nat),
           SwapsOk(p, w), NEW m, m = SwapAll(w.tests, p.swaps) \o p.more
    PROVE  /\ m \in Seq(Nat)
           /\ Range(m) = (UNION {Image(p, t) : t \in Range(w.tests)}) \cup Range(p.more)
<1> DEFINE l == w.tests
           x == SwapAll(l, p.swaps)
           y == p.more
<1>1. p.swaps \in Seq([from : 1..3, to : 1..3])
      /\ \A k \in 1..Len(p.swaps) : p.swaps[k].to \in 1..3
  BY SwapsAre
<1>2. Tos(p) \subseteq Nat
  <2>1. DOMAIN p.swaps = 1..Len(p.swaps)
    BY <1>1
  <2>2. 1..3 \subseteq Nat
    OBVIOUS
  <2> QED
    BY <1>1, <2>1, <2>2 DEF Tos
<1>3. Froms(p) \subseteq Range(l) /\ Froms(p) \cap Tos(p) = {} /\ Distinct(p)
  BY <1>1, PairsAre
<1> HIDE DEF l, x, y
<1>4. x \in Seq(Nat) /\ Range(x) = (Range(l) \ Froms(p)) \cup Tos(p)
  <2>1. l \in Seq(Nat)
    BY DEF l
  <2>2. /\ SwapAll(l, p.swaps) \in Seq(Nat)
        /\ Range(SwapAll(l, p.swaps)) = (Range(l) \ Froms(p)) \cup Tos(p)
    BY <1>1, <1>2, <1>3, <2>1, SwapAllIs
  <2> QED
    BY <2>2 DEF x
<1>5. Range(x) = UNION {Image(p, t) : t \in Range(l)}
  BY <1>3, <1>4, ImagesAre
<1>6. m = x \o y /\ y \in Seq(Nat)
  BY DEF x, y, l
<1>7. /\ m \in Seq(Nat)
      /\ Len(m) = Len(x) + Len(y)
      /\ \A k \in 1..Len(x) : m[k] = x[k]
      /\ \A k \in 1..Len(y) : m[Len(x) + k] = y[k]
  BY <1>4, <1>6
<1>8. /\ Len(x) \in Nat /\ Len(y) \in Nat
      /\ DOMAIN m = 1..Len(m) /\ DOMAIN x = 1..Len(x) /\ DOMAIN y = 1..Len(y)
  BY <1>4, <1>6, <1>7
<1>9. Range(m) = Range(x) \cup Range(y)
  <2>1. ASSUME NEW k \in 1..Len(m)
        PROVE  m[k] \in Range(x) \cup Range(y)
    <3>1. CASE k <= Len(x)
      <4>1. k \in 1..Len(x)
        <5>1. k \in Nat /\ 1 <= k
          OBVIOUS
        <5> QED
          BY <1>8, <3>1, <5>1
      <4>2. k \in DOMAIN x /\ m[k] = x[k]
        BY <1>7, <1>8, <4>1
      <4> QED
        BY <4>2 DEF Range
    <3>2. CASE ~(k <= Len(x))
      <4>1. k - Len(x) \in 1..Len(y) /\ Len(x) + (k - Len(x)) = k
        BY <1>7, <1>8, <3>2
      <4>2. m[k] = y[k - Len(x)]
        BY <1>7, <4>1
      <4>3. k - Len(x) \in DOMAIN y
        BY <1>8, <4>1
      <4> QED
        BY <4>2, <4>3 DEF Range
    <3> QED
      BY <3>1, <3>2
  <2>2. ASSUME NEW k \in 1..Len(x)
        PROVE  x[k] \in Range(m)
    <3>1. k \in 1..Len(m)
      BY <1>7, <1>8
    <3> QED
      BY <1>7, <1>8, <3>1 DEF Range
  <2>3. ASSUME NEW k \in 1..Len(y)
        PROVE  y[k] \in Range(m)
    <3>1. Len(x) + k \in 1..Len(m)
      BY <1>7, <1>8
    <3> QED
      BY <1>7, <1>8, <3>1 DEF Range
  <2>4. Range(m) \subseteq Range(x) \cup Range(y)
    BY <1>8, <2>1 DEF Range
  <2>5. Range(x) \subseteq Range(m) /\ Range(y) \subseteq Range(m)
    BY <1>8, <2>2, <2>3 DEF Range
  <2> QED
    BY <2>4, <2>5
<1> QED
  BY <1>5, <1>7, <1>9 DEF l, y

-----------------------------------------------------------------------------
(* Where the lists come from *)

\* What the passes and the implement phase write to a workflow beside its list.
LEMMA ListKept ==
    ASSUME NEW w, WfTyped(w), NEW a, NEW b, NEW c
    PROVE  /\ [w EXCEPT !.review = a].tests = w.tests
           /\ [w EXCEPT !.plan = a].tests = w.tests
           /\ [w EXCEPT !.implement = a].tests = w.tests
           /\ [w EXCEPT !.tasks = a].tests = w.tests
           /\ [w EXCEPT !.base = a, !.implement = b, !.tasks = c].tests = w.tests
           /\ [w EXCEPT !.plan = a, !.implement = b, !.tasks = c].tests = w.tests
           /\ [w EXCEPT !.plan = a, !.implement = b, !.review = c].tests = w.tests
<1>1. DOMAIN w = {"plan", "implement", "review", "base", "tasks", "tests"}
  BY DEF WfTyped
<1> QED
  BY <1>1

LEMMA DiskKept ==
    ASSUME NEW d, Good(d), NEW a, NEW b, NEW c
    PROVE  /\ [d EXCEPT !.wf = a].wf = a
           /\ [d EXCEPT !.ps = a].wf = d.wf
           /\ [d EXCEPT !.art = a].wf = d.wf
           /\ [d EXCEPT !.ps = a, !.auth = b].wf = d.wf
           /\ [d EXCEPT !.wf = a, !.auth = b].wf = a
           /\ [d EXCEPT !.ps = a, !.wf = b].wf = b
           /\ [d EXCEPT !.wf = a, !.ps = b, !.art = c].wf = a
<1>1. DOMAIN d = {"wf", "ps", "auth", "art"}
  BY DEF Good, DiskTyped
<1> QED
  BY <1>1

\* A step that makes no list of its own.
LEMMA Listed ==
    ASSUME Listing, orch'.patch \in {orch.patch, NoPatch},
           disk'.wf.tests \in {disk.wf.tests, saved.wf.tests},
           saved'.wf.tests \in {disk.wf.tests, saved.wf.tests}
    PROVE  Listing'
<1>1. orch'.patch # NoPatch =>
          orch'.patch.swaps \in Swaps /\ orch'.patch.more \in Seq(Nat)
  BY DEF Listing
<1> QED
  BY <1>1 DEF Listing, Swaps

\* A commit of the phase state or of the step's status leaves the list alone.
LEMMA RecordLists ==
    ASSUME IInv, Listing, NEW once, NEW again,
           NEW pc \in {"working", "dispatch", "committed", "idle"},
           Record(once, again, pc), once.wf.tests = disk.wf.tests,
           again.wf.tests = saved.wf.tests
    PROVE  Listing'
<1>1. PICK go \in {pc, "stopped"} : Go(go)
  BY DEF Record
<1>2. go \in Pcs
  BY DEF Pcs
<1>3. orch'.patch = orch.patch
  BY <1>1, <1>2, GoIs DEF IInv
<1>4. /\ disk'.wf.tests \in {disk.wf.tests, saved.wf.tests}
      /\ saved'.wf.tests \in {disk.wf.tests, saved.wf.tests}
  BY DEF Record
<1> QED
  BY <1>3, <1>4, Listed

\* So does a commit of the worker's work.
LEMMA CommitWorkLists ==
    ASSUME IInv, Listing, NEW d, NEW pc \in {"recorded", "applied"}, CommitWork(d, pc),
           d.wf = disk.wf
    PROVE  Listing'
<1>1. PICK go \in {pc, "stopped", "lost"} : Go(go)
  BY DEF CommitWork
<1>2. go \in Pcs
  BY DEF Pcs
<1>3. orch'.patch = orch.patch
  BY <1>1, <1>2, GoIs DEF IInv
<1>4. /\ disk'.wf.tests \in {disk.wf.tests, saved.wf.tests}
      /\ saved'.wf.tests \in {disk.wf.tests, saved.wf.tests}
  BY DEF CommitWork
<1> QED
  BY <1>3, <1>4, Listed

LEMMA DispatchLists ==
    ASSUME IInv, Listing, Dispatch
    PROVE  Listing'
<1>1. CASE Clean(disk, saved)
  <2>1. Record(Dispatched(disk), Dispatched(saved), "working")
    BY <1>1 DEF Dispatch
  <2>2. ASSUME NEW d \in {disk, saved}
        PROVE  Dispatched(d).wf = d.wf
    <3> DEFINE ps == [d.ps EXCEPT !.status = "dispatching", !.discarded = FALSE,
                                  !.applied = FALSE]
    <3>1. Good(d)
      BY DEF IInv
    <3>2. Dispatched(d) = [d EXCEPT !.ps = ps]
      <4>1. d = [wf |-> d.wf, ps |-> d.ps, auth |-> d.auth, art |-> d.art]
        BY <3>1, DiskFacts
      <4> QED
        BY <4>1 DEF Dispatched
    <3> HIDE DEF ps
    <3> QED
      BY <3>1, <3>2, DiskKept
  <2> QED
    BY <2>1, <2>2, RecordLists
<1>2. CASE ~Clean(disk, saved)
  <2>1. Go("stopped") /\ UNCHANGED <<disk, saved>>
    BY <1>2 DEF Dispatch
  <2>2. orch'.patch = orch.patch
    BY <2>1, GoIs DEF IInv, Pcs
  <2> QED
    BY <2>1, <2>2, Listed
<1> QED
  BY <1>1, <1>2

LEMMA RecordDiscardedLists ==
    ASSUME IInv, Listing, RecordDiscarded
    PROVE  Listing'
<1>1. Record(Discarded(disk), Discarded(saved), "dispatch")
  BY DEF RecordDiscarded
<1>2. ASSUME NEW d \in {disk, saved}
      PROVE  Discarded(d).wf = d.wf
  <2> DEFINE ps == [d.ps EXCEPT !.status = "dispatching", !.discarded = TRUE, !.stale = @ + 1]
  <2>1. Good(d)
    BY DEF IInv
  <2>2. Discarded(d) = [d EXCEPT !.ps = ps]
    <3>1. d = [wf |-> d.wf, ps |-> d.ps, auth |-> d.auth, art |-> d.art]
      BY <2>1, DiskFacts
    <3> QED
      BY <3>1 DEF Discarded
  <2> HIDE DEF ps
  <2> QED
    BY <2>1, <2>2, DiskKept
<1> QED
  BY <1>1, <1>2, RecordLists

LEMMA CompleteLists ==
    ASSUME IInv, Listing, Complete
    PROVE  Listing'
<1>1. Record(Completed(disk), Completed(saved), "idle")
  BY DEF Complete
<1>2. ASSUME NEW d \in {disk, saved}
      PROVE  Completed(d).wf.tests = d.wf.tests
  <2> DEFINE plan == IF orch.kind = "plan" THEN "completed" ELSE d.wf.plan
             w == [d.wf EXCEPT !.plan = plan]
             ps == [d.ps EXCEPT !.status = "completed", !.stale = 0]
  <2>1. d = [wf |-> d.wf, ps |-> d.ps, auth |-> d.auth, art |-> d.art]
        /\ Good(d) /\ WfTyped(d.wf)
    BY DiskFacts DEF IInv
  <2>2. Completed(d) = [d EXCEPT !.ps = ps, !.wf = w]
    BY <2>1 DEF Completed
  <2> HIDE DEF ps, plan
  <2>3. w.tests = d.wf.tests
    BY <2>1, ListKept
  <2> HIDE DEF w
  <2> QED
    BY <2>1, <2>2, <2>3, DiskKept
<1> QED
  BY <1>1, <1>2, RecordLists

LEMMA AnswersLists ==
    ASSUME IInv, NEW w, NEW p \in Answers(w)
    PROVE  p.swaps \in Swaps /\ p.more \in Seq(Nat)
<1>1. <<>> \in Swaps /\ <<>> \in Seq(Nat)
  BY DEF Swaps
<1>2. orch.pass \in Nat
  BY PlanningAssumption DEF IInv, OrchTyped
<1>3. <<1, 10 + orch.pass>> \in Seq(Nat)
  BY <1>2
<1>4. p.swaps \in Swaps /\ p.more \in {<<>>, <<1, 10 + orch.pass>>}
  BY <1>1 DEF Answers, Replacing, Appending
<1> QED
  BY <1>1, <1>3, <1>4

LEMMA WorkerLists ==
    ASSUME IInv, Listing, Worker
    PROVE  Listing'
<1>1. CASE WorkerWrites
  <2>1. disk' = [disk EXCEPT !.art = "unverified"] /\ UNCHANGED <<saved, orch>>
    BY <1>1 DEF WorkerWrites
  <2>2. disk'.wf = disk.wf
    BY <2>1, DiskKept DEF IInv
  <2> QED
    BY <2>1, <2>2, Listed
<1>2. CASE Refuse
  <2>1. Go("stopped") /\ UNCHANGED <<disk, saved>>
    BY <1>2 DEF Refuse
  <2>2. orch'.patch = orch.patch
    BY <2>1, GoIs DEF IInv, Pcs
  <2> QED
    BY <2>1, <2>2, Listed
<1>3. CASE \E p \in Answers(disk.wf) : Return(p)
  <2>1. PICK p \in Answers(disk.wf) : Return(p)
    BY <1>3
  <2>2. /\ disk' = [disk EXCEPT !.art = "verified"] /\ UNCHANGED saved
        /\ orch' = [orch EXCEPT !.pc = "verified", !.patch = p]
    BY <2>1 DEF Return
  <2>3. disk'.wf = disk.wf
    BY <2>2, DiskKept DEF IInv
  <2>4. orch'.patch = p
    BY <2>2 DEF IInv, OrchTyped
  <2>5. p.swaps \in Swaps /\ p.more \in Seq(Nat)
    BY AnswersLists
  <2>6. orch'.patch.swaps \in Swaps /\ orch'.patch.more \in Seq(Nat)
    BY <2>4, <2>5
  <2> QED
    BY <2>2, <2>3, <2>6 DEF Listing, Swaps
<1> QED
  BY <1>1, <1>2, <1>3 DEF Worker

LEMMA RecordResultLists ==
    ASSUME IInv, Listing, RecordResult
    PROVE  Listing'
<1> DEFINE ps == [disk.ps EXCEPT !.status = "applying_patch"]
           d == [disk EXCEPT !.ps.status = "applying_patch"]
<1>1. CommitWork(d, "recorded")
  BY DEF RecordResult
<1>2. disk = [wf |-> disk.wf, ps |-> disk.ps, auth |-> disk.auth, art |-> disk.art]
      /\ Good(disk)
  BY DiskFacts DEF IInv
<1>3. d = [disk EXCEPT !.ps = ps]
  BY <1>2
<1> HIDE DEF d, ps
<1>4. d.wf = disk.wf
  BY <1>2, <1>3, DiskKept
<1> QED
  BY <1>1, <1>4, CommitWorkLists

\* What the write makes of the list, for a patch that is still the one accepted.
LEMMA WriteIs ==
    ASSUME IInv, Listing, WritePatch
    PROVE  /\ disk'.wf.tests \in Seq(Nat)
           /\ Range(disk'.wf.tests) =
                  (UNION {Image(orch.patch, t) : t \in Range(disk.wf.tests)})
                      \cup Range(orch.patch.more)
<1> DEFINE w == disk.wf
           p == orch.patch
           m == SwapAll(w.tests, p.swaps) \o p.more
<1>1. orch.pc = "recorded" /\ disk' = [disk EXCEPT !.wf = Apply(w, p)]
  BY DEF WritePatch, At
<1>2. Good(disk) /\ WfTyped(w)
  <2>1. Good(disk)
    BY DEF IInv
  <2> QED
    BY <2>1, DiskFacts
<1>3. SwapsOk(p, w) /\ p # NoPatch
  <2>1. PatchTyped(p) /\ Accepted(w, journal, disk.auth, Origin, p)
    BY <1>1 DEF IInv, Judged
  <2> QED
    BY <2>1 DEF Accepted, PatchTyped, NoPatch
<1>4. disk'.wf.tests = m
  <2> DEFINE T == IF p.op = "replace_planning"
                  THEN Joined(Corrected(w, p), p) ELSE Joined(w.tasks, p)
             I == StepAfter(w, p, "implement")
             R == StepAfter(w, p, "review")
  <2>1. Apply(w, p) = [w EXCEPT !.tasks = T, !.tests = m, !.implement = I, !.review = R]
    BY DEF Apply
  <2> HIDE DEF T, m, I, R
  <2>2. DOMAIN w = {"plan", "implement", "review", "base", "tasks", "tests"}
    BY <1>2 DEF WfTyped
  <2>3. Apply(w, p).tests = m
    BY <2>1, <2>2
  <2> QED
    BY <1>1, <1>2, <2>3, DiskKept
<1>5. w.tests \in Seq(Nat) /\ p.swaps \in Swaps /\ p.more \in Seq(Nat)
  BY <1>3 DEF Listing
<1>6. m = SwapAll(w.tests, p.swaps) \o p.more
  OBVIOUS
<1> HIDE DEF w, p, m
<1>7. /\ m \in Seq(Nat)
      /\ Range(m) = (UNION {Image(p, t) : t \in Range(w.tests)}) \cup Range(p.more)
  BY <1>3, <1>5, <1>6, Rewritten, Zenon
<1> QED
  BY <1>4, <1>7 DEF w, p

LEMMA WritePatchLists ==
    ASSUME IInv, Listing, WritePatch
    PROVE  Listing'
<1>1. UNCHANGED saved /\ Go("written")
  BY DEF WritePatch
<1>2. orch'.patch = orch.patch
  BY <1>1, GoIs DEF IInv, Pcs
<1>3. disk'.wf.tests \in Seq(Nat)
  BY WriteIs
<1>4. orch'.patch # NoPatch =>
          orch'.patch.swaps \in Swaps /\ orch'.patch.more \in Seq(Nat)
  BY <1>2 DEF Listing
<1> QED
  BY <1>1, <1>3, <1>4 DEF Listing, Swaps

LEMMA CommitArtifactLists ==
    ASSUME IInv, Listing, CommitArtifact
    PROVE  Listing'
BY CommitWorkLists DEF CommitArtifact

LEMMA RecordAppliedLists ==
    ASSUME IInv, Listing, RecordApplied
    PROVE  Listing'
<1>1. Record(Applied(disk), Applied(saved), "committed")
  BY DEF RecordApplied
<1>2. ASSUME NEW d \in {disk, saved}
      PROVE  Applied(d).wf = d.wf
  <2> DEFINE ps == [d.ps EXCEPT !.applied = TRUE]
             auth == IF d.auth = "granted" /\ orch.kind = "plan" THEN "spent" ELSE d.auth
  <2>1. d = [wf |-> d.wf, ps |-> d.ps, auth |-> d.auth, art |-> d.art] /\ Good(d)
    BY DiskFacts DEF IInv
  <2>2. Applied(d) = [d EXCEPT !.ps = ps, !.auth = auth]
    BY <2>1 DEF Applied
  <2> HIDE DEF ps, auth
  <2> QED
    BY <2>1, <2>2, DiskKept
<1> QED
  BY <1>1, <1>2, RecordLists

LEMMA BeginLists ==
    ASSUME IInv, Listing, NEW kind \in {"plan", "rework"}, Begin(kind)
    PROVE  Listing'
<1> DEFINE w == IF kind = "rework" THEN [disk.wf EXCEPT !.review = "pending"] ELSE disk.wf
           d == [disk EXCEPT !.wf = w, !.ps = PhaseStart, !.art = "none"]
<1>1. /\ disk' = d /\ saved' = d
      /\ orch' = [pc |-> "dispatch", kind |-> kind, pass |-> orch.pass + 1,
                  patch |-> NoPatch]
  BY DEF Begin
<1>2. Good(disk) /\ WfTyped(disk.wf)
  BY DiskFacts DEF IInv
<1>3. w.tests = disk.wf.tests
  BY <1>2, ListKept
<1> HIDE DEF w
<1>4. d.wf = w
  BY <1>2, DiskKept
<1> HIDE DEF d
<1>5. orch'.patch = NoPatch
      /\ disk'.wf.tests = disk.wf.tests /\ saved'.wf.tests = disk.wf.tests
  BY <1>1, <1>3, <1>4
<1> QED
  BY <1>5, Listed

LEMMA ResumeLists ==
    ASSUME IInv, Listing, Resume
    PROVE  Listing'
<1> DEFINE pc == ResumeAt(disk, orch.patch)
           art == Inspected(disk.art)
<1>1. UNCHANGED saved /\ Go(pc) /\ disk' = [disk EXCEPT !.art = art]
  BY DEF Resume
<1>2. pc \in Pcs
  BY DEF ResumeAt, Pcs
<1> HIDE DEF pc, art
<1>3. disk'.wf = disk.wf
  BY <1>1, DiskKept DEF IInv
<1>4. orch'.patch = orch.patch
  BY <1>1, <1>2, GoIs DEF IInv
<1> QED
  BY <1>1, <1>3, <1>4, Listed

LEMMA CrashLists ==
    ASSUME IInv, Listing, Crash
    PROVE  Listing'
<1>1. UNCHANGED <<disk, saved>>
  BY DEF Crash
<1>2. PICK p \in {orch.patch, NoPatch} : orch' = [orch EXCEPT !.pc = "down", !.patch = p]
  BY DEF Crash
<1>3. orch'.patch = p
  BY <1>2 DEF IInv, OrchTyped
<1> QED
  BY <1>1, <1>3, Listed

LEMMA RestartLists ==
    ASSUME IInv, Listing, Restart
    PROVE  Listing'
<1>1. disk' = saved /\ UNCHANGED saved /\ Go("idle")
  BY DEF Restart
<1>2. orch'.patch = orch.patch
  BY <1>1, GoIs DEF IInv, Pcs
<1> QED
  BY <1>1, <1>2, Listed

\* Between two passes no list changes.
LEMMA IdleLists ==
    ASSUME IInv, Listing,
           \/ \E i \in TaskIds : Launch(i) \/ Land(i) \/ Settle(i)
           \/ EndImplement \/ RouteBack \/ SpecChange
    PROVE  Listing'
<1> DEFINE w == disk.wf
<1>1. orch.pc = "idle" /\ UNCHANGED orch
  BY DEF Launch, Land, Settle, EndImplement, RouteBack, SpecChange, At
<1>2. Good(disk) /\ Good(saved) /\ WfTyped(w)
  BY DiskFacts DEF IInv
<1>3. ASSUME NEW v, v.tests = w.tests,
             \/ SetWf(v)
             \/ /\ disk' = [disk EXCEPT !.wf = v, !.auth = "granted"]
                /\ saved' = [saved EXCEPT !.wf = v, !.auth = "granted"]
      PROVE  Listing'
  <2>1. CASE SetWf(v)
    BY <1>1, <1>2, <1>3, <2>1, DiskKept, Listed DEF SetWf
  <2>2. CASE /\ disk' = [disk EXCEPT !.wf = v, !.auth = "granted"]
             /\ saved' = [saved EXCEPT !.wf = v, !.auth = "granted"]
    <3> DEFINE granted == "granted"
    <3>1. /\ disk' = [disk EXCEPT !.wf = v, !.auth = granted]
          /\ saved' = [saved EXCEPT !.wf = v, !.auth = granted]
      BY <2>2
    <3> HIDE DEF granted
    <3>2. disk'.wf = v /\ saved'.wf = v
      BY <1>2, <3>1, DiskKept
    <3> QED
      BY <1>1, <1>3, <3>2, Listed
  <2> QED
    BY <1>3, <2>1, <2>2
<1>4. CASE \E i \in TaskIds : Launch(i)
  <2>1. PICK i \in TaskIds : Launch(i)
    BY <1>4
  <2> DEFINE t == [w.tasks EXCEPT ![i].status = "in_progress"]
             v == [w EXCEPT !.base = TRUE, !.implement = "in_progress", !.tasks = t]
  <2>2. SetWf(v)
    <3>1. w = [plan |-> w.plan, implement |-> w.implement, review |-> w.review,
               base |-> w.base, tasks |-> w.tasks, tests |-> w.tests]
      BY <1>2 DEF WfTyped
    <3> QED
      BY <2>1, <3>1 DEF Launch
  <2> HIDE DEF t
  <2>3. v.tests = w.tests
    BY <1>2, ListKept
  <2> HIDE DEF v
  <2> QED
    BY <1>3, <2>2, <2>3
<1>5. CASE \E i \in TaskIds : Land(i)
  <2>1. UNCHANGED <<disk, saved>>
    BY <1>5 DEF Land
  <2> QED
    BY <1>1, <2>1, Listed
<1>6. CASE \E i \in TaskIds : Settle(i)
  <2>1. PICK i \in TaskIds : Settle(i)
    BY <1>6
  <2> DEFINE t == [w.tasks EXCEPT ![i].status = journal[i]]
             v == [w EXCEPT !.tasks = t]
  <2>2. SetWf(v)
    <3>1. w = [plan |-> w.plan, implement |-> w.implement, review |-> w.review,
               base |-> w.base, tasks |-> w.tasks, tests |-> w.tests]
      BY <1>2 DEF WfTyped
    <3> QED
      BY <2>1, <3>1 DEF Settle, SetTask
  <2> HIDE DEF t
  <2>3. v.tests = w.tests
    BY <1>2, ListKept
  <2> HIDE DEF v
  <2> QED
    BY <1>3, <2>2, <2>3
<1>7. CASE EndImplement
  <2> DEFINE a == IF SomeTask(w, {"failed"}) THEN "failed" ELSE "completed"
             v == [w EXCEPT !.implement = a]
  <2>1. SetWf(v)
    BY <1>7 DEF EndImplement
  <2> HIDE DEF a
  <2>2. v.tests = w.tests
    BY <1>2, ListKept
  <2> HIDE DEF v
  <2> QED
    BY <1>3, <2>1, <2>2
<1>8. CASE RouteBack
  <2> DEFINE t == [i \in Ids(w) |-> IF w.tasks[i].status = "failed"
                       THEN [w.tasks[i] EXCEPT !.status = "pending"] ELSE w.tasks[i]]
             v == [w EXCEPT !.plan = "needs_update", !.implement = "pending", !.tasks = t]
  <2>1. SetWf(v)
    BY <1>8 DEF RouteBack
  <2> HIDE DEF t
  <2>2. v.tests = w.tests
    BY <1>2, ListKept
  <2> HIDE DEF v
  <2> QED
    BY <1>3, <2>1, <2>2
<1>9. CASE SpecChange
  <2> DEFINE v == [w EXCEPT !.plan = "pending", !.implement = "pending",
                            !.review = "pending"]
  <2>1. /\ disk' = [disk EXCEPT !.wf = v, !.auth = "granted"]
        /\ saved' = [saved EXCEPT !.wf = v, !.auth = "granted"]
    BY <1>9 DEF SpecChange
  <2>2. v.tests = w.tests
    BY <1>2, ListKept
  <2> HIDE DEF v
  <2> QED
    BY <1>3, <2>1, <2>2
<1> QED
  BY <1>4, <1>5, <1>6, <1>7, <1>8, <1>9

LEMMA StepLists ==
    ASSUME IInv, Listing, [Next]_vars
    PROVE  Listing'
<1>1. CASE \E kind \in {"plan", "rework"} : Begin(kind)
  BY <1>1, BeginLists
<1>2. CASE Orchestrate
  BY <1>2, DispatchLists, RecordResultLists, WritePatchLists, RecordAppliedLists,
     CommitArtifactLists, RecordDiscardedLists, CompleteLists, ResumeLists
     DEF Orchestrate
<1>3. CASE Worker
  BY <1>3, WorkerLists
<1>4. CASE Crash
  BY <1>4, CrashLists
<1>5. CASE Restart
  BY <1>5, RestartLists
<1>6. CASE \/ \E i \in TaskIds : Launch(i) \/ Land(i) \/ Settle(i)
           \/ EndImplement \/ RouteBack \/ SpecChange
  BY <1>6, IdleLists
<1>7. CASE Advance \/ UNCHANGED vars
  <2>1. UNCHANGED <<disk, saved, orch>>
    BY <1>7 DEF Advance, vars
  <2> QED
    BY <2>1 DEF Listing
<1> QED
  BY <1>1, <1>2, <1>3, <1>4, <1>5, <1>6, <1>7 DEF Next

LEMMA InitListing == Init => Listing
<1> SUFFICES ASSUME Init PROVE Listing
  OBVIOUS
<1>1. disk.wf.tests = <<1, 2>> /\ saved = disk
  <2>1. NewFeature.tests = <<1, 2>>
    BY DEF NewFeature
  <2>2. OldPlan.tests = <<1, 2>>
    <3> DEFINE t == [i \in 1..2 |-> [status |-> "pending", by |-> 0,
                                     file |-> IF i = 1 THEN "report" ELSE "plain"]]
    <3>1. OldPlan = [NewFeature EXCEPT !.plan = "completed", !.tasks = t]
      BY DEF OldPlan
    <3> HIDE DEF t
    <3> QED
      BY <3>1 DEF NewFeature
  <2> QED
    BY <2>1, <2>2 DEF Init
<1>2. orch.patch = NoPatch
  BY DEF Init
<1>3. <<1, 2>> \in Seq(Nat)
  OBVIOUS
<1> QED
  BY <1>1, <1>2, <1>3 DEF Listing

LEMMA Lists == Spec => []Listing
  BY InitListing, StepLists, Invariance, PTL DEF Spec

\* No scenario reference is lost by the one Write of a pass, whatever the order of
\* the pairs and however often a scenario is listed: a patch's pairs replace distinct
\* scenarios and none that is itself a replacement, so each pair meets what the
\* patch's workflow listed.
THEOREM ScenariosKept == Spec => ScenariosSurvive
<1> DEFINE Done == At("recorded") /\ orch'.pc = "written" =>
               Range(disk'.wf.tests) =
                   (UNION {Image(orch.patch, t) : t \in Range(disk.wf.tests)})
                       \cup Range(orch.patch.more)
<1>1. ASSUME IInv, Listing, [Next]_vars
      PROVE  Done
  <2> SUFFICES ASSUME At("recorded"), orch'.pc = "written"
               PROVE  Range(disk'.wf.tests) =
                          (UNION {Image(orch.patch, t) : t \in Range(disk.wf.tests)})
                              \cup Range(orch.patch.more)
    OBVIOUS
  <2>1. orch.pc = "recorded"
    BY DEF At
  <2>2. WritePatch
    <3>1. ~(Advance \/ UNCHANGED vars)
      BY <1>1, <2>1 DEF Advance, vars
    <3>2. ~Crash
      BY <1>1 DEF Crash, IInv, OrchTyped
    <3>3. ~(\E kind \in {"plan", "rework"} : Begin(kind)) /\ ~Worker /\ ~Restart
      BY <2>1 DEF Begin, Worker, WorkerWrites, Refuse, Return, Restart, At
    <3>4. ~(\/ \E i \in TaskIds : Launch(i) \/ Land(i) \/ Settle(i)
            \/ EndImplement \/ RouteBack \/ SpecChange)
      BY <2>1 DEF Launch, Land, Settle, EndImplement, RouteBack, SpecChange, At
    <3>5. Orchestrate
      BY <1>1, <3>1, <3>2, <3>3, <3>4 DEF Next
    <3> QED
      BY <2>1, <3>5 DEF Orchestrate, Dispatch, RecordResult, Complete, RecordApplied,
         CommitArtifact, RecordDiscarded, Resume, At
  <2> QED
    BY <1>1, <2>2, WriteIs
<1> HIDE DEF Done
<1>2. IInv /\ Listing /\ [Next]_vars => [Done]_vars
  BY <1>1
<1> QED
  BY <1>2, Invariance, Lists, PTL DEF Spec, ScenariosSurvive, Done
=============================================================================
