-------------------------- MODULE MergeLock_proofs --------------------------
(***************************************************************************)
(* Theorems about MergeLock, for every set of runs, features and process   *)
(* ids and every bound on the processes that are started.                  *)
(***************************************************************************)
EXTENDS MergeLock, TLAPS

\* The flock belongs to the process that is past flock and still runs.
LockOwned ==
    \A p \in Pid : proc[p].state \in {"locked", "holding"} <=> lock = p

BornLater ==
    \A p \in Pid : proc[p].state # "none" => proc[p].start < born

\* A record names a process that was started in the past, and if that very
\* process is still in the table, it is the holder that wrote the record.
Traced(rec) ==
    rec # NoRecord =>
        /\ rec.start < born
        /\ (proc[rec.pid].state # "none" /\ proc[rec.pid].start = rec.start)
              => /\ proc[rec.pid].state \in {"holding", "zombie"}
                 /\ proc[rec.pid].of = rec.token

IInv ==
    /\ TypeOK
    /\ LockOwned
    /\ BornLater
    /\ Traced(record)
    /\ \A r \in Run : Traced(seen[r])

\* No process has the flock once it is killed, and the others keep it.
LEMMA KillKeeps ==
    ASSUME IInv, born' = born, NEW P \in SUBSET {p \in Pid : Running(p) /\ proc[p].of \in Run}, Kill(P)
    PROVE  /\ proc' \in [Pid -> Process \cup {NoProc}]
           /\ lock' \in Pid \cup {NoPid}
           /\ LockOwned'
           /\ BornLater'
           /\ \A rec \in Record : Traced(rec) => Traced(rec)'
<1>1. \A p \in Pid : p \in P =>
         /\ proc'[p] = [proc[p] EXCEPT !.state = "zombie"]
         /\ proc[p] \in Process
         /\ proc[p].state # "none"
  BY DEF IInv, TypeOK, Kill, Running, NoProc
<1>2. \A p \in Pid : p \notin P => proc'[p] = proc[p]
  BY DEF IInv, TypeOK, Kill
<1>3. \A p \in Pid : p \in P =>
         /\ proc'[p] \in Process
         /\ proc'[p].state = "zombie"
         /\ proc'[p].start = proc[p].start
         /\ proc'[p].of = proc[p].of
  <2>1. ASSUME NEW q \in Process, NEW r, r = [q EXCEPT !.state = "zombie"], q.of \in Run
        PROVE  r \in Process /\ r.state = "zombie" /\ r.start = q.start /\ r.of = q.of
    BY <2>1 DEF Process
  <2>2. \A p \in P : proc[p].of \in Run
    OBVIOUS
  <2> QED
    BY <1>1, <2>1, <2>2
<1>4. proc' \in [Pid -> Process \cup {NoProc}]
  BY <1>2, <1>3 DEF Kill, IInv, TypeOK
<1>5. lock' \in Pid \cup {NoPid}
  BY DEF Kill, IInv, TypeOK
<1>6. LockOwned'
  BY <1>2, <1>3, NullAssumption DEF Kill, IInv, LockOwned
<1>7. BornLater'
  BY <1>1, <1>2, <1>3 DEF IInv, BornLater
<1>8. ASSUME NEW rec \in Record, Traced(rec) PROVE Traced(rec)'
  <2>1. CASE rec = NoRecord
    BY <2>1 DEF Traced
  <2>2. CASE rec # NoRecord
    <3>1. rec.pid \in Pid
      BY <2>2 DEF Record
    <3> QED
      BY <1>1, <1>2, <1>3, <1>8, <2>2, <3>1 DEF Traced
  <2> QED
    BY <2>1, <2>2
<1> QED
  BY <1>4, <1>5, <1>6, <1>7, <1>8

\* A process that is started does not pass for one that was recorded before.
LEMMA StartKeeps ==
    ASSUME IInv, lock' = lock,
           NEW p \in Pid, NEW r \in Run \cup {Other},
           Start(p, r, IF r = Other THEN "other" ELSE "starting")
    PROVE  /\ proc' \in [Pid -> Process \cup {NoProc}]
           /\ born' \in 0..MaxStart
           /\ LockOwned'
           /\ BornLater'
           /\ \A rec \in Record : Traced(rec) => Traced(rec)'
<1>1. /\ proc[p].state = "none"
      /\ proc'[p] = [start |-> born, of |-> r,
                      state |-> IF r = Other THEN "other" ELSE "starting"]
      /\ \A q \in Pid : q # p => proc'[q] = proc[q]
      /\ proc'[p] \in Process
      /\ born \in Nat
      /\ born' = born + 1
      /\ born' \in 0..MaxStart
      /\ MaxStart \in Nat
  BY RunAssumption DEF IInv, TypeOK, Start, NoProc, Process
<1>2. proc' \in [Pid -> Process \cup {NoProc}]
  BY <1>1 DEF Start, IInv, TypeOK
<1>3. LockOwned'
  BY <1>1 DEF IInv, LockOwned
<1>4. \A q \in Pid : proc[q].state # "none" => proc[q].start \in Nat
  BY RunAssumption DEF IInv, TypeOK, Process, NoProc
<1>5. BornLater'
  BY <1>1, <1>4 DEF IInv, BornLater
<1>6. ASSUME NEW rec \in Record, Traced(rec) PROVE Traced(rec)'
  <2>1. CASE rec = NoRecord
    BY <2>1 DEF Traced
  <2>2. CASE rec # NoRecord
    <3>1. rec.pid \in Pid /\ rec.start \in Nat /\ rec.start < born
      BY <1>6, <2>2, RunAssumption DEF Record, Traced
    <3>2. CASE rec.pid = p
      BY <1>1, <3>1, <3>2 DEF Traced
    <3>3. CASE rec.pid # p
      BY <1>1, <1>6, <2>2, <3>1, <3>3 DEF Traced
    <3> QED
      BY <3>2, <3>3
  <2> QED
    BY <2>1, <2>2
<1> QED
  BY <1>1, <1>2, <1>3, <1>5, <1>6

-----------------------------------------------------------------------------
\* A pc of a run changes, nothing else.
LEMMA RunKeeps ==
    ASSUME IInv, UNCHANGED <<proc, born, lock, record>>,
           run' \in [Run -> RunState], merged' \subseteq Feature,
           seen' \in [Run -> Record],
           \A r \in Run : seen'[r] \in {seen[r], record, NoRecord}
    PROVE  IInv'
<1>1. TypeOK'
  BY DEF IInv, TypeOK
<1>2. LockOwned' /\ BornLater' /\ Traced(record)'
  BY DEF IInv, LockOwned, BornLater, Traced
<1>3. ASSUME NEW r \in Run PROVE Traced(seen[r])'
  <2>1. Traced(seen'[r])
    BY DEF IInv, Traced
  <2> QED
    BY <2>1 DEF Traced
<1> QED
  BY <1>1, <1>2, <1>3 DEF IInv

\* Every step keeps the invariant.
LEMMA Inductive == IInv /\ [Next]_vars => IInv'
<1> SUFFICES ASSUME IInv, [Next]_vars PROVE IInv'
  OBVIOUS
<1>0. /\ TypeOK
      /\ record \in Record
      /\ \A r \in Run : seen[r] \in Record
      /\ NoRecord \in Record
  BY DEF IInv, TypeOK, Record
<1>1. ASSUME NEW p \in Pid, HoldFlock(p) PROVE IInv'
  <2>1. /\ proc[p] \in Process
        /\ proc'[p] \in Process
        /\ proc'[p].state = "locked"
        /\ proc[p].state = "starting"
        /\ proc'[p].start = proc[p].start
        /\ \A q \in Pid : q # p => proc'[q] = proc[q]
    BY <1>0, <1>1 DEF HoldFlock, TypeOK, Process, NoProc
  <2>2. TypeOK'
    BY <1>0, <1>1, <2>1 DEF HoldFlock, TypeOK
  <2>3. LockOwned'
    BY <1>1, <2>1, NullAssumption DEF HoldFlock, IInv, LockOwned
  <2>4. BornLater'
    BY <1>1, <2>1 DEF HoldFlock, IInv, BornLater
  <2>5. ASSUME NEW rec \in Record, Traced(rec) PROVE Traced(rec)'
    <3>1. CASE rec = NoRecord
      BY <3>1 DEF Traced
    <3>2. CASE rec # NoRecord
      <4>1. rec.pid \in Pid
        BY <3>2 DEF Record
      <4>2. CASE rec.pid = p
        BY <1>1, <2>1, <2>5, <3>2, <4>2 DEF Traced, HoldFlock
      <4>3. CASE rec.pid # p
        BY <1>1, <2>1, <2>5, <3>2, <4>1, <4>3 DEF Traced, HoldFlock
      <4> QED
        BY <4>2, <4>3
    <3> QED
      BY <3>1, <3>2
  <2> QED
    BY <1>0, <1>1, <2>2, <2>3, <2>4, <2>5 DEF IInv, HoldFlock, Traced
<1>2. ASSUME NEW P \in SUBSET {p \in Pid : Running(p) /\ proc[p].of \in Run}, Kill(P),
             UNCHANGED <<born, record>>, run' \in [Run -> RunState],
             merged' = merged, seen' \in [Run -> Record],
             \A r \in Run : seen'[r] \in {seen[r], NoRecord}
      PROVE  IInv'
  <2>1. /\ proc' \in [Pid -> Process \cup {NoProc}]
        /\ lock' \in Pid \cup {NoPid}
        /\ LockOwned'
        /\ BornLater'
        /\ \A rec \in Record : Traced(rec) => Traced(rec)'
    BY <1>2, KillKeeps
  <2>2. TypeOK'
    BY <1>0, <1>2, <2>1 DEF TypeOK
  <2>3. Traced(record)'
    BY <1>0, <1>2, <2>1 DEF IInv, Traced
  <2>4. ASSUME NEW r \in Run PROVE Traced(seen[r])'
    <3>1. Traced(seen'[r]) /\ seen'[r] \in Record
      BY <1>2, <1>0 DEF IInv, Traced
    <3> QED
      BY <2>1, <3>1 DEF Traced
  <2> QED
    BY <2>1, <2>2, <2>3, <2>4 DEF IInv
<1>3. ASSUME NEW p \in Pid, HoldBusy(p) \/ HolderDies(p) PROVE IInv'
  <2>1. /\ Running(p) /\ Kill({p}) /\ UNCHANGED <<born, record, run, seen, merged>>
    BY <1>3 DEF HoldBusy, HolderDies, Running
  <2>2. proc[p].of \in Run
    BY <1>0, <1>3 DEF HoldBusy, HolderDies, TypeOK, Process, NoProc
  <2> QED
    BY <1>0, <1>2, <2>1, <2>2 DEF TypeOK
<1>4. ASSUME NEW p \in Pid, HoldRecord(p) PROVE IInv'
  <2>1. /\ proc[p] \in Process
        /\ proc'[p] \in Process
        /\ proc'[p].state = "holding"
        /\ proc[p].state = "locked"
        /\ proc'[p].start = proc[p].start
        /\ proc'[p].of = proc[p].of
        /\ \A q \in Pid : q # p => proc'[q] = proc[q]
    BY <1>0, <1>4 DEF HoldRecord, TypeOK, Process, NoProc
  <2>2. LockOwned'
    BY <1>4, <2>1 DEF HoldRecord, IInv, LockOwned
  <2>3. BornLater'
    BY <1>4, <2>1 DEF HoldRecord, IInv, BornLater
  <2>4. record' = [token |-> proc[p].of, pid |-> p, start |-> proc[p].start]
    BY <1>4 DEF HoldRecord
  <2>5. record' \in Record
    BY <2>1, <2>4 DEF Process, Record
  <2>6. TypeOK'
    BY <1>0, <1>4, <2>1, <2>5 DEF HoldRecord, TypeOK
  <2>7. Traced(record)'
    BY <1>4, <2>1, <2>4 DEF HoldRecord, IInv, BornLater, Traced
  <2>8. ASSUME NEW r \in Run PROVE Traced(seen[r])'
    <3>1. CASE seen[r] = NoRecord
      BY <1>4, <3>1 DEF HoldRecord, Traced
    <3>2. CASE seen[r] # NoRecord
      <4>1. seen[r].pid \in Pid
        BY <1>0, <3>2 DEF Record
      <4>2. Traced(seen[r])
        BY DEF IInv
      <4>3. CASE seen[r].pid = p
        BY <1>4, <2>1, <3>2, <4>2, <4>3 DEF HoldRecord, Traced
      <4>4. CASE seen[r].pid # p
        BY <1>4, <2>1, <3>2, <4>1, <4>2, <4>4 DEF HoldRecord, Traced
      <4> QED
        BY <4>3, <4>4
    <3> QED
      BY <3>1, <3>2
  <2> QED
    BY <2>2, <2>3, <2>6, <2>7, <2>8 DEF IInv
<1>5. ASSUME NEW p \in Pid, Reap(p) \/ OtherEnds(p) PROVE IInv'
  <2>1. /\ proc[p].state \in {"zombie", "other"}
        /\ proc'[p] = NoProc
        /\ \A q \in Pid : q # p => proc'[q] = proc[q]
        /\ proc' \in [Pid -> Process \cup {NoProc}]
        /\ UNCHANGED <<born, lock, record, run, seen, merged>>
    BY <1>0, <1>5 DEF Reap, OtherEnds, TypeOK
  <2>2. TypeOK'
    BY <1>0, <2>1 DEF TypeOK
  <2>3. LockOwned' /\ BornLater'
    BY <2>1 DEF IInv, LockOwned, BornLater, NoProc
  <2>4. ASSUME NEW rec \in Record, Traced(rec) PROVE Traced(rec)'
    <3>1. CASE rec = NoRecord
      BY <3>1 DEF Traced
    <3>2. CASE rec # NoRecord
      <4>1. rec.pid \in Pid
        BY <3>2 DEF Record
      <4> QED
        BY <2>1, <2>4, <3>2, <4>1 DEF Traced, NoProc
    <3> QED
      BY <3>1, <3>2
  <2> QED
    BY <1>0, <2>1, <2>2, <2>3, <2>4 DEF IInv, Traced
<1>6. ASSUME NEW p \in Pid, NEW r \in Run \cup {Other},
             Start(p, r, IF r = Other THEN "other" ELSE "starting"),
             UNCHANGED <<lock, record, seen, merged>>, run' \in [Run -> RunState]
      PROVE  IInv'
  <2>1. /\ proc' \in [Pid -> Process \cup {NoProc}]
        /\ born' \in 0..MaxStart
        /\ LockOwned'
        /\ BornLater'
        /\ \A rec \in Record : Traced(rec) => Traced(rec)'
    BY <1>6, StartKeeps
  <2>2. TypeOK'
    BY <1>0, <1>6, <2>1 DEF TypeOK
  <2> QED
    BY <1>0, <1>6, <2>1, <2>2 DEF IInv, Traced
<1>7. ASSUME NEW p \in Pid, OtherStarts(p) PROVE IInv'
  BY <1>0, <1>6, <1>7 DEF OtherStarts, TypeOK
<1>8. ASSUME NEW r \in Run, Precheck(r) PROVE IInv'
  BY <1>0, <1>8, RunKeeps DEF Precheck, Goto, TypeOK, RunState, BeforeLock
<1>9. ASSUME NEW r \in Run, StartHold(r) PROVE IInv'
  <2>1. run' \in [Run -> RunState]
    BY <1>0, <1>9 DEF StartHold, Goto, TypeOK, RunState, Verifying
  <2>2. PICK p \in Pid : Start(p, r, IF r = Other THEN "other" ELSE "starting")
    BY <1>9, NullAssumption DEF StartHold
  <2>3. UNCHANGED <<lock, record, seen, merged>>
    BY <1>9 DEF StartHold
  <2> QED
    BY <1>6, <2>1, <2>2, <2>3
<1>10. ASSUME NEW r \in Run, VerifyRead(r) PROVE IInv'
  BY <1>0, <1>10, RunKeeps DEF VerifyRead, Goto, TypeOK, RunState, Verifying, Critical
<1>11. ASSUME NEW r \in Run, VerifyProbe(r) PROVE IInv'
  <2>1. \A s \in AfterProbe(r, Classify(seen[r], r)) : s \in RunState
    BY DEF AfterProbe, RunState, Verifying, Critical
  <2>2. run' \in [Run -> RunState]
    BY <1>0, <1>11, <2>1 DEF VerifyProbe, Goto, TypeOK
  <2> QED
    BY <1>0, <1>11, <2>2, RunKeeps DEF VerifyProbe, TypeOK
<1>12. ASSUME NEW r \in Run, Recheck(r) \/ Integrate(r) PROVE IInv'
  <2>1. run' \in [Run -> RunState]
    BY <1>0, <1>12 DEF Recheck, Integrate, Goto, TypeOK, RunState, Critical
  <2> QED
    BY <1>0, <1>12, <2>1, RunKeeps DEF Recheck, Integrate, TypeOK
<1>13. ASSUME NEW r \in Run, Merge(r) PROVE IInv'
  <2>1. merged' \subseteq Feature
    BY <1>0, <1>13, RunAssumption DEF Merge, TypeOK
  <2>2. run' \in [Run -> RunState]
    BY <1>0, <1>13 DEF Merge, Goto, TypeOK, RunState
  <2> QED
    BY <1>0, <1>13, <2>1, <2>2, RunKeeps DEF Merge, TypeOK
<1>14. ASSUME NEW r \in Run, TaskStop(r) \/ SessionDies(r) PROVE IInv'
  <2>1. HoldersOf(r) \in SUBSET {p \in Pid : Running(p) /\ proc[p].of \in Run}
    BY DEF HoldersOf
  <2>2. /\ Kill(HoldersOf(r))
        /\ UNCHANGED <<born, record, merged>>
        /\ run' \in [Run -> RunState]
        /\ seen' \in [Run -> Record]
        /\ \A q \in Run : seen'[q] \in {seen[q], NoRecord}
    BY <1>0, <1>14 DEF TaskStop, SessionDies, Goto, TypeOK, RunState
  <2> QED
    BY <1>2, <2>1, <2>2
<1>15. CASE UNCHANGED vars
  BY <1>0, <1>15, RunKeeps DEF vars, TypeOK
<1> QED
  BY <1>1, <1>3, <1>4, <1>5, <1>7, <1>8, <1>9, <1>10, <1>11, <1>12, <1>13,
     <1>14, <1>15 DEF Next, RunStep

-----------------------------------------------------------------------------
\* Whoever reads a record whose process is alive has found the process that
\* has the flock, under every combination of faults.
THEOREM Proved == Spec => [](TypeOK /\ ProvedHolder)
<1>1. Init => IInv
  BY RunAssumption, NullAssumption
     DEF Init, IInv, TypeOK, RunState, BeforeLock, Record, LockOwned, NoProc,
         BornLater, Traced
<1>2. IInv => TypeOK /\ ProvedHolder
  <2> SUFFICES ASSUME IInv PROVE ProvedHolder
    BY DEF IInv
  <2> SUFFICES ASSUME NEW rec \in {record} \cup {seen[r] : r \in Run},
                      rec # NoRecord, HolderAlive(rec)
               PROVE  lock = rec.pid
    BY DEF ProvedHolder
  <2>1. Traced(rec) /\ rec \in Record
    BY DEF IInv, TypeOK
  <2>2. rec.pid \in Pid
    BY <2>1 DEF Record
  <2>3. proc[rec.pid].state = "holding"
    BY <2>1, <2>2 DEF Traced, HolderAlive, Running
  <2> QED
    BY <2>2, <2>3 DEF IInv, LockOwned
<1> QED
  BY <1>1, <1>2, Inductive, PTL DEF Spec

-----------------------------------------------------------------------------
\* The second invariant needs holders that end only when they are stopped.
OwnLock ==
    \A r \in Run : run[r] \in Critical \cup {"recheck"} =>
        lock \in Pid /\ proc[lock].of = r

NothingYet ==
    \A r \in Run : run[r] \in Critical => FeatureOf[r] \notin merged

StopsItsOwn ==
    \A r \in Run : run[r] \in BeforeLock \cup {"ended"} => HoldersOf(r) = {}

SInv == IInv /\ OwnLock /\ NothingYet /\ StopsItsOwn

\* What a kill of one run's holders leaves to the other runs.
LEMMA KillOwn ==
    ASSUME SInv, NEW r \in Run, Kill(HoldersOf(r)), UNCHANGED merged,
           run' = [run EXCEPT ![r] = "ended"]
    PROVE  OwnLock' /\ NothingYet' /\ StopsItsOwn'
<1>1. /\ \A p \in Pid : p \in HoldersOf(r) => proc'[p] = [proc[p] EXCEPT !.state = "zombie"]
      /\ \A p \in Pid : p \notin HoldersOf(r) => proc'[p] = proc[p]
      /\ \A p \in HoldersOf(r) : proc[p] \in Process
  BY DEF SInv, IInv, TypeOK, Kill, HoldersOf, Running, NoProc
<1>2. \A p \in Pid : p \in HoldersOf(r) =>
          proc'[p].state = "zombie" /\ proc'[p].of = proc[p].of
  BY <1>1 DEF Process
<1>3. /\ run'[r] = "ended"
      /\ \A q \in Run : q # r => run'[q] = run[q]
  BY DEF SInv, IInv, TypeOK
<1>4. OwnLock'
  <2> SUFFICES ASSUME NEW q \in Run, q # r, run[q] \in Critical \cup {"recheck"}
               PROVE  lock' \in Pid /\ proc'[lock'].of = q
    BY <1>3 DEF OwnLock, Critical
  <2>1. lock \in Pid /\ proc[lock].of = q
    BY DEF SInv, OwnLock
  <2>2. lock \notin HoldersOf(r)
    BY <2>1 DEF HoldersOf
  <2> QED
    BY <1>1, <2>1, <2>2 DEF Kill
<1>5. NothingYet'
  BY <1>3 DEF SInv, NothingYet, Critical
<1>6. StopsItsOwn'
  <2>1. ASSUME NEW p \in Pid PROVE ~(Running(p)' /\ proc'[p].of = r)
    BY <1>1, <1>2 DEF HoldersOf, Running
  <2>2. ASSUME NEW q \in Run, q # r, NEW p \in Pid, Running(p)', proc'[p].of = q
        PROVE  Running(p) /\ proc[p].of = q
    BY <1>1, <1>2, <2>2 DEF HoldersOf, Running
  <2> QED
    BY <1>3, <2>1, <2>2 DEF SInv, StopsItsOwn, HoldersOf
<1> QED
  BY <1>4, <1>5, <1>6

\* A run moves on, no process and no merge changes, and it enters neither the
\* critical part nor the state before its holder.
LEMMA MovesOn ==
    ASSUME SInv, UNCHANGED <<proc, lock, merged>>,
           NEW r \in Run, NEW s \in RunState, run' = [run EXCEPT ![r] = s],
           s \in Critical \cup {"recheck"} =>
               /\ lock \in Pid /\ proc[lock].of = r
               /\ s \in Critical => FeatureOf[r] \notin merged,
           s \in BeforeLock \cup {"ended"} => run[r] \in BeforeLock \cup {"ended"}
    PROVE  OwnLock' /\ NothingYet' /\ StopsItsOwn'
<1>1. /\ run'[r] = s
      /\ \A q \in Run : q # r => run'[q] = run[q]
  BY DEF SInv, IInv, TypeOK
<1> QED
  BY <1>1 DEF SInv, OwnLock, NothingYet, StopsItsOwn, HoldersOf, Running

LEMMA OrderlyInductive ==
    ASSUME "lose" \notin Faults
    PROVE  SInv /\ [Next]_vars => SInv'
<1> SUFFICES ASSUME SInv, [Next]_vars PROVE OwnLock' /\ NothingYet' /\ StopsItsOwn'
  BY Inductive DEF SInv
<1>0. TypeOK /\ IInv
  BY DEF SInv, IInv
<1>1. ASSUME NEW p \in Pid, HoldFlock(p) \/ HoldRecord(p)
      PROVE  OwnLock' /\ NothingYet' /\ StopsItsOwn'
  <2>1. /\ proc[p] \in Process
        /\ Running(p)
        /\ proc'[p].of = proc[p].of
        /\ \A q \in Pid : q # p => proc'[q] = proc[q]
        /\ UNCHANGED <<run, merged>>
    BY <1>0, <1>1 DEF HoldFlock, HoldRecord, TypeOK, Process, NoProc, Running
  <2>2. lock' = lock \/ lock = NoPid
    BY <1>1 DEF HoldFlock, HoldRecord
  <2>3. OwnLock'
    BY <2>1, <2>2, NullAssumption, <1>1 DEF SInv, OwnLock, HoldFlock, HoldRecord
  <2>4. NothingYet'
    BY <2>1 DEF SInv, NothingYet
  <2>5. ASSUME NEW r \in Run, NEW q \in Pid, Running(q)', proc'[q].of = r
        PROVE  Running(q) /\ proc[q].of = r
    BY <2>1, <2>5 DEF Running
  <2>6. StopsItsOwn'
    BY <2>1, <2>5 DEF SInv, StopsItsOwn, HoldersOf
  <2> QED
    BY <2>3, <2>4, <2>6
<1>2. ASSUME NEW p \in Pid, HoldBusy(p) \/ HolderDies(p)
      PROVE  OwnLock' /\ NothingYet' /\ StopsItsOwn'
  <2>1. /\ UNCHANGED <<run, merged>>
        /\ Kill({p})
        /\ proc[p] \in Process
    BY <1>0, <1>2 DEF HoldBusy, HolderDies, TypeOK, Process, NoProc
  <2>2. /\ lock # p => lock' = lock
        /\ proc'[p] = [proc[p] EXCEPT !.state = "zombie"]
        /\ \A q \in Pid : q # p => proc'[q] = proc[q]
    BY <1>0, <2>1 DEF Kill, IInv, TypeOK
  <2>3. proc'[p].state = "zombie" /\ proc'[p].of = proc[p].of
    BY <2>1, <2>2 DEF Process
  <2>4. ASSUME NEW r \in Run, run[r] \in Confirmed
        PROVE  lock \in Pid /\ proc[lock].of = r /\ lock # p
    <3>1. lock \in Pid /\ proc[lock].of = r
      BY <2>4 DEF SInv, OwnLock, Confirmed
    <3>2. CASE HoldBusy(p)
      BY <1>0, <3>1, <3>2 DEF HoldBusy, IInv, LockOwned
    <3>3. CASE HolderDies(p)
      BY <2>4, <3>1, <3>3 DEF HolderDies
    <3> QED
      BY <1>2, <3>1, <3>2, <3>3
  <2>5. OwnLock' /\ NothingYet'
    BY <2>1, <2>2, <2>4 DEF SInv, OwnLock, NothingYet, Confirmed
  <2>6. ASSUME NEW r \in Run, NEW q \in Pid, Running(q)', proc'[q].of = r
        PROVE  Running(q) /\ proc[q].of = r
    BY <2>2, <2>3, <2>6 DEF Running
  <2>7. StopsItsOwn'
    BY <2>1, <2>6 DEF SInv, StopsItsOwn, HoldersOf
  <2> QED
    BY <2>5, <2>7
<1>3. ASSUME NEW p \in Pid, Reap(p) \/ OtherStarts(p) \/ OtherEnds(p)
      PROVE  OwnLock' /\ NothingYet' /\ StopsItsOwn'
  <2>1. /\ proc[p].state \in {"none", "zombie", "other"}
        /\ proc'[p] = NoProc \/ (proc'[p].of = Other /\ proc'[p].state = "other")
        /\ \A q \in Pid : q # p => proc'[q] = proc[q]
        /\ UNCHANGED <<run, lock, merged>>
    BY <1>0, <1>3 DEF Reap, OtherStarts, OtherEnds, Start, TypeOK, NoProc
  <2>2. lock # p
    BY <1>0, <2>1 DEF IInv, LockOwned
  <2>3. OwnLock' /\ NothingYet'
    BY <2>1, <2>2 DEF SInv, OwnLock, NothingYet
  <2>4. ASSUME NEW r \in Run, NEW q \in Pid, Running(q)', proc'[q].of = r
        PROVE  Running(q) /\ proc[q].of = r
    BY <2>1, <2>4, NullAssumption DEF Running, NoProc
  <2>5. StopsItsOwn'
    BY <2>1, <2>4 DEF SInv, StopsItsOwn, HoldersOf
  <2> QED
    BY <2>3, <2>5
<1>4. ASSUME NEW r \in Run, Precheck(r)
      PROVE  OwnLock' /\ NothingYet' /\ StopsItsOwn'
  BY <1>4, MovesOn DEF Precheck, Goto, RunState, BeforeLock, Critical
<1>5. ASSUME NEW r \in Run, StartHold(r)
      PROVE  OwnLock' /\ NothingYet' /\ StopsItsOwn'
  <2>1. PICK p \in Pid : Start(p, r, "starting")
    BY <1>5 DEF StartHold
  <2>2. /\ proc[p].state = "none"
        /\ proc'[p].of = r
        /\ \A q \in Pid : q # p => proc'[q] = proc[q]
        /\ run'[r] = "verify1"
        /\ \A q \in Run : q # r => run'[q] = run[q]
        /\ UNCHANGED <<lock, merged>>
    BY <1>0, <1>5, <2>1 DEF StartHold, Start, Goto, TypeOK, NoProc
  <2>3. lock # p
    BY <1>0, <2>2 DEF IInv, LockOwned
  <2>4. OwnLock' /\ NothingYet'
    BY <2>2, <2>3 DEF SInv, OwnLock, NothingYet, Critical
  <2>5. ASSUME NEW s \in Run, s # r, NEW q \in Pid, Running(q)', proc'[q].of = s
        PROVE  Running(q) /\ proc[q].of = s
    BY <2>2, <2>5 DEF Running
  <2>6. StopsItsOwn'
    BY <2>2, <2>5 DEF SInv, StopsItsOwn, HoldersOf, BeforeLock
  <2> QED
    BY <2>4, <2>6
<1>6. ASSUME NEW r \in Run, VerifyRead(r)
      PROVE  OwnLock' /\ NothingYet' /\ StopsItsOwn'
  <2>1. CASE run[r] = "verify1"
    BY <1>6, <2>1, MovesOn DEF VerifyRead, Goto, RunState, BeforeLock, Verifying, Critical
  <2>2. CASE run[r] = "verify2"
    <3>1. lock \in Pid /\ proc[lock].of = r /\ FeatureOf[r] \notin merged
      BY <2>2 DEF SInv, OwnLock, NothingYet, Critical
    <3> QED
      BY <1>6, <2>2, <3>1, MovesOn DEF VerifyRead, Goto, RunState, BeforeLock, Critical
  <2> QED
    BY <1>6, <2>1, <2>2 DEF VerifyRead
<1>7. ASSUME NEW r \in Run, VerifyProbe(r)
      PROVE  OwnLock' /\ NothingYet' /\ StopsItsOwn'
  <2>1. PICK s \in AfterProbe(r, Classify(seen[r], r)) : Goto(r, s)
    BY <1>7 DEF VerifyProbe
  <2>2. s \in RunState /\ s \notin BeforeLock \cup {"ended"}
    BY <2>1 DEF AfterProbe, RunState, BeforeLock, Verifying, Critical
  <2>3. ASSUME s \in Critical \cup {"recheck"}
        PROVE  /\ lock \in Pid /\ proc[lock].of = r
               /\ s \in Critical => FeatureOf[r] \notin merged
    <3>1. Classify(seen[r], r) = "held" /\ s = IF run[r] = "probe1" THEN "recheck" ELSE "merging"
      BY <2>1, <2>3 DEF AfterProbe, Critical
    <3>2. seen[r] # NoRecord /\ HolderAlive(seen[r]) /\ seen[r].token = r
      BY <3>1 DEF Classify
    <3>3. seen[r].pid \in Pid /\ Traced(seen[r])
      BY <1>0, <3>2 DEF IInv, TypeOK, Record
    <3>4. proc[seen[r].pid].state = "holding" /\ proc[seen[r].pid].of = r
      BY <3>2, <3>3 DEF Traced, HolderAlive, Running
    <3>5. lock = seen[r].pid
      BY <1>0, <3>3, <3>4 DEF IInv, LockOwned
    <3>6. s \in Critical => run[r] = "probe2"
      BY <1>7, <3>1 DEF VerifyProbe, Critical
    <3> QED
      BY <3>3, <3>4, <3>5, <3>6 DEF SInv, NothingYet, Critical
  <2> QED
    BY <1>7, <2>1, <2>2, <2>3, MovesOn DEF VerifyProbe, Goto
<1>8. ASSUME NEW r \in Run, Recheck(r) \/ Integrate(r)
      PROVE  OwnLock' /\ NothingYet' /\ StopsItsOwn'
  <2>1. lock \in Pid /\ proc[lock].of = r
    BY <1>8 DEF SInv, OwnLock, Recheck, Integrate, Critical
  <2>2. PICK s \in {"stopping", "integrating", "verify2"} :
            /\ run' = [run EXCEPT ![r] = s]
            /\ s \in Critical => FeatureOf[r] \notin merged
    BY <1>8 DEF SInv, NothingYet, Recheck, Integrate, Goto, Critical
  <2>3. s \in RunState /\ s \notin BeforeLock \cup {"ended"}
    BY DEF RunState, BeforeLock, Critical
  <2>4. UNCHANGED <<proc, lock, merged>>
    BY <1>8 DEF Recheck, Integrate
  <2> QED
    BY <2>1, <2>2, <2>3, <2>4, MovesOn
<1>9. ASSUME NEW r \in Run, Merge(r)
      PROVE  OwnLock' /\ NothingYet' /\ StopsItsOwn'
  <2>1. /\ run[r] = "merging"
        /\ run'[r] = "stopping"
        /\ \A q \in Run : q # r => run'[q] = run[q]
        /\ UNCHANGED <<proc, lock>>
    BY <1>0, <1>9 DEF Merge, Goto, TypeOK
  <2>2. ASSUME NEW q \in Run, run'[q] \in Critical PROVE FALSE
    <3>1. q # r /\ run[q] \in Critical /\ run[r] \in Critical
      BY <2>1, <2>2 DEF Critical
    <3> QED
      BY <3>1 DEF SInv, OwnLock
  <2>3. OwnLock' /\ NothingYet'
    BY <2>1, <2>2 DEF SInv, OwnLock, NothingYet
  <2>4. StopsItsOwn'
    BY <2>1 DEF SInv, StopsItsOwn, HoldersOf, Running, BeforeLock
  <2> QED
    BY <2>3, <2>4
<1>10. ASSUME NEW r \in Run, TaskStop(r) \/ SessionDies(r)
       PROVE  OwnLock' /\ NothingYet' /\ StopsItsOwn'
  BY <1>10, KillOwn DEF TaskStop, SessionDies, Goto
<1>11. CASE UNCHANGED vars
  BY <1>11 DEF vars, SInv, OwnLock, NothingYet, StopsItsOwn, HoldersOf, Running
<1> QED
  BY <1>1, <1>2, <1>3, <1>4, <1>5, <1>6, <1>7, <1>8, <1>9, <1>10, <1>11
     DEF Next, RunStep

\* As long as no holder ends by itself after its run was told `held`, the lock
\* serializes the runs, no feature is merged twice, and no ended run leaves a
\* holder.
THEOREM SerializedRuns ==
    ASSUME "lose" \notin Faults
    PROVE  Spec => [](Serialized /\ MergesOnce /\ EndedLeavesNoHolder)
<1>1. Init => SInv
  BY RunAssumption, NullAssumption
     DEF Init, SInv, IInv, TypeOK, RunState, BeforeLock, Record, LockOwned, NoProc,
         BornLater, Traced, OwnLock, NothingYet, StopsItsOwn, HoldersOf, Running,
         Critical
<1>2. SInv => Serialized /\ MergesOnce /\ EndedLeavesNoHolder
  BY DEF SInv, OwnLock, NothingYet, StopsItsOwn, Serialized, MergesOnce,
         EndedLeavesNoHolder, Critical
<1> QED
  BY <1>1, <1>2, OrderlyInductive, PTL DEF Spec
=============================================================================
