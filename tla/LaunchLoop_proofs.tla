-------------------------- MODULE LaunchLoop_proofs --------------------------
(***************************************************************************)
(* Theorems about LaunchLoop, for any number of tasks, slots, blocks and   *)
(* journal lines, and every combination of faults.                         *)
(***************************************************************************)
EXTENDS LaunchLoop, FiniteSetTheorems, WellFoundedInduction, TLAPS

-----------------------------------------------------------------------------
(* The invariant *)

Line == [task : Task, event : {"launched", "merged", "failed"}]

Typed ==
    /\ pc \in PC
    /\ journal \in Seq(Line)
    /\ status \in [Task -> {"pending", "in_progress", "merged", "failed"}]
    /\ record \in [Task -> Nat]
    /\ picked \subseteq Task
    /\ mark \in Nat
    /\ running \subseteq Task
    /\ woken \in BOOLEAN
    /\ sidecar \in Sidecar
    /\ undecided \subseteq Task
    /\ faults \in FaultSets

\* Every launch in flight has room for the line of its end.
Room == Len(journal) + Cardinality(InFlight) =< MaxLines

RunningIsInFlight == \A t \in running : LastEvent(t) = "launched"

\* What nobody has decided about is a failure that was not put back.
UndecidedFailed == \A t \in undecided : LastEvent(t) = "failed" /\ ~Reset(t)

RecordIsAFailure ==
    \A t \in Task : record[t] # 0 => /\ record[t] \in DOMAIN journal
                                     /\ journal[record[t]] = [task |-> t, event |-> "failed"]

InProgressWasLaunched ==
    \A t \in Task : status[t] = "in_progress" =>
        \E i \in LinesOf(t) : i > record[t] /\ journal[i].event = "launched"

\* What an entry has picked and not launched was decided about, and does not run.
PickedIsDecided ==
    /\ mark =< Len(journal)
    /\ pc = "blocked" => \A t \in picked : t \notin undecided /\ t \notin running
    /\ pc = "launching" =>
        \A t \in picked \ LaunchedHere(picked) : t \notin undecided /\ t \notin running

IInv ==
    /\ Typed /\ Room /\ RunningIsInFlight /\ UndecidedFailed /\ RecordIsAFailure
    /\ InProgressWasLaunched /\ PickedIsDecided /\ WorkLeftIsCapped

-----------------------------------------------------------------------------
(* The journal *)

LEMMA Least ==
    ASSUME NEW S \in SUBSET Nat, S # {}
    PROVE  \E m \in S : \A k \in S : m =< k
<1>1. PICK x \in S : \A y \in S : ~(<<y, x>> \in OpToRel(<, Nat))
  BY NatLessThanWellFounded, WFMin, Zenon
<1>2. ASSUME NEW y \in S, y < x PROVE FALSE
  <2>1. <<y, x>> \in Nat \X Nat /\ <<y, x>>[1] < <<y, x>>[2]
    BY <1>2
  <2>2. <<y, x>> \in OpToRel(<, Nat)
    BY <2>1, Zenon DEF OpToRel
  <2> QED
    BY <1>1, <2>2
<1> QED
  BY <1>2

LEMMA MaxIs ==
    ASSUME NEW n \in Nat, NEW S \in SUBSET (0..n), S # {}
    PROVE  Max(S) \in S /\ \A k \in S : k =< Max(S)
<1> DEFINE T == {n - k : k \in S}
<1>1. \A k \in S : n - k \in Nat /\ k \in Nat
  OBVIOUS
<1>2. T \in SUBSET Nat /\ T # {}
  BY <1>1, Zenon
<1>3. PICK x \in T : \A y \in T : x =< y
  <2> HIDE DEF T
  <2> QED
    BY <1>2, Least
<1>4. PICK m \in S : x = n - m
  BY Zenon
<1>5. ASSUME NEW k \in S PROVE m >= k
  <2>1. n - k \in T
    BY Zenon
  <2>2. n - m =< n - k
    BY <2>1, <1>3, <1>4, Zenon
  <2> HIDE DEF T
  <2> QED
    BY <1>1, <2>2
<1>6. Max(S) \in S /\ \A k \in S : Max(S) >= k
  BY <1>5 DEF Max
<1> QED
  BY <1>1, <1>6

LEMMA MaxUnique ==
    ASSUME NEW S \in SUBSET Nat, NEW m \in S, \A k \in S : k =< m
    PROVE  Max(S) = m
<1>1. \A k \in S : m >= k
  OBVIOUS
<1>2. Max(S) \in S /\ \A k \in S : Max(S) >= k
  BY <1>1 DEF Max
<1>3. Max(S) \in Nat /\ m \in Nat
  BY <1>2
<1>4. Max(S) >= m /\ Max(S) =< m
  BY <1>2
<1> QED
  BY <1>3, <1>4

LEMMA LastLineIs ==
    ASSUME Typed, NEW t \in Task
    PROVE  /\ Len(journal) \in Nat /\ DOMAIN journal = 1..Len(journal)
           /\ LinesOf(t) \subseteq 1..Len(journal)
           /\ LastLine(t) \in 0..Len(journal)
           /\ \A i \in LinesOf(t) : i =< LastLine(t)
           /\ LastLine(t) # 0 => /\ LastLine(t) \in LinesOf(t)
                                 /\ LastEvent(t) = journal[LastLine(t)].event
           /\ LastLine(t) = 0 <=> LastEvent(t) = "none"
           /\ LastEvent(t) \in {"none", "launched", "merged", "failed"}
<1>1. journal \in Seq(Line)
  BY DEF Typed
<1>2. Len(journal) \in Nat /\ DOMAIN journal = 1..Len(journal)
  BY <1>1
<1>3. LinesOf(t) \subseteq 1..Len(journal)
  BY <1>2 DEF LinesOf
<1>4. LinesOf(t) \cup {0} \in SUBSET (0..Len(journal)) /\ LinesOf(t) \cup {0} # {}
  BY <1>2, <1>3
<1>5. LastLine(t) \in LinesOf(t) \cup {0} /\ \A i \in LinesOf(t) : i =< LastLine(t)
  BY <1>2, <1>4, MaxIs DEF LastLine
<1>6. LastLine(t) # 0 => journal[LastLine(t)].event \in {"launched", "merged", "failed"}
  <2>1. \A i \in 1..Len(journal) : journal[i].event \in {"launched", "merged", "failed"}
    <3> SUFFICES ASSUME NEW i \in 1..Len(journal)
                 PROVE  journal[i].event \in {"launched", "merged", "failed"}
      OBVIOUS
    <3>1. journal[i] \in Line
      BY <1>1
    <3> QED
      BY <3>1 DEF Line
  <2> QED
    BY <1>3, <1>5, <2>1
<1> QED
  BY <1>2, <1>3, <1>5, <1>6 DEF LastEvent

LEMMA FailedLineIs ==
    ASSUME Typed, NEW t \in Task
    PROVE  /\ FailedLine(t) \in 0..Len(journal)
           /\ FailedLine(t) # 0 => /\ FailedLine(t) \in LinesOf(t)
                                   /\ journal[FailedLine(t)].event = "failed"
<1>1. Len(journal) \in Nat /\ LinesOf(t) \subseteq 1..Len(journal)
  BY LastLineIs
<1> DEFINE S == {i \in LinesOf(t) : journal[i].event = "failed"} \cup {0}
<1>2. S \in SUBSET (0..Len(journal)) /\ S # {}
  BY <1>1
<1>3. FailedLine(t) = Max(S)
  BY DEF FailedLine
<1>4. Max(S) \in S
  <2> HIDE DEF S
  <2> QED
    BY <1>1, <1>2, MaxIs
<1> QED
  BY <1>1, <1>3, <1>4

\* A line of u is the last of its task, and nothing else is said of the others.
LEMMA LogDoes ==
    ASSUME Typed, NEW u \in Task, NEW e \in {"launched", "merged", "failed"}, Log(e, u)
    PROVE  /\ journal' \in Seq(Line) /\ Len(journal') = Len(journal) + 1
           /\ \A i \in 1..Len(journal) : journal'[i] = journal[i]
           /\ journal'[Len(journal) + 1] = [task |-> u, event |-> e]
           /\ \A t \in Task : /\ LinesOf(t)' = LinesOf(t) \cup IF t = u THEN {Len(journal) + 1} ELSE {}
                              /\ LastLine(t)' = IF t = u THEN Len(journal) + 1 ELSE LastLine(t)
                              /\ LastEvent(t)' = IF t = u THEN e ELSE LastEvent(t)
<1> DEFINE n == Len(journal)
<1>1. journal \in Seq(Line) /\ [task |-> u, event |-> e] \in Line
  BY DEF Typed, Line
<1>2. /\ journal' \in Seq(Line) /\ Len(journal') = n + 1 /\ n \in Nat
      /\ \A i \in 1..n : journal'[i] = journal[i]
      /\ journal'[n + 1] = [task |-> u, event |-> e]
  BY <1>1 DEF Log
<1>3. DOMAIN journal = 1..n /\ DOMAIN journal' = 1..(n + 1)
  BY <1>1, <1>2
<1>4. ASSUME NEW t \in Task
      PROVE  LinesOf(t)' = LinesOf(t) \cup IF t = u THEN {n + 1} ELSE {}
  <2>1. ASSUME NEW i \in 1..n PROVE i \in LinesOf(t)' <=> i \in LinesOf(t)
    BY <1>2, <1>3 DEF LinesOf
  <2>2. n + 1 \in LinesOf(t)' <=> t = u
    BY <1>2, <1>3 DEF LinesOf
  <2>3. LinesOf(t) \subseteq 1..n /\ LinesOf(t)' \subseteq 1..(n + 1)
    BY <1>2, <1>3 DEF LinesOf
  <2> QED
    BY <1>2, <2>1, <2>2, <2>3
<1>5. ASSUME NEW t \in Task PROVE LastLine(t)' = IF t = u THEN n + 1 ELSE LastLine(t)
  <2>1. CASE t = u
    <3>1. LastLine(t)' = Max(LinesOf(t)' \cup {0})
      BY DEF LastLine
    <3>2. LinesOf(t)' \cup {0} = LinesOf(t) \cup {n + 1, 0} /\ LinesOf(t) \subseteq 1..n
      BY <1>4, <2>1, LastLineIs
    <3>3. Max(LinesOf(t) \cup {n + 1, 0}) = n + 1
      <4>1. LinesOf(t) \cup {n + 1, 0} \in SUBSET Nat
        BY <1>2, <3>2
      <4>2. n + 1 \in LinesOf(t) \cup {n + 1, 0} /\ \A k \in LinesOf(t) \cup {n + 1, 0} : k =< n + 1
        BY <1>2, <3>2
      <4> HIDE DEF n
      <4> QED
        BY <4>1, <4>2, MaxUnique
    <3> QED
      BY <2>1, <3>1, <3>2, <3>3
  <2>2. CASE t # u
    <3>1. LinesOf(t)' = LinesOf(t)
      BY <1>4, <2>2
    <3> QED
      BY <2>2, <3>1 DEF LastLine
  <2> QED
    BY <2>1, <2>2
<1>6. ASSUME NEW t \in Task PROVE LastEvent(t)' = IF t = u THEN e ELSE LastEvent(t)
  <2>1. LastEvent(t)' = IF LastLine(t)' = 0 THEN "none" ELSE journal'[LastLine(t)'].event
    BY DEF LastEvent
  <2>2. CASE t = u
    BY <1>2, <1>5, <2>1, <2>2
  <2>3. CASE t # u
    BY <1>2, <1>5, <2>1, <2>3, LastLineIs DEF LastEvent
  <2> QED
    BY <2>2, <2>3
<1> QED
  BY <1>2, <1>4, <1>5, <1>6

-----------------------------------------------------------------------------
(* Sets of tasks *)

LEMMA FirstOfIs ==
    ASSUME NEW S \in SUBSET Task, NEW n \in Int
    PROVE  /\ FirstOf(S, n) \subseteq S
           /\ FirstOf(S, n) # {} <=> S # {} /\ n > 0
<1>1. FirstOf(S, n) \subseteq S
  BY DEF FirstOf
<1>2. ASSUME S # {}, n > 0 PROVE FirstOf(S, n) # {}
  <2>1. S \in SUBSET Nat
    BY TaskAssumption
  <2>2. PICK m \in S : \A k \in S : m =< k
    BY <1>2, <2>1, Least
  <2>3. {u \in S : u < m} = {}
    <3>1. \A u \in S : u \in Nat /\ m \in Nat /\ ~(u < m)
      BY <2>1, <2>2
    <3> QED
      BY <3>1, Zenon
  <2>4. Cardinality({u \in S : u < m}) = 0
    BY <2>3, FS_EmptySet
  <2> QED
    BY <1>2, <2>2, <2>4 DEF FirstOf
<1>3. ASSUME FirstOf(S, n) # {} PROVE S # {} /\ n > 0
  <2>1. PICK t \in S : Cardinality({u \in S : u < t}) < n
    BY <1>3 DEF FirstOf
  <2>2. {u \in S : u < t} \subseteq Task
    OBVIOUS
  <2>3. Cardinality({u \in S : u < t}) \in Nat
    BY <2>2, TaskAssumption, FS_Subset, FS_CardinalityType
  <2> QED
    BY <2>1, <2>3
<1> QED
  BY <1>1, <1>2, <1>3

LEMMA InFlightIs ==
    /\ InFlight \subseteq Task /\ IsFiniteSet(InFlight) /\ Cardinality(InFlight) \in Nat
    /\ Slots - Cardinality(InFlight) \in Int
<1>1. InFlight \subseteq Task
  BY DEF InFlight
<1>2. IsFiniteSet(InFlight) /\ Cardinality(InFlight) \in Nat
  BY <1>1, TaskAssumption, FS_Subset, FS_CardinalityType
<1> QED
  BY <1>1, <1>2, BoundsAssumption

\* The Stop hook reads both files as the orchestrator does.
LEMMA GuardAgrees == GuardFailed = Failed /\ GuardUnlaunched = Unlaunched
BY DEF GuardFailed, GuardUnlaunched, GuardReset, Failed, Unlaunched, Reset

LEMMA ToLaunchIs ==
    /\ ToLaunch \subseteq Unlaunched /\ Selection \subseteq Unlaunched /\ Unlaunched \subseteq Task
    /\ Selection # {} => ToLaunch # {}
<1>1. Unlaunched \in SUBSET Task /\ {t \in Unlaunched : status[t] # "merged"} \in SUBSET Task
  BY DEF Unlaunched
<1>2. ToLaunch = FirstOf(Unlaunched, Slots - Cardinality(InFlight))
  BY GuardAgrees DEF ToLaunch
<1>3. Selection = FirstOf({t \in Unlaunched : status[t] # "merged"}, Slots - Cardinality(InFlight))
  BY DEF Selection
<1> QED
  BY <1>1, <1>2, <1>3, FirstOfIs, InFlightIs

LEMMA MinIs ==
    ASSUME NEW a \in Nat, NEW b \in Nat
    PROVE  Min({a, b}) = IF a =< b THEN a ELSE b
<1>1. \E m \in {a, b} : \A y \in {a, b} : m =< y
  OBVIOUS
<1>2. Min({a, b}) \in {a, b} /\ \A y \in {a, b} : Min({a, b}) =< y
  BY <1>1 DEF Min
<1>3. Min({a, b}) =< a /\ Min({a, b}) =< b
  BY <1>2
<1>4. CASE Min({a, b}) = a
  BY <1>3, <1>4
<1>5. CASE Min({a, b}) = b
  BY <1>3, <1>5
<1> QED
  BY <1>2, <1>4, <1>5

LEMMA CounterIs ==
    ASSUME Typed
    PROVE  Counter \in Nat /\ Counter =< MaxBlocks + 1
<1>1. sidecar.counter \in 0..MaxBlocks + 1 /\ MaxBlocks \in Nat
  BY BoundsAssumption DEF Typed, Sidecar
<1> QED
  BY <1>1, MinIs DEF Counter

-----------------------------------------------------------------------------
(* Steps that leave journal and workflow.yaml alone *)

LEMMA SameJournal ==
    ASSUME journal' = journal
    PROVE  /\ \A t : LinesOf(t)' = LinesOf(t) /\ LastLine(t)' = LastLine(t) /\ LastEvent(t)' = LastEvent(t)
           /\ InFlight' = InFlight
<1>1. \A t : LinesOf(t)' = LinesOf(t)
  BY DEF LinesOf
<1>2. \A t : LastLine(t)' = LastLine(t)
  BY <1>1 DEF LastLine
<1>3. \A t : LastEvent(t)' = LastEvent(t)
  BY <1>2 DEF LastEvent
<1> QED
  BY <1>1, <1>2, <1>3 DEF InFlight

LEMMA SameBooks ==
    ASSUME UNCHANGED <<journal, status, record>>
    PROVE  /\ \A t : Reset(t)' = Reset(t)
           /\ Failed' = Failed /\ Unlaunched' = Unlaunched /\ Selection' = Selection
           /\ GuardUnlaunched' = GuardUnlaunched
<1>1. \A t : Reset(t)' = Reset(t)
  BY SameJournal DEF Reset
<1>2. Failed' = Failed /\ Unlaunched' = Unlaunched
  BY <1>1, SameJournal DEF Failed, Unlaunched
<1>3. GuardUnlaunched' = GuardUnlaunched
  BY SameJournal DEF GuardUnlaunched, GuardReset
<1>4. Selection' = Selection
  <2>1. {t \in Unlaunched : status[t] # "merged"}' = {t \in Unlaunched : status[t] # "merged"}
    BY <1>2
  <2> QED
    BY <2>1, SameJournal DEF Selection, FirstOf
<1> QED
  BY <1>1, <1>2, <1>3, <1>4

Books == Room /\ RunningIsInFlight /\ UndecidedFailed /\ RecordIsAFailure /\ InProgressWasLaunched

LEMMA Still ==
    ASSUME Typed, Books, UNCHANGED <<journal, status, record>>,
           undecided' \subseteq undecided, running' \subseteq running
    PROVE  Books'
<1>1. Room'
  BY SameJournal DEF Books, Room
<1>2. RunningIsInFlight' /\ UndecidedFailed'
  BY SameJournal, SameBooks DEF Books, RunningIsInFlight, UndecidedFailed
<1>3. RecordIsAFailure' /\ InProgressWasLaunched'
  BY SameJournal DEF Books, RecordIsAFailure, InProgressWasLaunched
<1> QED
  BY <1>1, <1>2, <1>3 DEF Books

\* The steps of the loop that write no line and no status.
Moves ==
    \/ Select \/ StopPasses \/ StopOverCap \/ StopBlocked \/ Obey \/ Ignore \/ SessionDies
    \/ WakeUp \/ Abort \/ Reenter \/ \E R \in SUBSET Task : Retry(R)

LEMMA MovesDo ==
    ASSUME Typed, Moves
    PROVE  /\ UNCHANGED <<journal, status, record>>
           /\ undecided' \subseteq undecided /\ running' \subseteq running
BY DEF Moves, Select, StopPasses, StopOverCap, StopBlocked, Obey, Ignore, SessionDies,
   WakeUp, Abort, Reenter, Retry, books

LEMMA MovesTyped ==
    ASSUME Typed, Moves
    PROVE  Typed'
<1> USE DEF Typed
<1>1. Len(journal) \in Nat
  OBVIOUS
<1>2. WriteSidecar => sidecar' \in Sidecar
  <2>1. Counter \in 0..MaxBlocks + 1
    BY CounterIs, BoundsAssumption
  <2>2. GuardUnlaunched \subseteq Task /\ InFlight \subseteq Task
    BY DEF GuardUnlaunched, InFlight
  <2> QED
    BY <2>1, <2>2 DEF WriteSidecar, Sidecar
<1>3. Selection \subseteq Task /\ ToLaunch \subseteq Task
  BY ToLaunchIs
<1>4. ASSUME Select \/ WakeUp \/ Abort \/ Reenter \/ Ignore \/ Obey \/ StopPasses PROVE Typed'
  <2>1. CASE Select
    BY <1>1, <1>3, <2>1 DEF Select, PC, AfterFailure, books
  <2>2. CASE WakeUp \/ Abort \/ Reenter
    BY <2>2 DEF WakeUp, Abort, Reenter, PC, books
  <2>3. CASE Ignore \/ Obey \/ StopPasses
    BY <1>1, <2>3 DEF Ignore, Obey, StopPasses, PC, Forget, books
  <2> QED
    BY <1>4, <2>1, <2>2, <2>3
<1>5. ASSUME StopOverCap \/ StopBlocked PROVE Typed'
  BY <1>2, <1>3, <1>5 DEF StopOverCap, StopBlocked, PC, books
<1>6. ASSUME SessionDies PROVE Typed'
  BY <1>6 DEF SessionDies, PC, Forget, books
<1>7. ASSUME NEW R \in SUBSET Task, Retry(R) PROVE Typed'
  BY <1>1, <1>7 DEF Retry, PC, books
<1> QED
  BY <1>4, <1>5, <1>6, <1>7 DEF Moves

LEMMA MovesPicked ==
    ASSUME Typed, Books, PickedIsDecided, Moves
    PROVE  PickedIsDecided'
<1>1. /\ UNCHANGED <<journal, status, record>>
      /\ undecided' \subseteq undecided /\ running' \subseteq running
  BY MovesDo
<1>2. Len(journal) \in Nat /\ mark =< Len(journal) /\ Len(journal)' = Len(journal)
  BY <1>1 DEF Typed, PickedIsDecided
\* What is unlaunched was decided about and does not run.
<1>3. \A t \in Unlaunched : t \notin undecided /\ t \notin running
  <2>1. \A t \in Unlaunched : LastEvent(t) # "launched"
    BY DEF Unlaunched, Reset
  <2>2. \A t \in Unlaunched : t \notin undecided
    BY DEF Unlaunched, Books, UndecidedFailed
  <2> QED
    BY <2>1, <2>2 DEF Books, RunningIsInFlight
<1>4. CASE Select
  <2>1. CASE Failed # {}
    BY <1>1, <1>2, <1>4, <2>1 DEF Select, AfterFailure, PickedIsDecided
  <2>2. CASE Failed = {}
    <3>1. picked' = Selection /\ mark' = Len(journal) /\ pc' = "launching"
      BY <1>4, <2>2 DEF Select
    <3> QED
      BY <1>1, <1>2, <1>3, <3>1, ToLaunchIs DEF PickedIsDecided
  <2> QED
    BY <2>1, <2>2
<1>5. CASE StopBlocked
  BY <1>1, <1>2, <1>3, <1>5, ToLaunchIs DEF StopBlocked, PickedIsDecided
<1>6. CASE Obey
  BY <1>1, <1>2, <1>6 DEF Obey, PickedIsDecided
<1>7. CASE StopPasses \/ StopOverCap \/ WakeUp \/ Abort \/ Reenter
  BY <1>1, <1>2, <1>7 DEF StopPasses, StopOverCap, WakeUp, Abort, Reenter, PickedIsDecided
<1>8. CASE Ignore \/ SessionDies
  BY <1>1, <1>2, <1>8 DEF Ignore, SessionDies, Forget, PickedIsDecided
<1>9. ASSUME NEW R \in SUBSET Task, Retry(R) PROVE PickedIsDecided'
  <2>1. /\ picked' = R /\ mark' = Len(journal) /\ pc' = "launching" /\ undecided' = undecided \ R
        /\ running' = running /\ R \subseteq Failed
    BY <1>9 DEF Retry
  <2>2. \A t \in R : t \notin running
    BY <2>1 DEF Failed, Books, RunningIsInFlight
  <2> QED
    BY <1>2, <2>1, <2>2 DEF PickedIsDecided
<1> QED
  BY <1>4, <1>5, <1>6, <1>7, <1>8, <1>9 DEF Moves

LEMMA MovesCapped ==
    ASSUME Typed, WorkLeftIsCapped, Moves
    PROVE  WorkLeftIsCapped'
<1>1. UNCHANGED <<journal, status, record>>
  BY MovesDo
<1>2. Failed' = Failed /\ Selection' = Selection /\ GuardUnlaunched' = GuardUnlaunched
      /\ InFlight' = InFlight
  BY <1>1, SameBooks, SameJournal
<1>3. CASE StopPasses
  <2>1. pc = "turn" /\ (~Refillable \/ "quiet" \in faults) /\ sidecar' = sidecar /\ faults' = faults
    BY <1>3 DEF StopPasses
  <2>2. CASE "quiet" \in faults
    BY <2>1, <2>2 DEF WorkLeftIsCapped
  <2>3. CASE ~Refillable
    <3>1. Failed # {} \/ ToLaunch = {}
      BY <2>1, <2>3, GuardAgrees DEF Refillable
    <3> QED
      BY <1>2, <3>1, ToLaunchIs DEF WorkLeftIsCapped
  <2> QED
    BY <2>1, <2>2, <2>3
<1>4. CASE StopOverCap
  <2>1. Counter > MaxBlocks /\ WriteSidecar
    BY <1>4 DEF StopOverCap
  <2>2. CASE sidecar' = sidecar
    <3>1. SameState' = SameState
      BY <1>2, <2>2 DEF SameState
    <3>2. Counter' = Counter
      BY <2>2, <3>1 DEF Counter
    <3> QED
      BY <2>1, <3>2 DEF WorkLeftIsCapped
  <2>3. CASE sidecar' = [unlaunched |-> GuardUnlaunched, inFlight |-> InFlight, counter |-> Counter]
    <3>1. SameState'
      BY <1>2, <2>3 DEF SameState
    <3>2. Counter \in Nat /\ sidecar'.counter = Counter /\ MaxBlocks \in Nat
      BY <2>3, CounterIs, BoundsAssumption
    <3>3. Counter' = Min({Counter + 1, MaxBlocks + 1})
      BY <3>1, <3>2 DEF Counter
    <3>4. Counter' > MaxBlocks
      BY <2>1, <3>2, <3>3, MinIs
    <3> QED
      BY <3>4 DEF WorkLeftIsCapped
  <2> QED
    BY <2>1, <2>2, <2>3 DEF WriteSidecar
<1>5. CASE Select \/ StopBlocked \/ Obey \/ Ignore \/ SessionDies \/ WakeUp \/ Abort \/ Reenter
           \/ \E R \in SUBSET Task : Retry(R)
  <2>1. pc' # "stopped"
    BY <1>5 DEF Select, StopBlocked, Obey, Ignore, SessionDies, WakeUp, Abort, Reenter, Retry, AfterFailure
  <2> QED
    BY <2>1 DEF WorkLeftIsCapped
<1> QED
  BY <1>3, <1>4, <1>5 DEF Moves

-----------------------------------------------------------------------------
(* Steps that write workflow.yaml *)

LEMMA CommitKeeps ==
    ASSUME IInv, CommitLaunches
    PROVE  IInv'
<1> USE DEF IInv
<1>1. /\ journal' = journal /\ record' = record /\ running' = running /\ undecided' = undecided
      /\ pc' = "turn" /\ picked' = {} /\ mark' = 0 /\ UNCHANGED <<woken, sidecar, faults>>
      /\ status' = WriteSet \/ status' = status
  BY DEF CommitLaunches, Forget
<1>2. \A t \in Task : \/ status'[t] \in {status[t], "failed"}
                      \/ status'[t] = "in_progress" /\ LastEvent(t) = "launched"
  BY <1>1 DEF WriteSet
<1>3. status' \in [Task -> {"pending", "in_progress", "merged", "failed"}]
  BY <1>1 DEF WriteSet, Typed
<1>4. Typed'
  BY <1>1, <1>3 DEF Typed, PC
<1>5. Room' /\ RunningIsInFlight' /\ RecordIsAFailure'
  BY <1>1, SameJournal DEF Room, RunningIsInFlight, RecordIsAFailure
<1>6. UndecidedFailed'
  <2>1. \A t \in Task : Reset(t)' => Reset(t)
    BY <1>1, <1>2, SameJournal DEF Reset
  <2> QED
    BY <1>1, <2>1, SameJournal DEF UndecidedFailed, Typed
<1>7. InProgressWasLaunched'
  <2> SUFFICES ASSUME NEW t \in Task, status'[t] = "in_progress"
               PROVE  \E i \in LinesOf(t) : i > record[t] /\ journal[i].event = "launched"
    BY <1>1, SameJournal DEF InProgressWasLaunched
  <2>1. CASE status[t] = "in_progress"
    BY <2>1 DEF InProgressWasLaunched
  <2>2. CASE LastEvent(t) = "launched"
    <3>1. /\ LastLine(t) \in LinesOf(t) /\ LastLine(t) # 0 /\ journal[LastLine(t)].event = "launched"
          /\ \A i \in LinesOf(t) : i =< LastLine(t)
          /\ DOMAIN journal = 1..Len(journal) /\ LastLine(t) \in 0..Len(journal)
      BY <2>2, LastLineIs
    <3>2. record[t] \in Nat
      BY DEF Typed
    <3>3. record[t] # 0 => record[t] \in LinesOf(t) /\ journal[record[t]].event = "failed"
      <4>1. record[t] # 0 => /\ record[t] \in DOMAIN journal
                             /\ journal[record[t]] = [task |-> t, event |-> "failed"]
        BY DEF RecordIsAFailure
      <4>2. record[t] # 0 => journal[record[t]].task = t /\ journal[record[t]].event = "failed"
        BY <4>1
      <4> QED
        BY <4>1, <4>2 DEF LinesOf
    <3>4. LastLine(t) > record[t]
      BY <3>1, <3>2, <3>3
    <3> QED
      BY <3>1, <3>4
  <2> QED
    BY <1>2, <2>1, <2>2
<1>8. PickedIsDecided' /\ WorkLeftIsCapped'
  BY <1>1 DEF PickedIsDecided, WorkLeftIsCapped, Typed
<1> QED
  BY <1>4, <1>5, <1>6, <1>7, <1>8

LEMMA ReconcileKeeps ==
    ASSUME IInv, Reconcile
    PROVE  IInv'
<1> USE DEF IInv
<1>1. /\ journal' = journal /\ record' = record /\ running' = running /\ undecided' = undecided
      /\ pc' \in {"done", "ask", "turn", "launch"}
      /\ UNCHANGED <<picked, mark, woken, sidecar, faults>>
  BY DEF Reconcile, AfterReconcile, AfterFailure
<1>2. \A t \in Task : status'[t] \in {status[t], "merged", "failed"}
  BY DEF Reconcile
<1>3. status' \in [Task -> {"pending", "in_progress", "merged", "failed"}]
  BY DEF Reconcile, Typed
<1>4. Typed'
  BY <1>1, <1>3 DEF Typed, PC
<1>5. Room' /\ RunningIsInFlight' /\ RecordIsAFailure'
  BY <1>1, SameJournal DEF Room, RunningIsInFlight, RecordIsAFailure
<1>6. UndecidedFailed'
  <2>1. \A t \in Task : Reset(t)' => Reset(t)
    BY <1>1, <1>2, SameJournal DEF Reset
  <2> QED
    BY <1>1, <2>1, SameJournal DEF UndecidedFailed, Typed
<1>7. InProgressWasLaunched'
  BY <1>1, <1>2, SameJournal DEF InProgressWasLaunched
<1>8. PickedIsDecided' /\ WorkLeftIsCapped'
  BY <1>1 DEF PickedIsDecided, WorkLeftIsCapped, Typed
<1> QED
  BY <1>4, <1>5, <1>6, <1>7, <1>8

LEMMA PutBackKeeps ==
    ASSUME IInv, NEW T \in SUBSET Task, PutBack(T), pc' = "routed",
           UNCHANGED <<journal, picked, mark, running, woken, sidecar, faults>>
    PROVE  IInv'
<1> USE DEF IInv
<1>1. /\ status' \in [Task -> {"pending", "in_progress", "merged", "failed"}]
      /\ \A t \in Task : status'[t] = IF t \in T THEN "pending" ELSE status[t]
  BY DEF PutBack, Typed
<1>2. /\ \A t \in Task : record'[t] = IF t \in T /\ FailedLine(t) # 0 THEN FailedLine(t) ELSE record[t]
      /\ record' \in [Task -> Nat]
  <2>1. \A t \in Task : FailedLine(t) \in Nat
    BY FailedLineIs, LastLineIs
  <2> QED
    BY <2>1 DEF PutBack, Typed
<1>3. undecided' = undecided \ T
  BY DEF PutBack
<1>4. Typed'
  BY <1>1, <1>2, <1>3 DEF Typed, PC
<1>5. Room' /\ RunningIsInFlight'
  BY SameJournal DEF Room, RunningIsInFlight
<1>6. UndecidedFailed'
  <2>1. \A t \in Task \ T : Reset(t)' => Reset(t)
    BY <1>1, <1>2, SameJournal DEF Reset
  <2> QED
    BY <1>3, <2>1, SameJournal DEF UndecidedFailed, Typed
<1>7. RecordIsAFailure'
  <2> SUFFICES ASSUME NEW t \in Task, record'[t] # 0
               PROVE  record'[t] \in DOMAIN journal /\ journal[record'[t]] = [task |-> t, event |-> "failed"]
    BY SameJournal DEF RecordIsAFailure
  <2>1. CASE record'[t] = record[t]
    BY <2>1 DEF RecordIsAFailure
  <2>2. CASE record'[t] = FailedLine(t)
    <3>1. FailedLine(t) \in LinesOf(t) /\ journal[FailedLine(t)].event = "failed"
      BY <2>2, FailedLineIs
    <3>2. FailedLine(t) \in DOMAIN journal /\ journal[FailedLine(t)].task = t
      BY <3>1 DEF LinesOf
    <3>3. journal[FailedLine(t)] \in Line
      BY <3>2 DEF Typed
    <3> QED
      BY <2>2, <3>1, <3>2, <3>3 DEF Line
  <2> QED
    BY <1>2, <2>1, <2>2
<1>8. InProgressWasLaunched'
  <2>1. \A t \in Task : status'[t] = "in_progress" => status[t] = "in_progress" /\ record'[t] = record[t]
    BY <1>1, <1>2
  <2> QED
    BY <2>1, SameJournal DEF InProgressWasLaunched
<1>9. PickedIsDecided' /\ WorkLeftIsCapped'
  BY DEF PickedIsDecided, WorkLeftIsCapped, Typed
<1> QED
  BY <1>4, <1>5, <1>6, <1>7, <1>8, <1>9

-----------------------------------------------------------------------------
(* Steps that write the journal *)

\* The tasks in flight after a line.
LEMMA FlightDoes ==
    ASSUME Typed, NEW u \in Task, NEW e \in {"launched", "merged", "failed"}, Log(e, u)
    PROVE  /\ e = "launched" => Cardinality(InFlight') =< Cardinality(InFlight) + 1
           /\ e # "launched" /\ LastEvent(u) = "launched" =>
                Cardinality(InFlight') = Cardinality(InFlight) - 1
<1>1. InFlight' = IF e = "launched" THEN InFlight \cup {u} ELSE InFlight \ {u}
  <2>1. \A t \in Task : LastEvent(t)' = IF t = u THEN e ELSE LastEvent(t)
    BY LogDoes
  <2> QED
    BY <2>1 DEF InFlight
<1>2. IsFiniteSet(InFlight) /\ Cardinality(InFlight) \in Nat
  BY InFlightIs
<1>3. CASE e = "launched"
  <2>1. Cardinality(InFlight \cup {u}) = IF u \in InFlight THEN Cardinality(InFlight)
                                         ELSE Cardinality(InFlight) + 1
    BY <1>2, FS_AddElement
  <2> QED
    BY <1>1, <1>2, <1>3, <2>1
<1>4. CASE e # "launched"
  <2>1. LastEvent(u) = "launched" => u \in InFlight
    BY DEF InFlight
  <2> QED
    BY <1>1, <1>2, <1>4, <2>1, FS_RemoveElement
<1> QED
  BY <1>3, <1>4

LEMMA LogKeeps ==
    ASSUME IInv, NEW u \in Task, NEW e \in {"launched", "merged", "failed"}, Log(e, u),
           UNCHANGED <<status, record>>,
           e = "launched" => /\ u \notin undecided /\ undecided' = undecided
                             /\ running' = running \cup {u}
                             /\ Len(journal) + Cardinality(InFlight) + 2 =< MaxLines,
           e # "launched" => /\ LastEvent(u) = "launched" /\ running' = running \ {u}
                             /\ undecided' = IF e = "failed" THEN undecided \cup {u} ELSE undecided
    PROVE  Books'
<1> DEFINE n == Len(journal)
<1>0. n \in Nat /\ MaxLines \in Nat /\ Cardinality(InFlight) \in Nat /\ DOMAIN journal = 1..n
  BY LastLineIs, InFlightIs, BoundsAssumption DEF IInv
<1>1. /\ journal' \in Seq(Line) /\ Len(journal') = n + 1 /\ DOMAIN journal' = 1..(n + 1)
      /\ \A i \in 1..n : journal'[i] = journal[i]
      /\ \A t \in Task : /\ LinesOf(t)' = LinesOf(t) \cup IF t = u THEN {n + 1} ELSE {}
                         /\ LastLine(t)' = IF t = u THEN n + 1 ELSE LastLine(t)
                         /\ LastEvent(t)' = IF t = u THEN e ELSE LastEvent(t)
  <2>1. Typed
    BY DEF IInv
  <2>2. journal' \in Seq(Line) /\ Len(journal') = n + 1
    BY <2>1, LogDoes
  <2>3. DOMAIN journal' = 1..(n + 1)
    BY <2>2
  <2> QED
    BY <2>1, <2>2, <2>3, LogDoes
<1>2. \A t \in Task : record[t] \in 0..n
  <2>1. \A t \in Task : record[t] \in Nat
    BY DEF IInv, Typed
  <2>2. \A t \in Task : record[t] # 0 => record[t] \in 1..n
    BY <1>0 DEF IInv, RecordIsAFailure
  <2> QED
    BY <1>0, <2>1, <2>2
<1>3. Room'
  <2>0. Typed
    BY DEF IInv
  <2>1. /\ e = "launched" => Cardinality(InFlight') =< Cardinality(InFlight) + 1
        /\ e # "launched" => Cardinality(InFlight') = Cardinality(InFlight) - 1
    BY <2>0, FlightDoes
  <2>2. Cardinality(InFlight') \in Nat
    <3>1. InFlight' \subseteq Task
      BY DEF InFlight
    <3> QED
      BY <3>1, TaskAssumption, FS_Subset, FS_CardinalityType
  <2> QED
    BY <1>0, <1>1, <2>1, <2>2 DEF IInv, Room
<1>4. RunningIsInFlight'
  BY <1>1 DEF IInv, RunningIsInFlight, Typed
<1>5. UndecidedFailed'
  <2>1. \A t \in Task \ {u} : Reset(t)' = Reset(t)
    BY <1>1 DEF Reset
  <2>2. ~Reset(u)'
    BY <1>0, <1>1, <1>2 DEF Reset
  <2>3. u \in undecided' => e = "failed"
    BY DEF IInv, UndecidedFailed
  <2>4. \A t \in Task \ {u} : t \in undecided' => t \in undecided
    OBVIOUS
  <2>5. undecided' \subseteq Task
    BY DEF IInv, Typed
  <2> QED
    BY <1>1, <2>1, <2>2, <2>3, <2>4, <2>5 DEF IInv, UndecidedFailed
<1>6. RecordIsAFailure'
  BY <1>0, <1>1, <1>2 DEF IInv, RecordIsAFailure
<1>7. InProgressWasLaunched'
  <2> SUFFICES ASSUME NEW t \in Task, status[t] = "in_progress"
               PROVE  \E i \in LinesOf(t)' : i > record[t] /\ journal'[i].event = "launched"
    BY DEF InProgressWasLaunched
  <2>1. PICK i \in LinesOf(t) : i > record[t] /\ journal[i].event = "launched"
    BY DEF IInv, InProgressWasLaunched
  <2>2. i \in 1..n
    BY <1>0 DEF LinesOf
  <2>3. i \in LinesOf(t)' /\ journal'[i] = journal[i]
    BY <1>1, <2>2
  <2> QED
    BY <2>1, <2>3
<1> QED
  BY <1>3, <1>4, <1>5, <1>6, <1>7 DEF Books

LEMMA LaunchedHereGrows ==
    ASSUME Typed, NEW u \in Task, NEW e \in {"launched", "merged", "failed"}, Log(e, u),
           picked' = picked, mark' = mark
    PROVE  /\ LaunchedHere(picked) \subseteq LaunchedHere(picked)'
           /\ e = "launched" /\ u \in picked /\ mark =< Len(journal) => u \in LaunchedHere(picked)'
<1>1. ASSUME NEW t \in LaunchedHere(picked) PROVE t \in LaunchedHere(picked)'
  <2>1. t \in picked /\ t \in Task
    BY DEF LaunchedHere, Typed
  <2>2. PICK i \in LinesOf(t) : i > mark /\ journal[i].event = "launched"
    BY DEF LaunchedHere
  <2>3. i \in 1..Len(journal)
    BY <2>1, LastLineIs
  <2>4. i \in LinesOf(t)' /\ journal'[i] = journal[i]
    BY <2>1, <2>2, <2>3, LogDoes
  <2> QED
    BY <2>1, <2>2, <2>4 DEF LaunchedHere
<1>2. ASSUME e = "launched", u \in picked, mark =< Len(journal) PROVE u \in LaunchedHere(picked)'
  <2>1. Len(journal) \in Nat /\ mark \in Nat
    BY LastLineIs DEF Typed
  <2>2. Len(journal) + 1 \in LinesOf(u)' /\ journal'[Len(journal) + 1].event = "launched"
    <3>1. journal'[Len(journal) + 1] = [task |-> u, event |-> e]
      BY LogDoes
    <3>2. LinesOf(u)' = LinesOf(u) \cup {Len(journal) + 1}
      BY LogDoes
    <3> QED
      BY <1>2, <3>1, <3>2
  <2>3. Len(journal) + 1 > mark
    BY <1>2, <2>1
  <2> QED
    BY <1>2, <2>2, <2>3 DEF LaunchedHere
<1> QED
  BY <1>1, <1>2

LEMMA LaunchKeeps ==
    ASSUME IInv, NEW t \in Task, LaunchTask(t)
    PROVE  IInv' /\ t \notin undecided
<1>1. /\ pc = "launching" /\ t \in picked \ LaunchedHere(picked) /\ Log("launched", t)
      /\ running' = running \cup {t} /\ Len(journal) + Cardinality(InFlight) + 2 =< MaxLines
      /\ UNCHANGED <<pc, status, record, picked, mark, woken, sidecar, undecided, faults>>
  BY DEF LaunchTask, books
<1>2. t \notin undecided
  BY <1>1 DEF IInv, PickedIsDecided
<1>3. Typed'
  BY <1>1, LogDoes DEF IInv, Typed
<1>4. Books'
  BY <1>1, <1>2, LogKeeps
<1>5. PickedIsDecided'
  <2>1. mark' =< Len(journal)'
    <3>1. Typed /\ Len(journal) \in Nat /\ mark \in Nat /\ mark =< Len(journal) /\ mark' = mark
      BY <1>1, LastLineIs DEF IInv, PickedIsDecided, Typed
    <3>2. Len(journal') = Len(journal) + 1
      BY <1>1, <3>1, LogDoes
    <3> QED
      BY <3>1, <3>2
  <2>2. LaunchedHere(picked) \cup {t} \subseteq LaunchedHere(picked)'
    BY <1>1, LaunchedHereGrows DEF IInv, PickedIsDecided
  <2> QED
    BY <1>1, <2>1, <2>2 DEF IInv, PickedIsDecided
<1>6. WorkLeftIsCapped'
  BY <1>1 DEF WorkLeftIsCapped
<1> QED
  BY <1>2, <1>3, <1>4, <1>5, <1>6 DEF IInv, Books

LEMMA EndKeeps ==
    ASSUME IInv, NEW t \in Task, AgentEnds(t) \/ Recover(t)
    PROVE  IInv'
<1>1. PICK e \in {"merged", "failed"} :
        /\ Log(e, t) /\ running' = running \ {t}
        /\ undecided' = IF e = "failed" THEN undecided \cup {t} ELSE undecided
        /\ t \in running \/ pc = "wake"
        /\ woken' \in BOOLEAN /\ (pc = "wake" \/ woken')
        /\ LastEvent(t) = "launched"
        /\ UNCHANGED <<pc, status, record, picked, mark, sidecar, faults>>
  <2>1. CASE AgentEnds(t)
    BY <2>1 DEF AgentEnds, books, IInv, RunningIsInFlight
  <2>2. CASE Recover(t)
    BY <2>2 DEF Recover, books, IInv, Typed
  <2> QED
    BY <2>1, <2>2
<1>2. Typed'
  BY <1>1, LogDoes DEF IInv, Typed
<1>3. Books'
  BY <1>1, LogKeeps
<1>4. PickedIsDecided'
  <2>1. mark' =< Len(journal)'
    <3>1. Typed /\ Len(journal) \in Nat /\ mark \in Nat /\ mark =< Len(journal) /\ mark' = mark
      BY <1>1, LastLineIs DEF IInv, PickedIsDecided, Typed
    <3>2. Len(journal') = Len(journal) + 1
      BY <1>1, <3>1, LogDoes
    <3> QED
      BY <3>1, <3>2
  <2>2. LaunchedHere(picked) \subseteq LaunchedHere(picked)'
    BY <1>1, LaunchedHereGrows DEF IInv
  <2>3. CASE pc = "wake"
    BY <1>1, <2>1, <2>3 DEF PickedIsDecided
  <2>4. CASE t \in running
    BY <1>1, <2>1, <2>2, <2>4 DEF IInv, PickedIsDecided
  <2> QED
    BY <1>1, <2>3, <2>4
<1>5. WorkLeftIsCapped'
  BY <1>1 DEF WorkLeftIsCapped
<1> QED
  BY <1>2, <1>3, <1>4, <1>5 DEF IInv, Books

-----------------------------------------------------------------------------
(* The theorems *)

LEMMA InitHolds == Init => IInv
<1> SUFFICES ASSUME Init PROVE IInv
  OBVIOUS
<1>1. \A t \in Task : LinesOf(t) = {} /\ LastLine(t) = 0 /\ LastEvent(t) = "none"
  <2>1. \A t \in Task : LinesOf(t) = {}
    BY DEF Init, LinesOf
  <2>2. Max({0}) = 0
    <3>1. {0} \in SUBSET Nat /\ 0 \in {0} /\ \A k \in {0} : k =< 0
      OBVIOUS
    <3> QED
      BY <3>1, MaxUnique
  <2>3. \A t \in Task : LastLine(t) = Max({} \cup {0})
    BY <2>1 DEF LastLine
  <2>4. {} \cup {0} = {0}
    OBVIOUS
  <2> QED
    BY <2>1, <2>2, <2>3, <2>4 DEF LastEvent
<1>2. Typed
  <2>1. [unlaunched |-> {}, inFlight |-> {}, counter |-> 0] \in Sidecar
    BY BoundsAssumption DEF Sidecar
  <2>2. [t \in Task |-> "pending"] \in [Task -> {"pending", "in_progress", "merged", "failed"}]
        /\ [t \in Task |-> 0] \in [Task -> Nat] /\ <<>> \in Seq(Line)
    OBVIOUS
  <2> QED
    BY <2>1, <2>2 DEF Init, Typed, PC
<1>3. Room
  <2>1. InFlight = {}
    BY <1>1 DEF InFlight
  <2>2. Cardinality(InFlight) = 0 /\ Len(journal) = 0
    BY <2>1, FS_EmptySet DEF Init
  <2> QED
    BY <2>2, BoundsAssumption DEF Room
<1>4. /\ RunningIsInFlight /\ UndecidedFailed /\ RecordIsAFailure /\ InProgressWasLaunched
      /\ PickedIsDecided /\ WorkLeftIsCapped
  BY DEF Init, RunningIsInFlight, UndecidedFailed, RecordIsAFailure, InProgressWasLaunched,
     PickedIsDecided, WorkLeftIsCapped
<1> QED
  BY <1>2, <1>3, <1>4 DEF IInv

LEMMA NextKeeps ==
    ASSUME IInv, [Next]_vars
    PROVE  IInv'
<1>1. CASE Moves
  <2>1. Typed /\ Books /\ PickedIsDecided /\ WorkLeftIsCapped
    BY DEF IInv, Books
  <2>2. Typed' /\ PickedIsDecided' /\ WorkLeftIsCapped'
    BY <1>1, <2>1, MovesTyped, MovesPicked, MovesCapped
  <2>3. Books'
    BY <1>1, <2>1, MovesDo, Still
  <2> QED
    BY <2>2, <2>3 DEF IInv, Books
<1>2. CASE CommitLaunches \/ Reconcile
  BY <1>2, CommitKeeps, ReconcileKeeps
<1>3. CASE RouteBack
  <2>1. CASE Gate
    <3>1. ResetSet \in SUBSET Task
      BY DEF ResetSet, Failed
    <3> QED
      BY <1>3, <2>1, <3>1, PutBackKeeps DEF RouteBack
  <2>2. CASE ~Gate
    <3>1. /\ pc' = "aborted"
          /\ UNCHANGED <<journal, status, record, undecided, picked, mark, running, woken, sidecar, faults>>
      BY <1>3, <2>2 DEF RouteBack, books
    <3>2. Typed /\ Books
      BY DEF IInv, Books
    <3>3. Typed' /\ PickedIsDecided' /\ WorkLeftIsCapped'
      BY <3>1, <3>2 DEF IInv, Typed, PickedIsDecided, WorkLeftIsCapped, PC
    <3> QED
      BY <3>1, <3>2, <3>3, Still DEF IInv, Books
  <2> QED
    BY <2>1, <2>2
<1>4. CASE \E V \in SUBSET Task : Restore(V)
  BY <1>4, PutBackKeeps DEF Restore
<1>5. CASE \E t \in Task : LaunchTask(t) \/ AgentEnds(t) \/ Recover(t)
  BY <1>5, LaunchKeeps, EndKeeps
<1>6. CASE UNCHANGED vars
  <2>1. UNCHANGED <<journal, status, record>> /\ undecided' = undecided /\ running' = running
    BY <1>6 DEF vars, books
  <2>2. Books'
    BY <2>1, Still DEF IInv, Books
  <2>3. Typed'
    BY <1>6 DEF vars, IInv, Typed, books
  <2>4. PickedIsDecided'
    <3>1. LaunchedHere(picked)' = LaunchedHere(picked)
      BY <1>6, SameJournal DEF LaunchedHere, vars
    <3> QED
      BY <1>6, <3>1 DEF vars, IInv, PickedIsDecided
  <2>5. WorkLeftIsCapped'
    <3>1. Counter' = Counter
      BY <1>6, <2>1, SameBooks, SameJournal DEF Counter, SameState, vars
    <3> QED
      BY <1>6, <2>1, <3>1, SameBooks DEF vars, IInv, WorkLeftIsCapped
  <2> QED
    BY <2>2, <2>3, <2>4, <2>5 DEF IInv, Books
<1> QED
  BY <1>1, <1>2, <1>3, <1>4, <1>5, <1>6 DEF Next, Moves

\* The invariant: what the journal, workflow.yaml, the entry at hand and the
\* user's decisions owe to each other.
THEOREM Invariance == Spec => []IInv
BY InitHolds, NextKeeps, PTL DEF Spec

\* The type invariant; the journal never outgrows its bound.
THEOREM Typing == Spec => []TypeOK
<1>1. ASSUME IInv PROVE TypeOK
  <2>1. Len(journal) \in Nat /\ Cardinality(InFlight) \in Nat /\ MaxLines \in Nat
    BY <1>1, InFlightIs, BoundsAssumption DEF IInv, Typed
  <2>2. Len(journal) =< MaxLines
    BY <1>1, <2>1 DEF IInv, Room
  <2>3. \A t \in Task : record[t] \in 0..MaxLines
    <3>1. DOMAIN journal = 1..Len(journal)
      BY <1>1 DEF IInv, Typed
    <3>2. \A t \in Task : record[t] \in Nat /\ (record[t] # 0 => record[t] \in 1..Len(journal))
      BY <1>1, <3>1 DEF IInv, Typed, RecordIsAFailure
    <3> QED
      BY <2>1, <2>2, <3>2
  <2>4. mark \in 0..MaxLines
    BY <1>1, <2>1, <2>2 DEF IInv, Typed, PickedIsDecided
  <2>5. record \in [Task -> 0..MaxLines]
    BY <1>1, <2>3 DEF IInv, Typed
  <2> QED
    BY <1>1, <2>2, <2>4, <2>5 DEF IInv, Typed, TypeOK, Line
<1> QED
  BY <1>1, Invariance, PTL

\* What workflow.yaml says of a task is what the journal recorded, however commits
\* are missed and launches denied, left out or failed on the way.
THEOREM Matches == Spec => []BooksMatchJournal
<1>1. IInv => BooksMatchJournal
  BY DEF IInv, UndecidedFailed, RecordIsAFailure, InProgressWasLaunched, BooksMatchJournal
<1> QED
  BY <1>1, Invariance, PTL

\* A turn ends with work left to launch only after the Stop hook has blocked it
\* up to its cap, or failed open.
THEOREM Capped == Spec => []WorkLeftIsCapped
<1>1. IInv => WorkLeftIsCapped
  BY DEF IInv
<1> QED
  BY <1>1, Invariance, PTL

\* No task is launched whose failure nobody has decided about.
THEOREM Decided == Spec => NoAutomaticRetry
<1>1. ASSUME IInv, [Next]_vars PROVE \A t \in Task : LaunchTask(t) => t \notin undecided
  BY <1>1, LaunchKeeps
<1>2. IInv /\ [Next]_vars => [\A t \in Task : LaunchTask(t) => t \notin undecided]_vars
  BY <1>1
<1> QED
  BY <1>2, Invariance, PTL DEF Spec, NoAutomaticRetry
=============================================================================
