------------------------ MODULE OrphanRecovery_proofs ------------------------
(***************************************************************************)
(* Theorems about OrphanRecovery, for any number of sessions and launches, *)
(* and any clock; and about TtyReaper, for any number of process ids and   *)
(* any bound on what happens around the hook.                              *)
(***************************************************************************)
EXTENDS OrphanRecovery, TtyReaper, FiniteSetTheorems, WellFoundedInduction, TLAPS

-----------------------------------------------------------------------------
(* What the two theorems about recovery ask of the environment *)

\* The transcript of a live session is written in every tick.
NoRest == \A F \in FaultSets : "idle" \notin F

\* Where sessions overlap, an index entry is as old as its launch, and the next
\* launch of the task comes later than the tolerance.
Spaced ==
    \A F \in FaultSets : "concurrent" \in F =>
        "late" \notin F /\ "brisk" \notin F /\ Tolerance < MinRun

-----------------------------------------------------------------------------
(* The invariant *)

\* No session is ahead of the clock, and a live one that may not rest is not
\* behind it; sessions overlap only where they may.
Clocked ==
    /\ \A s \in Session : session[s].start <= now /\ session[s].newest <= now
    /\ "idle" \notin faults => \A s \in Session : Live(s) => session[s].newest = now
    /\ "concurrent" \notin faults =>
           \A s, t \in Session : Live(s) /\ Live(t) => s = t

\* What is at work for a launch is at work in a live session.
Owned ==
    /\ \A l \in Launch : st[l] = "running" => Live(owner[l])
    /\ \A l \in index : Live(owner[l]) /\ st[l] # "unused"
    /\ \A i \in DOMAIN agents : session[agents[i].session].state # "new"

\* A session that runs the script has no implementer of the task, its target
\* least of all, and goes by an entry that was in the index.
ScriptOf(c) ==
    rec[c].pc # "idle" =>
        /\ Live(c) /\ ~Outstanding(c)
        /\ rec[c].target # NoLaunch =>
               owner[rec[c].target] = c /\ st[rec[c].target] = "gone"
        /\ rec[c].pc # "entry" => \E i \in DOMAIN agents : rec[c].entry = agents[i]

Scripts == \A c \in Session : ScriptOf(c)

\* Two launches are MinRun apart, an entry has the time of its launch, and the
\* evidence chain ends at the launch of its target.
IsLaunchOf(l, at) ==
    l \in Launch /\ \E i \in Launched : journal[i].by = l /\ journal[i].at = at

Dated ==
    /\ \A i \in Launched : journal[i].at <= now
    /\ \A i, k \in Launched : i < k => journal[i].at + MinRun <= journal[k].at
    /\ \A l \in index : IsLaunchOf(l, now)
    /\ \A a \in DOMAIN agents : \A l \in agents[a].ids : IsLaunchOf(l, agents[a].at)
    /\ \A c \in Session : rec[c].pc = "stale" =>
           IsLaunchOf(rec[c].target, rec[c].launchAt)

Orderly == "late" \notin faults /\ "brisk" \notin faults /\ Tolerance < MinRun

IInv ==
    /\ TypeOK /\ Clocked /\ Owned /\ Scripts
    /\ "idle" \notin faults => JudgedGoneIsGone
    /\ Orderly => Dated

-----------------------------------------------------------------------------
(* Journal lines *)

LEMMA Least ==
    ASSUME NEW S \in SUBSET Nat, S # {}
    PROVE  \E m \in S : \A k \in S : m <= k
<1>1. PICK x \in S : \A y \in S : ~(<<y, x>> \in OpToRel(<, Nat))
  BY NatLessThanWellFounded, WFMin, Zenon
<1>2. ASSUME NEW y \in S, y < x PROVE FALSE
  <2>1. <<y, x>> \in Nat \X Nat /\ <<y, x>>[1] < <<y, x>>[2]
    BY <1>2
  <2>2. <<y, x>> \in OpToRel(<, Nat)
    BY <2>1, Zenon DEF OpToRel
  <2> QED
    BY <1>1, <2>2
<1> QED
  BY <1>2

\* LastLaunched is the last of the launched lines.
LEMMA LastLaunchedIs ==
    ASSUME journal \in Seq(Line), Launched # {}
    PROVE  \E m \in Launched :
               LastLaunched = journal[m] /\ \A k \in Launched : k <= m
<1> DEFINE n == Len(journal)
           T == {n - k : k \in Launched}
<1>1. n \in Nat /\ \A k \in Launched : k \in 1..n
  BY DEF Launched
<1>2. \A k \in Launched : n - k \in Nat
  BY <1>1
<1>3. T \in SUBSET Nat /\ T # {}
  BY <1>2, Zenon
<1>4. PICK x \in T : \A y \in T : x <= y
  <2> HIDE DEF T
  <2> QED
    BY <1>3, Least
<1>5. PICK m \in Launched : x = n - m
  BY <1>4
<1>6. \A k \in Launched : n - m <= n - k
  BY <1>4, <1>5
<1>7. \A k \in Launched : k <= m
  BY <1>1, <1>6
<1>8. \E i \in Launched : \A k \in Launched : k <= i
  BY <1>5, <1>7
<1> QED
  BY <1>8 DEF LastLaunched

\* A recorded line is the new last one and leaves the others as they are.
LEMMA RecordedFacts ==
    ASSUME TypeOK, NEW event, NEW by,
           [event |-> event, at |-> now, by |-> by] \in Line, Recorded(event, by)
    PROVE  /\ journal' \in Seq(Line)
           /\ Len(journal) \in Nat /\ Len(journal') = Len(journal) + 1
           /\ DOMAIN journal = 1..Len(journal) /\ DOMAIN journal' = 1..(Len(journal) + 1)
           /\ \A i \in 1..Len(journal) : journal'[i] = journal[i]
           /\ journal'[Len(journal) + 1] = [event |-> event, at |-> now, by |-> by]
           /\ Launched \subseteq 1..Len(journal)
           /\ Launched' = IF event = "launched" THEN Launched \cup {Len(journal) + 1}
                          ELSE Launched
<1> DEFINE line == [event |-> event, at |-> now, by |-> by]
<1>1. line \in Line /\ journal \in Seq(Line) /\ journal' = Append(journal, line)
  BY DEF TypeOK, Recorded
<1>2. line.event = event
  OBVIOUS
<1> HIDE DEF line
<1>3. /\ journal' \in Seq(Line)
      /\ Len(journal) \in Nat /\ Len(journal') = Len(journal) + 1
      /\ DOMAIN journal = 1..Len(journal) /\ DOMAIN journal' = 1..(Len(journal) + 1)
      /\ \A i \in 1..Len(journal) : journal'[i] = journal[i]
      /\ journal'[Len(journal) + 1] = line
  BY <1>1
<1>4. Launched \subseteq 1..Len(journal)
  BY <1>3 DEF Launched
<1>5. Launched' = IF event = "launched" THEN Launched \cup {Len(journal) + 1}
                  ELSE Launched
  BY <1>2, <1>3 DEF Launched
<1> QED
  BY <1>3, <1>4, <1>5 DEF line

LEMMA SameJournal ==
    ASSUME UNCHANGED journal
    PROVE  Launched' = Launched /\ LastLaunched' = LastLaunched
BY DEF Launched, LastLaunched

-----------------------------------------------------------------------------
(* The script's record *)

PCs == {"entry", "bind", "transcript", "precheck", "orphaned",
        "journal2", "entry2", "bind2", "stale"}

\* The record of session c after the script has gone on; the others stay.
LEMMA GoesFacts ==
    ASSUME TypeOK, NEW c \in Session, NEW to \in PCs, NEW f, Goes(c, to, f)
    PROVE  /\ rec' = [rec EXCEPT ![c] = rec'[c]]
           /\ rec'[c] = [pc |-> to,
                  entry |-> IF "entry" \in DOMAIN f THEN f["entry"] ELSE rec[c].entry,
                  launchAt |-> IF "launchAt" \in DOMAIN f THEN f["launchAt"]
                               ELSE rec[c].launchAt,
                  target |-> IF "target" \in DOMAIN f THEN f["target"] ELSE rec[c].target]
<1>1. DOMAIN RecIdle = {"pc", "entry", "launchAt", "target"}
  BY DEF RecIdle
<1>2. DOMAIN rec = Session
  BY DEF TypeOK
<1>3. rec'[c] = [k \in DOMAIN RecIdle |->
                    IF k = "pc" THEN to ELSE IF k \in DOMAIN f THEN f[k] ELSE rec[c][k]]
  BY <1>2 DEF Goes
<1>4. rec' = [rec EXCEPT ![c] = rec'[c]]
  BY <1>3 DEF Goes
<1> QED
  BY <1>1, <1>3, <1>4

LEMMA GoesOn ==
    ASSUME TypeOK, NEW c \in Session, NEW to \in PCs, Goes(c, to, <<>>)
    PROVE  /\ rec' = [rec EXCEPT ![c] = rec'[c]]
           /\ rec'[c] = [pc |-> to, entry |-> rec[c].entry,
                         launchAt |-> rec[c].launchAt, target |-> rec[c].target]
<1>1. DOMAIN <<>> = {}
  OBVIOUS
<1> QED
  BY <1>1, GoesFacts

LEMMA GoesWithEntry ==
    ASSUME TypeOK, NEW c \in Session, NEW to \in PCs, NEW e,
           Goes(c, to, [entry |-> e])
    PROVE  /\ rec' = [rec EXCEPT ![c] = rec'[c]]
           /\ rec'[c] = [pc |-> to, entry |-> e,
                         launchAt |-> rec[c].launchAt, target |-> rec[c].target]
BY GoesFacts

LEMMA GoesWithTarget ==
    ASSUME TypeOK, NEW c \in Session, NEW to \in PCs, NEW t,
           Goes(c, to, [target |-> t])
    PROVE  /\ rec' = [rec EXCEPT ![c] = rec'[c]]
           /\ rec'[c] = [pc |-> to, entry |-> rec[c].entry,
                         launchAt |-> rec[c].launchAt, target |-> t]
BY GoesFacts

LEMMA GoesWithLaunch ==
    ASSUME TypeOK, NEW c \in Session, NEW to \in PCs, NEW at,
           Goes(c, to, [launchAt |-> at])
    PROVE  /\ rec' = [rec EXCEPT ![c] = rec'[c]]
           /\ rec'[c] = [pc |-> to, entry |-> rec[c].entry,
                         launchAt |-> at, target |-> rec[c].target]
BY GoesFacts

LEMMA ResidualFacts ==
    ASSUME TypeOK, NEW c \in Session, Residual(c)
    PROVE  /\ rec' = [rec EXCEPT ![c] = RecIdle] /\ rec'[c] = RecIdle
           /\ RecIdle.pc = "idle" /\ rec' \in [Session -> Recovery]
BY DEF TypeOK, Residual, RecIdle, Recovery
-----------------------------------------------------------------------------
(* What a step of the script has to keep *)

LEMMA WroteFacts ==
    ASSUME TypeOK, NEW c \in Session, Wrote(c) \/ session' = session
    PROVE  /\ session' \in [Session -> [state : {"new", "live", "dead"},
                                        start : Clock, newest : Clock]]
           /\ \A s \in Session : /\ session'[s].state = session[s].state
                                 /\ session'[s].start = session[s].start
                                 /\ session'[s].newest \in {now, session[s].newest}
           /\ \A s \in Session : Live(s)' <=> Live(s)
<1>1. CASE session' = session
  BY <1>1 DEF TypeOK, Live
<1>2. CASE Wrote(c)
  <2>1. session' = [session EXCEPT ![c] = [session[c] EXCEPT !.newest = now]]
    BY <1>2 DEF Wrote
  <2>2. session[c] \in [state : {"new", "live", "dead"}, start : Clock, newest : Clock]
    BY DEF TypeOK
  <2>3. DOMAIN session = Session /\ now \in Clock
    BY DEF TypeOK
  <2>4. [session[c] EXCEPT !.newest = now]
            = [state |-> session[c].state, start |-> session[c].start, newest |-> now]
    BY <2>2
  <2>5. session'[c] = [state |-> session[c].state, start |-> session[c].start, newest |-> now]
        /\ \A s \in Session : s # c => session'[s] = session[s]
    BY <2>1, <2>3, <2>4
  <2> QED
    BY <2>1, <2>2, <2>3, <2>4, <2>5 DEF TypeOK, Live
<1> QED
  BY <1>1, <1>2

\* A step of the script of session c that changes its record and perhaps its
\* transcript only.
LEMMA ScriptStep ==
    ASSUME IInv, NEW c \in Session, Wrote(c) \/ session' = session,
           UNCHANGED <<now, journal, agents, st, owner, index, faults>>,
           rec' = [rec EXCEPT ![c] = rec'[c]], rec'[c] \in Recovery,
           ScriptOf(c)',
           "idle" \notin faults => (rec'[c].pc \in {"precheck", "orphaned"} =>
                                        ~Live(rec'[c].entry.session)),
           Orderly => (rec'[c].pc = "stale" =>
                           IsLaunchOf(rec'[c].target, rec'[c].launchAt))
    PROVE  IInv'
<1>1. /\ session' \in [Session -> [state : {"new", "live", "dead"},
                                   start : Clock, newest : Clock]]
      /\ \A s \in Session : /\ session'[s].state = session[s].state
                            /\ session'[s].start = session[s].start
                            /\ session'[s].newest \in {now, session[s].newest}
      /\ \A s \in Session : Live(s)' <=> Live(s)
  BY WroteFacts DEF IInv
<1>2. TypeOK /\ rec \in [Session -> Recovery]
  BY DEF IInv, TypeOK
<1>3. \A d \in Session : d # c => rec'[d] = rec[d]
  BY <1>2
<1>4. rec' \in [Session -> Recovery]
  BY <1>2
<1>5. TypeOK'
  BY <1>1, <1>2, <1>4 DEF TypeOK, Clock, Line, Entry, Recovery, RecIdle
<1>6. Clocked'
  <2>1. Clocked /\ now \in Nat
    BY <1>2, BoundsAssumption DEF IInv, TypeOK, Clock
  <2>2. now <= now
    BY <2>1
  <2> QED
    BY <1>1, <2>1, <2>2 DEF Clocked
<1>7. Owned'
  <2>1. \A i \in DOMAIN agents : agents[i].session \in Session
    <3>1. \A i \in DOMAIN agents : agents[i] \in Entry
      BY <1>2 DEF TypeOK
    <3> QED
      BY <3>1 DEF Entry
  <2> QED
    BY <1>1, <1>2, <2>1 DEF IInv, Owned, TypeOK
<1>8. Scripts'
  <2> SUFFICES ASSUME NEW d \in Session, d # c PROVE ScriptOf(d)'
    BY DEF Scripts
  <2>1. ScriptOf(d) /\ (Live(d)' <=> Live(d)) /\ (Outstanding(d)' <=> Outstanding(d))
    BY <1>1 DEF IInv, Scripts, Outstanding
  <2> QED
    BY <2>1, <1>3 DEF ScriptOf
<1>9. ASSUME "idle" \notin faults PROVE JudgedGoneIsGone'
  <2>1. ASSUME NEW d \in Session, rec'[d].pc \in {"precheck", "orphaned"}
        PROVE  session'[rec'[d].entry.session].state # "live"
    <3>1. ~Live(rec'[d].entry.session)
      BY <1>3, <1>9, <2>1 DEF IInv, JudgedGoneIsGone
    <3>2. \E i \in DOMAIN agents' : rec'[d].entry = agents'[i]
      BY <1>8, <2>1 DEF Scripts, ScriptOf
    <3>3. rec'[d].entry.session \in Session
      <4>1. \A i \in DOMAIN agents : agents[i] \in Entry
        BY <1>2 DEF TypeOK
      <4> QED
        BY <3>2, <4>1 DEF Entry
    <3> QED
      BY <1>1, <3>1, <3>3 DEF Live
  <2> QED
    BY <2>1 DEF JudgedGoneIsGone, Live
<1>10. ASSUME Orderly PROVE Dated'
  <2>1. \A l, at : IsLaunchOf(l, at)' <=> IsLaunchOf(l, at)
    BY SameJournal DEF IsLaunchOf
  <2>2. Dated
    BY <1>10 DEF IInv
  <2>3. \A d \in Session : rec'[d].pc = "stale" => IsLaunchOf(rec'[d].target, rec'[d].launchAt)
    BY <1>3, <1>10, <2>2 DEF Dated
  <2>4. Launched' = Launched
    BY SameJournal
  <2> QED
    BY <2>1, <2>2, <2>3, <2>4 DEF Dated
<1>11. Orderly' <=> Orderly
  BY DEF Orderly
<1> QED
  BY <1>5, <1>6, <1>7, <1>8, <1>9, <1>10, <1>11 DEF IInv

-----------------------------------------------------------------------------
(* The steps of the script *)

\* Ending the script is always right.
LEMMA ResidualKeeps ==
    ASSUME IInv, NEW c \in Session, Residual(c),
           UNCHANGED <<now, session, journal, agents, st, owner, index, faults>>
    PROVE  IInv'
<1>1. /\ rec' = [rec EXCEPT ![c] = RecIdle] /\ rec'[c] = RecIdle
      /\ RecIdle.pc = "idle" /\ rec' \in [Session -> Recovery]
  BY ResidualFacts DEF IInv
<1>2. ScriptOf(c)'
  BY <1>1 DEF ScriptOf
<1> QED
  BY <1>1, <1>2, ScriptStep

\* What a script that has read the index knows of its entry.
LEMMA EntryFacts ==
    ASSUME IInv, NEW c \in Session, rec[c].pc \notin {"idle", "entry"}
    PROVE  /\ rec[c].entry \in Entry
           /\ session[rec[c].entry.session].state # "new"
           /\ \E i \in DOMAIN agents : rec[c].entry = agents[i]
<1>1. PICK i \in DOMAIN agents : rec[c].entry = agents[i]
  BY DEF IInv, Scripts, ScriptOf
<1>2. agents[i] \in Entry
  BY DEF IInv, TypeOK
<1> QED
  BY <1>1, <1>2 DEF IInv, Owned

\* Going on from one step behind the reading of the index to another, with what
\* the script knows, takes care of the judgment and of the launch only.
LEMMA GoesOnKeeps ==
    ASSUME IInv, NEW c \in Session, NEW to \in PCs \ {"entry"},
           rec[c].pc \notin {"idle", "entry"},
           Goes(c, to, <<>>), to # "stale",
           "idle" \notin faults => (to \in {"precheck", "orphaned"} =>
                                        ~Live(rec[c].entry.session)),
           UNCHANGED <<now, session, journal, agents, st, owner, index, faults>>
    PROVE  IInv'
<1>1. TypeOK /\ to \in PCs
  BY DEF IInv, PCs
<1>2. /\ rec' = [rec EXCEPT ![c] = rec'[c]]
      /\ rec'[c] = [pc |-> to, entry |-> rec[c].entry,
                    launchAt |-> rec[c].launchAt, target |-> rec[c].target]
  BY <1>1, GoesOn
<1>3. rec[c].entry \in Entry /\ \E i \in DOMAIN agents : rec[c].entry = agents[i]
  BY EntryFacts
<1>4. rec[c] \in Recovery
  BY <1>1 DEF TypeOK
<1>5. rec[c].launchAt \in Clock /\ rec[c].target \in Launch \cup {NoLaunch}
  BY <1>1, <1>4 DEF Recovery, RecIdle, Clock, TypeOK
<1>6. rec'[c] \in Recovery
  BY <1>2, <1>3, <1>5, <1>1 DEF Recovery, PCs
<1>7. ScriptOf(c)'
  <2>1. ScriptOf(c)
    BY DEF IInv, Scripts
  <2>2. (Live(c)' <=> Live(c)) /\ (Outstanding(c)' <=> Outstanding(c))
    BY DEF Live, Outstanding
  <2> QED
    BY <1>2, <1>3, <2>1, <2>2 DEF ScriptOf
<1> QED
  BY <1>2, <1>6, <1>7, ScriptStep
-----------------------------------------------------------------------------
LEMMA RecoverStartKeeps ==
    ASSUME IInv, NEW c \in Session, NEW t \in Launch \cup {NoLaunch},
           RecoverStart(c, t)
    PROVE  IInv'
<1>1. TypeOK /\ "entry" \in PCs /\ rec[c] = RecIdle /\ Goes(c, "entry", [target |-> t])
  BY DEF IInv, PCs, RecoverStart
<1>2. /\ rec' = [rec EXCEPT ![c] = rec'[c]]
      /\ rec'[c] = [pc |-> "entry", entry |-> rec[c].entry,
                    launchAt |-> rec[c].launchAt, target |-> t]
  BY <1>1, GoesWithTarget
<1>3. rec[c].entry = NoEntry /\ rec[c].launchAt = 0 /\ 0 \in Clock
  BY <1>1, BoundsAssumption DEF RecIdle, Clock
<1>4. rec'[c] \in Recovery
  BY <1>2, <1>3 DEF Recovery
<1>5. ScriptOf(c)'
  <2>1. Wrote(c) /\ UNCHANGED <<st, owner>> /\ Live(c) /\ ~Outstanding(c)
        /\ (t # NoLaunch => owner[t] = c /\ st[t] = "gone")
    BY DEF RecoverStart
  <2>2. Live(c)' /\ ~Outstanding(c)'
    BY <1>1, <2>1, WroteFacts DEF Outstanding
  <2> QED
    BY <1>2, <2>1, <2>2 DEF ScriptOf
<1> QED
  BY <1>2, <1>4, <1>5, ScriptStep DEF RecoverStart

LEMMA ReadEntryKeeps ==
    ASSUME IInv, NEW c \in Session, ReadEntry(c)
    PROVE  IInv'
<1> DEFINE e == FindAgentEntry
           to == IF rec[c].pc = "entry" THEN "bind" ELSE "bind2"
<1>1. UNCHANGED <<now, session, journal, agents, st, owner, index, faults>>
      /\ rec[c].pc \in {"entry", "entry2"} /\ TypeOK
  BY DEF ReadEntry, IInv
<1>2. CASE Residual(c)
  BY <1>1, <1>2, ResidualKeeps
<1>3. CASE e # NoEntry /\ Goes(c, to, [entry |-> e])
  <2>1. e = agents[Len(agents)] /\ agents # <<>> /\ agents \in Seq(Entry)
    BY <1>1, <1>3 DEF FindAgentEntry, TypeOK
  <2>2. e \in Entry /\ \E i \in DOMAIN agents : e = agents[i]
    <3> HIDE DEF e
    <3> QED
      BY <2>1
  <2>3. to \in PCs \ {"entry", "stale", "precheck", "orphaned"}
    BY DEF PCs
  <2> HIDE DEF e, to
  <2>4. /\ rec' = [rec EXCEPT ![c] = rec'[c]]
        /\ rec'[c] = [pc |-> to, entry |-> e,
                      launchAt |-> rec[c].launchAt, target |-> rec[c].target]
    BY <1>1, <1>3, <2>3, GoesWithEntry
  <2>5. rec[c].launchAt \in Clock /\ rec[c].target \in Launch \cup {NoLaunch}
    BY <1>1 DEF TypeOK, Recovery, RecIdle
  <2>6. rec'[c] \in Recovery
    BY <2>2, <2>3, <2>4, <2>5 DEF Recovery, PCs
  <2>7. ScriptOf(c)'
    <3>1. ScriptOf(c) /\ (Live(c)' <=> Live(c)) /\ (Outstanding(c)' <=> Outstanding(c))
      BY <1>1 DEF IInv, Scripts, Live, Outstanding
    <3> QED
      BY <1>1, <2>2, <2>4, <3>1 DEF ScriptOf
  <2> QED
    BY <1>1, <2>3, <2>4, <2>6, <2>7, ScriptStep
<1> QED
  BY <1>2, <1>3 DEF ReadEntry

LEMMA ReadLaunchedKeeps ==
    ASSUME IInv, NEW c \in Session, ReadLaunched(c)
    PROVE  IInv'
<1>1. UNCHANGED <<now, session, journal, agents, st, owner, index, faults>>
      /\ rec[c].pc = "bind"
  BY DEF ReadLaunched
<1>2. \/ Residual(c) \/ Goes(c, "transcript", <<>>) \/ Goes(c, "journal2", <<>>)
  BY DEF ReadLaunched
<1>3. {"transcript", "journal2"} \subseteq PCs \ {"entry", "stale", "precheck", "orphaned"}
  BY DEF PCs
<1> QED
  BY <1>1, <1>2, <1>3, ResidualKeeps, GoesOnKeeps

\* A session whose transcript ends before this session started does not live.
LEMMA JudgeTranscriptKeeps ==
    ASSUME IInv, NEW c \in Session, JudgeTranscript(c)
    PROVE  IInv'
<1>1. UNCHANGED <<now, session, journal, agents, st, owner, index, faults>>
      /\ rec[c].pc = "transcript"
  BY DEF JudgeTranscript
<1>2. CASE Residual(c)
  BY <1>1, <1>2, ResidualKeeps
<1>3. CASE ProvenGone(rec[c].entry.session, c) /\ Goes(c, "precheck", <<>>)
  <2>1. rec[c].entry.session \in Session
    BY <1>1, EntryFacts DEF Entry
  <2>2. ASSUME "idle" \notin faults, Live(rec[c].entry.session) PROVE FALSE
    <3>1. /\ session[rec[c].entry.session].newest = now
          /\ session[c].start <= now
      BY <2>1, <2>2 DEF IInv, Clocked
    <3>2. session[c].start \in Nat /\ now \in Nat
      BY BoundsAssumption DEF IInv, TypeOK, Clock
    <3> QED
      BY <1>3, <3>1, <3>2 DEF ProvenGone
  <2>3. "precheck" \in PCs \ {"entry"}
    BY DEF PCs
  <2> QED
    BY <1>1, <1>3, <2>2, <2>3, GoesOnKeeps
<1> QED
  BY <1>2, <1>3 DEF JudgeTranscript

LEMMA PreCheckKeeps ==
    ASSUME IInv, NEW c \in Session, PreCheck(c)
    PROVE  IInv'
<1>1. UNCHANGED <<now, session, journal, agents, st, owner, index, faults>>
      /\ rec[c].pc \in {"precheck", "journal2"}
  BY DEF PreCheck
<1>2. {"orphaned", "entry2"} \subseteq PCs \ {"entry", "stale"}
  BY DEF PCs
<1>3. CASE Residual(c)
  BY <1>1, <1>3, ResidualKeeps
<1>4. CASE rec[c].pc = "precheck" /\ Goes(c, "orphaned", <<>>)
  <2>1. "idle" \notin faults => ~Live(rec[c].entry.session)
    BY <1>4 DEF IInv, JudgedGoneIsGone
  <2> QED
    BY <1>1, <1>2, <1>4, <2>1, GoesOnKeeps
<1>5. CASE rec[c].pc = "journal2" /\ Goes(c, "entry2", <<>>)
  BY <1>1, <1>2, <1>5, GoesOnKeeps
<1> QED
  BY <1>1, <1>3, <1>4, <1>5 DEF PreCheck

\* Where launches are apart and entries on time, an entry that binds to the
\* last launch and names the target alone is the target's own: the last launch
\* is the target.
LEMMA BoundIsLast ==
    ASSUME IInv, Orderly, Launched # {}, NEW a \in DOMAIN agents, NEW t,
           Bound(agents[a]), BoundStopTarget(agents[a], t)
    PROVE  IsLaunchOf(t, LastLaunched.at)
<1>1. Dated /\ journal \in Seq(Line) /\ Tolerance \in Nat /\ MinRun \in Nat
  BY BoundsAssumption DEF IInv, TypeOK
<1>2. t \in agents[a].ids
  BY DEF BoundStopTarget
<1>3. t \in Launch /\ \E i \in Launched : journal[i].by = t /\ journal[i].at = agents[a].at
  BY <1>1, <1>2 DEF Dated, IsLaunchOf
<1>4. PICK i \in Launched : journal[i].by = t /\ journal[i].at = agents[a].at
  BY <1>3
<1>5. PICK m \in Launched :
          LastLaunched = journal[m] /\ \A k \in Launched : k <= m
  BY <1>1, LastLaunchedIs
<1>6. i \in Nat /\ m \in Nat
  BY <1>1 DEF Launched
<1>7. journal[m].at <= journal[i].at + Tolerance
  BY <1>4, <1>5 DEF Bound
<1>8. journal[i].at \in Nat /\ journal[m].at \in Nat
  <2>1. journal[i] \in Line /\ journal[m] \in Line
    BY <1>1 DEF Launched
  <2> QED
    BY <2>1, BoundsAssumption DEF Line, Clock
<1>9. ~(i < m)
  <2>1. i < m => journal[i].at + MinRun <= journal[m].at
    BY <1>1 DEF Dated
  <2> QED
    BY <1>1, <1>7, <1>8, <2>1 DEF Orderly
<1>10. i = m
  BY <1>5, <1>6, <1>9
<1> QED
  BY <1>3, <1>4, <1>5, <1>10 DEF IsLaunchOf

LEMMA EvidenceBindKeeps ==
    ASSUME IInv, NEW c \in Session, EvidenceBind(c)
    PROVE  IInv'
<1>1. UNCHANGED <<now, session, journal, agents, st, owner, index, faults>>
      /\ rec[c].pc = "bind2" /\ TypeOK
  BY DEF EvidenceBind, IInv
<1>2. CASE Residual(c)
  BY <1>1, <1>2, ResidualKeeps
<1>3. CASE /\ Launched # {} /\ Bound(rec[c].entry)
           /\ BoundStopTarget(rec[c].entry, rec[c].target)
           /\ Goes(c, "stale", [launchAt |-> LastLaunched.at])
  <2> DEFINE at == LastLaunched.at
  <2>1. at \in Clock
    <3>1. PICK m \in Launched : LastLaunched = journal[m]
      BY <1>1, <1>3, LastLaunchedIs DEF TypeOK
    <3>2. journal[m] \in Line
      BY <1>1 DEF TypeOK, Launched
    <3> QED
      BY <3>1, <3>2 DEF Line
  <2>2. Orderly => IsLaunchOf(rec[c].target, at)
    <3>1. PICK a \in DOMAIN agents : rec[c].entry = agents[a]
      BY <1>1, EntryFacts
    <3> QED
      BY <1>3, <3>1, BoundIsLast
  <2> HIDE DEF at
  <2>3. "stale" \in PCs /\ Goes(c, "stale", [launchAt |-> at])
    BY <1>3 DEF PCs, at
  <2>4. /\ rec' = [rec EXCEPT ![c] = rec'[c]]
        /\ rec'[c] = [pc |-> "stale", entry |-> rec[c].entry,
                      launchAt |-> at, target |-> rec[c].target]
    BY <1>1, <2>3, GoesWithLaunch
  <2>5. rec[c].entry \in Entry /\ \E i \in DOMAIN agents : rec[c].entry = agents[i]
    BY <1>1, EntryFacts
  <2>6. rec[c].target \in Launch \cup {NoLaunch}
    BY <1>1 DEF TypeOK, Recovery, RecIdle
  <2>7. rec'[c] \in Recovery
    BY <2>1, <2>4, <2>5, <2>6 DEF Recovery
  <2>8. ScriptOf(c)'
    <3>1. ScriptOf(c) /\ (Live(c)' <=> Live(c)) /\ (Outstanding(c)' <=> Outstanding(c))
      BY <1>1 DEF IInv, Scripts, Live, Outstanding
    <3> QED
      BY <1>1, <2>4, <2>5, <3>1 DEF ScriptOf
  <2> QED
    BY <1>1, <2>2, <2>4, <2>7, <2>8, ScriptStep
<1> QED
  BY <1>2, <1>3 DEF EvidenceBind
-----------------------------------------------------------------------------
(* Lines that are no launches *)

SameLaunches ==
    /\ journal' \in Seq(Line)
    /\ Launched' = Launched
    /\ \A i \in Launched : journal'[i] = journal[i]

LEMMA NoLaunchRecorded ==
    ASSUME TypeOK, NEW event, event # "launched", NEW by,
           [event |-> event, at |-> now, by |-> by] \in Line,
           Recorded(event, by) \/ journal' = journal
    PROVE  SameLaunches
<1>1. CASE journal' = journal
  BY <1>1, SameJournal DEF SameLaunches, TypeOK, Line
<1>2. CASE Recorded(event, by)
  <2>1. /\ journal' \in Seq(Line)
        /\ \A i \in 1..Len(journal) : journal'[i] = journal[i]
        /\ Launched \subseteq 1..Len(journal)
        /\ Launched' = Launched
    BY <1>2, RecordedFacts
  <2> QED
    BY <2>1 DEF SameLaunches
<1> QED
  BY <1>1, <1>2

LEMMA DatedKept ==
    ASSUME Dated, SameLaunches, UNCHANGED <<now, agents>>, index' \subseteq index,
           \A c \in Session : rec'[c] = rec[c] \/ rec'[c].pc # "stale"
    PROVE  Dated'
<1>1. \A l, at : IsLaunchOf(l, at)' <=> IsLaunchOf(l, at)
  BY DEF IsLaunchOf, SameLaunches
<1> QED
  BY <1>1 DEF Dated, SameLaunches

LEMMA HelperAppendKeeps ==
    ASSUME IInv, NEW c \in Session, HelperAppend(c)
    PROVE  IInv'
<1>1. UNCHANGED <<now, session, agents, st, owner, index, faults>> /\ Residual(c)
      /\ TypeOK
  BY DEF HelperAppend, IInv
<1>2. \A by \in {"orphaned", "stale-launched"} :
          [event |-> "failed", at |-> now, by |-> by] \in Line
  BY <1>1 DEF TypeOK, Line
<1>3. SameLaunches
  BY <1>1, <1>2, NoLaunchRecorded DEF HelperAppend
<1>4. /\ rec' = [rec EXCEPT ![c] = RecIdle] /\ rec'[c] = RecIdle
      /\ RecIdle.pc = "idle" /\ rec' \in [Session -> Recovery]
      /\ \A d \in Session : d # c => rec'[d] = rec[d]
  <2>1. DOMAIN rec = Session
    BY <1>1 DEF TypeOK
  <2> QED
    BY <1>1, <2>1, ResidualFacts
<1>5. TypeOK'
  <2>1. Line' = Line /\ Recovery' = Recovery /\ Entry' = Entry /\ Clock' = Clock
    BY DEF Line, Recovery, Entry, RecIdle, Clock
  <2> QED
    BY <1>1, <1>3, <1>4, <2>1 DEF TypeOK, SameLaunches
<1>6. Clocked' /\ Owned'
  BY <1>1 DEF IInv, Clocked, Owned, Live
<1>7. Scripts'
  <2>1. \A d \in Session : ScriptOf(d) /\ (Live(d)' <=> Live(d))
                           /\ (Outstanding(d)' <=> Outstanding(d))
    BY <1>1 DEF IInv, Scripts, Live, Outstanding
  <2> QED
    BY <1>1, <1>4, <2>1 DEF Scripts, ScriptOf
<1>8. "idle" \notin faults' => JudgedGoneIsGone'
  BY <1>1, <1>4 DEF IInv, JudgedGoneIsGone, Live
<1>9. Orderly' => Dated'
  <2>1. Orderly' => Dated
    BY <1>1 DEF IInv, Orderly
  <2>2. index' \subseteq index
    BY <1>1
  <2> QED
    BY <1>1, <1>3, <1>4, <2>1, <2>2, DatedKept
<1> QED
  BY <1>5, <1>6, <1>7, <1>8, <1>9 DEF IInv

\* An implementer that ends, with a line that is no launch or with none.
LEMMA EndKeeps ==
    ASSUME IInv, NEW l \in Launch, st[l] = "running",
           st' = [st EXCEPT ![l] = "gone"], SameLaunches,
           UNCHANGED <<now, session, agents, owner, index, rec, faults>>
    PROVE  IInv'
<1>1. TypeOK /\ st' \in [Launch -> {"unused", "running", "gone"}]
      /\ st'[l] = "gone" /\ \A k \in Launch : k # l => st'[k] = st[k]
  BY DEF IInv, TypeOK
<1>2. TypeOK'
  <2>1. Line' = Line /\ Recovery' = Recovery /\ Entry' = Entry /\ Clock' = Clock
    BY DEF Line, Recovery, Entry, RecIdle, Clock
  <2> QED
    BY <1>1, <2>1 DEF TypeOK, SameLaunches
<1>3. Clocked'
  BY DEF IInv, Clocked, Live
<1>4. Owned'
  <2>1. index \subseteq Launch
    BY <1>1 DEF TypeOK
  <2> QED
    BY <1>1, <2>1 DEF IInv, Owned, Live
<1>5. Scripts'
  <2> SUFFICES ASSUME NEW d \in Session PROVE ScriptOf(d)'
    BY DEF Scripts
  <2>1. ScriptOf(d) /\ (Live(d)' <=> Live(d)) /\ (Outstanding(d)' => Outstanding(d))
    BY <1>1 DEF IInv, Scripts, Live, Outstanding
  <2>2. rec[d].target \in Launch \cup {NoLaunch}
    BY <1>1 DEF TypeOK, Recovery, RecIdle
  <2> QED
    BY <1>1, <2>1, <2>2 DEF ScriptOf
<1>6. "idle" \notin faults' => JudgedGoneIsGone'
  BY DEF IInv, JudgedGoneIsGone, Live
<1>7. Orderly' => Dated'
  <2>1. Orderly' => Dated
    BY DEF IInv, Orderly
  <2> QED
    BY <2>1, DatedKept
<1> QED
  BY <1>2, <1>3, <1>4, <1>5, <1>6, <1>7 DEF IInv

LEMMA AgentEndsKeeps ==
    ASSUME IInv, NEW l \in Launch, AgentEnds(l)
    PROVE  IInv'
<1>1. TypeOK /\ [event |-> "failed", at |-> now, by |-> "net"] \in Line
  BY DEF IInv, TypeOK, Line
<1>2. Recorded("failed", "net") \/ journal' = journal
  BY DEF AgentEnds
<1>3. SameLaunches
  BY <1>1, <1>2, NoLaunchRecorded
<1> QED
  BY <1>3, EndKeeps DEF AgentEnds

LEMMA AgentMergesKeeps ==
    ASSUME IInv, NEW l \in Launch, AgentMerges(l)
    PROVE  IInv'
<1>1. TypeOK /\ [event |-> "merged", at |-> now, by |-> l] \in Line
  BY DEF IInv, TypeOK, Line
<1>2. SameLaunches
  BY <1>1, NoLaunchRecorded DEF AgentMerges
<1> QED
  BY <1>2, EndKeeps DEF AgentMerges
-----------------------------------------------------------------------------
(* Sessions and launches *)

\* What the type of the state says about the script's target and entries.
LEMMA RecordFacts ==
    ASSUME TypeOK, NEW c \in Session
    PROVE  rec[c].target \in Launch \cup {NoLaunch} /\ rec[c].pc \in PCs \cup {"idle"}
BY DEF TypeOK, Recovery, RecIdle, PCs

LEMMA TypesKept ==
    Line' = Line /\ Recovery' = Recovery /\ Entry' = Entry /\ Clock' = Clock
BY DEF Line, Recovery, Entry, RecIdle, Clock

LEMMA TickKeeps ==
    ASSUME IInv, Tick
    PROVE  IInv'
<1>1. /\ TypeOK /\ now \in Nat /\ now < MaxClock /\ now' = now + 1
      /\ now' \in Clock /\ MaxClock \in Nat
      /\ UNCHANGED <<journal, agents, st, owner, index, rec, faults>>
  BY BoundsAssumption DEF IInv, TypeOK, Clock, Tick
<1>2. PICK W \in SUBSET {s \in Session : Live(s)} :
          /\ "idle" \notin faults => W = {s \in Session : Live(s)}
          /\ session' = [s \in Session |->
                 IF s \in W THEN [session[s] EXCEPT !.newest = now + 1] ELSE session[s]]
  BY DEF Tick
<1>3. \A s \in Session :
          /\ session[s] \in [state : {"new", "live", "dead"}, start : Clock, newest : Clock]
          /\ session'[s].state = session[s].state /\ session'[s].start = session[s].start
          /\ session'[s].newest = IF s \in W THEN now' ELSE session[s].newest
          /\ session'[s] \in [state : {"new", "live", "dead"}, start : Clock, newest : Clock]
  <2> SUFFICES ASSUME NEW s \in Session
               PROVE  /\ session[s] \in [state : {"new", "live", "dead"},
                                         start : Clock, newest : Clock]
                      /\ session'[s].state = session[s].state
                      /\ session'[s].start = session[s].start
                      /\ session'[s].newest = IF s \in W THEN now' ELSE session[s].newest
                      /\ session'[s] \in [state : {"new", "live", "dead"},
                                          start : Clock, newest : Clock]
    OBVIOUS
  <2>1. session[s] \in [state : {"new", "live", "dead"}, start : Clock, newest : Clock]
    BY <1>1 DEF TypeOK
  <2>2. session'[s] = IF s \in W THEN [session[s] EXCEPT !.newest = now'] ELSE session[s]
    BY <1>1, <1>2
  <2>3. [session[s] EXCEPT !.newest = now']
            = [state |-> session[s].state, start |-> session[s].start, newest |-> now']
    BY <2>1
  <2> QED
    BY <1>1, <2>1, <2>2, <2>3
<1>4. session' \in [Session -> [state : {"new", "live", "dead"}, start : Clock, newest : Clock]]
      /\ \A s \in Session : Live(s)' <=> Live(s)
  BY <1>2, <1>3 DEF Live
<1>5. TypeOK'
  BY <1>1, <1>4, TypesKept DEF TypeOK
<1>6. Clocked'
  <2>1. \A s \in Session : session[s].start \in Nat /\ session[s].newest \in Nat
    BY <1>1, <1>3 DEF Clock
  <2>2. Clocked
    BY DEF IInv
  <2>3. \A s \in Session : session'[s].start <= now' /\ session'[s].newest <= now'
    BY <1>1, <1>3, <2>1, <2>2 DEF Clocked
  <2>4. "idle" \notin faults' => \A s \in Session : Live(s)' => session'[s].newest = now'
    BY <1>1, <1>2, <1>3, <1>4
  <2> QED
    BY <1>1, <1>4, <2>2, <2>3, <2>4 DEF Clocked
<1>7. Owned'
  <2>1. \A i \in DOMAIN agents : agents[i].session \in Session
    <3>1. \A i \in DOMAIN agents : agents[i] \in Entry
      BY <1>1 DEF TypeOK
    <3> QED
      BY <3>1 DEF Entry
  <2>2. index \subseteq Launch /\ \A l \in Launch : owner[l] \in Session
    BY <1>1 DEF TypeOK
  <2> QED
    BY <1>1, <1>3, <1>4, <2>1, <2>2 DEF IInv, Owned
<1>8. Scripts'
  <2> SUFFICES ASSUME NEW d \in Session PROVE ScriptOf(d)'
    BY DEF Scripts
  <2>1. ScriptOf(d) /\ (Live(d)' <=> Live(d)) /\ (Outstanding(d)' <=> Outstanding(d))
    BY <1>1, <1>4 DEF IInv, Scripts, Outstanding
  <2> QED
    BY <1>1, <2>1 DEF ScriptOf
<1>9. "idle" \notin faults' => JudgedGoneIsGone'
  <2>1. \A c \in Session : rec[c].pc \in {"precheck", "orphaned"} =>
            rec[c].entry.session \in Session
    BY EntryFacts DEF Entry
  <2> QED
    BY <1>1, <1>3, <2>1 DEF IInv, JudgedGoneIsGone, Live
<1>10. Orderly' => Dated'
  <2> SUFFICES ASSUME Orderly PROVE Dated'
    BY <1>1 DEF Orderly
  <2>1. Dated /\ index = {} /\ index' = {}
    BY <1>1 DEF IInv, Orderly, Tick
  <2>2. Launched' = Launched /\ \A l, at : IsLaunchOf(l, at)' <=> IsLaunchOf(l, at)
    BY <1>1 DEF Launched, IsLaunchOf
  <2>3. \A i \in Launched : journal[i].at \in Nat
    <3>1. \A i \in Launched : journal[i] \in Line
      BY <1>1 DEF TypeOK, Launched
    <3> QED
      BY <1>1, <3>1 DEF Line, Clock
  <2> QED
    BY <1>1, <2>1, <2>2, <2>3 DEF Dated
<1> QED
  BY <1>5, <1>6, <1>7, <1>8, <1>9, <1>10 DEF IInv

LEMMA SessionStartKeeps ==
    ASSUME IInv, NEW s \in Session, SessionStart(s)
    PROVE  IInv'
<1>1. /\ TypeOK /\ now \in Nat /\ now \in Clock
      /\ UNCHANGED <<now, journal, agents, st, owner, index, rec, faults>>
      /\ session[s].state = "new"
  BY BoundsAssumption DEF IInv, TypeOK, Clock, SessionStart
<1>2. /\ session' \in [Session -> [state : {"new", "live", "dead"},
                                   start : Clock, newest : Clock]]
      /\ session'[s] = [state |-> "live", start |-> now, newest |-> now]
      /\ \A t \in Session : t # s => session'[t] = session[t]
  BY <1>1 DEF TypeOK, SessionStart
<1>3. TypeOK'
  BY <1>1, <1>2, TypesKept DEF TypeOK
<1>4. \A t \in Session : /\ Live(t) => t # s /\ Live(t)'
                         /\ session[t].state # "new" => session'[t] = session[t]
  BY <1>1, <1>2 DEF Live
<1>5. Clocked'
  <2>1. Clocked /\ now <= now /\ now' = now
    BY <1>1 DEF IInv
  <2>2. "concurrent" \notin faults => \A t \in Session : Live(t)' => t = s
    BY <1>2 DEF SessionStart, Live
  <2>3. \A t \in Session : session'[t].start <= now /\ session'[t].newest <= now
    BY <1>2, <2>1 DEF Clocked
  <2>4. "idle" \notin faults => \A t \in Session : Live(t)' => session'[t].newest = now
    BY <1>2, <2>1 DEF Clocked, Live
  <2> QED
    BY <1>1, <2>1, <2>2, <2>3, <2>4 DEF Clocked
<1>6. Owned'
  <2>1. \A i \in DOMAIN agents : agents[i].session \in Session
    <3>1. \A i \in DOMAIN agents : agents[i] \in Entry
      BY <1>1 DEF TypeOK
    <3> QED
      BY <3>1 DEF Entry
  <2>2. index \subseteq Launch /\ \A l \in Launch : owner[l] \in Session
    BY <1>1 DEF TypeOK
  <2> QED
    BY <1>1, <1>4, <2>1, <2>2 DEF IInv, Owned
<1>7. Scripts'
  <2> SUFFICES ASSUME NEW d \in Session PROVE ScriptOf(d)'
    BY DEF Scripts
  <2>1. ScriptOf(d) /\ (Live(d) => Live(d)') /\ (Outstanding(d)' <=> Outstanding(d))
    BY <1>1, <1>4 DEF IInv, Scripts, Outstanding
  <2> QED
    BY <1>1, <2>1 DEF ScriptOf
<1>8. "idle" \notin faults' => JudgedGoneIsGone'
  <2>1. \A c \in Session : rec[c].pc \in {"precheck", "orphaned"} =>
            /\ rec[c].entry.session \in Session
            /\ session[rec[c].entry.session].state # "new"
    BY EntryFacts DEF Entry
  <2> QED
    BY <1>1, <1>4, <2>1 DEF IInv, JudgedGoneIsGone, Live
<1>9. Orderly' => Dated'
  BY <1>1 DEF IInv, Orderly, Dated, IsLaunchOf, Launched
<1> QED
  BY <1>3, <1>5, <1>6, <1>7, <1>8, <1>9 DEF IInv

\* The script of a session dies with it, and so does what has put it at risk.
LEMMA SessionDiesKeeps ==
    ASSUME IInv, NEW s \in Session, SessionDies(s)
    PROVE  IInv'
<1>1. /\ TypeOK /\ UNCHANGED <<now, journal, agents, owner, faults>>
      /\ session[s].state = "live"
  BY DEF IInv, SessionDies, Live
<1>2. /\ session' \in [Session -> [state : {"new", "live", "dead"},
                                   start : Clock, newest : Clock]]
      /\ session'[s].state = "dead" /\ session'[s].start = session[s].start
      /\ session'[s].newest = session[s].newest
      /\ \A t \in Session : t # s => session'[t] = session[t]
  <2>1. session[s] \in [state : {"new", "live", "dead"}, start : Clock, newest : Clock]
        /\ DOMAIN session = Session
    BY <1>1 DEF TypeOK
  <2>2. session' = [session EXCEPT ![s] = [session[s] EXCEPT !.state = "dead"]]
    BY DEF SessionDies
  <2>3. [session[s] EXCEPT !.state = "dead"]
            = [state |-> "dead", start |-> session[s].start, newest |-> session[s].newest]
    BY <2>1
  <2> QED
    BY <1>1, <2>1, <2>2, <2>3 DEF TypeOK
<1>3. /\ rec' \in [Session -> Recovery] /\ rec'[s].pc = "idle"
      /\ \A t \in Session : t # s => rec'[t] = rec[t]
  BY <1>1 DEF TypeOK, SessionDies, Recovery, RecIdle
<1>4. /\ st' \in [Launch -> {"unused", "running", "gone"}]
      /\ \A l \in Launch : st'[l] = IF st[l] = "running" /\ owner[l] = s
                                    THEN "gone" ELSE st[l]
      /\ index' \subseteq index /\ \A l \in index' : owner[l] # s
      /\ index \subseteq Launch
  BY <1>1 DEF TypeOK, SessionDies
<1>5. TypeOK'
  BY <1>1, <1>2, <1>3, <1>4, TypesKept DEF TypeOK
<1>6. Clocked'
  <2>1. \A t \in Session : /\ session'[t].start = session[t].start
                           /\ session'[t].newest = session[t].newest
                           /\ Live(t)' => Live(t)
    BY <1>2 DEF Live
  <2> QED
    BY <1>1, <2>1 DEF IInv, Clocked
<1>7. Owned'
  <2>1. \A i \in DOMAIN agents : agents[i].session \in Session
    <3>1. \A i \in DOMAIN agents : agents[i] \in Entry
      BY <1>1 DEF TypeOK
    <3> QED
      BY <3>1 DEF Entry
  <2>2. \A l \in Launch : owner[l] \in Session
    BY <1>1 DEF TypeOK
  <2> QED
    BY <1>1, <1>2, <1>4, <2>1, <2>2 DEF IInv, Owned, Live
<1>8. Scripts'
  <2> SUFFICES ASSUME NEW d \in Session, d # s PROVE ScriptOf(d)'
    BY <1>3 DEF Scripts, ScriptOf
  <2>1. ScriptOf(d) /\ (Live(d) => Live(d)') /\ (Outstanding(d)' => Outstanding(d))
    BY <1>1, <1>2, <1>4 DEF IInv, Scripts, Outstanding, Live
  <2> QED
    BY <1>1, <1>3, <1>4, <2>1, RecordFacts DEF ScriptOf
<1>9. "idle" \notin faults' => JudgedGoneIsGone'
  <2>1. \A c \in Session : rec[c].pc \in {"precheck", "orphaned"} =>
            rec[c].entry.session \in Session
    BY EntryFacts DEF Entry
  <2> QED
    BY <1>1, <1>2, <1>3, <2>1 DEF IInv, JudgedGoneIsGone, Live
<1>10. Orderly' => Dated'
  <2>1. Orderly' => Dated
    BY <1>1 DEF IInv, Orderly
  <2>2. SameLaunches
    BY <1>1, SameJournal DEF SameLaunches, TypeOK, Line
  <2>3. \A c \in Session : rec'[c] = rec[c] \/ rec'[c].pc # "stale"
    BY <1>3
  <2> QED
    BY <1>1, <1>4, <2>1, <2>2, <2>3, DatedKept
<1> QED
  BY <1>5, <1>6, <1>7, <1>8, <1>9, <1>10 DEF IInv
LEMMA LaunchTaskKeeps ==
    ASSUME IInv, NEW s \in Session, NEW l \in Launch, LaunchTask(s, l)
    PROVE  IInv'
<1> DEFINE n == Len(journal) + 1
<1>1. /\ TypeOK /\ now \in Nat /\ Live(s) /\ rec[s].pc = "idle" /\ owner[l] = s
      /\ st[l] = "unused" /\ Wrote(s) /\ Recorded("launched", l)
      /\ UNCHANGED <<now, agents, owner, rec, faults>> /\ index' = index \cup {l}
  BY BoundsAssumption DEF IInv, TypeOK, Clock, LaunchTask
<1>2. /\ journal' \in Seq(Line)
      /\ Len(journal) \in Nat
      /\ \A i \in 1..Len(journal) : journal'[i] = journal[i]
      /\ journal'[n] = [event |-> "launched", at |-> now, by |-> l]
      /\ Launched \subseteq 1..Len(journal)
      /\ Launched' = Launched \cup {n}
  <2>1. [event |-> "launched", at |-> now, by |-> l] \in Line
    BY <1>1 DEF TypeOK, Line
  <2> QED
    BY <1>1, <2>1, RecordedFacts
<1>3. /\ st' \in [Launch -> {"unused", "running", "gone"}]
      /\ st'[l] = "running" /\ \A k \in Launch : k # l => st'[k] = st[k]
  BY <1>1 DEF TypeOK, LaunchTask
<1>4. /\ session' \in [Session -> [state : {"new", "live", "dead"},
                                   start : Clock, newest : Clock]]
      /\ \A t \in Session : /\ session'[t].state = session[t].state
                            /\ session'[t].start = session[t].start
                            /\ session'[t].newest \in {now, session[t].newest}
      /\ \A t \in Session : Live(t)' <=> Live(t)
  BY <1>1, WroteFacts
<1>5. TypeOK'
  BY <1>1, <1>2, <1>3, <1>4, TypesKept DEF TypeOK
<1>6. Clocked'
  <2>1. Clocked /\ now <= now
    BY <1>1 DEF IInv
  <2> QED
    BY <1>1, <1>4, <2>1 DEF Clocked
<1>7. Owned'
  <2>1. \A i \in DOMAIN agents : agents[i].session \in Session
    <3>1. \A i \in DOMAIN agents : agents[i] \in Entry
      BY <1>1 DEF TypeOK
    <3> QED
      BY <3>1 DEF Entry
  <2>2. index \subseteq Launch /\ \A k \in Launch : owner[k] \in Session
    BY <1>1 DEF TypeOK
  <2> QED
    BY <1>1, <1>3, <1>4, <2>1, <2>2 DEF IInv, Owned
<1>8. Scripts'
  <2> SUFFICES ASSUME NEW d \in Session, d # s PROVE ScriptOf(d)'
    BY <1>1 DEF Scripts, ScriptOf
  <2>1. ScriptOf(d) /\ (Live(d) => Live(d)') /\ (Outstanding(d)' => Outstanding(d))
    BY <1>1, <1>3, <1>4 DEF IInv, Scripts, Outstanding
  <2> QED
    BY <1>1, <1>3, <2>1, RecordFacts DEF ScriptOf
<1>9. "idle" \notin faults' => JudgedGoneIsGone'
  <2>1. \A c \in Session : rec[c].pc \in {"precheck", "orphaned"} =>
            rec[c].entry.session \in Session
    BY EntryFacts DEF Entry
  <2> QED
    BY <1>1, <1>4, <2>1 DEF IInv, JudgedGoneIsGone, Live
<1>10. Orderly' => Dated'
  <2> SUFFICES ASSUME Orderly PROVE Dated'
    BY <1>1 DEF Orderly
  <2>1. Dated /\ MinRun \in Nat /\ n \in Nat
    BY <1>2, BoundsAssumption DEF IInv
  <2>2. \A k, at : IsLaunchOf(k, at) => IsLaunchOf(k, at)'
    BY <1>2 DEF IsLaunchOf
  <2>3. IsLaunchOf(l, now)'
    <3>1. \E i \in Launched' : journal'[i].by = l /\ journal'[i].at = now
      BY <1>2
    <3> QED
      BY <1>1, <3>1 DEF IsLaunchOf
  <2>4. \A i \in Launched : journal[i].at \in Nat
    <3>1. \A i \in Launched : journal[i] \in Line
      BY <1>1 DEF TypeOK, Launched
    <3> QED
      BY <1>1, <3>1, BoundsAssumption DEF Line, Clock
  <2>5. \A i \in Launched : journal[i].at + MinRun <= now
    <3> SUFFICES ASSUME NEW i \in Launched PROVE journal[i].at + MinRun <= now
      OBVIOUS
    <3>1. PICK m \in Launched :
              LastLaunched = journal[m] /\ \A k \in Launched : k <= m
      BY <1>1, LastLaunchedIs DEF TypeOK
    <3>2. journal[m].at + MinRun <= now
      BY <3>1 DEF LaunchTask, Orderly
    <3>3. i = m \/ i < m
      BY <1>2, <3>1
    <3>4. i < m => journal[i].at + MinRun <= journal[m].at
      BY <2>1, <3>1 DEF Dated
    <3>5. journal[i].at \in Nat /\ journal[m].at \in Nat
      BY <2>4, <3>1
    <3>6. CASE i = m
      BY <3>2, <3>6
    <3>7. CASE i < m
      <4>1. MinRun \in Nat /\ now \in Nat
        BY <1>1, BoundsAssumption DEF TypeOK, Clock
      <4> QED
        BY <3>2, <3>4, <3>5, <3>7, <4>1
    <3> QED
      BY <3>3, <3>6, <3>7
  <2>6. \A i \in Launched' : journal'[i].at <= now'
    <3> SUFFICES ASSUME NEW i \in Launched' PROVE journal'[i].at <= now
      BY <1>1
    <3>1. CASE i \in Launched
      <4>1. journal'[i] = journal[i]
        BY <1>2, <3>1
      <4>2. journal[i].at <= now
        BY <2>1, <3>1 DEF Dated
      <4> QED
        BY <4>1, <4>2
    <3>2. CASE i = n
      <4>1. now <= now /\ journal'[n].at = now
        BY <1>1, <1>2
      <4> QED
        BY <3>2, <4>1
    <3> QED
      BY <1>2, <3>1, <3>2
  <2>7. ASSUME NEW i \in Launched', NEW k \in Launched', i < k
        PROVE  journal'[i].at + MinRun <= journal'[k].at
    <3>1. i \in Launched
      BY <1>2, <2>7
    <3>2. CASE k \in Launched
      BY <1>2, <2>1, <2>7, <3>1, <3>2 DEF Dated
    <3>3. CASE k = n
      BY <1>2, <2>5, <3>1, <3>3
    <3> QED
      BY <1>2, <3>2, <3>3
  <2>8. \A k \in index' : IsLaunchOf(k, now)'
    BY <1>1, <2>1, <2>2, <2>3 DEF Dated
  <2>9. \A a \in DOMAIN agents' : \A k \in agents'[a].ids : IsLaunchOf(k, agents[a].at)'
    BY <1>1, <2>1, <2>2 DEF Dated
  <2>10. \A c \in Session : rec'[c].pc = "stale" =>
             IsLaunchOf(rec[c].target, rec[c].launchAt)'
    BY <1>1, <2>1, <2>2 DEF Dated
  <2> QED
    BY <1>1, <2>6, <2>7, <2>8, <2>9, <2>10 DEF Dated
<1> QED
  BY <1>5, <1>6, <1>7, <1>8, <1>9, <1>10 DEF IInv

LEMMA IndexAppendKeeps ==
    ASSUME IInv, NEW l \in Launch, IndexAppend(l)
    PROVE  IInv'
<1> DEFINE e == [at |-> now, session |-> owner[l], ids |-> {l}]
<1>1. /\ TypeOK /\ l \in index /\ index' = index \ {l}
      /\ UNCHANGED <<now, session, journal, st, owner, rec, faults>>
      /\ agents \in Seq(Entry) /\ Len(agents) \in Nat /\ DOMAIN agents = 1..Len(agents)
  BY DEF IInv, TypeOK, IndexAppend
<1>2. e \in Entry /\ e.session = owner[l] /\ e.at = now /\ e.ids = {l}
  BY <1>1 DEF TypeOK, Entry
<1>3. /\ agents' \in Seq(Entry)
      /\ DOMAIN agents' \subseteq 1..(Len(agents) + 1)
      /\ DOMAIN agents \subseteq DOMAIN agents'
      /\ \A i \in DOMAIN agents : agents'[i] = agents[i]
      /\ \A i \in DOMAIN agents' : i \in DOMAIN agents \/ agents'[i] = e
  <2>1. agents' = Append(agents, e) \/ agents' = agents
    BY DEF IndexAppend
  <2> HIDE DEF e
  <2>2. CASE agents' = agents
    BY <1>1, <2>2
  <2>3. CASE agents' = Append(agents, e)
    <3>1. agents' \in Seq(Entry) /\ DOMAIN agents' = 1..(Len(agents) + 1)
          /\ agents'[Len(agents) + 1] = e
          /\ \A i \in 1..Len(agents) : agents'[i] = agents[i]
      BY <1>1, <1>2, <2>3
    <3> QED
      BY <1>1, <3>1
  <2> QED
    BY <2>1, <2>2, <2>3
<1> HIDE DEF e
<1>4. TypeOK'
  BY <1>1, <1>3, TypesKept DEF TypeOK
<1>5. Clocked'
  BY <1>1 DEF IInv, Clocked, Live
<1>6. Owned'
  <2>1. Owned /\ session[owner[l]].state = "live"
    BY <1>1 DEF IInv, Owned, Live
  <2>2. \A i \in DOMAIN agents' : session[agents'[i].session].state # "new"
    <3> SUFFICES ASSUME NEW i \in DOMAIN agents'
                 PROVE  session[agents'[i].session].state # "new"
      OBVIOUS
    <3>1. CASE i \in DOMAIN agents
      <4>1. session[agents[i].session].state # "new" /\ agents'[i] = agents[i]
        BY <1>3, <2>1, <3>1 DEF Owned
      <4> QED
        BY <4>1
    <3>2. CASE agents'[i] = e
      BY <1>2, <2>1, <3>2
    <3>3. CASE i \in DOMAIN agents \/ agents'[i] = e
      BY <3>1, <3>2, <3>3
    <3> QED
      BY <1>3, <3>3
  <2> QED
    BY <1>1, <2>1, <2>2 DEF Owned, Live
<1>7. Scripts'
  <2> SUFFICES ASSUME NEW d \in Session PROVE ScriptOf(d)'
    BY DEF Scripts
  <2>1. ScriptOf(d) /\ (Live(d)' <=> Live(d)) /\ (Outstanding(d)' <=> Outstanding(d))
    BY <1>1 DEF IInv, Scripts, Outstanding, Live
  <2> QED
    BY <1>1, <1>3, <2>1 DEF ScriptOf
<1>8. "idle" \notin faults' => JudgedGoneIsGone'
  BY <1>1 DEF IInv, JudgedGoneIsGone, Live
<1>9. Orderly' => Dated'
  <2> SUFFICES ASSUME Orderly PROVE Dated'
    BY <1>1 DEF Orderly
  <2>1. Dated
    BY DEF IInv
  <2>2. Launched' = Launched /\ \A k, at : IsLaunchOf(k, at)' <=> IsLaunchOf(k, at)
    BY <1>1 DEF Launched, IsLaunchOf
  <2>3. IsLaunchOf(l, now)
    BY <1>1, <2>1 DEF Dated
  <2>4. \A a \in DOMAIN agents' : \A k \in agents'[a].ids : IsLaunchOf(k, agents'[a].at)
    <3> SUFFICES ASSUME NEW a \in DOMAIN agents', NEW k \in agents'[a].ids
                 PROVE  IsLaunchOf(k, agents'[a].at)
      OBVIOUS
    <3>1. CASE a \in DOMAIN agents
      <4>1. agents'[a] = agents[a]
        BY <1>3, <3>1
      <4> QED
        BY <2>1, <3>1, <4>1 DEF Dated
    <3>2. CASE agents'[a] = e
      BY <1>2, <2>3, <3>2
    <3>3. CASE a \in DOMAIN agents \/ agents'[a] = e
      BY <3>1, <3>2, <3>3
    <3> QED
      BY <1>3, <3>3
  <2>5. \A a \in DOMAIN agents' : \A k \in agents'[a].ids : IsLaunchOf(k, agents[a].at)'
    BY <1>1, <2>2, <2>4 DEF IsLaunchOf
  <2>6. \A k \in index' : IsLaunchOf(k, now)'
    BY <1>1, <2>1, <2>2 DEF Dated
  <2>7. \A c \in Session : rec'[c].pc = "stale" =>
            IsLaunchOf(rec[c].target, rec[c].launchAt)'
    BY <1>1, <2>1, <2>2 DEF Dated
  <2> QED
    BY <1>1, <2>1, <2>2, <2>5, <2>6, <2>7 DEF Dated
<1> QED
  BY <1>4, <1>5, <1>6, <1>7, <1>8, <1>9 DEF IInv

-----------------------------------------------------------------------------
LEMMA InitIInv == Init => IInv
<1> SUFFICES ASSUME Init PROVE IInv
  OBVIOUS
<1>1. 0 \in Clock
  BY BoundsAssumption DEF Clock
<1>2. TypeOK
  BY <1>1 DEF Init, TypeOK, Recovery
<1>3. Launched = {}
  BY DEF Init, Launched
<1>4. Clocked /\ Owned /\ Scripts /\ JudgedGoneIsGone
  BY DEF Init, Clocked, Owned, Scripts, ScriptOf, JudgedGoneIsGone, RecIdle, Live
<1>5. Dated
  BY <1>3 DEF Init, Dated, RecIdle
<1> QED
  BY <1>2, <1>4, <1>5 DEF IInv

LEMMA StepIInv == IInv /\ [Next]_vars => IInv'
<1> SUFFICES ASSUME IInv, [Next]_vars PROVE IInv'
  OBVIOUS
<1>1. ASSUME NEW c \in Session, RecoveryStep(c) PROVE IInv'
  BY <1>1, ReadEntryKeeps, ReadLaunchedKeeps, JudgeTranscriptKeeps, PreCheckKeeps,
     EvidenceBindKeeps, HelperAppendKeeps DEF RecoveryStep
<1>2. ASSUME NEW s \in Session, SessionStart(s) \/ SessionDies(s) PROVE IInv'
  BY <1>2, SessionStartKeeps, SessionDiesKeeps
<1>3. ASSUME NEW s \in Session, NEW l \in Launch, LaunchTask(s, l) PROVE IInv'
  BY <1>3, LaunchTaskKeeps
<1>4. ASSUME NEW s \in Session, NEW t \in Launch \cup {NoLaunch}, RecoverStart(s, t)
      PROVE  IInv'
  BY <1>4, RecoverStartKeeps
<1>5. ASSUME NEW l \in Launch, IndexAppend(l) \/ AgentEnds(l) \/ AgentMerges(l)
      PROVE  IInv'
  BY <1>5, IndexAppendKeeps, AgentEndsKeeps, AgentMergesKeeps
<1>6. CASE Tick
  BY <1>6, TickKeeps
<1>7. CASE UNCHANGED vars
  <2>1. TypeOK' /\ Clocked' /\ Owned'
    BY <1>7, TypesKept DEF vars, IInv, TypeOK, Clocked, Owned, Live
  <2>2. Scripts' /\ ("idle" \notin faults' => JudgedGoneIsGone')
    BY <1>7 DEF vars, IInv, Scripts, ScriptOf, JudgedGoneIsGone, Live, Outstanding
  <2>3. Orderly' => Dated'
    BY <1>7 DEF vars, IInv, Orderly, Dated, IsLaunchOf, Launched
  <2> QED
    BY <2>1, <2>2, <2>3 DEF IInv
<1> QED
  BY <1>1, <1>2, <1>3, <1>4, <1>5, <1>6, <1>7 DEF Next

\* The inductive invariant, under every combination of faults.
THEOREM Invariance == Spec => []IInv
BY InitIInv, StepIInv, PTL DEF Spec

\* Every variable keeps its type: the script's record has what the step it is
\* at needs.
THEOREM Typing == Spec => []TypeOK
<1>1. IInv => TypeOK
  BY DEF IInv
<1> QED
  BY <1>1, Invariance, PTL

-----------------------------------------------------------------------------
(* Whom the helper's line ends *)

\* What a `failed` line ends, by the chain it comes from: with evidence, never
\* a launch that runs; without, at most one that a third session has made.
LEMMA HelperEnds ==
    ASSUME IInv, NoRest, Spaced, NEW c \in Session, HelperAppend(c),
           journal' # journal, LastRuns
    PROVE  /\ rec[c].pc = "orphaned"
           /\ owner[LastLine.by] \notin {c, rec[c].entry.session}
<1> DEFINE l == LastLine.by
           n == Len(journal)
<1>1. /\ TypeOK /\ journal \in Seq(Line) /\ rec[c].pc \in {"orphaned", "stale"}
      /\ LastEvent(journal) = "launched" /\ st[l] = "running"
  BY DEF IInv, TypeOK, HelperAppend, LastRuns
<1>2. journal # <<>> /\ LastLine = journal[n] /\ n \in DOMAIN journal /\ n \in Launched
  <2>1. journal # <<>> /\ journal[n].event = "launched"
    BY <1>1 DEF LastEvent
  <2>2. n \in DOMAIN journal
    BY <1>1, <2>1
  <2> QED
    BY <2>1, <2>2 DEF LastLine, Launched
<1>3. ScriptOf(c) /\ Live(c) /\ ~Outstanding(c)
  BY <1>1 DEF IInv, Scripts, ScriptOf
<1>4. l \in Launch
  <2>1. journal[n] \in Line
    BY <1>1, <1>2
  <2> QED
    BY <1>2, <2>1 DEF Launched, Line
<1>5. owner[l] # c /\ Live(owner[l]) /\ owner[l] \in Session
  BY <1>1, <1>3, <1>4 DEF Outstanding, IInv, Owned, TypeOK
<1>6. CASE rec[c].pc = "orphaned"
  <2>1. ~Live(rec[c].entry.session)
    BY <1>6 DEF IInv, JudgedGoneIsGone, NoRest, TypeOK
  <2> QED
    BY <1>5, <1>6, <2>1
<1>7. CASE rec[c].pc = "stale"
  <2>1. "concurrent" \in faults
    BY <1>3, <1>5 DEF IInv, Clocked
  <2>2. Orderly /\ Dated
    BY <2>1 DEF IInv, TypeOK, Spaced, Orderly
  <2>3. PICK i \in Launched : /\ journal[i].by = rec[c].target
                             /\ journal[i].at = rec[c].launchAt
    BY <1>7, <2>2 DEF Dated, IsLaunchOf
  <2>4. journal[n].at = rec[c].launchAt
    BY <1>7 DEF HelperAppend, StaleLaunchedAppends
  <2>5. i \in 1..n /\ n \in Nat /\ journal[i].at \in Nat
    <3>1. i \in DOMAIN journal /\ journal[i] \in Line
      BY <1>1 DEF Launched
    <3> QED
      BY <1>1, <3>1, BoundsAssumption DEF Line, Clock
  <2>6. ~(i < n)
    <3>1. i < n => journal[i].at + MinRun <= journal[n].at
      BY <1>2, <2>2 DEF Dated
    <3>2. MinRun \in Nat /\ Tolerance \in Nat /\ Tolerance < MinRun
      BY <2>2, BoundsAssumption DEF Orderly
    <3> QED
      BY <2>3, <2>4, <2>5, <3>1, <3>2
  <2>7. l = rec[c].target
    BY <1>2, <2>3, <2>5, <2>6
  <2>8. st[rec[c].target] = "gone"
    BY <1>3, <1>4, <1>7, <2>7, NullAssumption DEF ScriptOf
  <2> QED
    BY <1>1, <2>7, <2>8
<1> QED
  BY <1>1, <1>6, <1>7

\* No recovery ends a launch whose implementer runs, by either reason, but for
\* the one a third session has made: the chain without evidence because its
\* session is gone and this one has none at work, the chain with evidence
\* because the launch whose `at` it compares is the one it has stopped.
THEOREM Recovered == NoRest /\ Spaced => (Spec => RecoveredIsGone)
<1> SUFFICES ASSUME NoRest, Spaced PROVE Spec => RecoveredIsGone
  OBVIOUS
<1>1. IInv /\ [Next]_vars =>
          [\A c \in Session :
              HelperAppend(c) /\ journal' # journal /\ LastRuns =>
                  /\ rec[c].pc = "orphaned"
                  /\ owner[LastLine.by] \notin {c, rec[c].entry.session}]_vars
  BY HelperEnds
<1> QED
  BY <1>1, Invariance, PTL DEF Spec, RecoveredIsGone

-----------------------------------------------------------------------------
(* The Stop hook (TtyReaper): its invariant *)

Entries == [id : Ids, ppid : {0} \cup Pids, start : 0..MaxTick, zombie : BOOLEAN, tty : BOOLEAN]
Links   == [pid : Pids, ppid : {0} \cup Pids, start : 0..MaxTick]

ReadTyped ==
    /\ ReaperTypeOK
    /\ tick \in 1..MaxTick /\ born \in MaxPid..MaxPid + MaxForks /\ changes \in Nat
    /\ twins \subseteq Pids /\ failed \in BOOLEAN
    /\ table \in [Pids -> Entries] /\ listing \in [Pids -> Entries]
    /\ chain \in Seq(Links) /\ targets \in Seq(Pids)
    /\ signalled \in Seq([pid : Pids, id : Ids])

\* The process table is a forest of distinct incarnations under process 1, none of them
\* started after the present tick.
Forest ==
    /\ proc[1].id = 1 /\ proc[1].ppid = 0 /\ proc[Hook].id = Hook
    /\ \A p \in Pids : proc[p].ppid = 0 \/ Readable(proc[p].ppid)
    /\ \A p \in Pids \ {1} : Readable(p) => proc[p].ppid # 0
    /\ \A p \in Pids : ~Readable(p) => proc[p].ppid = 0 /\ ~proc[p].tty
    /\ \A p, q \in Pids : Readable(p) /\ proc[p].id = proc[q].id => p = q
    /\ \A p \in Pids : proc[p].id <= born /\ proc[p].start <= tick

\* The links the walk has read follow one another from the hook on.
Linked ==
    /\ chain # <<>> => chain[1].pid = Hook
    /\ \A j \in 1..Len(chain) : chain[j].pid = 1 <=> chain[j].ppid = 0
    /\ \A j \in 1..Len(chain) : j > 1 => chain[j].pid = chain[j - 1].ppid

\* The walk up the hook's own parents has not yet left the chain at its j-th link.
Attached(j) == \A i \in 1..Len(chain) : i < j => proc[chain[i].pid].ppid = chain[i + 1].pid

\* Where it has not, the parent there is still the one that was read, or process 1.
Descent ==
    \A j \in 1..Len(chain) : Attached(j) => proc[chain[j].pid].ppid \in {1, chain[j].ppid}

Walked == chain # <<>> /\ chain[Len(chain)].ppid = 0

\* What the hook cannot have done yet.
Phases ==
    /\ pc = "walk" => \A p \in Pids : table[p] = Free
    /\ pc \in {"walk", "snap"} => found = {}
    /\ pc \in {"walk", "snap", "links"} => targets = <<>> /\ signalled = <<>> /\ terms = {}
    /\ pc \in {"check", "term"} => targets # <<>>
    /\ pc = "sendkill" => signalled # <<>>
    /\ pc \notin {"walk", "done"} \/ terms # {} => Walked

\* SIGKILL goes where SIGTERM went.
Handles ==
    /\ kills \subseteq terms
    /\ \A i \in DOMAIN signalled : signalled[i].id \in terms
    /\ pc = "sendkill" => fd \in terms

\* No incarnation that was signalled, or is about to be, is on the chain.
Spared ==
    /\ terms \subseteq 1..born
    /\ pc \in {"check", "term"} => fd \in 1..born
    /\ \A p \in Seen : proc[p].id \notin terms /\ (pc \in {"check", "term"} => proc[p].id # fd)

\* What the snapshot puts below the anchor.
Under == {p \in Pids \ {Anchor} : \E n \in 1..MaxPid : Climb(table, p, TRUE)[n] = Anchor}

Chosen ==
    /\ pc = "links" => todo \subseteq Under \ Seen
    /\ found \subseteq Under \ Seen

\* While an incarnation lives it keeps its parent or goes to process 1, and it may give up
\* its terminal.
Constant ==
    /\ \A p \in Pids : listing[p].id # 0 /\ proc[p].id = listing[p].id =>
           /\ proc[p].ppid \in {1, listing[p].ppid}
           /\ proc[p].tty => listing[p].tty
    /\ \A p \in Pids : listing[p].id # 0 /\ table[p].id = listing[p].id =>
           table[p].ppid \in {1, listing[p].ppid}
    /\ \A p \in Pids : listing[p].id <= born /\ table[p].id <= born
    /\ table[1].ppid = 0

\* No recorded incarnation has another process id.
Own == \A p, q \in Pids : table[q].id # 0 /\ proc[p].id = table[q].id => p = q

\* A process that holds the id of a recorded one is that one or started later, if the id
\* was not given out twice within one tick.
Aged ==
    \A p \in Pids \ twins : table[p].id # 0 =>
        /\ table[p].start <= proc[p].start
        /\ table[p].start = proc[p].start => proc[p].id \in {0, table[p].id}

\* If p is still what the snapshot recorded, and that was there when the reading began, it
\* had a terminal then.
HadTerminal(p) == listing[p].id = table[p].id => listing[p].tty

Aimed(i, p) == i = table[p].id /\ HadTerminal(p)
Unread(i)   == \A p \in Pids : table[p].id # i

Stuck ==
    /\ \A p \in found : proc[p].id = table[p].id => HadTerminal(p)
    /\ pc = "check" => LET h == Head(targets) IN
           \/ Aimed(fd, h)
           \/ Unread(fd) /\ (h \in twins \/ table[h].start < proc[h].start)
    /\ pc = "term" => \/ Aimed(fd, Head(targets))
                      \/ Unread(fd) /\ Head(targets) \in twins
    /\ \A i \in terms : \/ \E p \in found : Aimed(i, p)
                        \/ Unread(i) /\ found \cap twins # {}

ReaperInv == /\ ReadTyped /\ Forest /\ Linked /\ Descent /\ Phases /\ Handles
             /\ Spared /\ Chosen /\ Constant /\ Own /\ Aged /\ Stuck

-----------------------------------------------------------------------------
(* What the definitions mean to the provers *)

LEMMA LeastOf ==
    ASSUME NEW S \in SUBSET Nat, S # {}
    PROVE  \E x \in S : \A y \in S : x <= y
<1>1. IsWellFoundedOn(OpToRel(<, Nat), Nat)
  BY NatLessThanWellFounded
<1>2. PICK x \in S : \A y \in S : ~(<<y, x>> \in OpToRel(<, Nat))
  BY <1>1, WFMin
<1>3. ASSUME NEW y \in S
      PROVE  x <= y
  <2>1. ~(y < x)
    BY <1>2 DEF OpToRel
  <2> QED
    BY <2>1
<1> QED
  BY <1>3

LEMMA Numbers ==
    /\ MaxPid \in Nat /\ MaxPid > 2 /\ MaxTick \in Nat /\ MaxTick > 0 /\ MaxForks \in Nat
    /\ 1 \in Pids /\ Anchor \in Pids /\ Hook \in Pids /\ Dynamic \subseteq Pids
    /\ Anchor = 2 /\ Hook = 3 /\ 0 \notin Pids
BY ReaperAssumption DEF Pids, Dynamic, Anchor, Hook

\* A climb is a function of the number of steps.
IsClimb(h, t, p, rule) ==
    /\ h[0] = p
    /\ \A n \in 1..MaxPid : h[n] = Parent(t, h[n - 1], rule)

LEMMA ClimbIs ==
    ASSUME NEW t, NEW p, NEW rule
    PROVE  IsClimb(Climb(t, p, rule), t, p, rule)
<1> DEFINE Rec(h, k) == [n \in 0..k |-> IF n = 0 THEN p ELSE Parent(t, h[n - 1], rule)]
           Bad == {k \in Nat : ~\E h : h = Rec(h, k)}
<1>1. Bad = {}
  <2> SUFFICES ASSUME Bad # {} PROVE FALSE
    OBVIOUS
  <2>1. PICK k \in Bad : \A y \in Bad : k <= y
    <3>1. Bad \subseteq Nat
      OBVIOUS
    <3> HIDE DEF Bad
    <3> QED
      BY <3>1, LeastOf
  <2>2. k # 0
    <3> DEFINE g == [n \in 0..0 |-> p]
    <3>1. g = Rec(g, 0)
      OBVIOUS
    <3> QED
      BY <3>1
  <2>3. PICK h : h = Rec(h, k - 1)
    <3>1. k \in Nat /\ k - 1 \in Nat /\ ~(k <= k - 1)
      BY <2>1, <2>2
    <3>2. k - 1 \notin Bad
      BY <2>1, <3>1
    <3> QED
      BY <3>1, <3>2
  <2> DEFINE g == [n \in 0..k |-> IF n = k THEN Parent(t, h[k - 1], rule) ELSE h[n]]
  <2>4. ASSUME NEW n \in 0..k
        PROVE  g[n] = IF n = 0 THEN p ELSE Parent(t, g[n - 1], rule)
    <3>1. CASE n = k
      BY <2>2, <3>1
    <3>2. CASE n # k
      <4>1. n \in 0..(k - 1) /\ g[n] = h[n]
        BY <2>2, <3>2
      <4>2. h[n] = IF n = 0 THEN p ELSE Parent(t, h[n - 1], rule)
        BY <2>3, <4>1
      <4>3. n # 0 => g[n - 1] = h[n - 1]
        BY <4>1
      <4> QED
        BY <4>1, <4>2, <4>3
    <3> QED
      BY <3>1, <3>2
  <2>5. g = Rec(g, k)
    BY <2>4
  <2> QED
    BY <2>1, <2>5
<1>2. \E h : h = Rec(h, MaxPid)
  BY <1>1, Numbers
<1> DEFINE up == CHOOSE h : h = Rec(h, MaxPid)
<1>3. up = Rec(up, MaxPid)
  BY <1>2
<1>4. Climb(t, p, rule) = up
  BY DEF Climb
<1> HIDE DEF up
<1>5. ASSUME NEW n \in 0..MaxPid
      PROVE  up[n] = IF n = 0 THEN p ELSE Parent(t, up[n - 1], rule)
  BY <1>3
<1>6. 0 \in 0..MaxPid /\ \A n \in 1..MaxPid : n \in 0..MaxPid /\ n # 0
  BY Numbers
<1>7. IsClimb(up, t, p, rule)
  BY <1>5, <1>6 DEF IsClimb
<1> QED
  BY <1>4, <1>7

\* Above nothing there is nothing.
LEMMA NothingAbove ==
    ASSUME NEW t, NEW p, NEW rule, NEW h, IsClimb(h, t, p, rule),
           NEW n \in 0..MaxPid, NEW m \in 0..MaxPid, m <= n, h[n] # 0
    PROVE  h[m] # 0
<1> SUFFICES ASSUME h[m] = 0 PROVE FALSE
  OBVIOUS
<1>1. \A k \in Nat : k >= m /\ k <= n => h[k] = 0
  <2> DEFINE Not == {k \in Nat : k >= m /\ k <= n /\ h[k] # 0}
  <2> SUFFICES ASSUME Not # {} PROVE FALSE
    OBVIOUS
  <2>1. PICK k \in Not : \A y \in Not : k <= y
    <3>1. Not \subseteq Nat
      OBVIOUS
    <3> HIDE DEF Not
    <3> QED
      BY <3>1, LeastOf
  <2>2. k # m /\ k \in 1..MaxPid /\ k - 1 \in Nat /\ k - 1 >= m /\ k - 1 <= n /\ ~(k <= k - 1)
    BY <2>1, Numbers
  <2>3. k - 1 \notin Not
    BY <2>1, <2>2
  <2>4. h[k - 1] = 0
    BY <2>2, <2>3
  <2>5. h[k] = 0
    BY <2>2, <2>4 DEF IsClimb, Parent
  <2> QED
    BY <2>1, <2>5
<1> QED
  BY <1>1

\* What climbs to a process was recorded.
LEMMA ClimbsAreRecorded ==
    ASSUME NEW t, NEW p, NEW rule, NEW n \in 1..MaxPid, NEW a, a # 0, Climb(t, p, rule)[n] = a
    PROVE  p # 0 /\ t[p].id # 0
<1> DEFINE h == Climb(t, p, rule)
<1>1. IsClimb(h, t, p, rule)
  BY ClimbIs
<1>2. h[1] # 0
  BY <1>1, NothingAbove, Numbers
<1>3. h[1] = Parent(t, p, rule)
  BY <1>1, Numbers DEF IsClimb
<1> QED
  BY <1>2, <1>3 DEF Parent

LEMMA DepthsAre == DOMAIN DepthsBelow(table, Anchor) = Under
BY DEF DepthsBelow, Under

\* What hangs below the anchor in the snapshot was read.
LEMMA UnderIsRecorded ==
    ASSUME NEW p \in Under
    PROVE  p \in Pids /\ table[p].id # 0
<1>1. p \in Pids /\ \E n \in 1..MaxPid : Climb(table, p, TRUE)[n] = Anchor
  BY DEF Under
<1>2. PICK n \in 1..MaxPid : Climb(table, p, TRUE)[n] = Anchor
  BY <1>1
<1>3. Anchor # 0
  BY Numbers
<1> QED
  BY <1>1, <1>2, <1>3, ClimbsAreRecorded

\* What is left of the targets is made of what was found.
LEMMA TargetsAre ==
    ASSUME ReadTyped, targets # <<>>
    PROVE  /\ Head(targets) \in found /\ Head(targets) \in Pids
           /\ Tail(targets) \in Seq(Pids) /\ ToSet(Tail(targets)) \subseteq found
<1>1. targets \in Seq(Pids) /\ \A i \in DOMAIN targets : targets[i] \in found
  BY DEF ReadTyped, ReaperTypeOK, ToSet
<1>2. targets[1] \in found /\ targets[1] \in Pids /\ Head(targets) = targets[1]
  BY <1>1
<1>3. Tail(targets) \in Seq(Pids)
  BY <1>1
<1>4. \A i \in DOMAIN Tail(targets) : Tail(targets)[i] \in found
  <2>1. ASSUME NEW i \in DOMAIN Tail(targets)
        PROVE  Tail(targets)[i] = targets[i + 1] /\ i + 1 \in DOMAIN targets
    BY <1>1
  <2> QED
    BY <1>1, <2>1
<1> QED
  BY <1>2, <1>3, <1>4 DEF ToSet

LEMMA Times ==
    ASSUME ReadTyped, NEW p \in Pids
    PROVE  /\ proc[p].start \in Nat /\ proc[p].id \in Nat
           /\ table[p].start \in Nat /\ table[p].id \in Nat
<1>1. /\ proc[p] \in Entries /\ table[p] \in Entries
  BY DEF ReadTyped, ReaperTypeOK, Entries
<1>2. proc[p].start \in 0..MaxTick /\ proc[p].id \in Ids
  BY <1>1 DEF Entries
<1>3. table[p].start \in 0..MaxTick /\ table[p].id \in Ids
  BY <1>1 DEF Entries
<1> QED
  BY <1>2, <1>3, Numbers DEF Ids

-----------------------------------------------------------------------------
(* A process exits, is reaped, is killed or redirects its input *)

Keeps(q) ==
    \/ proc'[q].ppid = proc[q].ppid
    \/ proc[q].ppid # 0 /\ proc'[q].ppid = 1

Fades(x) ==
    /\ x \in Pids \ {1, Hook}
    /\ \A q \in Pids : /\ proc'[q].start = proc[q].start
                       /\ proc'[q].tty => proc[q].tty
                       /\ q # x => proc'[q].id = proc[q].id /\ Keeps(q)
    /\ \/ proc'[x].id = proc[x].id /\ Keeps(x)
       \/ /\ proc'[x].id = 0 /\ proc'[x].ppid = 0 /\ ~proc'[x].tty
          /\ \A q \in Pids : proc'[q].ppid # x

LEMMA DeathIs ==
    ASSUME ReadTyped, NEW x \in Pids
    PROVE  /\ Dies(proc, x) \in [Pids -> Entries]
           /\ \A q \in Pids :
                 /\ Dies(proc, x)[q].id = proc[q].id
                 /\ Dies(proc, x)[q].start = proc[q].start
                 /\ Dies(proc, x)[q].tty => proc[q].tty
                 /\ q = x => Dies(proc, x)[q].ppid = proc[q].ppid
                 /\ q # x => Dies(proc, x)[q].ppid = IF proc[q].ppid = x THEN 1 ELSE proc[q].ppid
<1>1. proc \in [Pids -> Entries]
  BY DEF ReadTyped, ReaperTypeOK, Entries
<1>2. ASSUME NEW q \in Pids
      PROVE  /\ Dies(proc, x)[q] \in Entries
             /\ Dies(proc, x)[q].id = proc[q].id
             /\ Dies(proc, x)[q].start = proc[q].start
             /\ Dies(proc, x)[q].tty => proc[q].tty
             /\ q = x => Dies(proc, x)[q].ppid = proc[q].ppid
             /\ q # x => Dies(proc, x)[q].ppid = IF proc[q].ppid = x THEN 1 ELSE proc[q].ppid
  <2>1. proc[q] \in Entries
    BY <1>1
  <2>2. CASE q = x
    <3>1. Dies(proc, x)[q] = [proc[q] EXCEPT !.zombie = TRUE, !.tty = FALSE]
      BY <2>2 DEF Dies
    <3> QED
      BY <2>1, <2>2, <3>1 DEF Entries
  <2>3. CASE q # x /\ proc[q].ppid = x
    <3>1. Dies(proc, x)[q] = [proc[q] EXCEPT !.ppid = 1]
      BY <2>3 DEF Dies
    <3> QED
      BY <2>1, <2>3, <3>1, Numbers DEF Entries
  <2>4. CASE q # x /\ proc[q].ppid # x
    <3>1. Dies(proc, x)[q] = proc[q]
      BY <2>4 DEF Dies
    <3> QED
      BY <2>1, <2>4, <3>1
  <2> QED
    BY <2>2, <2>3, <2>4
<1>3. Dies(proc, x) = [q \in Pids |-> Dies(proc, x)[q]]
  BY DEF Dies
<1> QED
  BY <1>2, <1>3

LEMMA KillFades ==
    ASSUME ReadTyped, NEW x \in Pids \ {1, Hook}, proc' = Dies(proc, x)
    PROVE  Fades(x) /\ proc' \in [Pids -> Entries]
<1>1. ASSUME NEW q \in Pids
      PROVE  /\ proc'[q].start = proc[q].start /\ proc'[q].id = proc[q].id
             /\ proc'[q].tty => proc[q].tty
             /\ Keeps(q)
  <2>1. /\ proc'[q].start = proc[q].start /\ proc'[q].id = proc[q].id
        /\ proc'[q].tty => proc[q].tty
    BY DeathIs
  <2>2. Keeps(q)
    BY DeathIs, Numbers DEF Keeps
  <2> QED
    BY <2>1, <2>2
<1> QED
  BY <1>1, DeathIs DEF Fades

LEMMA ExitFades ==
    ASSUME ReadTyped, NEW p \in Pids, NEW reaped \in BOOLEAN, Exit(p, reaped)
    PROVE  Fades(p) /\ proc' \in [Pids -> Entries]
<1>1. p \in Pids \ {1, Hook}
  BY DEF Exit
<1>2. proc \in [Pids -> Entries]
  BY DEF ReadTyped, ReaperTypeOK, Entries
<1>3. CASE ~reaped
  BY <1>1, <1>3, KillFades DEF Exit
<1>4. CASE reaped
  <2> DEFINE d == Dies(proc, p)
             f == Process(0, 0, proc[p].start, FALSE)
  <2>1. proc' = [d EXCEPT ![p] = f]
    BY <1>4 DEF Exit
  <2>2. f \in Entries /\ f.id = 0 /\ f.ppid = 0 /\ f.start = proc[p].start /\ f.tty = FALSE
    <3>1. proc[p].start \in 0..MaxTick
      BY <1>2 DEF Entries
    <3> QED
      BY <3>1, Numbers DEF Process, Entries, Ids
  <2>3. /\ d \in [Pids -> Entries]
        /\ \A q \in Pids :
              /\ d[q].id = proc[q].id /\ d[q].start = proc[q].start /\ (d[q].tty => proc[q].tty)
              /\ q # p => d[q].ppid = IF proc[q].ppid = p THEN 1 ELSE proc[q].ppid
    BY DeathIs
  <2> HIDE DEF d, f
  <2>4. proc' \in [Pids -> Entries] /\ proc'[p] = f /\ \A q \in Pids : q # p => proc'[q] = d[q]
    BY <2>1, <2>2, <2>3
  <2>5. ASSUME NEW q \in Pids
        PROVE  /\ proc'[q].start = proc[q].start
               /\ proc'[q].tty => proc[q].tty
               /\ q # p => proc'[q].id = proc[q].id /\ Keeps(q)
               /\ proc'[q].ppid # p
    <3>1. CASE q = p
      BY <2>2, <2>4, <3>1, Numbers
    <3>2. CASE q # p
      <4>1. /\ proc'[q] = d[q] /\ d[q].id = proc[q].id /\ d[q].start = proc[q].start
            /\ d[q].tty => proc[q].tty
            /\ d[q].ppid = IF proc[q].ppid = p THEN 1 ELSE proc[q].ppid
        BY <2>3, <2>4, <3>2
      <4>2. Keeps(q) /\ proc'[q].ppid # p
        BY <1>1, <4>1, Numbers DEF Keeps
      <4> QED
        BY <4>1, <4>2
    <3> QED
      BY <3>1, <3>2
  <2>6. proc'[p].id = 0 /\ proc'[p].ppid = 0 /\ ~proc'[p].tty
    BY <2>2, <2>4
  <2> QED
    BY <1>1, <2>4, <2>5, <2>6 DEF Fades
<1> QED
  BY <1>3, <1>4

LEMMA RedirectFades ==
    ASSUME ReadTyped, NEW p \in Pids, Redirect(p)
    PROVE  Fades(p) /\ proc' \in [Pids -> Entries]
<1> DEFINE e == [proc[p] EXCEPT !.tty = FALSE]
<1>1. proc \in [Pids -> Entries] /\ proc[p] \in Entries
  BY DEF ReadTyped, ReaperTypeOK, Entries
<1>2. p \in Pids \ {1, Hook}
  BY Numbers DEF Redirect, Dynamic
<1>3. proc' = [proc EXCEPT ![p] = e]
  BY <1>1 DEF Redirect
<1>4. /\ e \in Entries /\ e.tty = FALSE
      /\ e.id = proc[p].id /\ e.ppid = proc[p].ppid /\ e.start = proc[p].start
  BY <1>1 DEF Entries
<1> HIDE DEF e
<1>5. proc' \in [Pids -> Entries] /\ proc'[p] = e /\ \A q \in Pids : q # p => proc'[q] = proc[q]
  BY <1>1, <1>3, <1>4
<1>6. ASSUME NEW q \in Pids
      PROVE  /\ proc'[q].start = proc[q].start /\ proc'[q].id = proc[q].id
             /\ proc'[q].tty => proc[q].tty
             /\ Keeps(q)
  <2>1. CASE q = p
    BY <1>4, <1>5, <2>1 DEF Keeps
  <2>2. CASE q # p
    BY <1>5, <2>2 DEF Keeps
  <2> QED
    BY <2>1, <2>2
<1> QED
  BY <1>2, <1>5, <1>6 DEF Fades

LEMMA FadeForest ==
    ASSUME ReadTyped, Forest, NEW x \in Pids, Fades(x), UNCHANGED <<tick, born>>
    PROVE  Forest'
<1>1. /\ proc'[1].id = 1 /\ proc'[1].ppid = 0 /\ proc'[Hook].id = Hook
  BY Numbers DEF Forest, Fades, Keeps
<1>2. ASSUME NEW p \in Pids
      PROVE  proc'[p].ppid = 0 \/ proc'[proc'[p].ppid].id # 0
  <2>1. proc[p].ppid \in {0} \cup Pids
    BY DEF ReadTyped, ReaperTypeOK
  <2>2. CASE proc'[p].ppid \in {0, 1}
    BY <1>1, <2>2, Numbers
  <2>3. CASE proc'[p].ppid \notin {0, 1}
    <3>1. proc'[p].ppid = proc[p].ppid
      BY <2>3 DEF Fades, Keeps
    <3>2. proc[p].ppid \in Pids /\ proc[proc[p].ppid].id # 0
      BY <2>1, <2>3, <3>1 DEF Forest, Readable
    <3>3. proc'[proc[p].ppid].id = proc[proc[p].ppid].id
      BY <3>1, <3>2 DEF Fades
    <3> QED
      BY <3>1, <3>2, <3>3
  <2> QED
    BY <2>2, <2>3
<1>3. \A p \in Pids \ {1} : proc'[p].id # 0 => proc'[p].ppid # 0
  BY DEF Forest, Readable, Fades, Keeps
<1>4. \A p \in Pids : proc'[p].id = 0 => proc'[p].ppid = 0 /\ ~proc'[p].tty
  BY DEF Forest, Readable, Fades, Keeps
<1>5. ASSUME NEW p \in Pids, NEW q \in Pids, proc'[p].id # 0, proc'[p].id = proc'[q].id
      PROVE  p = q
  <2>1. proc'[p].id = proc[p].id /\ proc'[q].id = proc[q].id
    BY <1>5 DEF Fades
  <2> QED
    BY <1>5, <2>1 DEF Forest, Readable
<1>6. \A p \in Pids : proc'[p].id <= born /\ proc'[p].start <= tick
  <2>1. ASSUME NEW p \in Pids
        PROVE  proc'[p].id \in {0, proc[p].id} /\ proc'[p].start = proc[p].start
    BY DEF Fades
  <2>2. ASSUME NEW p \in Pids
        PROVE  proc[p].id <= born /\ proc[p].start <= tick
    BY DEF Forest
  <2>3. 0 <= born
    BY Numbers DEF ReadTyped
  <2> QED
    BY <2>1, <2>2, <2>3
<1> QED
  BY <1>1, <1>2, <1>3, <1>4, <1>5, <1>6 DEF Forest, Readable

LEMMA Chained ==
    ASSUME ReadTyped, NEW j \in 1..Len(chain)
    PROVE  /\ chain[j].pid \in Pids /\ chain[j].ppid \in {0} \cup Pids
           /\ chain[j].start \in Nat /\ chain[j].pid \in Seen
<1>1. chain \in Seq(Links)
  BY DEF ReadTyped
<1>2. chain[j] \in Links /\ j \in DOMAIN chain
  BY <1>1
<1> QED
  BY <1>2, Numbers DEF Links, Seen, ToSet

\* Only the last link can be the one of process 1.
LEMMA OneIsLast ==
    ASSUME ReadTyped, Linked, NEW i \in 1..Len(chain), NEW j \in 1..Len(chain), i < j
    PROVE  chain[i].pid # 1 /\ chain[i].ppid = chain[i + 1].pid
<1>1. Len(chain) \in Nat /\ i + 1 \in 1..Len(chain) /\ i + 1 > 1 /\ (i + 1) - 1 = i
  BY DEF ReadTyped
<1>2. chain[i + 1].pid = chain[i].ppid
  BY <1>1 DEF Linked
<1>3. chain[i + 1].pid # 0
  BY <1>1, Chained, Numbers
<1> QED
  BY <1>2, <1>3 DEF Linked

\* The hook is first, and it is not 1.
LEMMA HookIsFirst ==
    ASSUME ReadTyped, Linked, NEW j \in 1..Len(chain), chain[j].pid # Hook
    PROVE  j - 1 \in 1..Len(chain) /\ j - 1 < j /\ (j - 1) + 1 = j
<1>1. Len(chain) \in Nat /\ (Len(chain) > 0 => chain # <<>>)
  BY DEF ReadTyped
<1> QED
  BY <1>1 DEF Linked

LEMMA FadeDescent ==
    ASSUME ReadTyped, Forest, Linked, Descent, NEW x \in Pids, Fades(x), UNCHANGED chain
    PROVE  Descent'
<1> SUFFICES ASSUME NEW j \in 1..Len(chain),
                    \A i \in 1..Len(chain) : i < j => proc'[chain[i].pid].ppid = chain[i + 1].pid
             PROVE  proc'[chain[j].pid].ppid \in {1, chain[j].ppid}
  BY DEF Descent, Attached
<1>1. CASE chain[j].pid = 1
  <2>1. chain[j].ppid = 0
    BY <1>1 DEF Linked
  <2>2. proc'[1].ppid = 0
    BY FadeForest, Numbers DEF Forest, Fades, Keeps
  <2> QED
    BY <1>1, <2>1, <2>2
<1>2. CASE chain[j].pid # 1
  <2>1. ASSUME NEW i \in 1..Len(chain), i < j
        PROVE  proc[chain[i].pid].ppid = chain[i + 1].pid
    <3>1. Len(chain) \in Nat /\ i + 1 \in 1..Len(chain) /\ (i + 1 = j \/ i + 1 < j)
      BY <2>1 DEF ReadTyped
    <3>2. chain[i + 1].pid \in Pids \ {1}
      BY <1>2, <3>1, OneIsLast, Chained
    <3>3. proc'[chain[i].pid].ppid = chain[i + 1].pid /\ chain[i].pid \in Pids
      BY <2>1, Chained
    <3>4. Keeps(chain[i].pid) \/ proc'[chain[i].pid].ppid = 0
      BY <3>3 DEF Fades
    <3> QED
      BY <3>2, <3>3, <3>4, Numbers DEF Keeps
  <2>2. proc[chain[j].pid].ppid \in {1, chain[j].ppid}
    BY <2>1 DEF Descent, Attached
  <2>3. chain[j].pid \in Pids /\ chain[j].ppid # 0
    BY <1>2, Chained DEF Linked
  <2>4. proc'[chain[j].pid].ppid # 0
    <3> SUFFICES ASSUME proc'[chain[j].pid].ppid = 0 PROVE FALSE
      OBVIOUS
    <3>1. proc[chain[j].pid].ppid # 0
      BY <2>2, <2>3
    <3>2. chain[j].pid = x /\ \A q \in Pids : proc'[q].ppid # x
      BY <2>3, <3>1 DEF Fades, Keeps
    <3>3. chain[j].pid # Hook
      BY <3>2 DEF Fades
    <3>4. j - 1 \in 1..Len(chain) /\ j - 1 < j /\ (j - 1) + 1 = j
      BY <3>3, HookIsFirst
    <3>5. proc'[chain[j - 1].pid].ppid = chain[j].pid /\ chain[j - 1].pid \in Pids
      BY <3>4, Chained
    <3> QED
      BY <3>2, <3>5
  <2> QED
    BY <2>2, <2>3, <2>4 DEF Fades, Keeps
<1> QED
  BY <1>1, <1>2

\* What the hook has read and what it has done, while the table fades around it.
LEMMA FadeRest ==
    ASSUME ReadTyped, Forest, Phases, Spared, Chosen, Constant, Own, Aged, Stuck,
           NEW x \in Pids, Fades(x), pc' = pc \/ pc' = "kill",
           UNCHANGED <<born, twins, chain, table, listing, found, targets, fd, terms>>
    PROVE  Spared' /\ Constant' /\ Own' /\ Aged' /\ Stuck'
<1>1. Spared'
  <2>1. ASSUME NEW p \in Seen
        PROVE  /\ proc'[p].id \notin terms
               /\ pc' \in {"check", "term"} => proc'[p].id # fd
    <3>1. p \in Pids
      <4>1. PICK i \in DOMAIN chain : p = chain[i].pid
        BY DEF Seen, ToSet
      <4>2. i \in 1..Len(chain)
        BY DEF ReadTyped
      <4> QED
        BY <4>1, <4>2, Chained
    <3>2. proc'[p].id \in {0, proc[p].id}
      BY <3>1 DEF Fades
    <3> QED
      BY <3>2 DEF Spared
  <2> QED
    BY <2>1 DEF Spared, Seen
<1>2. Constant'
  <2>1. ASSUME NEW p \in Pids, listing[p].id # 0, proc'[p].id = listing[p].id
        PROVE  /\ proc'[p].ppid \in {1, listing[p].ppid}
               /\ proc'[p].tty => listing[p].tty
    <3>1. proc[p].id = proc'[p].id
      BY <2>1 DEF Fades
    <3>2. proc[p].ppid \in {1, listing[p].ppid} /\ (proc[p].tty => listing[p].tty)
      BY <2>1, <3>1 DEF Constant
    <3>3. proc'[p].ppid \in {1, proc[p].ppid} /\ (proc'[p].tty => proc[p].tty)
      BY <2>1 DEF Fades, Keeps
    <3> QED
      BY <3>2, <3>3
  <2> QED
    BY <2>1 DEF Constant
<1>3. ASSUME NEW p \in Pids
      PROVE  proc'[p].start = proc[p].start /\ proc'[p].id \in {0, proc[p].id}
  BY DEF Fades
<1>4. Own' /\ Aged'
  BY <1>3 DEF Own, Aged
<1>5. found \subseteq Pids /\ \A p \in found : p \in Under
  BY DEF ReadTyped, ReaperTypeOK, Chosen
<1>6. \A p \in found : proc'[p].id = table[p].id => HadTerminal(p)
  <2>1. ASSUME NEW p \in found
        PROVE  table[p].id # 0
    BY <1>5, UnderIsRecorded
  <2> QED
    BY <1>3, <1>5, <2>1 DEF Stuck
<1>7. pc = "check" => Head(targets) \in Pids
  BY TargetsAre DEF Phases
<1>8. Stuck'
  BY <1>3, <1>6, <1>7 DEF Stuck, Aimed, Unread, HadTerminal
<1> QED
  BY <1>1, <1>2, <1>4, <1>8

-----------------------------------------------------------------------------
(* A process is started *)

LEMMA SeenAre ==
    ASSUME ReadTyped
    PROVE  /\ Seen \subseteq Pids
           /\ \A p \in Seen : \E i \in 1..Len(chain) : p = chain[i].pid
<1>1. ASSUME NEW p \in Seen
      PROVE  \E i \in 1..Len(chain) : p = chain[i].pid
  <2>1. PICK i \in DOMAIN chain : p = chain[i].pid
    BY DEF Seen, ToSet
  <2>2. i \in 1..Len(chain)
    BY DEF ReadTyped
  <2> QED
    BY <2>1, <2>2
<1> QED
  BY <1>1, Chained

LEMMA ForkIs ==
    ASSUME ReadTyped, Forest, NEW parent \in Pids, NEW p \in Pids, NEW tty \in BOOLEAN,
           NEW start \in tick..MaxTick, Fork(parent, p, tty, start)
    PROVE  /\ proc' \in [Pids -> Entries]
           /\ p # Hook /\ p # 1 /\ proc[p].id = 0 /\ parent # p /\ proc[parent].id # 0
           /\ proc'[p].id = born + 1 /\ proc'[p].ppid = parent /\ proc'[p].start = start
           /\ \A q \in Pids : q # p => proc'[q] = proc[q]
           /\ born' = born + 1 /\ tick' = start
           /\ born' \in MaxPid..MaxPid + MaxForks /\ tick' \in 1..MaxTick /\ tick <= start
           /\ twins \subseteq twins' /\ twins' \subseteq Pids
           /\ p \in twins' \/ proc[p].start < start
<1> DEFINE e == Process(born + 1, parent, start, tty)
<1>1. proc \in [Pids -> Entries] /\ tick \in 1..MaxTick /\ born \in MaxPid..MaxPid + MaxForks
  BY DEF ReadTyped, ReaperTypeOK, Entries
<1>2. /\ proc[p].id = 0 /\ proc[parent].id # 0 /\ born < MaxPid + MaxForks
      /\ born' = born + 1 /\ tick' = start
      /\ proc' = [proc EXCEPT ![p] = e]
      /\ twins' = IF proc[p].start = start THEN twins \cup {p} ELSE twins
  BY DEF Fork, Readable
<1>3. p # Hook /\ p # 1
  BY <1>2, Numbers DEF Forest
<1>4. born + 1 \in Ids /\ start \in 0..MaxTick /\ born' \in MaxPid..MaxPid + MaxForks /\ tick' \in 1..MaxTick /\ tick <= start
  BY <1>1, <1>2, Numbers DEF Ids
<1>5. e \in Entries /\ e.id = born + 1 /\ e.ppid = parent /\ e.start = start
  BY <1>4 DEF Entries, Process
<1> HIDE DEF e
<1>6. proc' \in [Pids -> Entries] /\ proc'[p] = e /\ \A q \in Pids : q # p => proc'[q] = proc[q]
  BY <1>1, <1>2, <1>5
<1>7. twins \subseteq twins' /\ twins' \subseteq Pids
  BY <1>2 DEF ReadTyped
<1>8. p \in twins' \/ proc[p].start < start
  <2>1. proc[p].start <= tick /\ proc[p].start \in 0..MaxTick
    BY <1>1 DEF Forest, Entries
  <2> QED
    BY <1>1, <1>2, <1>4, <2>1
<1> QED
  BY <1>2, <1>3, <1>4, <1>5, <1>6, <1>7, <1>8

LEMMA ForkForest ==
    ASSUME ReadTyped, Forest, NEW parent \in Pids, NEW p \in Pids, NEW tty \in BOOLEAN,
           NEW start \in tick..MaxTick, Fork(parent, p, tty, start)
    PROVE  Forest'
<1>1. /\ proc' \in [Pids -> Entries] /\ proc \in [Pids -> Entries]
      /\ born \in Nat /\ tick \in Nat /\ start \in Nat
  <2>1. proc' \in [Pids -> Entries]
    BY ForkIs
  <2>2. born \in Nat /\ tick \in Nat /\ start \in Nat
    BY Numbers DEF ReadTyped
  <2> QED
    BY <2>1, <2>2 DEF ReadTyped, ReaperTypeOK, Entries
<1>2. /\ p # Hook /\ p # 1 /\ proc[p].id = 0 /\ parent # p /\ proc[parent].id # 0
      /\ proc'[p].id = born + 1 /\ proc'[p].ppid = parent /\ proc'[p].start = start
      /\ \A q \in Pids : q # p => proc'[q] = proc[q]
      /\ born' = born + 1 /\ tick' = start /\ tick <= start
  BY ForkIs
<1>3. proc'[1].id = 1 /\ proc'[1].ppid = 0 /\ proc'[Hook].id = Hook
  BY <1>2, Numbers DEF Forest
<1>4. ASSUME NEW q \in Pids
      PROVE  /\ proc'[q].ppid = 0 \/ proc'[proc'[q].ppid].id # 0
             /\ q # 1 /\ proc'[q].id # 0 => proc'[q].ppid # 0
             /\ proc'[q].id = 0 => proc'[q].ppid = 0 /\ ~proc'[q].tty
             /\ proc'[q].id <= born' /\ proc'[q].start <= tick'
  <2>1. CASE q = p
    BY <1>1, <1>2, <2>1, Numbers
  <2>2. CASE q # p
    <3>1. /\ proc[q].ppid \in {0} \cup Pids /\ proc[q].id \in Nat /\ proc[q].start \in Nat
          /\ proc'[q] = proc[q]
      BY <1>1, <1>2, <2>2, Numbers DEF Entries, Ids
    <3>2. /\ proc[q].ppid = 0 \/ proc[proc[q].ppid].id # 0
          /\ q # 1 /\ proc[q].id # 0 => proc[q].ppid # 0
          /\ proc[q].id = 0 => proc[q].ppid = 0 /\ ~proc[q].tty
          /\ proc[q].id <= born /\ proc[q].start <= tick
      BY DEF Forest, Readable
    <3>3. proc[q].ppid # 0 => proc[q].ppid \in Pids /\ proc'[proc[q].ppid] = proc[proc[q].ppid]
      BY <1>2, <3>1, <3>2
    <3> QED
      BY <1>1, <1>2, <3>1, <3>2, <3>3
  <2> QED
    BY <2>1, <2>2
<1>5. ASSUME NEW q \in Pids, NEW r \in Pids, proc'[q].id # 0, proc'[q].id = proc'[r].id
      PROVE  q = r
  <2>1. /\ q # p => proc'[q].id = proc[q].id /\ proc[q].id <= born /\ proc[q].id \in Nat
        /\ r # p => proc'[r].id = proc[r].id /\ proc[r].id <= born /\ proc[r].id \in Nat
    BY <1>1, <1>2, Numbers DEF Forest, Entries, Ids
  <2> QED
    BY <1>1, <1>2, <1>5, <2>1 DEF Forest, Readable
<1> QED
  BY <1>3, <1>4, <1>5 DEF Forest, Readable

LEMMA ForkDescent ==
    ASSUME ReadTyped, Forest, Linked, Descent,
           NEW parent \in Pids, NEW p \in Pids, NEW tty \in BOOLEAN,
           NEW start \in tick..MaxTick, Fork(parent, p, tty, start)
    PROVE  Descent'
<1>1. /\ p # Hook /\ proc[p].id = 0 /\ parent # p /\ proc[parent].id # 0
      /\ proc'[p].ppid = parent /\ \A q \in Pids : q # p => proc'[q] = proc[q]
      /\ chain' = chain
  <2>1. chain' = chain
    BY DEF Fork, hookVars
  <2> QED
    BY <2>1, ForkIs
<1> SUFFICES ASSUME NEW j \in 1..Len(chain),
                    \A i \in 1..Len(chain) : i < j => proc'[chain[i].pid].ppid = chain[i + 1].pid
             PROVE  proc'[chain[j].pid].ppid \in {1, chain[j].ppid}
  BY <1>1 DEF Descent, Attached
<1>2. ASSUME NEW i \in 1..Len(chain), i <= j
      PROVE  chain[i].pid # p
  <2> SUFFICES ASSUME chain[i].pid = p PROVE FALSE
    OBVIOUS
  <2>1. i - 1 \in 1..Len(chain) /\ i - 1 < i /\ (i - 1) + 1 = i
    BY <1>1, HookIsFirst
  <2>2. i - 1 < j
    BY <1>2, <2>1 DEF ReadTyped
  <2>3. proc'[chain[i - 1].pid].ppid = p
    BY <2>1, <2>2
  <2>4. chain[i - 1].pid \in Pids
    BY <2>1, Chained
  <2>5. chain[i - 1].pid # p /\ proc[chain[i - 1].pid].ppid = p
    BY <1>1, <2>3, <2>4
  <2>6. proc[chain[i - 1].pid].ppid = 0 \/ Readable(p)
    BY <2>4, <2>5 DEF Forest
  <2> QED
    BY <1>1, <2>5, <2>6, Numbers DEF Readable
<1>3. ASSUME NEW i \in 1..Len(chain), i <= j
      PROVE  proc'[chain[i].pid] = proc[chain[i].pid]
  BY <1>1, <1>2, <1>3, Chained
<1>4. Attached(j) /\ proc'[chain[j].pid] = proc[chain[j].pid]
  BY <1>3 DEF Attached, ReadTyped
<1> QED
  BY <1>4 DEF Descent

LEMMA ForkRest ==
    ASSUME ReadTyped, Forest, Phases, Spared, Chosen, Constant, Own, Aged, Stuck,
           NEW parent \in Pids, NEW p \in Pids, NEW tty \in BOOLEAN,
           NEW start \in tick..MaxTick, Fork(parent, p, tty, start)
    PROVE  Spared' /\ Constant' /\ Own' /\ Aged' /\ Stuck'
<1>1. /\ proc' \in [Pids -> Entries] /\ proc \in [Pids -> Entries]
      /\ listing \in [Pids -> Entries] /\ table \in [Pids -> Entries]
      /\ born \in Nat /\ tick \in Nat /\ start \in Nat
  <2>1. proc' \in [Pids -> Entries]
    BY ForkIs
  <2>2. born \in Nat /\ tick \in Nat /\ start \in Nat
    BY Numbers DEF ReadTyped
  <2> QED
    BY <2>1, <2>2 DEF ReadTyped, ReaperTypeOK, Entries
<1>2. /\ proc[p].id = 0 /\ proc'[p].id = born + 1 /\ proc'[p].start = start
      /\ \A q \in Pids : q # p => proc'[q] = proc[q]
      /\ born' = born + 1 /\ twins \subseteq twins' /\ (p \in twins' \/ proc[p].start < start)
  BY ForkIs
<1>3. UNCHANGED <<pc, chain, table, listing, found, targets, fd, terms>>
  BY DEF Fork, hookVars
<1>4. Spared'
  <2>1. ASSUME NEW q \in Seen
        PROVE  /\ proc'[q].id \notin terms
               /\ pc \in {"check", "term"} => proc'[q].id # fd
    BY <1>1, <1>2, SeenAre DEF Spared
  <2> QED
    BY <1>1, <1>2, <1>3, <2>1 DEF Spared, Seen
<1>5. Constant'
  <2>1. ASSUME NEW q \in Pids, listing[q].id # 0, proc'[q].id = listing[q].id
        PROVE  q # p
    BY <1>1, <1>2, <2>1 DEF Constant, Entries, Ids
  <2>2. \A q \in Pids : listing[q].id <= born' /\ table[q].id <= born'
    BY <1>1, <1>2, Numbers DEF Constant, Entries, Ids
  <2> QED
    BY <1>2, <1>3, <2>1, <2>2 DEF Constant
<1>6. ASSUME NEW q \in Pids
      PROVE  /\ table[q].id # proc'[p].id
             /\ proc[q].start \in Nat /\ table[q].start \in Nat
  <2>1. table[q].id <= born
    BY DEF Constant
  <2> QED
    BY <1>1, <1>2, <2>1, Times
<1>7. Own'
  BY <1>2, <1>3, <1>6 DEF Own
<1>8. Aged'
  <2> SUFFICES ASSUME NEW q \in Pids, q \notin twins', table[q].id # 0
               PROVE  /\ table[q].start <= proc'[q].start
                      /\ table[q].start = proc'[q].start => proc'[q].id \in {0, table[q].id}
    BY <1>3 DEF Aged
  <2>1. table[q].start <= proc[q].start
    BY <1>2 DEF Aged
  <2>2. CASE q = p
    BY <1>1, <1>2, <1>6, <2>1, <2>2
  <2>3. CASE q # p
    BY <1>2, <2>3 DEF Aged
  <2> QED
    BY <2>2, <2>3
<1>9. found \subseteq Pids
  BY DEF ReadTyped, ReaperTypeOK
<1>10. \A q \in found : proc'[q].id = table[q].id => HadTerminal(q)
  BY <1>2, <1>6, <1>9 DEF Stuck
<1>11. ASSUME NEW q \in Pids, table[q].start < proc[q].start
       PROVE  q \in twins' \/ table[q].start < proc'[q].start
  <2>1. CASE q = p
    BY <1>1, <1>2, <1>6, <1>11, <2>1
  <2>2. CASE q # p
    BY <1>2, <1>11, <2>2
  <2> QED
    BY <2>1, <2>2
<1>12. pc = "check" => Head(targets) \in Pids
  BY TargetsAre DEF Phases
<1>13. Stuck'
  BY <1>2, <1>3, <1>10, <1>11, <1>12 DEF Stuck, Aimed, Unread, HadTerminal
<1> QED
  BY <1>4, <1>5, <1>7, <1>8, <1>13

-----------------------------------------------------------------------------
(* The steps of the processes around the hook *)

EnvChange ==
    /\ proc' \in [Pids -> Entries] /\ twins' \subseteq Pids
    /\ born' \in MaxPid..MaxPid + MaxForks /\ tick' \in 1..MaxTick
    /\ stuck' \subseteq stuck /\ changes' \in Nat
    /\ UNCHANGED <<hookVars, terms, kills, failed>>
    /\ Forest' /\ Descent' /\ Spared' /\ Constant' /\ Own' /\ Aged' /\ Stuck'

LEMMA EnvStep ==
    ASSUME ReaperInv, pc # "done", Env
    PROVE  ReaperInv'
<1> USE DEF ReaperInv
<1>1. ASSUME NEW parent \in Pids, NEW p \in Dynamic \cup {Anchor}, NEW tty \in BOOLEAN,
             NEW start \in tick..MaxTick, Fork(parent, p, tty, start)
      PROVE  EnvChange
  <2>1. p \in Pids
    BY Numbers
  <2>2. /\ UNCHANGED <<hookVars, terms, kills, failed>>
        /\ stuck' \subseteq stuck /\ changes' \in Nat
    BY <1>1 DEF Fork, Change, ReadTyped
  <2>3. /\ proc' \in [Pids -> Entries] /\ twins' \subseteq Pids
        /\ born' \in MaxPid..MaxPid + MaxForks /\ tick' \in 1..MaxTick
    BY <1>1, <2>1, ForkIs
  <2>4. Forest' /\ Descent' /\ Spared' /\ Constant' /\ Own' /\ Aged' /\ Stuck'
    BY <1>1, <2>1, ForkForest, ForkDescent, ForkRest
  <2> QED
    BY <2>2, <2>3, <2>4 DEF EnvChange
<1>2. ASSUME NEW p \in Pids, Redirect(p) \/ \E reaped \in BOOLEAN : Exit(p, reaped)
      PROVE  EnvChange
  <2>1. Fades(p) /\ proc' \in [Pids -> Entries]
    BY <1>2, RedirectFades, ExitFades
  <2>2. /\ UNCHANGED <<tick, born, twins, hookVars, terms, kills, failed>>
        /\ stuck' \subseteq stuck /\ changes' \in Nat
    <3>1. changes \in Nat
      BY DEF ReadTyped
    <3>2. CASE Redirect(p)
      BY <3>1, <3>2 DEF Redirect, Change
    <3>3. ASSUME NEW reaped \in BOOLEAN, Exit(p, reaped)
          PROVE  /\ UNCHANGED <<tick, born, twins, hookVars, terms, kills, failed>>
                 /\ stuck' \subseteq stuck /\ changes' \in Nat
      <4>1. UNCHANGED <<tick, born, twins, hookVars, terms, kills, failed>> /\ changes' \in Nat
        BY <3>1, <3>3 DEF Exit, Change
      <4>2. stuck' \subseteq stuck
        BY <3>3 DEF Exit
      <4> QED
        BY <4>1, <4>2
    <3> QED
      BY <1>2, <3>2, <3>3
  <2>3. twins' \subseteq Pids /\ born' \in MaxPid..MaxPid + MaxForks /\ tick' \in 1..MaxTick
    BY <2>2 DEF ReadTyped
  <2>4. Forest' /\ Descent'
    BY <2>1, <2>2, FadeForest, FadeDescent DEF hookVars
  <2>5. Spared' /\ Constant' /\ Own' /\ Aged' /\ Stuck'
    BY <2>1, <2>2, FadeRest DEF hookVars
  <2> QED
    BY <2>1, <2>2, <2>3, <2>4, <2>5 DEF EnvChange
<1>3. EnvChange
  BY <1>1, <1>2 DEF Env
<1>4. ReadTyped'
  BY <1>3 DEF EnvChange, ReadTyped, ReaperTypeOK, hookVars, Entries
<1>5. Linked' /\ Phases' /\ Handles' /\ Chosen'
  BY <1>3 DEF EnvChange, Linked, Phases, Walked, Handles, Chosen, Under, Seen, hookVars
<1> QED
  BY <1>3, <1>4, <1>5 DEF EnvChange

-----------------------------------------------------------------------------
(* The steps of the hook *)

LEMMA LinkIs ==
    ASSUME ReadTyped, Forest, NEW p \in Pids, Readable(p)
    PROVE  /\ Link(p) \in Links /\ Link(p).pid = p /\ Link(p).ppid = proc[p].ppid
           /\ p = 1 <=> Link(p).ppid = 0
<1>1. proc[p].ppid \in {0} \cup Pids /\ proc[p].start \in 0..MaxTick
  BY DEF ReadTyped, ReaperTypeOK
<1>2. p = 1 <=> proc[p].ppid = 0
  BY DEF Forest
<1> QED
  BY <1>1, <1>2 DEF Link, Links

\* One more link.
LEMMA WalkOn ==
    ASSUME ReaperInv, pc = "walk", NEW p \in Pids, Readable(p),
           chain' = Append(chain, Link(p)),
           chain = <<>> => p = Hook,
           chain # <<>> => p = chain[Len(chain)].ppid,
           UNCHANGED <<pc, proc>>
    PROVE  chain' \in Seq(Links) /\ Linked' /\ Descent'
<1> USE DEF ReaperInv
<1> DEFINE n == Len(chain)
           l == Link(p)
<1>1. l \in Links /\ l.pid = p /\ l.ppid = proc[p].ppid /\ (p = 1 <=> l.ppid = 0)
  BY LinkIs
<1>2. chain \in Seq(Links) /\ n \in Nat /\ (chain = <<>> <=> n = 0)
  BY DEF ReadTyped
<1>3. chain' = Append(chain, l)
  OBVIOUS
<1> HIDE DEF l
<1>4. /\ chain' \in Seq(Links) /\ Len(chain') = n + 1
      /\ chain'[n + 1] = l /\ \A i \in 1..n : chain'[i] = chain[i]
  BY <1>1, <1>2, <1>3
<1>5. Linked'
  <2>1. chain'[1].pid = Hook
    BY <1>1, <1>2, <1>4 DEF Linked
  <2>2. ASSUME NEW j \in 1..(n + 1)
        PROVE  /\ chain'[j].pid = 1 <=> chain'[j].ppid = 0
               /\ j > 1 => chain'[j].pid = chain'[j - 1].ppid
    <3>1. CASE j = n + 1
      BY <1>1, <1>2, <1>4, <3>1
    <3>2. CASE j # n + 1
      <4>1. j \in 1..n /\ (j > 1 => j - 1 \in 1..n)
        BY <1>2, <3>2
      <4> QED
        BY <1>4, <4>1 DEF Linked
    <3> QED
      BY <3>1, <3>2
  <2> QED
    BY <1>4, <2>1, <2>2 DEF Linked
<1>6. Descent'
  <2> SUFFICES ASSUME NEW j \in 1..(n + 1),
                      \A i \in 1..(n + 1) : i < j => proc[chain'[i].pid].ppid = chain'[i + 1].pid
               PROVE  proc[chain'[j].pid].ppid \in {1, chain'[j].ppid}
    BY <1>4, SMTT(30) DEF Descent, Attached
  <2>1. CASE j = n + 1
    BY <1>1, <1>4, <2>1
  <2>2. CASE j # n + 1
    <3>1. j \in 1..n
      BY <1>2, <2>2
    <3>2. \A i \in 1..n : i < j => i \in 1..(n + 1) /\ i + 1 \in 1..n
      BY <1>2, <3>1
    <3>3. Attached(j)
      BY <1>4, <3>1, <3>2 DEF Attached
    <3> QED
      BY <1>4, <3>1, <3>3 DEF Descent
  <2> QED
    BY <2>1, <2>2
<1> QED
  BY <1>4, <1>5, <1>6

LEMMA BoundAreIds ==
    ASSUME NEW t \in [Pids -> Entries]
    PROVE  BoundIn(t) \subseteq Ids
<1>1. Below(t, Anchor) \subseteq Pids
  BY DEF Below
<1> QED
  BY <1>1 DEF BoundIn, Entries

LEMMA WalkStep ==
    ASSUME ReaperInv, Walk
    PROVE  ReaperInv'
<1> USE DEF ReaperInv
<1>1. /\ pc = "walk" /\ UNCHANGED <<proc, tick, born, changes, twins, terms, kills, failed>>
      /\ UNCHANGED <<table, found, targets, fd, signalled>>
      /\ found = {} /\ targets = <<>> /\ signalled = <<>> /\ terms = {}
      /\ \A p \in Pids : table[p] = Free
  BY DEF Walk, quiet, envVars, Phases
<1>2. pc' \in {"walk", "done"} => UNCHANGED <<todo, stuck, listing>>
  BY <1>1 DEF Walk, Finish
<1>3. pc' \in {"walk", "snap", "done"}
  BY <1>1 DEF Walk, Finish
<1>4. chain' \in Seq(Links) /\ Linked' /\ Descent' /\ (pc' = "snap" => Walked')
  <2>1. CASE chain = <<>>
    <3>1. chain' = <<Link(Hook)>> /\ pc' = pc
      BY <2>1 DEF Walk
    <3>2. Readable(Hook) /\ Hook \in Pids
      BY Numbers DEF Forest, Readable
    <3>3. chain' = Append(chain, Link(Hook))
      BY <2>1, <3>1
    <3> QED
      BY <1>1, <2>1, <3>1, <3>2, <3>3, WalkOn
  <2> DEFINE last == chain[Len(chain)]
  <2>2. CASE chain # <<>> /\ last.pid # 1 /\ last.ppid # 0
    <3>1. \/ chain' = Append(chain, Link(last.ppid)) /\ pc' = pc /\ Readable(last.ppid)
          \/ chain' = chain /\ pc' = "done"
      BY <2>2 DEF Walk, Finish
    <3>2. CASE chain' = chain /\ pc' = "done"
      BY <1>1, <3>2 DEF Linked, Descent, Attached, ReadTyped
    <3>3. CASE chain' = Append(chain, Link(last.ppid)) /\ pc' = pc /\ Readable(last.ppid)
      <4>1. Len(chain) \in 1..Len(chain)
        BY <2>2 DEF ReadTyped
      <4>2. last.ppid \in Pids
        BY <2>2, <4>1, Chained
      <4>3. chain' \in Seq(Links) /\ Linked' /\ Descent'
        BY <1>1, <2>2, <3>3, <4>2, WalkOn
      <4> QED
        BY <1>1, <3>3, <4>3
    <3> QED
      BY <3>1, <3>2, <3>3
  <2>3. CASE chain # <<>> /\ (last.pid = 1 \/ last.ppid = 0)
    <3>1. chain' = chain
      BY <2>3 DEF Walk
    <3>2. Len(chain) \in 1..Len(chain)
      BY <2>3 DEF ReadTyped
    <3>3. Walked
      BY <2>3, <3>2 DEF Linked, Walked
    <3> QED
      BY <1>1, <3>1, <3>3 DEF Linked, Descent, Attached, Walked, ReadTyped
  <2> QED
    BY <2>1, <2>2, <2>3 DEF Walk
<1>5. /\ todo' \subseteq Pids /\ stuck' \subseteq Ids /\ listing' \in [Pids -> Entries]
      /\ listing' = listing \/ listing' = proc
  <2>1. CASE pc' \in {"walk", "done"}
    BY <1>2, <2>1 DEF ReadTyped, ReaperTypeOK
  <2>2. CASE pc' = "snap"
    <3>1. /\ todo' \subseteq Pids /\ listing' = proc
          /\ stuck' \subseteq BoundIn(proc)
      BY <1>1, <2>2 DEF Walk, Finish
    <3>2. proc \in [Pids -> Entries]
      BY DEF ReadTyped, ReaperTypeOK, Entries
    <3> QED
      BY <3>1, <3>2, BoundAreIds
  <2> QED
    BY <1>3, <2>1, <2>2
<1>6. ReadTyped'
  <2>1. ReaperTypeOK'
    BY <1>1, <1>3, <1>5 DEF ReadTyped, ReaperTypeOK
  <2> QED
    BY <1>1, <1>4, <1>5, <2>1 DEF ReadTyped
<1>7. Forest' /\ Own' /\ Aged'
  BY <1>1 DEF Forest, Readable, Own, Aged
<1>8. Phases' /\ Handles' /\ Spared' /\ Chosen'
  BY <1>1, <1>3, <1>4 DEF Phases, Handles, Spared, Chosen
<1>9. Constant'
  <2>1. ASSUME NEW p \in Pids
        PROVE  table[p].id = 0 /\ table[p].ppid = 0 /\ proc[p].id <= born /\ 0 <= born
    <3>1. table[p].id = 0 /\ table[p].ppid = 0
      BY <1>1 DEF Free, Process
    <3> QED
      BY <3>1, Numbers DEF Forest, ReadTyped
  <2> QED
    BY <1>1, <1>5, <2>1, Numbers DEF Constant
<1>10. Stuck'
  BY <1>1, <1>3 DEF Stuck
<1> QED
  BY <1>4, <1>6, <1>7, <1>8, <1>9, <1>10

\* Any of the steps below leaves the processes and the chain as they are.
LEMMA StillTrue ==
    ASSUME ReaperInv, UNCHANGED <<proc, tick, born, chain>>
    PROVE  Forest' /\ Linked' /\ Descent'
BY DEF ReaperInv, Forest, Readable, Linked, Descent, Attached

LEMMA SnapshotStep ==
    ASSUME ReaperInv, Snapshot
    PROVE  ReaperInv'
<1> USE DEF ReaperInv
<1> DEFINE p == Min(todo)
<1>1. /\ pc = "snap" /\ todo # {} /\ todo' = todo \ {p}
      /\ table' = [table EXCEPT ![p] = proc[p]]
      /\ UNCHANGED <<proc, tick, born, changes, twins, terms, kills, failed>>
      /\ UNCHANGED <<pc, chain, found, targets, fd, signalled, stuck, listing>>
  BY DEF Snapshot, quiet, envVars
<1>2. /\ found = {} /\ targets = <<>> /\ signalled = <<>> /\ terms = {} /\ Walked
  BY <1>1 DEF Phases
<1>3. p \in todo
  <2>1. todo \in SUBSET Nat
    BY Numbers DEF ReadTyped, ReaperTypeOK, Pids
  <2>2. \E x \in todo : \A y \in todo : x <= y
    BY <1>1, <2>1, LeastOf
  <2> QED
    BY <2>2 DEF Min
<1> HIDE DEF p
<1>4. p \in Pids /\ table \in [Pids -> Entries] /\ proc \in [Pids -> Entries]
  BY <1>3 DEF ReadTyped, ReaperTypeOK, Entries
<1>5. /\ table' \in [Pids -> Entries] /\ table'[p] = proc[p]
      /\ \A q \in Pids : q # p => table'[q] = table[q]
  BY <1>1, <1>4
<1>6. Forest' /\ Linked' /\ Descent'
  BY <1>1, StillTrue
<1>7. ReadTyped'
  BY <1>1, <1>5 DEF ReadTyped, ReaperTypeOK
<1>8. Phases' /\ Handles' /\ Spared' /\ Chosen' /\ Stuck'
  BY <1>1, <1>2 DEF Phases, Walked, Handles, Spared, Seen, Chosen, Stuck
<1>9. Constant'
  <2>1. ASSUME NEW q \in Pids
        PROVE  /\ listing[q].id # 0 /\ table'[q].id = listing[q].id =>
                      table'[q].ppid \in {1, listing[q].ppid}
               /\ table'[q].id <= born
    BY <1>4, <1>5 DEF Constant, Forest
  <2>2. table'[1].ppid = 0
    BY <1>5, Numbers DEF Constant, Forest
  <2> QED
    BY <1>1, <2>1, <2>2 DEF Constant
<1>10. Own' /\ Aged'
  <2>1. proc[p].start \in Nat
    BY <1>4, Numbers DEF Entries
  <2> QED
    BY <1>1, <1>4, <1>5, <2>1 DEF Own, Aged, Forest, Readable
<1> QED
  BY <1>6, <1>7, <1>8, <1>9, <1>10

LEMMA DescendStep ==
    ASSUME ReaperInv, Descend
    PROVE  ReaperInv'
<1> USE DEF ReaperInv
<1>1. /\ pc = "snap"
      /\ UNCHANGED <<proc, tick, born, changes, twins, terms, kills, failed>>
      /\ UNCHANGED <<chain, table, found, targets, fd, signalled, stuck, listing>>
  BY DEF Descend, quiet, envVars
<1>2. \/ pc' = "links" /\ todo' = Under \ Seen
      \/ pc' = "done" /\ todo' = todo
  BY DepthsAre DEF Descend, Finish, Excluded
<1>3. /\ found = {} /\ targets = <<>> /\ signalled = <<>> /\ terms = {} /\ Walked
  BY <1>1 DEF Phases
<1>4. Forest' /\ Linked' /\ Descent'
  BY <1>1, StillTrue
<1>5. ReadTyped'
  <2>1. todo' \subseteq Pids
    BY <1>2 DEF Under, ReadTyped, ReaperTypeOK
  <2> QED
    BY <1>1, <1>2, <2>1 DEF ReadTyped, ReaperTypeOK
<1>6. Phases' /\ Handles' /\ Spared' /\ Stuck'
  BY <1>1, <1>2, <1>3 DEF Phases, Walked, Handles, Spared, Seen, Stuck
<1>7. Chosen'
  BY <1>1, <1>2, <1>3 DEF Chosen, Under, Seen
<1>8. Constant' /\ Own' /\ Aged'
  BY <1>1 DEF Constant, Own, Aged
<1> QED
  BY <1>4, <1>5, <1>6, <1>7, <1>8

LEMMA ReadStdinStep ==
    ASSUME ReaperInv, ReadStdin
    PROVE  ReaperInv'
<1> USE DEF ReaperInv
<1>1. /\ pc = "links"
      /\ UNCHANGED <<proc, tick, born, changes, twins, terms, kills, failed>>
      /\ UNCHANGED <<pc, chain, table, targets, fd, signalled, stuck, listing>>
  BY DEF ReadStdin, quiet, envVars
<1>2. PICK p \in todo : /\ todo' = todo \ {p}
                        /\ found' = IF proc[p].tty THEN found \cup {p} ELSE found
  BY DEF ReadStdin
<1>3. /\ targets = <<>> /\ signalled = <<>> /\ terms = {} /\ Walked
  BY <1>1 DEF Phases
<1>4. p \in Under \ Seen /\ p \in Pids /\ table[p].id # 0
  BY <1>1, UnderIsRecorded DEF Chosen
<1>5. Forest' /\ Linked' /\ Descent'
  BY <1>1, StillTrue
<1>6. ReadTyped'
  <2>1. found' \subseteq Pids /\ found \subseteq found'
    BY <1>2, <1>4 DEF ReadTyped, ReaperTypeOK
  <2> QED
    BY <1>1, <1>2, <2>1 DEF ReadTyped, ReaperTypeOK
<1>7. Phases' /\ Handles' /\ Spared'
  BY <1>1, <1>3 DEF Phases, Walked, Handles, Spared, Seen
<1>8. Chosen'
  BY <1>1, <1>2, <1>4 DEF Chosen, Under, Seen
<1>9. Constant' /\ Own' /\ Aged'
  BY <1>1 DEF Constant, Own, Aged
<1>10. ASSUME proc[p].tty, proc[p].id = table[p].id
       PROVE  HadTerminal(p)
  BY <1>4, <1>10 DEF Constant, HadTerminal
<1>11. Stuck'
  BY <1>1, <1>2, <1>3, <1>10 DEF Stuck, HadTerminal, Aimed, Unread
<1> QED
  BY <1>5, <1>6, <1>7, <1>8, <1>9, <1>11

LEMMA OrderStep ==
    ASSUME ReaperInv, Order
    PROVE  ReaperInv'
<1> USE DEF ReaperInv
<1>1. /\ pc = "links" /\ pc' = "open"
      /\ UNCHANGED <<proc, tick, born, changes, twins, terms, kills, failed>>
      /\ UNCHANGED <<chain, table, todo, found, fd, signalled, stuck, listing>>
      /\ targets' \in [1..Cardinality(found) -> found]
  BY DEF Order, quiet, envVars, TargetOrder
<1>2. /\ signalled = <<>> /\ terms = {} /\ Walked
  BY <1>1 DEF Phases
<1>3. Forest' /\ Linked' /\ Descent'
  BY <1>1, StillTrue
<1>4. targets' \in Seq(Pids) /\ ToSet(targets') \subseteq found
  <2>1. IsFiniteSet(Pids)
    BY Numbers, FS_Interval DEF Pids
  <2>2. found \subseteq Pids
    BY DEF ReadTyped, ReaperTypeOK
  <2>3. Cardinality(found) \in Nat
    BY <2>1, <2>2, FS_Subset, FS_CardinalityType
  <2> DEFINE n == Cardinality(found)
             t == targets'
  <2>4. t \in [1..n -> found] /\ n \in Nat
    BY <1>1, <2>3
  <2> HIDE DEF n, t
  <2>5. t \in Seq(found) /\ DOMAIN t = 1..n
    BY <2>4
  <2>6. \A i \in DOMAIN t : t[i] \in found
    BY <2>4, <2>5
  <2>7. t \in Seq(Pids) /\ ToSet(t) \subseteq found
    BY <2>2, <2>5, <2>6 DEF ToSet
  <2> QED
    BY <2>7 DEF t
<1>5. ReadTyped'
  BY <1>1, <1>4 DEF ReadTyped, ReaperTypeOK
<1>6. Phases' /\ Handles' /\ Spared' /\ Chosen'
  BY <1>1, <1>2 DEF Phases, Walked, Handles, Spared, Seen, Chosen, Under
<1>7. Constant' /\ Own' /\ Aged' /\ Stuck'
  BY <1>1, <1>2 DEF Constant, Own, Aged, Stuck, HadTerminal, Aimed, Unread
<1> QED
  BY <1>3, <1>5, <1>6, <1>7

LEMMA ChosenIs ==
    ASSUME ReaperInv, targets # <<>>
    PROVE  /\ Head(targets) \notin Seen /\ table[Head(targets)].id # 0
BY TargetsAre, UnderIsRecorded DEF ReaperInv, Chosen

LEMMA OpenStep ==
    ASSUME ReaperInv, Open
    PROVE  ReaperInv'
<1> USE DEF ReaperInv
<1> DEFINE h == Head(targets)
<1>1. /\ pc = "open" /\ targets # <<>>
      /\ UNCHANGED <<proc, tick, born, changes, twins, terms, kills, failed>>
      /\ UNCHANGED <<chain, table, todo, found, signalled, stuck, listing>>
      /\ \/ proc[h].id # 0 /\ fd' = proc[h].id /\ pc' = "check" /\ targets' = targets
         \/ targets' = Tail(targets) /\ fd' = fd /\ pc' = pc
  BY DEF Open, quiet, envVars, Readable
<1>2. /\ h \in found /\ h \in Pids /\ h \notin Seen /\ table[h].id # 0
      /\ Tail(targets) \in Seq(Pids) /\ ToSet(Tail(targets)) \subseteq found
  BY <1>1, TargetsAre, ChosenIs
<1>3. Walked /\ proc \in [Pids -> Entries] /\ proc[h].id \in Ids
  BY <1>1, <1>2 DEF Phases, ReadTyped, ReaperTypeOK, Entries
<1>4. Forest' /\ Linked' /\ Descent'
  BY <1>1, StillTrue
<1>5. ReadTyped'
  BY <1>1, <1>2, <1>3 DEF ReadTyped, ReaperTypeOK
<1>6. Phases' /\ Handles'
  BY <1>1, <1>3 DEF Phases, Walked, Handles
<1>7. Chosen' /\ Constant' /\ Own' /\ Aged'
  BY <1>1 DEF Chosen, Under, Seen, Constant, Own, Aged
<1>8. Spared'
  <2>1. CASE pc' = "open"
    BY <1>1, <2>1 DEF Spared, Seen
  <2>2. CASE pc' = "check"
    <3>1. proc[h].id # 0 /\ fd' = proc[h].id
      BY <1>1, <2>2
    <3>2. proc[h].id \in 1..born
      <4>1. proc[h].id <= born /\ proc[h].id \in Nat
        BY <1>2, Times DEF Forest
      <4>2. born \in Nat
        BY Numbers DEF ReadTyped
      <4> QED
        BY <3>1, <4>1, <4>2
    <3>3. ASSUME NEW p \in Seen
          PROVE  proc[p].id # fd'
      BY <1>2, <3>1, <3>3, SeenAre DEF Forest, Readable
    <3> QED
      BY <1>1, <2>2, <3>1, <3>2, <3>3 DEF Spared, Seen
  <2> QED
    BY <1>1, <2>1, <2>2
<1>9. Stuck'
  <2>1. CASE pc' = "open"
    BY <1>1, <2>1 DEF Stuck, HadTerminal, Aimed, Unread
  <2>2. CASE pc' = "check"
    <3>1. proc[h].id # 0 /\ fd' = proc[h].id /\ targets' = targets
      BY <1>1, <2>2
    <3>2. table[h].start \in Nat /\ proc[h].start \in Nat
      BY <1>2, Times
    <3>3. CASE fd' = table[h].id
      <4>1. Aimed(fd', h)
        BY <1>2, <3>1, <3>3 DEF Aimed, Stuck
      <4> QED
        BY <1>1, <2>2, <3>1, <4>1 DEF Stuck, HadTerminal, Aimed, Unread
    <3>4. CASE fd' # table[h].id
      <4>1. Unread(fd')
        BY <1>2, <3>1, <3>4 DEF Unread, Own
      <4>2. h \in twins \/ table[h].start < proc[h].start
        BY <1>2, <3>1, <3>2, <3>4 DEF Aged
      <4> QED
        BY <1>1, <2>2, <3>1, <4>1, <4>2 DEF Stuck, HadTerminal, Aimed, Unread
    <3> QED
      BY <3>3, <3>4
  <2> QED
    BY <1>1, <2>1, <2>2
<1> QED
  BY <1>4, <1>5, <1>6, <1>7, <1>8, <1>9

LEMMA CheckStep ==
    ASSUME ReaperInv, Check
    PROVE  ReaperInv'
<1> USE DEF ReaperInv
<1> DEFINE h == Head(targets)
<1>1. /\ pc = "check"
      /\ UNCHANGED <<proc, tick, born, changes, twins, terms, kills, failed>>
      /\ UNCHANGED <<chain, table, todo, found, fd, signalled, stuck, listing>>
      /\ \/ proc[h].start = table[h].start /\ pc' = "term" /\ targets' = targets
         \/ pc' = "open" /\ targets' = Tail(targets)
  BY DEF Check, quiet, envVars, SameProcess
<1>2. targets # <<>> /\ Walked
  BY <1>1 DEF Phases
<1>3. /\ h \in found /\ h \in Pids
      /\ Tail(targets) \in Seq(Pids) /\ ToSet(Tail(targets)) \subseteq found
  BY <1>2, TargetsAre
<1>4. Forest' /\ Linked' /\ Descent'
  BY <1>1, StillTrue
<1>5. ReadTyped'
  BY <1>1, <1>3 DEF ReadTyped, ReaperTypeOK
<1>6. Phases' /\ Handles' /\ Spared'
  BY <1>1, <1>2 DEF Phases, Walked, Handles, Spared, Seen
<1>7. Chosen' /\ Constant' /\ Own' /\ Aged'
  BY <1>1 DEF Chosen, Under, Seen, Constant, Own, Aged
<1>8. Stuck'
  <2>1. CASE pc' = "open"
    BY <1>1, <2>1 DEF Stuck, HadTerminal, Aimed, Unread
  <2>2. CASE pc' = "term"
    <3>1. proc[h].start = table[h].start /\ table[h].start \in Nat /\ targets' = targets
      BY <1>1, <1>3, <2>2, Times
    <3>2. Aimed(fd, h) \/ (Unread(fd) /\ h \in twins)
      BY <1>1, <3>1 DEF Stuck
    <3> QED
      BY <1>1, <2>2, <3>1, <3>2 DEF Stuck, HadTerminal, Aimed, Unread
  <2> QED
    BY <1>1, <2>1, <2>2
<1> QED
  BY <1>4, <1>5, <1>6, <1>7, <1>8

LEMMA SendTermStep ==
    ASSUME ReaperInv, SendTerm
    PROVE  ReaperInv'
<1> USE DEF ReaperInv
<1> DEFINE h == Head(targets)
<1>1. /\ pc = "term" /\ pc' = "open" /\ targets' = Tail(targets)
      /\ UNCHANGED <<proc, tick, born, changes, twins, kills, failed>>
      /\ UNCHANGED <<chain, table, todo, found, fd, stuck, listing>>
      /\ \/ /\ terms' = terms \cup {fd}
            /\ signalled' = Append(signalled, [pid |-> h, id |-> fd])
         \/ terms' = terms /\ signalled' = signalled
  BY DEF SendTerm, envVars
<1>2. targets # <<>> /\ Walked
  BY <1>1 DEF Phases
<1>3. /\ h \in found /\ h \in Pids
      /\ Tail(targets) \in Seq(Pids) /\ ToSet(Tail(targets)) \subseteq found
  BY <1>2, TargetsAre
<1>4. signalled \in Seq([pid : Pids, id : Ids]) /\ fd \in Ids
  BY DEF ReadTyped, ReaperTypeOK
<1>5. terms' \subseteq Ids /\ terms \subseteq terms' /\ terms' \subseteq terms \cup {fd}
  BY <1>1, <1>4 DEF ReadTyped, ReaperTypeOK
<1>6. /\ signalled' \in Seq([pid : Pids, id : Ids])
      /\ \A i \in DOMAIN signalled' : signalled'[i].id \in terms'
  <2>1. CASE terms' = terms /\ signalled' = signalled
    BY <1>4, <2>1 DEF Handles
  <2>2. CASE terms' = terms \cup {fd} /\ signalled' = Append(signalled, [pid |-> h, id |-> fd])
    <3> DEFINE s == [pid |-> h, id |-> fd]
    <3>1. s \in [pid : Pids, id : Ids] /\ s.id = fd /\ signalled' = Append(signalled, s)
      BY <1>3, <1>4, <2>2
    <3> HIDE DEF s
    <3>2. /\ signalled' \in Seq([pid : Pids, id : Ids])
          /\ \A i \in DOMAIN signalled' : i \in DOMAIN signalled \/ signalled'[i] = s
          /\ \A i \in DOMAIN signalled : signalled'[i] = signalled[i]
      BY <1>4, <3>1
    <3> QED
      BY <2>2, <3>1, <3>2 DEF Handles
  <2> QED
    BY <1>1, <2>1, <2>2
<1>7. Forest' /\ Linked' /\ Descent'
  BY <1>1, StillTrue
<1>8. ReadTyped'
  BY <1>1, <1>3, <1>5, <1>6 DEF ReadTyped, ReaperTypeOK
<1>9. Phases' /\ Handles'
  BY <1>1, <1>2, <1>5, <1>6 DEF Phases, Walked, Handles
<1>10. Chosen' /\ Constant' /\ Own' /\ Aged'
  BY <1>1 DEF Chosen, Under, Seen, Constant, Own, Aged
<1>11. Spared'
  BY <1>1, <1>5 DEF Spared, Seen
<1>12. Stuck'
  <2> SUFFICES ASSUME NEW i \in terms'
               PROVE  \/ \E p \in found : Aimed(i, p)
                      \/ Unread(i) /\ found \cap twins # {}
    BY <1>1 DEF Stuck, HadTerminal, Aimed, Unread
  <2>1. CASE i \in terms
    BY <2>1 DEF Stuck
  <2>2. CASE i = fd
    BY <1>1, <1>3, <2>2 DEF Stuck
  <2> QED
    BY <1>5, <2>1, <2>2
<1> QED
  BY <1>7, <1>8, <1>9, <1>10, <1>11, <1>12

LEMMA WaitStep ==
    ASSUME ReaperInv, Wait
    PROVE  ReaperInv'
<1> USE DEF ReaperInv
<1>1. /\ pc = "open" /\ pc' \in {"kill", "done"}
      /\ UNCHANGED <<proc, tick, born, changes, twins, terms, kills, failed>>
      /\ UNCHANGED <<chain, table, todo, found, targets, fd, signalled, stuck, listing>>
  BY DEF Wait, Finish, quiet, envVars
<1>2. Walked
  BY <1>1 DEF Phases
<1>3. Forest' /\ Linked' /\ Descent'
  BY <1>1, StillTrue
<1>4. ReadTyped'
  BY <1>1 DEF ReadTyped, ReaperTypeOK
<1>5. Phases' /\ Handles' /\ Spared'
  BY <1>1, <1>2 DEF Phases, Walked, Handles, Spared, Seen
<1>6. Chosen' /\ Constant' /\ Own' /\ Aged'
  BY <1>1 DEF Chosen, Under, Seen, Constant, Own, Aged
<1>7. Stuck'
  BY <1>1 DEF Stuck, HadTerminal, Aimed, Unread
<1> QED
  BY <1>3, <1>4, <1>5, <1>6, <1>7

\* What is left of the signalled targets still was signalled.
LEMMA SignalledAre ==
    ASSUME ReadTyped, Handles, signalled # <<>>
    PROVE  /\ Head(signalled).id \in terms
           /\ Tail(signalled) \in Seq([pid : Pids, id : Ids])
           /\ \A i \in DOMAIN Tail(signalled) : Tail(signalled)[i].id \in terms
<1>1. signalled \in Seq([pid : Pids, id : Ids]) /\ \A i \in DOMAIN signalled : signalled[i].id \in terms
  BY DEF ReadTyped, Handles
<1>2. Head(signalled) = signalled[1] /\ 1 \in DOMAIN signalled
  BY <1>1
<1>3. Tail(signalled) \in Seq([pid : Pids, id : Ids])
  BY <1>1
<1>4. ASSUME NEW i \in DOMAIN Tail(signalled)
      PROVE  Tail(signalled)[i] = signalled[i + 1] /\ i + 1 \in DOMAIN signalled
  BY <1>1
<1> QED
  BY <1>1, <1>2, <1>3, <1>4

LEMMA CheckAgainStep ==
    ASSUME ReaperInv, CheckAgain
    PROVE  ReaperInv'
<1> USE DEF ReaperInv
<1>1. /\ pc = "kill"
      /\ UNCHANGED <<proc, tick, born, changes, twins, terms, kills, failed>>
      /\ UNCHANGED <<chain, table, todo, found, targets, stuck, listing>>
  BY DEF CheckAgain, quiet, envVars
<1>2. \/ pc' = "done" /\ fd' = fd /\ signalled' = signalled
      \/ /\ signalled # <<>> /\ signalled' = signalled
         /\ pc' = "sendkill" /\ fd' = Head(signalled).id
      \/ /\ signalled # <<>> /\ signalled' = Tail(signalled)
         /\ pc' = pc /\ fd' = fd
  BY DEF CheckAgain, Finish, KillHandle
<1>3. Walked /\ terms \subseteq Ids
  BY <1>1 DEF Phases, ReadTyped, ReaperTypeOK
<1>4. Forest' /\ Linked' /\ Descent'
  BY <1>1, StillTrue
<1>5. /\ signalled' \in Seq([pid : Pids, id : Ids]) /\ fd' \in Ids
      /\ pc' \in {"kill", "sendkill", "done"}
      /\ \A i \in DOMAIN signalled' : signalled'[i].id \in terms
      /\ pc' = "sendkill" => fd' \in terms /\ signalled' # <<>>
  <2>1. /\ signalled \in Seq([pid : Pids, id : Ids]) /\ fd \in Ids
        /\ \A i \in DOMAIN signalled : signalled[i].id \in terms
    BY DEF ReadTyped, ReaperTypeOK, Handles
  <2> QED
    BY <1>1, <1>2, <1>3, <2>1, SignalledAre
<1>6. ReadTyped'
  BY <1>1, <1>5 DEF ReadTyped, ReaperTypeOK
<1>7. Phases' /\ Handles' /\ Spared'
  BY <1>1, <1>3, <1>5 DEF Phases, Walked, Handles, Spared, Seen
<1>8. Chosen' /\ Constant' /\ Own' /\ Aged'
  BY <1>1, <1>5 DEF Chosen, Under, Seen, Constant, Own, Aged
<1>9. Stuck'
  BY <1>1, <1>5 DEF Stuck, HadTerminal, Aimed, Unread
<1> QED
  BY <1>4, <1>6, <1>7, <1>8, <1>9

LEMMA SendKillStep ==
    ASSUME ReaperInv, SendKill
    PROVE  ReaperInv'
<1> USE DEF ReaperInv
<1>1. /\ pc = "sendkill" /\ pc' = "kill" /\ signalled' = Tail(signalled)
      /\ UNCHANGED <<tick, born, changes, twins, chain, table, todo, found,
                     targets, fd, terms, stuck, failed, listing>>
  BY DEF SendKill
<1>2. Walked /\ signalled # <<>> /\ fd \in terms
  BY <1>1 DEF Phases, Handles
<1>3. kills' \subseteq terms /\ terms \subseteq Ids
  BY <1>2 DEF SendKill, Handles, ReadTyped, ReaperTypeOK
<1>4. /\ signalled' \in Seq([pid : Pids, id : Ids])
      /\ \A i \in DOMAIN signalled' : signalled'[i].id \in terms
  BY <1>1, <1>2, SignalledAre
<1>5. /\ proc' \in [Pids -> Entries] /\ Forest' /\ Descent'
      /\ Spared' /\ Constant' /\ Own' /\ Aged' /\ Stuck'
  <2>1. CASE Held(fd)
    <3> DEFINE x == CHOOSE p \in Pids : proc[p].id = fd
    <3>1. x \in Pids /\ proc[x].id = fd /\ proc' = Dies(proc, x)
      BY <2>1 DEF Held, SendKill
    <3> HIDE DEF x
    <3>2. x \notin Seen
      BY <1>2, <3>1 DEF Spared
    <3>3. 1 \in Seen /\ Hook \in Seen
      <4>1. Len(chain) \in 1..Len(chain) /\ 1 \in 1..Len(chain)
        BY <1>2 DEF Walked, ReadTyped
      <4>2. chain[Len(chain)].pid = 1 /\ chain[1].pid = Hook
        BY <1>2, <4>1 DEF Walked, Linked
      <4> QED
        BY <4>1, <4>2, Chained
    <3>4. Fades(x) /\ proc' \in [Pids -> Entries]
      BY <3>1, <3>2, <3>3, KillFades
    <3> QED
      BY <1>1, <3>1, <3>4, FadeForest, FadeDescent, FadeRest
  <2>2. CASE ~Held(fd)
    <3>1. proc' = proc
      BY <2>2 DEF SendKill
    <3>2. proc \in [Pids -> Entries]
      BY DEF ReadTyped, ReaperTypeOK, Entries
    <3>3. Forest' /\ Descent'
      BY <1>1, <3>1, StillTrue
    <3>4. Spared' /\ Constant' /\ Own' /\ Aged' /\ Stuck'
      BY <1>1, <3>1 DEF Spared, Seen, Constant, Own, Aged, Stuck, HadTerminal, Aimed, Unread
    <3> QED
      BY <3>1, <3>2, <3>3, <3>4
  <2> QED
    BY <2>1, <2>2
<1>6. ReadTyped'
  BY <1>1, <1>3, <1>4, <1>5 DEF ReadTyped, ReaperTypeOK, Entries
<1>7. Linked' /\ Phases' /\ Handles' /\ Chosen'
  BY <1>1, <1>2, <1>3, <1>4 DEF Linked, Phases, Walked, Handles, Chosen, Under, Seen
<1> QED
  BY <1>5, <1>6, <1>7

LEMMA ErrorStep ==
    ASSUME ReaperInv, PidfdError
    PROVE  ReaperInv'
<1> USE DEF ReaperInv
<1>1. /\ pc \in {"open", "term", "sendkill"} /\ pc' = "done" /\ failed' = TRUE
      /\ UNCHANGED <<proc, tick, born, changes, twins, chain, table, todo, found, targets,
                     fd, signalled, terms, kills, stuck, listing>>
  BY DEF PidfdError, Finish, envVars
<1>2. Walked
  BY <1>1 DEF Phases
<1>3. Forest' /\ Linked' /\ Descent'
  BY <1>1, StillTrue
<1>4. ReadTyped'
  BY <1>1 DEF ReadTyped, ReaperTypeOK
<1>5. Phases' /\ Handles' /\ Spared'
  BY <1>1, <1>2 DEF Phases, Walked, Handles, Spared, Seen
<1>6. Chosen' /\ Constant' /\ Own' /\ Aged'
  BY <1>1 DEF Chosen, Under, Seen, Constant, Own, Aged
<1>7. Stuck'
  BY <1>1 DEF Stuck, HadTerminal, Aimed, Unread
<1> QED
  BY <1>3, <1>4, <1>5, <1>6, <1>7

LEMMA ProcessIs ==
    ASSUME NEW id, NEW ppid, NEW start, NEW tty
    PROVE  /\ Process(id, ppid, start, tty).id = id /\ Process(id, ppid, start, tty).ppid = ppid
           /\ Process(id, ppid, start, tty).start = start
           /\ Process(id, ppid, start, tty).tty = tty
           /\ id \in Ids /\ ppid \in {0} \cup Pids /\ start \in 0..MaxTick /\ tty \in BOOLEAN =>
                  Process(id, ppid, start, tty) \in Entries
BY DEF Process, Entries

LEMMA ReaperStarts == ReaperInit => ReaperInv
<1> SUFFICES ASSUME ReaperInit PROVE ReaperInv
  OBVIOUS
<1>1. PICK ppid \in [Dynamic -> Pids], up \in Dynamic \cup {Anchor},
           tty \in [Dynamic -> BOOLEAN], used \in SUBSET Dynamic :
         /\ proc = [p \in Pids |->
                       CASE p = 1      -> Process(1, 0, 0, FALSE)
                         [] p = Anchor -> Process(Anchor, 1, 0, TRUE)
                         [] p = Hook   -> Process(Hook, up, 1, TRUE)
                         [] p \in used -> Process(p, ppid[p], 1, tty[p])
                         [] OTHER      -> Free]
         /\ up \in used \cup {Anchor}
         /\ \A p \in used : Readable(ppid[p])
  BY DEF ReaperInit
<1>2. /\ tick = 1 /\ changes = 0 /\ born = MaxPid
      /\ pc = "walk" /\ chain = <<>> /\ table = [p \in Pids |-> Free] /\ todo = {} /\ found = {}
      /\ targets = <<>> /\ fd = 0 /\ signalled = <<>>
      /\ terms = {} /\ kills = {} /\ twins = {} /\ stuck = {} /\ failed = FALSE
      /\ listing = [p \in Pids |-> Free]
  BY DEF ReaperInit
<1>3. Free \in Entries /\ Free.id = 0 /\ Free.ppid = 0 /\ Free.tty = FALSE /\ Free.start = 0
  BY Numbers DEF Free, Process, Entries, Ids
<1> DEFINE first  == Process(1, 0, 0, FALSE)
           anchor == Process(Anchor, 1, 0, TRUE)
           hook   == Process(Hook, up, 1, TRUE)
           Initial(p) == CASE p = 1      -> first
                         [] p = Anchor -> anchor
                         [] p = Hook   -> hook
                         [] p \in used -> Process(p, ppid[p], 1, tty[p])
                         [] OTHER      -> Free
<1>4. ASSUME NEW p \in Pids
      PROVE  proc[p] = Initial(p)
  BY <1>1
<1>5. up \in Pids /\ 1 \in Ids /\ Anchor \in Ids /\ Hook \in Ids /\ used \cap {1, Anchor, Hook} = {}
  BY Numbers DEF Ids, Pids, Dynamic
<1>6. /\ first \in Entries /\ first.id = 1 /\ first.ppid = 0 /\ first.start = 0
      /\ anchor \in Entries /\ anchor.id = Anchor /\ anchor.ppid = 1 /\ anchor.start = 0
      /\ hook \in Entries /\ hook.id = Hook /\ hook.ppid = up /\ hook.start = 1
  BY <1>5, Numbers DEF Process, Entries
<1> HIDE DEF first, anchor, hook
<1>7. ASSUME NEW p \in Pids
      PROVE  /\ proc[p] \in Entries
             /\ proc[p].id \in {0, p} /\ proc[p].start <= 1
             /\ proc[p].id = p <=> p \in {1, Anchor, Hook} \cup used
             /\ p = 1 => proc[p].ppid = 0
             /\ p = Anchor => proc[p].ppid = 1
             /\ p = Hook => proc[p].ppid = up
             /\ p \in used => proc[p].ppid = ppid[p]
             /\ proc[p].id = 0 => proc[p].ppid = 0 /\ ~proc[p].tty
  <2>1. p \in Ids /\ p # 0
    BY Numbers DEF Ids, Pids
  <2>2. CASE p = 1
    <3>1. proc[p] = first
      BY <1>4, <1>5, <2>2, Numbers
    <3> QED
      <4>1. /\ proc[p] \in Entries /\ proc[p].id = p /\ proc[p].start <= 1 /\ p # 0
            /\ p \in {1, Anchor, Hook} /\ p \notin used
        BY <1>5, <1>6, <2>1, <2>2, <3>1, Numbers
      <4> QED
        BY <1>6, <2>2, <3>1, <4>1, Numbers
  <2>3. CASE p = Anchor
    <3>1. proc[p] = anchor
      BY <1>4, <1>5, <2>3, Numbers
    <3> QED
      <4>1. /\ proc[p] \in Entries /\ proc[p].id = p /\ proc[p].start <= 1 /\ p # 0
            /\ p \in {1, Anchor, Hook} /\ p \notin used
        BY <1>5, <1>6, <2>1, <2>3, <3>1, Numbers
      <4> QED
        BY <1>6, <2>3, <3>1, <4>1, Numbers
  <2>4. CASE p = Hook
    <3>1. proc[p] = hook
      BY <1>4, <1>5, <2>4, Numbers
    <3> QED
      <4>1. /\ proc[p] \in Entries /\ proc[p].id = p /\ proc[p].start <= 1 /\ p # 0
            /\ p \in {1, Anchor, Hook} /\ p \notin used
        BY <1>5, <1>6, <2>1, <2>4, <3>1, Numbers
      <4> QED
        BY <1>6, <2>4, <3>1, <4>1, Numbers
  <2>5. CASE p \in used
    <3>1. proc[p] = Process(p, ppid[p], 1, tty[p])
      BY <1>4, <1>5, <2>5
    <3>2. ppid[p] \in Pids /\ tty[p] \in BOOLEAN
      BY <2>5
    <3>3. /\ proc[p] \in Entries /\ proc[p].id = p /\ proc[p].ppid = ppid[p]
          /\ proc[p].start = 1
      BY <2>1, <3>1, <3>2, ProcessIs, Numbers
    <3> QED
      BY <1>5, <2>1, <2>5, <3>3, Numbers
  <2>6. CASE p \notin {1, Anchor, Hook} \cup used
    <3>1. proc[p] = Free
      BY <1>4, <2>6
    <3> QED
      BY <1>3, <2>1, <2>6, <3>1
  <2> QED
    BY <2>2, <2>3, <2>4, <2>5, <2>6
<1>8. proc \in [Pids -> Entries]
  BY <1>1, <1>7
<1>9. ReadTyped
  <2>1. table \in [Pids -> Entries] /\ listing \in [Pids -> Entries]
    BY <1>2, <1>3
  <2>2. 0 \in Ids /\ born \in MaxPid..MaxPid + MaxForks /\ tick \in 1..MaxTick
    BY <1>2, Numbers DEF Ids
  <2>3. ReaperTypeOK
    <3>1. proc \in [Pids -> [id : Ids, ppid : {0} \cup Pids, start : 0..MaxTick,
                             zombie : BOOLEAN, tty : BOOLEAN]]
      BY <1>8 DEF Entries
    <3>2. ToSet(targets) \subseteq found
      BY <1>2 DEF ToSet
    <3> QED
      BY <1>2, <2>2, <3>1, <3>2 DEF ReaperTypeOK
  <2>4. chain \in Seq(Links) /\ targets \in Seq(Pids) /\ signalled \in Seq([pid : Pids, id : Ids])
    BY <1>2
  <2> QED
    BY <1>2, <2>1, <2>2, <2>3, <2>4 DEF ReadTyped
<1>10. Forest
  <2>1. proc[1].id = 1 /\ proc[1].ppid = 0 /\ proc[Hook].id = Hook
    BY <1>7, Numbers
  <2>2. ASSUME NEW p \in Pids
        PROVE  proc[p].ppid = 0 \/ proc[proc[p].ppid].id # 0
    <3>1. CASE p \in used
      <4>1. ppid[p] \in Pids /\ proc[ppid[p]].id # 0
        BY <1>1, <3>1 DEF Readable
      <4> QED
        BY <1>7, <3>1, <4>1
    <3>2. CASE p = Hook
      <4>1. up \in Pids /\ up \in {Anchor} \cup used
        BY <1>1, <1>5
      <4>2. proc[up].id = up
        BY <1>7, <4>1
      <4> QED
        BY <1>7, <3>2, <4>1, <4>2, Numbers
    <3>3. CASE p \notin {Hook} \cup used
      BY <1>7, <2>1, <3>3, Numbers
    <3> QED
      BY <3>1, <3>2, <3>3
  <2>3. ASSUME NEW p \in Pids \ {1}, proc[p].id # 0
        PROVE  proc[p].ppid # 0
    <3>1. p \in {Anchor, Hook} \cup used
      BY <1>7, <2>3
    <3>2. up \in Pids /\ (p \in used => ppid[p] \in Pids)
      BY <1>1, Numbers
    <3> QED
      BY <1>7, <3>1, <3>2, Numbers
  <2>4. ASSUME NEW p \in Pids
        PROVE  proc[p].id <= born /\ proc[p].start <= tick
    BY <1>2, <1>7, Numbers DEF Pids
  <2> QED
    BY <1>7, <2>1, <2>2, <2>3, <2>4 DEF Forest, Readable
<1>11. Linked /\ Descent /\ Phases /\ Handles /\ Spared /\ Chosen
  BY <1>2 DEF Linked, Descent, Phases, Handles, Spared, Chosen, Seen, ToSet
<1>12. Constant /\ Own /\ Aged /\ Stuck
  BY <1>2, <1>3, Numbers DEF Constant, Own, Aged, Stuck
<1> QED
  BY <1>9, <1>10, <1>11, <1>12 DEF ReaperInv

\* The invariant holds of every behaviour
THEOREM ReaperInductive == ReaperSpec => []ReaperInv
<1>1. ReaperInit => ReaperInv
  BY ReaperStarts
<1>2. ReaperInv /\ [ReaperNext]_reaperVars => ReaperInv'
  <2> SUFFICES ASSUME ReaperInv, [ReaperNext]_reaperVars PROVE ReaperInv'
    OBVIOUS
  <2>1. CASE HookStep
    BY <2>1, WalkStep, SnapshotStep, DescendStep, ReadStdinStep, OrderStep, OpenStep,
       CheckStep, SendTermStep, WaitStep, CheckAgainStep, SendKillStep DEF HookStep
  <2>2. CASE PidfdError
    BY <2>2, ErrorStep
  <2>3. CASE pc # "done" /\ Env
    BY <2>3, EnvStep
  <2>4. CASE UNCHANGED reaperVars
    <3>1. Forest' /\ Linked' /\ Descent'
      BY <2>4, StillTrue DEF reaperVars, envVars, hookVars
    <3>2. ReadTyped'
      BY <2>4 DEF reaperVars, envVars, hookVars, ReaperInv, ReadTyped, ReaperTypeOK
    <3>3. Phases' /\ Handles' /\ Spared' /\ Chosen'
      BY <2>4 DEF reaperVars, envVars, hookVars, ReaperInv, Phases, Walked, Handles, Spared,
                  Seen, Chosen, Under
    <3>4. Constant' /\ Own' /\ Aged' /\ Stuck'
      BY <2>4 DEF reaperVars, envVars, hookVars, ReaperInv, Constant, Own, Aged, Stuck, HadTerminal, Aimed, Unread
    <3> QED
      BY <3>1, <3>2, <3>3, <3>4 DEF ReaperInv
  <2> QED
    BY <2>1, <2>2, <2>3, <2>4 DEF ReaperNext
<1> QED
  BY <1>1, <1>2, PTL DEF ReaperSpec

-----------------------------------------------------------------------------
(* What the invariant says of the signals *)

\* Every process the hook still runs under is on its chain.
LEMMA AboveIsSeen ==
    ASSUME ReaperInv, Walked, NEW n \in 0..MaxPid, Climb(proc, Hook, FALSE)[n] # 0
    PROVE  Climb(proc, Hook, FALSE)[n] \in Seen
<1> USE DEF ReaperInv
<1> DEFINE up == Climb(proc, Hook, FALSE)
           On(q) == q = 1 \/ \E j \in 1..Len(chain) : Attached(j) /\ q = chain[j].pid
           Off == {m \in Nat : m <= MaxPid /\ up[m] # 0 /\ ~On(up[m])}
<1>1. IsClimb(up, proc, Hook, FALSE)
  BY ClimbIs
<1> HIDE DEF up
<1>2. Len(chain) \in 1..Len(chain) /\ 1 \in 1..Len(chain) /\ chain[Len(chain)].pid = 1 /\ Len(chain) \in Nat
  <2>1. Len(chain) \in 1..Len(chain) /\ 1 \in 1..Len(chain) /\ Len(chain) \in Nat
    BY DEF Walked, ReadTyped
  <2> QED
    BY <2>1 DEF Walked, Linked
<1>3. Off = {}
  <2> SUFFICES ASSUME Off # {} PROVE FALSE
    OBVIOUS
  <2>1. PICK m \in Off : \A y \in Off : m <= y
    <3>1. Off \subseteq Nat
      OBVIOUS
    <3> HIDE DEF Off
    <3> QED
      BY <3>1, LeastOf
  <2>2. m # 0
    <3>1. Attached(1) /\ chain[1].pid = Hook
      BY <1>2 DEF Attached, Linked, Walked
    <3> QED
      BY <1>1, <1>2, <2>1, <3>1 DEF IsClimb
  <2>3. m \in 1..MaxPid /\ m - 1 \in Nat /\ m - 1 <= MaxPid /\ ~(m <= m - 1)
    BY <2>1, <2>2, Numbers
  <2>4. m - 1 \notin Off
    BY <2>1, <2>3
  <2>5. /\ up[m] = proc[up[m - 1]].ppid /\ up[m - 1] # 0 /\ up[m] # 0
    BY <1>1, <2>1, <2>3 DEF IsClimb, Parent
  <2>6. On(up[m - 1])
    BY <2>3, <2>4, <2>5
  <2>7. On(up[m])
    <3>1. up[m - 1] # 1
      BY <2>5 DEF Forest
    <3>2. PICK j \in 1..Len(chain) : Attached(j) /\ up[m - 1] = chain[j].pid
      BY <2>6, <3>1
    <3>3. up[m] \in {1, chain[j].ppid}
      BY <2>5, <3>2 DEF Descent
    <3>4. CASE up[m] # 1
      <4>1. j + 1 \in 1..Len(chain) /\ j + 1 > 1 /\ (j + 1) - 1 = j
        BY <1>2, <3>1, <3>2
      <4>2. chain[j + 1].pid = up[m]
        BY <3>3, <3>4, <4>1 DEF Linked
      <4>3. Attached(j + 1)
        <5>1. ASSUME NEW i \in 1..Len(chain), i < j + 1
              PROVE  i < j \/ i = j
          BY <5>1
        <5> QED
          BY <2>5, <3>2, <4>2, <5>1 DEF Attached
      <4> QED
        BY <4>1, <4>2, <4>3
    <3> QED
      BY <3>4
  <2> QED
    BY <2>1, <2>7
<1>4. n \in Nat /\ n <= MaxPid
  BY Numbers
<1>5. On(up[n])
  BY <1>3, <1>4 DEF up
<1>6. up[n] \in Seen
  BY <1>2, <1>5, Chained
<1> QED
  BY <1>6 DEF up

\* A process that is not misled was below the anchor when the reading began.
LEMMA WasBelow ==
    ASSUME ReaperInv, NEW p \in Under, ~Misled(p)
    PROVE  /\ p \in Below(listing, Anchor) /\ listing[Anchor].id = Anchor
           /\ listing[p].id = table[p].id
<1> USE DEF ReaperInv
<1>1. p \in Pids \ {Anchor}
  BY DEF Under
<1>2. PICK n \in 1..MaxPid : Climb(table, p, TRUE)[n] = Anchor
  BY DEF Under
<1> DEFINE up == Climb(table, p, TRUE)
           was == Climb(listing, p, FALSE)
<1>3. IsClimb(up, table, p, TRUE) /\ IsClimb(was, listing, p, FALSE) /\ up[n] = Anchor
  BY <1>2, ClimbIs
<1>4. table[Anchor].id = Anchor /\ \A m \in 0..MaxPid : up[m] # 0 => table[up[m]].id = listing[up[m]].id
  BY DEF Misled
<1> HIDE DEF up, was
<1>5. 0 \in 0..MaxPid /\ n \in 0..MaxPid /\ n \in Nat /\ n <= MaxPid
  BY Numbers
<1>6. \A m \in 0..MaxPid : m <= n => up[m] # 0
  BY <1>3, <1>5, NothingAbove, Numbers
<1> DEFINE Off == {m \in Nat : m <= n /\ (was[m] # up[m] \/ up[m] \notin Pids)}
<1>7. Off = {}
  <2> SUFFICES ASSUME Off # {} PROVE FALSE
    OBVIOUS
  <2>1. PICK m \in Off : \A y \in Off : m <= y
    <3>1. Off \subseteq Nat
      OBVIOUS
    <3> HIDE DEF Off
    <3> QED
      BY <3>1, LeastOf
  <2>2. m # 0
    BY <1>1, <1>3, <2>1 DEF IsClimb
  <2>3. /\ m \in 1..MaxPid /\ m \in 0..MaxPid /\ m - 1 \in Nat /\ m - 1 \in 0..MaxPid
        /\ m <= n /\ m - 1 <= n /\ ~(m <= m - 1)
    BY <1>5, <2>1, <2>2, Numbers
  <2>4. m - 1 \notin Off
    BY <2>1, <2>3
  <2> DEFINE q == up[m - 1]
             a == up[m]
  <2>5. was[m - 1] = q /\ q \in Pids
    BY <2>3, <2>4
  <2>6. a = Parent(table, q, TRUE) /\ was[m] = Parent(listing, q, FALSE)
    BY <1>3, <2>3, <2>5 DEF IsClimb
  <2>7. q # 0 /\ a # 0 /\ table[q].id = listing[q].id /\ table[a].id = listing[a].id
    BY <1>4, <1>6, <2>3
  <2> HIDE DEF q, a
  <2>8. table[q].id # 0 /\ table[q].ppid = a /\ table[a].id # 0
    BY <2>6, <2>7 DEF Parent
  <2>9. a # 1
    <3> SUFFICES ASSUME a = 1 PROVE FALSE
      OBVIOUS
    <3>1. m # n
      BY <1>3, Numbers DEF a
    <3>2. m + 1 \in 1..MaxPid /\ m + 1 \in 0..MaxPid /\ m + 1 <= n /\ (m + 1) - 1 = m
      BY <1>5, <2>3, <3>1, Numbers
    <3>3. up[m + 1] = Parent(table, a, TRUE)
      BY <1>3, <3>2 DEF IsClimb, a
    <3>4. up[m + 1] = 0
      BY <3>3 DEF Parent, Constant
    <3> QED
      BY <1>6, <3>2, <3>4
  <2>10. listing[q].ppid = a
    BY <2>5, <2>7, <2>8, <2>9 DEF Constant
  <2>11. was[m] = a
    BY <2>6, <2>7, <2>8, <2>10 DEF Parent
  <2>12. a \in Pids
    BY <2>5, <2>7, <2>8 DEF ReadTyped, Entries
  <2> QED
    BY <2>1, <2>11, <2>12 DEF a
<1>8. was[n] = Anchor
  BY <1>3, <1>5, <1>7
<1>9. p \in Below(listing, Anchor)
  BY <1>1, <1>8 DEF Below, was
<1>10. listing[Anchor].id = Anchor
  BY <1>3, <1>4, <1>5, <1>6
<1>11. listing[p].id = table[p].id
  <2>1. up[0] = p /\ up[0] # 0
    BY <1>3, <1>5, <1>6 DEF IsClimb
  <2> QED
    BY <1>4, <1>5, <2>1
<1> QED
  BY <1>9, <1>10, <1>11

LEMMA OnlyStuckFollows == ReaperInv => OnlyStuckSignalled
<1> SUFFICES ASSUME ReaperInv PROVE OnlyStuckSignalled
  OBVIOUS
<1> USE DEF ReaperInv
<1>1. ASSUME NEW p \in Pids, p = Hook \/ Hook \in Below(proc, p)
      PROVE  proc[p].id \notin terms \cup kills
  <2> SUFFICES ASSUME terms # {} PROVE proc[p].id \notin terms
    BY DEF Handles
  <2>1. Walked
    BY DEF Phases
  <2>2. p \in Seen
    <3>1. CASE p = Hook
      <4>1. 1 \in 1..Len(chain) /\ chain[1].pid = Hook
        BY <2>1 DEF Walked, Linked, ReadTyped
      <4> QED
        BY <3>1, <4>1, Chained
    <3>2. CASE Hook \in Below(proc, p)
      <4>1. PICK n \in 1..MaxPid : Climb(proc, Hook, FALSE)[n] = p
        BY <3>2 DEF Below
      <4>2. n \in 0..MaxPid /\ p # 0
        BY Numbers
      <4> QED
        BY <2>1, <4>1, <4>2, AboveIsSeen
    <3> QED
      BY <1>1, <3>1, <3>2
  <2> QED
    BY <2>2 DEF Spared
<1>2. kills \subseteq terms
  BY DEF Handles
<1>3. ASSUME NEW i \in terms,
             ~\E p \in Pids : table[p].id = i /\ Misled(p),
             ~(found \cap twins # {} /\ \A p \in Pids : table[p].id # i)
      PROVE  i \in BoundIn(listing)
  <2>1. PICK p \in found : table[p].id = i /\ HadTerminal(p)
    BY <1>3 DEF Stuck, Aimed, Unread
  <2>2. p \in Under /\ p \in Pids
    BY UnderIsRecorded DEF Chosen
  <2>3. ~Misled(p)
    BY <1>3, <2>1, <2>2
  <2>4. /\ p \in Below(listing, Anchor) /\ listing[Anchor].id = Anchor
        /\ listing[p].id = table[p].id
    BY <2>2, <2>3, WasBelow
  <2> QED
    BY <2>1, <2>4 DEF BoundIn, HadTerminal
<1> QED
  BY <1>1, <1>2, <1>3 DEF OnlyStuckSignalled

\* The process table, the snapshot and the bookkeeping of the hook have their types
THEOREM ReaperTyping == ReaperSpec => []ReaperTypeOK
<1>1. ReaperInv => ReaperTypeOK
  BY DEF ReaperInv, ReadTyped
<1> QED
  BY <1>1, ReaperInductive, PTL

THEOREM OnlyStuck == ReaperSpec => []OnlyStuckSignalled
BY ReaperInductive, OnlyStuckFollows, PTL

=============================================================================
