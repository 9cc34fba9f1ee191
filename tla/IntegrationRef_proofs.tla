------------------------ MODULE IntegrationRef_proofs ------------------------
(***************************************************************************)
(* Theorems about IntegrationRef, for every set of tasks, documents and    *)
(* conflicts, every number of commits and every way of use.                *)
(***************************************************************************)
EXTENDS IntegrationRef, TLAPS

Atomic == usage.refresh = "atomic"

\* The integration worktree was built for the document in work.
Based == opc \in {"resetting", "refreshed", "edited", "waiting", "locked"}

\* b is a or a later value of the branch.
NotBefore(b, a) == a.anc \subseteq b.anc /\ (b.anc \subseteq a.anc => a = b)

\* Each script that is past flock has the lock.
LockOwned ==
    /\ \A t \in Task : mpc[t] \in {"locked", "swap", "append"} <=> lock = t
    /\ opc = "locked" <=> lock = Orch

\* A document is in work, and is taken up again after an exit 4.
DocInWork == opc # "idle" \/ retried => doc \in Doc

Numbered(c, n) == c.anc \subseteq 0..n /\ Stray \notin c.tree

\* Commits are numbered in order, and none holds a stray item.
AllNumbered ==
    /\ Numbered(ref, made) /\ Numbered(wt, made)
    /\ \A t \in Task : Numbered(tip[t], made) /\ Numbered(new[t], made)

\* c holds exactly the documents of rep, and every task branch that contains c has them.
HasDocs(c, rep, tips) ==
    /\ c.tree \cap Doc = rep \cap Doc
    /\ \A t \in Task : c.anc \subseteq tips[t].anc => rep \cap Doc \subseteq tips[t].tree

\* Whatever the branch is or may be set to holds the documents reported so far.
DocsKept ==
    /\ HasDocs(ref, reported, tip)
    /\ Based => HasDocs(wt, reported, tip)
    /\ \A t \in Task : /\ mpc[t] = "swap" => HasDocs(new[t], reported, tip)
                       /\ tip[t].tree \cap Doc \subseteq reported

\* mode is a way in use.
ModeInUse == mode # "first" => mode \in usage.capture

\* What two task branches share, they have from the integration branch.
SharedByRef ==
    \A t, u \in Task : t # u => tip[t].anc \cap tip[u].anc \subseteq ref.anc

\* A task branch that contains the integration branch has its tree.
TipKeeps == \A t \in Task : IsAncestor(ref, tip[t]) => ref.tree \subseteq tip[t].tree

\* The value merge-task.sh will set is the parent, or it is ahead of it by
\* commits that no other task branch has.
SwapIsAhead ==
    \A t \in Task : mpc[t] = "swap" =>
        /\ ref = par[t]
        /\ new[t] = ref \/ (/\ ref.anc \subseteq new[t].anc /\ ~(new[t].anc \subseteq ref.anc)
                            /\ ref.tree \subseteq new[t].tree
                            /\ IsAncestor(new[t], tip[t]) => new[t].tree \subseteq tip[t].tree
                            /\ \A u \in Task \ {t} : new[t].anc \cap tip[u].anc \subseteq ref.anc)

\* The captured tip is no later than the worktree, and neither later than the branch.
CapturedInOrder ==
    /\ opc = "captured" /\ mode = "first" => NotBefore(ref, expected)
    /\ Based => NotBefore(ref, wt)
    /\ Based /\ mode = "first" => NotBefore(wt, expected)

\* What holds while nothing interferes with git reset --hard.
AtomicInv ==
    /\ SharedByRef /\ TipKeeps /\ SwapIsAhead /\ CapturedInOrder
    /\ opc # "resetting"
    /\ \A t \in Task : mpc[t] = "append" => ref = new[t]
    /\ reported \ Exposed \subseteq ref.tree

\* What was checked out when a script got the lock is on the task branch, and then in
\* the value it will set.
DueKept ==
    \A t \in Task : /\ mpc[t] = "locked" => due[t].anc \subseteq tip[t].anc
                    /\ mpc[t] = "swap" => due[t].anc \subseteq new[t].anc

IInv ==
    /\ TypeOK /\ DocInWork /\ LockOwned /\ AllNumbered /\ DocsKept /\ ModeInUse /\ DueKept
    /\ Atomic => AtomicInv
-----------------------------------------------------------------------------
LEMMA NewCommitType ==
    ASSUME made \in Nat, NEW anc \in SUBSET Nat, NEW tree \in SUBSET Item
    PROVE  NewCommit(anc, tree) \in Commit
BY DEF NewCommit, Commit

LEMMA CommitFields ==
    ASSUME NEW c \in Commit
    PROVE  c.anc \in SUBSET Nat /\ c.tree \in SUBSET Item
BY DEF Commit

LEMMA RootType == Root \in Commit
BY DEF Root, Commit

\* Every step keeps the types.
LEMMA TypeKept == TypeOK /\ DocInWork /\ [Next]_vars => TypeOK' /\ DocInWork'
<1> DEFINE Kept == TypeOK' /\ DocInWork'
<1> SUFFICES ASSUME TypeOK, DocInWork, [Next]_vars PROVE Kept
  OBVIOUS
<1> USE RootType DEF TypeOK, DocInWork
<1>1. ASSUME NEW t \in Task, AgentCommit(t) PROVE Kept
  <2>1. NewCommit(tip[t].anc, tip[t].tree \cup {t}) \in Commit
    BY CommitFields, NewCommitType DEF Item
  <2> QED
    BY <1>1, <2>1 DEF AgentCommit, Make, docs
<1>2. ASSUME NEW t \in Task, Incorporate(t) PROVE Kept
  <2>1. NewCommit(tip[t].anc \cup ref.anc, tip[t].tree \cup ref.tree) \in Commit
    BY CommitFields, NewCommitType
  <2> QED
    BY <1>2, <2>1 DEF Incorporate, Make, docs
<1>3. ASSUME NEW t \in Task, SwitchBranch(t) \/ MergeStart(t) PROVE Kept
  BY <1>3 DEF SwitchBranch, MergeStart, docs
<1>12. ASSUME NEW t \in Task, StrayCommit(t) PROVE Kept
  <2>1. NewCommit(side[t].anc, side[t].tree \cup {Stray}) \in Commit
    BY CommitFields, NewCommitType DEF Item
  <2> QED
    BY <1>12, <2>1 DEF StrayCommit, Make, docs
<1>4. ASSUME NEW t \in Task, MergeDecide(t) PROVE Kept
  <2>1. NewCommit(tip[t].anc \cup ref.anc, tip[t].tree \cup ref.tree) \in Commit
    BY CommitFields, NewCommitType
  <2>2. Merged(MergeSource(t)) \in Commit
    BY <2>1 DEF Merged, MergeSource
  <2> QED
    BY <1>4, <2>2 DEF MergeDecide, Make, docs
<1>5. ASSUME NEW t \in Task, MergeLock(t) \/ MergeConflict(t) \/ MergeSwap(t) \/ MergeDies(t)
      PROVE  Kept
  BY <1>5 DEF MergeLock, TakeLock, CheckedOut, MergeConflict, MergeSwap, MergeDies, Exit, docs
<1>6. ASSUME NEW t \in Task, MergeAppend(t) PROVE Kept
  BY <1>6, CommitFields DEF MergeAppend, Exit, docs, Item
<1>7. CASE CaptureTip \/ SkipCapture
  BY <1>7, UsageAssumption DEF CaptureTip, SkipCapture, TakeUp, mergers, Mode
<1>8. CASE RefreshWorktree \/ RefreshMovesRef \/ WriteDoc \/ CommitStart \/ CommitLock
  BY <1>8 DEF RefreshWorktree, RefreshMovesRef, WriteDoc, CommitStart, CommitLock, mergers
<1>9. CASE CommitStale \/ CommitRefused \/ OrchDies
  BY <1>9 DEF CommitStale, CommitRefused, OrchDies, CommitEnds, mergers, Mode
<1>10. CASE CommitDocs
  <2>1. doc \in Doc
    BY <1>10 DEF CommitDocs
  <2>2. NewCommit(ref.anc, wt.tree \cup {doc}) \in Commit
    BY <2>1, CommitFields, NewCommitType DEF Item
  <2>3. ref' \in Commit /\ made' \in Nat
    BY <1>10, <2>2 DEF CommitDocs, Make
  <2>4. reported' \subseteq Item
    BY <1>10, <2>1 DEF CommitDocs, Item
  <2> QED
    BY <1>10, <2>3, <2>4 DEF CommitDocs, CommitEnds, mergers, Mode
<1>11. CASE UNCHANGED vars
  BY <1>11 DEF vars, mergers, docs
<1> QED
  BY <1>1, <1>2, <1>3, <1>4, <1>5, <1>6, <1>7, <1>8, <1>9, <1>10, <1>11, <1>12
     DEF Next, MergeScript, CommitScript

\* flock excludes: a script past it has the lock until it exits or dies.
LEMMA LockKept == TypeOK /\ LockOwned /\ [Next]_vars => LockOwned'
<1> SUFFICES ASSUME TypeOK, LockOwned, [Next]_vars PROVE LockOwned'
  OBVIOUS
<1> USE LockAssumption DEF TypeOK, LockOwned
<1>1. ASSUME NEW t \in Task, AgentCommit(t) \/ Incorporate(t) \/ SwitchBranch(t) \/ StrayCommit(t)
      PROVE  LockOwned'
  BY <1>1 DEF AgentCommit, Incorporate, SwitchBranch, StrayCommit, docs
<1>2. ASSUME NEW t \in Task, MergeStart(t) \/ MergeDecide(t) PROVE LockOwned'
  BY <1>2 DEF MergeStart, MergeDecide, docs
<1>3. ASSUME NEW t \in Task, MergeLock(t) \/ MergeSwap(t) PROVE LockOwned'
  BY <1>3 DEF MergeLock, TakeLock, MergeSwap, Exit, docs
<1>4. ASSUME NEW t \in Task, MergeConflict(t) \/ MergeAppend(t) \/ MergeDies(t) PROVE LockOwned'
  BY <1>4 DEF MergeConflict, MergeAppend, MergeDies, Exit, docs
<1>5. CASE CaptureTip \/ SkipCapture
  BY <1>5 DEF CaptureTip, SkipCapture, TakeUp, mergers
<1>6. CASE RefreshWorktree \/ RefreshMovesRef \/ WriteDoc \/ CommitStart \/ CommitLock
  BY <1>6 DEF RefreshWorktree, RefreshMovesRef, WriteDoc, CommitStart, CommitLock, mergers
<1>7. CASE CommitStale \/ CommitRefused \/ CommitDocs \/ OrchDies
  BY <1>7 DEF CommitStale, CommitRefused, CommitDocs, OrchDies, CommitEnds, mergers
<1>8. CASE UNCHANGED vars
  BY <1>8 DEF vars, mergers, docs
<1> QED
  BY <1>1, <1>2, <1>3, <1>4, <1>5, <1>6, <1>7, <1>8 DEF Next, MergeScript, CommitScript

\* A new commit takes the next number, and holds what its parents and author give it.
LEMMA NewNumbered ==
    ASSUME made \in Nat, Make, NEW anc \in SUBSET (0..made), NEW tree, Stray \notin tree
    PROVE  Numbered(NewCommit(anc, tree), made')
<1>1. made' = made + 1 /\ 0..made \subseteq 0..(made + 1) /\ made + 1 \in 0..(made + 1)
  BY DEF Make
<1> QED
  BY <1>1 DEF NewCommit, Numbered

LEMMA StillNumbered ==
    ASSUME made \in Nat, Make \/ UNCHANGED made, NEW c, Numbered(c, made)
    PROVE  Numbered(c, made')
BY DEF Make, Numbered

\* Every step keeps the commits numbered.
LEMMA NumbersKept == TypeOK /\ DocInWork /\ AllNumbered /\ [Next]_vars => AllNumbered'
<1> SUFFICES ASSUME TypeOK, DocInWork, AllNumbered, [Next]_vars PROVE AllNumbered'
  OBVIOUS
<1> USE DEF TypeOK
<1>0. /\ Numbered(ref, made) /\ Numbered(wt, made) /\ Numbered(Root, made)
      /\ \A t \in Task : Numbered(tip[t], made) /\ Numbered(new[t], made)
  BY DEF AllNumbered, Numbered, Root
<1>1. ASSUME NEW t \in Task, AgentCommit(t) \/ Incorporate(t) PROVE AllNumbered'
  <2>1. Make /\ ref' = ref /\ wt' = wt /\ new' = new
    BY <1>1 DEF AgentCommit, Incorporate, docs
  <2>2. Numbered(NewCommit(tip[t].anc, tip[t].tree \cup {t}), made')
    BY <2>1, <1>0, NewNumbered, ItemAssumption DEF Numbered
  <2>3. Numbered(NewCommit(tip[t].anc \cup ref.anc, tip[t].tree \cup ref.tree), made')
    BY <2>1, <1>0, NewNumbered DEF Numbered
  <2>4. \A u \in Task : Numbered(tip'[u], made')
    BY <1>1, <1>0, <2>1, <2>2, <2>3, StillNumbered DEF AgentCommit, Incorporate
  <2> QED
    BY <1>0, <2>1, <2>4, StillNumbered DEF AllNumbered
<1>2. ASSUME NEW t \in Task, MergeDecide(t) PROVE AllNumbered'
  <2>1. /\ IF NeedsCommit(tip[t]) THEN Make ELSE UNCHANGED made
        /\ ref' = ref /\ wt' = wt /\ tip' = tip
        /\ new' = [new EXCEPT ![t] = Merged(tip[t])]
    BY <1>2 DEF MergeDecide, MergeSource, docs
  <2>2. Numbered(Merged(tip[t]), made')
    <3>1. CASE NeedsCommit(tip[t])
      <4>1. Merged(tip[t]) = NewCommit(tip[t].anc \cup ref.anc, tip[t].tree \cup ref.tree)
        BY <3>1 DEF NeedsCommit, Merged
      <4> QED
        BY <2>1, <3>1, <4>1, <1>0, NewNumbered DEF Numbered
    <3>2. CASE ~NeedsCommit(tip[t])
      <4>1. Merged(tip[t]) \in {tip[t], ref}
        BY <3>2 DEF NeedsCommit, Merged
      <4> QED
        BY <2>1, <3>2, <4>1, <1>0, StillNumbered
    <3> QED
      BY <3>1, <3>2
  <2> QED
    BY <1>0, <2>1, <2>2, StillNumbered DEF AllNumbered
<1>10. ASSUME NEW t \in Task, StrayCommit(t) PROVE AllNumbered'
  <2>1. Make /\ UNCHANGED <<ref, wt, tip, new>>
    BY <1>10 DEF StrayCommit, docs
  <2> QED
    BY <1>0, <2>1, StillNumbered DEF AllNumbered
<1>3. ASSUME NEW t \in Task, SwitchBranch(t) \/ MergeStart(t) \/ MergeSwap(t) PROVE AllNumbered'
  BY <1>3, <1>0 DEF SwitchBranch, MergeStart, MergeSwap, Exit, docs, AllNumbered
<1>4. ASSUME NEW t \in Task, MergeLock(t) \/ MergeConflict(t) \/ MergeAppend(t) \/ MergeDies(t)
      PROVE  AllNumbered'
  BY <1>4, <1>0 DEF MergeLock, TakeLock, MergeConflict, MergeAppend, MergeDies, Exit, docs, AllNumbered
<1>5. CASE CaptureTip \/ SkipCapture
  BY <1>5, <1>0 DEF CaptureTip, SkipCapture, TakeUp, mergers, AllNumbered
<1>6. CASE RefreshWorktree \/ RefreshMovesRef \/ WriteDoc \/ CommitStart \/ CommitLock
  BY <1>6, <1>0 DEF RefreshWorktree, RefreshMovesRef, WriteDoc, CommitStart, CommitLock,
                    mergers, AllNumbered
<1>7. CASE CommitStale \/ CommitRefused \/ OrchDies
  BY <1>7, <1>0 DEF CommitStale, CommitRefused, OrchDies, CommitEnds, mergers, AllNumbered
<1>8. CASE CommitDocs
  <2>1. doc # Stray
    BY <1>8, ItemAssumption DEF CommitDocs, DocInWork
  <2>2. /\ Make \/ UNCHANGED made
        /\ ref' = ref \/ (Make /\ ref' = NewCommit(ref.anc, wt.tree \cup {doc}))
        /\ wt' = Root /\ tip' = tip /\ new' = new
    BY <1>8 DEF CommitDocs, CommitEnds, mergers
  <2>3. Numbered(ref', made')
    BY <1>0, <2>1, <2>2, NewNumbered, StillNumbered DEF Numbered
  <2> QED
    BY <1>0, <2>2, <2>3, StillNumbered DEF AllNumbered
<1>9. CASE UNCHANGED vars
  BY <1>9, <1>0 DEF vars, mergers, docs, AllNumbered
<1> QED
  BY <1>1, <1>2, <1>3, <1>4, <1>5, <1>6, <1>7, <1>8, <1>9, <1>10 DEF Next, MergeScript, CommitScript

LEMMA Fresh ==
    ASSUME made \in Nat, NEW c, Numbered(c, made), NEW anc, c.anc \subseteq anc \cup {made + 1}
    PROVE  c.anc \subseteq anc
BY DEF Numbered

\* Every step keeps the documents on the branch.
LEMMA DocumentsKept ==
    TypeOK /\ DocInWork /\ LockOwned /\ AllNumbered /\ DocsKept /\ [Next]_vars => DocsKept'
<1> SUFFICES ASSUME TypeOK, DocInWork, LockOwned, AllNumbered, DocsKept, [Next]_vars
             PROVE  DocsKept'
  OBVIOUS
<1> USE DEF TypeOK
<1>0. /\ Numbered(ref, made) /\ Numbered(wt, made)
      /\ \A t \in Task : Numbered(tip[t], made) /\ Numbered(new[t], made)
  BY DEF AllNumbered
<1>1. ASSUME NEW t \in Task, AgentCommit(t) \/ Incorporate(t) PROVE DocsKept'
  <2>1. UNCHANGED <<ref, wt, new, mpc, opc, reported>>
    BY <1>1 DEF AgentCommit, Incorporate, docs
  <2>2. /\ tip[t].tree \subseteq tip'[t].tree
        /\ tip'[t].tree \cap Doc \subseteq reported
        /\ \A u \in Task \ {t} : tip'[u] = tip[u]
    BY <1>1, ItemAssumption DEF AgentCommit, Incorporate, NewCommit, DocsKept, HasDocs
  <2>3. ASSUME NEW c, Numbered(c, made), HasDocs(c, reported, tip)
        PROVE  HasDocs(c, reported, tip')
    <3>1. c.anc \subseteq tip'[t].anc => reported \cap Doc \subseteq tip'[t].tree
      <4>1. CASE AgentCommit(t)
        <5>1. tip'[t].anc = tip[t].anc \cup {made + 1}
          BY <4>1 DEF AgentCommit, NewCommit
        <5>2. c.anc \subseteq tip'[t].anc => c.anc \subseteq tip[t].anc
          BY <5>1, <2>3, Fresh
        <5> QED
          BY <5>2, <2>2, <2>3 DEF HasDocs
      <4>2. CASE Incorporate(t)
        <5>1. ref.tree \subseteq tip'[t].tree
          BY <4>2 DEF Incorporate, NewCommit
        <5> QED
          BY <5>1 DEF DocsKept, HasDocs
      <4> QED
        BY <1>1, <4>1, <4>2
    <3> QED
      BY <3>1, <2>2, <2>3 DEF HasDocs
  <2> QED
    BY <1>0, <2>1, <2>2, <2>3 DEF DocsKept, Based
<1>2. ASSUME NEW t \in Task, MergeDecide(t) PROVE DocsKept'
  <2>1. /\ UNCHANGED <<ref, wt, tip, opc, reported>>
        /\ new' = [new EXCEPT ![t] = Merged(tip[t])]
        /\ mpc' = [mpc EXCEPT ![t] = "swap"]
    BY <1>2 DEF MergeDecide, MergeSource, docs
  <2>2. HasDocs(Merged(tip[t]), reported, tip)
    <3>1. CASE IsAncestor(tip[t], ref)
      BY <3>1 DEF Merged, DocsKept
    <3>2. CASE IsAncestor(ref, tip[t]) /\ ~IsAncestor(tip[t], ref)
      BY <3>2 DEF Merged, DocsKept, HasDocs, IsAncestor
    <3>3. CASE NeedsCommit(tip[t])
      <4>1. /\ Merged(tip[t]).anc = tip[t].anc \cup ref.anc \cup {made + 1}
            /\ Merged(tip[t]).tree = tip[t].tree \cup ref.tree
        BY <3>3 DEF NeedsCommit, Merged, NewCommit
      <4>2. \A u \in Task : made + 1 \notin tip[u].anc
        BY <1>0 DEF Numbered
      <4> QED
        BY <4>1, <4>2 DEF DocsKept, HasDocs
    <3> QED
      BY <3>1, <3>2, <3>3 DEF NeedsCommit
  <2> QED
    BY <2>1, <2>2 DEF DocsKept, Based
<1>3. ASSUME NEW t \in Task, SwitchBranch(t) \/ StrayCommit(t) \/ MergeStart(t) \/ MergeSwap(t) PROVE DocsKept'
  BY <1>3 DEF SwitchBranch, StrayCommit, MergeStart, MergeSwap, Exit, docs, DocsKept, Based
<1>4. ASSUME NEW t \in Task, MergeLock(t) \/ MergeConflict(t) \/ MergeDies(t) PROVE DocsKept'
  BY <1>4 DEF MergeLock, TakeLock, MergeConflict, MergeDies, Exit, docs, DocsKept, Based
<1>5. ASSUME NEW t \in Task, MergeAppend(t) PROVE DocsKept'
  <2>1. /\ UNCHANGED <<ref, wt, tip, opc>>
        /\ reported \subseteq reported'
        /\ reported' \cap Doc = reported \cap Doc
        /\ new' = [new EXCEPT ![t] = Root] /\ mpc' = [mpc EXCEPT ![t] = "idle"]
    BY <1>5, ItemAssumption DEF MergeAppend, Exit, docs
  <2>2. \A c : HasDocs(c, reported, tip) => HasDocs(c, reported', tip)
    BY <2>1 DEF HasDocs
  <2> QED
    BY <2>1, <2>2 DEF DocsKept, Based
<1>6. CASE CaptureTip \/ SkipCapture
  BY <1>6 DEF CaptureTip, SkipCapture, TakeUp, mergers, DocsKept, Based
<1>7. CASE RefreshWorktree \/ RefreshMovesRef \/ WriteDoc \/ CommitStart \/ CommitLock
  BY <1>7 DEF RefreshWorktree, RefreshMovesRef, WriteDoc, CommitStart, CommitLock,
              mergers, DocsKept, Based
<1>8. CASE CommitStale \/ CommitRefused \/ OrchDies
  BY <1>8 DEF CommitStale, CommitRefused, OrchDies, CommitEnds, mergers, DocsKept, Based
<1>9. CASE CommitDocs
  <2>1. /\ opc = "locked" /\ opc' = "idle" /\ doc \in Doc
        /\ UNCHANGED <<tip, mpc, new>>
        /\ reported' = reported \cup {doc}
    BY <1>9 DEF CommitDocs, DocInWork, mergers
  <2>2. \A t \in Task : mpc[t] # "swap"
    BY <2>1, LockAssumption DEF LockOwned
  <2>3. HasDocs(ref, reported, tip) /\ HasDocs(wt, reported, tip)
    BY <2>1 DEF DocsKept, Based
  <2>4. HasDocs(ref', reported', tip)
    <3>1. CASE wt.tree \cup {doc} = ref.tree
      BY <1>9, <3>1, <2>1, <2>3 DEF CommitDocs, HasDocs
    <3>2. CASE wt.tree \cup {doc} # ref.tree
      <4>1. /\ ref'.anc = ref.anc \cup {made + 1}
            /\ ref'.tree = wt.tree \cup {doc}
        BY <1>9, <3>2 DEF CommitDocs, NewCommit
      <4>2. \A u \in Task : made + 1 \notin tip[u].anc
        BY <1>0 DEF Numbered
      <4> QED
        BY <4>1, <4>2, <2>1, <2>3 DEF HasDocs
    <3> QED
      BY <3>1, <3>2
  <2> QED
    BY <2>1, <2>2, <2>4 DEF DocsKept, Based
<1>10. CASE UNCHANGED vars
  BY <1>10 DEF vars, mergers, docs, DocsKept, Based
<1> QED
  BY <1>1, <1>2, <1>3, <1>4, <1>5, <1>6, <1>7, <1>8, <1>9, <1>10
     DEF Next, MergeScript, CommitScript

LEMMA ModeKept == TypeOK /\ ModeInUse /\ [Next]_vars => ModeInUse' /\ usage' = usage
<1> SUFFICES ASSUME TypeOK, ModeInUse, [Next]_vars PROVE ModeInUse' /\ usage' = usage
  OBVIOUS
<1> USE DEF ModeInUse
<1>1. ASSUME NEW t \in Task, AgentCommit(t) \/ Incorporate(t) \/ SwitchBranch(t) \/ StrayCommit(t) \/ MergeStart(t)
      PROVE  ModeInUse' /\ usage' = usage
  BY <1>1 DEF AgentCommit, Incorporate, SwitchBranch, StrayCommit, MergeStart, docs
<1>2. ASSUME NEW t \in Task, MergeScript(t) \/ MergeDies(t)
      PROVE  ModeInUse' /\ usage' = usage
  BY <1>2 DEF MergeScript, MergeLock, TakeLock, MergeDecide, MergeConflict, MergeSwap, MergeAppend,
              MergeDies, docs
<1>3. CASE CaptureTip \/ SkipCapture \/ OrchDies
  BY <1>3 DEF CaptureTip, SkipCapture, TakeUp, OrchDies
<1>4. CASE RefreshWorktree \/ RefreshMovesRef \/ WriteDoc \/ CommitStart
  BY <1>4 DEF RefreshWorktree, RefreshMovesRef, WriteDoc, CommitStart
<1>5. CASE CommitScript
  BY <1>5 DEF CommitScript, CommitLock, CommitStale, CommitRefused, CommitDocs, CommitEnds
<1>6. CASE UNCHANGED vars
  BY <1>6 DEF vars, docs
<1> QED
  BY <1>1, <1>2, <1>3, <1>4, <1>5, <1>6 DEF Next

\* While nothing interferes with git reset --hard, a step takes nothing from
\* the branch but, with a tip that was not captured first, exposed work.
LEMMA RefStep ==
    ASSUME IInv, Atomic, [Next]_vars
    PROVE  /\ NotBefore(ref', ref)
           /\ ref.tree \ ref'.tree \subseteq IF mode = "first" THEN {} ELSE Exposed
<1> USE DEF IInv, AtomicInv, TypeOK
<1>0. UNCHANGED ref => /\ NotBefore(ref', ref)
                       /\ ref.tree \ ref'.tree \subseteq IF mode = "first" THEN {} ELSE Exposed
  BY DEF NotBefore
<1>1. ASSUME NEW t \in Task, AgentCommit(t) \/ Incorporate(t) \/ SwitchBranch(t) \/ StrayCommit(t) \/ MergeStart(t)
      PROVE  UNCHANGED ref
  BY <1>1 DEF AgentCommit, Incorporate, SwitchBranch, StrayCommit, MergeStart
<1>2. ASSUME NEW t \in Task,
             MergeLock(t) \/ MergeDecide(t) \/ MergeConflict(t) \/ MergeAppend(t) \/ MergeDies(t)
      PROVE  UNCHANGED ref
  BY <1>2 DEF MergeLock, TakeLock, MergeDecide, MergeConflict, MergeAppend, MergeDies
<1>3. ASSUME NEW t \in Task, MergeSwap(t)
      PROVE  NotBefore(ref', ref) /\ ref.tree \subseteq ref'.tree
  BY <1>3 DEF MergeSwap, SwapIsAhead, NotBefore
<1>4. CASE \/ CaptureTip \/ SkipCapture \/ RefreshWorktree \/ WriteDoc \/ CommitStart \/ CommitLock
           \/ CommitStale \/ CommitRefused \/ OrchDies \/ UNCHANGED vars
  BY <1>4, <1>0 DEF CaptureTip, SkipCapture, TakeUp, RefreshWorktree, WriteDoc, CommitStart,
                    CommitLock, CommitStale, CommitRefused, OrchDies, vars
<1>5. CASE RefreshMovesRef
  BY <1>5 DEF RefreshMovesRef
<1>6. CASE CommitDocs
  <2>1. /\ opc = "locked" /\ doc \in Doc /\ ~Stale /\ ~StagedOutside
    BY <1>6 DEF CommitDocs, DocInWork
  <2>2. NotBefore(ref', ref)
    <3>1. ref' = ref \/ ref'.anc = ref.anc \cup {made + 1}
      BY <1>6 DEF CommitDocs, NewCommit
    <3>2. made + 1 \notin ref.anc
      BY DEF AllNumbered, Numbered
    <3> QED
      BY <3>1, <3>2 DEF NotBefore
  <2>3. wt.tree \cap ref.tree \subseteq ref'.tree
    BY <1>6 DEF CommitDocs, NewCommit
  <2>4. CASE mode = "first"
    <3>1. expected = ref
      BY <2>1, <2>4 DEF Stale
    <3>2. wt = ref
      BY <2>1, <2>4, <3>1 DEF CapturedInOrder, NotBefore, Based
    <3> QED
      BY <2>2, <2>3, <3>2, <2>4
  <2>5. CASE mode # "first"
    <3>1. Exposed = Task \ CodeTask
      BY <2>5 DEF ModeInUse, Exposed
    <3>2. ref.tree \cap Doc \subseteq wt.tree
      BY <2>1 DEF DocsKept, HasDocs, Based
    <3>3. ref.tree \cap CodeTask \subseteq wt.tree
      BY <2>1 DEF StagedOutside
    <3>4. ref.tree \subseteq Task \cup Doc
      BY CommitFields DEF AllNumbered, Numbered, Item
    <3> QED
      BY <2>2, <2>3, <2>5, <3>1, <3>2, <3>3, <3>4
  <2> QED
    BY <2>4, <2>5
<1> QED
  BY <1>0, <1>1, <1>2, <1>3, <1>4, <1>5, <1>6 DEF Next, MergeScript, CommitScript

LEMMA NotBeforeTransitive ==
    ASSUME NEW a, NEW b, NEW c, NotBefore(c, b), NotBefore(b, a)
    PROVE  NotBefore(c, a)
BY DEF NotBefore

\* No step of a document commit makes a task branch or a pending swap stale.
LEMMA AtomicKeptByDocs ==
    ASSUME IInv, Atomic, UNCHANGED <<usage, mergers>>,
           LockOwned', NotBefore(ref', ref),
           \/ ref' = ref
           \/ ref'.anc = ref.anc \cup {made + 1} /\ lock = Orch
    PROVE  SharedByRef' /\ TipKeeps' /\ SwapIsAhead'
           /\ \A t \in Task : mpc'[t] = "append" => ref' = new'[t]
<1> USE DEF IInv, AtomicInv, TypeOK, mergers
<1>1. CASE ref' = ref
  BY <1>1 DEF SharedByRef, TipKeeps, SwapIsAhead
<1>2. CASE ref'.anc = ref.anc \cup {made + 1} /\ lock = Orch
  <2>1. \A t \in Task : mpc[t] \notin {"swap", "append"}
    BY <1>2, LockAssumption DEF LockOwned
  <2>2. \A t \in Task : made + 1 \notin tip[t].anc
    BY DEF AllNumbered, Numbered
  <2>3. SharedByRef'
    BY <1>2 DEF SharedByRef
  <2>4. TipKeeps'
    BY <1>2, <2>2 DEF TipKeeps, IsAncestor
  <2> QED
    BY <2>1, <2>3, <2>4 DEF SwapIsAhead
<1> QED
  BY <1>1, <1>2

\* Every step keeps what holds while nothing interferes with git reset --hard.
LEMMA AtomicKept ==
    ASSUME IInv, Atomic, [Next]_vars
    PROVE  AtomicInv'
<1> USE DEF IInv, AtomicInv, TypeOK
<1>0. /\ usage' = usage /\ Exposed' = Exposed
      /\ NotBefore(ref', ref)
      /\ ref.tree \ ref'.tree \subseteq Exposed
      /\ TypeOK' /\ LockOwned'
  BY ModeKept, RefStep, TypeKept, LockKept DEF Exposed
<1>1. ASSUME NEW t \in Task, AgentCommit(t) PROVE AtomicInv'
  <2>1. /\ UNCHANGED <<ref, lock, mpc, par, new, docs, reported>>
        /\ tip'[t].anc = tip[t].anc \cup {made + 1}
        /\ tip[t].tree \subseteq tip'[t].tree
        /\ \A u \in Task \ {t} : tip'[u] = tip[u]
    BY <1>1 DEF AgentCommit, NewCommit
  <2>2. /\ made + 1 \notin ref.anc
        /\ \A u \in Task : made + 1 \notin tip[u].anc /\ made + 1 \notin new[u].anc
    BY DEF AllNumbered, Numbered
  <2>3. SharedByRef'
    BY <2>1, <2>2 DEF SharedByRef
  <2>4. TipKeeps'
    BY <2>1, <2>2 DEF TipKeeps, IsAncestor
  <2>5. SwapIsAhead'
    <3>1. ASSUME NEW s \in Task, mpc[s] = "swap", new[s] # ref
          PROVE  /\ IsAncestor(new[s], tip'[s]) => new[s].tree \subseteq tip'[s].tree
                 /\ \A u \in Task \ {s} : new[s].anc \cap tip'[u].anc \subseteq ref.anc
      BY <3>1, <2>1, <2>2 DEF SwapIsAhead, IsAncestor
    <3> QED
      BY <2>1, <3>1 DEF SwapIsAhead
  <2> QED
    BY <1>0, <2>1, <2>3, <2>4, <2>5 DEF docs, CapturedInOrder, Based
<1>2. ASSUME NEW t \in Task, Incorporate(t) PROVE AtomicInv'
  <2>1. /\ UNCHANGED <<ref, lock, mpc, par, new, docs, reported>>
        /\ tip'[t].anc = tip[t].anc \cup ref.anc \cup {made + 1}
        /\ ref.tree \subseteq tip'[t].tree
        /\ \A u \in Task \ {t} : tip'[u] = tip[u]
        /\ mpc[t] = "idle"
    BY <1>2 DEF Incorporate, NewCommit
  <2>2. /\ made + 1 \notin ref.anc
        /\ \A u \in Task : made + 1 \notin tip[u].anc /\ made + 1 \notin new[u].anc
    BY DEF AllNumbered, Numbered
  <2>3. SharedByRef'
    BY <2>1, <2>2 DEF SharedByRef
  <2>4. TipKeeps'
    BY <2>1, <2>2 DEF TipKeeps, IsAncestor
  <2>5. SwapIsAhead'
    <3>1. ASSUME NEW s \in Task, mpc[s] = "swap", new[s] # ref
          PROVE  /\ IsAncestor(new[s], tip'[s]) => new[s].tree \subseteq tip'[s].tree
                 /\ \A u \in Task \ {s} : new[s].anc \cap tip'[u].anc \subseteq ref.anc
      BY <3>1, <2>1, <2>2 DEF SwapIsAhead, IsAncestor
    <3> QED
      BY <2>1, <3>1 DEF SwapIsAhead
  <2> QED
    BY <1>0, <2>1, <2>3, <2>4, <2>5 DEF docs, CapturedInOrder, Based
<1>3. ASSUME NEW t \in Task, MergeDecide(t) PROVE AtomicInv'
  <2>1. /\ UNCHANGED <<ref, tip, docs, reported>>
        /\ new' = [new EXCEPT ![t] = Merged(tip[t])]
        /\ par' = [par EXCEPT ![t] = ref] /\ mpc' = [mpc EXCEPT ![t] = "swap"]
    BY <1>3 DEF MergeDecide, MergeSource
  <2>2. \/ Merged(tip[t]) = ref
        \/ /\ ref.anc \subseteq Merged(tip[t]).anc /\ ~(Merged(tip[t]).anc \subseteq ref.anc)
           /\ ref.tree \subseteq Merged(tip[t]).tree
           /\ IsAncestor(Merged(tip[t]), tip[t]) => Merged(tip[t]).tree \subseteq tip[t].tree
           /\ \A u \in Task \ {t} : Merged(tip[t]).anc \cap tip[u].anc \subseteq ref.anc
    <3>1. CASE IsAncestor(tip[t], ref)
      BY <3>1 DEF Merged
    <3>2. CASE IsAncestor(ref, tip[t]) /\ ~IsAncestor(tip[t], ref)
      <4>1. Merged(tip[t]) = tip[t]
        BY <3>2 DEF Merged
      <4> QED
        BY <3>2, <4>1 DEF IsAncestor, TipKeeps, SharedByRef
    <3>3. CASE NeedsCommit(tip[t])
      <4>1. /\ Merged(tip[t]).anc = tip[t].anc \cup ref.anc \cup {made + 1}
            /\ Merged(tip[t]).tree = tip[t].tree \cup ref.tree
        BY <3>3 DEF NeedsCommit, Merged, NewCommit
      <4>2. made + 1 \notin ref.anc /\ \A u \in Task : made + 1 \notin tip[u].anc
        BY DEF AllNumbered, Numbered
      <4> QED
        BY <4>1, <4>2 DEF IsAncestor, SharedByRef
    <3> QED
      BY <3>1, <3>2, <3>3 DEF NeedsCommit
  <2>3. SwapIsAhead'
    <3>1. ASSUME NEW s \in Task, mpc'[s] = "swap"
          PROVE  /\ ref = par'[s]
                 /\ new'[s] = ref \/
                     (/\ ref.anc \subseteq new'[s].anc /\ ~(new'[s].anc \subseteq ref.anc)
                      /\ ref.tree \subseteq new'[s].tree
                      /\ IsAncestor(new'[s], tip[s]) => new'[s].tree \subseteq tip[s].tree
                      /\ \A u \in Task \ {s} : new'[s].anc \cap tip[u].anc \subseteq ref.anc)
      <4>1. CASE s = t
        BY <2>1, <2>2, <4>1
      <4>2. CASE s # t
        BY <2>1, <3>1, <4>2 DEF SwapIsAhead
      <4> QED
        BY <4>1, <4>2
    <3> QED
      BY <2>1, <3>1 DEF SwapIsAhead
  <2> QED
    BY <1>0, <2>1, <2>3 DEF docs, SharedByRef, TipKeeps, CapturedInOrder, Based
<1>4. ASSUME NEW t \in Task, MergeSwap(t) PROVE AtomicInv'
  <2>1. /\ mpc[t] = "swap" /\ ref = par[t]
        /\ ref' = new[t] /\ mpc' = [mpc EXCEPT ![t] = "append"]
        /\ UNCHANGED <<lock, par, new, tip, docs, reported>>
    BY <1>4 DEF MergeSwap, SwapIsAhead
  <2>2. \A u \in Task \ {t} : mpc[u] \notin {"swap", "append"}
    BY <2>1 DEF LockOwned
  <2>3. SharedByRef'
    BY <1>0, <2>1 DEF SharedByRef, NotBefore
  <2>4. TipKeeps'
    BY <2>1 DEF TipKeeps, SwapIsAhead, IsAncestor
  <2>5. CapturedInOrder'
    BY <1>0, <2>1, NotBeforeTransitive DEF CapturedInOrder, Based, docs
  <2> QED
    BY <1>0, <2>1, <2>2, <2>3, <2>4, <2>5 DEF docs, SwapIsAhead
<1>5. ASSUME NEW t \in Task, MergeAppend(t) PROVE AtomicInv'
  <2>1. /\ UNCHANGED <<ref, tip, docs>>
        /\ mpc' = [mpc EXCEPT ![t] = "idle"]
        /\ par' = [par EXCEPT ![t] = Root] /\ new' = [new EXCEPT ![t] = Root]
        /\ reported' \subseteq reported \cup ref.tree
    BY <1>5 DEF MergeAppend, Exit
  <2>2. SwapIsAhead'
    BY <2>1 DEF SwapIsAhead
  <2> QED
    BY <1>0, <2>1, <2>2 DEF docs, SharedByRef, TipKeeps, CapturedInOrder, Based
<1>6. ASSUME NEW t \in Task,
             \/ SwitchBranch(t) \/ StrayCommit(t) \/ MergeStart(t)
             \/ MergeLock(t) \/ MergeConflict(t) \/ MergeDies(t)
      PROVE  AtomicInv'
  <2>1. /\ UNCHANGED <<ref, tip, docs, reported>>
        /\ \A u \in Task : mpc'[u] \in {"swap", "append"} =>
                             mpc'[u] = mpc[u] /\ par'[u] = par[u] /\ new'[u] = new[u]
    BY <1>6 DEF SwitchBranch, StrayCommit, MergeStart, MergeLock, TakeLock, MergeConflict, MergeDies, Exit
  <2>2. SwapIsAhead'
    BY <2>1 DEF SwapIsAhead
  <2>3. \A u \in Task : mpc'[u] = "append" => ref' = new'[u]
    BY <2>1
  <2> QED
    BY <1>0, <2>1, <2>2, <2>3 DEF docs, SharedByRef, TipKeeps, CapturedInOrder, Based
<1>7. CASE \/ CaptureTip \/ SkipCapture \/ RefreshWorktree \/ WriteDoc \/ CommitStart \/ CommitLock
           \/ CommitStale \/ CommitRefused \/ OrchDies
  <2>1. UNCHANGED <<ref, mergers, reported>>
    BY <1>7 DEF CaptureTip, SkipCapture, TakeUp, RefreshWorktree, WriteDoc, CommitStart, CommitLock,
                CommitStale, CommitRefused, OrchDies
  <2>2. CapturedInOrder' /\ opc' # "resetting"
    BY <1>7 DEF CaptureTip, SkipCapture, TakeUp, RefreshWorktree, WriteDoc, CommitStart, CommitLock,
                CommitStale, CommitRefused, CommitEnds, OrchDies, CapturedInOrder, Based, NotBefore,
                Atomic
  <2> QED
    BY <1>0, <2>1, <2>2, AtomicKeptByDocs
<1>8. CASE CommitDocs
  <2>1. /\ UNCHANGED mergers /\ opc' = "idle" /\ lock = Orch
        /\ reported' = reported \cup {doc} /\ doc \in ref'.tree
        /\ ref' = ref \/ ref'.anc = ref.anc \cup {made + 1}
    BY <1>8 DEF CommitDocs, NewCommit, LockOwned
  <2> QED
    BY <1>0, <2>1, AtomicKeptByDocs DEF CapturedInOrder, Based
<1>9. CASE RefreshMovesRef
  BY <1>9 DEF RefreshMovesRef
<1>10. CASE UNCHANGED vars
  <2>1. UNCHANGED <<ref, mergers, docs, reported>>
    BY <1>10 DEF vars, mergers, docs
  <2> QED
    BY <1>0, <2>1, AtomicKeptByDocs DEF docs, CapturedInOrder, Based
<1> QED
  BY <1>1, <1>2, <1>3, <1>4, <1>5, <1>6, <1>7, <1>8, <1>9, <1>10
     DEF Next, MergeScript, CommitScript

\* Every step keeps what was due on its way to the branch.
LEMMA DueStays == TypeOK /\ DueKept /\ [Next]_vars => DueKept'
<1> SUFFICES ASSUME TypeOK, DueKept, [Next]_vars PROVE DueKept'
  OBVIOUS
<1>0. /\ mpc \in [Task -> {"idle", "waiting", "locked", "swap", "append"}]
      /\ due \in [Task -> Commit] /\ new \in [Task -> Commit] /\ tip \in [Task -> Commit]
  BY DEF TypeOK
<1> USE <1>0 DEF DueKept
<1>1. ASSUME NEW t \in Task, AgentCommit(t) \/ Incorporate(t) PROVE DueKept'
  <2>1. /\ UNCHANGED <<mpc, new, due>>
        /\ \A u \in Task : tip[u].anc \subseteq tip'[u].anc
    BY <1>1 DEF AgentCommit, Incorporate, NewCommit
  <2> QED
    BY <2>1
<1>2. ASSUME NEW t \in Task, SwitchBranch(t) \/ StrayCommit(t) \/ MergeStart(t) PROVE DueKept'
  BY <1>2 DEF SwitchBranch, StrayCommit, MergeStart
<1>3. ASSUME NEW t \in Task, MergeLock(t) PROVE DueKept'
  BY <1>3 DEF MergeLock, TakeLock, CheckedOut, Exit
<1>4. ASSUME NEW t \in Task, MergeDecide(t) PROVE DueKept'
  <2>1. tip[t].anc \subseteq Merged(tip[t]).anc
    BY DEF Merged, IsAncestor, NewCommit
  <2>2. /\ UNCHANGED <<tip, due>> /\ mpc[t] = "locked"
        /\ mpc' = [mpc EXCEPT ![t] = "swap"] /\ new' = [new EXCEPT ![t] = Merged(tip[t])]
    BY <1>4 DEF MergeDecide, MergeSource
  <2>4. DOMAIN new = Task /\ DOMAIN mpc = Task
    OBVIOUS
  <2>3. ASSUME NEW u \in Task
        PROVE  /\ mpc'[u] = "locked" => due'[u].anc \subseteq tip'[u].anc
               /\ mpc'[u] = "swap" => due'[u].anc \subseteq new'[u].anc
    <3>1. CASE u = t
      <4>1. new'[u] = Merged(tip[t]) /\ mpc'[u] = "swap"
        BY <2>2, <2>4, <3>1
      <4>2. due[t].anc \subseteq tip[t].anc
        BY <2>2
      <4> QED
        BY <2>1, <2>2, <3>1, <4>1, <4>2
    <3>2. CASE u # t
      <4>1. new'[u] = new[u] /\ mpc'[u] = mpc[u]
        BY <2>2, <2>4, <3>2
      <4> QED
        BY <2>2, <4>1
    <3> QED
      BY <3>1, <3>2
  <2> QED
    BY <2>3
<1>5. ASSUME NEW t \in Task, MergeConflict(t) \/ MergeSwap(t) \/ MergeAppend(t) \/ MergeDies(t)
      PROVE  DueKept'
  BY <1>5 DEF MergeConflict, MergeSwap, MergeAppend, MergeDies, Exit
<1>6. ASSUME UNCHANGED mergers PROVE DueKept'
  BY <1>6 DEF mergers
<1>7. CASE \/ CaptureTip \/ SkipCapture \/ RefreshWorktree \/ RefreshMovesRef \/ WriteDoc
           \/ CommitStart \/ CommitScript \/ OrchDies \/ UNCHANGED vars
  BY <1>6, <1>7 DEF CaptureTip, SkipCapture, TakeUp, RefreshWorktree, RefreshMovesRef, WriteDoc,
                    CommitStart, CommitScript, CommitLock, CommitStale, CommitRefused, CommitDocs,
                    OrchDies, vars, mergers
<1> QED
  BY <1>1, <1>2, <1>3, <1>4, <1>5, <1>7 DEF Next, MergeScript

-----------------------------------------------------------------------------
LEMMA Initially == Init => IInv
<1> SUFFICES ASSUME Init PROVE IInv
  OBVIOUS
<1>1. TypeOK /\ DocInWork
  BY RootType DEF Init, TypeOK, DocInWork, Mode
<1>2. LockOwned
  BY LockAssumption DEF Init, LockOwned
<1>3. AllNumbered /\ DocsKept /\ ModeInUse
  BY DEF Init, AllNumbered, Numbered, Root, DocsKept, HasDocs, Based, ModeInUse
<1>5. DueKept
  BY DEF Init, DueKept
<1>4. AtomicInv
  BY DEF Init, AtomicInv, SharedByRef, TipKeeps, SwapIsAhead, CapturedInOrder, Based, Root
<1> QED
  BY <1>1, <1>2, <1>3, <1>4, <1>5 DEF IInv

LEMMA Inductive == IInv /\ [Next]_vars => IInv'
<1> SUFFICES ASSUME IInv, [Next]_vars PROVE IInv'
  OBVIOUS
<1>1. TypeOK' /\ DocInWork' /\ LockOwned' /\ AllNumbered' /\ DocsKept' /\ ModeInUse' /\ DueKept'
  BY TypeKept, LockKept, NumbersKept, DocumentsKept, ModeKept, DueStays DEF IInv
<1>2. Atomic' => AtomicInv'
  <2>1. Atomic' => Atomic
    BY ModeKept DEF IInv, Atomic
  <2> QED
    BY <2>1, AtomicKept
<1> QED
  BY <1>1, <1>2 DEF IInv

\* The inductive invariant holds throughout.
THEOREM Invariance == Spec => []IInv
<1> QED
  BY Initially, Inductive, PTL DEF Spec

\* Type correctness of the two scripts, their callers and the branch.
THEOREM Typing == Spec => []TypeOK
<1>1. IInv => TypeOK
  BY DEF IInv
<1> QED
  BY <1>1, Invariance, PTL

\* What merge-task.sh and commit-docs.sh reported with exit 0 stays on the
\* branch, documents also through an interrupted git reset --hard.
THEOREM Kept == Spec => []ReportedIsKept
<1>1. IInv => ReportedIsKept
  BY DEF IInv, AtomicInv, Atomic, DocsKept, HasDocs, ReportedIsKept
<1> QED
  BY <1>1, Invariance, PTL

\* A merge that succeeds puts on the branch all that the worktree had checked out when
\* its script got the lock, and nothing committed off the task branch.
THEOREM AllCheckedOut == Spec => CheckedOutIsMerged
<1>1. ASSUME IInv, [Next]_vars, NEW t \in Task, mpc[t] = "swap", mpc'[t] = "append"
      PROVE  due[t].anc \subseteq ref'.anc /\ Stray \notin ref'.tree
  <2>1. ref' = new[t]
    <3>1. ASSUME NEW u \in Task, AgentCommit(u) \/ Incorporate(u) \/ SwitchBranch(u)
                                 \/ StrayCommit(u)
          PROVE  mpc' = mpc
      BY <3>1 DEF AgentCommit, Incorporate, SwitchBranch, StrayCommit
    <3>2. ASSUME NEW u \in Task, MergeStart(u) \/ MergeLock(u) \/ MergeDecide(u) \/ MergeConflict(u)
                                 \/ MergeAppend(u) \/ MergeDies(u)
          PROVE  mpc'[t] # "append"
      <4>1. \E s \in {"waiting", "locked", "swap", "idle"} : mpc' = [mpc EXCEPT ![u] = s]
        BY <3>2 DEF MergeStart, MergeLock, TakeLock, MergeDecide, MergeConflict, MergeAppend,
                    MergeDies, Exit
      <4> QED
        BY <1>1, <4>1 DEF IInv, TypeOK
    <3>3. ASSUME NEW u \in Task, MergeSwap(u)
          PROVE  ref' = new[t]
      BY <1>1, <3>3 DEF MergeSwap, Exit, IInv, TypeOK
    <3>4. CASE \/ CaptureTip \/ SkipCapture \/ RefreshWorktree \/ RefreshMovesRef \/ WriteDoc
               \/ CommitStart \/ CommitScript \/ OrchDies \/ UNCHANGED vars
      BY <1>1, <3>4 DEF CaptureTip, SkipCapture, TakeUp, RefreshWorktree, RefreshMovesRef, WriteDoc,
                        CommitStart, CommitScript, CommitLock, CommitStale, CommitRefused,
                        CommitDocs, OrchDies, vars, mergers
    <3> QED
      BY <1>1, <3>1, <3>2, <3>3, <3>4 DEF Next, MergeScript
  <2> QED
    BY <1>1, <2>1 DEF IInv, DueKept, AllNumbered, Numbered
<1>2. IInv /\ [Next]_vars =>
        [\A t \in Task : mpc[t] = "swap" /\ mpc'[t] = "append" =>
            /\ due[t].anc \subseteq ref'.anc
            /\ Stray \notin ref'.tree]_vars
  BY <1>1
<1> QED
  BY <1>2, Invariance, PTL DEF Spec, CheckedOutIsMerged

\* No update of the branch is lost, by any interleaving of the two scripts.
THEOREM NoLostUpdate == Spec => RefNeverLoses
<1>1. IInv /\ [Next]_vars =>
        [usage.refresh = "atomic" =>
            /\ IsAncestor(ref, ref')
            /\ ref.tree \ ref'.tree \subseteq IF mode = "first" THEN {} ELSE Exposed]_vars
  BY RefStep DEF Atomic, NotBefore, IsAncestor
<1> QED
  BY <1>1, Invariance, PTL DEF Spec, RefNeverLoses
=============================================================================
