-------------------------- MODULE DevelopRun_proofs --------------------------
(***************************************************************************)
(* Theorems about DevelopRun, for any number of launches, crashes, mends,  *)
(* commands, answers and failing items, and any mix of flags; and, from    *)
(* "Least and greatest" on, about ReviewRound, a round of its review step: *)
(* for any perspectives, chains, files, sizes, caps and number of fixes.   *)
(***************************************************************************)
EXTENDS DevelopRun, ReviewRound, TLAPS, WellFoundedInduction

-----------------------------------------------------------------------------
(* Types *)

Workflow ==
    [status : [StepId -> Status], kind : {"none", "infra", "decision"},
     change : {"none", "open", "consumed"}, resumes : 0..INFRA_RESUME_CAP, reviews : Nat, rounds : Nat,
     counts : [Item -> Nat], items : SUBSET Item]

Place == StepId \cup {"off", "entry", "select", "fail", "decide", "replan", "counting", "boundary",
                      "gone", "finish", "cleanup", "drop", "delete", "record", "specify"}
RunType == [at : Place, batch : BOOLEAN, once : BOOLEAN, pr : BOOLEAN, why : Why \cup {"none"}]

Typed ==
    /\ wf \in Workflow /\ saved \in Workflow
    /\ worktree \in BOOLEAN /\ branch \in BOOLEAN /\ litter \in BOOLEAN
    /\ allowed \in BOOLEAN /\ verified \in BOOLEAN
    /\ landed \in {"no", "merged", "pr"}
    /\ run \in RunType
    /\ used \in [Budget -> Nat] /\ auto \in [Why -> Nat] /\ reworked \in [Item -> Nat]

-----------------------------------------------------------------------------
(* What runs of itself *)

\* The write that is not committed yet, if it was made for reason w.
Owed(w) == IF run.why = w THEN 1 ELSE 0
OwedOn(i) == IF run.why = "verify" /\ i \in wf.items THEN 1 ELSE 0

\* Every resume is behind a count in the file.
InfraCounted ==
    /\ auto["infra"] + Owed("infra") =< wf.resumes
    /\ auto["infra"] =< saved.resumes

\* Every rework after a failed verify is behind its round and the counts of its items;
\* a run that is about to rework has counted and is below the caps.
VerifyCounted ==
    /\ auto["verify"] + Owed("verify") =< wf.rounds
    /\ auto["verify"] + Owed("verify") =< 2
    /\ auto["verify"] =< saved.rounds
    /\ \A i \in Item : /\ reworked[i] + OwedOn(i) =< wf.counts[i]
                       /\ reworked[i] + OwedOn(i) =< 1
                       /\ reworked[i] =< saved.counts[i]
    /\ run.batch /\ run.at \in {"decide", "replan"} =>
        /\ auto["verify"] + Owed("verify") < wf.rounds
        /\ \A i \in wf.items : reworked[i] + OwedOn(i) < wf.counts[i]
    /\ run.batch /\ run.at = "replan" => ~Capped

\* The review rework is counted in a write of its own: a crash may fall between.
ReviewCounted ==
    /\ saved.reviews =< wf.reviews /\ wf.reviews =< saved.reviews + 1 /\ wf.reviews =< 1
    /\ run.why = "review" => run.at = "counting"
    /\ run.at = "counting" => wf.reviews = 0
    /\ IF run.at = "off" THEN auto["review"] =< saved.reviews + used["crashes"]
       ELSE auto["review"] + Owed("review") =<
                wf.reviews + used["crashes"] + IF run.at = "counting" THEN 1 ELSE 0

-----------------------------------------------------------------------------
(* What is verified, and what a failed run may lose *)

Before == {"create-spec", "create-plan", "implement", "review"}
Completed(w, S) == \A s \in S : w.status[s] = "completed"
CappedIn(w) == w.rounds >= HARD_CAP \/ \E i \in w.items : w.counts[i] >= LINEAGE_CAP

\* A verify that is completed was of what has been implemented and reviewed since.
Passed(w) == w.status["verify"] = "completed" => verified /\ Completed(w, Before)

\* verify has passed, or it has failed at the cap.
VerifyDecided(w) ==
    /\ Completed(w, Before)
    /\ w.status["verify"] = "completed" \/ (w.status["verify"] = "failed" /\ CappedIn(w))

\* Unless somebody mends the file, retrospect is done last.
RetrospectLast(w) ==
    used["mends"] = 0 /\ w.status["retrospect"] = "completed" => VerifyDecided(w)

\* Where the run stands, and what the file says.
Placed ==
    /\ run.at \in {"create-spec", "specify"} => wf.status["create-spec"] = "in_progress"
    /\ run.at \in {"decide", "replan"} => wf.status["verify"] = "failed"
    /\ run.at = "implement" => wf.status["implement"] = "in_progress"
    /\ run.at = "review" => wf.status["review"] = "in_progress"
    /\ run.at = "verify" => Completed(wf, Before)
    /\ run.at = "retrospect" => VerifyDecided(wf)
    /\ run.at \in {"create-plan", "implement", "review", "verify", "fail", "decide", "replan"}
          /\ used["mends"] = 0 => wf.status["retrospect"] # "completed"
    /\ run.at \in {"finish", "cleanup", "drop", "delete"} => AllDone \/ CapEnd

Decided == Passed(wf) /\ Passed(saved) /\ RetrospectLast(wf) /\ RetrospectLast(saved) /\ Placed

IInv == Typed /\ InfraCounted /\ VerifyCounted /\ ReviewCounted /\ Decided

-----------------------------------------------------------------------------
(* Edits of the file and of the run *)

WfField == {"status", "kind", "change", "resumes", "reviews", "rounds", "counts", "items"}
WfBut(F) == wf' \in Workflow /\ \A f \in WfField \ F : wf'[f] = wf[f]
\* The steps in S now have status s.
Statuses(S, s) == \A t \in StepId : wf'.status[t] = IF t \in S THEN s ELSE wf.status[t]

RunIs(p, why) == /\ run' \in RunType /\ run'.at = p /\ run'.why = why
                 /\ run'.batch = run.batch /\ run'.pr = run.pr
Ended == run' \in RunType /\ run'.at = "off" /\ run'.why = "none"

LEMMA Fields ==
    ASSUME NEW w \in Workflow
    PROVE  /\ DOMAIN w = WfField
           /\ w.status \in [StepId -> Status] /\ w.resumes \in Nat /\ w.resumes =< 2
           /\ w.reviews \in Nat /\ w.rounds \in Nat
           /\ w.counts \in [Item -> Nat] /\ w.items \subseteq Item
           /\ \A s \in StepId : w.status[s] \in Status
BY DEF Workflow, WfField, INFRA_RESUME_CAP

LEMMA Constants ==
    /\ StepId = Before \cup {"verify", "retrospect"}
    /\ INFRA_RESUME_CAP = 2 /\ REVIEW_REWORK_CAP = 1 /\ LINEAGE_CAP = 2 /\ HARD_CAP = 3
<1>1. DOMAIN Steps = 1..6
  BY DEF Steps
<1>2. StepId = {Steps[1], Steps[2], Steps[3], Steps[4], Steps[5], Steps[6]}
  BY <1>1 DEF StepId
<1>3. /\ Steps[1] = "create-spec" /\ Steps[2] = "create-plan" /\ Steps[3] = "implement"
      /\ Steps[4] = "review" /\ Steps[5] = "verify" /\ Steps[6] = "retrospect"
  BY DEF Steps
<1> QED
  BY <1>2, <1>3 DEF INFRA_RESUME_CAP, REVIEW_REWORK_CAP, LINEAGE_CAP, HARD_CAP, Before

LEMMA SetDoes ==
    ASSUME wf \in Workflow, NEW S \in SUBSET StepId, NEW s \in Status, NEW w, w = Set(S, s)
    PROVE  /\ w \in Workflow
           /\ \A f \in WfField \ {"status"} : w[f] = wf[f]
           /\ \A t \in StepId : w.status[t] = IF t \in S THEN s ELSE wf.status[t]
<1>1. wf.status \in [StepId -> Status]
  BY DEF Workflow
<1>2. [t \in StepId |-> IF t \in S THEN s ELSE wf.status[t]] \in [StepId -> Status]
  BY <1>1
<1>3. w = [wf EXCEPT !.status = [t \in StepId |-> IF t \in S THEN s ELSE wf.status[t]]]
  BY DEF Set
<1>4. w \in Workflow
  BY <1>2, <1>3 DEF Workflow
<1> QED
  BY <1>3, <1>4 DEF Workflow, WfField

LEMMA WritesDoes ==
    ASSUME Typed, NEW w, NEW p \in Place, NEW why \in Why \cup {"none"}, Writes(w, p, why)
    PROVE  wf' = w /\ RunIs(p, why)
BY DEF Writes, RunIs, RunType, Typed

LEMMA GoDoes ==
    ASSUME Typed, NEW p \in Place, Go(p)
    PROVE  RunIs(p, run.why)
BY DEF Go, RunIs, RunType, Typed

LEMMA StopDoes == Stop => Ended
BY DEF Stop, Ended, Idle, RunType, Place

LEMMA SpendDoes ==
    ASSUME Typed, NEW b \in Budget, NEW limit, Spend(b, limit)
    PROVE  /\ used' \in [Budget -> Nat]
           /\ \A c \in Budget : used'[c] = IF c = b THEN used[c] + 1 ELSE used[c]
BY DEF Spend, Typed

\* Step B's choice.
LEMMA NextStep ==
    ASSUME Typed, ~AllDone
    PROVE  /\ Steps[Next1] \in StepId /\ wf.status[Steps[Next1]] # "completed"
           /\ Steps[Next1] \in {"verify", "retrospect"} => Completed(wf, Before)
           /\ Steps[Next1] = "retrospect" => wf.status["verify"] = "completed"
<1>1. \A s \in StepId : Done(s) <=> wf.status[s] = "completed"
  BY Fields DEF Typed, Done, Status
<1>2. DOMAIN Steps = 1..6 /\ \A i \in 1..6 : Steps[i] \in StepId
  BY DEF Steps, StepId
<1> DEFINE D(i) == Done(Steps[i])
           First(i) == ~D(i) /\ \A j \in 1..(i - 1) : D(j)
<1>3. \E i \in DOMAIN Steps : First(i)
  <2>1. \E i \in 1..6 : ~D(i)
    BY <1>2 DEF AllDone, StepId
  <2> HIDE DEF D
  <2>2. /\ 1..(1 - 1) = {} /\ 1..(2 - 1) = {1} /\ 1..(3 - 1) = {1, 2} /\ 1..(4 - 1) = {1, 2, 3}
        /\ 1..(5 - 1) = {1, 2, 3, 4} /\ 1..(6 - 1) = {1, 2, 3, 4, 5}
    OBVIOUS
  <2>3. /\ First(1) <=> ~D(1)
        /\ First(2) <=> ~D(2) /\ D(1)
        /\ First(3) <=> ~D(3) /\ D(1) /\ D(2)
    BY <2>2
  <2>4. /\ First(4) <=> ~D(4) /\ D(1) /\ D(2) /\ D(3)
        /\ First(5) <=> ~D(5) /\ D(1) /\ D(2) /\ D(3) /\ D(4)
    BY <2>2
  <2>5. First(6) <=> ~D(6) /\ D(1) /\ D(2) /\ D(3) /\ D(4) /\ D(5)
    BY <2>2
  <2> HIDE DEF First
  <2>6. D(1) /\ D(2) /\ D(3) /\ D(4) /\ D(5) => ~D(6)
    BY <2>1
  <2> QED
    BY <1>2, <2>3, <2>4, <2>5, <2>6
<1>4. Next1 \in DOMAIN Steps /\ First(Next1)
  BY <1>3 DEF Next1
<1>5. Next1 \in 1..6
  BY <1>2, <1>4
<1>6. Steps[Next1] \in {"verify", "retrospect"} => Next1 \in {5, 6}
  BY <1>5 DEF Steps
<1>7. Steps[Next1] = "retrospect" => Next1 = 6
  BY <1>5 DEF Steps
<1>8. Next1 \in {5, 6} =>
        Done("create-spec") /\ Done("create-plan") /\ Done("implement") /\ Done("review")
  BY <1>4 DEF Steps
<1>9. Next1 = 6 => Done("verify")
  BY <1>4 DEF Steps
<1> HIDE DEF First
<1>10. wf.status[Steps[Next1]] # "completed"
  BY <1>1, <1>2, <1>4, <1>5 DEF First
<1> QED
  BY <1>1, <1>2, <1>5, <1>6, <1>7, <1>8, <1>9, <1>10, Constants DEF Completed, Before

-----------------------------------------------------------------------------
(* What the steps do to the file and the run *)

Spent(b) == /\ used' \in [Budget -> Nat]
            /\ \A c \in Budget : used'[c] = IF c = b THEN used[c] + 1 ELSE used[c]
SameFile == wf' = wf /\ saved' = saved
SameBooks == UNCHANGED <<auto, reworked>>
SamePast == UNCHANGED <<verified, auto, reworked>>

LEMMA CommitDoes ==
    ASSUME Typed, Commit
    PROVE  /\ run.at # "off" /\ wf' = wf /\ saved' = wf /\ RunIs(run.at, "none")
           /\ auto' \in [Why -> Nat] /\ \A w \in Why : auto'[w] = auto[w] + Owed(w)
           /\ reworked' \in [Item -> Nat] /\ \A i \in Item : reworked'[i] = reworked[i] + OwedOn(i)
           /\ UNCHANGED <<worktree, branch, litter, landed, allowed, used, verified>>
<1>1. RunIs(run.at, "none")
  BY DEF Commit, RunIs, RunType, Typed
<1>2. auto' \in [Why -> Nat] /\ \A w \in Why : auto'[w] = auto[w] + Owed(w)
  BY DEF Commit, Owed, Typed
<1>3. reworked' \in [Item -> Nat] /\ \A i \in Item : reworked'[i] = reworked[i] + OwedOn(i)
  BY DEF Commit, OwedOn, Typed
<1> QED
  BY <1>1, <1>2, <1>3 DEF Commit, place

LEMMA LaunchDoes ==
    ASSUME Typed, Launch
    PROVE  /\ run.at = "off" /\ wf' = saved /\ saved' = saved
           /\ run' \in RunType /\ run'.at = "entry" /\ run'.why = "none"
           /\ worktree' = TRUE /\ allowed' = FALSE /\ Spent("launches") /\ SamePast
           /\ UNCHANGED <<branch, litter, landed>>
<1>1. Idle \in RunType
  BY DEF Idle, RunType, Place
<1>2. run' \in RunType /\ run'.at = "entry" /\ run'.why = "none"
  <2>1. PICK flags \in Flags :
          run' = [Idle EXCEPT !.at = "entry", !.batch = "batch" \in flags,
                              !.once = "once" \in flags, !.pr = "pr" \in flags]
    BY DEF Launch
  <2> DEFINE b == "batch" \in flags
             o == "once" \in flags
             p == "pr" \in flags
  <2>2. b \in BOOLEAN /\ o \in BOOLEAN /\ p \in BOOLEAN
    OBVIOUS
  <2>3. run' = [Idle EXCEPT !.at = "entry", !.batch = b, !.once = o, !.pr = p]
    BY <2>1
  <2> HIDE DEF b, o, p
  <2>4. run' = [at |-> "entry", batch |-> b, once |-> o, pr |-> p, why |-> "none"]
    BY <2>3 DEF Idle
  <2> QED
    BY <2>2, <2>4 DEF RunType, Place
<1>3. Spent("launches")
  BY SpendDoes DEF Launch, Spent, Budget
<1> QED
  BY <1>2, <1>3 DEF Launch, SamePast, past

\* Status edits a phase makes, and where it goes from there.
LEMMA Setting ==
    ASSUME Typed, NEW S \in SUBSET StepId, NEW s \in Status, NEW p \in Place,
           NEW why \in Why \cup {"none"}
    PROVE  /\ Writes(Set(S, s), p, why) => WfBut({"status"}) /\ Statuses(S, s) /\ RunIs(p, why)
           /\ \A k \in {"none", "infra", "decision"} :
                Writes([Set(S, s) EXCEPT !.kind = k], p, why) =>
                    WfBut({"status", "kind"}) /\ Statuses(S, s) /\ RunIs(p, why)
           /\ wf.resumes < 2 /\ Writes([Set(S, s) EXCEPT !.kind = "none", !.resumes = @ + 1], p, why) =>
                /\ WfBut({"status", "kind", "resumes"}) /\ wf'.resumes = wf.resumes + 1
                /\ Statuses(S, s) /\ RunIs(p, why)
<1> DEFINE w == Set(S, s)
<1>1. /\ w \in Workflow
      /\ \A f \in WfField \ {"status"} : w[f] = wf[f]
      /\ \A t \in StepId : w.status[t] = IF t \in S THEN s ELSE wf.status[t]
  <2>1. wf \in Workflow /\ w = Set(S, s)
    BY DEF Typed
  <2> HIDE DEF w
  <2> QED
    BY <2>1, SetDoes
<1> HIDE DEF w
<1>2. ASSUME Writes(w, p, why)
      PROVE  WfBut({"status"}) /\ Statuses(S, s) /\ RunIs(p, why)
  BY <1>1, <1>2, WritesDoes DEF WfBut, Statuses
<1>3. ASSUME NEW k \in {"none", "infra", "decision"}, Writes([w EXCEPT !.kind = k], p, why)
      PROVE  WfBut({"status", "kind"}) /\ Statuses(S, s) /\ RunIs(p, why)
  <2>1. wf' = [w EXCEPT !.kind = k] /\ RunIs(p, why)
    BY <1>3, WritesDoes
  <2>2. wf' \in Workflow /\ wf'.status = w.status /\ \A f \in WfField \ {"kind"} : wf'[f] = w[f]
    BY <1>1, <2>1 DEF Workflow, WfField
  <2> QED
    BY <1>1, <2>1, <2>2 DEF WfBut, Statuses
<1>4. ASSUME wf.resumes < 2, Writes([w EXCEPT !.kind = "none", !.resumes = @ + 1], p, why)
      PROVE  /\ WfBut({"status", "kind", "resumes"}) /\ wf'.resumes = wf.resumes + 1
             /\ Statuses(S, s) /\ RunIs(p, why)
  <2> DEFINE v == [w EXCEPT !.kind = "none", !.resumes = @ + 1]
  <2>1. wf' = v /\ RunIs(p, why)
    BY <1>4, WritesDoes
  <2>2. w.resumes = wf.resumes
    BY <1>1 DEF WfField
  <2>3. wf.resumes \in Nat /\ wf.resumes + 1 \in 0..INFRA_RESUME_CAP
    BY <1>4, Fields, Constants DEF Typed
  <2>4. v \in Workflow
    <3> DEFINE k == "none"
               n == wf.resumes + 1
    <3>1. k \in {"none", "infra", "decision"} /\ n \in 0..INFRA_RESUME_CAP
      BY <2>3
    <3>2. v = [w EXCEPT !.kind = k, !.resumes = n]
      BY <2>2
    <3> HIDE DEF k, n, v
    <3> QED
      BY <1>1, <3>1, <3>2 DEF Workflow
  <2>5. v.status = w.status /\ v.resumes = wf.resumes + 1
    BY <1>1, <2>2 DEF Workflow
  <2>6. \A f \in WfField \ {"kind", "resumes"} : v[f] = w[f]
    BY <1>1, Fields DEF WfField
  <2> HIDE DEF v
  <2>7. WfBut({"status", "kind", "resumes"})
    BY <1>1, <2>1, <2>4, <2>6 DEF WfBut
  <2> QED
    BY <1>1, <2>1, <2>5, <2>7 DEF Statuses
<1> QED
  BY <1>2, <1>3, <1>4 DEF w

LEMMA EntryDoes ==
    ASSUME Typed, Entry
    PROVE  /\ run.at = "entry" /\ wf = saved /\ saved' = saved
           /\ \/ wf' = wf /\ RunIs("select", run.why)
              \/ /\ wf.status["implement"] = "failed"
                 /\ WfBut({"status", "kind"}) /\ Statuses({"implement"}, "pending")
                 /\ RunIs("select", "none")
           /\ SamePast /\ UNCHANGED <<worktree, branch, litter, landed, allowed, used>>
<1>1. {"implement"} \in SUBSET StepId /\ "pending" \in Status /\ "select" \in Place
  BY DEF StepId, Steps, Status, Place
<1> QED
  BY <1>1, Setting, GoDoes DEF Entry, At, SamePast, past, place

LEMMA SelectDoes ==
    ASSUME Typed, SelectStep
    PROVE  /\ run.at = "select" /\ wf = saved /\ saved' = saved
           /\ \E s \in StepId :
                /\ \/ s = "create-plan" /\ wf' = wf /\ RunIs(s, run.why)
                   \/ /\ s # "create-plan" /\ WfBut({"status"}) /\ Statuses({s}, "in_progress")
                      /\ RunIs(s, "none")
                /\ wf.status[s] # "completed"
                /\ s = "verify" => Completed(wf, Before)
                /\ s = "retrospect" => VerifyDecided(wf)
                /\ s # "retrospect" => wf.status[s] # "failed"
           /\ SamePast /\ UNCHANGED <<worktree, branch, litter, landed, allowed, used>>
<1>1. /\ At("select") /\ ~AllDone /\ saved' = saved /\ SamePast
      /\ UNCHANGED <<worktree, branch, litter, landed, allowed, used>>
  BY DEF SelectStep, SamePast, past, place
<1>2. PICK s \in StepId :
        /\ Begin(s) /\ wf.status[s] # "completed"
        /\ s = "verify" => Completed(wf, Before)
        /\ s = "retrospect" => VerifyDecided(wf)
        /\ s # "retrospect" => wf.status[s] # "failed"
  <2> DEFINE s == Steps[Next1]
  <2>1. /\ s \in StepId /\ wf.status[s] # "completed"
        /\ s \in {"verify", "retrospect"} => Completed(wf, Before)
        /\ s = "retrospect" => wf.status["verify"] = "completed"
    BY <1>1, NextStep
  <2>2. \/ wf.status[s] # "failed" /\ Begin(s)
        \/ s = "verify" /\ CapException /\ ~Done("retrospect") /\ Begin("retrospect")
    BY DEF SelectStep
  <2> HIDE DEF s
  <2>3. CASE wf.status[s] # "failed" /\ Begin(s)
    BY <2>1, <2>3 DEF VerifyDecided
  <2>4. CASE s = "verify" /\ CapException /\ ~Done("retrospect") /\ Begin("retrospect")
    BY <2>1, <2>4, Constants DEF VerifyDecided, CapException, Capped, CappedIn, Done
  <2> QED
    BY <2>2, <2>3, <2>4
<1>3. {s} \in SUBSET StepId /\ "in_progress" \in Status /\ s \in Place
  BY DEF Status, Place
<1>4. \/ s = "create-plan" /\ wf' = wf /\ RunIs(s, run.why)
      \/ /\ s # "create-plan" /\ WfBut({"status"}) /\ Statuses({s}, "in_progress")
         /\ RunIs(s, "none")
  BY <1>2, <1>3, Setting, GoDoes DEF Begin
<1> QED
  BY <1>1, <1>2, <1>4 DEF At

LEMMA ResumeDoes ==
    ASSUME Typed, ResumeInfra
    PROVE  /\ run.at = "select" /\ wf = saved /\ saved' = saved
           /\ wf.status["implement"] = "failed"
           /\ WfBut({"status", "kind", "resumes"}) /\ wf'.resumes = wf.resumes + 1
           /\ Statuses({"implement"}, "pending") /\ RunIs("select", "infra")
           /\ SamePast /\ UNCHANGED <<worktree, branch, litter, landed, allowed, used>>
<1>1. {"implement"} \in SUBSET StepId /\ "pending" \in Status /\ "select" \in Place /\ "infra" \in Why
  BY DEF StepId, Steps, Status, Place, Why
<1>2. /\ At("select") /\ wf.status["implement"] = "failed" /\ wf.resumes < 2
      /\ Writes([Set({"implement"}, "pending") EXCEPT !.kind = "none", !.resumes = @ + 1],
                "select", "infra")
      /\ saved' = saved /\ SamePast /\ UNCHANGED <<worktree, branch, litter, landed, allowed, used>>
  BY Constants DEF ResumeInfra, SamePast, past, place
<1> QED
  BY <1>1, <1>2, Setting DEF At

LEMMA FinishDoes ==
    ASSUME Typed, SelectFinish
    PROVE  /\ run.at = "select" /\ SameFile /\ RunIs("finish", run.why) /\ (AllDone \/ CapEnd)
           /\ SamePast /\ UNCHANGED <<worktree, branch, litter, landed, allowed, used>>
<1>1. AllDone \/ CapEnd
  <2> SUFFICES ASSUME ~AllDone PROVE CapEnd
    OBVIOUS
  <2>1. Steps[Next1] = "verify" /\ CapException /\ Done("retrospect")
    BY DEF SelectFinish
  <2>2. Completed(wf, Before)
    BY <2>1, NextStep
  <2> QED
    BY <2>1, <2>2, Constants DEF CapEnd, CapException, Completed, Done
<1>2. RunIs("finish", run.why)
  BY GoDoes DEF SelectFinish, Place
<1> QED
  BY <1>1, <1>2 DEF SelectFinish, At, SameFile, SamePast, past, place

LEMMA StopsDoes ==
    ASSUME Typed, StopOnFailed \/ Boundary
    PROVE  /\ run.at \in {"select", "boundary", "gone"} /\ wf = saved /\ SameFile
           /\ Ended \/ RunIs("select", run.why)
           /\ SamePast /\ UNCHANGED <<worktree, branch, litter, landed, allowed, used>>
BY StopDoes, GoDoes DEF StopOnFailed, Boundary, At, SameFile, SamePast, past, place, Place

\* A phase sets the status of S to s and goes to p.
Turn(from, S, s, p, why) ==
    /\ run.at = from /\ wf = saved /\ saved' = saved
    /\ WfBut({"status"}) /\ Statuses(S, s) /\ RunIs(p, why)
\* The turn ends with the file as it is.
Quits(from) == run.at = from /\ wf = saved /\ SameFile /\ Ended

SameWorld == UNCHANGED <<worktree, branch, litter, landed, allowed>>
SameButLitter == litter' \in BOOLEAN /\ UNCHANGED <<worktree, branch, landed, allowed>>

LEMMA Names ==
    /\ {"create-spec"} \in SUBSET StepId /\ {"create-plan"} \in SUBSET StepId /\ {"implement"} \in SUBSET StepId
    /\ {"review"} \in SUBSET StepId /\ {"verify"} \in SUBSET StepId
    /\ {"retrospect"} \in SUBSET StepId /\ {"review", "verify"} \in SUBSET StepId
    /\ {"implement", "review"} \in SUBSET StepId /\ {"implement", "verify"} \in SUBSET StepId
    /\ Status = {"pending", "in_progress", "needs_update", "completed", "failed"}
    /\ Why = {"infra", "review", "verify"}
    /\ StepId \subseteq Place
BY DEF StepId, Steps, Status, Why, Place

LEMMA PlansDoes ==
    ASSUME Typed, PlanPhase \/ RetrospectPhase
    PROVE  /\ \/ Turn("create-plan", {"create-plan"}, "completed", "boundary", "none")
              \/ Turn("retrospect", {"retrospect"}, "completed", "boundary", "none")
              \/ Quits("create-plan")
           /\ SameWorld /\ SamePast /\ used' = used
<1>1. "boundary" \in Place
  BY DEF Place
<1> QED
  BY <1>1, Names, Setting, StopDoes
     DEF PlanPhase, RetrospectPhase, At, Turn, Quits, SameFile, SameWorld, SamePast, past, place

LEMMA SpecDoes ==
    ASSUME Typed, SpecPhase
    PROVE  /\ \/ \E s \in {"completed", "needs_update", "failed"}, p \in {"boundary", "select"} :
                   Turn("specify", {"create-spec"}, s, p, "none")
              \/ Quits("specify")
           /\ SameWorld /\ SamePast /\ used' = used
<1>1. "boundary" \in Place /\ "select" \in Place
  BY DEF Place
<1>2. At("specify") /\ saved' = saved /\ SameWorld /\ SamePast /\ used' = used
  BY DEF SpecPhase, SameWorld, SamePast, past, place
<1>3. ASSUME NEW s \in {"completed", "needs_update", "failed"}, NEW p \in {"boundary", "select"},
             Writes(Set({"create-spec"}, s), p, "none")
      PROVE  Turn("specify", {"create-spec"}, s, p, "none")
  BY <1>1, <1>2, <1>3, Names, Setting DEF At, Turn
<1>4. CASE Stop /\ UNCHANGED wf
  BY <1>2, <1>4, StopDoes DEF Quits, At, SameFile
<1> QED
  BY <1>2, <1>3, <1>4 DEF SpecPhase

\* The record of a change of the specification is written, or used up.
LEMMA ChangeDoes ==
    ASSUME Typed, ConsumeChange \/ RecordChange
    PROVE  /\ \/ run.at = "create-spec" /\ RunIs("specify", "none")
              \/ run.at = "record" /\ RunIs("boundary", "none")
           /\ wf = saved /\ saved' = saved /\ WfBut({"change"})
           /\ SameWorld /\ SamePast /\ used' = used
<1>1. "specify" \in Place /\ "boundary" \in Place /\ wf \in Workflow
  BY DEF Place, Typed
<1>2. wf = saved /\ saved' = saved /\ SameWorld /\ SamePast /\ used' = used
  BY DEF ConsumeChange, RecordChange, At, SameWorld, SamePast, past, place
<1>3. ASSUME NEW c \in {"none", "open", "consumed"}, wf' = [wf EXCEPT !.change = c]
      PROVE  WfBut({"change"})
  BY <1>1, <1>3 DEF WfBut, Workflow, WfField
<1>4. CASE ConsumeChange
  <2> DEFINE c == IF wf.change = "open" THEN "consumed" ELSE wf.change
  <2>1. wf' = [wf EXCEPT !.change = c] /\ RunIs("specify", "none") /\ run.at = "create-spec"
    BY <1>1, <1>4, WritesDoes DEF ConsumeChange, At
  <2>2. c \in {"none", "open", "consumed"}
    BY <1>1 DEF Workflow
  <2> QED
    BY <1>2, <1>3, <2>1, <2>2
<1>5. CASE RecordChange
  BY <1>1, <1>2, <1>3, <1>5, WritesDoes DEF RecordChange, At
<1> QED
  BY <1>4, <1>5

LEMMA ChangeSpecDoes ==
    ASSUME Typed, ChangeSpec
    PROVE  /\ WfBut({"status"})
           /\ RunIs("record", IF run.batch /\ run.at = "replan" THEN "verify" ELSE "none")
           /\ wf'.status["verify"] = wf.status["verify"]
           /\ wf'.status["retrospect"] = wf.status["retrospect"]
<1> DEFINE S == {"create-plan", "implement", "review"}
           w == Set(S, "pending")
           v == [w EXCEPT !.status["create-spec"] = "needs_update"]
           why == IF run.batch /\ run.at = "replan" THEN "verify" ELSE "none"
<1>1. S \in SUBSET StepId /\ {"verify", "retrospect", "create-spec"} \subseteq StepId
  BY Constants DEF Before
<1>2. /\ w \in Workflow
      /\ \A f \in WfField \ {"status"} : w[f] = wf[f]
      /\ \A t \in StepId : w.status[t] = IF t \in S THEN "pending" ELSE wf.status[t]
  <2>1. wf \in Workflow /\ w = Set(S, "pending")
    BY DEF Typed
  <2> HIDE DEF w, S
  <2> QED
    BY <1>1, <2>1, Names, SetDoes, SMTT(30)
<1>3. wf' = v
  BY DEF ChangeSpec
<1> HIDE DEF w
<1>4. v \in Workflow /\ \A f \in WfField \ {"status"} : v[f] = w[f]
  BY <1>1, <1>2, Names DEF Workflow, WfField
<1>5. \A t \in StepId : v.status[t] = IF t = "create-spec" THEN "needs_update" ELSE w.status[t]
  BY <1>1, <1>2, Names DEF Workflow
<1> HIDE DEF v
<1>6. RunIs("record", why)
  <2>1. why \in Why \cup {"none"} /\ "record" \in Place
    BY DEF Why, Place
  <2>2. run' = [run EXCEPT !.at = "record", !.why = why]
    BY DEF ChangeSpec
  <2> HIDE DEF why
  <2> QED
    BY <2>1, <2>2 DEF RunIs, RunType, Typed
<1> QED
  BY <1>1, <1>2, <1>3, <1>4, <1>5, <1>6 DEF WfBut

LEMMA ReviewSpecDoes ==
    ASSUME Typed, ReviewSpecChange
    PROVE  /\ run.at = "review" /\ wf = saved /\ saved' = saved
           /\ WfBut({"status"}) /\ RunIs("record", "none")
           /\ wf'.status["verify"] = wf.status["verify"]
           /\ wf'.status["retrospect"] = wf.status["retrospect"]
           /\ \E b \in {"changes", "answers"} : Spent(b)
           /\ SameWorld /\ SamePast
<1>1. run.at = "review" /\ wf = saved /\ saved' = saved /\ ChangeSpec /\ SameWorld /\ SamePast
  BY DEF ReviewSpecChange, At, SameWorld, SamePast, past, place
<1>2. \E b \in {"changes", "answers"} : Spent(b)
  BY SpendDoes DEF ReviewSpecChange, Spent, Budget
<1> QED
  BY <1>1, <1>2, ChangeSpecDoes

LEMMA CompletesDoes ==
    ASSUME Typed, ImplementCompletes \/ ReviewCompletes
    PROVE  /\ \/ Turn("implement", {"implement"}, "completed", "boundary", "none")
              \/ Turn("review", {"review"}, "completed", "boundary", "none")
           /\ verified' = FALSE /\ SameWorld /\ SameBooks /\ used' = used
<1>1. "boundary" \in Place
  BY DEF Place
<1> QED
  BY <1>1, Names, Setting
     DEF ImplementCompletes, ReviewCompletes, At, Turn, SameWorld, SameBooks, place

LEMMA ImplementFailsDoes ==
    ASSUME Typed, ImplementFails
    PROVE  /\ run.at = "implement" /\ wf = saved /\ saved' = saved
           /\ WfBut({"status", "kind"}) /\ Statuses({"implement"}, "failed") /\ RunIs("select", "none")
           /\ SameWorld /\ SamePast /\ used' = used
<1>1. "select" \in Place
  BY DEF Place
<1> QED
  BY <1>1, Names, Setting DEF ImplementFails, At, SameWorld, SamePast, past, place

LEMMA RouteBackDoes ==
    ASSUME Typed, RouteBack
    PROVE  /\ run.at = "implement" /\ wf = saved /\ saved' = saved
           /\ WfBut({"status"}) /\ RunIs("boundary", "none")
           /\ \A t \in StepId \ {"create-plan", "implement"} : wf'.status[t] = wf.status[t]
           /\ wf'.status["implement"] = "pending"
           /\ Spent("answers") /\ SameWorld /\ SamePast
<1> DEFINE w == Set({"implement"}, "pending")
           v == [w EXCEPT !.status["create-plan"] = "needs_update"]
<1>1. /\ At("implement") /\ Spend("answers", MaxAnswers) /\ Writes(v, "boundary", "none")
      /\ saved' = saved /\ SameWorld /\ SamePast
  BY DEF RouteBack, SameWorld, SamePast, past, place
<1>2. "boundary" \in Place /\ "answers" \in Budget
  BY DEF Place, Budget
<1>3. Spent("answers")
  BY <1>1, <1>2, SpendDoes DEF Spent
<1>4. /\ w \in Workflow
      /\ \A f \in WfField \ {"status"} : w[f] = wf[f]
      /\ \A t \in StepId : w.status[t] = IF t \in {"implement"} THEN "pending" ELSE wf.status[t]
  <2>1. wf \in Workflow /\ w = Set({"implement"}, "pending")
    BY DEF Typed
  <2> HIDE DEF w
  <2> QED
    BY <2>1, Names, SetDoes, SMTT(30)
<1> HIDE DEF w
<1>5. v \in Workflow /\ \A f \in WfField \ {"status"} : v[f] = w[f]
  BY <1>4, Names DEF Workflow, WfField
<1>6. \A t \in StepId : v.status[t] = IF t = "create-plan" THEN "needs_update" ELSE w.status[t]
  BY <1>4, Names DEF Workflow
<1> HIDE DEF v
<1>7. wf' = v /\ RunIs("boundary", "none")
  BY <1>1, <1>2, WritesDoes
<1> QED
  BY <1>1, <1>3, <1>4, <1>5, <1>6, <1>7, Constants DEF At, WfBut, Before

LEMMA ReviewReworkDoes ==
    ASSUME Typed, ReviewRework
    PROVE  \E back \in SUBSET Before :
             /\ "review" \in back /\ back \subseteq StepId
             /\ Turn("review", back, "pending", IF run.batch THEN "counting" ELSE "select",
                     IF run.batch THEN "review" ELSE "none")
             /\ IF run.batch THEN wf.reviews < 1 /\ used' = used ELSE Spent("answers")
             /\ SameWorld /\ SamePast
<1>1. PICK back \in {{"implement", "review"}, {"review"}} :
        Writes(Set(back, "pending"), IF run.batch THEN "counting" ELSE "select",
               IF run.batch THEN "review" ELSE "none")
  BY DEF ReviewRework
<1>2. "counting" \in Place /\ "select" \in Place /\ "answers" \in Budget /\ run.batch \in BOOLEAN
  BY DEF Place, Budget, Typed, RunType
<1>3. back \in SUBSET StepId /\ back \in SUBSET Before /\ "review" \in back
  BY Names DEF Before
<1>4. IF run.batch THEN wf.reviews < 1 /\ used' = used ELSE Spent("answers")
  BY <1>2, Constants, SpendDoes DEF ReviewRework, Spent
<1>5. /\ WfBut({"status"}) /\ Statuses(back, "pending")
      /\ RunIs(IF run.batch THEN "counting" ELSE "select", IF run.batch THEN "review" ELSE "none")
  BY <1>1, <1>2, <1>3, Names, Setting
<1> QED
  BY <1>3, <1>4, <1>5 DEF ReviewRework, Turn, At, SameWorld, SamePast, past, place

LEMMA CountDoes ==
    ASSUME Typed, CountReviewRework
    PROVE  /\ run.at = "counting" /\ wf = saved /\ saved' = saved
           /\ WfBut({"reviews"}) /\ wf'.reviews = wf.reviews + 1 /\ RunIs("select", "none")
           /\ SameWorld /\ SamePast /\ used' = used
<1>1. wf' = [wf EXCEPT !.reviews = @ + 1] /\ RunIs("select", "none")
  BY WritesDoes DEF CountReviewRework, Place
<1>2. WfBut({"reviews"}) /\ wf'.reviews = wf.reviews + 1
  BY <1>1 DEF WfBut, Workflow, WfField, Typed
<1> QED
  BY <1>1, <1>2 DEF CountReviewRework, At, SameWorld, SamePast, past, place

LEMMA GateDoes ==
    ASSUME Typed, ReviewGateAbort
    PROVE  Turn("review", {"review"}, "pending", "gone", "none") /\ SameWorld /\ SamePast /\ used' = used
<1>1. "gone" \in Place
  BY DEF Place
<1> QED
  BY <1>1, Names, Setting DEF ReviewGateAbort, Turn, At, SameWorld, SamePast, past, place

LEMMA PassesDoes ==
    ASSUME Typed, VerifyPasses
    PROVE  /\ run.at = "verify" /\ wf = saved /\ saved' = saved
           /\ WfBut({"status", "items"}) /\ Statuses({"verify"}, "completed")
           /\ RunIs("boundary", "none") /\ verified' = TRUE
           /\ SameButLitter /\ SameBooks /\ used' = used
<1> DEFINE w == Set({"verify"}, "completed")
<1>1. /\ At("verify") /\ Writes([w EXCEPT !.items = {}], "boundary", "none")
      /\ saved' = saved /\ verified' = TRUE
      /\ SameButLitter /\ SameBooks /\ used' = used
  BY DEF VerifyPasses, Typed, SameButLitter, SameBooks
<1>2. /\ w \in Workflow
      /\ \A f \in WfField \ {"status"} : w[f] = wf[f]
      /\ \A t \in StepId : w.status[t] = IF t \in {"verify"} THEN "completed" ELSE wf.status[t]
  <2>1. wf \in Workflow /\ w = Set({"verify"}, "completed")
    BY DEF Typed
  <2> HIDE DEF w
  <2> QED
    BY <2>1, Names, SetDoes, SMTT(30)
<1> HIDE DEF w
<1>3. wf' = [w EXCEPT !.items = {}] /\ RunIs("boundary", "none")
  BY <1>1, WritesDoes DEF Place
<1>4. wf' \in Workflow /\ wf'.status = w.status /\ \A f \in WfField \ {"items"} : wf'[f] = w[f]
  BY <1>2, <1>3 DEF Workflow, WfField
<1> QED
  BY <1>1, <1>2, <1>3, <1>4 DEF At, WfBut, Statuses

LEMMA FindsDoes ==
    ASSUME Typed, VerifyFinds
    PROVE  /\ run.at = "verify" /\ wf = saved /\ saved' = saved
           /\ WfBut({"items"}) /\ RunIs("fail", "none")
           /\ SameButLitter /\ SamePast /\ used' = used
<1>1. PICK found \in SUBSET Item : Writes([wf EXCEPT !.items = found], "fail", "none")
  BY DEF VerifyFinds
<1>2. wf' = [wf EXCEPT !.items = found] /\ RunIs("fail", "none")
  BY <1>1, WritesDoes DEF Place
<1>3. WfBut({"items"})
  BY <1>2 DEF WfBut, Workflow, WfField, Typed
<1> QED
  BY <1>2, <1>3 DEF VerifyFinds, At, Typed, SameButLitter, SamePast, past

LEMMA FailsDoes ==
    ASSUME Typed, VerifyFails
    PROVE  /\ run.at = "fail" /\ wf = saved /\ saved' = saved
           /\ WfBut({"status", "rounds", "counts"}) /\ Statuses({"verify"}, "failed")
           /\ RunIs("decide", "none")
           /\ IF run.batch
              THEN /\ wf'.rounds = wf.rounds + 1
                   /\ \A i \in Item : wf'.counts[i] = wf.counts[i] + IF i \in wf.items THEN 1 ELSE 0
              ELSE wf'.rounds = wf.rounds /\ wf'.counts = wf.counts
           /\ SameWorld /\ SamePast /\ used' = used
<1> DEFINE w == Set({"verify"}, "failed")
<1>1. /\ At("fail") /\ Writes(IF run.batch THEN Counted(w) ELSE w, "decide", "none")
      /\ saved' = saved /\ SameWorld /\ SamePast /\ used' = used
  BY DEF VerifyFails, SameWorld, SamePast, past, place
<1>2. /\ w \in Workflow
      /\ \A f \in WfField \ {"status"} : w[f] = wf[f]
      /\ \A t \in StepId : w.status[t] = IF t \in {"verify"} THEN "failed" ELSE wf.status[t]
  <2>1. wf \in Workflow /\ w = Set({"verify"}, "failed")
    BY DEF Typed
  <2> HIDE DEF w
  <2> QED
    BY <2>1, Names, SetDoes, SMTT(30)
<1> HIDE DEF w
<1>3. wf' = (IF run.batch THEN Counted(w) ELSE w) /\ RunIs("decide", "none")
  BY <1>1, WritesDoes DEF Place
<1>4. w.counts = wf.counts /\ w.rounds = wf.rounds /\ w.items = wf.items
  BY <1>2 DEF WfField
<1>5. CASE run.batch
  <2> DEFINE c == [i \in Item |-> wf.counts[i] + IF i \in wf.items THEN 1 ELSE 0]
  <2>1. c \in [Item -> Nat]
    BY Fields DEF Typed
  <2>2. wf' = [w EXCEPT !.rounds = @ + 1, !.counts = c]
    <3>1. wf' = [w EXCEPT !.rounds = @ + 1,
                          !.counts = [i \in Item |-> @[i] + IF i \in w.items THEN 1 ELSE 0]]
      BY <1>3, <1>5 DEF Counted
    <3>2. w.counts = wf.counts /\ w.items = wf.items
      BY <1>4
    <3> QED
      BY <3>1, <3>2
  <2> HIDE DEF c
  <2>6. wf' \in Workflow
    <3>1. w.rounds \in Nat /\ w.rounds + 1 \in Nat
      BY <1>2, Fields
    <3> QED
      BY <1>2, <2>1, <2>2, <3>1 DEF Workflow
  <2>3. /\ wf'.status = w.status /\ wf'.rounds = w.rounds + 1 /\ wf'.counts = c
        /\ \A f \in WfField \ {"rounds", "counts"} : wf'[f] = w[f]
    <3>1. DOMAIN w = WfField
      BY <1>2, Fields
    <3> QED
      BY <2>2, <3>1 DEF WfField
  <2>4. WfBut({"status", "rounds", "counts"}) /\ Statuses({"verify"}, "failed")
    BY <1>2, <2>3, <2>6 DEF WfBut, Statuses
  <2>5. \A i \in Item : c[i] = wf.counts[i] + IF i \in wf.items THEN 1 ELSE 0
    BY DEF c
  <2> QED
    BY <1>1, <1>3, <1>4, <1>5, <2>3, <2>4, <2>5 DEF At
<1>6. CASE ~run.batch
  BY <1>1, <1>2, <1>3, <1>4, <1>6 DEF At, WfBut, Statuses
<1> QED
  BY <1>5, <1>6

LEMMA DecideDoes ==
    ASSUME Typed, DecideRework
    PROVE  /\ run.at = "decide" /\ wf = saved /\ saved' = saved
           /\ \/ run.batch /\ wf' = wf /\ Capped /\ RunIs("select", run.why) /\ used' = used
              \/ run.batch /\ wf' = wf /\ ~Capped /\ RunIs("replan", run.why) /\ used' = used
              \/ ~run.batch /\ wf' = wf /\ RunIs("replan", run.why) /\ Spent("answers")
              \/ /\ WfBut({"status"}) /\ Statuses({"review", "verify"}, "pending")
                 /\ RunIs("select", "none") /\ Spent("answers")
              \/ wf' = wf /\ Ended /\ used' = used
           /\ SameWorld /\ SamePast
<1>1. "select" \in Place /\ "replan" \in Place /\ "answers" \in Budget /\ run.batch \in BOOLEAN
  BY DEF Place, Budget, Typed, RunType
<1>2. Spend("answers", MaxAnswers) => Spent("answers")
  BY <1>1, SpendDoes DEF Spent
<1>3. At("decide") /\ saved' = saved /\ SameWorld /\ SamePast
  BY DEF DecideRework, SameWorld, SamePast, past, place
<1> QED
  BY <1>1, <1>2, <1>3, Names, Setting, GoDoes, StopDoes DEF DecideRework, At

LEMMA ReplanDoes ==
    ASSUME Typed, Replan
    PROVE  /\ \/ \E back \in SUBSET StepId :
                   /\ "verify" \in back /\ back \subseteq {"implement", "verify"}
                   /\ Turn("replan", back, "pending", "boundary",
                           IF run.batch THEN "verify" ELSE "none")
              \/ /\ run.at = "replan" /\ wf = saved /\ saved' = saved /\ WfBut({"status"})
                 /\ RunIs("record", IF run.batch THEN "verify" ELSE "none")
                 /\ wf'.status["verify"] = wf.status["verify"]
                 /\ wf'.status["retrospect"] = wf.status["retrospect"]
              \/ Quits("replan")
           /\ SameWorld /\ SamePast /\ used' = used
<1>1. At("replan") /\ saved' = saved /\ SameWorld /\ SamePast /\ used' = used
  BY DEF Replan, SameWorld, SamePast, past, place
<1>2. CASE \E back \in {{"implement", "verify"}, {"verify"}} :
             Writes(Set(back, "pending"), "boundary", IF run.batch THEN "verify" ELSE "none")
  <2>1. PICK back \in {{"implement", "verify"}, {"verify"}} :
             Writes(Set(back, "pending"), "boundary", IF run.batch THEN "verify" ELSE "none")
    BY <1>2
  <2>2. back \in SUBSET StepId /\ "verify" \in back /\ back \subseteq {"implement", "verify"}
    BY Names
  <2>3. "boundary" \in Place /\ run.batch \in BOOLEAN
    BY DEF Place, Typed, RunType
  <2>4. /\ WfBut({"status"}) /\ Statuses(back, "pending")
        /\ RunIs("boundary", IF run.batch THEN "verify" ELSE "none")
    BY <2>1, <2>2, <2>3, Names, Setting
  <2> QED
    BY <1>1, <2>2, <2>4 DEF Turn, At
<1>3. CASE Stop /\ UNCHANGED wf
  BY <1>1, <1>3, StopDoes DEF Quits, At, SameFile
<1>4. CASE ChangeSpec
  BY <1>1, <1>4, ChangeSpecDoes DEF At
<1> QED
  BY <1>2, <1>3, <1>4 DEF Replan

\* A ruling of the hook is of one sight of what is there.
LEMMA RulingIs ==
    ASSUME NEW command, NEW cwd, NEW unattended, NEW r \in Ruling(command, cwd, unattended)
    PROVE  /\ r.denied \in BOOLEAN /\ r.allowed \in BOOLEAN
           /\ \E s \in Sight(cwd) :
                /\ r.denied <=> Verdict(command, s, unattended) = "deny"
                /\ r.allowed <=> (Verdict(command, s, unattended) = "ask" \/ ~s.parser)
<1>1. PICK s \in Sight(cwd) :
        r = [denied |-> Verdict(command, s, unattended) = "deny",
             allowed |-> Verdict(command, s, unattended) = "ask" \/ ~s.parser]
  BY DEF Ruling
<1> DEFINE d == Verdict(command, s, unattended) = "deny"
           a == Verdict(command, s, unattended) = "ask" \/ ~s.parser
<1>2. d \in BOOLEAN /\ a \in BOOLEAN
  OBVIOUS
<1>3. r = [denied |-> d, allowed |-> a]
  BY <1>1
<1>4. /\ d <=> Verdict(command, s, unattended) = "deny"
      /\ a <=> (Verdict(command, s, unattended) = "ask" \/ ~s.parser)
  OBVIOUS
<1> HIDE DEF d, a
<1>5. r.denied = d /\ r.allowed = a
  BY <1>3
<1> QED
  BY <1>2, <1>4, <1>5, Zenon

LEMMA PassesBy ==
    ASSUME NEW command, NEW cwd, NEW unattended, Passes(command, cwd, unattended)
    PROVE  /\ allowed' \in BOOLEAN
           /\ ~allowed' => \E s \in Sight(cwd) :
                s.parser /\ Verdict(command, s, unattended) \notin {"ask", "deny"}
<1>1. PICK r \in Ruling(command, cwd, unattended) : ~r.denied /\ allowed' = r.allowed
  BY DEF Passes
<1> QED
  BY <1>1, RulingIs

\* Step C: the file stays as it is.
EndAt == {"finish", "cleanup", "drop", "delete"}

LEMMA EndingDoes ==
    ASSUME Typed, Keep \/ Merge \/ CreatePr \/ RemoveWorktree \/ DeleteBranch
    PROVE  /\ run.at \in EndAt /\ wf = saved /\ SameFile
           /\ Ended \/ \E p \in EndAt : RunIs(p, run.why)
           /\ worktree' \in BOOLEAN /\ branch' \in BOOLEAN /\ allowed' \in BOOLEAN
           /\ landed' \in {"no", "merged", "pr"} /\ litter' = litter
           /\ SamePast /\ used' = used
<1> DEFINE Does == /\ run.at \in EndAt /\ wf = saved /\ SameFile
                   /\ Ended \/ \E p \in EndAt : RunIs(p, run.why)
                   /\ worktree' \in BOOLEAN /\ branch' \in BOOLEAN /\ allowed' \in BOOLEAN
                   /\ landed' \in {"no", "merged", "pr"} /\ litter' = litter
                   /\ SamePast /\ used' = used
<1>0. /\ worktree \in BOOLEAN /\ branch \in BOOLEAN /\ allowed \in BOOLEAN
      /\ landed \in {"no", "merged", "pr"} /\ litter \in BOOLEAN
      /\ EndAt \subseteq Place
  BY DEF Typed, EndAt, Place
<1>1. \A p \in EndAt : Go(p) => RunIs(p, run.why)
  BY <1>0, GoDoes
<1>2. ASSUME NEW command, NEW cwd, NEW unattended, Passes(command, cwd, unattended)
      PROVE  allowed' \in BOOLEAN
  BY <1>2, PassesBy
<1>3. CASE Keep
  BY <1>0, <1>1, <1>3 DEF Keep, At, EndAt, SameFile, SamePast, past, place
<1>4. CASE Merge
  BY <1>0, <1>1, <1>4, StopDoes DEF Merge, At, EndAt, SameFile, SamePast, past
<1>5. CASE CreatePr
  BY <1>0, <1>1, <1>2, <1>5, StopDoes DEF CreatePr, At, EndAt, SameFile, SamePast, past
<1>6. CASE RemoveWorktree
  <2>1. \A command, cwd, unattended : \A r \in Ruling(command, cwd, unattended) :
            r.denied \in BOOLEAN /\ r.allowed \in BOOLEAN
    BY RulingIs
  <2>2. worktree' \in BOOLEAN /\ allowed' \in BOOLEAN
    BY <1>0, <1>6, <2>1 DEF RemoveWorktree
  <2>3. Ended \/ \E p \in EndAt : RunIs(p, run.why)
    BY <1>1, <1>6, StopDoes DEF RemoveWorktree, EndAt
  <2> QED
    BY <1>0, <1>6, <2>2, <2>3 DEF RemoveWorktree, At, EndAt, SameFile, SamePast, past
<1>7. CASE DeleteBranch
  BY <1>0, <1>2, <1>7, StopDoes DEF DeleteBranch, At, EndAt, SameFile, SamePast, past
<1> QED
  BY <1>3, <1>4, <1>5, <1>6, <1>7

LEMMA CrashDoes ==
    ASSUME Typed, Crash
    PROVE  /\ run.at # "off" /\ Ended /\ SameFile /\ Spent("crashes")
           /\ UNCHANGED <<worktree, branch, litter, landed, allowed>> /\ SamePast
<1>1. Spent("crashes")
  BY SpendDoes DEF Crash, Incident, Spent, Budget
<1> QED
  BY <1>1, StopDoes DEF Crash, SameFile, SamePast, place, past

LEMMA MendDoes ==
    ASSUME Typed, Mend
    PROVE  /\ run.at = "off" /\ wf = saved /\ saved' = wf' /\ run' = run
           /\ WfBut({"status", "kind"})
           /\ \E s \in StepId : wf.status[s] \in {"failed", "needs_update"} /\ Statuses({s}, "pending")
           /\ Spent("mends") /\ UNCHANGED <<worktree, branch, litter, landed, allowed>> /\ SamePast
<1>1. PICK s \in FailedSteps(wf) \cup (IF Aborted(wf) THEN {"create-spec"} ELSE {}) :
        wf' = [Set({s}, "pending") EXCEPT !.kind = IF s = "implement" THEN "none" ELSE @]
  BY DEF Mend
<1>2. s \in StepId /\ wf.status[s] \in {"failed", "needs_update"}
  BY Fields, Names DEF FailedSteps, Aborted, Typed
<1> DEFINE w == Set({s}, "pending")
<1>3. /\ w \in Workflow
      /\ \A f \in WfField \ {"status"} : w[f] = wf[f]
      /\ \A t \in StepId : w.status[t] = IF t \in {s} THEN "pending" ELSE wf.status[t]
  <2>1. wf \in Workflow /\ w = Set({s}, "pending") /\ {s} \in SUBSET StepId
    BY <1>2 DEF Typed
  <2> HIDE DEF w
  <2> QED
    BY <2>1, Names, SetDoes, SMTT(30)
<1>4. wf' = [w EXCEPT !.kind = IF s = "implement" THEN "none" ELSE @]
  BY <1>1
<1> HIDE DEF w
<1>5. wf' \in Workflow /\ wf'.status = w.status /\ \A f \in WfField \ {"kind"} : wf'[f] = w[f]
  <2> DEFINE k == IF s = "implement" THEN "none" ELSE w.kind
  <2>1. k \in {"none", "infra", "decision"} /\ wf' = [w EXCEPT !.kind = k]
    BY <1>3, <1>4 DEF Workflow
  <2> HIDE DEF k
  <2> QED
    BY <1>3, <2>1 DEF Workflow, WfField
<1>6. WfBut({"status", "kind"}) /\ Statuses({s}, "pending")
  BY <1>3, <1>5 DEF WfBut, Statuses
<1>7. Spent("mends")
  BY SpendDoes DEF Mend, Incident, Spent, Budget
<1> QED
  BY <1>2, <1>6, <1>7 DEF Mend, SamePast, past, place

LEMMA OwnCommandDoes ==
    ASSUME Typed, OwnCommand
    PROVE  /\ run.at = "off" /\ run' = run /\ SameFile /\ Spent("commands")
           /\ worktree' \in BOOLEAN /\ branch' \in BOOLEAN /\ allowed' \in BOOLEAN
           /\ landed' \in {"no", "merged", "pr"} /\ litter' = litter
           /\ SamePast
<1>1. Spent("commands")
  BY SpendDoes DEF OwnCommand, Incident, Spent, Budget
<1>2. ASSUME NEW command, NEW cwd, NEW unattended, Passes(command, cwd, unattended)
      PROVE  allowed' \in BOOLEAN
  BY <1>2, PassesBy
<1>3. allowed' \in BOOLEAN
  BY <1>2 DEF OwnCommand
<1>4. worktree' \in BOOLEAN /\ branch' \in BOOLEAN
  BY DEF OwnCommand, Typed
<1>5. landed' \in {"no", "merged", "pr"}
  BY DEF OwnCommand, Typed
<1> QED
  BY <1>1, <1>3, <1>4, <1>5 DEF OwnCommand, SameFile, SamePast, past

-----------------------------------------------------------------------------
(* The counters *)

Books == InfraCounted /\ VerifyCounted /\ ReviewCounted

\* Most steps write no counter, return nothing of their own accord and decide nothing.
SameCounters == /\ \A f \in {"resumes", "reviews", "rounds", "counts", "items"} :
                      wf'[f] = wf[f] /\ saved'[f] = saved[f]
Plain ==
    /\ SameCounters /\ SameBooks
    /\ run'.why \in {run.why, "none"} /\ run.at # "counting"
    /\ run'.at \notin {"counting", "decide", "replan"}
    /\ used'["crashes"] = used["crashes"]
    /\ run.at = "off" => run'.at = "off"
    /\ run.at # "off" /\ run'.at = "off" => wf = saved

LEMMA Counters ==
    ASSUME Typed
    PROVE  /\ wf.resumes \in Nat /\ wf.reviews \in Nat /\ wf.rounds \in Nat /\ wf.counts \in [Item -> Nat]
           /\ saved.resumes \in Nat /\ saved.reviews \in Nat /\ saved.rounds \in Nat
           /\ saved.counts \in [Item -> Nat]
           /\ auto["infra"] \in Nat /\ auto["review"] \in Nat /\ auto["verify"] \in Nat
           /\ reworked \in [Item -> Nat] /\ used["crashes"] \in Nat /\ used["mends"] \in Nat
BY Fields DEF Typed, Why, Budget

LEMMA PlainKeeps ==
    ASSUME Typed, Books, Plain
    PROVE  Books'
<1>1. InfraCounted'
  BY Counters DEF Plain, SameCounters, SameBooks, Books, InfraCounted, Owed
<1>2. VerifyCounted'
  BY Counters DEF Plain, SameCounters, SameBooks, Books, VerifyCounted, Owed, OwedOn
<1>3. ReviewCounted'
  BY Counters DEF Plain, SameCounters, SameBooks, Books, ReviewCounted, Owed
<1> QED
  BY <1>1, <1>2, <1>3 DEF Books

\* The steps that are plain, and how they leave the state typed.
Quiet ==
    \/ Entry \/ SelectStep \/ StopOnFailed \/ SelectFinish \/ Boundary \/ PlanPhase
    \/ ImplementCompletes \/ ImplementFails \/ RouteBack \/ ReviewCompletes \/ ReviewGateAbort
    \/ ConsumeChange \/ SpecPhase \/ ReviewSpecChange \/ RecordChange
    \/ RetrospectPhase \/ Keep \/ Merge \/ CreatePr \/ RemoveWorktree \/ DeleteBranch
    \/ Mend \/ OwnCommand

LEMMA QuietTyped ==
    ASSUME Typed, Quiet
    PROVE  Typed'
<1>1. ASSUME Entry \/ SelectStep \/ StopOnFailed \/ SelectFinish \/ Boundary PROVE Typed'
  BY <1>1, EntryDoes, SelectDoes, StopsDoes, FinishDoes
     DEF Typed, WfBut, RunIs, Ended, SameFile, SamePast
<1>2. ASSUME PlanPhase \/ RetrospectPhase \/ ImplementCompletes \/ ReviewCompletes \/ ReviewGateAbort
      PROVE Typed'
  BY <1>2, PlansDoes, CompletesDoes, GateDoes
     DEF Typed, WfBut, RunIs, Ended, SameFile, SamePast, SameBooks, SameWorld, Turn, Quits
<1>3. ASSUME ImplementFails \/ RouteBack PROVE Typed'
  BY <1>3, ImplementFailsDoes, RouteBackDoes DEF Typed, WfBut, RunIs, Spent, SamePast, SameWorld
<1>4. ASSUME Keep \/ Merge \/ CreatePr \/ RemoveWorktree \/ DeleteBranch PROVE Typed'
  BY <1>4, EndingDoes DEF Typed, RunIs, Ended, SameFile, SamePast
<1>5. ASSUME Mend PROVE Typed'
  BY <1>5, MendDoes DEF Typed, WfBut, Spent, SamePast
<1>6. ASSUME OwnCommand PROVE Typed'
  BY <1>6, OwnCommandDoes DEF Typed, Spent, SameFile, SamePast
<1>7. ASSUME ConsumeChange \/ RecordChange \/ ReviewSpecChange PROVE Typed'
  BY <1>7, ChangeDoes, ReviewSpecDoes DEF Typed, WfBut, RunIs, Spent, SamePast, SameWorld
<1>8. ASSUME SpecPhase PROVE Typed'
  BY <1>8, SpecDoes DEF Typed, WfBut, RunIs, Ended, SameFile, SamePast, SameWorld, Turn, Quits
<1> QED
  BY <1>1, <1>2, <1>3, <1>4, <1>5, <1>6, <1>7, <1>8 DEF Quiet

LEMMA QuietPlain ==
    ASSUME Typed, ReviewCounted, Quiet
    PROVE  Plain
<1> USE Counters DEF Plain, SameCounters, SameBooks, SamePast, WfField
<1>1. ASSUME Entry \/ SelectStep \/ StopOnFailed \/ SelectFinish \/ Boundary PROVE Plain
  BY <1>1, EntryDoes, SelectDoes, StopsDoes, FinishDoes, Constants
     DEF WfBut, RunIs, Ended, SameFile, Before
<1>2. ASSUME PlanPhase \/ RetrospectPhase \/ ImplementCompletes \/ ReviewCompletes \/ ReviewGateAbort
      PROVE Plain
  BY <1>2, PlansDoes, CompletesDoes, GateDoes
     DEF WfBut, RunIs, Ended, SameFile, Turn, Quits
<1>3. ASSUME ImplementFails \/ RouteBack PROVE Plain
  BY <1>3, ImplementFailsDoes, RouteBackDoes DEF WfBut, RunIs, Spent, Budget
<1>4. ASSUME Keep \/ Merge \/ CreatePr \/ RemoveWorktree \/ DeleteBranch PROVE Plain
  BY <1>4, EndingDoes DEF RunIs, Ended, SameFile, EndAt
<1>5. ASSUME Mend PROVE Plain
  BY <1>5, MendDoes DEF WfBut, Spent, Budget
<1>6. ASSUME OwnCommand PROVE Plain
  BY <1>6, OwnCommandDoes DEF Spent, SameFile, Budget
<1>7. ASSUME ConsumeChange \/ RecordChange \/ ReviewSpecChange PROVE Plain
  BY <1>7, ChangeDoes, ReviewSpecDoes DEF WfBut, RunIs, Spent, Budget
<1>8. ASSUME SpecPhase PROVE Plain
  BY <1>8, SpecDoes DEF WfBut, RunIs, Ended, SameFile, Turn, Quits
<1> QED
  BY <1>1, <1>2, <1>3, <1>4, <1>5, <1>6, <1>7, <1>8 DEF Quiet

\* The steps that count, decide, or return a step of their own accord.
LEMMA CommitKeeps ==
    ASSUME Typed, Books, Commit
    PROVE  Typed' /\ Books'
<1> USE CommitDoes, Counters
<1>1. Typed'
  BY DEF Typed, RunIs
<1>2. \A w \in Why : Owed(w)' = 0
  BY DEF Owed, RunIs, Why
<1>3. \A i : OwedOn(i)' = 0
  BY DEF OwedOn, RunIs
<1>4. InfraCounted'
  BY <1>2 DEF Books, InfraCounted, Owed, Why
<1>5. VerifyCounted'
  <2>1. auto["verify"]' = auto["verify"] + Owed("verify")
    BY DEF Why
  <2>2. \A i \in Item : reworked[i]' = reworked[i] + OwedOn(i) /\ OwedOn(i) \in Nat /\ OwedOn(i)' = 0
    BY <1>3 DEF OwedOn
  <2>3. Owed("verify") \in Nat /\ Owed("verify")' = 0
    BY <1>2 DEF Owed, Why
  <2>4. Capped' = Capped
    BY DEF Capped
  <2>5. wf.items \subseteq Item
    BY Fields DEF Typed
  <2> QED
    BY <2>1, <2>2, <2>3, <2>4, <2>5 DEF Books, VerifyCounted, RunIs
<1>6. ReviewCounted'
  BY <1>2 DEF Books, ReviewCounted, Owed, Why, RunIs
<1> QED
  BY <1>1, <1>4, <1>5, <1>6 DEF Books

LEMMA LaunchKeeps ==
    ASSUME Typed, Books, Launch
    PROVE  Typed' /\ Books'
<1> USE LaunchDoes, Counters
<1>1. Typed'
  BY DEF Typed, SamePast, Spent
<1>2. InfraCounted'
  BY DEF Books, InfraCounted, Owed, SamePast
<1>3. VerifyCounted'
  BY DEF Books, VerifyCounted, Owed, OwedOn, SamePast
<1>4. ReviewCounted'
  BY DEF Books, ReviewCounted, Owed, SamePast, Spent, Budget
<1> QED
  BY <1>1, <1>2, <1>3, <1>4 DEF Books

LEMMA CrashKeeps ==
    ASSUME Typed, Books, Crash
    PROVE  Typed' /\ Books'
<1> USE CrashDoes, Counters
<1>1. Typed'
  BY DEF Typed, SamePast, Spent, SameFile, Ended
<1>2. InfraCounted'
  BY DEF Books, InfraCounted, Owed, SamePast, SameFile, Ended
<1>3. VerifyCounted'
  BY DEF Books, VerifyCounted, Owed, OwedOn, SamePast, SameFile, Ended
<1>4. ReviewCounted'
  BY DEF Books, ReviewCounted, Owed, SamePast, Spent, Budget, SameFile, Ended
<1> QED
  BY <1>1, <1>2, <1>3, <1>4 DEF Books

LEMMA ResumeKeeps ==
    ASSUME Typed, Books, ResumeInfra
    PROVE  Typed' /\ Books'
<1> USE ResumeDoes, Counters
<1>1. Typed'
  BY DEF Typed, SamePast, WfBut, RunIs
<1>2. InfraCounted'
  BY DEF Books, InfraCounted, Owed, SamePast, RunIs
<1>3. VerifyCounted'
  BY DEF Books, VerifyCounted, Owed, OwedOn, SamePast, RunIs, WfBut, WfField
<1>4. ReviewCounted'
  BY DEF Books, ReviewCounted, Owed, SamePast, RunIs, WfBut, WfField
<1> QED
  BY <1>1, <1>2, <1>3, <1>4 DEF Books

LEMMA ReviewReworkKeeps ==
    ASSUME Typed, Books, ReviewRework
    PROVE  Typed' /\ Books'
<1> USE ReviewReworkDoes, Counters
<1>1. Typed'
  BY DEF Typed, SamePast, SameWorld, WfBut, RunIs, Turn, Spent
<1>2. /\ WfBut({"status"}) /\ saved' = saved /\ wf = saved /\ run.at = "review" /\ SamePast
      /\ used'["crashes"] = used["crashes"]
      /\ \/ run.batch /\ wf.reviews < 1 /\ run'.at = "counting" /\ run'.why = "review"
         \/ ~run.batch /\ run'.at = "select" /\ run'.why = "none"
  BY DEF Turn, RunIs, Spent, Budget
<1>3. InfraCounted'
  BY <1>2 DEF Books, InfraCounted, Owed, SamePast, WfBut, WfField
<1>4. VerifyCounted'
  BY <1>2 DEF Books, VerifyCounted, Owed, OwedOn, SamePast, WfBut, WfField
<1>5. ReviewCounted'
  BY <1>2 DEF Books, ReviewCounted, Owed, SamePast, WfBut, WfField
<1> QED
  BY <1>1, <1>3, <1>4, <1>5 DEF Books

LEMMA CountKeeps ==
    ASSUME Typed, Books, CountReviewRework
    PROVE  Typed' /\ Books'
<1> USE CountDoes, Counters
<1>1. Typed'
  BY DEF Typed, SamePast, SameWorld, WfBut, RunIs
<1>2. InfraCounted'
  BY DEF Books, InfraCounted, Owed, SamePast, RunIs, WfBut, WfField
<1>3. VerifyCounted'
  BY DEF Books, VerifyCounted, Owed, OwedOn, SamePast, RunIs, WfBut, WfField
<1>4. ReviewCounted'
  BY DEF Books, ReviewCounted, Owed, SamePast, RunIs
<1> QED
  BY <1>1, <1>2, <1>3, <1>4 DEF Books

LEMMA JudgesKeeps ==
    ASSUME Typed, Books, VerifyPasses \/ VerifyFinds
    PROVE  Typed' /\ Books'
<1>1. /\ WfBut({"status", "items"}) /\ saved' = saved /\ wf = saved /\ run.at = "verify"
      /\ run' \in RunType /\ run'.at \in {"boundary", "fail"} /\ run'.why = "none"
      /\ verified' \in BOOLEAN /\ SameBooks /\ SameButLitter /\ used' = used
  BY PassesDoes, FindsDoes DEF WfBut, RunIs, SamePast, SameBooks, Typed
<1> USE <1>1, Counters
<1>2. Typed'
  BY DEF Typed, SameBooks, SameButLitter, WfBut
<1>3. InfraCounted'
  BY DEF Books, InfraCounted, Owed, SameBooks, WfBut, WfField
<1>4. VerifyCounted'
  BY DEF Books, VerifyCounted, Owed, OwedOn, SameBooks, WfBut, WfField
<1>5. ReviewCounted'
  BY DEF Books, ReviewCounted, Owed, SameBooks, WfBut, WfField
<1> QED
  BY <1>2, <1>3, <1>4, <1>5 DEF Books

LEMMA FailsKeeps ==
    ASSUME Typed, Books, VerifyFails
    PROVE  Typed' /\ Books'
<1> USE FailsDoes, Counters
<1>1. Typed'
  BY DEF Typed, SamePast, SameWorld, WfBut, RunIs
<1>2. InfraCounted'
  BY DEF Books, InfraCounted, Owed, SamePast, RunIs, WfBut, WfField
<1>3. VerifyCounted'
  <2>1. wf.items \subseteq Item /\ wf'.items = wf.items
    BY Fields DEF Typed, WfBut, WfField
  <2>2. Owed("verify")' = 0 /\ Owed("verify") \in Nat /\ \A i : OwedOn(i)' = 0 /\ OwedOn(i) \in Nat
    BY DEF Owed, OwedOn, RunIs
  <2>3. wf'.counts \in [Item -> Nat]
    BY Fields DEF WfBut, Workflow
  <2> QED
    BY <2>1, <2>2, <2>3 DEF Books, VerifyCounted, SamePast, RunIs
<1>4. ReviewCounted'
  BY DEF Books, ReviewCounted, Owed, SamePast, RunIs, WfBut, WfField
<1> QED
  BY <1>1, <1>2, <1>3, <1>4 DEF Books

LEMMA DecideKeeps ==
    ASSUME Typed, Books, DecideRework
    PROVE  Typed' /\ Books'
<1> USE DecideDoes, Counters
<1>1. Typed'
  BY DEF Typed, SamePast, SameWorld, WfBut, RunIs, Ended, Spent
<1>2. /\ saved' = saved /\ wf = saved /\ run.at = "decide" /\ SamePast
      /\ used'["crashes"] = used["crashes"]
      /\ \A f \in WfField \ {"status"} : wf'[f] = wf[f]
      /\ run'.why \in {run.why, "none"} /\ run'.at \in {"select", "replan", "off"}
      /\ run'.at = "replan" => wf' = wf /\ run'.batch = run.batch /\ (run.batch => ~Capped)
  BY DEF RunIs, Ended, WfBut, Spent, Budget
<1>3. InfraCounted'
  BY <1>2 DEF Books, InfraCounted, Owed, SamePast, WfField
<1>4. VerifyCounted'
  <2>1. wf' = wf => Capped' = Capped
    BY DEF Capped
  <2>2. /\ run'.at = "replan" /\ run'.batch => run.at = "decide" /\ run.batch
        /\ wf'.rounds = wf.rounds /\ wf'.counts = wf.counts /\ wf'.items = wf.items
    BY <1>2 DEF WfField
  <2>3. \A i : OwedOn(i)' \in {OwedOn(i), 0} /\ OwedOn(i) \in {0, 1}
    BY <1>2, <2>2 DEF OwedOn
  <2>4. Owed("verify")' \in {Owed("verify"), 0} /\ Owed("verify") \in {0, 1}
    BY <1>2 DEF Owed
  <2>5. wf.items \subseteq Item
    BY Fields DEF Typed
  <2>6. /\ auto' = auto /\ reworked' = reworked
    BY DEF SamePast
  <2>7. run'.at # "decide"
    BY <1>2
  <2> QED
    BY <1>2, <2>1, <2>2, <2>3, <2>4, <2>5, <2>6, <2>7 DEF Books, VerifyCounted
<1>5. ReviewCounted'
  BY <1>2 DEF Books, ReviewCounted, Owed, SamePast, WfField
<1> QED
  BY <1>1, <1>3, <1>4, <1>5 DEF Books

LEMMA ReplanKeeps ==
    ASSUME Typed, Books, Replan
    PROVE  Typed' /\ Books'
<1>1. Typed'
  BY ReplanDoes DEF Typed, SamePast, SameWorld, WfBut, RunIs, Ended, Turn, Quits, SameFile
<1>2. /\ saved' = saved /\ wf = saved /\ run.at = "replan" /\ SamePast /\ used' = used
      /\ \A f \in WfField \ {"status"} : wf'[f] = wf[f]
      /\ \/ run.batch /\ run'.why = "verify" /\ run'.at \in {"boundary", "record"}
         \/ run'.why = "none" /\ run'.at \in {"boundary", "record", "off"}
  BY ReplanDoes DEF RunIs, Ended, WfBut, Turn, Quits, SameFile
<1> USE <1>2, Counters
<1>3. InfraCounted'
  BY DEF Books, InfraCounted, Owed, SamePast, WfField
<1>4. VerifyCounted'
  <2>1. wf'.rounds = wf.rounds /\ wf'.counts = wf.counts /\ wf'.items = wf.items
    BY DEF WfField
  <2>2. wf.items \subseteq Item
    BY Fields DEF Typed
  <2>3. CASE run.batch /\ run'.why = "verify" /\ run'.at \in {"boundary", "record"}
    <3>1. wf.rounds < 3 /\ \A i \in wf.items : wf.counts[i] < 2
      BY <2>2, <2>3, Constants DEF Books, VerifyCounted, Capped
    <3> QED
      BY <2>1, <2>2, <2>3, <3>1 DEF Books, VerifyCounted, Owed, OwedOn, SamePast
  <2>4. CASE run'.why = "none" /\ run'.at \in {"boundary", "record", "off"}
    BY <2>1, <2>2, <2>4 DEF Books, VerifyCounted, Owed, OwedOn, SamePast
  <2> QED
    BY <2>3, <2>4
<1>5. ReviewCounted'
  BY DEF Books, ReviewCounted, Owed, SamePast, WfField
<1> QED
  BY <1>1, <1>3, <1>4, <1>5 DEF Books

-----------------------------------------------------------------------------
(* What the file and the branch say *)

Told == Passed(wf) /\ Passed(saved) /\ RetrospectLast(wf) /\ RetrospectLast(saved)

LEMMA AllDoneIs ==
    ASSUME Typed
    PROVE  /\ \A s \in StepId : Done(s) <=> wf.status[s] = "completed"
           /\ AllDone <=> \A s \in StepId : wf.status[s] = "completed"
BY Fields DEF Typed, Done, AllDone, Status

\* A step that leaves the files as they are, or takes one over from the other.
LEMMA FilesKept ==
    ASSUME Typed, Told, wf' \in {wf, saved}, saved' \in {wf, saved}, verified' = verified,
           used'["mends"] = used["mends"]
    PROVE  Told'
BY DEF Told, Passed, RetrospectLast, VerifyDecided, Completed, CappedIn

\* While a step before verify is not done, verify is not.
LEMMA Untested ==
    ASSUME Typed, Told, wf = saved, saved' = saved,
           NEW x \in Before, wf.status[x] # "completed",
           \/ wf'.status["verify"] = wf.status["verify"]
           \/ wf'.status["verify"] # "completed",
           wf'.status["retrospect"] = wf.status["retrospect"],
           used'["mends"] = used["mends"]
    PROVE  Told' /\ wf.status["verify"] # "completed" /\ ~VerifyDecided(wf)
<1>1. ~VerifyDecided(wf) /\ wf.status["verify"] # "completed"
  BY DEF Told, Passed, VerifyDecided, Completed
<1>2. Passed(wf)' /\ Passed(saved)'
  BY <1>1 DEF Passed
<1>3. used["mends"] = 0 => wf.status["retrospect"] # "completed"
  BY <1>1 DEF Told, RetrospectLast
<1> QED
  BY <1>1, <1>2, <1>3 DEF Told, RetrospectLast

\* While retrospect is not done, nothing is said of it.
LEMMA Unreported ==
    ASSUME Typed, Told, saved' = wf,
           used'["mends"] = used["mends"],
           used["mends"] = 0 => wf.status["retrospect"] # "completed" /\ wf'.status["retrospect"] # "completed"
    PROVE  RetrospectLast(wf)' /\ RetrospectLast(saved)'
BY DEF RetrospectLast

LEMMA QuietTold ==
    ASSUME Typed, Typed', Told, Placed, Quiet
    PROVE  Told'
<1> USE Constants
<1>1. Before \subseteq StepId /\ "verify" \in StepId /\ "retrospect" \in StepId
  BY DEF Before
<1>2. CASE Entry
  <2>1. CASE wf' = wf
    BY <1>2, <2>1, EntryDoes, FilesKept DEF SamePast
  <2>2. CASE wf.status["implement"] = "failed" /\ Statuses({"implement"}, "pending")
    BY <1>1, <1>2, <2>2, EntryDoes, Untested DEF Statuses, Before
  <2> QED
    BY <1>2, <2>1, <2>2, EntryDoes
<1>3. CASE SelectStep
  <2>1. PICK s \in StepId :
          /\ \/ s = "create-plan" /\ wf' = wf /\ RunIs(s, run.why)
             \/ /\ s # "create-plan" /\ WfBut({"status"}) /\ Statuses({s}, "in_progress")
                /\ RunIs(s, "none")
          /\ wf.status[s] # "completed"
          /\ s = "verify" => Completed(wf, Before)
          /\ s = "retrospect" => VerifyDecided(wf)
          /\ s # "retrospect" => wf.status[s] # "failed"
    BY <1>3, SelectDoes
  <2>2. wf = saved /\ saved' = saved /\ SamePast /\ used' = used
    BY <1>3, SelectDoes
  <2>3. CASE wf' = wf
    BY <2>2, <2>3, FilesKept DEF SamePast
  <2>4. CASE s \in Before /\ Statuses({s}, "in_progress")
    BY <1>1, <2>1, <2>2, <2>4, Untested DEF Statuses, Before
  <2>5. CASE s = "verify" /\ Statuses({s}, "in_progress")
    <3>1. ~VerifyDecided(wf)
      BY <2>1, <2>5 DEF VerifyDecided
    <3>2. Passed(wf)' /\ Passed(saved)'
      BY <1>1, <2>1, <2>2, <2>5 DEF Told, Passed, Statuses, SamePast
    <3>3. RetrospectLast(wf)' /\ RetrospectLast(saved)'
      BY <1>1, <2>2, <2>5, <3>1 DEF Told, RetrospectLast, Statuses
    <3> QED
      BY <3>2, <3>3 DEF Told
  <2>6. CASE s = "retrospect" /\ Statuses({s}, "in_progress")
    <3>1. Passed(wf)' /\ Passed(saved)'
      BY <1>1, <2>1, <2>2, <2>6 DEF Told, Passed, Statuses, SamePast, Completed, Before
    <3>2. RetrospectLast(wf)' /\ RetrospectLast(saved)'
      BY <1>1, <2>1, <2>2, <2>6 DEF Told, RetrospectLast, Statuses
    <3> QED
      BY <3>1, <3>2 DEF Told
  <2> QED
    BY <2>1, <2>3, <2>4, <2>5, <2>6
<1>4. CASE StopOnFailed \/ SelectFinish \/ Boundary \/ Keep \/ Merge \/ CreatePr \/ RemoveWorktree
             \/ DeleteBranch \/ OwnCommand
  <2>1. wf' = wf /\ saved' = saved /\ verified' = verified /\ used'["mends"] = used["mends"]
    BY <1>4, StopsDoes, FinishDoes, EndingDoes, OwnCommandDoes DEF SameFile, SamePast, Spent, Budget
  <2> QED
    BY <2>1, FilesKept
<1>5. CASE PlanPhase
  <2>1. wf = saved /\ saved' = saved /\ verified' = verified /\ used' = used
    BY <1>5, PlansDoes DEF Turn, Quits, SameFile, SamePast
  <2>2. CASE wf' = wf
    BY <2>1, <2>2, FilesKept
  <2>3. CASE WfBut({"status"}) /\ Statuses({"create-plan"}, "completed")
    <3>1. /\ \A t \in StepId : wf'.status[t] \in {wf.status[t], "completed"}
          /\ wf'.status["verify"] = wf.status["verify"]
          /\ wf'.status["retrospect"] = wf.status["retrospect"]
          /\ wf'.rounds = wf.rounds /\ wf'.items = wf.items /\ wf'.counts = wf.counts
      BY <1>1, <2>3 DEF Statuses, WfBut, WfField
    <3>2. \A S \in SUBSET StepId : Completed(wf, S) => Completed(wf, S)'
      BY <3>1 DEF Completed
    <3>3. VerifyDecided(wf) => VerifyDecided(wf)'
      BY <1>1, <3>1, <3>2 DEF VerifyDecided, CappedIn
    <3>4. Passed(wf)' /\ Passed(saved)'
      BY <1>1, <2>1, <3>1, <3>2 DEF Told, Passed, Completed
    <3>5. RetrospectLast(saved)'
      BY <2>1 DEF Told, RetrospectLast, VerifyDecided, Completed, CappedIn
    <3>6. RetrospectLast(wf)'
      BY <2>1, <3>1, <3>3 DEF Told, RetrospectLast
    <3> QED
      BY <3>4, <3>5, <3>6 DEF Told
  <2> QED
    BY <1>5, <2>2, <2>3, PlansDoes DEF Turn, Quits, SameFile, PlanPhase, At
<1>6. CASE ImplementCompletes \/ ImplementFails \/ RouteBack \/ ReviewCompletes \/ ReviewGateAbort
  <2>1. /\ wf = saved /\ saved' = saved /\ used'["mends"] = used["mends"]
        /\ run.at \in {"implement", "review"}
        /\ wf'.status["verify"] = wf.status["verify"]
        /\ wf'.status["retrospect"] = wf.status["retrospect"]
    BY <1>1, <1>6, CompletesDoes, ImplementFailsDoes, RouteBackDoes, GateDoes
       DEF Turn, Statuses, Spent, Budget
  <2>2. wf.status["implement"] # "completed" \/ wf.status["review"] # "completed"
    BY <2>1 DEF Placed
  <2> QED
    BY <2>1, <2>2, Untested DEF Before
<1>7. CASE RetrospectPhase
  <2>1. /\ run.at = "retrospect" /\ wf = saved /\ saved' = saved /\ WfBut({"status"})
        /\ Statuses({"retrospect"}, "completed") /\ SamePast /\ used' = used
    BY <1>7, PlansDoes DEF Turn, Quits, RetrospectPhase, At
  <2>2. VerifyDecided(wf)
    BY <2>1 DEF Placed
  <2>3. /\ \A t \in Before : wf'.status[t] = wf.status[t]
        /\ wf'.status["verify"] = wf.status["verify"]
        /\ wf'.rounds = wf.rounds /\ wf'.items = wf.items /\ wf'.counts = wf.counts
    BY <1>1, <2>1 DEF Statuses, WfBut, WfField, Before
  <2>4. VerifyDecided(wf)' /\ VerifyDecided(saved)'
    BY <2>1, <2>2, <2>3 DEF VerifyDecided, Completed, CappedIn
  <2>5. Passed(wf)' /\ Passed(saved)'
    BY <2>1, <2>3 DEF Told, Passed, Completed, SamePast
  <2> QED
    BY <2>4, <2>5 DEF Told, RetrospectLast
<1>8. CASE Mend
  <2>1. PICK s \in StepId : wf.status[s] \in {"failed", "needs_update"} /\ Statuses({s}, "pending")
    BY <1>8, MendDoes
  <2>2. saved' = wf' /\ SamePast /\ used'["mends"] # 0
    BY <1>8, MendDoes, Counters DEF Spent, Budget
  <2>3. Passed(wf)'
    BY <1>1, <2>1, <2>2 DEF Told, Passed, Completed, Statuses, SamePast, Before
  <2> QED
    BY <2>2, <2>3 DEF Told, RetrospectLast, Passed
<1>9. CASE ReviewSpecChange
  <2>1. /\ wf = saved /\ saved' = saved /\ used'["mends"] = used["mends"] /\ run.at = "review"
        /\ wf'.status["verify"] = wf.status["verify"]
        /\ wf'.status["retrospect"] = wf.status["retrospect"]
    BY <1>9, ReviewSpecDoes DEF Spent, Budget
  <2>2. wf.status["review"] # "completed"
    BY <2>1 DEF Placed
  <2> QED
    BY <2>1, <2>2, Untested DEF Before
<1>10. CASE SpecPhase
  <2>1. /\ wf = saved /\ saved' = saved /\ used' = used /\ run.at = "specify"
        /\ wf'.status["verify"] = wf.status["verify"]
        /\ wf'.status["retrospect"] = wf.status["retrospect"]
    BY <1>1, <1>10, SpecDoes DEF Turn, Quits, SameFile, Statuses
  <2>2. wf.status["create-spec"] # "completed"
    BY <2>1 DEF Placed
  <2> QED
    BY <2>1, <2>2, Untested DEF Before
<1>11. CASE ConsumeChange \/ RecordChange
  <2>1. /\ wf = saved /\ saved' = saved /\ SamePast /\ used' = used
        /\ wf'.status = wf.status /\ wf'.rounds = wf.rounds /\ wf'.counts = wf.counts
        /\ wf'.items = wf.items
    BY <1>11, ChangeDoes DEF WfBut, WfField
  <2> QED
    BY <2>1 DEF Told, Passed, RetrospectLast, VerifyDecided, Completed, CappedIn, SamePast
<1> QED
  BY <1>2, <1>3, <1>4, <1>5, <1>6, <1>7, <1>8, <1>9, <1>10, <1>11 DEF Quiet

LEMMA BusyTold ==
    ASSUME Typed, Typed', Told, Placed,
           \/ Commit \/ Launch \/ Crash \/ ResumeInfra \/ ReviewRework \/ CountReviewRework
           \/ VerifyPasses \/ VerifyFinds \/ VerifyFails \/ DecideRework \/ Replan
    PROVE  Told'
<1>1. Before \subseteq StepId /\ "verify" \in StepId /\ "retrospect" \in StepId
  BY Constants DEF Before
<1>2. CASE Commit \/ Launch \/ Crash
  <2>1. /\ wf' \in {wf, saved} /\ saved' \in {wf, saved} /\ verified' = verified
        /\ used'["mends"] = used["mends"]
    BY <1>2, CommitDoes, LaunchDoes, CrashDoes DEF SameFile, SamePast, Spent, Budget
  <2> QED
    BY <2>1, FilesKept
<1>3. CASE ResumeInfra
  BY <1>1, <1>3, ResumeDoes, Untested DEF Statuses, Before
<1>4. CASE ReviewRework
  <2>1. PICK back \in SUBSET Before : Turn("review", back, "pending",
                IF run.batch THEN "counting" ELSE "select", IF run.batch THEN "review" ELSE "none")
    BY <1>4, ReviewReworkDoes
  <2>2. /\ wf = saved /\ saved' = saved /\ wf.status["review"] # "completed"
        /\ wf'.status["verify"] = wf.status["verify"]
        /\ wf'.status["retrospect"] = wf.status["retrospect"]
    BY <1>1, <2>1 DEF Turn, Statuses, Placed, Before
  <2>3. used'["mends"] = used["mends"]
    BY <1>4, ReviewReworkDoes DEF Spent, Budget
  <2> QED
    BY <2>2, <2>3, Untested DEF Before
<1>5. CASE CountReviewRework
  <2>1. /\ wf = saved /\ saved' = saved /\ SamePast /\ used' = used
        /\ wf'.status = wf.status /\ wf'.rounds = wf.rounds /\ wf'.counts = wf.counts
        /\ wf'.items = wf.items
    BY <1>5, CountDoes DEF WfBut, WfField
  <2> QED
    BY <2>1 DEF Told, Passed, RetrospectLast, VerifyDecided, Completed, CappedIn, SamePast
<1>6. CASE VerifyPasses
  <2>1. /\ wf = saved /\ saved' = saved /\ verified' = TRUE /\ used' = used
        /\ Statuses({"verify"}, "completed")
    BY <1>6, PassesDoes
  <2>2. Completed(wf, Before)
    BY <1>6, PassesDoes DEF Placed
  <2>3. Completed(wf, Before)' /\ wf'.status["verify"] = "completed"
        /\ wf'.status["retrospect"] = wf.status["retrospect"]
    BY <1>1, <2>1, <2>2 DEF Completed, Statuses, Before
  <2>4. Passed(wf)' /\ Passed(saved)'
    BY <2>1, <2>2, <2>3 DEF Passed, Completed
  <2>5. RetrospectLast(wf)'
    BY <2>3 DEF RetrospectLast, VerifyDecided, Completed
  <2>6. RetrospectLast(saved)'
    BY <2>1 DEF Told, RetrospectLast, VerifyDecided, Completed, CappedIn
  <2> QED
    BY <2>4, <2>5, <2>6 DEF Told
<1>7. CASE VerifyFinds
  <2>1. /\ wf = saved /\ saved' = saved /\ used' = used /\ SamePast /\ run.at = "verify"
        /\ wf'.status = wf.status
    BY <1>7, FindsDoes DEF WfBut, WfField
  <2>2. Passed(wf)' /\ Passed(saved)'
    BY <2>1 DEF Told, Passed, Completed, SamePast
  <2>3. used["mends"] = 0 => wf.status["retrospect"] # "completed"
    BY <2>1 DEF Placed
  <2> QED
    BY <2>1, <2>2, <2>3 DEF Told, RetrospectLast
<1>8. CASE VerifyFails \/ DecideRework \/ Replan
  <2>1. /\ wf = saved /\ saved' = saved /\ SamePast /\ run.at \in {"fail", "decide", "replan"}
        /\ used'["mends"] = used["mends"]
        /\ wf'.status["retrospect"] = wf.status["retrospect"]
        /\ wf'.status["verify"] # "completed" \/ wf'.status = wf.status
    <3>1. CASE VerifyFails
      BY <1>1, <3>1, FailsDoes DEF Statuses
    <3>2. CASE DecideRework
      BY <1>1, <3>2, DecideDoes DEF Statuses, Spent, Budget
    <3>3. CASE Replan
      <4>1. run.at = "replan"
        BY <3>3 DEF Replan, At
      <4>2. wf.status["verify"] # "completed"
        BY <4>1 DEF Placed
      <4> QED
        BY <1>1, <3>3, <4>2, ReplanDoes DEF Statuses, Turn, Quits, SameFile
    <3> QED
      BY <1>8, <3>1, <3>2, <3>3
  <2>2. Passed(wf)' /\ Passed(saved)'
    BY <2>1 DEF Told, Passed, Completed, SamePast
  <2>3. used["mends"] = 0 => wf.status["retrospect"] # "completed"
    BY <2>1 DEF Placed
  <2> QED
    BY <2>1, <2>2, <2>3 DEF Told, RetrospectLast
<1> QED
  BY <1>2, <1>3, <1>4, <1>5, <1>6, <1>7, <1>8

-----------------------------------------------------------------------------
(* Where the run stands *)

LEMMA PlacedKept ==
    ASSUME Typed, Typed', Told, Placed, Next
    PROVE  Placed'
<1> DEFINE Claims == StepId \cup {"specify", "fail", "decide", "replan"} \cup EndAt
<1>1. Before \subseteq StepId /\ "verify" \in StepId /\ "retrospect" \in StepId
      /\ StepId = Before \cup {"verify", "retrospect"}
  BY Constants DEF Before
<1>2. wf' = wf => /\ VerifyDecided(wf)' = VerifyDecided(wf)
                  /\ AllDone' = AllDone /\ CapEnd' = CapEnd
                  /\ Completed(wf, Before)' = Completed(wf, Before)
  BY DEF VerifyDecided, Completed, CappedIn, AllDone, CapEnd, Capped, Done
\* Elsewhere nothing is claimed.
<1>3. ASSUME run'.at \notin Claims PROVE Placed'
  BY <1>1, <1>3 DEF Placed, EndAt, Before
<1>4. ASSUME wf' = wf, run'.at = run.at, used'["mends"] >= used["mends"] PROVE Placed'
  BY <1>2, <1>4, Counters DEF Placed, EndAt
<1>5. CASE Commit
  BY <1>4, <1>5, CommitDoes, Counters DEF RunIs
<1>6. CASE Launch \/ Crash
  BY <1>1, <1>3, <1>6, LaunchDoes, CrashDoes DEF Ended, EndAt, Before
<1>7. CASE Mend \/ OwnCommand
  <2>1. run'.at = "off"
    BY <1>7, MendDoes, OwnCommandDoes
  <2> QED
    BY <1>1, <1>3, <2>1 DEF EndAt, Before
<1>8. CASE Entry \/ ResumeInfra \/ StopOnFailed \/ Boundary \/ ImplementCompletes \/ ImplementFails
           \/ RouteBack \/ ReviewCompletes \/ ReviewRework \/ CountReviewRework
           \/ ReviewGateAbort \/ VerifyPasses \/ Replan \/ PlanPhase \/ RetrospectPhase
           \/ SpecPhase \/ ReviewSpecChange \/ RecordChange
  <2>1. CASE Entry \/ ResumeInfra \/ StopOnFailed \/ Boundary
    <3>1. run'.at \in {"select", "off"}
      BY <2>1, EntryDoes, ResumeDoes, StopsDoes DEF RunIs, Ended
    <3> QED
      BY <1>1, <1>3, <3>1 DEF EndAt, Before
  <2>2. CASE ImplementCompletes \/ ImplementFails \/ RouteBack \/ ReviewCompletes
    <3>1. run'.at \in {"select", "boundary"}
      BY <2>2, CompletesDoes, ImplementFailsDoes, RouteBackDoes DEF RunIs, Turn
    <3> QED
      BY <1>1, <1>3, <3>1 DEF EndAt, Before
  <2>3. CASE ReviewRework \/ CountReviewRework \/ ReviewGateAbort \/ VerifyPasses
    <3>1. run'.at \in {"select", "boundary", "counting", "gone"}
      BY <2>3, ReviewReworkDoes, CountDoes, GateDoes, PassesDoes DEF RunIs, Turn
    <3> QED
      BY <1>1, <1>3, <3>1 DEF EndAt, Before
  <2>4. CASE Replan \/ PlanPhase \/ RetrospectPhase
    <3>1. run'.at \in {"boundary", "record", "off"}
      BY <2>4, ReplanDoes, PlansDoes DEF RunIs, Turn, Quits, Ended
    <3> QED
      BY <1>1, <1>3, <3>1 DEF EndAt, Before
  <2>5. CASE SpecPhase \/ ReviewSpecChange \/ RecordChange
    <3>1. run.at = "record" => ~ConsumeChange
      BY DEF ConsumeChange, At
    <3>2. run'.at \in {"boundary", "select", "record", "off"}
      BY <2>5, <3>1, SpecDoes, ReviewSpecDoes, ChangeDoes DEF RunIs, Turn, Quits, Ended, RecordChange, At
    <3> QED
      BY <1>1, <1>3, <3>2 DEF EndAt, Before
  <2> QED
    BY <1>8, <2>1, <2>2, <2>3, <2>4, <2>5
<1>9. CASE SelectStep
  <2>1. PICK s \in StepId :
          /\ \/ s = "create-plan" /\ wf' = wf /\ RunIs(s, run.why)
             \/ /\ s # "create-plan" /\ WfBut({"status"}) /\ Statuses({s}, "in_progress")
                /\ RunIs(s, "none")
          /\ wf.status[s] # "completed"
          /\ s = "verify" => Completed(wf, Before)
          /\ s = "retrospect" => VerifyDecided(wf)
          /\ s # "retrospect" => wf.status[s] # "failed"
    BY <1>9, SelectDoes
  <2>2. run'.at = s /\ used' = used
    BY <1>9, <2>1, SelectDoes DEF RunIs
  <2>3. s \in Before \cup {"verify"} => ~VerifyDecided(wf)
    BY <2>1 DEF VerifyDecided, Completed
  <2>4. s # "retrospect" /\ used["mends"] = 0 => wf.status["retrospect"] # "completed"
    BY <1>1, <2>1, <2>3 DEF Told, RetrospectLast
  <2>5. s # "retrospect" => wf'.status["retrospect"] = wf.status["retrospect"]
    BY <1>1, <2>1 DEF Statuses
  <2>6. s \in {"create-spec", "implement", "review"} => wf'.status[s] = "in_progress"
    BY <2>1 DEF Statuses
  <2>7. s = "verify" => Completed(wf, Before)'
    BY <1>1, <2>1 DEF Statuses, Completed, Before
  <2>8. s = "retrospect" => VerifyDecided(wf)'
    <3>1. SUFFICES ASSUME s = "retrospect" PROVE VerifyDecided(wf)'
      OBVIOUS
    <3>2. /\ \A t \in Before \cup {"verify"} : wf'.status[t] = wf.status[t]
          /\ wf'.rounds = wf.rounds /\ wf'.items = wf.items /\ wf'.counts = wf.counts
      BY <1>1, <2>1, <3>1 DEF Statuses, Before, WfBut, WfField
    <3> QED
      BY <2>1, <3>1, <3>2 DEF VerifyDecided, Completed, CappedIn
  <2> QED
    BY <1>1, <2>2, <2>4, <2>5, <2>6, <2>7, <2>8 DEF Placed, Before
<1>10. CASE VerifyFinds
  <2>1. run.at = "verify" /\ run'.at = "fail" /\ wf'.status = wf.status /\ used' = used
    BY <1>10, FindsDoes DEF RunIs, WfBut, WfField
  <2> QED
    BY <2>1 DEF Placed
<1>11. CASE VerifyFails
  <2>1. /\ run.at = "fail" /\ run'.at = "decide" /\ used' = used
        /\ wf'.status["retrospect"] = wf.status["retrospect"]
        /\ wf'.status["verify"] = "failed"
    BY <1>1, <1>11, FailsDoes DEF RunIs, Statuses
  <2> QED
    BY <2>1 DEF Placed
<1>12. CASE DecideRework
  <2>1. /\ run.at = "decide" /\ used'["mends"] = used["mends"]
        /\ \/ run'.at = "replan" /\ wf' = wf
           \/ run'.at \in {"select", "off"}
    BY <1>12, DecideDoes DEF RunIs, Ended, Spent, Budget
  <2>2. CASE run'.at = "replan" /\ wf' = wf
    BY <2>1, <2>2 DEF Placed
  <2>3. CASE run'.at \in {"select", "off"}
    BY <1>1, <1>3, <2>3 DEF EndAt, Before
  <2> QED
    BY <2>1, <2>2, <2>3
<1>13. CASE SelectFinish
  <2>1. wf' = wf /\ run'.at = "finish" /\ (AllDone \/ CapEnd)
    BY <1>13, FinishDoes DEF RunIs, SameFile
  <2> QED
    BY <1>2, <2>1 DEF Placed
<1>14. CASE Keep \/ Merge \/ CreatePr \/ RemoveWorktree \/ DeleteBranch
  <2>1. wf' = wf /\ run.at \in EndAt /\ (run'.at \in EndAt \/ run'.at = "off")
    BY <1>14, EndingDoes DEF RunIs, Ended, SameFile
  <2>2. AllDone \/ CapEnd
    BY <2>1 DEF Placed, EndAt
  <2> QED
    BY <1>2, <2>1, <2>2 DEF Placed, EndAt
<1>15. CASE ConsumeChange
  <2>1. run.at = "create-spec" /\ run'.at = "specify" /\ wf'.status = wf.status
    BY <1>15, ChangeDoes DEF ConsumeChange, At, RunIs, WfBut, WfField
  <2> QED
    BY <2>1 DEF Placed
<1> QED
  BY <1>5, <1>6, <1>7, <1>8, <1>9, <1>10, <1>11, <1>12, <1>13, <1>14, <1>15 DEF Next, RunStep

-----------------------------------------------------------------------------
(* The invariant *)

LEMMA InitHolds == Init => IInv
<1> SUFFICES ASSUME Init PROVE IInv
  OBVIOUS
<1>1. wf \in Workflow /\ wf = NewWorkflow /\ saved = NewWorkflow
  <2>1. [s \in StepId |-> IF s \in {"create-spec", "create-plan"} THEN "completed" ELSE "pending"]
          \in [StepId -> Status]
    BY DEF Status
  <2>2. [i \in Item |-> 0] \in [Item -> Nat]
    OBVIOUS
  <2> QED
    BY <2>1, <2>2, Constants DEF Init, NewWorkflow, Workflow
<1>2. run \in RunType /\ run.at = "off" /\ run.why = "none" /\ run.batch = FALSE
  BY DEF Init, Idle, RunType, Place
<1>3. Typed
  BY <1>1, <1>2 DEF Init, Typed
<1>4. /\ wf.resumes = 0 /\ wf.reviews = 0 /\ wf.rounds = 0 /\ \A i \in Item : wf.counts[i] = 0
      /\ wf.status["verify"] = "pending" /\ wf.status["retrospect"] = "pending"
  BY <1>1, Constants DEF NewWorkflow
<1>5. Books
  <2>1. InfraCounted
    BY <1>1, <1>2, <1>4 DEF Init, InfraCounted, Owed, Why
  <2>2. VerifyCounted
    BY <1>1, <1>2, <1>4 DEF Init, VerifyCounted, Owed, OwedOn, Why
  <2>3. ReviewCounted
    BY <1>1, <1>2, <1>4 DEF Init, ReviewCounted, Owed, Why, Budget
  <2> QED
    BY <2>1, <2>2, <2>3 DEF Books
<1>6. Told
  BY <1>1, <1>4 DEF Told, Passed, RetrospectLast
<1>7. Placed
  BY <1>2 DEF Placed
<1> QED
  BY <1>3, <1>5, <1>6, <1>7 DEF IInv, Books, Decided, Told

LEMMA NextKeeps ==
    ASSUME IInv, [Next]_vars
    PROVE  IInv'
<1>1. Typed /\ Books /\ Told /\ Placed
  BY DEF IInv, Books, Decided, Told
<1>2. CASE Quiet
  <2>1. Typed'
    BY <1>1, <1>2, QuietTyped
  <2>2. Books'
    BY <1>1, <1>2, QuietPlain, PlainKeeps DEF Books
  <2>3. Told' /\ Placed'
    BY <1>1, <1>2, <2>1, QuietTold, PlacedKept DEF Quiet, Next, RunStep
  <2> QED
    BY <2>1, <2>2, <2>3 DEF IInv, Books, Decided, Told
<1>3. CASE \/ Commit \/ Launch \/ Crash \/ ResumeInfra \/ ReviewRework \/ CountReviewRework
           \/ VerifyPasses \/ VerifyFinds \/ VerifyFails \/ DecideRework \/ Replan
  <2>1. Typed' /\ Books'
    BY <1>1, <1>3, CommitKeeps, LaunchKeeps, CrashKeeps, ResumeKeeps, ReviewReworkKeeps, CountKeeps,
       JudgesKeeps, FailsKeeps, DecideKeeps, ReplanKeeps
  <2>2. Told' /\ Placed'
    BY <1>1, <1>3, <2>1, BusyTold, PlacedKept DEF Next, RunStep
  <2> QED
    BY <2>1, <2>2 DEF IInv, Books, Decided, Told
<1>4. CASE UNCHANGED vars
  BY <1>4 DEF vars, IInv, Typed, InfraCounted, VerifyCounted, ReviewCounted, Decided, Owed, OwedOn,
     Passed, RetrospectLast, VerifyDecided, Completed, CappedIn, Placed, AllDone, CapEnd, Capped, Done
<1> QED
  BY <1>2, <1>3, <1>4 DEF Next, RunStep, Quiet

\* The invariant: what the counters in the two copies of workflow.yaml owe to
\* each other and to what has run, and what the run's place says of the file.
THEOREM Invariance == Spec => []IInv
BY InitHolds, NextKeeps, PTL DEF Spec

UndoneTyped == undone \in BOOLEAN

LEMMA UndoneIs == Spec => []UndoneTyped
<1>1. Init => UndoneTyped
  BY DEF Init, UndoneTyped
<1>2. UndoneTyped /\ [Next]_vars => UndoneTyped'
  <2> SUFFICES ASSUME undone \in BOOLEAN, [Next]_vars PROVE undone' \in BOOLEAN
    BY DEF UndoneTyped
  <2>1. CASE Commit \/ Mend
    BY <2>1 DEF Commit, Mend
  <2>2. CASE Entry \/ SelectStep \/ ResumeInfra \/ StopOnFailed \/ SelectFinish \/ Boundary
             \/ ConsumeChange \/ SpecPhase \/ PlanPhase \/ ImplementFails \/ RouteBack
    BY <2>2 DEF Entry, SelectStep, ResumeInfra, StopOnFailed, SelectFinish, Boundary,
       ConsumeChange, SpecPhase, PlanPhase, ImplementFails, RouteBack, past
  <2>3. CASE ReviewRework \/ CountReviewRework \/ ReviewSpecChange \/ RecordChange \/ ReviewGateAbort
             \/ VerifyFinds \/ VerifyFails \/ DecideRework \/ Replan \/ RetrospectPhase
    BY <2>3 DEF ReviewRework, CountReviewRework, ReviewSpecChange, RecordChange, ReviewGateAbort,
       VerifyFinds, VerifyFails, DecideRework, Replan, RetrospectPhase, past
  <2>4. CASE ImplementCompletes \/ ReviewCompletes \/ VerifyPasses \/ UNCHANGED vars
    BY <2>4 DEF ImplementCompletes, ReviewCompletes, VerifyPasses, vars
  <2>5. CASE Keep \/ Merge \/ CreatePr \/ RemoveWorktree \/ DeleteBranch
             \/ Launch \/ Crash \/ OwnCommand
    BY <2>5 DEF Keep, Merge, CreatePr, RemoveWorktree, DeleteBranch, Launch, Crash, OwnCommand, past
  <2> QED
    BY <2>1, <2>2, <2>3, <2>4, <2>5 DEF Next, RunStep
<1> QED
  BY <1>1, <1>2, PTL DEF Spec

\* The type invariant of the runs.
THEOREM Typing == Spec => []TypeOK
<1>1. Typed /\ UndoneTyped => TypeOK
  <2> SUFFICES ASSUME Typed, UndoneTyped PROVE TypeOK
    OBVIOUS
  <2>1. \A w \in Workflow :
          /\ w.status \in [StepId -> Status] /\ w.kind \in {"none", "infra", "decision"}
          /\ w.change \in {"none", "open", "consumed"}
          /\ w.resumes \in 0..INFRA_RESUME_CAP /\ w.reviews \in Nat /\ w.rounds \in Nat
          /\ w.counts \in [Item -> Nat] /\ w.items \subseteq Item
    BY DEF Workflow
  <2>2. run.at \in Place /\ run.why \in Why \cup {"none"}
    BY DEF Typed, RunType
  <2> QED
    BY <2>1, <2>2 DEF Typed, TypeOK, Place, UndoneTyped
<1>2. IInv /\ UndoneTyped => TypeOK
  BY <1>1 DEF IInv
<1> QED
  BY <1>2, Invariance, UndoneIs, PTL

\* Whatever crashes, mends and changes of mode, the automatic steps that
\* skills/develop/SKILL.md counts are bounded: the counters do their work.
THEOREM Bounded == Spec => []CountedIsBounded
<1>1. IInv => CountedIsBounded
  <2> SUFFICES ASSUME IInv PROVE CountedIsBounded
    OBVIOUS
  <2>1. /\ Typed /\ InfraCounted /\ VerifyCounted /\ ReviewCounted
    BY DEF IInv
  <2>2. Owed("infra") \in {0, 1} /\ Owed("verify") \in {0, 1} /\ Owed("review") \in {0, 1}
        /\ \A i : OwedOn(i) \in {0, 1}
    BY DEF Owed, OwedOn
  <2>3. auto["infra"] =< 2 /\ auto["verify"] =< 2
    BY <2>1, <2>2, Fields, Counters DEF Typed, InfraCounted, VerifyCounted
  <2>4. \A i \in Item : reworked[i] =< 1
    BY <2>1, <2>2, Counters DEF VerifyCounted
  <2>5. auto["review"] =< 1 + used["crashes"]
    BY <2>1, <2>2, Counters DEF ReviewCounted
  <2> QED
    BY <2>3, <2>4, <2>5 DEF CountedIsBounded
<1> QED
  BY <1>1, Invariance, PTL

-----------------------------------------------------------------------------
(* What is landed, and what is kept *)

\* Away from Step C, and apart from the user's own commands, nothing is taken away.
LEMMA KeepsPlace ==
    ASSUME Typed, Next, run.at \notin EndAt, ~OwnCommand
    PROVE  (worktree => worktree') /\ landed' = landed
<1>1. CASE Launch
  BY <1>1, LaunchDoes
<1>2. CASE Crash
  BY <1>2, CrashDoes
<1>3. CASE Mend
  BY <1>3, MendDoes
<1>4. CASE Commit
  BY <1>4, CommitDoes
<1>5. CASE Entry \/ SelectStep \/ ResumeInfra \/ StopOnFailed \/ SelectFinish \/ Boundary
  BY <1>5, EntryDoes, SelectDoes, ResumeDoes, StopsDoes, FinishDoes
<1>6. CASE PlanPhase \/ RetrospectPhase \/ ImplementCompletes \/ ReviewCompletes
  <2>1. SameWorld
    BY <1>6, PlansDoes, CompletesDoes
  <2> QED
    BY <2>1 DEF SameWorld
<1>7. CASE ImplementFails \/ RouteBack \/ CountReviewRework \/ ReviewGateAbort
  BY <1>7, ImplementFailsDoes, RouteBackDoes, CountDoes, GateDoes DEF SameWorld
<1>8. CASE ReviewRework
  BY <1>8, ReviewReworkDoes DEF SameWorld
<1>9. CASE VerifyPasses \/ VerifyFinds
  <2>1. SameButLitter
    BY <1>9, PassesDoes, FindsDoes
  <2> QED
    BY <2>1 DEF SameButLitter
<1>10. CASE VerifyFails \/ DecideRework \/ Replan
  BY <1>10, FailsDoes, DecideDoes, ReplanDoes DEF SameWorld
<1>11. CASE Keep \/ Merge \/ CreatePr \/ RemoveWorktree \/ DeleteBranch
  BY <1>11, EndingDoes
<1>12. CASE ConsumeChange \/ SpecPhase \/ ReviewSpecChange \/ RecordChange
  BY <1>12, ChangeDoes, SpecDoes, ReviewSpecDoes DEF SameWorld
<1> QED
  BY <1>1, <1>2, <1>3, <1>4, <1>5, <1>6, <1>7, <1>8, <1>9, <1>10, <1>11, <1>12 DEF Next, RunStep

\* A run lands its branch, or ends it, only on code that verify has passed, or
\* with verify failed at the cap.
THEOREM VerifiedLands == Spec => OnlyVerifiedLands
<1>1. ASSUME IInv, [Next]_vars, run.at # "off", (worktree /\ ~worktree') \/ landed' # landed
      PROVE  verified \/ CapEnd
  <2>1. Typed /\ Passed(wf) /\ Placed
    BY <1>1 DEF IInv, Decided
  <2>2. Next /\ ~OwnCommand
    <3>1. Next
      BY <1>1 DEF vars
    <3> QED
      BY <1>1, <2>1, <3>1, OwnCommandDoes
  <2>3. run.at \in EndAt
    BY <1>1, <2>1, <2>2, KeepsPlace
  <2>4. AllDone \/ CapEnd
    BY <2>1, <2>3 DEF Placed, EndAt
  <2>5. AllDone => verified
    BY <2>1, AllDoneIs, Constants DEF Passed
  <2> QED
    BY <2>4, <2>5
<1>2. IInv /\ [Next]_vars =>
        [run.at # "off" /\ ((worktree /\ ~worktree') \/ landed' # landed) => verified \/ CapEnd]_vars
  BY <1>1
<1> QED
  BY <1>2, Invariance, PTL DEF Spec, OnlyVerifiedLands

\* Of a command the guard lets pass it has nothing to say of any statement.
LEMMA NoDecision ==
    ASSUME NEW command, NEW s, NEW unattended, Verdict(command, s, unattended) \notin {"ask", "deny"}
    PROVE  \A i \in DOMAIN command : ~Asks(command[i], s) /\ ~Denies(command[i], s)
BY DEF Verdict

LEMMA OwnInSight ==
    ASSUME worktree, NEW cwd, NEW s \in Sight(cwd)
    PROVE  Self \in DOMAIN s.wf /\ s.wf[Self] = wf
<1>1. PICK others \in SUBSET (Feature \ {Self}), other \in OtherWorkflow :
        s.wf = [f \in {Self} \cup others |-> IF f = Self THEN wf ELSE other]
  <2> DEFINE own == IF worktree THEN {Self} ELSE {}
             seen == UNION {{[f \in own \cup others |-> IF f = Self THEN wf ELSE other] :
                               other \in OtherWorkflow} : others \in SUBSET (Feature \ {Self})}
  <2>1. Sight(cwd) = [parser : BOOLEAN, cwd : {cwd}, wf : seen]
    BY DEF Sight
  <2>2. s.wf \in seen
    <3> HIDE DEF seen
    <3> QED
      BY <2>1
  <2>3. PICK others \in SUBSET (Feature \ {Self}), other \in OtherWorkflow :
          s.wf = [f \in own \cup others |-> IF f = Self THEN wf ELSE other]
    <3> DEFINE With(others, other) == [f \in own \cup others |-> IF f = Self THEN wf ELSE other]
    <3>1. s.wf \in UNION {{With(others, other) : other \in OtherWorkflow} : others \in SUBSET (Feature \ {Self})}
      BY <2>2
    <3> HIDE DEF With
    <3>2. PICK others \in SUBSET (Feature \ {Self}), other \in OtherWorkflow : s.wf = With(others, other)
      BY <3>1
    <3> QED
      BY <3>2 DEF With
  <2>4. own = {Self}
    OBVIOUS
  <2> HIDE DEF own
  <2> QED
    BY <2>3, <2>4
<1> QED
  BY <1>1

\* The guard lets a removal of a failed run's worktree pass only at the cap.
LEMMA LetByAtCap ==
    ASSUME worktree, Failed(wf), NEW cwd, NEW s \in Sight(cwd), s.parser, NEW stmt,
           stmt.kind = "worktree_remove", stmt.operand \in {Self, Dynamic},
           ~Asks(stmt, s), ~Denies(stmt, s)
    PROVE  is_excluded_state(wf)
<1>1. Self \in DOMAIN s.wf /\ s.wf[Self] = wf
  BY OwnInSight
<1>2. Target(stmt, s) = stmt.operand
  BY DEF Target
<1>3. ~is_excluded_state(wf) => CountsAsFailed(stmt.kind, wf)
  BY DEF CountsAsFailed
<1>4. CASE stmt.operand = Self
  BY <1>1, <1>2, <1>3, <1>4 DEF Denies
<1>5. CASE stmt.operand = Dynamic
  BY <1>1, <1>2, <1>3, <1>5 DEF Asks, any_failed_worktree
<1> QED
  BY <1>4, <1>5

\* The worktree of a feature with a failed step is not taken away, unless verify
\* failed at the cap and retrospect is done: Step C and the cleanup guard agree
\* on what that end is.
THEOREM Kept == Spec => FailedRunIsKept
<1>1. ASSUME IInv, [Next]_vars, worktree, ~worktree', Failed(wf)
      PROVE  CapEnd \/ allowed' \/ (used["mends"] > 0 /\ cap_reached(wf))
  <2>1. Typed /\ RetrospectLast(wf) /\ Placed
    BY <1>1 DEF IInv, Decided
  <2>2. DOMAIN wf.status = StepId
    BY <2>1, Fields DEF Typed
  <2>3. CASE run.at \in EndAt
    <3>1. AllDone \/ CapEnd
      BY <2>1, <2>3 DEF Placed, EndAt
    <3>2. ~AllDone
      BY <1>1, <2>1, <2>2, AllDoneIs DEF Failed, FailedSteps
    <3> QED
      BY <3>1, <3>2
  <2>4. CASE OwnCommand
    <3>1. SUFFICES ASSUME ~allowed' PROVE CapEnd \/ (used["mends"] > 0 /\ cap_reached(wf))
      OBVIOUS
    <3>2. PICK command \in Command, cwd \in Cwd :
            /\ Passes(command, cwd, FALSE)
            /\ \E i \in DOMAIN command : /\ command[i].kind = "worktree_remove"
                                         /\ command[i].operand \in {Self, Dynamic}
      BY <1>1, <2>4 DEF OwnCommand
    <3>3. PICK s \in Sight(cwd) : s.parser /\ Verdict(command, s, FALSE) \notin {"ask", "deny"}
      BY <3>1, <3>2, PassesBy
    <3>4. PICK i \in DOMAIN command : /\ command[i].kind = "worktree_remove"
                                      /\ command[i].operand \in {Self, Dynamic}
      BY <3>2
    <3>5. ~Asks(command[i], s) /\ ~Denies(command[i], s)
      BY <3>3, NoDecision
    <3>6. is_excluded_state(wf)
      BY <1>1, <3>3, <3>4, <3>5, LetByAtCap
    <3>7. /\ cap_reached(wf) /\ wf.status["verify"] = "failed" /\ wf.status["retrospect"] = "completed"
          /\ \A t \in StepId \ {"verify"} : Done(t)
      BY <2>2, <3>6 DEF is_excluded_state, FailedSteps, Done
    <3>8. CASE used["mends"] = 0
      BY <2>1, <3>7, <3>8 DEF RetrospectLast, VerifyDecided, CappedIn, CapEnd, Capped
    <3>9. CASE used["mends"] # 0
      BY <2>1, <3>7, <3>9, Counters
    <3> QED
      BY <3>8, <3>9
  <2>5. CASE run.at \notin EndAt /\ ~OwnCommand
    <3>1. Next
      BY <1>1 DEF vars
    <3> QED
      BY <1>1, <2>1, <2>5, <3>1, KeepsPlace
  <2> QED
    BY <2>3, <2>4, <2>5
<1>2. IInv /\ [Next]_vars =>
        [worktree /\ ~worktree' /\ Failed(wf)
           => CapEnd \/ allowed' \/ (used["mends"] > 0 /\ cap_reached(wf))]_vars
  BY <1>1
<1> QED
  BY <1>2, Invariance, PTL DEF Spec, FailedRunIsKept

-----------------------------------------------------------------------------
(* Least and greatest *)

LEMMA LeastOf ==
    ASSUME NEW T, T \subseteq Nat, T # {}
    PROVE  \E x \in T : \A y \in T : x <= y
<1>1. PICK x \in T : \A y \in T : ~(<<y, x>> \in OpToRel(<, Nat))
  BY NatLessThanWellFounded, WFMin
<1>2. ASSUME NEW y \in T
      PROVE  x <= y
  <2>1. ~(y < x)
    BY <1>1 DEF OpToRel
  <2> QED
    BY <2>1
<1> QED
  BY <1>2

LEMMA MinIs ==
    ASSUME NEW T, T \subseteq Nat, T # {}
    PROVE  Min(T) \in T /\ \A y \in T : Min(T) =< y
BY LeastOf DEF Min

LEMMA MaxIs ==
    ASSUME NEW n \in Nat, NEW T, T \subseteq 0..n, T # {}
    PROVE  Max(T) \in T /\ \A y \in T : Max(T) >= y
<1> DEFINE U == {n - y : y \in T}
<1>1. PICK x \in U : \A y \in U : x <= y
  <2>1. U # {}
    OBVIOUS
  <2>2. \A y \in T : n - y \in Nat
    OBVIOUS
  <2>3. U \subseteq Nat
    BY <2>2
  <2> HIDE DEF U
  <2> QED
    BY <2>1, <2>3, LeastOf
<1>2. PICK z \in T : x = n - z
  BY <1>1
<1>3. \A y \in T : n - z <= n - y
  BY <1>1, <1>2
<1>4. \A y \in T : z >= y
  BY <1>3
<1> QED
  BY <1>4 DEF Max

-----------------------------------------------------------------------------
(* The shards *)

\* A split of the first f files: every one is in a shard, none in two.
Split(s, f) ==
    /\ s \in Seq(SUBSET (1..f)) /\ Len(s) =< f
    /\ \A g \in 1..f : \E k \in 1..Len(s) : g \in s[k]
    /\ \A j, k \in 1..Len(s) : j # k => s[j] \cap s[k] = {}

LEMMA PackedIs ==
    ASSUME NEW f \in Nat, NEW s, Split(s, f), NEW chars, NEW limit
    PROVE  Split(Packed(chars, limit, s, f + 1), f + 1)
<1> DEFINE e == f + 1
           m == Packed(chars, limit, s, e)
<1>1. /\ s \in Seq(SUBSET (1..e)) /\ Len(s) \in Nat /\ Len(s) =< f
      /\ \A k \in 1..Len(s) : s[k] \subseteq 1..f /\ e \notin s[k]
      /\ 1..e = (1..f) \cup {e} /\ e \in Nat
  <2>1. 1..e = (1..f) \cup {e} /\ e \notin 1..f /\ e \in Nat
    OBVIOUS
  <2>2. s \in Seq(SUBSET (1..f)) /\ Len(s) \in Nat /\ Len(s) =< f
    BY DEF Split
  <2>3. \A k \in 1..Len(s) : s[k] \subseteq 1..f
    BY <2>2
  <2> HIDE DEF e
  <2>4. SUBSET (1..f) \subseteq SUBSET (1..e)
    BY <2>1
  <2>5. s \in Seq(SUBSET (1..e))
    BY <2>2, <2>4
  <2> QED
    BY <2>1, <2>2, <2>3, <2>5
<1>2. CASE s # <<>> /\ m = ReplaceAt(s, Len(s), Last(s) \cup {e})
  <2> DEFINE n == Len(s)
  <2>1. n \in 1..f /\ m = [s EXCEPT ![n] = s[n] \cup {e}]
    <3>1. n # 0
      BY <1>1, <1>2
    <3> QED
      BY <1>1, <1>2, <3>1 DEF ReplaceAt, Last
  <2>2. s[n] \cup {e} \in SUBSET (1..e)
    BY <1>1, <2>1
  <2>3. /\ m \in Seq(SUBSET (1..e)) /\ Len(m) = n
        /\ \A k \in 1..n : m[k] = IF k = n THEN s[k] \cup {e} ELSE s[k]
    <3> DEFINE new == s[n] \cup {e}
    <3> HIDE DEF m, e, new
    <3> DEFINE S == SUBSET (1..e)
    <3>0. s \in Seq(S)
      BY <1>1
    <3>1. m = [s EXCEPT ![n] = new] /\ new \in S /\ n \in 1..Len(s)
      BY <1>1, <2>1, <2>2 DEF new
    <3> HIDE DEF S, n
    <3>2. m \in Seq(S) /\ Len(m) = Len(s) /\ \A k \in 1..Len(s) : m[k] = IF k = n THEN new ELSE s[k]
      BY <3>0, <3>1
    <3> QED
      BY <3>2 DEF new, S, n
  <2> HIDE DEF m, e, n
  <2>4. ASSUME NEW g \in 1..e
        PROVE  \E k \in 1..n : g \in m[k]
    <3>1. CASE g = e
      BY <2>1, <2>3, <3>1
    <3>2. CASE g \in 1..f
      <4>1. PICK k \in 1..n : g \in s[k]
        BY <3>2 DEF Split, n
      <4> QED
        BY <2>3, <4>1
    <3> QED
      BY <1>1, <3>1, <3>2
  <2>5. ASSUME NEW j \in 1..n, NEW k \in 1..n, j # k
        PROVE  m[j] \cap m[k] = {}
    <3>1. s[j] \cap s[k] = {} /\ e \notin s[j] /\ e \notin s[k]
      BY <1>1, <2>5 DEF Split, n
    <3> QED
      BY <2>3, <2>5, <3>1
  <2>6. n =< e
    BY <1>1, <2>1 DEF e
  <2> QED
    BY <2>3, <2>4, <2>5, <2>6 DEF Split, m, e
<1>3. CASE m = Append(s, {e})
  <2> DEFINE n == Len(s)
  <2>1. {e} \in SUBSET (1..e) /\ n \in Nat
    BY <1>1
  <2>2. /\ m \in Seq(SUBSET (1..e)) /\ Len(m) = n + 1
        /\ (\A k \in 1..n : m[k] = s[k]) /\ m[n + 1] = {e}
    <3> HIDE DEF m, e
    <3> QED
      BY <1>1, <1>3, <2>1
  <2>3. 1..(n + 1) = (1..n) \cup {n + 1}
    BY <2>1
  <2>4. n + 1 =< e
    BY <1>1
  <2> HIDE DEF m, e
  <2>5. ASSUME NEW g \in 1..e
        PROVE  \E k \in 1..(n + 1) : g \in m[k]
    <3>1. CASE g = e
      BY <2>2, <2>3, <3>1
    <3>2. CASE g \in 1..f
      <4>1. PICK k \in 1..n : g \in s[k]
        BY <3>2 DEF Split
      <4> QED
        BY <2>2, <2>3, <4>1
    <3> QED
      BY <1>1, <3>1, <3>2
  <2>6. ASSUME NEW j \in 1..(n + 1), NEW k \in 1..(n + 1), j # k
        PROVE  m[j] \cap m[k] = {}
    <3>1. CASE j \in 1..n /\ k \in 1..n
      BY <2>2, <2>6, <3>1 DEF Split
    <3>2. CASE j \in 1..n /\ k = n + 1
      BY <1>1, <2>2, <3>2
    <3>3. CASE k \in 1..n /\ j = n + 1
      BY <1>1, <2>2, <3>3
    <3> QED
      BY <2>3, <2>6, <3>1, <3>2, <3>3
  <2> HIDE DEF n
  <2> QED
    BY <2>2, <2>4, <2>5, <2>6 DEF Split, m, e
<1> QED
  BY <1>2, <1>3 DEF Packed

\* What split_shards has after each file.
After(h, chars, n, limit) ==
    h = [f \in 0..n |-> IF f = 0 THEN <<>> ELSE Packed(chars, limit, h[f - 1], f)]

LEMMA AfterFiles ==
    ASSUME NEW chars, NEW n \in Nat, NEW limit
    PROVE  \E h : After(h, chars, n, limit) /\ SplitShards(chars, n, limit) = h[n]
<1> DEFINE Rec(h, k) == [f \in 0..k |-> IF f = 0 THEN <<>> ELSE Packed(chars, limit, h[f - 1], f)]
           Bad == {k \in Nat : ~\E h : h = Rec(h, k)}
<1>1. Bad = {}
  <2> SUFFICES ASSUME Bad # {} PROVE FALSE
    OBVIOUS
  <2>1. PICK k \in Bad : \A y \in Bad : k <= y
    <3>1. Bad \subseteq Nat
      OBVIOUS
    <3> HIDE DEF Bad
    <3> QED
      BY <3>1, LeastOf
  <2>2. k # 0
    <3> DEFINE g == [f \in 0..0 |-> <<>>]
    <3>1. g = Rec(g, 0)
      OBVIOUS
    <3> QED
      BY <3>1
  <2>3. PICK h : h = Rec(h, k - 1)
    <3>1. k \in Nat /\ k - 1 \in Nat /\ ~(k <= k - 1)
      BY <2>1, <2>2
    <3>2. k - 1 \notin Bad
      BY <2>1, <3>1
    <3> QED
      BY <3>1, <3>2
  <2> DEFINE g == [f \in 0..k |-> IF f = k THEN Packed(chars, limit, h[k - 1], k) ELSE h[f]]
  <2>4. ASSUME NEW f \in 0..k
        PROVE  g[f] = IF f = 0 THEN <<>> ELSE Packed(chars, limit, g[f - 1], f)
    <3>1. CASE f = k
      BY <2>2, <3>1
    <3>2. CASE f # k
      <4>1. f \in 0..(k - 1) /\ g[f] = h[f]
        BY <2>2, <3>2
      <4>2. h[f] = IF f = 0 THEN <<>> ELSE Packed(chars, limit, h[f - 1], f)
        BY <2>3, <4>1
      <4>3. f # 0 => g[f - 1] = h[f - 1]
        BY <4>1
      <4> QED
        BY <4>1, <4>2, <4>3
    <3> QED
      BY <3>1, <3>2
  <2>5. g = Rec(g, k)
    BY <2>4
  <2> QED
    BY <2>1, <2>5
<1>2. \E h : h = Rec(h, n)
  BY <1>1
<1> DEFINE after == CHOOSE h : h = Rec(h, n)
<1>3. after = Rec(after, n)
  BY <1>2
<1>4. SplitShards(chars, n, limit) = after[n]
  BY DEF SplitShards
<1>5. After(after, chars, n, limit)
  BY <1>3 DEF After
<1> QED
  BY <1>4, <1>5

\* Every split, for any sizes and limit, puts each file into exactly one shard
\* (split_shards in review-shards.py).
THEOREM ShardsPartition ==
    ASSUME NEW chars, NEW n \in Nat, NEW limit
    PROVE  Split(SplitShards(chars, n, limit), n)
<1>1. PICK h : After(h, chars, n, limit) /\ SplitShards(chars, n, limit) = h[n]
  BY AfterFiles
<1> DEFINE Bad == {f \in 0..n : ~Split(h[f], f)}
<1>2. Bad = {}
  <2> SUFFICES ASSUME Bad # {} PROVE FALSE
    OBVIOUS
  <2>1. PICK f \in Bad : \A y \in Bad : f <= y
    <3>1. Bad \subseteq Nat
      OBVIOUS
    <3> HIDE DEF Bad
    <3> QED
      BY <3>1, LeastOf
  <2>2. f # 0
    <3>1. h[0] = <<>>
      <4>1. 0 \in 0..n
        OBVIOUS
      <4> QED
        BY <1>1, <4>1 DEF After
    <3>2. Split(<<>>, 0)
      <4>1. <<>> \in Seq(SUBSET (1..0)) /\ Len(<<>>) = 0 /\ 1..0 = {}
        OBVIOUS
      <4> QED
        BY <4>1 DEF Split
    <3> QED
      BY <3>1, <3>2
  <2>3. f - 1 \in 0..n /\ f - 1 \in Nat /\ (f - 1) + 1 = f /\ ~(f <= f - 1) /\ f \in 0..n
    BY <2>2
  <2>4. Split(h[f - 1], f - 1)
    BY <2>1, <2>3
  <2>5. h[f] = Packed(chars, limit, h[f - 1], f)
    BY <1>1, <2>2, <2>3 DEF After
  <2>6. Split(h[f], f)
    BY <2>3, <2>4, <2>5, PackedIs
  <2> QED
    BY <2>6
<1>3. n \in 0..n
  OBVIOUS
<1> QED
  BY <1>1, <1>2, <1>3

-----------------------------------------------------------------------------
(* Passes and units *)

PassType ==
    [fixed : SUBSET (1..Files), split : BOOLEAN, cap : Nat, shards : Seq(SUBSET (1..Files))]

\* The whole input or a split of it.
LEMMA PassIs ==
    ASSUME NEW fixed \in SUBSET (1..Files), NEW chars
    PROVE  LET pass == NewPass(fixed, chars)
           IN  /\ pass \in PassType /\ pass.fixed = fixed
               /\ UNION Range(pass.shards) = 1..Files
               /\ pass.split => Split(pass.shards, Files)
<1> DEFINE pass == NewPass(fixed, chars)
           over == Chars(chars, 1..Files) > Limit
           shards == IF over THEN SplitShards(chars, Files, Limit) ELSE <<1..Files>>
           cap == ShardCap(DispatchCap, Cardinality(Perspective))
<1>1. Files \in Nat
  BY CountAssumption
<1>2. cap \in Nat
  BY CountAssumption DEF ShardCap
<1>3. over \in BOOLEAN
  OBVIOUS
<1>4. Split(SplitShards(chars, Files, Limit), Files)
  BY <1>1, ShardsPartition
<1>5. CASE over
  <2>1. Split(shards, Files)
    BY <1>4, <1>5
  <2> HIDE DEF shards
  <2>2. shards \in Seq(SUBSET (1..Files)) /\ \A g \in 1..Files : \E k \in 1..Len(shards) : g \in shards[k]
    BY <2>1 DEF Split
  <2>3. DOMAIN shards = 1..Len(shards) /\ \A k \in 1..Len(shards) : shards[k] \subseteq 1..Files
    BY <2>2
  <2>4. UNION Range(shards) = 1..Files
    BY <2>2, <2>3, Zenon DEF Range
  <2> HIDE DEF over, cap
  <2>5. pass = [fixed |-> fixed, split |-> over, cap |-> cap, shards |-> shards]
    BY DEF NewPass, BuildResult, shards, over, cap
  <2> QED
    BY <1>2, <1>3, <2>1, <2>2, <2>4, <2>5 DEF PassType
<1>6. CASE ~over
  <2>1. shards = <<1..Files>>
    BY <1>6
  <2> HIDE DEF shards
  <2>2. shards \in Seq(SUBSET (1..Files)) /\ DOMAIN shards = {1} /\ shards[1] = 1..Files
    BY <2>1
  <2>3. Range(shards) = {1..Files}
    BY <2>2 DEF Range
  <2>4. UNION Range(shards) = 1..Files
    BY <2>3
  <2> HIDE DEF over, cap
  <2>5. pass = [fixed |-> fixed, split |-> over, cap |-> cap, shards |-> shards]
    BY DEF NewPass, BuildResult, shards, over, cap
  <2> QED
    BY <1>2, <1>3, <1>6, <2>2, <2>4, <2>5 DEF PassType
<1> QED
  BY <1>5, <1>6

\* The next entry is a later one, or there is none.
LEMMA EntryIs ==
    ASSUME NEW p \in Perspective, NEW i \in 0..Len(Chain[p]), NEW reason
    PROVE  /\ NextEntry(p, i, reason) \in 0..Len(Chain[p])
           /\ NextEntry(p, i, reason) # 0 => NextEntry(p, i, reason) > i
<1> DEFINE fit == {j \in i + 1..Len(Chain[p]) :
                     /\ Chain[p][j] \in available
                     /\ reason \in {"none", "rate_limited"} \/ Chain[p][j] # Chain[p][i]}
<1>1. Len(Chain[p]) \in Nat
  BY ChainAssumption
<1>2. \A j \in fit : j \in Nat /\ j > i /\ j =< Len(Chain[p])
  BY <1>1
<1>3. NextEntry(p, i, reason) = IF fit = {} THEN 0 ELSE Min(fit)
  BY DEF NextEntry
<1> HIDE DEF fit
<1>4. fit # {} => Min(fit) \in fit
  BY <1>2, MinIs
<1> QED
  BY <1>1, <1>2, <1>3, <1>4

\* A unit the pass dispatches.
Fits(pass, u) ==
    /\ u.perspective \in Perspective
    /\ IF u.shard = 0 THEN ~pass.split \/ u.perspective = "spec"
                      ELSE pass.split /\ u.shard \in Dispatched(pass)

Fresh(u) == [at |-> NextEntry(u.perspective, 0, "none"), hops |-> 0, tried |-> {}, state |-> "running"]

LEMMA SentIs ==
    ASSUME NEW units, NEW w, w = Sent(units)
    PROVE  DOMAIN w = units /\ \A u \in units : w[u] = Fresh(u)
BY DEF Sent, Fresh

LEMMA ShardUnits ==
    ASSUME NEW p \in Perspective, NEW pass \in PassType,
           pass.split => Split(pass.shards, Files), pass.split, NEW u \in PerShard(p, pass)
    PROVE  u \in Unit /\ Fits(pass, u) /\ u.perspective = p /\ u.shard # 0
<1>1. PICK k \in Dispatched(pass) : u = [perspective |-> p, shard |-> k]
  BY DEF PerShard
<1>2. Files \in Nat
  BY CountAssumption
<1>3. pass.shards \in Seq(SUBSET (1..Files)) /\ Len(pass.shards) =< Files
  BY DEF Split
<1>4. k \in 1..Files
  BY <1>2, <1>3 DEF Dispatched
<1>5. u.perspective = p /\ u.shard = k
  BY <1>1
<1>6. u \in Unit
  BY <1>1, <1>4 DEF Unit
<1> QED
  BY <1>4, <1>5, <1>6 DEF Fits

LEMMA FanOutIs ==
    ASSUME NEW pass \in PassType, pass.split => Split(pass.shards, Files), NEW w, w = FanOut(pass),
           NEW u \in DOMAIN w
    PROVE  /\ u \in Unit /\ Fits(pass, u) /\ w[u] = Fresh(u)
           /\ u.perspective = "spec" => u.shard = 0
<1> DEFINE Of(p) == IF ~pass.split \/ p = "spec" THEN {Whole(p)} ELSE PerShard(p, pass)
           units == UNION {Of(p) : p \in Perspective}
<1>1. w = Sent(units)
  BY DEF FanOut
<1> HIDE DEF units
<1>2. DOMAIN w = units /\ w[u] = Fresh(u)
  BY <1>1, SentIs
<1>3. PICK p \in Perspective : u \in Of(p)
  BY <1>2 DEF units
<1>4. CASE ~pass.split \/ p = "spec"
  <2>1. u = [perspective |-> p, shard |-> 0]
    BY <1>3, <1>4 DEF Whole
  <2>2. u.perspective = p /\ u.shard = 0 /\ 0 \in 0..Files
    BY <2>1, CountAssumption
  <2>3. u \in Unit
    BY <2>1, <2>2 DEF Unit
  <2> QED
    BY <1>2, <1>4, <2>2, <2>3 DEF Fits
<1>5. CASE ~(~pass.split \/ p = "spec")
  <2>1. u \in PerShard(p, pass) /\ pass.split /\ p # "spec"
    BY <1>3, <1>5
  <2>2. u \in Unit /\ Fits(pass, u) /\ u.perspective = p
    BY <2>1, ShardUnits
  <2> QED
    BY <1>2, <2>1, <2>2
<1> QED
  BY <1>4, <1>5

LEMMA FreshIs ==
    ASSUME NEW u, u.perspective \in Perspective
    PROVE  /\ Fresh(u).at \in 0..Len(Chain[u.perspective]) /\ Fresh(u).hops = 0
           /\ Fresh(u).tried = {} /\ Fresh(u).state = "running"
<1>1. 0 \in 0..Len(Chain[u.perspective])
  BY ChainAssumption
<1> QED
  BY <1>1, EntryIs DEF Fresh

-----------------------------------------------------------------------------
(* Changes and coverage *)

LEMMA Appended ==
    ASSUME NEW T, NEW s \in Seq(T), NEW e \in T
    PROVE  /\ Append(s, e) \in Seq(T) /\ Len(s) \in Nat /\ Len(Append(s, e)) = Len(s) + 1
           /\ \A i \in 1..Len(s) : Append(s, e)[i] = s[i]
           /\ Append(s, e)[Len(s) + 1] = e
           /\ Append(s, e) # <<>> /\ Last(Append(s, e)) = e
BY DEF Last

\* The loop of the last change is one of the loops, and a pass more changes it
\* for the files of its fix.
Changes(s, f) == {0} \cup {l \in 1..Len(s) - 1 : f \in s[l + 1].fixed}

LEMMA ChangeIs ==
    ASSUME NEW s \in Seq(PassType), s # <<>>, NEW f
    PROVE  /\ LastChange(s, f) \in Changes(s, f)
           /\ \A l \in Changes(s, f) : LastChange(s, f) >= l
           /\ Changes(s, f) \subseteq 0..(Len(s) - 1)
<1>1. Len(s) \in Nat /\ Len(s) - 1 \in Nat
  <2>1. Len(s) \in Nat /\ Len(s) # 0
    OBVIOUS
  <2> QED
    BY <2>1
<1>2. Changes(s, f) \subseteq 0..(Len(s) - 1) /\ Changes(s, f) # {}
  BY <1>1 DEF Changes
<1>3. LastChange(s, f) = Max(Changes(s, f))
  BY DEF LastChange, Changes
<1> QED
  BY <1>1, <1>2, <1>3, MaxIs

LEMMA ChangeGrows ==
    ASSUME NEW s \in Seq(PassType), s # <<>>, NEW pass \in PassType, NEW f
    PROVE  LastChange(Append(s, pass), f) = IF f \in pass.fixed THEN Len(s) ELSE LastChange(s, f)
<1> DEFINE t == Append(s, pass)
<1>1. /\ t \in Seq(PassType) /\ t # <<>> /\ Len(s) \in Nat /\ Len(s) # 0 /\ Len(t) = Len(s) + 1
      /\ (\A i \in 1..Len(s) : t[i] = s[i]) /\ t[Len(s) + 1] = pass
  BY Appended
<1> HIDE DEF t
<1>2. ASSUME NEW l
      PROVE  l \in Changes(t, f) <=> l \in Changes(s, f) \/ (l = Len(s) /\ f \in pass.fixed)
  <2>1. l \in 1..Len(t) - 1 <=> l \in 1..Len(s) - 1 \/ l = Len(s)
    BY <1>1
  <2>2. l \in 1..Len(s) - 1 => t[l + 1] = s[l + 1] /\ l # Len(s)
    BY <1>1
  <2>3. l = Len(s) => t[l + 1] = pass
    BY <1>1
  <2> QED
    BY <1>1, <2>1, <2>2, <2>3 DEF Changes
<1>3. /\ LastChange(s, f) \in Changes(s, f) /\ \A l \in Changes(s, f) : LastChange(s, f) >= l
      /\ Changes(s, f) \subseteq 0..(Len(s) - 1)
  BY ChangeIs
<1>4. /\ LastChange(t, f) \in Changes(t, f) /\ \A l \in Changes(t, f) : LastChange(t, f) >= l
      /\ Changes(t, f) \subseteq 0..(Len(t) - 1)
  BY <1>1, ChangeIs
<1>5. /\ LastChange(s, f) \in Int /\ LastChange(t, f) \in Int
      /\ \A l \in Changes(s, f) : l < Len(s)
  BY <1>1, <1>3, <1>4
<1> DEFINE a == LastChange(s, f)
           b == LastChange(t, f)
           n == Len(s)
<1>6. CASE f \in pass.fixed
  <2>1. n \in Changes(t, f) /\ b \in Changes(t, f) /\ b >= n
    BY <1>2, <1>4, <1>6
  <2>2. b = n \/ b \in Changes(s, f)
    BY <1>2, <2>1
  <2> HIDE DEF b, n
  <2>3. b = n
    BY <1>5, <2>1, <2>2 DEF b, n
  <2> QED
    BY <1>6, <2>3 DEF b, n, t
<1>7. CASE f \notin pass.fixed
  <2>1. a \in Changes(t, f) /\ b \in Changes(s, f)
    BY <1>2, <1>3, <1>4, <1>7
  <2>2. b >= a /\ a >= b /\ a \in Int /\ b \in Int
    BY <1>3, <1>4, <1>5, <2>1
  <2> HIDE DEF a, b
  <2>3. a = b
    BY <2>2
  <2> QED
    BY <1>7, <2>3 DEF a, b, t
<1> QED
  BY <1>6, <1>7

\* A completed run has f as it is now.
Reviewed(p, f) ==
    \E r \in DOMAIN groups : /\ r.perspective = p /\ groups[r] = "completed"
                             /\ f \in Covers(passes, r) /\ r.loop >= LastChange(passes, f)

\* The record leaves out exactly what has been reviewed.
LEMMA ReportIs ==
    ASSUME NEW p \in Perspective, NEW f \in 1..Files,
           report = ComputeCoverage(Perspective, Files, passes, groups),
           LastChange(passes, f) \in Int, \A r \in DOMAIN groups : r.loop \in Int
    PROVE  (p \in report.unreviewed \/ f \in Left(p)) <=> ~Reviewed(p, f)
<1> DEFINE left(q) == {g \in 1..Files : \A l \in CoveredIn(passes, groups, q, g) : l < Since(passes, g)}
           any(q) == \E row \in DOMAIN groups : row.perspective = q /\ groups[row] = "completed"
           unreviewed == {q \in Perspective : ~any(q) \/ (Files > 0 /\ left(q) = 1..Files)}
           rescue(q) == q = "spec" /\ \E row \in DOMAIN groups : row.perspective = q /\ row.shard # 0
           partial == {q \in Perspective \ unreviewed : left(q) # {} \/ rescue(q)}
           Line(q) == [files |-> left(q),
                        reason |-> UNION {Tokens(passes, groups, q, g) : g \in left(q)}
                                   \cup (IF rescue(q) THEN {"spec_rescue"} ELSE {})]
<1>1. report = [unreviewed |-> unreviewed, partial |-> [q \in partial |-> Line(q)]]
  BY DEF ComputeCoverage
<1>2. f \in left(p) <=> ~Reviewed(p, f)
  <2>1. f \in left(p) <=> \A l \in CoveredIn(passes, groups, p, f) : l < LastChange(passes, f)
    BY DEF Since
  <2>2. \A l : l \in CoveredIn(passes, groups, p, f)
            <=> \E r \in DOMAIN groups : /\ r.perspective = p /\ groups[r] = "completed"
                                         /\ f \in Covers(passes, r) /\ r.loop = l
    BY DEF CoveredIn
  <2> HIDE DEF left
  <2>3. \A r \in DOMAIN groups : r.loop >= LastChange(passes, f) <=> ~(r.loop < LastChange(passes, f))
    OBVIOUS
  <2> QED
    BY <2>1, <2>2, <2>3 DEF Reviewed
<1>3. ~any(p) => ~Reviewed(p, f)
  BY DEF Reviewed
<1>4. p \in unreviewed => f \in left(p)
  BY <1>2, <1>3
<1>5. f \in left(p) /\ p \notin unreviewed => p \in partial
  OBVIOUS
<1>6. p \in partial => p \notin unreviewed /\ Line(p).files = left(p)
  OBVIOUS
<1> HIDE DEF left, partial, unreviewed, Line
<1>7. report.unreviewed = unreviewed /\ report.partial = [q \in partial |-> Line(q)]
  BY <1>1
<1>8. Left(p) = IF p \in partial THEN left(p) ELSE {}
  BY <1>6, <1>7 DEF Left
<1> QED
  BY <1>2, <1>4, <1>5, <1>6, <1>7, <1>8

-----------------------------------------------------------------------------
(* The invariant of the round *)

PassesKnown ==
    /\ passes \in Seq(PassType)
    /\ \A i \in 1..Len(passes) : passes[i].split => Split(passes[i].shards, Files)
    /\ phase \notin {"measure", "aborted"} => passes # <<>>
    /\ phase = "measure" => /\ passes = <<>> /\ groups = <<>> /\ read = {}
                            /\ \A f \in 1..Files : version[f] = 0

\* A unit that is out runs its chain upwards and the fallback last, nothing twice,
\* and has not been completed in this loop.
OnItsWay(u) ==
    walk[u].state = "running" =>
        /\ \A t \in walk[u].tried : t # 0 /\ (walk[u].at # 0 => t < walk[u].at)
        /\ Row(u) \in DOMAIN groups => groups[Row(u)] # "completed"

UnitsKnown ==
    phase \in {"walk", "rescue"} =>
        \A u \in DOMAIN walk : /\ Fits(Pass, u) /\ OnItsWay(u)
                               /\ phase = "walk" /\ u.perspective = "spec" => u.shard = 0

RowsKnown ==
    \A r \in DOMAIN groups :
        /\ r.loop \in 0..Loop
        /\ phase = "walk" /\ r.loop = Loop /\ r.perspective = "spec" => r.shard = 0

\* Files are fixed at most once per loop, and read as they are or were.
VersionsKnown ==
    /\ phase \notin {"measure", "aborted"} => \A f \in 1..Files : version[f] =< Loop
    /\ \A p \in Perspective, f \in 1..Files, v \in Nat :
          v > version[f] => <<p, f, v>> \notin read

\* The completed runs since a file's last change are the reviewers that know it.
RowsAreTrue ==
    phase # "aborted" =>
        \A p \in Perspective, f \in 1..Files : Reviewed(p, f) <=> <<p, f, version[f]>> \in read

Reported == phase = "done" => report = ComputeCoverage(Perspective, Files, passes, groups)

RoundInv ==
    /\ RoundTypeOK /\ ~refused
    /\ PassesKnown /\ UnitsKnown /\ RowsKnown /\ VersionsKnown /\ RowsAreTrue /\ Reported

\* CoverageIsExact follows.
LEMMA CoverageFollows == RoundInv => CoverageIsExact
<1> SUFFICES ASSUME RoundInv PROVE CoverageIsExact
  OBVIOUS
<1>1. ~refused
  BY DEF RoundInv
<1>2. ASSUME phase = "done", NEW p \in Perspective, NEW f \in 1..Files
      PROVE  (p \in report.unreviewed \/ f \in Left(p)) <=> <<p, f, version[f]>> \notin read
  <2>1. passes \in Seq(PassType) /\ passes # <<>>
    BY <1>2 DEF RoundInv, PassesKnown
  <2>2. LastChange(passes, f) \in Int
    <3>1. Len(passes) \in Nat
      BY <2>1
    <3> QED
      BY <2>1, <3>1, ChangeIs
  <2>3. \A r \in DOMAIN groups : r.loop \in Int
    BY DEF RoundInv, RowsKnown
  <2>4. report = ComputeCoverage(Perspective, Files, passes, groups)
    BY <1>2 DEF RoundInv, Reported
  <2>5. Reviewed(p, f) <=> <<p, f, version[f]>> \in read
    BY <1>2 DEF RoundInv, RowsAreTrue
  <2> QED
    BY <2>2, <2>3, <2>4, <2>5, ReportIs
<1> QED
  BY <1>1, <1>2 DEF CoverageIsExact

LEMMA RoundStarts == RoundInit => RoundInv
<1> SUFFICES ASSUME RoundInit PROVE RoundInv
  OBVIOUS
<1>1. /\ phase = "measure" /\ passes = <<>> /\ walk = <<>> /\ groups = <<>> /\ refused = FALSE
      /\ version = [f \in 1..Files |-> 0] /\ read = {}
      /\ size \in [1..Files -> Sizes] /\ available \subseteq Harness
  BY DEF RoundInit
<1>2. DOMAIN passes = {} /\ DOMAIN walk = {} /\ DOMAIN groups = {} /\ Len(passes) = 0
  BY <1>1
<1>3. version \in [1..Files -> 0..MaxLoop] /\ \A f \in 1..Files : version[f] = 0
  BY <1>1, CountAssumption
<1>4. RoundTypeOK
  BY <1>1, <1>2, <1>3 DEF RoundTypeOK
<1>5. PassesKnown
  BY <1>1, <1>2, <1>3 DEF PassesKnown
<1>6. UnitsKnown /\ RowsKnown /\ VersionsKnown /\ RowsAreTrue /\ Reported
  BY <1>1, <1>2 DEF UnitsKnown, RowsKnown, VersionsKnown, RowsAreTrue, Reviewed, Reported
<1> QED
  BY <1>1, <1>4, <1>5, <1>6 DEF RoundInv

\* What a new pass brings with it.
LEMMA PassAppended ==
    ASSUME RoundInv, NEW fixed \in SUBSET (1..Files), NEW chars,
           passes' = Append(passes, NewPass(fixed, chars)), walk' = FanOut(NewPass(fixed, chars)),
           phase' = "walk", groups' = groups
    PROVE  /\ passes' \in Seq(PassType) /\ passes' # <<>> /\ Len(passes) \in Nat
           /\ Len(passes') = Len(passes) + 1
           /\ \A i \in 1..Len(passes') : passes'[i].split => Split(passes'[i].shards, Files)
           /\ \A i \in DOMAIN passes' : UNION Range(passes'[i].shards) = 1..Files
           /\ \A u \in DOMAIN walk' : u \in Unit /\ walk'[u] = Fresh(u) /\ u.perspective \in Perspective
           /\ UnitsKnown' /\ RowsKnown'
<1> DEFINE pass == NewPass(fixed, chars)
<1>1. /\ pass \in PassType /\ UNION Range(pass.shards) = 1..Files
      /\ pass.split => Split(pass.shards, Files)
  BY PassIs
<1>2. /\ passes' = Append(passes, pass) /\ walk' = FanOut(pass)
  OBVIOUS
<1> HIDE DEF pass
<1>3. passes \in Seq(PassType)
  BY DEF RoundInv, PassesKnown
<1> DEFINE n == Len(passes)
<1>4. /\ passes' \in Seq(PassType) /\ n \in Nat /\ Len(passes') = n + 1 /\ passes' # <<>>
      /\ (\A i \in 1..n : passes'[i] = passes[i]) /\ passes'[n + 1] = pass /\ Last(passes') = pass
  BY <1>1, <1>2, <1>3, Appended
<1>5. 1..(n + 1) = (1..n) \cup {n + 1} /\ DOMAIN passes = 1..n /\ DOMAIN passes' = 1..(n + 1)
  BY <1>3, <1>4
<1>6. \A i \in 1..Len(passes') : passes'[i].split => Split(passes'[i].shards, Files)
  <2>1. \A i \in 1..n : passes[i].split => Split(passes[i].shards, Files)
    BY DEF RoundInv, PassesKnown
  <2> QED
    BY <1>1, <1>4, <1>5, <2>1
<1>7. \A i \in DOMAIN passes' : UNION Range(passes'[i].shards) = 1..Files
  <2>1. \A i \in 1..n : UNION Range(passes[i].shards) = 1..Files
    BY <1>5 DEF RoundInv, RoundTypeOK
  <2> QED
    BY <1>1, <1>4, <1>5, <2>1
<1>8. ASSUME NEW u \in DOMAIN walk'
      PROVE  /\ u \in Unit /\ Fits(pass, u) /\ walk'[u] = Fresh(u)
             /\ u.perspective = "spec" => u.shard = 0
  BY <1>1, <1>2, FanOutIs
<1>9. Loop' = n /\ \A r \in DOMAIN groups : r.loop \in 0..(n - 1)
  BY <1>4 DEF RoundInv, RowsKnown, Loop
<1>10. ASSUME NEW u \in DOMAIN walk'
       PROVE  OnItsWay(u)'
  <2>1. walk'[u].tried = {}
    BY <1>8 DEF Fresh
  <2>2. Row(u)' \notin DOMAIN groups'
    <3>1. Row(u)'.loop = n
      BY <1>9 DEF Row
    <3>2. n \notin 0..(n - 1)
      BY <1>4
    <3> QED
      BY <1>9, <3>1, <3>2
  <2> QED
    BY <2>1, <2>2 DEF OnItsWay
<1>11. UnitsKnown'
  BY <1>4, <1>8, <1>10 DEF UnitsKnown, Pass
<1>12. RowsKnown'
  <2>1. ASSUME NEW r \in DOMAIN groups
        PROVE  r.loop \in 0..n /\ r.loop # n
    BY <1>4, <1>9
  <2> QED
    BY <1>9, <2>1 DEF RowsKnown
<1> QED
  BY <1>4, <1>6, <1>7, <1>8, <1>11, <1>12 DEF Fits

-----------------------------------------------------------------------------
(* The steps *)

\* Types of the walk after a dispatch.
LEMMA FreshWalk ==
    ASSUME \A u \in DOMAIN walk' : u \in Unit /\ walk'[u] = Fresh(u) /\ u.perspective \in Perspective
    PROVE  /\ DOMAIN walk' \subseteq Unit
           /\ \A u \in DOMAIN walk' :
                 /\ walk'[u].at \in 0..Len(Chain[u.perspective]) /\ walk'[u].hops \in 0..MaxHops
                 /\ walk'[u].tried \subseteq 0..Len(Chain[u.perspective])
                 /\ walk'[u].state \in {"running", "completed", "open"}
<1>1. 0 \in 0..MaxHops
  BY CountAssumption
<1> QED
  BY <1>1, FreshIs

LEMMA FirstPassKeeps == RoundInv /\ FirstPass => RoundInv'
<1> SUFFICES ASSUME RoundInv, FirstPass PROVE RoundInv'
  OBVIOUS
<1>1. /\ phase = "measure" /\ passes = <<>> /\ Measure({}, size)
      /\ UNCHANGED <<size, available, groups, refused, report, version, read>>
  BY DEF FirstPass
<1>2. /\ groups = <<>> /\ read = {} /\ \A f \in 1..Files : version[f] = 0
  BY <1>1 DEF RoundInv, PassesKnown
<1>3. ~refused' /\ size' \in [1..Files -> Sizes] /\ available' \subseteq Harness
      /\ version' \in [1..Files -> 0..MaxLoop] /\ \A r \in DOMAIN groups' : groups'[r] \in {"completed", "open"}
  BY <1>1 DEF RoundInv, RoundTypeOK
<1>4. CASE /\ passes' = Append(passes, NewPass({}, size)) /\ walk' = FanOut(NewPass({}, size))
           /\ phase' = "walk"
  <2>1. /\ passes' \in Seq(PassType) /\ passes' # <<>> /\ Len(passes') = Len(passes) + 1
        /\ \A i \in 1..Len(passes') : passes'[i].split => Split(passes'[i].shards, Files)
        /\ \A i \in DOMAIN passes' : UNION Range(passes'[i].shards) = 1..Files
        /\ \A u \in DOMAIN walk' : u \in Unit /\ walk'[u] = Fresh(u) /\ u.perspective \in Perspective
        /\ UnitsKnown' /\ RowsKnown'
    BY <1>1, <1>4, PassAppended
  <2>2. RoundTypeOK'
    BY <1>3, <1>4, <2>1, FreshWalk DEF RoundTypeOK
  <2>3. PassesKnown'
    BY <1>4, <2>1 DEF PassesKnown
  <2>4. VersionsKnown'
    <3>1. Loop' = 0
      BY <1>1, <2>1 DEF Loop
    <3> QED
      BY <1>1, <1>2, <3>1 DEF VersionsKnown
  <2>5. RowsAreTrue' /\ Reported'
    <3>1. DOMAIN groups' = {} /\ read' = {}
      BY <1>1, <1>2
    <3> QED
      BY <1>4, <3>1 DEF RowsAreTrue, Reviewed, Reported
  <2> QED
    BY <1>3, <2>1, <2>2, <2>3, <2>4, <2>5 DEF RoundInv
<1>5. CASE phase' = "aborted" /\ UNCHANGED <<passes, walk>>
  <2>1. RoundTypeOK'
    BY <1>3, <1>5 DEF RoundTypeOK, RoundInv
  <2>2. PassesKnown'
    BY <1>5 DEF RoundInv, PassesKnown
  <2>3. DOMAIN groups' = {} /\ read' = {}
    BY <1>1, <1>2
  <2>4. UnitsKnown' /\ RowsKnown' /\ VersionsKnown' /\ RowsAreTrue' /\ Reported'
    BY <1>5, <2>3 DEF UnitsKnown, RowsKnown, VersionsKnown, RowsAreTrue, Reported
  <2> QED
    BY <1>3, <2>1, <2>2, <2>4 DEF RoundInv
<1> QED
  BY <1>1, <1>4, <1>5 DEF Measure

\* A fix makes older reviews of its files worthless, in the rows and in truth.
LEMMA FixKeeps == RoundInv /\ Fix => RoundInv'
<1> SUFFICES ASSUME RoundInv, Fix PROVE RoundInv'
  OBVIOUS
<1>1. PICK fixed \in SUBSET (1..Files) :
         /\ phase = "fix" /\ Loop < MaxLoop
         /\ version' = [f \in 1..Files |-> version[f] + IF f \in fixed THEN 1 ELSE 0]
         /\ \E s \in [fixed -> Sizes] : size' = [f \in 1..Files |-> IF f \in fixed THEN s[f] ELSE size[f]]
         /\ Measure(fixed, size')
         /\ UNCHANGED <<available, groups, refused, report, read>>
  BY DEF Fix
<1> DEFINE n == Len(passes)
<1>2. passes \in Seq(PassType) /\ passes # <<>> /\ n \in Nat /\ n # 0 /\ Loop = n - 1
  BY <1>1 DEF RoundInv, PassesKnown, Loop
<1>3. /\ version \in [1..Files -> 0..MaxLoop] /\ size \in [1..Files -> Sizes]
      /\ available \subseteq Harness /\ \A r \in DOMAIN groups : groups[r] \in {"completed", "open"}
  BY DEF RoundInv, RoundTypeOK
<1>4. \A f \in 1..Files : /\ version[f] \in Nat /\ version[f] =< Loop
                          /\ version'[f] = IF f \in fixed THEN version[f] + 1 ELSE version[f]
  BY <1>1, <1>3, CountAssumption DEF RoundInv, VersionsKnown
<1>5. version' \in [1..Files -> 0..MaxLoop]
  <2>1. \A f \in 1..Files : version'[f] \in 0..MaxLoop
    BY <1>1, <1>2, <1>4, CountAssumption
  <2> QED
    BY <1>1, <2>1
<1>6. size' \in [1..Files -> Sizes]
  <2>1. PICK s \in [fixed -> Sizes] : size' = [f \in 1..Files |-> IF f \in fixed THEN s[f] ELSE size[f]]
    BY <1>1
  <2> QED
    BY <1>3, <2>1
<1>7. \A p \in Perspective, f \in 1..Files, v \in Nat : v > version'[f] => <<p, f, v>> \notin read'
  <2>1. ASSUME NEW p \in Perspective, NEW f \in 1..Files, NEW v \in Nat, v > version'[f]
        PROVE  <<p, f, v>> \notin read
    <3>1. v > version[f]
      BY <1>4, <2>1
    <3> QED
      BY <3>1 DEF RoundInv, VersionsKnown
  <2> QED
    BY <1>1, <2>1
<1>8. ~refused' /\ available' \subseteq Harness /\ groups' = groups /\ read' = read /\ phase' # "done"
      /\ phase' \in {"walk", "aborted"} /\ phase' # "measure"
  BY <1>1, <1>3 DEF RoundInv, Measure
<1>9. CASE /\ passes' = Append(passes, NewPass(fixed, size')) /\ walk' = FanOut(NewPass(fixed, size'))
           /\ phase' = "walk"
  <2> DEFINE pass == NewPass(fixed, size')
  <2>1. /\ passes' \in Seq(PassType) /\ passes' # <<>> /\ Len(passes') = Len(passes) + 1
        /\ \A i \in 1..Len(passes') : passes'[i].split => Split(passes'[i].shards, Files)
        /\ \A i \in DOMAIN passes' : UNION Range(passes'[i].shards) = 1..Files
        /\ \A u \in DOMAIN walk' : u \in Unit /\ walk'[u] = Fresh(u) /\ u.perspective \in Perspective
        /\ UnitsKnown' /\ RowsKnown'
    <3> DEFINE chars == size'
    <3> HIDE DEF chars
    <3>1. /\ passes' = Append(passes, NewPass(fixed, chars)) /\ walk' = FanOut(NewPass(fixed, chars))
      BY <1>9 DEF chars
    <3> QED
      BY <1>8, <1>9, <3>1, PassAppended
  <2>2. pass \in PassType /\ pass.fixed = fixed /\ passes' = Append(passes, pass)
    BY <1>9, PassIs
  <2> HIDE DEF pass
  <2>3. RoundTypeOK'
    BY <1>5, <1>6, <1>8, <1>9, <1>3, <2>1, FreshWalk DEF RoundTypeOK
  <2>4. PassesKnown'
    BY <1>9, <2>1 DEF PassesKnown
  <2>5. VersionsKnown'
    <3>1. Loop' = n
      BY <1>2, <2>1 DEF Loop
    <3>2. \A f \in 1..Files : version'[f] =< n
      BY <1>2, <1>4
    <3> QED
      BY <1>7, <3>1, <3>2 DEF VersionsKnown
  <2>6. RowsAreTrue'
    <3>1. ASSUME NEW p \in Perspective, NEW f \in 1..Files
          PROVE  Reviewed(p, f)' <=> <<p, f, version'[f]>> \in read
      <4>1. LastChange(passes', f) = IF f \in fixed THEN n ELSE LastChange(passes, f)
        BY <1>2, <2>2, ChangeGrows
      <4>2. \A r \in DOMAIN groups : /\ r.loop \in 0..(n - 1) /\ r.loop \in Int /\ ~(r.loop >= n)
                                     /\ Covers(passes', r) = Covers(passes, r)
        <5>1. ASSUME NEW r \in DOMAIN groups
              PROVE  r.loop \in 0..(n - 1)
          BY <1>2 DEF RoundInv, RowsKnown
        <5>2. ASSUME NEW r \in DOMAIN groups
              PROVE  passes'[r.loop + 1] = passes[r.loop + 1]
          <6>1. r.loop + 1 \in 1..n
            BY <1>2, <5>1
          <6> QED
            BY <1>2, <2>2, <6>1, Appended
        <5>3. ASSUME NEW r \in DOMAIN groups
              PROVE  Covers(passes', r) = Covers(passes, r)
          BY <5>2 DEF Covers
        <5>4. \A l \in 0..(n - 1) : l \in Int /\ ~(l >= n)
          BY <1>2
        <5> QED
          BY <5>1, <5>3, <5>4
      <4>3. Reviewed(p, f) <=> <<p, f, version[f]>> \in read
        BY <1>1 DEF RoundInv, RowsAreTrue
      <4>4. CASE f \in fixed
        <5>1. ~Reviewed(p, f)'
          BY <1>8, <4>1, <4>2, <4>4 DEF Reviewed
        <5>2. <<p, f, version'[f]>> \notin read
          <6>1. version'[f] > version[f] /\ version'[f] \in Nat
            BY <1>4, <4>4
          <6> QED
            BY <6>1 DEF RoundInv, VersionsKnown
        <5> QED
          BY <5>1, <5>2
      <4>5. CASE f \notin fixed
        <5>1. Reviewed(p, f)' <=> Reviewed(p, f)
          BY <1>8, <4>1, <4>2, <4>5 DEF Reviewed
        <5> QED
          BY <1>4, <4>3, <4>5, <5>1
      <4> QED
        BY <4>4, <4>5
    <3> QED
      BY <1>8, <3>1 DEF RowsAreTrue
  <2> QED
    BY <1>8, <2>1, <2>3, <2>4, <2>5, <2>6 DEF RoundInv, Reported
<1>10. CASE phase' = "aborted" /\ UNCHANGED <<passes, walk>>
  <2>1. RoundTypeOK'
    BY <1>5, <1>6, <1>8, <1>10 DEF RoundInv, RoundTypeOK
  <2>2. PassesKnown' /\ RowsKnown'
    BY <1>8, <1>10 DEF RoundInv, PassesKnown, RowsKnown, Loop
  <2>3. UnitsKnown' /\ VersionsKnown' /\ RowsAreTrue' /\ Reported'
    BY <1>7, <1>10 DEF UnitsKnown, VersionsKnown, RowsAreTrue, Reported
  <2> QED
    BY <1>8, <2>1, <2>2, <2>3 DEF RoundInv
<1> QED
  BY <1>1, <1>9, <1>10 DEF Measure

LEMMA RescueKeeps == RoundInv /\ Rescue => RoundInv'
<1> SUFFICES ASSUME RoundInv, Rescue PROVE RoundInv'
  OBVIOUS
<1>1. /\ phase = "walk" /\ Pass.split /\ Open(Whole("spec"))
      /\ phase' = "rescue" /\ walk' = Sent(PerShard("spec", Pass))
      /\ UNCHANGED <<size, available, passes, groups, refused, report, version, read>>
  BY DEF Rescue, Rescued
<1>2. Pass \in PassType /\ (Pass.split => Split(Pass.shards, Files))
  <2>1. passes \in Seq(PassType) /\ passes # <<>>
    BY <1>1 DEF RoundInv, PassesKnown
  <2>2. Len(passes) \in 1..Len(passes)
    BY <2>1
  <2> QED
    BY <2>1, <2>2 DEF RoundInv, PassesKnown, Pass, Last
<1>3. "spec" \in Perspective
  <2>1. Fits(Pass, Whole("spec"))
    BY <1>1 DEF RoundInv, UnitsKnown, Open
  <2> QED
    BY <2>1 DEF Fits, Whole
<1>4. ASSUME NEW u \in DOMAIN walk'
      PROVE  /\ u \in Unit /\ Fits(Pass, u) /\ u.perspective = "spec" /\ u.shard # 0
             /\ walk'[u] = Fresh(u)
  <2>1. u \in PerShard("spec", Pass) /\ walk'[u] = Fresh(u)
    BY <1>1, SentIs
  <2> QED
    BY <1>1, <1>2, <1>3, <2>1, ShardUnits
<1>5. RoundTypeOK'
  BY <1>1, <1>3, <1>4, FreshWalk DEF RoundInv, RoundTypeOK
<1>6. PassesKnown' /\ VersionsKnown' /\ RowsAreTrue' /\ Reported' /\ RowsKnown'
  BY <1>1 DEF RoundInv, PassesKnown, VersionsKnown, RowsAreTrue, Reviewed, Reported, RowsKnown, Loop
<1>7. UnitsKnown'
  <2>1. Pass' = Pass /\ Loop' = Loop
    BY <1>1 DEF Pass, Loop
  <2>2. ASSUME NEW u \in DOMAIN walk'
        PROVE  OnItsWay(u)'
    <3>1. Row(u)' \notin DOMAIN groups'
      <4>1. Row(u)'.loop = Loop /\ Row(u)'.shard # 0 /\ Row(u)'.perspective = "spec"
        BY <1>4, <2>1 DEF Row
      <4> QED
        BY <1>1, <4>1 DEF RoundInv, RowsKnown
    <3>2. walk'[u].tried = {}
      BY <1>4 DEF Fresh
    <3> QED
      BY <3>1, <3>2 DEF OnItsWay
  <2> QED
    BY <1>1, <1>4, <2>1, <2>2 DEF UnitsKnown
<1> QED
  BY <1>1, <1>5, <1>6, <1>7 DEF RoundInv

\* The steps that only move the round on.
LEMMA MovesKeep ==
    ASSUME RoundInv, WalksEnd \/ NoMoreFixes \/ RecordRound \/ UNCHANGED roundVars
    PROVE  RoundInv'
<1>1. CASE WalksEnd
  <2>1. /\ phase \in {"walk", "rescue"} /\ phase' = "fix" /\ walk' = <<>>
        /\ UNCHANGED <<size, available, passes, groups, refused, report, version, read>>
    BY <1>1 DEF WalksEnd
  <2>2. DOMAIN walk' = {}
    BY <2>1
  <2> QED
    BY <2>1, <2>2 DEF RoundInv, RoundTypeOK, PassesKnown, UnitsKnown, RowsKnown, VersionsKnown,
                      RowsAreTrue, Reviewed, Reported, Loop
<1>2. CASE NoMoreFixes
  <2>1. /\ phase = "fix" /\ phase' = "record"
        /\ UNCHANGED <<size, available, passes, walk, groups, refused, report, version, read>>
    BY <1>2 DEF NoMoreFixes
  <2> QED
    BY <2>1 DEF RoundInv, RoundTypeOK, PassesKnown, UnitsKnown, RowsKnown, VersionsKnown,
                RowsAreTrue, Reviewed, Reported, Loop
<1>3. CASE RecordRound
  <2>1. /\ phase = "record" /\ phase' = "done"
        /\ report' = ComputeCoverage(Perspective, Files, passes, groups)
        /\ UNCHANGED <<size, available, passes, walk, groups, refused, version, read>>
    BY <1>3 DEF RecordRound, RoundInv
  <2> QED
    BY <2>1 DEF RoundInv, RoundTypeOK, PassesKnown, UnitsKnown, RowsKnown, VersionsKnown,
                RowsAreTrue, Reviewed, Reported, Loop
<1>4. CASE UNCHANGED roundVars
  BY <1>4 DEF roundVars, RoundInv, RoundTypeOK, PassesKnown, UnitsKnown, RowsKnown, VersionsKnown,
              RowsAreTrue, Reviewed, Reported, Loop, OnItsWay, Row, Pass
<1> QED
  BY <1>1, <1>2, <1>3, <1>4

\* What an answer books: its row, and, of a completed run, what was read; the unit
\* ends or goes on to a later entry.
LEMMA AnswerIs ==
    ASSUME RoundInv, NEW u \in Unit, Answer(u)
    PROVE  /\ phase \in {"walk", "rescue"} /\ u \in DOMAIN walk /\ walk[u].state = "running"
           /\ UNCHANGED <<phase, size, available, passes, report, version>>
           /\ \E status \in {"completed", "open"} :
                 /\ Record(u, status)
                 /\ \/ /\ status = "completed" /\ End(u, "completed")
                       /\ read' = read \cup {<<u.perspective, f, version[f]>> : f \in Covers(passes, Row(u))}
                    \/ /\ status = "open" /\ read' = read
                       /\ \/ End(u, "open")
                          \/ \E at \in 0..Len(Chain[u.perspective]) :
                                /\ at # 0 => at > walk[u].at /\ walk[u].hops < MaxHops
                                /\ walk[u].at # 0 /\ GoOn(u, at)
<1> DEFINE Onward ==
             \/ End(u, "open")
             \/ \E at \in 0..Len(Chain[u.perspective]) :
                   /\ at # 0 => at > walk[u].at /\ walk[u].hops < MaxHops
                   /\ walk[u].at # 0 /\ GoOn(u, at)
           ReadNow == {<<u.perspective, f, version[f]>> : f \in Covers(passes, Row(u))}
<1>1. /\ phase \in {"walk", "rescue"} /\ u \in Running
      /\ ValidResult(u) \/ UnclassifiedResult(u) \/ BadResult(u) \/ SkippedResult(u)
      /\ UNCHANGED <<phase, size, available, passes, report, version>>
  BY DEF Answer
<1>2. u \in DOMAIN walk /\ walk[u].state = "running"
  BY <1>1 DEF Running
<1>3. u.perspective \in Perspective /\ walk[u].at \in 0..Len(Chain[u.perspective])
  BY <1>2 DEF Unit, RoundInv, RoundTypeOK
<1>4. 0 \in 0..Len(Chain[u.perspective])
  BY <1>3, ChainAssumption
<1>5. FallBack(u) => Onward
  BY <1>4 DEF FallBack
<1>6. CASE ValidResult(u)
  <2>1. PICK empty \in BOOLEAN :
           /\ empty => Origin(u) = "litellm"
           /\ Record(u, Classify(Origin(u), empty))
           /\ IF Classify(Origin(u), empty) = "completed" THEN End(u, "completed") ELSE FallBack(u)
           /\ read' = IF empty THEN read ELSE read \cup ReadNow
    BY <1>6, Zenon DEF ValidResult
  <2>2. Classify(Origin(u), empty) = IF empty THEN "open" ELSE "completed"
    BY <2>1 DEF Classify
  <2> HIDE DEF Onward, ReadNow
  <2>3. \E status \in {"completed", "open"} :
           /\ Record(u, status)
           /\ \/ status = "completed" /\ End(u, "completed") /\ read' = read \cup ReadNow
              \/ status = "open" /\ read' = read /\ Onward
    <3>1. CASE empty
      BY <1>5, <2>1, <2>2, <3>1
    <3>2. CASE ~empty
      BY <2>1, <2>2, <3>2
    <3> QED
      BY <3>1, <3>2
  <2> QED
    BY <1>1, <1>2, <2>3 DEF Onward, ReadNow
<1>7. CASE ~ValidResult(u)
  <2>1. Record(u, "open") /\ read' = read /\ Onward
    <3>1. CASE UnclassifiedResult(u) \/ BadResult(u)
      <4>1. Record(u, "open") /\ FallBack(u) /\ read' = read
        BY <3>1 DEF UnclassifiedResult, BadResult
      <4> HIDE DEF Onward
      <4> QED
        BY <1>5, <4>1
    <3>2. CASE SkippedResult(u)
      <4>1. PICK reason \in {"rate_limited", "budget_exhausted", "no_spec"} :
               /\ Record(u, "open") /\ UNCHANGED read
               /\ IF walk[u].at = 0 \/ reason = "no_spec" THEN End(u, "open")
                  ELSE GoOn(u, Hop(u, reason))
        BY <3>2 DEF SkippedResult
      <4>2. CASE walk[u].at = 0 \/ reason = "no_spec"
        BY <4>1, <4>2
      <4>3. CASE ~(walk[u].at = 0 \/ reason = "no_spec")
        <5> DEFINE at == Hop(u, reason)
        <5>1. at \in 0..Len(Chain[u.perspective]) /\ (at # 0 => at > walk[u].at /\ walk[u].hops < MaxHops)
          <6>1. at = IF walk[u].hops < MaxHops THEN NextEntry(u.perspective, walk[u].at, reason) ELSE 0
            BY DEF Hop
          <6> HIDE DEF at
          <6> QED
            BY <1>3, <1>4, <6>1, EntryIs
        <5>2. GoOn(u, at) /\ walk[u].at # 0
          BY <4>1, <4>3
        <5> QED
          BY <4>1, <5>1, <5>2
      <4> QED
        BY <4>2, <4>3
    <3> QED
      BY <1>1, <1>7, <3>1, <3>2
  <2> HIDE DEF Onward
  <2> QED
    BY <1>1, <1>2, <2>1 DEF Onward
<1> QED
  BY <1>6, <1>7

\* The row is never refused.
LEMMA RowFits ==
    ASSUME RoundInv, phase \in {"walk", "rescue"}, NEW u \in DOMAIN walk, walk[u].state = "running"
    PROVE  ~RowRefused(Pass, Row(u), walk[u].at \in walk[u].tried)
<1>1. Fits(Pass, u) /\ \A t \in walk[u].tried : t # 0 /\ (walk[u].at # 0 => t < walk[u].at)
  BY DEF RoundInv, UnitsKnown, OnItsWay
<1>2. u.perspective \in Perspective /\ walk[u].at \in 0..Len(Chain[u.perspective])
  BY <1>1 DEF Fits, RoundInv, RoundTypeOK
<1>3. walk[u].at \in Int
  BY <1>2, ChainAssumption
<1>4. walk[u].at \notin walk[u].tried
  BY <1>1, <1>3
<1>5. Row(u).perspective = u.perspective /\ Row(u).shard = u.shard
  BY DEF Row
<1> QED
  BY <1>1, <1>4, <1>5 DEF RowRefused, Fits

LEMMA AnswerKeeps == ASSUME RoundInv, NEW u \in Unit, Answer(u) PROVE RoundInv'
<1>1. /\ phase \in {"walk", "rescue"} /\ u \in DOMAIN walk /\ walk[u].state = "running"
      /\ UNCHANGED <<phase, size, available, passes, report, version>>
  BY AnswerIs
<1>2. PICK status \in {"completed", "open"} :
         /\ Record(u, status)
         /\ \/ /\ status = "completed" /\ End(u, "completed")
               /\ read' = read \cup {<<u.perspective, f, version[f]>> : f \in Covers(passes, Row(u))}
            \/ /\ status = "open" /\ read' = read
               /\ \/ End(u, "open")
                  \/ \E at \in 0..Len(Chain[u.perspective]) :
                        /\ at # 0 => at > walk[u].at /\ walk[u].hops < MaxHops
                        /\ walk[u].at # 0 /\ GoOn(u, at)
  BY AnswerIs, Zenon
<1>3. groups' = [r \in DOMAIN groups \cup {Row(u)} |-> IF r = Row(u) THEN status ELSE groups[r]]
      /\ refused' = (refused \/ RowRefused(Pass, Row(u), walk[u].at \in walk[u].tried))
  BY <1>2 DEF Record
<1>4. /\ DOMAIN groups' = DOMAIN groups \cup {Row(u)} /\ groups'[Row(u)] = status
      /\ \A r \in DOMAIN groups : r # Row(u) => groups'[r] = groups[r]
  BY <1>3
<1>5. ~refused'
  BY <1>1, <1>3, RowFits DEF RoundInv
<1>6. /\ Row(u).perspective = u.perspective /\ Row(u).shard = u.shard /\ Row(u).loop = Loop
  BY DEF Row
<1>7. /\ Fits(Pass, u) /\ OnItsWay(u) /\ u.perspective \in Perspective
      /\ phase = "walk" /\ u.perspective = "spec" => u.shard = 0
  BY <1>1 DEF RoundInv, UnitsKnown, Fits
<1> DEFINE n == Len(passes)
<1>8. passes \in Seq(PassType) /\ passes # <<>> /\ n \in Nat /\ n # 0 /\ Loop = n - 1
      /\ Loop' = Loop /\ Pass' = Pass
  BY <1>1 DEF RoundInv, PassesKnown, Loop, Pass
\* The walk.
<1> DEFINE chain == 0..Len(Chain[u.perspective])
           Sound(w) == /\ w.at \in chain /\ w.hops \in 0..MaxHops /\ w.tried \subseteq chain
                       /\ w.state \in {"running", "completed", "open"}
                       /\ w.state = "running" =>
                             /\ \A t \in w.tried : t # 0 /\ (w.at # 0 => t < w.at)
                             /\ status = "open"
<1>9. walk[u].at \in chain /\ walk[u].hops \in 0..MaxHops /\ walk[u].tried \subseteq chain
      /\ 0 \in chain /\ 0 \in 0..MaxHops /\ chain \subseteq Nat
  <2>1. 0 \in chain /\ 0 \in 0..MaxHops /\ chain \subseteq Nat
    BY <1>7, ChainAssumption, CountAssumption
  <2> QED
    BY <1>1, <2>1 DEF RoundInv, RoundTypeOK
<1>10. /\ DOMAIN walk' = DOMAIN walk /\ Sound(walk'[u])
       /\ \A v \in DOMAIN walk : v # u => walk'[v] = walk[v]
  <2> HIDE DEF chain
  <2>1. ASSUME NEW state \in {"completed", "open"}, End(u, state)
        PROVE  /\ DOMAIN walk' = DOMAIN walk /\ Sound(walk'[u])
               /\ \A v \in DOMAIN walk : v # u => walk'[v] = walk[v]
    <3> DEFINE w == [at |-> 0, hops |-> 0, tried |-> {}, state |-> state]
    <3>1. Sound(w)
      BY <1>9
    <3> HIDE DEF w, Sound
    <3>2. walk' = [walk EXCEPT ![u] = w]
      BY <2>1 DEF End, w
    <3> QED
      BY <1>1, <3>1, <3>2
  <2>2. ASSUME NEW at \in chain, at # 0 => at > walk[u].at /\ walk[u].hops < MaxHops,
               walk[u].at # 0, GoOn(u, at), status = "open"
        PROVE  /\ DOMAIN walk' = DOMAIN walk /\ Sound(walk'[u])
               /\ \A v \in DOMAIN walk : v # u => walk'[v] = walk[v]
    <3> DEFINE hops == IF at = 0 THEN walk[u].hops ELSE walk[u].hops + 1
               tried == walk[u].tried \cup {walk[u].at}
               w == [at |-> at, hops |-> hops, tried |-> tried, state |-> "running"]
    <3>1. hops \in 0..MaxHops
      BY <1>9, <2>2, CountAssumption
    <3>2. tried \subseteq chain /\ \A t \in tried : t # 0 /\ (at # 0 => t < at)
      <4>1. \A t \in walk[u].tried : t # 0 /\ t < walk[u].at
        BY <1>1, <1>7, <2>2 DEF OnItsWay
      <4>2. ASSUME NEW t \in tried
            PROVE  t \in chain /\ t # 0 /\ (at # 0 => t < at)
        <5>1. t \in chain /\ t # 0 /\ (t < walk[u].at \/ t = walk[u].at)
          BY <1>9, <2>2, <4>1
        <5>2. t \in Nat /\ at \in Nat /\ walk[u].at \in Nat
          BY <1>9, <5>1
        <5> QED
          BY <2>2, <5>1, <5>2
      <4> QED
        BY <4>2
    <3> HIDE DEF hops, tried
    <3>3. Sound(w)
      BY <2>2, <3>1, <3>2
    <3>4. walk' = [walk EXCEPT ![u] = w]
      BY <2>2 DEF GoOn, w, hops, tried
    <3> HIDE DEF w, Sound
    <3> QED
      BY <1>1, <3>3, <3>4
  <2> HIDE DEF Sound
  <2> QED
    BY <1>2, <2>1, <2>2 DEF chain
<1>11. RoundTypeOK'
  <2>1. \A r \in DOMAIN groups' : groups'[r] \in {"completed", "open"}
    BY <1>4 DEF RoundInv, RoundTypeOK
  <2>2. /\ DOMAIN walk' \subseteq Unit
        /\ \A v \in DOMAIN walk' :
              /\ walk'[v].at \in 0..Len(Chain[v.perspective]) /\ walk'[v].hops \in 0..MaxHops
              /\ walk'[v].tried \subseteq 0..Len(Chain[v.perspective])
              /\ walk'[v].state \in {"running", "completed", "open"}
    BY <1>10 DEF RoundInv, RoundTypeOK
  <2> QED
    BY <1>1, <2>1, <2>2 DEF RoundInv, RoundTypeOK
<1>12. PassesKnown' /\ Reported'
  BY <1>1 DEF RoundInv, PassesKnown, Reported
<1>13. UnitsKnown'
  <2>1. ASSUME NEW v \in DOMAIN walk'
        PROVE  /\ Fits(Pass, v) /\ OnItsWay(v)'
               /\ phase = "walk" /\ v.perspective = "spec" => v.shard = 0
    <3>1. v \in DOMAIN walk /\ Row(v)' = Row(v)
      BY <1>8, <1>10 DEF Row
    <3>2. /\ Fits(Pass, v) /\ OnItsWay(v)
          /\ phase = "walk" /\ v.perspective = "spec" => v.shard = 0
      BY <1>1, <3>1 DEF RoundInv, UnitsKnown
    <3>3. CASE v = u
      BY <1>4, <1>10, <3>1, <3>2, <3>3 DEF OnItsWay
    <3>4. CASE v # u
      <4>1. Row(v) # Row(u)
        <5>1. v \in Unit /\ u \in Unit
          BY <3>1 DEF RoundInv, RoundTypeOK
        <5> QED
          BY <3>4, <5>1 DEF Unit, Row
      <4>2. walk'[v] = walk[v]
        BY <1>10, <3>1, <3>4
      <4> QED
        BY <1>4, <3>1, <3>2, <4>1, <4>2 DEF OnItsWay
    <3> QED
      BY <3>2, <3>3, <3>4
  <2> QED
    BY <1>1, <1>8, <2>1 DEF UnitsKnown
<1>14. RowsKnown'
  <2>1. Loop \in 0..Loop
    BY <1>8
  <2> QED
    BY <1>1, <1>4, <1>6, <1>7, <1>8, <2>1 DEF RoundInv, RowsKnown
<1>15. VersionsKnown'
  <2>1. ASSUME NEW p \in Perspective, NEW f \in 1..Files, NEW v \in Nat, v > version[f]
        PROVE  <<p, f, v>> \notin read'
    <3>1. <<p, f, v>> \notin read
      BY <2>1 DEF RoundInv, VersionsKnown
    <3>2. v # version[f]
      <4>1. version[f] \in Nat
        BY CountAssumption DEF RoundInv, RoundTypeOK
      <4> QED
        BY <2>1, <4>1
    <3>3. <<p, f, v>> \notin {<<u.perspective, g, version[g]>> : g \in Covers(passes, Row(u))}
      BY <3>2
    <3> QED
      BY <1>2, <3>1, <3>3
  <2> QED
    BY <1>1, <1>8, <2>1 DEF RoundInv, VersionsKnown
<1>16. RowsAreTrue'
  <2>1. ASSUME NEW p \in Perspective, NEW f \in 1..Files
        PROVE  Reviewed(p, f)' <=> <<p, f, version[f]>> \in read'
    <3> DEFINE new == status = "completed" /\ p = u.perspective /\ f \in Covers(passes, Row(u))
    <3>1. Reviewed(p, f) <=> <<p, f, version[f]>> \in read
      BY <1>1 DEF RoundInv, RowsAreTrue
    <3>2. <<p, f, version[f]>> \in read' <=> <<p, f, version[f]>> \in read \/ new
      <4>1. CASE status = "completed"
        <5>1. read' = read \cup {<<u.perspective, g, version[g]>> : g \in Covers(passes, Row(u))}
          BY <1>2, <4>1
        <5>2. <<p, f, version[f]>> \in {<<u.perspective, g, version[g]>> : g \in Covers(passes, Row(u))}
                <=> p = u.perspective /\ f \in Covers(passes, Row(u))
          OBVIOUS
        <5> QED
          BY <4>1, <5>1, <5>2
      <4>2. CASE status = "open"
        BY <1>2, <4>2
      <4> QED
        BY <4>1, <4>2
    <3>3. Reviewed(p, f)' <=> Reviewed(p, f) \/ new
      <4>1. Loop >= LastChange(passes, f)
        <5>1. LastChange(passes, f) \in 0..(n - 1)
          BY <1>8, ChangeIs
        <5> QED
          BY <1>8, <5>1
      <4>2. Row(u) \in DOMAIN groups => groups[Row(u)] # "completed"
        BY <1>1, <1>7 DEF OnItsWay
      <4> DEFINE Counts(r) == r.perspective = p /\ f \in Covers(passes, r) /\ r.loop >= LastChange(passes, f)
      <4>3. Counts(Row(u)) <=> p = u.perspective /\ f \in Covers(passes, Row(u))
        BY <1>6, <4>1
      <4>4. Reviewed(p, f)' <=> \E r \in DOMAIN groups' : groups'[r] = "completed" /\ Counts(r)
        BY <1>1 DEF Reviewed
      <4>5. Reviewed(p, f) <=> \E r \in DOMAIN groups : groups[r] = "completed" /\ Counts(r)
        BY DEF Reviewed
      <4> HIDE DEF Counts
      <4>6. (\E r \in DOMAIN groups' : groups'[r] = "completed" /\ Counts(r))
              <=> \/ \E r \in DOMAIN groups : groups[r] = "completed" /\ Counts(r)
                  \/ status = "completed" /\ Counts(Row(u))
        BY <1>4, <4>2
      <4> QED
        BY <4>3, <4>4, <4>5, <4>6
    <3> QED
      BY <3>1, <3>2, <3>3
  <2> QED
    BY <1>1, <2>1 DEF RowsAreTrue
<1> QED
  BY <1>5, <1>11, <1>12, <1>13, <1>14, <1>15, <1>16 DEF RoundInv

LEMMA RoundSteps == RoundInv /\ [RoundNext]_roundVars => RoundInv'
<1> SUFFICES ASSUME RoundInv, [RoundNext]_roundVars PROVE RoundInv'
  OBVIOUS
<1>1. ASSUME NEW u \in Unit, Answer(u) PROVE RoundInv'
  BY <1>1, AnswerKeeps
<1> QED
  BY <1>1, FirstPassKeeps, FixKeeps, RescueKeeps, MovesKeep DEF RoundNext, Walks

\* The types and the books of the round hold throughout.
THEOREM RoundInductive == RoundSpec => []RoundInv
BY RoundStarts, RoundSteps, PTL DEF RoundSpec

\* Every pass has each file in its shards, and no unit outlives its chain or its hops.
THEOREM RoundTyping == RoundSpec => []RoundTypeOK
<1>1. RoundInv => RoundTypeOK
  BY DEF RoundInv
<1> QED
  BY <1>1, RoundInductive, PTL

\* The record of a round lists, for each perspective, exactly the files no reviewer
\* of it has read as they are now, and no row it is made of is refused.
THEOREM Coverage == RoundSpec => []CoverageIsExact
BY CoverageFollows, RoundInductive, PTL

=============================================================================
