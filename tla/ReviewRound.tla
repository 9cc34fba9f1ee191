---------------------------- MODULE ReviewRound ----------------------------
(***************************************************************************)
(* One round of the review phase (references/review-phase.md): the input   *)
(* is measured and split, every perspective is dispatched per shard, each  *)
(* unit walks its chain of harnesses and falls back to Claude, spec is     *)
(* rescued shard by shard, fixes are applied and reviewed again, and the   *)
(* coverage of the round is computed from the recorded runs alone.         *)
(*                                                                         *)
(* A unit is [perspective, shard], shard 0 for the whole input.  The       *)
(* reviewers of one message run in parallel; their walks share nothing, so *)
(* the model takes them in one order.  What a result is worth only the     *)
(* model knows, the orchestrator sees its form.                            *)
(***************************************************************************)
EXTENDS ReviewScripts

CONSTANTS
    Perspective, Chain,     \* the dispatched perspectives and their primary chains
    Files,                  \* number of changed files
    Limit, DispatchCap,     \* 200000 characters and 24 dispatches in the code
    Sizes,                  \* character counts a file may have
    MaxHops,                \* harness fallbacks of one unit (2 in the code)
    MaxLoop,                \* fix loops (3 in the code)
    MaxFixed                \* bound of the model: files one fix changes

Harness == {"codex", "litellm"}
ASSUME ChainAssumption == \A p \in Perspective : Chain[p] \in Seq(Harness)
ASSUME CountAssumption == Files \in Nat /\ Limit \in Nat /\ DispatchCap \in Nat /\ MaxHops \in Nat
                          /\ MaxLoop \in Nat /\ MaxFixed \in Nat
                          /\ Sizes \subseteq Nat /\ Cardinality(Perspective) \in 1..DispatchCap

VARIABLES
    phase,      \* measure, walk, rescue, fix, record, done, aborted
    size,       \* characters of each file's review input
    available,  \* the harnesses that answer in this round
    passes,     \* the passes of the round, loop 0 first
    walk,       \* units of the running pass: the chain index of the run that is out, 0 for
                \*   the Claude fallback, the fallbacks so far, the entries run,
                \*   and how the unit ended
    groups,     \* perspective_runs as review-coverage.py groups them: was the last run completed
    refused,    \* one of their rows was invalid
    report,     \* the coverage fields of the round record
    version,    \* history: how often each file was fixed
    read        \* history: <<perspective, file, version>> a reviewer has really read

roundVars == <<phase, size, available, passes, walk, groups, refused, report, version, read>>

Loop == Len(passes) - 1
Pass == Last(passes)
NoReport == [unreviewed |-> {}, partial |-> <<>>]
Unit == [perspective : Perspective, shard : 0..Files]

RoundTypeOK ==
    /\ phase \in {"measure", "walk", "rescue", "fix", "record", "done", "aborted"}
    /\ size \in [1..Files -> Sizes] /\ available \subseteq Harness
    /\ \A i \in DOMAIN passes : UNION Range(passes[i].shards) = 1..Files
    /\ DOMAIN walk \subseteq Unit
    /\ \A u \in DOMAIN walk : walk[u].at \in 0..Len(Chain[u.perspective])
                              /\ walk[u].hops \in 0..MaxHops /\ walk[u].tried \subseteq 0..Len(Chain[u.perspective])
                              /\ walk[u].state \in {"running", "completed", "open"}
    /\ \A r \in DOMAIN groups : groups[r] \in {"completed", "open"}
    /\ version \in [1..Files -> 0..MaxLoop]

\* The next entry of p's chain after i that is available and, unless the reason was
\* congestion, of another harness than entry i; 0, the Claude fallback, if there is none.
NextEntry(p, i, reason) ==
    LET fit == {j \in i + 1..Len(Chain[p]) :
                  /\ Chain[p][j] \in available
                  /\ reason \in {"none", "rate_limited"} \/ Chain[p][j] # Chain[p][i]}
    IN  IF fit = {} THEN 0 ELSE Min(fit)

Sent(units) == [u \in units |-> [at |-> NextEntry(u.perspective, 0, "none"), hops |-> 0, tried |-> {}, state |-> "running"]]
Whole(p) == [perspective |-> p, shard |-> 0]
PerShard(p, pass) == {[perspective |-> p, shard |-> k] : k \in Dispatched(pass)}

\* Phase R2: spec is dispatched once on everything, the others per shard.
FanOut(pass) ==
    Sent(UNION {IF ~pass.split \/ p = "spec" THEN {Whole(p)} ELSE PerShard(p, pass) : p \in Perspective})

RoundInit ==
    /\ phase = "measure"
    /\ size \in [1..Files -> Sizes] /\ available \in SUBSET Harness
    /\ passes = <<>> /\ walk = <<>> /\ groups = <<>> /\ refused = FALSE
    /\ report = NoReport
    /\ version = [f \in 1..Files |-> 0] /\ read = {}

NewPass(fixed, chars) ==
    LET built == BuildResult(chars, Files, Limit, ShardCap(DispatchCap, Cardinality(Perspective)))
    IN  [fixed |-> fixed, split |-> built.split, cap |-> built.cap, shards |-> built.shards]

\* review-shards before each fan-out; without a manifest nothing is dispatched.
Measure(fixed, chars) ==
    \/ /\ passes' = Append(passes, NewPass(fixed, chars))
       /\ walk' = FanOut(NewPass(fixed, chars)) /\ phase' = "walk"
    \/ phase' = "aborted" /\ UNCHANGED <<passes, walk>>

FirstPass ==
    /\ phase = "measure" /\ passes = <<>>
    /\ Measure({}, size)
    /\ UNCHANGED <<size, available, groups, refused, report, version, read>>

\* The row of a run of unit u, as recorded.
Row(u) == [perspective |-> u.perspective, shard |-> u.shard, loop |-> Loop]
Record(u, status) ==
    /\ groups' = [r \in DOMAIN groups \cup {Row(u)} |-> IF r = Row(u) THEN status ELSE groups[r]]
    /\ refused' = (refused \/ RowRefused(Pass, Row(u), walk[u].at \in walk[u].tried))

GoOn(u, at) == walk' = [walk EXCEPT ![u] = [at |-> at, hops |-> IF at = 0 THEN @.hops ELSE @.hops + 1,
                                            tried |-> @.tried \cup {@.at}, state |-> "running"]]
End(u, state) == walk' = [walk EXCEPT ![u] = [at |-> 0, hops |-> 0, tried |-> {}, state |-> state]]
\* One Claude fallback after a run that cannot be continued; none after the fallback.
FallBack(u) == IF walk[u].at = 0 THEN End(u, "open") ELSE GoOn(u, 0)

Origin(u) == IF walk[u].at = 0 THEN "claude" ELSE Chain[u.perspective][walk[u].at]

\* A reviewer that has read its files, or a model run that says so without having.
ValidResult(u) ==
    \E empty \in IF Origin(u) = "litellm" THEN BOOLEAN ELSE {FALSE} :
      LET status == Classify(Origin(u), empty) IN
      /\ Record(u, status)
      /\ IF status = "completed" THEN End(u, "completed") ELSE FallBack(u)
      /\ read' = IF empty THEN read
                 ELSE read \cup {<<u.perspective, f, version[f]>> : f \in Covers(passes, Row(u))}

\* The classification fails: every result of the call counts as failed.
UnclassifiedResult(u) ==
    /\ Origin(u) = "litellm"
    /\ Record(u, "open") /\ FallBack(u) /\ UNCHANGED read

\* No usable result: malformed, or the reviewer failed at the harness level.
BadResult(u) == Record(u, "open") /\ FallBack(u) /\ UNCHANGED read

Hop(u, reason) == IF walk[u].hops < MaxHops THEN NextEntry(u.perspective, walk[u].at, reason) ELSE 0

\* Skips that can be retried go on to the next entry the reason leaves, others are kept.
SkippedResult(u) ==
    \E reason \in {"rate_limited", "budget_exhausted", "no_spec"} :
      /\ Record(u, "open") /\ UNCHANGED read
      /\ IF walk[u].at = 0 \/ reason = "no_spec" THEN End(u, "open")
         ELSE GoOn(u, Hop(u, reason))

Running == {u \in DOMAIN walk : walk[u].state = "running"}
Answer(u) ==
    /\ phase \in {"walk", "rescue"} /\ Running # {} /\ u = CHOOSE v \in Running : TRUE
    /\ ValidResult(u) \/ UnclassifiedResult(u) \/ BadResult(u) \/ SkippedResult(u)
    /\ UNCHANGED <<phase, size, available, passes, report, version>>

Open(u) == u \in DOMAIN walk /\ walk[u].state = "open"
AllEnded == Running = {}

\* Bug: rescue runs go to every shard, past the cap.
Rescued_All(pass) == {[perspective |-> "spec", shard |-> k] : k \in DOMAIN pass.shards}

Rescued(pass) == PerShard("spec", pass)

\* spec on the whole input came to nothing in a split pass: once more, per dispatched shard.
Rescue ==
    /\ phase = "walk" /\ AllEnded /\ Pass.split /\ Open(Whole("spec"))
    /\ phase' = "rescue" /\ walk' = Sent(Rescued(Pass))
    /\ UNCHANGED <<size, available, passes, groups, refused, report, version, read>>

WalksEnd ==
    /\ AllEnded /\ \/ phase = "walk" /\ ~(Pass.split /\ Open(Whole("spec")))
                   \/ phase = "rescue"
    /\ phase' = "fix" /\ walk' = <<>>
    /\ UNCHANGED <<size, available, passes, groups, refused, report, version, read>>

\* Phase R4: a productive loop changes files, which are measured and reviewed again.
Fix ==
    /\ phase = "fix" /\ Loop < MaxLoop
    /\ \E fixed \in SUBSET (1..Files) \ {{}} : Cardinality(fixed) =< MaxFixed
      /\ version' = [f \in 1..Files |-> version[f] + IF f \in fixed THEN 1 ELSE 0]
      /\ \E s \in [fixed -> Sizes] :
            size' = [f \in 1..Files |-> IF f \in fixed THEN s[f] ELSE size[f]]
      /\ Measure(fixed, size')
    /\ UNCHANGED <<available, groups, refused, report, read>>

\* Clean, no progress or the loop cap.
NoMoreFixes ==
    /\ phase = "fix" /\ phase' = "record"
    /\ UNCHANGED <<size, available, passes, walk, groups, refused, report, version, read>>

\* Phase R5: no record without the coverage fields.
RecordRound ==
    /\ phase = "record"
    /\ IF refused THEN phase' = "aborted" /\ UNCHANGED report
       ELSE phase' = "done" /\ report' = ComputeCoverage(Perspective, Files, passes, groups)
    /\ UNCHANGED <<size, available, passes, walk, groups, refused, version, read>>

Walks == (\E u \in Unit : Answer(u)) \/ Rescue \/ WalksEnd
RoundNext == FirstPass \/ Walks \/ Fix \/ NoMoreFixes \/ RecordRound

\* Reviewers answer, if only by failing, and the orchestrator goes on.
RoundSpec == RoundInit /\ [][RoundNext]_roundVars

----------------------------------------------------------------------------
(* Properties *)

Left(p) == IF p \in DOMAIN report.partial THEN report.partial[p].files ELSE {}

\* The round record lists exactly what no reviewer of the perspective has read as it is now,
\* through shards, retries, rescue runs and fixes (compute_coverage), and the rows it is made
\* of are never refused: no run_id twice, none outside the shards its pass dispatched.
CoverageIsExact ==
    /\ ~refused
    /\ phase = "done" => \A p \in Perspective, f \in 1..Files :
          (p \in report.unreviewed \/ f \in Left(p)) <=> <<p, f, version[f]>> \notin read

=============================================================================
