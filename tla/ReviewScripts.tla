--------------------------- MODULE ReviewScripts ---------------------------
(***************************************************************************)
(* review-shards.py and review-coverage.py as operators.  Files are        *)
(* numbered in path order.  A pass is [fixed, split, shards, cap]: the     *)
(* files its fix changed, and the manifest review-shards returned, whose   *)
(* shards are sets of files; `groups` gives each recorded run, named       *)
(* [perspective, shard, loop] with shard 0 for none, its last status.      *)
(***************************************************************************)
EXTENDS Integers, Sequences, FiniteSets, SequencesExt, FiniteSetsExt

Chars(size, files) == FoldSet(LAMBDA f, n : n + size[f], 0, files)

\* split_shards: next-fit in path order; a file over the limit ends up alone.
Packed(size, limit, shards, f) ==
    IF shards # <<>> /\ Chars(size, Last(shards)) + size[f] =< limit
    THEN ReplaceAt(shards, Len(shards), Last(shards) \cup {f}) ELSE Append(shards, {f})

SplitShards(size, n, limit) ==
    LET after[f \in 0..n] == IF f = 0 THEN <<>> ELSE Packed(size, limit, after[f - 1], f)
    IN  after[n]

\* DISPATCH_CAP // perspective_count
ShardCap(dispatches, perspectives) == dispatches \div perspectives

\* measure and build_result: at most `limit` characters stay in one shard.
BuildResult(size, n, limit, cap) ==
    LET split == Chars(size, 1..n) > limit
    IN  [split |-> split, cap |-> cap, shards |-> IF split THEN SplitShards(size, n, limit) ELSE <<1..n>>]

Dispatched(pass) == {k \in DOMAIN pass.shards : k =< pass.cap}
Excess(pass) == DOMAIN pass.shards \ Dispatched(pass)

\* Bug: what litellm could not read counts as a review without findings.
Classify_SchemaOnly(origin, empty) == "completed"

\* classify_results: a litellm run without a finding whose summary says that its output
\* was cut or no JSON.
Classify(origin, empty) == IF origin = "litellm" /\ empty THEN "open" ELSE "completed"

\* _read_rows: a run_id seen before, or one outside what its pass dispatches, is refused.
RowRefused(pass, row, again) ==
    \/ again
    \/ IF row.shard = 0 THEN pass.split /\ row.perspective # "spec"
                        ELSE ~pass.split \/ row.shard \notin Dispatched(pass)

\* The loop of the last fix of a file; passes[1] is the pass of loop 0.
LastChange(passes, f) == Max({0} \cup {l \in 1..Len(passes) - 1 : f \in passes[l + 1].fixed})

\* Bug: every loop's reviews count, whatever was fixed since.
Since_Ever(passes, f) == 0

Since(passes, f) == LastChange(passes, f)

\* compute_coverage
Covers(passes, row) == IF row.shard = 0 THEN UNION Range(passes[row.loop + 1].shards)
                                        ELSE passes[row.loop + 1].shards[row.shard]
CoveredIn(passes, groups, p, f) ==
    {row.loop : row \in {r \in DOMAIN groups : /\ r.perspective = p /\ groups[r] = "completed"
                                               /\ f \in Covers(passes, r)}}

Tokens(passes, groups, p, f) ==
    LET since == Since(passes, f)
        later == {l \in 0..Len(passes) - 1 : l >= since}
        shard(l) == CHOOSE k \in DOMAIN passes[l + 1].shards : f \in passes[l + 1].shards[k]
    IN  (IF \E l \in CoveredIn(passes, groups, p, f) : l < since THEN {"changed_after_review"} ELSE {})
        \cup (IF \E l \in later : shard(l) \in Excess(passes[l + 1]) THEN {"shard_cap_exceeded"} ELSE {})
        \cup (IF \E l \in later : \/ shard(l) \in Dispatched(passes[l + 1])
                                  \/ [perspective |-> p, shard |-> 0, loop |-> l] \in DOMAIN groups
              THEN {"run_not_completed"} ELSE {})

ComputeCoverage(perspectives, n, passes, groups) ==
    LET left(p) == {f \in 1..n : \A l \in CoveredIn(passes, groups, p, f) : l < Since(passes, f)}
        any(p) == \E row \in DOMAIN groups : row.perspective = p /\ groups[row] = "completed"
        unreviewed == {p \in perspectives : ~any(p) \/ (n > 0 /\ left(p) = 1..n)}
        rescue(p) == p = "spec" /\ \E row \in DOMAIN groups : row.perspective = p /\ row.shard # 0
        partial == {p \in perspectives \ unreviewed : left(p) # {} \/ rescue(p)}
    IN  [unreviewed |-> unreviewed,
         partial |-> [p \in partial |->
             [files |-> left(p),
              reason |-> UNION {Tokens(passes, groups, p, f) : f \in left(p)}
                         \cup (IF rescue(p) THEN {"spec_rescue"} ELSE {})]]]
=============================================================================
