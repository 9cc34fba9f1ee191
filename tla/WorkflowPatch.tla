--------------------------- MODULE WorkflowPatch ---------------------------
(***************************************************************************)
(* The rules of a workflow patch: what validate-worker-output.py accepts   *)
(* from a planning worker and what applying it makes of workflow.yaml.     *)
(*                                                                         *)
(* A workflow w is a record                                                *)
(*   plan, implement, review   the status of the three steps               *)
(*   base                      whether implement has its base_commit       *)
(*   tasks                     id |-> [status, by, file]; by is the run    *)
(*                             whose patch registered the id               *)
(*   tests                     the scenario list of a requirement          *)
(* A journal j gives the last event of each id.  A patch is a record       *)
(*   op       "replace_planning" or "append_rework"                        *)
(*   run, blob, digest   its identity and the workflow it was derived from *)
(*   entries  new ids |-> file         carried   ids carried over          *)
(*   next     expected_next_task_id    fix       ids whose path it corrects*)
(*   keep     whether preserve lists implement.base_commit                 *)
(*   steps    set of [step, from, to]  swaps     tests_replace, in order   *)
(*   more     tests_append                                                 *)
(* A file is "report" (a name the report rule matches, absent at the base) *)
(* or "plain".                                                             *)
(***************************************************************************)
EXTENDS Integers, Sequences, SequencesExt

Statuses == {"pending", "in_progress", "failed", "merged"}

Ids(w) == DOMAIN w.tasks

NextId(w) == 1 + Max(Ids(w) \cup {0})

SomeTask(w, S) == \E i \in Ids(w) : w.tasks[i].status \in S

OnCorrectionEntry(w, p) ==
    p.fix /= {} /\ w.plan = "completed" /\ w.implement = "failed"

Reentry(w, auth) == auth = "granted" /\ w.base

Replanning(w, auth) ==
    \/ w.plan = "needs_update"
    \/ w.plan = "pending" /\ Reentry(w, auth)

PathState(w, auth, p) ==
    IF p.fix = {}                      THEN "none"
    ELSE IF OnCorrectionEntry(w, p)    THEN "correction"
    ELSE IF Replanning(w, auth)        THEN "replanning"
    ELSE "other"

\* The structural layer.

EntriesOk(p) ==
    /\ \A i \in DOMAIN p.entries : p.entries[i] = "plain"
    /\ p.op = "append_rework" => p.carried = {} /\ p.fix = {}

Froms(p) == {p.swaps[k].from : k \in DOMAIN p.swaps}
Tos(p) == {p.swaps[k].to : k \in DOMAIN p.swaps}

\* Bug: an id may be both replaced and a replacement.
SwapsOk_AnyOrder(p, w) ==
    /\ Cardinality(Froms(p)) = Len(p.swaps)
    /\ \A t \in Froms(p) : \E k \in DOMAIN w.tests : w.tests[k] = t

SwapsOk(p, w) ==
    /\ Cardinality(Froms(p)) = Len(p.swaps)
    /\ Froms(p) \cap Tos(p) = {}
    /\ \A t \in Froms(p) : \E k \in DOMAIN w.tests : w.tests[k] = t

DocsOnly(p) == p.op = "append_rework" /\ DOMAIN p.entries = {}

StepsOk(p, origin) ==
    DocsOnly(p) =>
        \E s \in p.steps : p.steps = {s} /\ s.step = origin /\ s.to = "pending"

PreserveOk(p) == p.op = "append_rework" => p.keep

\* The rules of --dry-run-apply.

\* Bug: the workflow may have moved since the dispatch.
Fresh_Any(w, p) == TRUE

Fresh(w, p) == p.blob = w

ExpectedHolds(w, p) == \A s \in p.steps : w[s.step] = s.from

\* Bug: registered ids may be left out, and new ones may lie below them.
CarryOk_MayDrop(w, p) ==
    /\ p.keep
    /\ DOMAIN p.entries \cap Ids(w) = {}
    /\ p.carried \subseteq Ids(w)

CarryOk(w, p) ==
    /\ p.keep
    /\ DOMAIN p.entries \cap Ids(w) = {}
    /\ p.carried = Ids(w)
    /\ \A i \in DOMAIN p.entries : i >= NextId(w)

ReplaceOk(w, auth, p) ==
    LET state == PathState(w, auth, p)
        entry == state = "correction"
    IN  /\ state /= "other"
        /\ entry => p.steps = {}
        /\ entry \/ w.plan \in {"pending", "needs_update"}
        /\ ~SomeTask(w, IF entry THEN {"in_progress"} ELSE {"in_progress", "failed"})
        /\ IF entry \/ Replanning(w, auth)
           THEN CarryOk(w, p)
           ELSE ~SomeTask(w, Statuses \ {"pending"})

InFlight(w, j) == {i \in Ids(w) : w.tasks[i].status = "in_progress" \/ j[i] = "launched"}

Merged(w, j) == {i \in Ids(w) : w.tasks[i].status = "merged" \/ j[i] = "merged"}

CorrectionOk(w, j, p) ==
    p.fix /= {} =>
        /\ p.fix \subseteq p.carried
        /\ InFlight(w, j) = {}
        /\ p.fix \cap Merged(w, j) = {}
        /\ \A i \in p.fix : i \in Ids(w) /\ w.tasks[i].file = "report"

\* On the correction entry a patch may bring nothing but the corrections and
\* the tasks they need.
EntryLimit(w, p) == OnCorrectionEntry(w, p) => p.swaps = <<>> /\ p.more = <<>>

AppendOk(w, p) ==
    DOMAIN p.entries \cap Ids(w) = {} /\ p.next = NextId(w)

Corrected(w, p) ==
    [i \in p.carried \cap Ids(w) |-> IF i \in p.fix THEN [w.tasks[i] EXCEPT !.file = "plain"]
                                                       ELSE w.tasks[i]]

\* A carried task that is not merged keeps no report name.
CarriedNamesOk(w, p) ==
    \A i \in p.carried \cap Ids(w) :
        w.tasks[i].status = "merged" \/ Corrected(w, p)[i].file = "plain"

Accepted(w, j, auth, origin, p) ==
    /\ EntriesOk(p)
    /\ SwapsOk(p, w)
    /\ StepsOk(p, origin)
    /\ PreserveOk(p)
    /\ Fresh(w, p)
    /\ ExpectedHolds(w, p)
    /\ p.op = "replace_planning" => ReplaceOk(w, auth, p)
    /\ CorrectionOk(w, j, p)
    /\ EntryLimit(w, p)
    /\ p.op = "append_rework" => AppendOk(w, p)
    /\ p.op = "replace_planning" => CarriedNamesOk(w, p)

\* Application.

\* A filter as a recursive function, which a proof can unfold.
Without(tests, t) ==
    LET upto[k \in 0..Len(tests)] ==
            IF k = 0 THEN <<>>
            ELSE IF tests[k] = t THEN upto[k - 1] ELSE Append(upto[k - 1], tests[k])
    IN  upto[Len(tests)]

\* Every s.from goes; the first one's place is s.to's, unless s.to is listed already.
Swap(tests, s) ==
    LET at(t) == {k \in DOMAIN tests : tests[k] = t}
    IN  IF s.from = s.to \/ at(s.from) = {} THEN tests
        ELSE Without(IF at(s.to) /= {} THEN tests ELSE ReplaceAt(tests, Min(at(s.from)), s.to),
                     s.from)

SwapAll(tests, swaps) ==
    LET after[k \in 0..Len(swaps)] ==
            IF k = 0 THEN tests ELSE Swap(after[k - 1], swaps[k])
    IN  after[Len(swaps)]

NewTask(p, i) == [status |-> "pending", by |-> p.run, file |-> p.entries[i]]

Joined(old, p) ==
    [i \in DOMAIN old \cup DOMAIN p.entries |->
        IF i \in DOMAIN p.entries THEN NewTask(p, i) ELSE old[i]]

StepAfter(w, p, step) ==
    LET set == {s \in p.steps : s.step = step}
    IN  IF set = {} THEN w[step] ELSE (CHOOSE s \in set : TRUE).to

Apply(w, p) ==
    [w EXCEPT
        !.tasks = IF p.op = "replace_planning" THEN Joined(Corrected(w, p), p)
                                               ELSE Joined(w.tasks, p),
        !.tests = SwapAll(w.tests, p.swaps) \o p.more,
        !.implement = StepAfter(w, p, "implement"),
        !.review = StepAfter(w, p, "review")]

=============================================================================
