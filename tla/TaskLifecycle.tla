--------------------------- MODULE TaskLifecycle ---------------------------
(***************************************************************************)
(* What the journal promises its readers about one task: an append-only    *)
(* history of events in which a launch never follows a live launch or a    *)
(* merge, and a recorded merge is taken back only on request.  It says     *)
(* nothing of agents, hooks, the agent index or git; the components that   *)
(* write the journal implement it.                                         *)
(***************************************************************************)
EXTENDS Sequences, Naturals

CONSTANT Task

VARIABLES
    history,    \* task -> its events, oldest first
    doubted     \* tasks whose recorded merge somebody asked to take back

Event == {"launched", "merged", "failed"}

Status(t) == IF history[t] = <<>> THEN "none" ELSE history[t][Len(history[t])]

TypeOK ==
    /\ history \in [Task -> Seq(Event)]
    /\ doubted \subseteq Task

Init ==
    /\ history = [t \in Task |-> <<>>]
    /\ doubted = {}

Record(t, event) == history' = [history EXCEPT ![t] = Append(@, event)]

\* A task is launched only when it is neither in flight nor merged.
DoLaunch(t) ==
    /\ Status(t) \in {"none", "failed"}
    /\ Record(t, "launched")
    /\ UNCHANGED doubted

\* A merge is recorded whatever was recorded before it.
DoMerge(t) ==
    /\ Record(t, "merged")
    /\ UNCHANGED doubted

\* A failure ends a launch that is not ended yet, or a stop nobody launched.
DoFail(t) ==
    /\ Status(t) \in {"none", "launched"}
    /\ Record(t, "failed")
    /\ UNCHANGED doubted

\* Somebody reads a recorded merge that git does not confirm,
DoDoubt(t) ==
    /\ Status(t) = "merged"
    /\ doubted' = doubted \cup {t}
    /\ UNCHANGED history

\* and has it taken back, unless the history has moved on.
DoUnverify(t) ==
    /\ t \in doubted
    /\ doubted' = doubted \ {t}
    /\ IF Status(t) = "merged" THEN Record(t, "failed") ELSE UNCHANGED history

Next == \E t \in Task :
    DoLaunch(t) \/ DoMerge(t) \/ DoFail(t) \/ DoDoubt(t) \/ DoUnverify(t)

Spec == Init /\ [][Next]_<<history, doubted>>
=============================================================================
