-------------------------- MODULE MCOrphanRecovery --------------------------
EXTENDS OrphanRecovery, TLC

CONSTANTS l1, s1, s2, s3

Symmetry == Permutations(Session) \cup Permutations(Launch)

\* Sessions are interchangeable, and so are launches: up to a renaming, s1 makes
\* l1, and s1 or s2 the other launch.
MCInit == Init /\ owner[l1] = s1 /\ \A l \in Launch : owner[l] \in {s1, s2}

\* Overlapping sessions are three for two ticks, the others two for three.
MCNext ==
    /\ Next
    /\ IF "concurrent" \in faults THEN now' < 3 ELSE session'[s3].state = "new"

MCSpec == MCInit /\ [][MCNext]_vars /\ Fairness
=============================================================================
