---------------------------- MODULE MCMergeLock ----------------------------
EXTENDS MergeLock

CONSTANTS r1, r2, r3, f1, f2

\* Two runs of one feature and one of another.
MCFeatureOf == [r \in Run |-> IF r = r3 THEN f2 ELSE f1]
=============================================================================
