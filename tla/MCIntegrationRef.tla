-------------------------- MODULE MCIntegrationRef --------------------------
EXTENDS IntegrationRef

\* Nothing interferes with git reset --hard, and all call forms are in use; or
\* implementers leave their branches, and no document is committed; or the reset takes
\* its own steps, and documents are committed without a captured tip.
MCUsage == {[capture |-> Mode, refresh |-> "atomic", leaves |-> FALSE],
            [capture |-> {}, refresh |-> "atomic", leaves |-> TRUE],
            [capture |-> {"none"}, refresh |-> "split", leaves |-> FALSE]}

\* Every tip is captured first, and git reset --hard takes its own steps.
MCUsageReset == {[capture |-> {"first"}, refresh |-> "split", leaves |-> FALSE]}
=============================================================================
