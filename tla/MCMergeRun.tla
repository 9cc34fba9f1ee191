----------------------------- MODULE MCMergeRun -----------------------------
(* Two invocations for one feature.                                        *)
EXTENDS MergeRun
=============================================================================
