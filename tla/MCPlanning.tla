----------------------------- MODULE MCPlanning -----------------------------
(* Three task ids, passes and crashes as bounded in the configuration.     *)
EXTENDS Planning
=============================================================================
