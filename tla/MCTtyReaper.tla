--------------------------- MODULE MCTtyReaper ---------------------------
(* The Stop hook among two further processes.                              *)
EXTENDS TtyReaper
==========================================================================
