---------------------------- MODULE MCContextMeter ----------------------------
(***************************************************************************)
(* ContextMeter for TLC.  What MCAlgorithms says of the pure functions is  *)
(* checked when the run begins.                                            *)
(***************************************************************************)
EXTENDS ContextMeter, MCAlgorithms
=============================================================================
