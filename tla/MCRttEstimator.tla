--------------------------- MODULE MCRttEstimator ---------------------------
(***************************************************************************)
(* RttEstimator with the timing of template T5.                            *)
(***************************************************************************)
EXTENDS RttEstimator
=============================================================================
