------------------------------ MODULE MCGoClient ------------------------------
(***************************************************************************)
(* GoClient for TLC.  One caller that times out again and again fills the   *)
(* channel as several do; symmetry is not used, as the run checks liveness. *)
(***************************************************************************)
EXTENDS GoClient
=============================================================================
