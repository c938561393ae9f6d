----------------------------- MODULE MCHashCache -----------------------------
(***************************************************************************)
(* Instance of HashCache for TLC.                                           *)
(***************************************************************************)
EXTENDS HashCache
=============================================================================
