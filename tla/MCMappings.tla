----------------------------- MODULE MCMappings -----------------------------
(***************************************************************************)
(* Instance of Mappings for TLC.                                            *)
(***************************************************************************)
EXTENDS Mappings
=============================================================================
