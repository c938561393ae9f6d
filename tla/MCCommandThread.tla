--------------------------- MODULE MCCommandThread ---------------------------
(***************************************************************************)
(* Instances of CommandThread for TLC.                                      *)
(***************************************************************************)
EXTENDS CommandThread
=============================================================================
