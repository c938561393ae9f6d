------------------------------ MODULE MCLineBuf ------------------------------
(***************************************************************************)
(* Instance of LineBuf for TLC.                                             *)
(***************************************************************************)
EXTENDS LineBuf
=============================================================================
