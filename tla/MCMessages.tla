------------------------------ MODULE MCMessages ------------------------------
(***************************************************************************)
(* Messages for TLC: the constants are given in Messages.cfg.               *)
(***************************************************************************)
EXTENDS Messages
=============================================================================
