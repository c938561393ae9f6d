--------------------------- MODULE MCElixirClient ---------------------------
(***************************************************************************)
(* ElixirClient for TLC.                                                    *)
(***************************************************************************)
EXTENDS ElixirClient

CONSTANTS c1, c2
=============================================================================
