--------------------------- MODULE MCPythonClient ---------------------------
(***************************************************************************)
(* PythonClient for TLC.                                                    *)
(***************************************************************************)
EXTENDS PythonClient
=============================================================================
