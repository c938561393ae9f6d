------------------------------ MODULE MCTools -------------------------------
(***************************************************************************)
(* Tools for TLC: modules of different length.                              *)
(***************************************************************************)
EXTENDS Tools

CONSTANTS p1, p2, p3

MCBodyLen == [p \in Procs |-> IF p = p2 THEN 2 ELSE 1]
=============================================================================
