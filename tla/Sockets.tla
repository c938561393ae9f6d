------------------------------ MODULE Sockets -------------------------------
(***************************************************************************)
(* What all models of the server process share: it has as many threads as   *)
(* sockets were given on the command line, and at least one.                *)
(***************************************************************************)
EXTENDS Integers

CONSTANT NThreads   \* n_threads

ASSUME NThreadsAssumption == NThreads \in Nat \ {0}

Threads == 0 .. NThreads - 1
=============================================================================
