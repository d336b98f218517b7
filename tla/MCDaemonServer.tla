--------------------------- MODULE MCDaemonServer ---------------------------
(* DaemonServer on small instances. *)
EXTENDS DaemonServer, TLC

\* Connections are interchangeable (safety runs only).
Symmetry == Permutations(Conns)
=============================================================================
