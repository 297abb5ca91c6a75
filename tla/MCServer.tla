------------------------------ MODULE MCServer ------------------------------
(* Instances of Server for TLC. *)
EXTENDS Server, TLC

\* Connections are interchangeable: nothing in the server tells them apart.
Symmetry == Permutations(Conns)
=============================================================================
