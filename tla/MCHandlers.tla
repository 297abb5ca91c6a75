----------------------------- MODULE MCHandlers -----------------------------
(* Instances of Handlers for TLC. *)
EXTENDS Handlers, TLC

CONSTANTS c1, c2, c3

\* The connections are alike.
Symmetry == Permutations(Conns)
=============================================================================
