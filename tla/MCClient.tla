------------------------------ MODULE MCClient ------------------------------
(* Instances of Client for TLC; descriptor numbers are ordered, so there is *)
(* no symmetry to use.                                                      *)
EXTENDS Client
=============================================================================
