--------------------------- MODULE MCHTTPDispatch ---------------------------
(* Instances of HTTPDispatch for TLC.                                       *)
EXTENDS HTTPDispatch, TLC

Symmetry == Permutations(Monitor)
=============================================================================
