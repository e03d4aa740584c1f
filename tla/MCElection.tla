----------------------------- MODULE MCElection -----------------------------
(* Instances of Election for TLC.  One unit of time is five seconds.        *)
EXTENDS Election, TLC

Symmetry == Permutations(Poller)

=============================================================================
