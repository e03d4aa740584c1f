------------------------- MODULE MCElectionFailover -------------------------
(* Instances of ElectionFailover for TLC.                                   *)
EXTENDS ElectionFailover, TLC

Symmetry == Permutations(Poller)
=============================================================================
