--------------------------- MODULE MCHealthServer ---------------------------
(* An instance of HealthServer for TLC.                                     *)
EXTENDS HealthServer, TLC

MCBounds == <<1>>

\* Beyond the TTL less a beat and a call, short of it, and back.
MCJumps == {-3, 3, 7}

Symmetry == Permutations(Worker)
=============================================================================
