------------------------- MODULE MCLeaderTransport -------------------------
(* An instance of LeaderTransport for TLC.                                  *)
EXTENDS LeaderTransport, TLC

Symmetry == Permutations(Monitor) \cup Permutations(Poller)
=============================================================================
