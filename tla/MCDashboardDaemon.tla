------------------------- MODULE MCDashboardDaemon -------------------------
(* Two runs of one runner.                                                  *)
EXTENDS DashboardDaemon, TLC

MCRunnerOf == [r \in Runs |-> CHOOSE k \in Runners : TRUE]
Symmetry == Permutations(Runs)
=============================================================================
