----------------------------- MODULE MCSources -----------------------------
(***************************************************************************)
(* A small instance of every data source.                                  *)
(***************************************************************************)
EXTENDS Sources, TLC

JumpValues == {-2, 2}

CounterWords == {<<0, 0, 0, 5>>, <<128, 0, 0, 0>>}
EveryMinute  == 0..1439

\* Plots are alike.
PlotSymmetry == Permutations(PingPlots) \union Permutations(CpuPlots)

=============================================================================
