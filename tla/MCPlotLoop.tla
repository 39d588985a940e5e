----------------------------- MODULE MCPlotLoop -----------------------------
(* PlotLoop on small instances.  Margin 1 and Word 16 leave a plot of width *)
(* w with w - 4 buffer slots: none at w = 4, and where the subtraction      *)
(* wraps 15 at w = 3 and 14 at w = 2, where the plot's width is the 0 that  *)
(* last_plot_width starts as.  With LiveSpec there is one input at most     *)
(* once there are samples, and two as long as there are none.               *)
EXTENDS PlotLoop

InputsOrSamples == inputs <= 1 \/ \A p \in Plots : pushed[p] = 0

LiveSpec == Init /\ [][Next /\ InputsOrSamples']_vars /\ Fairness

=============================================================================
