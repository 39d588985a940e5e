----------------------------- MODULE MCProgram -----------------------------
(* A small instance of Program: a polite client and another, with at most  *)
(* one plot; or more plots, without the server.                            *)
EXTENDS Program

RequestSet == {<<"G", "ET /", "end">>, <<"G", "ET /", "sng.gif", "end">>}

MCInit == Init /\ (config.http => config.plots <= 1)

MCSpec == MCInit /\ [][Next]_vars /\ Fairness

=============================================================================
