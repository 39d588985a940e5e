------------------------------ MODULE Sources -------------------------------
(***************************************************************************)
(* The data sources together: the program's source is one of them, and     *)
(* stays that one.  What several of them have in common is stated here.    *)
(***************************************************************************)
EXTENDS PingSource, TcpSource, RateSource, SnmpClient, ShellSource, CpuSource, ClockSource,
        SourceText

Init == \/ PingInit \/ TcpInit \/ RateInit \/ SnmpClientInit
        \/ ShellInit \/ CpuInit \/ ClockInit \/ TextInit

Next == \/ system \in PingSystems /\ PingNext
        \/ system = "tcp" /\ TcpNext
        \/ system \in {"snmp", "if_thr"} /\ RateNext
        \/ system = "snmp client" /\ SnmpClientNext
        \/ system = "shell" /\ ShellNext
        \/ system \in CpuPorts /\ CpuNext
        \/ system = "clock" /\ ClockNext
        \/ system = "text" /\ TextNext

\* Both sources that resolve names try again within the retry time and one
\* collection (ping.c:95, tcp.c:156), except for what the clock was set back by:
\* an hour set back is an hour without a value, although the host may be up.
RetryPaced ==
    /\ system \in PingSystems => \A p \in PingPlots : Unresolved(p) =>
         world.untried[p] <= Retry + Interval + world.setback[p]
    /\ system = "tcp" /\ ~ctx.resolved =>
         world.untried <= Retry + Interval + world.setback

\* What the text under a plot says was measured lately (the get_stats of the
\* sources, which read what their collectors are storing), and of a clock
\* it is the time of day.
TextTellsSource == TextIsMeasured /\ ClockTellsTime

Spec == Init /\ [][Next]_source

=============================================================================
