-------------------------- MODULE MCPeriodicTimer --------------------------
EXTENDS PeriodicTimer

\* Back and forth by less than an interval, back by more than one, forth
\* beyond the threshold.
MCJumps == {-7, -1, 2, 25}
=============================================================================
