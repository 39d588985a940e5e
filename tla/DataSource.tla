----------------------------- MODULE DataSource -----------------------------
(***************************************************************************)
(* What the data sources (ds/) have in common.  A source is a context that *)
(* its collector thread (threading.c) hands to the source's collect        *)
(* function once in an interval; the value it returns, or -1, is pushed.   *)
(* Each source is a module of its own over these variables, in which each  *)
(* finds a different meaning.                                              *)
(***************************************************************************)
EXTENDS Integers, Sequences

CONSTANTS PingTimeout, TcpTimeout,  \* ticks an answer is waited for (1000 and 3000 ms)
          Retry,      \* ticks between two attempts to resolve a name (30 s)
          Interval,   \* ticks between two collections, at most
          ClockWord,  \* 2^64: where microseconds wrap
          Jumps,      \* by how many ticks the clock of the day may be set
          MaxJumps    \* bound on how often

ASSUME ClockAssumption ==
    /\ {PingTimeout, TcpTimeout, Retry, Interval, MaxJumps} \subseteq Nat
    /\ ClockWord \in Nat \ {0} /\ Jumps \subseteq Int
    /\ PingTimeout < ClockWord /\ TcpTimeout < ClockWord

VARIABLES
    system,  \* the source, or the version of it that the operating system takes
    ctx,     \* its context
    pc,      \* where its threads are
    wait,    \* their local variables while they collect
    sample,  \* what was pushed last, with what the properties want to know of it
    world    \* what it measures, and the history of that

source == <<system, ctx, pc, wait, sample, world>>

\* Mutant: the condition is that for leaving the name alone.
RetryDueInverted(since) == since < Retry

\* The condition of ping.c and tcp.c for another attempt, by the clock's time
\* since the last.
RetryDue(since) == since >= Retry

=============================================================================
