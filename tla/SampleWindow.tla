---------------------------- MODULE SampleWindow ----------------------------
(***************************************************************************)
(* What a plot's sample buffer promises to the threads that use it: a      *)
(* bounded sliding window over the stream of collected samples.  Samples   *)
(* are numbered 1, 2, 3, ... in the order in which the collector thread    *)
(* pushes them; the window always holds the newest ones, oldest first.     *)
(*                                                                         *)
(* This is the abstract specification; RingBuf is the code (ringbuf.c)     *)
(* that implements it, and PairedBuffers composes two of these windows.    *)
(***************************************************************************)
EXTENDS Naturals, Sequences

CONSTANTS Sizes,     \* the capacities a buffer may be created with or resized to
          MaxPush    \* bound on the number of samples ever pushed

VARIABLES window,    \* the samples held, oldest first
          cap,       \* the capacity
          taken      \* how many samples have been pushed so far

windowVars == <<window, cap, taken>>

\* The newest n elements of the sequence s (all of s when it is shorter).
Newest(s, n) == IF Len(s) <= n THEN s ELSE SubSeq(s, Len(s) - n + 1, Len(s))

Init == /\ window = <<>>
        /\ cap \in Sizes
        /\ taken = 0

\* A push appends the next sample and drops the oldest one of a full window.
Push == /\ taken < MaxPush
        /\ taken' = taken + 1
        /\ window' = Newest(Append(window, taken'), cap)
        /\ UNCHANGED cap

\* A resize keeps as many of the newest samples as the new capacity admits.
Resize(n) == /\ cap' = n
             /\ window' = Newest(window, n)
             /\ UNCHANGED taken

Next == Push \/ \E n \in Sizes : Resize(n)

Spec == Init /\ [][Next]_windowVars

=============================================================================
