--------------------------- MODULE PeriodicTimer ---------------------------
(***************************************************************************)
(* The rhythm of a collector thread (threading.c) and the timer it waits   *)
(* with, in the five versions of os/: linux_timer.c (a timerfd on the      *)
(* monotonic clock), kqueue_timer.c, posix_timer.c (a condition variable   *)
(* with an absolute timeout), cma_timer.c and sproc_timer.c (a sleep).     *)
(*                                                                         *)
(* All keep a deadline that advances by the interval, catch up when they   *)
(* are late and start over when they are later than a threshold.  All but  *)
(* the first read the clock of the day, which may be set.                  *)
(*                                                                         *)
(* Instants are kept relative to the present, so time has no bound: "due"  *)
(* is the deadline minus the timer's clock, "left" the real time until its *)
(* wait ends.                                                              *)
(***************************************************************************)
EXTENDS Integers

CONSTANTS Impls,     \* the versions to check
          Ms,        \* ticks of time in a millisecond
          Interval,  \* the refresh interval
          Floor,     \* least lateness that counts as a suspended machine (30 s)
          Jumps,     \* by how much the clock of the day may be set
          MaxJumps,  \* bound on how often it is
          MaxLag     \* bound on the time that passes after the deadline

ASSUME TimerAssumption ==
    /\ Impls \subseteq {"linux", "kqueue", "posix", "cma", "sproc"}
    /\ {Ms, Interval, Floor} \subseteq Nat \ {0} /\ Interval % Ms = 0
    /\ Jumps \subseteq Int /\ {MaxJumps, MaxLag} \subseteq Nat

VARIABLES impl, pc,  \* pc is "collect" or "wait"
          due, left,
          phase,     \* the clock's place in its interval, counted from a resynchronisation
          jumps,     \* how often the clock has been set
          setback,   \* by how much it has been set back since the last return
          backwards  \* by how much ever

vars == <<impl, pc, due, left, phase, jumps, setback, backwards>>

Larger(a, b) == IF a > b THEN a ELSE b

Threshold == Larger(4 * Interval, Floor)

\* A timerfd set to 0 or less never expires.
Disarmed   == -1
TimerFd(d) == IF d <= 0 THEN Disarmed ELSE d

\* os_plot_timer_create: the first deadline is an interval away.
Init ==
    /\ impl \in Impls /\ pc = "collect"
    /\ due = Interval /\ left = Interval
    /\ phase = 0 /\ jumps = 0 /\ setback = 0 /\ backwards = 0

\* What is left when the deadline is d away, after "passed" of real time: the
\* absolute timeout of the condition variable has expired or has not, the
\* other waits run down.
Remaining(d, passed) ==
    CASE left = Disarmed -> Disarmed
      [] impl = "posix"  -> IF left = 0 \/ d <= 0 THEN 0 ELSE left
      [] OTHER           -> Larger(left - passed, 0)

Tick ==
    /\ due > -MaxLag \/ left > 0
    /\ due' = due - 1
    /\ left' = Remaining(due - 1, 1)
    /\ phase' = (phase + 1) % Interval
    /\ UNCHANGED <<impl, pc, jumps, setback, backwards>>

\* The clock of the day is set; the monotonic clock cannot be.
SetClock(j) ==
    /\ impl # "linux" /\ jumps < MaxJumps
    /\ jumps' = jumps + 1
    /\ due' = due - j
    /\ left' = Remaining(due - j, 0)
    /\ phase' = (phase + j) % Interval
    /\ setback' = setback + Larger(-j, 0) /\ backwards' = backwards + Larger(-j, 0)
    /\ UNCHANGED <<impl, pc>>

\* What a wait without a kernel timer sleeps; the condition variable's timeout
\* is the deadline itself (1: not reached).
CmaSleep   == Larger(due, 0)
SprocSleep == Larger(due, 0)
PosixSleep == IF due > 0 THEN 1 ELSE 0

\* The source is read and the sample pushed, in whatever time it took.
Collect ==
    /\ pc = "collect" /\ pc' = "wait"
    /\ left' = CASE impl \in {"linux", "kqueue"} -> left
                 [] impl = "posix" -> PosixSleep
                 [] impl = "cma"   -> CmaSleep
                 [] impl = "sproc" -> SprocSleep
    /\ UNCHANGED <<impl, due, phase, jumps, setback, backwards>>

\* A signal ends the sleep of sproc_timer.c, which sleeps again for what is
\* left until the deadline by the clock.  (The others wait on.)
Interrupt ==
    /\ pc = "wait" /\ impl = "sproc" /\ left > 0
    /\ left' = SprocSleep
    /\ UNCHANGED <<impl, pc, due, phase, jumps, setback, backwards>>

\* Mutant: the next deadline is an interval from now.
AdvanceFromNow == due' = Interval /\ UNCHANGED phase

\* The next deadline: one interval after the last, or after now when even
\* that is too long ago.
Advance ==
    IF -(due + Interval) > Threshold THEN due' = Interval /\ phase' = 0
    ELSE due' = due + Interval /\ UNCHANGED phase

\* Mutant: the kernel's whole milliseconds are rounded down.
KqueueDelayRoundedDown(delta) == Larger(Ms * (delta \div Ms), Ms)

\* The delay of a kqueue timer: whole milliseconds, one at least.
KqueueDelay(delta) == Larger(Ms * ((delta + Ms - 1) \div Ms), Ms)

\* Mutant: a deadline that has passed is handed to the kernel as it is.
LinuxDelayUnclamped(delta) == TimerFd(delta)

\* A timerfd gets a millisecond at least.
LinuxDelay(delta) == TimerFd(Larger(delta, Ms))

\* os_plot_timer_wait returns; the versions differ in what they leave armed.
Return ==
    /\ pc = "wait" /\ left = 0 /\ pc' = "collect"
    /\ Advance
    /\ setback' = 0
    /\ UNCHANGED <<impl, jumps, backwards>>

LinuxWait  == impl = "linux"  /\ Return /\ left' = LinuxDelay(due')
KqueueWait == impl = "kqueue" /\ Return /\ left' = KqueueDelay(due')
PosixWait  == impl = "posix"  /\ Return /\ left' = 0
CmaWait    == impl = "cma"    /\ Return /\ left' = 0
SprocWait  == impl = "sproc"  /\ Return /\ left' = 0

Wait == LinuxWait \/ KqueueWait \/ PosixWait \/ CmaWait \/ SprocWait

Next == Tick \/ (\E j \in Jumps : SetClock(j)) \/ Collect \/ Interrupt \/ Wait

\* The kernel ends waits that are over, and time passes.
Spec == Init /\ [][Next]_vars /\ WF_vars(Collect) /\ WF_vars(Wait) /\ WF_vars(Tick)

-----------------------------------------------------------------------------
(* Properties                                                              *)

\* Lateness does not add up: through late returns, bursts that catch up and
\* settings of the clock the deadlines stay a whole number of intervals after
\* the first one or the last resynchronisation.
NoDrift == (due + phase) % Interval = 0

\* No version returns before the deadline, whatever the roundings and however
\* late the wait before it ended, except by what the clock was set back
\* meanwhile; and no wait is longer than an interval and what the clock was ever
\* set back by, up to the rounding to milliseconds; with the monotonic clock,
\* never longer than an interval.  (A clock set back by an hour does stop the
\* other versions for an hour: only being late is noticed as a jump.)
WakesInTime ==
    /\ [][pc = "wait" /\ pc' = "collect" => due <= setback]_vars
    /\ [](pc = "wait" =>
           (IF impl = "posix" THEN due ELSE left) < Interval + backwards + Ms)

\* Every collection is followed by another.
KeepsCollecting == pc = "wait" ~> pc = "collect"

=============================================================================
