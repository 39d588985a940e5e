------------------------ MODULE PeriodicTimerProofs -------------------------
(***************************************************************************)
(* Proofs about PeriodicTimer, for every interval, threshold and clock     *)
(* setting and in each of the five versions of the timer.                  *)
(***************************************************************************)
EXTENDS PeriodicTimer, TLAPS

-----------------------------------------------------------------------------
(* Arithmetic                                                              *)

\* Quotient and remainder, and that there is only one of each.
LEMMA Division ==
    ASSUME NEW n \in Int, n > 0, NEW a \in Int, NEW q \in Int, q = a \div n
    PROVE  a - n * q = a % n
OBVIOUS

LEMMA DivMod ==
    ASSUME NEW n \in Nat \ {0}, NEW a \in Int
    PROVE  \E q \in Int, r \in 0..n-1 : a \div n = q /\ a % n = r /\ a = n * q + r
<1>1. a \div n \in Int /\ a % n \in 0..n-1
  OBVIOUS
<1>2. PICK q \in Int : q = a \div n
  BY <1>1
<1>3. a - n * q = a % n
  BY <1>2, Division
<1> QED
  BY <1>1, <1>2, <1>3

LEMMA ModUnique ==
    ASSUME NEW n \in Nat \ {0}, NEW k \in Int, NEW r \in 0..n-1
    PROVE  (n * k + r) % n = r
<1> DEFINE a == n * k + r
<1>1. PICK q \in Int, s \in 0..n-1 : a = n * q + s /\ a % n = s
  <2>1. a \in Int
    OBVIOUS
  <2> QED
    BY <2>1, DivMod, ZenonT(60)
<1>2. n * (k - q) = s - r
  BY <1>1
<1>3. ASSUME NEW d \in Int, n * d < n, n * d > -n PROVE d = 0
  <2>1. d >= 1 => n * d >= n
    OBVIOUS
  <2>2. d <= -1 => n * d <= -n
    OBVIOUS
  <2> QED
    BY <1>3, <2>1, <2>2
<1>4. k - q = 0
  <2>1. k - q \in Int /\ s - r < n /\ s - r > -n
    OBVIOUS
  <2> QED
    BY <1>2, <1>3, <2>1
<1> QED
  BY <1>1, <1>4

\* A multiple of n more or less leaves the same remainder, and so does what a
\* remainder leaves out.
LEMMA ModShift ==
    ASSUME NEW n \in Nat \ {0}, NEW a \in Int, NEW k \in Int
    PROVE  (a + n * k) % n = a % n
<1>1. PICK q \in Int, r \in 0..n-1 : a = n * q + r /\ a % n = r
  BY DivMod
<1>2. a + n * k = n * (q + k) + r
  BY <1>1
<1> QED
  BY <1>1, <1>2, ModUnique

LEMMA ModSum ==
    ASSUME NEW n \in Nat \ {0}, NEW a \in Int, NEW b \in Int
    PROVE  (a + (b % n)) % n = (a + b) % n
<1>1. PICK q \in Int, r \in 0..n-1 : b = n * q + r /\ b % n = r
  BY DivMod
<1>2. a + b = (a + r) + n * q
  BY <1>1
<1>3. a + r \in Int
  OBVIOUS
<1>4. (a + r + n * q) % n = (a + r) % n
  BY <1>3, ModShift
<1> QED
  BY <1>1, <1>2, <1>4

-----------------------------------------------------------------------------
(* The invariant                                                           *)

LEMMA Units ==
    /\ Ms \in Nat \ {0} /\ Interval \in Nat \ {0} /\ Jumps \subseteq Int
    /\ Impls \subseteq {"linux", "kqueue", "posix", "cma", "sproc"}
BY TimerAssumption

USE Units

Types == /\ impl \in Impls /\ pc \in {"collect", "wait"}
         /\ due \in Int /\ left \in Nat /\ phase \in Int
         /\ setback \in Nat /\ backwards \in Nat /\ setback <= backwards
         /\ impl = "linux" => backwards = 0

\* The deadline is an interval away at most, but for what the clock was set
\* back.
DeadlineNear == due <= Interval + backwards

\* What is left of a wait reaches to the deadline, but for what the clock was
\* set back while it ran: a kernel timer at any time, a sleep while it lasts.
Covered == due <= left + setback

ReachesDeadline ==
    /\ impl \in {"linux", "kqueue"} => Covered
    /\ impl \in {"cma", "sproc"} /\ pc = "wait" => Covered
    /\ impl = "posix" /\ pc = "wait" /\ left = 0 => due <= setback

\* And not beyond the interval, but for the rounding to milliseconds.
NotLonger == impl # "posix" => left < Interval + backwards + Ms

Timely == Types /\ DeadlineNear /\ ReachesDeadline /\ NotLonger

\* A tick takes one of both, and a clock that is set takes nothing that it
\* does not add to setback.
LEMMA TickCovers ==
    \A d \in Int, l \in Nat, s \in Nat, new \in Nat :
      d <= l + s /\ new >= l - 1 => d - 1 <= new + s
OBVIOUS

LEMMA SetClockCovers ==
    \A d \in Int, j \in Int, l \in Nat, s \in Nat, new \in Nat, back \in Nat :
      d <= l + s /\ new >= l /\ back >= -j => d - j <= new + (s + back)
OBVIOUS

LEMMA DelayCovers == \A d \in Int, l \in Nat : d <= l => d <= l + 0
OBVIOUS

\* The delay given to the kernel is not shorter than what it is for and longer
\* by less than a millisecond.
LEMMA DelaySuffices ==
    ASSUME NEW d \in Int
    PROVE  /\ LinuxDelay(d) \in Nat /\ KqueueDelay(d) \in Nat
           /\ LinuxDelay(d) >= d /\ KqueueDelay(d) >= d
           /\ d <= Interval => LinuxDelay(d) < Interval + Ms
           /\ \A b \in Nat : d <= Interval + b => KqueueDelay(d) < Interval + b + Ms
<1>1. LinuxDelay(d) = Larger(d, Ms)
  BY DEF LinuxDelay, TimerFd, Larger
<1>2. PICK q \in Int : d <= Ms * q /\ Ms * q < d + Ms /\ (d + Ms - 1) \div Ms = q
  <2> DEFINE a == d + Ms - 1
  <2>1. a \in Int
    OBVIOUS
  <2>2. PICK q \in Int, r \in 0..Ms-1 : a \div Ms = q /\ a % Ms = r /\ a = Ms * q + r
    BY <2>1, DivMod
  <2> QED
    BY <2>1, <2>2
<1>3. KqueueDelay(d) = Larger(Ms * q, Ms) /\ Ms * q \in Int
  BY <1>2 DEF KqueueDelay
<1>4. /\ LinuxDelay(d) \in Nat /\ LinuxDelay(d) >= d
      /\ d <= Interval => LinuxDelay(d) < Interval + Ms
  BY <1>1 DEF Larger
<1>5. KqueueDelay(d) \in Nat /\ KqueueDelay(d) >= d
  BY <1>2, <1>3 DEF Larger
<1>6. ASSUME NEW b \in Nat, d <= Interval + b PROVE KqueueDelay(d) < Interval + b + Ms
  BY <1>2, <1>3, <1>6 DEF Larger
<1> QED
  BY <1>4, <1>5, <1>6

\* A wait that runs loses what passes, and no more.
LEMMA RemainingReaches ==
    ASSUME Types, NEW d \in Int, NEW passed \in Nat
    PROVE  /\ Remaining(d, passed) \in Nat /\ Remaining(d, passed) <= left
           /\ impl # "posix" => Remaining(d, passed) >= left - passed
           /\ impl = "posix" /\ Remaining(d, passed) = 0 => left = 0 \/ d <= 0
<1>1. left # Disarmed
  BY DEF Types, Disarmed
<1> QED
  BY <1>1 DEF Types, Remaining, Larger

LEMMA TimelyInit == Init => Timely
BY DEF Init, Timely, Types, DeadlineNear, ReachesDeadline, Covered, NotLonger

LEMMA TimelyNext == Timely /\ [Next]_vars => Timely'
<1> SUFFICES ASSUME Timely, [Next]_vars PROVE Timely'
  OBVIOUS
<1> USE DEF Timely
<1>1. CASE Tick
  <2>1. /\ due' = due - 1 /\ due \in Int /\ UNCHANGED <<impl, pc, setback, backwards>>
        /\ phase' \in Int
    BY <1>1 DEF Tick, Types
  <2>2. /\ left' \in Nat /\ left \in Nat /\ left' <= left
        /\ impl # "posix" => left' >= left - 1
        /\ impl = "posix" /\ left' = 0 => left = 0 \/ due - 1 <= 0
    <3>1. left' = Remaining(due - 1, 1) /\ due - 1 \in Int
      BY <1>1 DEF Tick, Types
    <3> QED
      BY <3>1, RemainingReaches DEF Types
  <2>3. Types' /\ DeadlineNear' /\ NotLonger'
    BY <2>1, <2>2 DEF Types, DeadlineNear, NotLonger
  <2>4. ReachesDeadline'
    <3>1. setback \in Nat
      BY DEF Types
    <3>2. CASE impl = "posix"
      BY <2>1, <2>2, <3>1, <3>2 DEF ReachesDeadline
    <3>3. CASE impl # "posix"
      <4>1. due \in Int /\ left \in Nat /\ left' \in Nat /\ left' >= left - 1
        BY <2>1, <2>2, <3>3
      <4>2. Covered => due - 1 <= left' + setback
        BY <3>1, <4>1, TickCovers, Zenon DEF Covered
      <4>3. Covered => Covered'
        BY <2>1, <4>2, Zenon DEF Covered
      <4> QED
        BY <2>1, <3>3, <4>3 DEF ReachesDeadline
    <3> QED
      BY <3>2, <3>3
  <2> QED
    BY <2>3, <2>4
<1>2. ASSUME NEW j \in Jumps, SetClock(j) PROVE Timely'
  <2>1. PICK back \in Nat : /\ setback' = setback + back /\ backwards' = backwards + back
                            /\ back >= -j
    <3>1. Larger(-j, 0) \in Nat /\ Larger(-j, 0) >= -j
      BY DEF Larger
    <3> QED
      BY <1>2, <3>1 DEF SetClock
  <2>2. /\ due' = due - j /\ due \in Int /\ UNCHANGED <<impl, pc>> /\ impl # "linux"
        /\ phase' \in Int /\ j \in Int
    BY <1>2 DEF SetClock, Types
  <2>3. /\ left' \in Nat /\ left \in Nat /\ left' <= left
        /\ impl # "posix" => left' >= left
        /\ impl = "posix" /\ left' = 0 => left = 0 \/ due - j <= 0
    <3>1. left' = Remaining(due - j, 0) /\ due - j \in Int
      BY <1>2, <2>2 DEF SetClock
    <3>2. /\ Remaining(due - j, 0) \in Nat /\ Remaining(due - j, 0) <= left
          /\ impl # "posix" => Remaining(due - j, 0) >= left - 0
          /\ impl = "posix" /\ Remaining(due - j, 0) = 0 => left = 0 \/ due - j <= 0
      BY <3>1, RemainingReaches
    <3> QED
      BY <3>1, <3>2 DEF Types
  <2>4. Types' /\ DeadlineNear' /\ NotLonger'
    BY <2>1, <2>2, <2>3 DEF Types, DeadlineNear, NotLonger
  <2>5. ReachesDeadline'
    <3>1. setback \in Nat
      BY DEF Types
    <3>2. CASE impl = "posix"
      BY <2>1, <2>2, <2>3, <3>1, <3>2 DEF ReachesDeadline
    <3>3. CASE impl # "posix"
      <4>1. due \in Int /\ left \in Nat /\ left' \in Nat /\ left' >= left
        BY <2>2, <2>3, <3>3
      <4>2. Covered => due - j <= left' + (setback + back)
        BY <2>1, <2>2, <3>1, <4>1, SetClockCovers, Zenon DEF Covered
      <4>3. Covered => Covered'
        BY <2>1, <2>2, <4>2, Zenon DEF Covered
      <4> QED
        BY <2>2, <3>3, <4>3 DEF ReachesDeadline
    <3> QED
      BY <3>2, <3>3
  <2> QED
    BY <2>4, <2>5
<1>3. CASE Collect
  BY <1>3 DEF Collect, Covered, PosixSleep, CmaSleep, SprocSleep, Larger, Types, DeadlineNear,
     ReachesDeadline, NotLonger
<1>4. CASE Interrupt
  BY <1>4 DEF Interrupt, Covered, SprocSleep, Larger, Types, DeadlineNear, ReachesDeadline,
     NotLonger
<1>5. CASE Wait
  <2>1. due <= setback /\ Return
    BY <1>5 DEF Wait, LinuxWait, KqueueWait, PosixWait, CmaWait, SprocWait, Return, Types,
       ReachesDeadline, Covered
  <2>2. /\ due' \in Int /\ due' <= Interval + backwards
        /\ pc' = "collect" /\ setback' = 0 /\ UNCHANGED <<impl, backwards>>
        /\ phase' \in Int
    BY <2>1 DEF Return, Advance, Types
  <2>3. /\ impl \in {"linux", "kqueue"} => due' <= left'
        /\ left' \in Nat /\ left' < Interval + backwards + Ms
    <3>1. backwards \in Nat /\ (impl = "linux" => backwards = 0)
      BY DEF Types
    <3>2. CASE impl = "linux" /\ left' = LinuxDelay(due')
      BY <2>2, <3>1, <3>2, DelaySuffices
    <3>3. CASE impl = "kqueue" /\ left' = KqueueDelay(due')
      BY <2>2, <3>1, <3>3, DelaySuffices
    <3>4. CASE impl \in {"posix", "cma", "sproc"} /\ left' = 0
      BY <3>1, <3>4
    <3> QED
      BY <1>5, <3>2, <3>3, <3>4 DEF Wait, LinuxWait, KqueueWait, PosixWait, CmaWait, SprocWait
  <2>4. Types' /\ DeadlineNear' /\ NotLonger'
    BY <2>2, <2>3 DEF Types, DeadlineNear, NotLonger
  <2>5. ReachesDeadline'
    <3>1. due' <= left' => due' <= left' + 0
      BY <2>2, <2>3, DelayCovers, Zenon
    <3>2. due' <= left' => Covered'
      BY <2>2, <3>1, Zenon DEF Covered
    <3> QED
      BY <2>2, <2>3, <3>2 DEF ReachesDeadline
  <2> QED
    BY <2>4, <2>5
<1>6. CASE UNCHANGED vars
  BY <1>6 DEF vars, Types, DeadlineNear, ReachesDeadline, Covered, NotLonger
<1> QED
  BY <1>1, <1>2, <1>3, <1>4, <1>5, <1>6 DEF Next

-----------------------------------------------------------------------------
(* The theorems                                                            *)

\* What the deadline loses the clock's place gains, around the interval.
LEMMA DriftKept ==
    ASSUME NoDrift, NEW d \in Int, NEW p \in Int, d + p = due + phase,
           due' = d, phase' = p % Interval
    PROVE  NoDrift'
<1>1. (d + (p % Interval)) % Interval = (d + p) % Interval
  BY ModSum
<1>2. PICK r : r = p % Interval
  OBVIOUS
<1>3. (d + r) % Interval = 0 /\ phase' = r
  BY <1>1, <1>2 DEF NoDrift
<1> QED
  BY <1>3, Zenon DEF NoDrift

\* Lateness does not add up, whatever the interval: every deadline is a whole
\* number of intervals after the first or the last resynchronisation.
THEOREM DeadlinesDoNotDrift == Spec => []NoDrift
<1>1. Init => NoDrift
  <2>1. (0 + Interval * 1) % Interval = 0 % Interval
    BY ModShift
  <2>2. (Interval * 0 + 0) % Interval = 0
    BY ModUnique
  <2> QED
    BY <2>1, <2>2 DEF Init, NoDrift
<1>2. Timely /\ NoDrift /\ [Next]_vars => NoDrift'
  <2> SUFFICES ASSUME Timely, NoDrift, [Next]_vars PROVE NoDrift'
    OBVIOUS
  <2>1. due \in Int /\ phase \in Int /\ (due + phase) % Interval = 0
    BY DEF Timely, Types, NoDrift
  <2>2. CASE Tick
    <3>1. due - 1 \in Int /\ phase + 1 \in Int /\ (due - 1) + (phase + 1) = due + phase
      BY <2>1
    <3> QED
      BY <2>2, <3>1, DriftKept DEF Tick
  <2>3. ASSUME NEW j \in Jumps, SetClock(j) PROVE NoDrift'
    <3>1. due - j \in Int /\ phase + j \in Int /\ (due - j) + (phase + j) = due + phase
      BY <2>1
    <3>2. due' = due - j /\ phase' = (phase + j) % Interval
      BY <2>3 DEF SetClock
    <3> QED
      BY <3>1, <3>2, DriftKept
  <2>4. CASE Collect \/ Interrupt
    BY <2>1, <2>4 DEF Collect, Interrupt, NoDrift
  <2>5. CASE Wait
    <3>1. Advance
      BY <2>5 DEF Wait, LinuxWait, KqueueWait, PosixWait, CmaWait, SprocWait, Return
    <3>2. CASE due' = Interval /\ phase' = 0
      <4>1. (0 + Interval * 1) % Interval = 0 % Interval
        BY ModShift
      <4>2. (Interval * 0 + 0) % Interval = 0
        BY ModUnique
      <4> QED
        BY <3>2, <4>1, <4>2 DEF NoDrift
    <3>3. CASE due' = due + Interval /\ phase' = phase
      <4>1. (due + phase + Interval * 1) % Interval = (due + phase) % Interval
        BY <2>1, ModShift, SMTT(60)
      <4> QED
        BY <2>1, <3>3, <4>1 DEF NoDrift
    <3> QED
      BY <3>1, <3>2, <3>3 DEF Advance
  <2>6. CASE UNCHANGED vars
    BY <2>1, <2>6 DEF vars, NoDrift
  <2> QED
    BY <2>2, <2>3, <2>4, <2>5, <2>6 DEF Next
<1> QED
  BY <1>1, <1>2, TimelyInit, TimelyNext, PTL DEF Spec

\* No version of the timer returns before the deadline nor waits longer than
\* an interval, but for what the clock was set back and the rounding.
THEOREM TimerWakesInTime == Spec => WakesInTime
<1>1. Timely /\ [Next]_vars => [pc = "wait" /\ pc' = "collect" => due <= setback]_vars
  <2> SUFFICES ASSUME Timely, Next, pc = "wait", pc' = "collect" PROVE due <= setback
    BY DEF Timely
  <2>1. Wait
    BY DEF Next, Tick, SetClock, Collect, Interrupt
  <2> QED
    BY <2>1 DEF Timely, Types, ReachesDeadline, Covered, Wait, LinuxWait, KqueueWait,
       PosixWait, CmaWait, SprocWait, Return
<1>2. Timely => (pc = "wait" =>
                  (IF impl = "posix" THEN due ELSE left) < Interval + backwards + Ms)
  BY DEF Timely, Types, DeadlineNear, NotLonger
<1> QED
  BY <1>1, <1>2, TimelyInit, TimelyNext, PTL DEF Spec, WakesInTime

=============================================================================
