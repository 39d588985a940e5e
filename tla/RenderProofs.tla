---------------------------- MODULE RenderProofs ----------------------------
(***************************************************************************)
(* Proofs about what is shown: PlotFrame, for every size of a plot, every  *)
(* interval, every number and kind of samples and every clock; Backends,   *)
(* for every set of widths, every first width, every number of events and  *)
(* samples, and each of the five toolkits; GifEncoder, for every palette,  *)
(* greatest width of a code, size of a block, memory and frame.            *)
(***************************************************************************)
EXTENDS GifEncoder, PlotFrame, Backends, SequenceTheorems, WellFoundedInduction, TLAPS

-----------------------------------------------------------------------------
(* Induction and recursion up to a number                                  *)

\* A set of numbers that is not empty has a least element.
LEMMA LeastOf ==
    ASSUME NEW T \in SUBSET Nat, T # {}
    PROVE  \E n \in T : \A m \in T : n <= m
<1>1. PICK n \in T : \A m \in T : ~ (<<m, n>> \in OpToRel(<, Nat))
  BY WFMin, NatLessThanWellFounded, Zenon
<1>2. \A m \in T : ~(m < n)
  BY <1>1, Zenon DEF OpToRel
<1> QED
  BY <1>2

\* A set that has 0, and with each number the next one, has all up to n.
LEMMA Induction ==
    ASSUME NEW n \in Nat, NEW P, 0 \in P, \A i \in 1..n : i - 1 \in P => i \in P
    PROVE  \A i \in 0..n : i \in P
<1> DEFINE T == {i \in 0..n : i \notin P}
<1> SUFFICES ASSUME T # {} PROVE FALSE
  OBVIOUS
<1>1. PICK m \in T : \A k \in T : m <= k
  <2>1. T \in SUBSET Nat /\ T # {}
    OBVIOUS
  <2> HIDE DEF T
  <2> QED
    BY <2>1, LeastOf
<1>2. m \in 1..n /\ m - 1 \in 0..n
  BY <1>1
<1>3. m - 1 \in P
  BY <1>1, <1>2
<1> QED
  BY <1>1, <1>2, <1>3

\* f begins with a and goes on as F tells.
Steps(n, S) == [1..n -> [S -> S]]

Follows(f, n, S, a, F) ==
    f \in [0..n -> S] /\ f[0] = a /\ \A i \in 1..n : f[i] = F[i][f[i - 1]]

LEMMA Recursion ==
    ASSUME NEW n \in Nat, NEW S, NEW a \in S, NEW F \in Steps(n, S)
    PROVE  \E f : Follows(f, n, S, a, F)
<1>0. F \in [1..n -> [S -> S]]
  BY DEF Steps
<1> DEFINE P == {m \in 0..n : \E f \in [0..n -> S] :
                    f[0] = a /\ \A i \in 1..m : f[i] = F[i][f[i - 1]]}
<1>1. 0 \in P
  <2>1. PICK f : f = [i \in 0..n |-> a]
    OBVIOUS
  <2>2. f \in [0..n -> S] /\ f[0] = a
    BY <2>1
  <2>3. \A i \in 1..0 : f[i] = F[i][f[i - 1]]
    OBVIOUS
  <2> QED
    BY <2>2, <2>3
<1>2. ASSUME NEW m \in 1..n, m - 1 \in P PROVE m \in P
  <2>1. PICK f \in [0..n -> S] : f[0] = a /\ \A i \in 1..(m - 1) : f[i] = F[i][f[i - 1]]
    BY <1>2
  <2>2. m - 1 \in 0..n /\ f[m - 1] \in S /\ F[m][f[m - 1]] \in S
    BY <1>0, <2>1
  <2>3. PICK g : g = [f EXCEPT ![m] = F[m][f[m - 1]]]
    OBVIOUS
  <2>4. /\ g \in [0..n -> S] /\ g[m] = F[m][f[m - 1]]
        /\ \A i \in 0..n : i # m => g[i] = f[i]
    BY <2>2, <2>3
  <2>5. g[0] = a
    BY <2>1, <2>4
  <2>6. ASSUME NEW i \in 1..m PROVE g[i] = F[i][g[i - 1]]
    <3>1. g[i - 1] = f[i - 1]
      BY <2>4
    <3>2. CASE i = m
      BY <2>4, <3>1, <3>2
    <3>3. CASE i # m
      BY <2>1, <2>4, <3>1, <3>3
    <3> QED
      BY <3>2, <3>3
  <2> QED
    BY <2>4, <2>5, <2>6
<1>3. n \in P
  <2> HIDE DEF P
  <2>1. \A i \in 0..n : i \in P
    BY <1>1, <1>2, Induction
  <2> QED
    BY <2>1
<1> QED
  BY <1>3, Zenon DEF Follows

-----------------------------------------------------------------------------
(* The mouse                                                               *)

\* What is in the buffers can be drawn.
FrameTypes ==
    /\ dual \in BOOLEAN
    /\ first \in Seq(Int) /\ second \in Seq(Int) /\ stamps \in Seq(Int)
    /\ coming \in Seq(Int) /\ Len(coming) <= 1
    /\ Len(stamps) = Len(first) /\ clock \in Int

LEMMA PushedIsSequence ==
    ASSUME NEW s \in Seq(Int), NEW x \in Int
    PROVE  /\ Pushed(s, x) \in Seq(Int)
           /\ Len(Pushed(s, x)) = IF Len(s) < BufferSize THEN Len(s) + 1 ELSE Len(s)
<1>1. CASE Len(s) < BufferSize
  BY <1>1 DEF Pushed
<1>2. CASE ~(Len(s) < BufferSize)
  <2>1. s # <<>>
    BY <1>2, FrameAssumption
  <2>2. Tail(s) \in Seq(Int) /\ Len(Tail(s)) = Len(s) - 1 /\ Len(s) \in Nat
    BY <2>1
  <2> QED
    BY <1>2, <2>2 DEF Pushed
<1> QED
  BY <1>1, <1>2

LEMMA FrameStarts == FrameInit => FrameTypes
BY FrameAssumption DEF FrameInit, FrameTypes

LEMMA FrameSteps == FrameTypes /\ [FrameNext]_frameVars => FrameTypes'
<1> SUFFICES ASSUME FrameTypes, [FrameNext]_frameVars PROVE FrameTypes'
  OBVIOUS
<1>1. CASE TakeSample
  <2>1. PICK in \in Values, other \in Values :
          /\ first' = Pushed(first, in)
          /\ coming' = IF dual THEN <<other>> ELSE <<>>
    BY <1>1 DEF TakeSample
  <2>2. in \in Int /\ other \in Int
    BY FrameAssumption
  <2>3. first' \in Seq(Int) /\ stamps' \in Seq(Int) /\ Len(stamps') = Len(first')
    <3>1. stamps' = Pushed(stamps, clock)
      BY <1>1 DEF TakeSample
    <3> QED
      BY <2>1, <2>2, <3>1, PushedIsSequence DEF FrameTypes
  <2>4. coming' \in Seq(Int) /\ Len(coming') <= 1
    BY <2>1, <2>2
  <2> QED
    BY <1>1, <2>3, <2>4 DEF TakeSample, FrameTypes
<1>2. CASE PushSecond
  <2>1. coming[1] \in Int /\ coming' = <<>>
    BY <1>2 DEF PushSecond, FrameTypes
  <2>2. second' \in Seq(Int)
    BY <1>2, <2>1, PushedIsSequence DEF PushSecond, FrameTypes
  <2> QED
    BY <1>2, <2>2 DEF PushSecond, FrameTypes
<1>3. CASE FrameTick \/ FrameSetClock
  <2>1. \A a \in Int : a % Word \in Int
    BY FrameAssumption
  <2>2. PICK j \in Int : clock' = (clock + j) % Word
    BY <1>3, FrameAssumption DEF FrameTick, FrameSetClock
  <2>3. clock' \in Int
    <3>1. clock + j \in Int
      BY DEF FrameTypes
    <3> QED
      BY <2>1, <2>2, <3>1
  <2> QED
    BY <1>3, <2>3 DEF FrameTick, FrameSetClock, FrameTypes
<1>4. CASE UNCHANGED frameVars
  BY <1>4 DEF FrameTypes, frameVars
<1> QED
  BY <1>1, <1>2, <1>3, <1>4 DEF FrameNext

\* As many samples are drawn as there are in the shorter buffer.
LEMMA DrawCountIsNumber ==
    ASSUME FrameTypes
    PROVE  DrawCount \in Nat /\ DrawCount <= Len(first)
<1>1. Len(first) \in Nat /\ Len(second) \in Nat
  BY DEF FrameTypes
<1>2. PICK m \in {Len(first), Len(second)} : \A y \in {Len(first), Len(second)} : m <= y
  BY <1>1
<1>3. /\ Min({Len(first), Len(second)}) \in {Len(first), Len(second)}
      /\ Min({Len(first), Len(second)}) <= Len(first)
  BY <1>2, Zenon DEF Min
<1> QED
  BY <1>1, <1>3 DEF DrawCount

LEMMA ColumnIsNumber ==
    ASSUME FrameTypes, NEW i \in 1..DrawCount
    PROVE  PlotX(i) \in Int
<1>1. stamps[i] \in Int /\ clock \in Int
  BY DrawCountIsNumber DEF FrameTypes
<1>2. \A a \in Int : (a % Word) \div Interval \in Int
  BY FrameAssumption
<1> QED
  BY <1>1, <1>2, FrameAssumption DEF PlotX, PixelOffset

\* Of the samples in D up to m, at the distances d, k is the nearest, at the
\* distance b, and the newest of those as near; or none of them is near.
NearestOf(D, d, m, b, k) ==
    \/ /\ k \in D /\ k <= m /\ b = d[k] /\ b <= 3
       /\ \A i \in D : i <= m => b < d[i] \/ (b = d[i] /\ i <= k)
    \/ /\ k = 0 /\ b = 3
       /\ \A i \in D : i <= m => d[i] > 3

LEMMA NearestStep ==
    ASSUME NEW D, NEW d, NEW m \in Int, \A i \in D : i \in Int /\ d[i] \in Int,
           NEW b, NEW k, NearestOf(D, d, m - 1, b, k)
    PROVE  /\ m \in D /\ d[m] <= b => NearestOf(D, d, m, d[m], m)
           /\ ~(m \in D /\ d[m] <= b) => NearestOf(D, d, m, b, k)
<1>1. \A i \in D : i <= m => i <= m - 1 \/ i = m
  OBVIOUS
<1>2. b \in Int /\ b <= 3 /\ \A i \in D : i <= m - 1 => b <= d[i]
  BY <1>1 DEF NearestOf
<1>3. CASE m \in D /\ d[m] <= b
  <2>1. \A i \in D : i <= m => d[m] < d[i] \/ (d[m] = d[i] /\ i <= m)
    BY <1>1, <1>2, <1>3
  <2> QED
    BY <1>1, <1>2, <1>3, <2>1 DEF NearestOf
<1>4. CASE ~(m \in D /\ d[m] <= b)
  BY <1>1, <1>2, <1>4 DEF NearestOf
<1> QED
  BY <1>3, <1>4

\* The search of the mouse goes through the samples from the oldest to the
\* newest and keeps one that is no further than any of those near before it.
LEMMA NearestSoFar ==
    ASSUME NEW n \in Nat, NEW D, D \subseteq 1..n, NEW d \in [1..n -> Int], NEW look,
           look[0] = [best |-> 3, index |-> 0],
           \A i \in 1..n : look[i] = IF i \in D /\ d[i] <= look[i - 1].best
                                     THEN [best |-> d[i], index |-> i] ELSE look[i - 1]
    PROVE  NearestOf(D, d, n, look[n].best, look[n].index)
<1> DEFINE P == {m \in 0..n : NearestOf(D, d, m, look[m].best, look[m].index)}
<1>1. 0 \in P
  <2>1. \A i \in D : ~(i <= 0)
    <3>1. ASSUME NEW i \in D PROVE i \in 1..n
      OBVIOUS
    <3> QED
      BY <3>1
  <2> QED
    BY <2>1 DEF NearestOf
<1>2. ASSUME NEW m \in 1..n, m - 1 \in P PROVE m \in P
  <2>1. PICK b, k : b = look[m - 1].best /\ k = look[m - 1].index
    OBVIOUS
  <2>2. NearestOf(D, d, m - 1, b, k)
    BY <1>2, <2>1
  <2>3. /\ m \in D /\ d[m] <= b => NearestOf(D, d, m, d[m], m)
        /\ ~(m \in D /\ d[m] <= b) => NearestOf(D, d, m, b, k)
    <3>1. m \in Int /\ \A i \in D : i \in Int /\ d[i] \in Int
      <4>1. ASSUME NEW i \in D PROVE i \in 1..n
        OBVIOUS
      <4> QED
        BY <4>1
    <3> QED
      BY <2>2, <3>1, NearestStep, Zenon
  <2>4. /\ m \in D /\ d[m] <= b => look[m].best = d[m] /\ look[m].index = m
        /\ ~(m \in D /\ d[m] <= b) => look[m].best = b /\ look[m].index = k
    <3>1. look[m] = IF m \in D /\ d[m] <= b THEN [best |-> d[m], index |-> m] ELSE look[m - 1]
      BY <2>1
    <3>2. CASE m \in D /\ d[m] <= b
      BY <3>1, <3>2
    <3>3. CASE ~(m \in D /\ d[m] <= b)
      BY <2>1, <3>1, <3>3, Zenon
    <3> QED
      BY <3>2, <3>3
  <2>5. NearestOf(D, d, m, look[m].best, look[m].index)
    BY <2>3, <2>4, Zenon
  <2> QED
    BY <2>5
<1> HIDE DEF P
<1>3. \A m \in 0..n : m \in P
  BY <1>1, <1>2, Induction
<1> QED
  BY <1>3 DEF P

\* What Hover computes.
LEMMA HoverFinds ==
    ASSUME FrameTypes, NEW x \in Int
    PROVE  LET near   == {i \in 1..DrawCount : Drawn(i) /\ Abs(PlotX(i) - x) <= 3}
               h      == Hover(x)
               far(i) == Abs(PlotX(i) - x)
           IN IF near = {} THEN h = 0
              ELSE h \in near /\ \A i \in near : far(h) < far(i) \/ (far(h) = far(i) /\ i <= h)
<1> DEFINE n == DrawCount
           far(i) == Abs(PlotX(i) - x)
           D == {i \in 1..n : Drawn(i)}
           d == [i \in 1..n |-> far(i)]
           Seen == [best : Int, index : Nat]
           a == [best |-> 3, index |-> 0]
           F == [i \in 1..n |-> [s \in Seen |-> IF i \in D /\ d[i] <= s.best
                                                 THEN [best |-> d[i], index |-> i] ELSE s]]
           look[i \in 0..n] ==
             IF i = 0 THEN [best |-> 3, index |-> 0]
             ELSE IF Drawn(i) /\ Nearer(Abs(PlotX(i) - x), look[i - 1].best)
                  THEN [best |-> Abs(PlotX(i) - x), index |-> i]
                  ELSE look[i - 1]
<1>1. n \in Nat /\ D \subseteq 1..n /\ d \in [1..n -> Int]
  <2>1. ASSUME NEW i \in 1..n PROVE far(i) \in Int
    <3>1. PlotX(i) - x \in Int
      BY ColumnIsNumber
    <3> QED
      BY <3>1 DEF Abs
  <2> QED
    BY <2>1, DrawCountIsNumber
<1>2. PICK f : Follows(f, n, Seen, a, F)
  <2>1. F \in Steps(n, Seen) /\ a \in Seen
    <3> HIDE DEF D, d, n
    <3> QED
      BY <1>1 DEF Steps
  <2> HIDE DEF F, a, Seen, n
  <2> QED
    BY <1>1, <2>1, Recursion
<1>3. /\ f[0] = [best |-> 3, index |-> 0]
      /\ \A i \in 1..n : f[i] = IF Drawn(i) /\ Nearer(Abs(PlotX(i) - x), f[i - 1].best)
                                THEN [best |-> Abs(PlotX(i) - x), index |-> i] ELSE f[i - 1]
  <2>1. ASSUME NEW i \in 1..n PROVE i - 1 \in 0..n /\ f[i - 1] \in Seen
    BY <1>1, <1>2 DEF Follows
  <2> QED
    BY <1>2, <2>1 DEF Nearer, Follows
<1>4. f = [i \in 0..n |-> IF i = 0 THEN [best |-> 3, index |-> 0]
                          ELSE IF Drawn(i) /\ Nearer(Abs(PlotX(i) - x), f[i - 1].best)
                               THEN [best |-> Abs(PlotX(i) - x), index |-> i]
                               ELSE f[i - 1]]
  <2> HIDE DEF n, Seen, F, a, D, d
  <2>1. \A i \in 0..n : i = 0 \/ i \in 1..n
    BY <1>1
  <2> QED
    BY <1>2, <1>3, <2>1 DEF Follows
<1>5. look = [i \in 0..n |-> IF i = 0 THEN [best |-> 3, index |-> 0]
                             ELSE IF Drawn(i) /\ Nearer(Abs(PlotX(i) - x), look[i - 1].best)
                                  THEN [best |-> Abs(PlotX(i) - x), index |-> i]
                                  ELSE look[i - 1]]
  BY <1>4
<1>6. /\ look[0] = [best |-> 3, index |-> 0]
      /\ \A i \in 1..n : look[i] = IF i \in D /\ d[i] <= look[i - 1].best
                                   THEN [best |-> d[i], index |-> i] ELSE look[i - 1]
  <2> HIDE DEF look
  <2>1. 0 \in 0..n /\ \A i \in 1..n : i \in 0..n /\ i # 0
    BY <1>1
  <2> QED
    BY <1>5, <2>1 DEF Nearer
<1>7. NearestOf(D, d, n, look[n].best, look[n].index)
  <2> HIDE DEF look, D, d, n
  <2> QED
    BY <1>1, <1>6, NearestSoFar, Zenon
<1>8. Hover(x) = look[n].index
  BY DEF Hover
<1>9. \A i : (i \in D <=> i \in 1..n /\ Drawn(i)) /\ (i \in D => d[i] = far(i))
  OBVIOUS
<1>10. \A i \in D : i \in Nat /\ i # 0 /\ i <= n /\ far(i) \in Int
  <2>1. ASSUME NEW i \in D PROVE i \in 1..n /\ d[i] \in Int
    <3> HIDE DEF D, d, n
    <3> QED
      BY <1>1, <1>9
  <2> QED
    BY <1>9, <2>1
<1> HIDE DEF look, n, far, D, d
<1> PICK h : h = Hover(x)
  OBVIOUS
<1>11. \/ /\ h \in D /\ far(h) <= 3
          /\ \A i \in D : far(h) < far(i) \/ (far(h) = far(i) /\ i <= h)
       \/ h = 0 /\ \A i \in D : far(i) > 3
  BY <1>7, <1>8, <1>9, <1>10 DEF NearestOf
<1> DEFINE near == {i \in 1..n : Drawn(i) /\ far(i) <= 3}
<1>12. \A i : i \in near <=> i \in D /\ far(i) <= 3
  BY <1>9
<1> HIDE DEF near
<1>13. IF near = {} THEN h = 0
       ELSE h \in near /\ \A i \in near : far(h) < far(i) \/ (far(h) = far(i) /\ i <= h)
  BY <1>10, <1>11, <1>12
<1> QED
  BY <1>13 DEF near, n, far

\* The value that is shown for the mouse is that of the nearest sample that is
\* drawn, the newest of those as near, whatever the samples and the clock
\* (plot_draw of plot.c).
THEOREM HoverTellsNearest == FrameSpec => []HoverIsNearest
<1>1. FrameTypes => HoverIsNearest
  <2> SUFFICES ASSUME FrameTypes PROVE HoverIsNearest
    OBVIOUS
  <2>1. \A x \in 0..(Width - 1) : x \in Int
    OBVIOUS
  <2> QED
    BY <2>1, HoverFinds, Zenon DEF HoverIsNearest
<1> QED
  BY <1>1, FrameStarts, FrameSteps, PTL DEF FrameSpec

\* r is s with x pushed into it, which is the newest, behind those there were but
\* for b of them.
IsPushed(r, b, s, x) ==
    /\ r = Pushed(s, x) /\ Len(r) = Len(s) + 1 - b
    /\ b = (IF Len(s) < BufferSize THEN 0 ELSE 1)
    /\ r[Len(r)] = x /\ \A i \in 1..(Len(r) - 1) : r[i] = s[i + b]

LEMMA PushedHas ==
    ASSUME NEW S, NEW s \in Seq(S), NEW x \in S
    PROVE  \E r \in Seq(S), b \in {0, 1} : IsPushed(r, b, s, x)
<1>1. CASE Len(s) < BufferSize
  <2>1. PICK r \in Seq(S) : r = Append(s, x)
    BY AppendProperties
  <2>2. /\ Len(r) = Len(s) + 1 /\ r[Len(r)] = x
        /\ \A i \in 1..(Len(r) - 1) : r[i] = s[i + 0]
    BY <2>1
  <2> QED
    BY <1>1, <2>1, <2>2 DEF Pushed, IsPushed
<1>2. CASE ~(Len(s) < BufferSize)
  <2>1. s # <<>>
    BY <1>2, FrameAssumption
  <2>2. PICK t \in Seq(S) : t = Tail(s) /\ Len(t) = Len(s) - 1
                            /\ \A i \in 1..Len(t) : t[i] = s[i + 1]
    BY <2>1, HeadTailProperties
  <2>3. PICK r \in Seq(S) : r = Append(t, x)
    BY AppendProperties
  <2>4. /\ Len(r) = Len(s) /\ r[Len(r)] = x
        /\ \A i \in 1..(Len(r) - 1) : r[i] = s[i + 1]
    BY <2>2, <2>3
  <2> QED
    BY <1>2, <2>2, <2>3, <2>4 DEF Pushed, IsPushed
<1> QED
  BY <1>1, <1>2

-----------------------------------------------------------------------------
(* The age of a sample                                                     *)

\* A number is its quotient and its remainder, and that is one of a kind.
LEMMA Division ==
    ASSUME NEW n \in Int, n > 0, NEW a \in Int, NEW q \in Int, q = a \div n
    PROVE  a = n * q + (a % n)
OBVIOUS

Splits(a, n, k, r) == a = n * k + r

LEMMA RemainderUnique ==
    ASSUME NEW n \in Nat, n > 0, NEW k \in Int, NEW r \in 0..n-1, NEW a \in Int,
           Splits(a, n, k, r)
    PROVE  a % n = r
<1>1. PICK q \in Int : q = a \div n
  OBVIOUS
<1>2. PICK s \in 0..n-1 : s = a % n
  OBVIOUS
<1>3. a = n * q + s
  BY <1>1, <1>2, Division
<1>4. n * (k - q) = s - r
  BY <1>3 DEF Splits
<1>5. ASSUME NEW d \in Int, n * d < n, n * d > -n PROVE d = 0
  <2>1. d >= 1 => n * d >= n
    OBVIOUS
  <2>2. d <= -1 => n * d <= -n
    OBVIOUS
  <2> QED
    BY <1>5, <2>1, <2>2
<1>6. k - q = 0
  <2>1. k - q \in Int /\ s - r < n /\ s - r > -n
    OBVIOUS
  <2> QED
    BY <1>4, <1>5, <2>1
<1> QED
  BY <1>2, <1>4, <1>6

\* At the reading c, d ticks have passed since the reading s.
Since(n, c, s, d) == (c - s) % n = d

\* A difference of two readings grows with the later one, as long as it does
\* not wrap.
LEMMA AgeGrows ==
    ASSUME NEW n \in Nat, n > 0, NEW c \in Int, NEW s \in Int, NEW d \in Nat, d + 1 < n,
           Since(n, c, s, d)
    PROVE  Since(n, (c + 1) % n, s, d + 1)
<1>1. PICK q \in Int : q = (c - s) \div n
  OBVIOUS
<1>2. c - s = n * q + d
  <2>1. PICK a \in Int : a = c - s
    OBVIOUS
  <2> QED
    BY <1>1, <2>1, Division DEF Since
<1>3. PICK p \in Int, r \in Int : p = (c + 1) \div n /\ r = (c + 1) % n
  OBVIOUS
<1>4. c + 1 = n * p + r
  <2>1. PICK a \in Int : a = c + 1
    OBVIOUS
  <2> QED
    BY <1>3, <2>1, Division
<1>5. PICK k \in Int : k = q - p
  OBVIOUS
<1>6. r - s = n * k + (d + 1)
  BY <1>2, <1>4, <1>5
<1>7. PICK a \in Int, e \in 0..n-1 : a = r - s /\ e = d + 1
  OBVIOUS
<1>8. Splits(a, n, k, e)
  BY <1>6, <1>7 DEF Splits
<1>9. a % n = e
  BY <1>7, <1>8, RemainderUnique
<1> QED
  BY <1>3, <1>7, <1>9 DEF Since

Taken == [at : Nat, jumped : BOOLEAN]

\* What is known of a sample at some time, whether the clock has been set or not.
AgeTold(sample, stamp, reading, time, set) ==
    /\ sample.at <= time /\ (sample.jumped => set)
    /\ sample.jumped = set => Since(Word, reading, stamp, time - sample.at)

ClockTells(i) == AgeTold(taken[i], stamps[i], clock, ticks, jumped)

\* Unless the clock is set, it tells how long ago a sample was taken.
FrameInv ==
    /\ FrameTypes
    /\ scale \in Nat /\ ticks \in Nat /\ ticks <= MaxTicks /\ jumped \in BOOLEAN
    /\ taken \in Seq(Taken) /\ Len(taken) = Len(first)
    /\ \A i \in 1..Len(taken) : ClockTells(i)

LEMMA InvStarts == FrameInit => FrameInv
<1> SUFFICES ASSUME FrameInit PROVE FrameInv
  OBVIOUS
<1>1. scale \in Nat /\ 0 <= MaxTicks
  BY FrameAssumption DEF FrameInit
<1>2. taken = <<>> /\ first = <<>>
  BY DEF FrameInit
<1>3. taken \in Seq(Taken) /\ Len(taken) = Len(first) /\ \A i \in 1..Len(taken) : ClockTells(i)
  BY <1>2
<1> QED
  BY <1>1, <1>3, FrameStarts DEF FrameInit, FrameInv

LEMMA InvSteps == FrameInv /\ [FrameNext]_frameVars => FrameInv'
<1> SUFFICES ASSUME FrameInv, [FrameNext]_frameVars PROVE FrameInv'
  OBVIOUS
<1>1. FrameTypes'
  BY FrameSteps DEF FrameInv
<1>2. CASE TakeSample
  <2>1. UNCHANGED <<scale, clock, ticks, jumped>>
    BY <1>2 DEF TakeSample
  <2>2. PICK in \in Int : first' = Pushed(first, in)
    BY <1>2, FrameAssumption DEF TakeSample
  <2> DEFINE now == [at |-> ticks, jumped |-> jumped]
  <2>3. taken' = Pushed(taken, now) /\ stamps' = Pushed(stamps, clock)
    BY <1>2 DEF TakeSample
  <2>4. now \in Taken /\ taken \in Seq(Taken) /\ stamps \in Seq(Int) /\ clock \in Int
        /\ first \in Seq(Int) /\ Len(taken) = Len(first) /\ Len(stamps) = Len(first)
    BY DEF FrameInv, FrameTypes, Taken
  <2> HIDE DEF now
  <2>5. PICK r \in Seq(Taken), b \in {0, 1} : IsPushed(r, b, taken, now)
    BY <2>4, PushedHas
  <2>6. PICK q \in Seq(Int), c \in {0, 1} : IsPushed(q, c, stamps, clock)
    BY <2>4, PushedHas
  <2>7. b = c /\ Len(q) = Len(r)
    BY <2>4, <2>5, <2>6 DEF IsPushed
  <2>8. ASSUME NEW i \in 1..Len(r) PROVE ClockTells(i)'
    <3>1. CASE i = Len(r)
      <4>1. taken'[i] = now /\ stamps'[i] = clock
        BY <2>3, <2>5, <2>6, <2>7, <3>1 DEF IsPushed
      <4>2. (clock - clock) % Word = 0
        BY <2>4, FrameAssumption
      <4>3. ticks - ticks = 0 /\ ticks <= ticks
        BY DEF FrameInv
      <4>4. taken'[i].at = ticks /\ taken'[i].jumped = jumped
        BY <4>1 DEF now
      <4> QED
        BY <2>1, <4>1, <4>2, <4>3, <4>4 DEF ClockTells, AgeTold, Since
    <3>2. CASE i # Len(r)
      <4>1. i \in 1..(Len(r) - 1) /\ i + b \in 1..Len(taken)
        <5>1. Len(r) = Len(taken) + 1 - b /\ Len(r) \in Nat /\ Len(taken) \in Nat
          BY <2>4, <2>5 DEF IsPushed
        <5> QED
          BY <3>2, <5>1
      <4>2. taken'[i] = taken[i + b] /\ stamps'[i] = stamps[i + b]
        BY <2>3, <2>5, <2>6, <2>7, <4>1 DEF IsPushed
      <4>3. ClockTells(i + b)
        BY <4>1 DEF FrameInv
      <4> QED
        BY <2>1, <4>2, <4>3 DEF ClockTells, AgeTold, Since
    <3> QED
      BY <3>1, <3>2
  <2>9. Len(taken') = Len(first')
    BY <1>1, <2>3, <2>5, <2>6, <2>7 DEF FrameTypes, IsPushed
  <2>10. \A i \in 1..Len(taken') : ClockTells(i)'
    BY <2>3, <2>5, <2>8 DEF IsPushed
  <2> QED
    BY <1>1, <2>1, <2>3, <2>5, <2>9, <2>10 DEF FrameInv, IsPushed
<1>3. CASE FrameTick
  <2>1. /\ ticks < MaxTicks /\ ticks' = ticks + 1 /\ clock' = (clock + 1) % Word
        /\ UNCHANGED <<scale, first, stamps, jumped, taken>>
    BY <1>3 DEF FrameTick
  <2>2. ASSUME NEW i \in 1..Len(taken) PROVE ClockTells(i)'
    <3>1. ClockTells(i) /\ taken[i] \in Taken /\ stamps[i] \in Int
      BY DEF FrameInv, FrameTypes
    <3>2. taken[i].at \in Nat
      BY <3>1 DEF Taken
    <3>3. /\ taken[i].at <= ticks /\ ticks \in Nat /\ Word \in Nat /\ MaxTicks \in Nat
          /\ Word > MaxTicks
      BY <3>1, FrameAssumption DEF ClockTells, AgeTold, FrameInv
    <3>4. ASSUME taken[i].jumped = jumped
          PROVE  Since(Word, clock', stamps[i], ticks' - taken[i].at)
      <4>1. PICK d \in Nat : d = ticks - taken[i].at
        BY <3>2, <3>3
      <4>2. d + 1 < Word /\ Word > 0 /\ clock \in Int /\ ticks' - taken[i].at = d + 1
        <5>1. ticks' - taken[i].at = d + 1 /\ d <= ticks /\ ticks < MaxTicks
          BY <2>1, <3>2, <3>3, <4>1
        <5>2. clock \in Int
          BY DEF FrameInv, FrameTypes
        <5> QED
          BY <3>3, <5>1, <5>2
      <4>3. Since(Word, clock, stamps[i], d)
        BY <3>1, <3>4, <4>1 DEF ClockTells, AgeTold
      <4>4. Since(Word, (clock + 1) % Word, stamps[i], d + 1)
        BY <3>1, <3>3, <4>2, <4>3, AgeGrows
      <4> QED
        BY <2>1, <4>2, <4>4
    <3>5. taken[i].at <= ticks' /\ (taken[i].jumped => jumped)
      BY <2>1, <3>1, <3>2, <3>3 DEF ClockTells, AgeTold
    <3>6. AgeTold(taken[i], stamps[i], clock', ticks', jumped)
      BY <3>4, <3>5, Zenon DEF AgeTold
    <3>7. taken' = taken /\ stamps' = stamps /\ jumped' = jumped
      BY <2>1
    <3> QED
      BY <3>6, <3>7, Zenon DEF ClockTells
  <2>3. ticks' \in Nat /\ ticks' <= MaxTicks
    BY <2>1, FrameAssumption DEF FrameInv
  <2> QED
    BY <1>1, <2>1, <2>2, <2>3 DEF FrameInv
<1>4. CASE FrameSetClock
  <2>1. /\ jumped' = TRUE /\ jumped = FALSE
        /\ UNCHANGED <<scale, first, stamps, ticks, taken>>
    BY <1>4 DEF FrameSetClock, FrameInv
  <2>2. ASSUME NEW i \in 1..Len(taken) PROVE ClockTells(i)'
    <3>1. ClockTells(i) /\ taken[i].jumped = FALSE
      <4>1. ClockTells(i) /\ taken[i] \in Taken
        BY DEF FrameInv
      <4>2. taken[i].jumped \in BOOLEAN
        BY <4>1 DEF Taken
      <4> QED
        BY <2>1, <4>1, <4>2 DEF ClockTells, AgeTold, Since
    <3> QED
      BY <2>1, <3>1 DEF ClockTells, AgeTold, Since
  <2> QED
    BY <1>1, <2>1, <2>2 DEF FrameInv
<1>5. CASE UNCHANGED <<scale, first, stamps, clock, ticks, jumped, taken>>
  <2>1. \A i \in 1..Len(taken) : ClockTells(i)'
    BY <1>5 DEF FrameInv, ClockTells
  <2> QED
    BY <1>1, <1>5, <2>1 DEF FrameInv
<1> QED
  BY <1>2, <1>3, <1>4, <1>5 DEF FrameNext, PushSecond, frameVars

-----------------------------------------------------------------------------
(* The greatest of a set                                                   *)

HasGreatest(S) == Max(S) \in S /\ \A y \in S : Max(S) >= y

LEMMA GreatestIs ==
    ASSUME NEW S, NEW m \in S, \A y \in S : m >= y
    PROVE  HasGreatest(S)
BY Zenon DEF Max, HasGreatest

LEMMA GreaterOfTwo ==
    ASSUME NEW a \in Int, NEW b \in Int
    PROVE  Max({a, b}) \in {a, b} /\ Max({a, b}) >= a /\ Max({a, b}) >= b
<1>1. PICK m \in {a, b} : \A y \in {a, b} : m >= y
  OBVIOUS
<1> QED
  BY <1>1, GreatestIs, Zenon DEF HasGreatest

\* The numbers of the samples in a set that is not empty have a greatest.
LEMMA NewestOf ==
    ASSUME NEW n \in Nat, NEW D, D \subseteq 1..n, D # {}
    PROVE  Max(D) \in D /\ \A i \in D : Max(D) >= i
<1> DEFINE T == {k \in 0..n : \A i \in D : i <= k}
<1>1. n \in T /\ T \in SUBSET Nat
  OBVIOUS
<1>2. PICK m \in T : \A k \in T : m <= k
  <2> HIDE DEF T
  <2> QED
    BY <1>1, LeastOf
<1>3. m \in Nat /\ \A i \in D : i <= m
  BY <1>2
<1>4. m \in D
  <2> SUFFICES ASSUME m \notin D PROVE FALSE
    OBVIOUS
  <2>1. \A i \in D : i \in Nat /\ i >= 1 /\ i <= m - 1
    <3>1. ASSUME NEW i \in D PROVE i \in 1..n /\ i # m /\ i <= m
      BY <1>3
    <3> QED
      BY <1>3, <3>1
  <2>2. m - 1 \in 0..n
    <3>1. PICK i \in D : TRUE
      OBVIOUS
    <3> QED
      BY <1>2, <1>3, <2>1, <3>1
  <2>3. m - 1 \in T
    BY <2>1, <2>2
  <2> QED
    BY <1>2, <1>3, <2>3
<1>5. \A i \in D : m >= i
  <2>1. ASSUME NEW i \in D PROVE i \in 1..n
    OBVIOUS
  <2> QED
    BY <1>3, <2>1
<1> QED
  BY <1>4, <1>5, GreatestIs DEF HasGreatest

\* A number and the values at places of a finite sequence have a greatest.
IsImage(S, a, f, D) == S = {a} \union {f[i] : i \in D}

LEMMA HighestOf ==
    ASSUME NEW n \in Nat, NEW D, D \subseteq 1..n, NEW f, \A i \in D : f[i] \in Int,
           NEW a \in Int, NEW S, IsImage(S, a, f, D)
    PROVE  HasGreatest(S)
<1> DEFINE Upto(k) == {a} \union {f[i] : i \in {j \in D : j <= k}}
           P == {k \in 0..n : \E m \in Upto(k) : \A y \in Upto(k) : m >= y}
<1>0. \A i \in D : i \in 1..n
  OBVIOUS
<1>1. 0 \in P
  <2>1. Upto(0) = {a}
    <3>1. \A i \in D : ~(i <= 0)
      BY <1>0
    <3> QED
      BY <3>1
  <2> QED
    BY <2>1
<1>2. ASSUME NEW k \in 1..n, k - 1 \in P PROVE k \in P
  <2>1. PICK m \in Upto(k - 1) : \A y \in Upto(k - 1) : m >= y
    BY <1>2
  <2>2. m \in Int /\ \A y \in Upto(k - 1) : y \in Int
    <3>1. ASSUME NEW y \in Upto(k - 1) PROVE y \in Int
      OBVIOUS
    <3> QED
      BY <3>1
  <2>3. \A i \in D : i <= k <=> i <= k - 1 \/ i = k
    BY <1>0
  <2>4. CASE k \notin D
    <3>1. {j \in D : j <= k} = {j \in D : j <= k - 1}
      BY <2>3, <2>4
    <3>2. Upto(k) = Upto(k - 1)
      BY <3>1
    <3> QED
      BY <2>1, <3>2
  <2>5. CASE k \in D
    <3>1. \A y : y \in Upto(k) <=> y \in Upto(k - 1) \/ y = f[k]
      BY <2>3, <2>5
    <3>2. f[k] \in Int
      BY <2>5
    <3> HIDE DEF Upto
    <3>3. CASE f[k] >= m
      <4>1. \A y \in Upto(k) : f[k] >= y
        BY <2>1, <2>2, <3>1, <3>2, <3>3
      <4> QED
        BY <3>1, <4>1
    <3>4. CASE ~(f[k] >= m)
      <4>1. \A y \in Upto(k) : m >= y
        BY <2>1, <2>2, <3>1, <3>2, <3>4
      <4> QED
        BY <3>1, <4>1
    <3> QED
      BY <3>3, <3>4
  <2> QED
    BY <2>4, <2>5
<1>3. n \in P
  <2> HIDE DEF P
  <2>1. \A k \in 0..n : k \in P
    BY <1>1, <1>2, Induction
  <2> QED
    BY <2>1
<1>4. Upto(n) = S
  <2>1. \A j \in D : j <= n
    BY <1>0
  <2>2. {j \in D : j <= n} = D
    BY <2>1, Zenon
  <2> QED
    BY <2>2 DEF IsImage
<1>5. PICK m \in S : \A y \in S : m >= y
  BY <1>3, <1>4
<1> QED
  BY <1>5, GreatestIs

-----------------------------------------------------------------------------
(* The lines of the framebuffer                                            *)

\* After k turns of a line over a columns and b rows, of n and m, the longer way
\* has been taken in every turn, and the other is within half a pixel of where
\* it should be: u is twice the error.
OnWay(n, m, k, a, b, u) ==
    /\ a \in Nat /\ b \in Nat /\ u = 2 * (n * b - m * a)
    /\ n >= m => a = k /\ u <= n /\ u >= -n
    /\ n < m  => b = k /\ u <= m /\ u >= -m

\* The turn that follows.
LEMMA NextOnWay ==
    ASSUME NEW n \in Nat, NEW m \in Nat, n > 0, m > 0, NEW k \in Nat,
           NEW a, NEW b, NEW u, OnWay(n, m, k, a, b, u),
           NEW e \in Int, 2 * e = u + 2 * n - 2 * m
    PROVE  LET inX == 2 * e >= -m
               inY == 2 * e <= n
           IN /\ inX /\ inY   => OnWay(n, m, k + 1, a + 1, b + 1, u + 2 * n - 2 * m)
              /\ inX /\ ~inY  => OnWay(n, m, k + 1, a + 1, b, u - 2 * m)
              /\ ~inX /\ inY  => OnWay(n, m, k + 1, a, b + 1, u + 2 * n)
              /\ inX \/ inY
<1>1. a \in Nat /\ b \in Nat /\ u \in Int
  BY DEF OnWay
<1>2. PICK p \in Int, q \in Int : p = n * b /\ q = m * a
  BY <1>1
<1>3. n * (b + 1) = p + n /\ m * (a + 1) = q + m /\ u = 2 * (p - q)
  BY <1>1, <1>2 DEF OnWay
<1>4. /\ u + 2 * n - 2 * m = 2 * (n * (b + 1) - m * (a + 1))
      /\ u - 2 * m = 2 * (n * b - m * (a + 1))
      /\ u + 2 * n = 2 * (n * (b + 1) - m * a)
  BY <1>1, <1>2, <1>3
<1>5. CASE n >= m
  <2>1. a = k /\ u <= n /\ u >= -n
    BY <1>5 DEF OnWay
  <2> QED
    BY <1>1, <1>4, <1>5, <2>1 DEF OnWay
<1>6. CASE n < m
  <2>1. b = k /\ u <= m /\ u >= -m
    BY <1>6 DEF OnWay
  <2> QED
    BY <1>1, <1>4, <1>6, <2>1 DEF OnWay
<1> QED
  BY <1>5, <1>6

\* What being on the way means: on the box of the line, near to the straight
\* one, and in the end at its end.
LEMMA OnWayIsStraight ==
    ASSUME NEW n \in Nat, NEW m \in Nat, n > 0, m > 0, NEW k \in Nat, k <= n \/ k <= m,
           NEW a, NEW b, NEW u, OnWay(n, m, k, a, b, u)
    PROVE  /\ a \in 0..n /\ b \in 0..m
           /\ u \in Int /\ (n >= m => u <= n /\ u >= -n) /\ (n < m => u <= m /\ u >= -m)
           /\ ((n >= m /\ k = n) \/ (n < m /\ k = m)) => a = n /\ b = m
<1>1. a \in Nat /\ b \in Nat /\ u \in Int /\ u = 2 * (n * b - m * a)
  BY DEF OnWay
<1>2. CASE n >= m
  <2>1. a = k /\ u <= n /\ u >= -n /\ k <= n
    BY <1>2 DEF OnWay
  <2>2. b <= m
    <3>1. ASSUME b >= m + 1 PROVE FALSE
      <4>1. n * b >= n * (m + 1)
        BY <1>1, <3>1
      <4>2. m * a <= m * n
        BY <1>1, <2>1
      <4>3. n * (m + 1) = m * n + n
        OBVIOUS
      <4>4. PICK p \in Int, q \in Int, r \in Int : p = n * b /\ q = m * a /\ r = m * n
        BY <1>1
      <4>5. p >= r + n /\ q <= r /\ u = 2 * (p - q)
        BY <1>1, <4>1, <4>2, <4>3, <4>4
      <4> QED
        BY <2>1, <4>5
    <3> QED
      BY <1>1, <3>1
  <2>3. ASSUME k = n PROVE b = m
    <3>1. ASSUME b <= m - 1 PROVE FALSE
      <4>1. n * b <= n * (m - 1)
        BY <1>1, <3>1
      <4>2. n * (m - 1) = m * n - n
        OBVIOUS
      <4>3. PICK p \in Int, r \in Int : p = n * b /\ r = m * n
        BY <1>1
      <4>4. p <= r - n /\ u = 2 * (p - r)
        BY <1>1, <2>1, <2>3, <4>1, <4>2, <4>3
      <4> QED
        BY <2>1, <4>4
    <3> QED
      BY <1>1, <2>2, <3>1
  <2> QED
    BY <1>1, <1>2, <2>1, <2>2, <2>3
<1>3. CASE n < m
  <2>1. b = k /\ u <= m /\ u >= -m /\ k <= m
    BY <1>3 DEF OnWay
  <2>2. a <= n
    <3>1. ASSUME a >= n + 1 PROVE FALSE
      <4>1. m * a >= m * (n + 1)
        BY <1>1, <3>1
      <4>2. n * b <= n * m
        BY <1>1, <2>1
      <4>3. m * (n + 1) = n * m + m
        OBVIOUS
      <4>4. PICK p \in Int, q \in Int, r \in Int : p = n * b /\ q = m * a /\ r = n * m
        BY <1>1
      <4>5. q >= r + m /\ p <= r /\ u = 2 * (p - q)
        BY <1>1, <4>1, <4>2, <4>3, <4>4
      <4> QED
        BY <2>1, <4>5
    <3> QED
      BY <1>1, <3>1
  <2>3. ASSUME k = m PROVE a = n
    <3>1. ASSUME a <= n - 1 PROVE FALSE
      <4>1. m * a <= m * (n - 1)
        BY <1>1, <3>1
      <4>2. m * (n - 1) = n * m - m
        OBVIOUS
      <4>3. PICK q \in Int, r \in Int : q = m * a /\ r = n * m
        BY <1>1
      <4>4. q <= r - m /\ u = 2 * (r - q)
        BY <1>1, <2>1, <2>3, <4>1, <4>2, <4>3
      <4> QED
        BY <2>1, <4>4
    <3> QED
      BY <1>1, <2>2, <3>1
  <2> QED
    BY <1>1, <1>3, <2>1, <2>2, <2>3
<1> QED
  BY <1>2, <1>3

\* A line over n columns and m rows from one place, in some directions.
IsWay(n, m, x1, y1, sx, sy) ==
    /\ n \in Nat /\ m \in Nat /\ n > 0 /\ m > 0 /\ x1 \in Int /\ y1 \in Int
    /\ sx \in {1, -1} /\ sy \in {1, -1}

IsEnd(x2, y2, n, m, x1, y1, sx, sy) == x2 = x1 + sx * n /\ y2 = y1 + sy * m

\* Where a turn is: a columns and b rows ahead.
TurnAt(p, x1, y1, sx, sy, n, m, k) ==
    \E a, b \in Nat, u, e \in Int :
        /\ p = [x |-> x1 + sx * a, y |-> y1 + sy * b, err |-> e]
        /\ 2 * e = u + 2 * n - 2 * m /\ OnWay(n, m, k, a, b, u)

LEMMA NextTurn ==
    ASSUME NEW n, NEW m, NEW x1, NEW y1, NEW sx, NEW sy, IsWay(n, m, x1, y1, sx, sy),
           NEW k \in Nat, NEW p, TurnAt(p, x1, y1, sx, sy, n, m, k)
    PROVE  TurnAt(NextPixelOf(p, n, -m, sx, sy), x1, y1, sx, sy, n, m, k + 1)
<1> n \in Nat /\ m \in Nat /\ n > 0 /\ m > 0
  BY DEF IsWay
<1> x1 \in Int /\ y1 \in Int /\ sx \in {1, -1} /\ sy \in {1, -1}
  BY DEF IsWay
<1>1. PICK a \in Nat, b \in Nat, u \in Int, e \in Int :
        /\ p = [x |-> x1 + sx * a, y |-> y1 + sy * b, err |-> e]
        /\ 2 * e = u + 2 * n - 2 * m /\ OnWay(n, m, k, a, b, u)
  BY DEF TurnAt
<1>2. PICK x \in Int, y \in Int : x = x1 + sx * a /\ y = y1 + sy * b
  OBVIOUS
<1>3. p.x = x /\ p.y = y /\ p.err = e
  BY <1>1, <1>2
<1>4. x + sx = x1 + sx * (a + 1) /\ y + sy = y1 + sy * (b + 1)
  BY <1>2
<1> DEFINE inX == 2 * e >= -m
           inY == 2 * e <= n
           q == NextPixelOf(p, n, -m, sx, sy)
<1>5. q = [x   |-> IF inX THEN x + sx ELSE x,
           y   |-> IF inY THEN y + sy ELSE y,
           err |-> e + (IF inX THEN -m ELSE 0) + (IF inY THEN n ELSE 0)]
  BY <1>3, Zenon DEF NextPixelOf
<1>6. /\ inX /\ inY   => OnWay(n, m, k + 1, a + 1, b + 1, u + 2 * n - 2 * m)
      /\ inX /\ ~inY  => OnWay(n, m, k + 1, a + 1, b, u - 2 * m)
      /\ ~inX /\ inY  => OnWay(n, m, k + 1, a, b + 1, u + 2 * n)
      /\ inX \/ inY
  BY <1>1, NextOnWay
<1> SUFFICES \E c, d \in Nat, v, f \in Int :
                /\ q = [x |-> x1 + sx * c, y |-> y1 + sy * d, err |-> f]
                /\ 2 * f = v + 2 * n - 2 * m /\ OnWay(n, m, k + 1, c, d, v)
  BY DEF TurnAt
<1> HIDE DEF q
<1>7. CASE inX /\ inY
  <2>1. PICK c \in Nat, d \in Nat, v \in Int, f \in Int :
          c = a + 1 /\ d = b + 1 /\ v = u + 2 * n - 2 * m /\ f = e + (-m) + n
    OBVIOUS
  <2>2. q = [x |-> x1 + sx * c, y |-> y1 + sy * d, err |-> f]
    BY <1>4, <1>5, <1>7, <2>1
  <2>3. 2 * f = v + 2 * n - 2 * m /\ OnWay(n, m, k + 1, c, d, v)
    BY <1>1, <1>6, <1>7, <2>1
  <2> QED
    BY <2>2, <2>3
<1>8. CASE inX /\ ~inY
  <2>1. PICK c \in Nat, v \in Int, f \in Int :
          c = a + 1 /\ v = u - 2 * m /\ f = e + (-m) + 0
    OBVIOUS
  <2>2. q = [x |-> x1 + sx * c, y |-> y1 + sy * b, err |-> f]
    BY <1>2, <1>4, <1>5, <1>8, <2>1
  <2>3. 2 * f = v + 2 * n - 2 * m /\ OnWay(n, m, k + 1, c, b, v)
    BY <1>1, <1>6, <1>8, <2>1
  <2> QED
    BY <2>2, <2>3
<1>9. CASE ~inX /\ inY
  <2>1. PICK d \in Nat, v \in Int, f \in Int :
          d = b + 1 /\ v = u + 2 * n /\ f = e + 0 + n
    OBVIOUS
  <2>2. q = [x |-> x1 + sx * a, y |-> y1 + sy * d, err |-> f]
    BY <1>2, <1>4, <1>5, <1>9, <2>1
  <2>3. 2 * f = v + 2 * n - 2 * m /\ OnWay(n, m, k + 1, a, d, v)
    BY <1>1, <1>6, <1>9, <2>1
  <2> QED
    BY <2>2, <2>3
<1> QED
  BY <1>6, <1>7, <1>8, <1>9

\* v is a or b, or between them.
Between(a, v, b) == v \in (a..b) \union (b..a)

\* A pixel of a line is in its box, and not far from the straight line.
OnLine(x, y, x1, y1, x2, y2) ==
    /\ x \in Int /\ y \in Int /\ Between(x1, x, x2) /\ Between(y1, y, y2)
    /\ 2 * Abs((x2 - x1) * (y - y1) - (y2 - y1) * (x - x1)) <= Max({Abs(x2 - x1), Abs(y2 - y1)})

\* The pixels P of a line from one place to another: both ends are among them.
IsLine(P, x1, y1, x2, y2) ==
    /\ <<x1, y1>> \in P /\ <<x2, y2>> \in P
    /\ \A p \in P : OnLine(p[1], p[2], x1, y1, x2, y2)

\* A turn on the way is a pixel of the line.
LEMMA TurnIsOnLine ==
    ASSUME NEW n, NEW m, NEW x1, NEW y1, NEW sx, NEW sy, IsWay(n, m, x1, y1, sx, sy),
           NEW x2, NEW y2, IsEnd(x2, y2, n, m, x1, y1, sx, sy),
           NEW k \in Nat, k <= n \/ k <= m, NEW p, TurnAt(p, x1, y1, sx, sy, n, m, k)
    PROVE  /\ OnLine(p.x, p.y, x1, y1, x2, y2)
           /\ k = 0 => p.x = x1 /\ p.y = y1
           /\ k = Max({n, m}) => p.x = x2 /\ p.y = y2
<1> n \in Nat /\ m \in Nat /\ n > 0 /\ m > 0
  BY DEF IsWay
<1> x1 \in Int /\ y1 \in Int /\ sx \in {1, -1} /\ sy \in {1, -1}
  BY DEF IsWay
<1> x2 = x1 + sx * n /\ y2 = y1 + sy * m
  BY DEF IsEnd
<1>1. PICK a \in Nat, b \in Nat, u \in Int, e \in Int :
        /\ p = [x |-> x1 + sx * a, y |-> y1 + sy * b, err |-> e]
        /\ 2 * e = u + 2 * n - 2 * m /\ OnWay(n, m, k, a, b, u)
  BY DEF TurnAt
<1>2. p.x = x1 + sx * a /\ p.y = y1 + sy * b
  BY <1>1
<1>3. /\ a \in 0..n /\ b \in 0..m
      /\ (n >= m => u <= n /\ u >= -n) /\ (n < m => u <= m /\ u >= -m)
      /\ ((n >= m /\ k = n) \/ (n < m /\ k = m)) => a = n /\ b = m
  BY <1>1, OnWayIsStraight
<1>4. Max({n, m}) \in {n, m} /\ Max({n, m}) >= n /\ Max({n, m}) >= m
  <2>1. n \in Int /\ m \in Int
    OBVIOUS
  <2> QED
    BY <2>1, GreaterOfTwo, Zenon
<1>5. PICK w \in Int : w = Max({n, m})
  BY <1>4
<1>6. w \in {n, m} /\ w >= n /\ w >= m /\ u <= w /\ u >= -w
  BY <1>3, <1>4, <1>5
<1>7. Between(x1, p.x, x2) /\ p.x \in Int
  BY <1>2, <1>3 DEF Between
<1>8. Between(y1, p.y, y2) /\ p.y \in Int
  BY <1>2, <1>3 DEF Between
<1>9. 2 * Abs((x2 - x1) * (p.y - y1) - (y2 - y1) * (p.x - x1)) <= w
  <2>1. PICK c \in Int, d \in Int : c = n * b /\ d = m * a
    OBVIOUS
  <2>2. u = 2 * (c - d)
    BY <1>1, <2>1 DEF OnWay
  <2>3. (x2 - x1) * (p.y - y1) - (y2 - y1) * (p.x - x1) \in {c - d, d - c}
    <3>1. x2 - x1 = sx * n /\ y2 - y1 = sy * m /\ p.x - x1 = sx * a /\ p.y - y1 = sy * b
      BY <1>2
    <3>2. CASE sx = sy
      <4>1. (sx * n) * (sy * b) = c /\ (sy * m) * (sx * a) = d
        BY <2>1, <3>2
      <4> QED
        BY <3>1, <4>1
    <3>3. CASE sx # sy
      <4>1. (sx * n) * (sy * b) = -c /\ (sy * m) * (sx * a) = -d
        BY <2>1, <3>3
      <4>2. PICK f \in Int, g \in Int : f = -c /\ g = -d
        OBVIOUS
      <4>3. (x2 - x1) * (p.y - y1) = f /\ (y2 - y1) * (p.x - x1) = g
        BY <3>1, <4>1, <4>2
      <4> QED
        BY <4>2, <4>3
    <3> QED
      BY <3>2, <3>3
  <2>4. PICK t \in Int : t = (x2 - x1) * (p.y - y1) - (y2 - y1) * (p.x - x1)
    BY <2>3
  <2>5. 2 * Abs(t) <= w
    BY <1>6, <2>2, <2>3, <2>4 DEF Abs
  <2> QED
    BY <2>4, <2>5
<1>10. k = 0 => p.x = x1 /\ p.y = y1
  <2>1. ASSUME k = 0 PROVE a = 0 /\ b = 0
    <3>1. u = 2 * (n * b - m * a)
      BY <1>1 DEF OnWay
    <3>2. CASE n >= m
      <4>1. a = 0
        BY <1>1, <2>1, <3>2 DEF OnWay
      <4>2. PICK c \in Int : c = n * b
        OBVIOUS
      <4>3. u = 2 * c /\ u <= n
        BY <1>3, <3>1, <3>2, <4>1, <4>2
      <4>4. b >= 1 => n * b >= n
        OBVIOUS
      <4> QED
        BY <4>1, <4>2, <4>3, <4>4
    <3>3. CASE n < m
      <4>1. b = 0
        BY <1>1, <2>1, <3>3 DEF OnWay
      <4>2. PICK c \in Int : c = m * a
        OBVIOUS
      <4>3. u = 2 * (-c) /\ u >= -m
        BY <1>3, <3>1, <3>3, <4>1, <4>2
      <4>4. a >= 1 => m * a >= m
        OBVIOUS
      <4> QED
        BY <4>1, <4>2, <4>3, <4>4
    <3> QED
      BY <3>2, <3>3
  <2> QED
    BY <1>2, <2>1
<1>11. k = w => p.x = x2 /\ p.y = y2
  <2>1. ASSUME k = w PROVE a = n /\ b = m
    BY <1>3, <1>6, <2>1
  <2> QED
    BY <1>2, <2>1
<1>12. Abs(x2 - x1) = n /\ Abs(y2 - y1) = m
  BY DEF Abs
<1> QED
  BY <1>5, <1>7, <1>8, <1>9, <1>10, <1>11, <1>12 DEF OnLine

LEMMA SignAbs ==
    ASSUME NEW d \in Int, d # 0
    PROVE  Sign(d) \in {1, -1} /\ Abs(d) \in Nat /\ Abs(d) > 0 /\ d = Sign(d) * Abs(d)
BY DEF Sign, Abs

\* All turns of the loop of fb_line are on the way.
LEMMA TurnsAreOnWay ==
    ASSUME NEW n, NEW m, NEW x1, NEW y1, NEW sx, NEW sy, IsWay(n, m, x1, y1, sx, sy),
           NEW w \in Nat, NEW turn, turn[0] = [x |-> x1, y |-> y1, err |-> n + (-m)],
           \A k \in 1..w : turn[k] = NextPixelOf(turn[k - 1], n, -m, sx, sy)
    PROVE  \A k \in 0..w : TurnAt(turn[k], x1, y1, sx, sy, n, m, k)
<1> n \in Nat /\ m \in Nat /\ n > 0 /\ m > 0
  BY DEF IsWay
<1> x1 \in Int /\ y1 \in Int /\ sx \in {1, -1} /\ sy \in {1, -1}
  BY DEF IsWay
<1> DEFINE P == {k \in 0..w : TurnAt(turn[k], x1, y1, sx, sy, n, m, k)}
<1>1. 0 \in P
  <2>1. PICK e \in Int : e = n + (-m)
    OBVIOUS
  <2>2. x1 + sx * 0 = x1 /\ y1 + sy * 0 = y1 /\ 2 * e = 0 + 2 * n - 2 * m
    BY <2>1
  <2>3. OnWay(n, m, 0, 0, 0, 0)
    BY DEF OnWay
  <2>4. turn[0] = [x |-> x1 + sx * 0, y |-> y1 + sy * 0, err |-> e]
    BY <2>1, <2>2
  <2>5. 0 \in Nat /\ 0 \in Int /\ 0 \in 0..w
    OBVIOUS
  <2>6. TurnAt(turn[0], x1, y1, sx, sy, n, m, 0)
    BY <2>1, <2>2, <2>3, <2>4, <2>5, Zenon DEF TurnAt
  <2> QED
    BY <2>5, <2>6
<1>2. ASSUME NEW k \in 1..w, k - 1 \in P PROVE k \in P
  <2>1. PICK j \in Nat : j = k - 1
    OBVIOUS
  <2>2. TurnAt(turn[j], x1, y1, sx, sy, n, m, j)
    BY <1>2, <2>1
  <2>3. TurnAt(NextPixelOf(turn[j], n, -m, sx, sy), x1, y1, sx, sy, n, m, j + 1)
    BY <2>2, NextTurn
  <2>4. j + 1 = k /\ turn[k] = NextPixelOf(turn[j], n, -m, sx, sy)
    BY <2>1
  <2> QED
    BY <2>3, <2>4
<1> HIDE DEF P
<1>3. \A k \in 0..w : k \in P
  BY <1>1, <1>2, Induction
<1> QED
  BY <1>3 DEF P

\* What the loop of fb_line goes through.
IsLoop(turn, w, n, m, x1, y1, sx, sy) ==
    /\ turn[0] = [x |-> x1, y |-> y1, err |-> n + (-m)]
    /\ \A k \in 1..w : turn[k] = NextPixelOf(turn[k - 1], n, -m, sx, sy)
    /\ Turns(x1, y1, n, -m, sx, sy) = {<<turn[k].x, turn[k].y>> : k \in 0..w}

LEMMA TurnsOfLine ==
    ASSUME NEW n, NEW m, NEW x1, NEW y1, NEW sx, NEW sy, IsWay(n, m, x1, y1, sx, sy),
           NEW w \in Nat, w = Max({n, -(-m)})
    PROVE  \E turn : IsLoop(turn, w, n, m, x1, y1, sx, sy)
<1> n \in Nat /\ m \in Nat /\ n > 0 /\ m > 0
  BY DEF IsWay
<1> x1 \in Int /\ y1 \in Int /\ sx \in {1, -1} /\ sy \in {1, -1}
  BY DEF IsWay
<1> DEFINE S == [x : Int, y : Int, err : Int]
           a == [x |-> x1, y |-> y1, err |-> n + (-m)]
           F == [i \in 1..w |-> [s \in S |-> NextPixelOf(s, n, -m, sx, sy)]]
           turn[k \in 0..w] == IF k = 0 THEN [x |-> x1, y |-> y1, err |-> n + (-m)]
                               ELSE NextPixelOf(turn[k - 1], n, -m, sx, sy)
<1>1. PICK f : Follows(f, w, S, a, F)
  <2>1. ASSUME NEW s \in S PROVE NextPixelOf(s, n, -m, sx, sy) \in S
    <3>1. s.x \in Int /\ s.y \in Int /\ s.err \in Int
      OBVIOUS
    <3> QED
      BY <3>1 DEF NextPixelOf
  <2>2. F \in Steps(w, S) /\ a \in S
    <3>1. a \in S
      OBVIOUS
    <3>2. F \in Steps(w, S)
      <4> HIDE DEF S
      <4> QED
        BY <2>1 DEF Steps
    <3> QED
      BY <3>1, <3>2
  <2> HIDE DEF F, a, S
  <2> QED
    BY <2>2, Recursion
<1>2. /\ f[0] = a
      /\ \A k \in 1..w : f[k] = NextPixelOf(f[k - 1], n, -m, sx, sy)
  <2> HIDE DEF S, a
  <2>1. ASSUME NEW k \in 1..w PROVE k - 1 \in 0..w /\ f[k - 1] \in S
    <3>1. f \in [0..w -> S]
      BY <1>1, Zenon DEF Follows
    <3>2. k - 1 \in 0..w
      OBVIOUS
    <3> QED
      BY <3>1, <3>2, Zenon
  <2> QED
    BY <1>1, <2>1 DEF Follows
<1>3. f = [k \in 0..w |-> IF k = 0 THEN [x |-> x1, y |-> y1, err |-> n + (-m)]
                          ELSE NextPixelOf(f[k - 1], n, -m, sx, sy)]
  <2>1. \A k \in 0..w : k = 0 \/ k \in 1..w
    OBVIOUS
  <2>2. f = [k \in 0..w |-> IF k = 0 THEN a ELSE NextPixelOf(f[k - 1], n, -m, sx, sy)]
    <3> HIDE DEF S, F, a
    <3> QED
      BY <1>1, <1>2, <2>1 DEF Follows
  <2> QED
    BY <2>2
<1>4. turn = [k \in 0..w |-> IF k = 0 THEN [x |-> x1, y |-> y1, err |-> n + (-m)]
                             ELSE NextPixelOf(turn[k - 1], n, -m, sx, sy)]
  BY <1>3
<1>5. /\ turn[0] = [x |-> x1, y |-> y1, err |-> n + (-m)]
      /\ \A k \in 1..w : turn[k] = NextPixelOf(turn[k - 1], n, -m, sx, sy)
  <2> HIDE DEF turn
  <2>1. 0 \in 0..w /\ \A k \in 1..w : k \in 0..w /\ k # 0
    OBVIOUS
  <2> QED
    BY <1>4, <2>1
<1>6. Turns(x1, y1, n, -m, sx, sy) = {<<turn[k].x, turn[k].y>> : k \in 0..w}
  BY DEF Turns
<1> HIDE DEF turn
<1> QED
  BY <1>5, <1>6 DEF IsLoop

LEMMA FbLineIsLine ==
    ASSUME NEW x1 \in Int, NEW y1 \in Int, NEW x2 \in Int, NEW y2 \in Int, NEW kind
    PROVE  IsLine(FbLine(Line(kind, x1, y1, x2, y2)), x1, y1, x2, y2)
<1> DEFINE l == Line(kind, x1, y1, x2, y2)
<1>1. l.x1 = x1 /\ l.y1 = y1 /\ l.x2 = x2 /\ l.y2 = y2
  BY DEF Line
<1> HIDE DEF l
<1>2. CASE x1 = x2 \/ y1 = y2
  <2> DEFINE X == (x1..x2) \union (x2..x1)
             Y == (y1..y2) \union (y2..y1)
  <2>1. FbLine(l) = X \X Y
    BY <1>1, <1>2, Zenon DEF FbLine
  <2>2. x1 \in X /\ x2 \in X /\ y1 \in Y /\ y2 \in Y /\ X \subseteq Int /\ Y \subseteq Int
    OBVIOUS
  <2>3. ASSUME NEW p \in X \X Y
        PROVE  OnLine(p[1], p[2], x1, y1, x2, y2)
    <3>1. PICK x \in X, y \in Y : p = <<x, y>>
      OBVIOUS
    <3>2. x \in Int /\ y \in Int /\ p[1] = x /\ p[2] = y
      BY <2>2, <3>1
    <3>3. (x2 - x1) * (y - y1) - (y2 - y1) * (x - x1) = 0
      <4>1. x1 = x2 => x = x1
        BY <3>2
      <4>2. y1 = y2 => y = y1
        BY <3>2
      <4>3. PICK d \in Int, e \in Int, f \in Int, g \in Int :
              d = x2 - x1 /\ e = y - y1 /\ f = y2 - y1 /\ g = x - x1
        BY <3>2
      <4>4. (d = 0 \/ e = 0) /\ (f = 0 \/ g = 0)
        BY <1>2, <3>2, <4>1, <4>2, <4>3
      <4>5. d * e = 0 /\ f * g = 0
        BY <4>3, <4>4
      <4> QED
        BY <4>3, <4>5
    <3>4. Abs(0) = 0 /\ Abs(x2 - x1) \in Nat /\ Abs(y2 - y1) \in Nat
      BY DEF Abs
    <3>5. Max({Abs(x2 - x1), Abs(y2 - y1)}) \in Nat
      <4>1. PICK a \in Int, b \in Int : a = Abs(x2 - x1) /\ b = Abs(y2 - y1) /\ a >= 0 /\ b >= 0
        BY <3>4
      <4>2. Max({a, b}) \in {a, b}
        BY GreaterOfTwo
      <4> QED
        BY <4>1, <4>2
    <3>6. Between(x1, x, x2) /\ Between(y1, y, y2)
      BY DEF Between
    <3> QED
      BY <3>2, <3>3, <3>4, <3>5, <3>6 DEF OnLine
  <2> HIDE DEF X, Y
  <2>4. <<x1, y1>> \in X \X Y /\ <<x2, y2>> \in X \X Y
    BY <2>2
  <2> QED
    BY <2>1, <2>3, <2>4 DEF IsLine, l
<1>3. CASE ~(x1 = x2 \/ y1 = y2)
  <2>1. PICK n \in Nat, m \in Nat, sx \in {1, -1}, sy \in {1, -1} :
          /\ n > 0 /\ m > 0 /\ n = Abs(x2 - x1) /\ m = Abs(y2 - y1)
          /\ sx = Sign(x2 - x1) /\ sy = Sign(y2 - y1)
          /\ x2 = x1 + sx * n /\ y2 = y1 + sy * m
    <3>1. PICK d \in Int, e \in Int : d = x2 - x1 /\ e = y2 - y1 /\ d # 0 /\ e # 0
      BY <1>3
    <3>2. /\ Sign(d) \in {1, -1} /\ Abs(d) \in Nat /\ Abs(d) > 0 /\ d = Sign(d) * Abs(d)
          /\ Sign(e) \in {1, -1} /\ Abs(e) \in Nat /\ Abs(e) > 0 /\ e = Sign(e) * Abs(e)
      BY <3>1, SignAbs
    <3>3. x2 = x1 + d /\ y2 = y1 + e
      BY <3>1
    <3> QED
      BY <3>1, <3>2, <3>3
  <2>2. IsWay(n, m, x1, y1, sx, sy) /\ IsEnd(x2, y2, n, m, x1, y1, sx, sy)
    BY <2>1 DEF IsWay, IsEnd
  <2>3. PICK w \in Nat : w = Max({n, m}) /\ w \in {n, m} /\ w >= n /\ w >= m
    <3>1. n \in Int /\ m \in Int
      OBVIOUS
    <3>2. Max({n, m}) \in {n, m} /\ Max({n, m}) >= n /\ Max({n, m}) >= m
      BY <3>1, GreaterOfTwo, Zenon
    <3> QED
      BY <3>2
  <2>4. PICK turn : IsLoop(turn, w, n, m, x1, y1, sx, sy)
    <3>1. m = -(-m)
      OBVIOUS
    <3>2. w = Max({n, -(-m)})
      BY <2>3, <3>1, Zenon
    <3> QED
      BY <2>2, <3>2, TurnsOfLine
  <2>5. FbLine(l) = {<<turn[k].x, turn[k].y>> : k \in 0..w}
    <3>1. FbLine(l) = Turns(x1, y1, n, -m, sx, sy)
      BY <1>1, <1>3, <2>1, Zenon DEF FbLine
    <3> QED
      BY <2>4, <3>1, Zenon DEF IsLoop
  <2>6. \A k \in 0..w : TurnAt(turn[k], x1, y1, sx, sy, n, m, k)
    BY <2>4, <2>2, TurnsAreOnWay DEF IsLoop
  <2>7. ASSUME NEW k \in 0..w
        PROVE  /\ OnLine(turn[k].x, turn[k].y, x1, y1, x2, y2)
               /\ k = 0 => turn[k].x = x1 /\ turn[k].y = y1
               /\ k = Max({n, m}) => turn[k].x = x2 /\ turn[k].y = y2
    <3>1. k \in Nat /\ (k <= n \/ k <= m) /\ TurnAt(turn[k], x1, y1, sx, sy, n, m, k)
      BY <2>3, <2>6
    <3> QED
      BY <2>2, <3>1, TurnIsOnLine
  <2>8. <<x1, y1>> \in FbLine(l) /\ <<x2, y2>> \in FbLine(l)
    <3>1. 0 \in 0..w /\ w \in 0..w
      OBVIOUS
    <3>2. turn[0].x = x1 /\ turn[0].y = y1 /\ turn[w].x = x2 /\ turn[w].y = y2
      BY <2>3, <2>7, <3>1
    <3> QED
      BY <2>5, <3>1, <3>2
  <2>9. ASSUME NEW p \in FbLine(l)
        PROVE  OnLine(p[1], p[2], x1, y1, x2, y2)
    <3>1. PICK k \in 0..w : p = <<turn[k].x, turn[k].y>>
      BY <2>5
    <3>2. p[1] = turn[k].x /\ p[2] = turn[k].y
      BY <3>1
    <3> QED
      BY <2>1, <2>7, <3>2
  <2> QED
    BY <2>8, <2>9 DEF IsLine, l
<1> QED
  BY <1>2, <1>3

-----------------------------------------------------------------------------
(* The layout                                                              *)

LEMMA SizesAre ==
    /\ Width \in Nat /\ Width > 3 /\ Height \in Nat /\ Height > 4 /\ Top \in Nat
    /\ Interval \in Nat /\ Interval > 1 /\ Word \in Nat /\ Word > 0
BY FrameAssumption

\* What is drawn of has its values.
LEMMA SamplesAre ==
    ASSUME FrameTypes, NEW i \in 1..DrawCount
    PROVE  /\ first[i] \in Int /\ i \in 1..Len(first)
           /\ dual => second[i] \in Int /\ i \in 1..Len(second)
           /\ PlotX(i) \in Int /\ PixelOffset(i) \in Int
           /\ Drawn(i) => PlotX(i) \in 1..(Width - 2)
<1>1. Len(first) \in Nat /\ Len(second) \in Nat /\ DrawCount \in Nat
      /\ DrawCount <= Len(first)
  BY DrawCountIsNumber DEF FrameTypes
<1>2. dual => DrawCount <= Len(second)
  <2>1. PICK a \in Int, b \in Int : a = Len(first) /\ b = Len(second)
    BY <1>1
  <2>2. PICK m \in {a, b} : \A y \in {a, b} : m <= y
    OBVIOUS
  <2>3. Min({a, b}) <= b
    BY <2>2, Zenon DEF Min
  <2> QED
    BY <2>1, <2>3 DEF DrawCount
<1>3. i \in 1..Len(first) /\ (dual => i \in 1..Len(second))
  BY <1>1, <1>2
<1>4. first[i] \in Int /\ (dual => second[i] \in Int)
  BY <1>3 DEF FrameTypes
<1>5. PixelOffset(i) \in Int
  <2>1. stamps[i] \in Int /\ clock \in Int
    BY <1>3 DEF FrameTypes
  <2>2. \A a \in Int : (a % Word) \div Interval \in Int
    BY SizesAre
  <2> QED
    BY <2>1, <2>2 DEF PixelOffset
<1>6. PlotX(i) \in Int /\ (Drawn(i) => PlotX(i) \in 1..(Width - 2))
  BY <1>5, SizesAre DEF PlotX, Drawn
<1> QED
  BY <1>3, <1>4, <1>5, <1>6

\* The scale is a positive number.
LEMMA ScaleIsPositive ==
    ASSUME FrameTypes, scale \in Nat
    PROVE  MaxVal \in Int /\ MaxVal >= 1
<1> DEFINE S == {1} \union {v \in ToSet(first) \union ToSet(second) : v > 0}
<1>1. Max(S) \in S /\ \A y \in S : Max(S) >= y
  <2>1. PICK a \in Nat, b \in Nat : a = Len(first) /\ b = Len(second)
    BY DEF FrameTypes
  <2>2. /\ \A i \in 1..a : first[i] \in Int
        /\ \A i \in 1..b : second[i] \in Int
        /\ ToSet(first) = {first[i] : i \in 1..a} /\ ToSet(second) = {second[i] : i \in 1..b}
    <3>1. first \in Seq(Int) /\ second \in Seq(Int)
      BY DEF FrameTypes
    <3>2. /\ \A i \in 1..a : first[i] \in Int
          /\ \A i \in 1..b : second[i] \in Int
          /\ DOMAIN first = 1..a /\ DOMAIN second = 1..b
      BY <2>1, <3>1
    <3> QED
      BY <3>2, Zenon DEF ToSet
  <2>3. PICK f : f = [j \in 1..(a + b) |-> IF j <= a THEN first[j] ELSE second[j - a]]
    OBVIOUS
  <2> DEFINE D == {j \in 1..(a + b) : f[j] > 0}
  <2>4. \A j \in 1..(a + b) : f[j] \in Int
    BY <2>2, <2>3
  <2>5. IsImage(S, 1, f, D)
    <3>1. ASSUME NEW v, v \in ToSet(first) PROVE \E j \in 1..(a + b) : f[j] = v
      <4>1. PICK i \in 1..a : v = first[i]
        BY <2>2, <3>1
      <4>2. i \in 1..(a + b) /\ f[i] = first[i]
        BY <2>3
      <4> QED
        BY <4>1, <4>2
    <3>2. ASSUME NEW v, v \in ToSet(second) PROVE \E j \in 1..(a + b) : f[j] = v
      <4>1. PICK i \in 1..b : v = second[i]
        BY <2>2, <3>2
      <4>2. PICK j \in 1..(a + b) : j = a + i /\ ~(j <= a) /\ j - a = i
        OBVIOUS
      <4>3. f[j] = second[i]
        BY <2>3, <4>2
      <4> QED
        BY <4>1, <4>3
    <3>3. ASSUME NEW j \in 1..(a + b) PROVE f[j] \in ToSet(first) \union ToSet(second)
      <4>1. CASE j <= a
        <5>1. j \in 1..a /\ f[j] = first[j]
          BY <2>3, <4>1
        <5> QED
          BY <2>2, <5>1
      <4>2. CASE ~(j <= a)
        <5>1. j - a \in 1..b /\ f[j] = second[j - a]
          BY <2>3, <4>2
        <5> QED
          BY <2>2, <5>1
      <4> QED
        BY <4>1, <4>2
    <3>4. \A v : v \in ToSet(first) \union ToSet(second) <=> \E j \in 1..(a + b) : f[j] = v
      BY <3>1, <3>2, <3>3
    <3> QED
      BY <3>4 DEF IsImage
  <2>6. a + b \in Nat /\ 1 \in Int /\ D \subseteq 1..(a + b) /\ \A j \in D : f[j] \in Int
    BY <2>4
  <2> HIDE DEF S, D
  <2>7. HasGreatest(S)
    BY <2>5, <2>6, HighestOf
  <2> QED
    BY <2>7, Zenon DEF HasGreatest
<1>2. S \subseteq Int /\ 1 \in S
  BY DEF FrameTypes, ToSet
<1>3. Max(S) \in Int /\ Max(S) >= 1
  <2> HIDE DEF S
  <2> QED
    BY <1>1, <1>2
<1> QED
  BY <1>3 DEF MaxVal

\* A part of a number times another, in whole parts.
IsPart(q, v, h, m) == q = (v * h) \div m

LEMMA PartOf ==
    ASSUME NEW v \in Int, NEW m \in Int, m >= 1, NEW h \in Int, h >= 0, NEW q \in Int,
           IsPart(q, v, h, m)
    PROVE  /\ v >= 0 => q >= 0
           /\ v <= m => q <= h
<1>1. PICK a \in Int : a = v * h
  OBVIOUS
<1>2. PICK r \in 0..(m - 1) : r = a % m
  OBVIOUS
<1>3. a = m * q + r
  BY <1>1, <1>2, Division DEF IsPart
<1>4. ASSUME v >= 0 PROVE q >= 0
  <2>1. a >= 0
    BY <1>1, <1>4
  <2>2. q <= -1 => m * q <= -m
    OBVIOUS
  <2>3. PICK p \in Int : p = m * q
    OBVIOUS
  <2> QED
    BY <1>2, <1>3, <2>1, <2>2, <2>3
<1>5. ASSUME v <= m PROVE q <= h
  <2>1. a <= m * h
    BY <1>1, <1>5
  <2>2. q >= h + 1 => m * q >= m * (h + 1)
    OBVIOUS
  <2>3. m * (h + 1) = m * h + m
    OBVIOUS
  <2>4. PICK p \in Int, s \in Int : p = m * q /\ s = m * h
    OBVIOUS
  <2> QED
    BY <1>2, <1>3, <2>1, <2>2, <2>3, <2>4
<1> QED
  BY <1>4, <1>5

\* How far up a value goes.
LEMMA UpIs ==
    ASSUME FrameTypes, scale \in Nat, NEW v \in Int
    PROVE  /\ Up(v) \in Int /\ (v >= 0 => Up(v) >= 0)
           /\ (v <= MaxVal => Up(v) <= Height - 4)
<1>1. PICK m \in Int : m = MaxVal /\ m >= 1
  BY ScaleIsPositive
<1>2. PICK h \in Int : h = Height - 4 /\ h >= 0
  BY SizesAre
<1>3. PICK q \in Int : q = (v * h) \div m
  <2>1. PICK a \in Int : a = v * h
    OBVIOUS
  <2>2. a \div m \in Int
    BY <1>1
  <2> QED
    BY <2>1, <2>2
<1>4. Up(v) = q
  BY <1>1, <1>2, <1>3, Zenon DEF Up
<1>5. (v >= 0 => q >= 0) /\ (v <= m => q <= h)
  <2>1. IsPart(q, v, h, m)
    BY <1>3 DEF IsPart
  <2> QED
    BY <1>1, <1>2, <2>1, PartOf
<1> QED
  BY <1>1, <1>2, <1>4, <1>5

LEMMA BarHeightIs ==
    ASSUME FrameTypes, scale \in Nat, NEW i \in 1..DrawCount
    PROVE  /\ BarHeight(i) \in Int /\ BarHeight(i) >= 1
           /\ first[i] <= MaxVal => BarHeight(i) <= Height - 4
<1>1. first[i] \in Int
  BY SamplesAre
<1>2. PICK up \in Int : up = Up(first[i]) /\ (first[i] <= MaxVal => up <= Height - 4)
  BY <1>1, UpIs
<1> QED
  BY <1>2, SizesAre DEF BarHeight

-----------------------------------------------------------------------------
(* The columns of a plot of one value                                      *)

\* How high the highest bar of some samples is.
Highest(those) == Max({0} \union {BarHeight(i) : i \in those})

LEMMA HighestIs ==
    ASSUME FrameTypes, scale \in Nat, NEW D, D \subseteq 1..DrawCount
    PROVE  /\ Highest(D) \in Int /\ \A i \in D : BarHeight(i) <= Highest(D)
           /\ Highest(D) = 0 \/ \E i \in D : BarHeight(i) = Highest(D)
<1>1. PICK n \in Nat : n = DrawCount
  BY DrawCountIsNumber
<1>2. PICK f : f = [i \in 1..n |-> BarHeight(i)]
  OBVIOUS
<1>3. \A i \in D : i \in 1..n /\ f[i] = BarHeight(i) /\ f[i] \in Int
  <2>1. ASSUME NEW i \in D PROVE i \in 1..n /\ f[i] = BarHeight(i) /\ f[i] \in Int
    <3>1. i \in 1..n /\ i \in 1..DrawCount
      BY <1>1
    <3>2. BarHeight(i) \in Int
      BY <3>1, BarHeightIs
    <3> QED
      BY <1>2, <3>1, <3>2
  <2> QED
    BY <2>1
<1>4. PICK S : S = {0} \union {BarHeight(i) : i \in D}
  OBVIOUS
<1>5. HasGreatest(S)
  <2>1. IsImage(S, 0, f, D)
    BY <1>3, <1>4 DEF IsImage
  <2>2. 0 \in Int /\ D \subseteq 1..n /\ \A i \in D : f[i] \in Int
    BY <1>1, <1>3
  <2> QED
    BY <2>1, <2>2, HighestOf
<1>6. Highest(D) \in S /\ \A y \in S : Highest(D) >= y
  BY <1>4, <1>5, Zenon DEF Highest, HasGreatest
<1>7. S \subseteq Int /\ \A i \in D : BarHeight(i) \in S
  BY <1>3, <1>4
<1> QED
  BY <1>4, <1>6, <1>7

\* The line of a sample goes over a pixel.
Reaches(i, x, y) ==
    /\ Drawn(i) /\ x = PlotX(i) /\ y <= Bottom
    /\ IF first[i] < 0 THEN y >= Top + 2 ELSE y >= Bottom - BarHeight(i)

LEMMA CoveringIs ==
    ASSUME FrameTypes, scale \in Nat, ~dual, NEW i \in 1..DrawCount, NEW x \in Int, NEW y \in Int
    PROVE  /\ Covering(i, x, y) = IF Reaches(i, x, y) THEN {1} ELSE {}
           /\ Drawn(i) => DrawSample(i)[1].kind = IF first[i] < 0 THEN "error" ELSE "bar"
<1>1. first[i] \in Int /\ PlotX(i) \in Int /\ BarHeight(i) \in Int /\ BarHeight(i) >= 1
  BY SamplesAre, BarHeightIs
<1>2. Failed(i) <=> first[i] < 0
  BY DEF Failed
<1>3. Bottom \in Int /\ Bottom > Top + 2 /\ Top \in Int
  BY SizesAre DEF Bottom
<1>4. CASE ~Drawn(i)
  <2>1. DrawSample(i) = <<>>
    BY <1>4 DEF DrawSample
  <2> QED
    BY <1>4, <2>1 DEF Covering, Reaches
<1>5. CASE Drawn(i)
  <2>1. PICK kind, top :
          /\ top \in Int
          /\ kind = IF first[i] < 0 THEN "error" ELSE "bar"
          /\ top = IF first[i] < 0 THEN Top + 2 ELSE Bottom - BarHeight(i)
    BY <1>1, <1>3
  <2>2. top < Bottom
    BY <1>1, <1>3, <2>1
  <2>3. PICK l : l = Line(kind, PlotX(i), top, PlotX(i), Bottom)
    OBVIOUS
  <2>4. DrawSample(i) = <<l>>
    <3>1. CASE first[i] < 0
      BY <1>2, <1>5, <2>1, <2>3, <3>1 DEF DrawSample, ErrorLine
    <3>2. CASE ~(first[i] < 0)
      BY <1>2, <1>5, <2>1, <2>3, <3>2 DEF DrawSample, Bar
    <3> QED
      BY <3>1, <3>2
  <2>5. /\ l.kind = kind /\ l.x1 = PlotX(i) /\ l.x2 = PlotX(i) /\ l.y1 = top /\ l.y2 = Bottom
    BY <2>3 DEF Line
  <2>6. FbLine(l) = ((PlotX(i)..PlotX(i)) \union (PlotX(i)..PlotX(i)))
                      \X ((top..Bottom) \union (Bottom..top))
    BY <2>5, Zenon DEF FbLine
  <2>7. <<x, y>> \in FbLine(l) <=> x = PlotX(i) /\ y >= top /\ y <= Bottom
    <3>1. PICK c \in Int, b \in Int : c = PlotX(i) /\ b = Bottom
      BY <1>1, <1>3
    <3>2. (c..c) \union (c..c) = {c} /\ (top..b) \union (b..top) = top..b
      BY <2>1, <2>2, <3>1
    <3>3. FbLine(l) = {c} \X (top..b)
      BY <2>6, <3>1, <3>2
    <3> QED
      BY <2>1, <3>1, <3>3
  <2>8. Reaches(i, x, y) <=> x = PlotX(i) /\ y >= top /\ y <= Bottom
    BY <1>5, <2>1 DEF Reaches
  <2>9. Covering(i, x, y) = IF <<x, y>> \in FbLine(l) THEN {1} ELSE {}
    <3>1. DOMAIN <<l>> = {1} /\ <<l>>[1] = l
      OBVIOUS
    <3>2. Covering(i, x, y) = {k \in {1} : <<x, y>> \in FbLine(l)}
      BY <2>4, <3>1, Zenon DEF Covering
    <3> QED
      BY <3>2
  <2> QED
    BY <2>1, <2>4, <2>5, <2>7, <2>8, <2>9
<1> QED
  BY <1>4, <1>5

\* A pixel shows the newest sample whose line goes over it.
LEMMA PixelShows ==
    ASSUME FrameTypes, scale \in Nat, ~dual, NEW x \in Int, NEW y \in Int
    PROVE  \/ Pixel(x, y) = "none" /\ \A i \in 1..DrawCount : ~Reaches(i, x, y)
           \/ \E m \in 1..DrawCount :
                /\ Reaches(m, x, y) /\ \A i \in 1..DrawCount : Reaches(i, x, y) => i <= m
                /\ Pixel(x, y) = IF first[m] < 0 THEN "error" ELSE "bar"
<1>1. PICK n \in Nat : n = DrawCount
  BY DrawCountIsNumber
<1>2. ASSUME NEW i \in 1..n
      PROVE  /\ Covering(i, x, y) = IF Reaches(i, x, y) THEN {1} ELSE {}
             /\ Drawn(i) => DrawSample(i)[1].kind = IF first[i] < 0 THEN "error" ELSE "bar"
  BY <1>1, CoveringIs
<1>3. PICK over : over = {i \in 1..n : Covering(i, x, y) # {}}
  OBVIOUS
<1>4. \A i \in 1..n : i \in over <=> Reaches(i, x, y)
  BY <1>2, <1>3
<1>5. PICK m : m = Max(over)
  OBVIOUS
<1>6. Pixel(x, y) = IF over = {} THEN "none" ELSE DrawSample(m)[Max(Covering(m, x, y))].kind
  BY <1>1, <1>3, <1>5, Zenon DEF Pixel
<1>7. CASE over = {}
  BY <1>1, <1>4, <1>6, <1>7
<1>8. CASE over # {}
  <2>1. over \subseteq 1..n
    BY <1>3
  <2>2. m \in over /\ \A i \in over : m >= i
    BY <1>5, <1>8, <2>1, NewestOf
  <2>3. m \in 1..n /\ Reaches(m, x, y) /\ Drawn(m)
    BY <1>4, <2>1, <2>2 DEF Reaches
  <2>4. Max({1}) = 1
    <3>1. HasGreatest({1})
      <4>1. 1 \in {1} /\ \A z \in {1} : 1 >= z
        OBVIOUS
      <4> QED
        BY <4>1, GreatestIs, Zenon
    <3> QED
      BY <3>1 DEF HasGreatest
  <2>5. Covering(m, x, y) = {1}
    BY <1>2, <2>3
  <2>6. Pixel(x, y) = DrawSample(m)[1].kind
    BY <1>6, <1>8, <2>4, <2>5, Zenon
  <2>7. Pixel(x, y) = IF first[m] < 0 THEN "error" ELSE "bar"
    BY <1>2, <2>3, <2>6
  <2>8. \A i \in 1..n : Reaches(i, x, y) => i <= m
    BY <1>4, <2>1, <2>2
  <2> QED
    BY <1>1, <2>3, <2>7, <2>8
<1> QED
  BY <1>7, <1>8

\* The age of a sample that the clock can tell is that in its column.
LEMMA DatedIsDrawn ==
    ASSUME FrameInv, NEW i \in Dated
    PROVE  /\ i \in 1..DrawCount /\ AgeInIntervals(i) \in Nat
           /\ PixelOffset(i) = AgeInIntervals(i)
<1>1. i \in 1..DrawCount /\ taken[i].jumped = jumped
  BY DEF Dated
<1>2. i \in 1..Len(taken)
  BY <1>1, SamplesAre DEF FrameInv
<1>3. taken[i] \in Taken /\ ClockTells(i) /\ ticks \in Nat
  BY <1>2 DEF FrameInv
<1>4. taken[i].at \in Nat /\ taken[i].at <= ticks
      /\ (clock - stamps[i]) % Word = ticks - taken[i].at
  BY <1>1, <1>3 DEF Taken, ClockTells, AgeTold, Since
<1>5. PICK d \in Nat : d = ticks - taken[i].at
  BY <1>3, <1>4
<1>6. d \div Interval \in Nat
  BY SizesAre
<1> QED
  BY <1>1, <1>4, <1>5, <1>6 DEF AgeInIntervals, PixelOffset

\* A column shows the samples of its age.
LEMMA ColumnShows ==
    ASSUME FrameInv, ~dual, Dated = 1..DrawCount, NEW x \in 1..(Width - 2), NEW y \in Top..Bottom
    PROVE  LET here   == {i \in Dated : AgeInIntervals(i) = Width - 2 - x}
               failed == {i \in here : first[i] < 0}
               since  == {i \in here \ failed : \A f \in failed : i > f}
               high(those) == Max({0} \union {BarHeight(i) : i \in those})
           IN Pixel(x, y) = IF since # {} /\ y >= Bottom - high(since) THEN "bar"
                            ELSE IF failed # {} /\ y >= Top + 2 THEN "error"
                            ELSE IF here \ failed # {} /\ y >= Bottom - high(here \ failed)
                            THEN "bar" ELSE "none"
<1> DEFINE here   == {i \in Dated : AgeInIntervals(i) = Width - 2 - x}
           failed == {i \in here : first[i] < 0}
           since  == {i \in here \ failed : \A f \in failed : i > f}
           rest   == here \ failed
<1>1. PICK n \in Nat : n = DrawCount
  BY DrawCountIsNumber DEF FrameInv
<1>2. FrameTypes /\ scale \in Nat
  BY DEF FrameInv
<1>3. x \in Int /\ y \in Int /\ y <= Bottom /\ Bottom \in Int
  <2>1. Bottom \in Int /\ Top \in Int
    BY SizesAre DEF Bottom
  <2> QED
    BY <2>1, SizesAre
<1>4. ASSUME NEW i \in 1..n
      PROVE  /\ first[i] \in Int /\ BarHeight(i) \in Int
             /\ Reaches(i, x, y) <=> /\ i \in here
                                     /\ IF first[i] < 0 THEN y >= Top + 2
                                        ELSE y >= Bottom - BarHeight(i)
  <2>1. i \in Dated /\ i \in 1..DrawCount
    BY <1>1
  <2>2. AgeInIntervals(i) \in Nat /\ PixelOffset(i) = AgeInIntervals(i)
    BY <2>1, DatedIsDrawn
  <2>3. i \in here <=> Drawn(i) /\ x = PlotX(i)
    BY <1>3, <2>1, <2>2, SizesAre DEF Drawn, PlotX
  <2>4. first[i] \in Int /\ BarHeight(i) \in Int
    BY <1>2, <2>1, SamplesAre, BarHeightIs
  <2> HIDE DEF here
  <2> QED
    BY <1>3, <2>3, <2>4, Zenon DEF Reaches
<1>5. here \subseteq 1..n
  BY <1>1
<1> HIDE DEF here
<1>6. /\ \A i \in failed : i \in here /\ first[i] < 0
      /\ \A i \in here : i \in 1..n /\ i \in Int /\ first[i] \in Int /\ BarHeight(i) \in Int
                         /\ (first[i] < 0 => i \in failed) /\ (~(first[i] < 0) => i \in rest)
      /\ \A i \in rest : i \in here /\ ~(first[i] < 0) /\ i \notin failed
      /\ \A i : i \in since <=> i \in rest /\ \A f \in failed : i > f
  BY <1>4, <1>5
<1>7. /\ Highest(since) \in Int /\ \A i \in since : BarHeight(i) <= Highest(since)
      /\ Highest(since) = 0 \/ \E i \in since : BarHeight(i) = Highest(since)
  <2>1. since \subseteq 1..DrawCount
    BY <1>1, <1>5
  <2> HIDE DEF since
  <2> QED
    BY <1>2, <2>1, HighestIs
<1>8. /\ Highest(rest) \in Int /\ \A i \in rest : BarHeight(i) <= Highest(rest)
      /\ Highest(rest) = 0 \/ \E i \in rest : BarHeight(i) = Highest(rest)
  <2>1. rest \subseteq 1..DrawCount
    BY <1>1, <1>5
  <2> HIDE DEF rest
  <2> QED
    BY <1>2, <2>1, HighestIs
<1>9. \/ Pixel(x, y) = "none" /\ \A i \in 1..n : ~Reaches(i, x, y)
      \/ \E m \in 1..n :
           /\ Reaches(m, x, y) /\ \A i \in 1..n : Reaches(i, x, y) => i <= m
           /\ Pixel(x, y) = IF first[m] < 0 THEN "error" ELSE "bar"
  BY <1>1, <1>2, <1>3, PixelShows, Zenon
<1> HIDE DEF failed, since, rest
\* A highest bar that there is goes over what it goes over.
<1>10. ASSUME NEW D, D # {}, D \subseteq rest, y >= Bottom - Highest(D),
              Highest(D) \in Int,
              Highest(D) = 0 \/ \E i \in D : BarHeight(i) = Highest(D)
       PROVE  \E i \in D : Reaches(i, x, y)
  <2>1. PICK i \in D : BarHeight(i) >= Highest(D)
    <3>1. PICK i \in D : TRUE
      BY <1>10
    <3>2. BarHeight(i) >= 1
      <4>1. i \in 1..DrawCount
        BY <1>1, <1>6, <1>10, <3>1
      <4> QED
        BY <1>2, <4>1, BarHeightIs
    <3>3. \A j \in D : BarHeight(j) \in Int
      BY <1>6, <1>10
    <3> QED
      BY <1>10, <3>1, <3>2, <3>3
  <2>2. i \in 1..n /\ i \in here /\ ~(first[i] < 0) /\ BarHeight(i) \in Int
    BY <1>6, <1>10, <2>1
  <2>3. y >= Bottom - BarHeight(i)
    BY <1>3, <1>10, <2>1, <2>2
  <2> QED
    BY <1>4, <2>2, <2>3
<1>11. ASSUME NEW D, D \subseteq rest, NEW i \in D, Reaches(i, x, y), Highest(D) \in Int,
              \A j \in D : BarHeight(j) <= Highest(D)
       PROVE  y >= Bottom - Highest(D)
  <2>1. i \in 1..n /\ ~(first[i] < 0) /\ BarHeight(i) \in Int /\ BarHeight(i) <= Highest(D)
    BY <1>6, <1>11
  <2>2. y >= Bottom - BarHeight(i)
    BY <1>4, <1>11, <2>1
  <2> QED
    BY <1>3, <1>11, <2>1, <2>2
<1>12. since \subseteq rest /\ rest \subseteq rest
  BY <1>6
<1>13. CASE since # {} /\ y >= Bottom - Highest(since)
  <2>1. PICK i \in since : Reaches(i, x, y)
    BY <1>7, <1>10, <1>12, <1>13
  <2>2. i \in 1..n
    BY <1>6, <2>1
  <2>3. PICK m \in 1..n :
           /\ Reaches(m, x, y) /\ i <= m
           /\ Pixel(x, y) = IF first[m] < 0 THEN "error" ELSE "bar"
    BY <1>9, <2>1, <2>2
  <2>4. ~(first[m] < 0)
    <3>1. m \in here
      BY <1>4, <2>3
    <3>2. m \in failed => i > m
      BY <1>6, <2>1
    <3> QED
      BY <1>6, <2>2, <2>3, <3>1, <3>2
  <2>5. Pixel(x, y) = "bar"
    BY <2>3, <2>4
  <2> QED
    BY <1>13, <2>5, Zenon DEF Highest, here, failed, since
<1>14. CASE ~(since # {} /\ y >= Bottom - Highest(since)) /\ failed # {} /\ y >= Top + 2
  <2>1. \A f \in failed : f \in 1..n /\ Reaches(f, x, y)
    BY <1>4, <1>6, <1>14
  <2>2. PICK m \in 1..n :
           /\ Reaches(m, x, y) /\ \A i \in 1..n : Reaches(i, x, y) => i <= m
           /\ Pixel(x, y) = IF first[m] < 0 THEN "error" ELSE "bar"
    BY <1>9, <1>14, <2>1
  <2>3. m \in here
    BY <1>4, <2>2
  <2>4. first[m] < 0
    <3> SUFFICES ASSUME ~(first[m] < 0) PROVE FALSE
      OBVIOUS
    <3>1. m \in rest
      BY <1>6, <2>3
    <3>2. \A f \in failed : m > f
      <4>1. ASSUME NEW f \in failed PROVE m > f
        <5>1. f <= m /\ f # m /\ f \in Int /\ m \in Int
          BY <1>6, <2>1, <2>2, <3>1
        <5> QED
          BY <5>1
      <4> QED
        BY <4>1
    <3>3. m \in since
      BY <1>6, <3>1, <3>2
    <3>4. y >= Bottom - Highest(since)
      BY <1>7, <1>11, <1>12, <2>2, <3>3
    <3> QED
      BY <1>14, <3>3, <3>4
  <2>5. Pixel(x, y) = "error"
    BY <2>2, <2>4
  <2> QED
    BY <1>14, <2>5, Zenon DEF Highest, here, failed, since
<1>15. CASE /\ ~(since # {} /\ y >= Bottom - Highest(since))
            /\ ~(failed # {} /\ y >= Top + 2)
            /\ rest # {} /\ y >= Bottom - Highest(rest)
  <2>1. PICK i \in rest : Reaches(i, x, y)
    BY <1>8, <1>10, <1>12, <1>15
  <2>2. i \in 1..n
    BY <1>6, <2>1
  <2>3. PICK m \in 1..n :
           /\ Reaches(m, x, y)
           /\ Pixel(x, y) = IF first[m] < 0 THEN "error" ELSE "bar"
    BY <1>9, <2>1, <2>2
  <2>4. ~(first[m] < 0)
    BY <1>4, <1>6, <1>15, <2>3
  <2>5. Pixel(x, y) = "bar"
    BY <2>3, <2>4
  <2> QED
    BY <1>15, <2>5, Zenon DEF Highest, here, failed, since, rest
<1>16. CASE /\ ~(since # {} /\ y >= Bottom - Highest(since))
            /\ ~(failed # {} /\ y >= Top + 2)
            /\ ~(rest # {} /\ y >= Bottom - Highest(rest))
  <2>1. \A i \in 1..n : ~Reaches(i, x, y)
    <3>1. ASSUME NEW i \in 1..n, Reaches(i, x, y) PROVE FALSE
      <4>1. i \in here /\ (first[i] < 0 => y >= Top + 2)
        BY <1>4, <3>1
      <4>2. ~(first[i] < 0)
        BY <1>6, <1>16, <4>1
      <4>3. i \in rest
        BY <1>6, <4>1, <4>2
      <4>4. y >= Bottom - Highest(rest)
        BY <1>8, <1>11, <1>12, <3>1, <4>3
      <4> QED
        BY <1>16, <4>3, <4>4
    <3> QED
      BY <3>1
  <2>2. Pixel(x, y) = "none"
    BY <1>9, <2>1
  <2> QED
    BY <1>16, <2>2, Zenon DEF Highest, here, failed, since, rest
<1> QED
  BY <1>13, <1>14, <1>15, <1>16, Zenon

-----------------------------------------------------------------------------
(* The frame, and the line of the second values                            *)

\* The line of a second value begins where it is, or where the one before it is,
\* if that has values, is drawn, and is not above the window.
LEMMA OutLineIs ==
    ASSUME FrameTypes, scale \in Nat, dual, NEW i \in 1..DrawCount, Drawn(i), ~Failed(i)
    PROVE  \E j \in {i, i - 1} :
              /\ j \in 1..DrawCount /\ Drawn(j) /\ ~Failed(j)
              /\ OutLine(i) = Line("out", PlotX(j), OutY(j), PlotX(i), OutY(i))
<1>1. i \in Nat /\ DrawCount \in Nat
  BY DrawCountIsNumber
<1>2. CASE Previous(i) = {}
  BY <1>2, Zenon DEF OutLine
<1>3. CASE Previous(i) # {}
  <2>1. PICK j \in Int : j = i - 1
    BY <1>1
  <2>2. Previous(i) = {j} /\ j > 0 /\ Drawn(j) /\ ~Failed(j)
    BY <1>3, <2>1 DEF Previous
  <2>3. Max({j}) = j
    <3>1. HasGreatest({j})
      <4>1. j \in {j} /\ \A z \in {j} : j >= z
        BY <2>1
      <4> QED
        BY <4>1, GreatestIs, Zenon
    <3> QED
      BY <3>1 DEF HasGreatest
  <2>4. OutLine(i) = Line("out", PlotX(j), OutY(j), PlotX(i), OutY(i))
    BY <1>3, <2>2, <2>3, Zenon DEF OutLine
  <2>5. j \in 1..DrawCount
    BY <1>1, <2>1, <2>2
  <2> QED
    BY <2>1, <2>2, <2>4, <2>5
<1> QED
  BY <1>2, <1>3

\* Where the second value of a sample is.
LEMMA OutYIs ==
    ASSUME FrameTypes, scale \in Nat, dual, NEW i \in 1..DrawCount
    PROVE  /\ OutY(i) \in Int
           /\ ~Failed(i) /\ second[i] <= MaxVal => OutY(i) \in (Top + 2)..Bottom
<1>1. second[i] \in Int
  BY SamplesAre
<1>2. PICK u \in Int : /\ u = Up(second[i]) /\ (second[i] >= 0 => u >= 0)
                       /\ (second[i] <= MaxVal => u <= Height - 4)
  BY <1>1, UpIs
<1>3. OutY(i) = Top + Height - 2 - u
  BY <1>2, SizesAre DEF OutY, Bottom
<1>4. ~Failed(i) => second[i] >= 0
  BY <1>1 DEF Failed
<1> QED
  BY <1>2, <1>3, <1>4, SizesAre DEF Bottom

\* A line between two places in a frame does not leave it.
InFrame(x, y) == x \in 1..(Width - 2) /\ y \in (Top + 2)..Bottom

LEMMA LineInFrame ==
    ASSUME NEW x1, NEW y1, NEW x2, NEW y2, NEW kind, InFrame(x1, y1), InFrame(x2, y2),
           NEW p \in FbLine(Line(kind, x1, y1, x2, y2))
    PROVE  p[1] \in 1..(Width - 2) /\ p[2] \in (Top + 2)..Bottom
<1>1. x1 \in Int /\ y1 \in Int /\ x2 \in Int /\ y2 \in Int
  BY DEF InFrame
<1>2. OnLine(p[1], p[2], x1, y1, x2, y2)
  BY <1>1, FbLineIsLine DEF IsLine
<1>3. PICK x \in Int, y \in Int : x = p[1] /\ y = p[2]
  BY <1>2 DEF OnLine
<1>4. Between(x1, x, x2) /\ Between(y1, y, y2)
  BY <1>2, <1>3 DEF OnLine
<1>5. Bottom \in Int /\ Top \in Int /\ Width \in Int
  BY SizesAre DEF Bottom
<1> QED
  BY <1>1, <1>3, <1>4, <1>5 DEF Between, InFrame

\* With a scale that fits, no line leaves the frame.
LEMMA LinesInFrame ==
    ASSUME FrameTypes, scale \in Nat, \A v \in ToSet(first) \union ToSet(second) : v <= MaxVal,
           NEW l \in Lines, NEW p \in FbLine(l)
    PROVE  p[1] \in 1..(Width - 2) /\ p[2] \in (Top + 2)..Bottom
<1>1. PICK i \in 1..DrawCount : l \in ToSet(DrawSample(i))
  BY Zenon DEF Lines
<1>2. Drawn(i)
  <2>1. ~Drawn(i) => DrawSample(i) = <<>>
    BY DEF DrawSample
  <2>2. ToSet(<<>>) = {}
    BY DEF ToSet
  <2> QED
    BY <1>1, <2>1, <2>2
<1>3. PlotX(i) \in 1..(Width - 2)
  BY <1>2, SamplesAre
<1>4. InFrame(PlotX(i), Bottom) /\ InFrame(PlotX(i), Top + 2)
  BY <1>3, SizesAre DEF InFrame, Bottom
<1>5. \A j \in 1..DrawCount : first[j] <= MaxVal /\ (dual => second[j] <= MaxVal)
  <2>1. ASSUME NEW j \in 1..DrawCount PROVE first[j] <= MaxVal /\ (dual => second[j] <= MaxVal)
    <3>1. j \in 1..Len(first) /\ (dual => j \in 1..Len(second))
      BY SamplesAre
    <3>2. DOMAIN first = 1..Len(first) /\ DOMAIN second = 1..Len(second)
      BY DEF FrameTypes
    <3>3. first[j] \in ToSet(first) /\ (dual => second[j] \in ToSet(second))
      BY <3>1, <3>2, Zenon DEF ToSet
    <3> QED
      BY <3>3
  <2> QED
    BY <2>1
<1>6. CASE Failed(i)
  <2>1. DrawSample(i) = <<ErrorLine(i)>>
    BY <1>2, <1>6 DEF DrawSample
  <2>2. l = ErrorLine(i)
    BY <1>1, <2>1 DEF ToSet
  <2> QED
    BY <1>4, <2>2, LineInFrame DEF ErrorLine
<1>7. CASE ~Failed(i)
  <2>1. DrawSample(i) = IF dual THEN <<Bar(i), OutLine(i)>> ELSE <<Bar(i)>>
    BY <1>2, <1>7 DEF DrawSample
  <2>2. l = Bar(i) \/ (dual /\ l = OutLine(i))
    <3>1. CASE dual
      <4>1. l \in ToSet(<<Bar(i), OutLine(i)>>)
        BY <1>1, <2>1, <3>1
      <4> QED
        BY <3>1, <4>1 DEF ToSet
    <3>2. CASE ~dual
      <4>1. l \in ToSet(<<Bar(i)>>)
        BY <1>1, <2>1, <3>2
      <4> QED
        BY <4>1 DEF ToSet
    <3> QED
      BY <3>1, <3>2
  <2>3. CASE l = Bar(i)
    <3>1. InFrame(PlotX(i), Bottom - BarHeight(i))
      <4>1. BarHeight(i) \in Int /\ BarHeight(i) >= 1 /\ BarHeight(i) <= Height - 4
        BY <1>5, BarHeightIs
      <4> QED
        BY <1>3, <4>1, SizesAre DEF InFrame, Bottom
    <3> QED
      BY <1>4, <2>3, <3>1, LineInFrame DEF Bar
  <2>4. CASE dual /\ l = OutLine(i)
    <3>1. PICK j \in 1..DrawCount :
              /\ Drawn(j) /\ ~Failed(j)
              /\ l = Line("out", PlotX(j), OutY(j), PlotX(i), OutY(i))
      BY <1>2, <1>7, <2>4, OutLineIs
    <3>2. InFrame(PlotX(i), OutY(i))
      BY <1>3, <1>5, <1>7, <2>4, OutYIs DEF InFrame
    <3>3. InFrame(PlotX(j), OutY(j))
      BY <1>5, <2>4, <3>1, OutYIs, SamplesAre DEF InFrame
    <3> QED
      BY <3>1, <3>2, <3>3, LineInFrame
  <2> QED
    BY <2>2, <2>3, <2>4
<1> QED
  BY <1>6, <1>7

LEMMA ColumnsTell == FrameInv => ColumnsTellSamples
<1> SUFFICES ASSUME FrameInv PROVE ColumnsTellSamples
  OBVIOUS
<1>1. \A i \in Dated : Drawn(i) <=> AgeInIntervals(i) <= Width - 3
  <2>1. ASSUME NEW i \in Dated PROVE Drawn(i) <=> AgeInIntervals(i) <= Width - 3
    BY DatedIsDrawn, SizesAre DEF Drawn
  <2> QED
    BY <2>1
<1>2. FrameTypes /\ scale \in Nat
  BY DEF FrameInv
<1>3. (\A v \in ToSet(first) \union ToSet(second) : v <= MaxVal) =>
         \A l \in Lines : \A p \in FbLine(l) :
            p[1] \in 1..(Width - 2) /\ p[2] \in (Top + 2)..Bottom
  BY <1>2, LinesInFrame, Zenon
<1> QED
  BY <1>1, <1>3, ColumnShows, Zenon DEF ColumnsTellSamples

LEMMA SecondLineJoins == FrameInv => SecondLineJoinsNeighbours
<1> SUFFICES ASSUME FrameInv PROVE SecondLineJoinsNeighbours
  OBVIOUS
<1>1. FrameTypes /\ scale \in Nat
  BY DEF FrameInv
<1> SUFFICES ASSUME NEW i \in 1..DrawCount, dual, Drawn(i), ~Failed(i)
             PROVE  LET l  == OutLine(i)
                        dx == l.x2 - l.x1
                        dy == l.y2 - l.y1
                        pixels == FbLine(l)
                    IN /\ <<l.x1, l.y1>> \in {<<PlotX(i), OutY(i)>>}
                            \union {<<PlotX(j), OutY(j)>> :
                                      j \in {k \in {i - 1} : k > 0 /\ ~Failed(k)}}
                       /\ {<<l.x1, l.y1>>, <<l.x2, l.y2>>} \subseteq pixels
                       /\ \A p \in pixels :
                            2 * Abs(dx * (p[2] - l.y1) - dy * (p[1] - l.x1))
                              <= Max({Abs(dx), Abs(dy)})
  BY Zenon DEF SecondLineJoinsNeighbours
<1>2. PICK j \in {i, i - 1} :
              /\ j \in 1..DrawCount /\ Drawn(j) /\ ~Failed(j)
              /\ OutLine(i) = Line("out", PlotX(j), OutY(j), PlotX(i), OutY(i))
  BY <1>1, OutLineIs, Zenon
<1>3. PICK l, x1, y1, x2, y2 :
         /\ l = OutLine(i) /\ l = Line("out", x1, y1, x2, y2)
         /\ x1 = PlotX(j) /\ y1 = OutY(j) /\ x2 = PlotX(i) /\ y2 = OutY(i)
  BY <1>2
<1>4. l.x1 = x1 /\ l.y1 = y1 /\ l.x2 = x2 /\ l.y2 = y2
  BY <1>3 DEF Line
<1>5. x1 \in Int /\ y1 \in Int /\ x2 \in Int /\ y2 \in Int
  BY <1>1, <1>2, <1>3, SamplesAre, OutYIs
<1>6. IsLine(FbLine(l), x1, y1, x2, y2)
  BY <1>3, <1>5, FbLineIsLine
<1>7. \A p \in FbLine(l) : 2 * Abs((x2 - x1) * (p[2] - y1) - (y2 - y1) * (p[1] - x1))
                             <= Max({Abs(x2 - x1), Abs(y2 - y1)})
  BY <1>6, Zenon DEF IsLine, OnLine
<1>8. <<x1, y1>> \in {<<PlotX(i), OutY(i)>>}
          \union {<<PlotX(k), OutY(k)>> : k \in {m \in {i - 1} : m > 0 /\ ~Failed(m)}}
  <2>1. j > 0
    BY <1>2, <1>1, DrawCountIsNumber
  <2> QED
    BY <1>2, <1>3, <2>1
<1>9. {<<x1, y1>>, <<x2, y2>>} \subseteq FbLine(l)
  BY <1>6 DEF IsLine
<1> QED
  BY <1>3, <1>4, <1>7, <1>8, <1>9, Zenon

\* What a plot shows is what was sampled: a column tells what happened at its
\* age, through a wrap of the millisecond clock, for every size of the plot and
\* of the buffers, every interval and every scale; with a scale that fits
\* nothing leaves the frame; and the line of the second values joins neighbours
\* that have values, straight and from end to end (plot_draw of plot.c,
\* render_chart and fb_line of httpd.c).
THEOREM PlotAlwaysTells == FrameSpec => []PlotTellsSamples
<1>1. FrameInv => PlotTellsSamples
  BY ColumnsTell, SecondLineJoins DEF PlotTellsSamples
<1> QED
  BY <1>1, InvStarts, InvSteps, PTL DEF FrameSpec

-----------------------------------------------------------------------------
(* How a frame gets to the screen: the inductive invariant                 *)

Now == [width |-> given, pushes |-> pushes]

Frame == [width : Int, pushes : Nat]

Event == [type : {"q", "r", "f", "motion", "close", "size"}, width : Int]

Events == Seq(Event)

IsSize(e) == e.type = "size"

HasSize == \E i \in 1..Len(events) : IsSize(events[i])

\* Where the frame that has been drawn is shown by renderer_present.
Swaps == toolkit \in {"sdl", "glfw", "cocoa"}

Types ==
    /\ toolkit \in {"gtk", "sdl", "glfw", "win32", "cocoa"}
    /\ given \in Int /\ width \in Int /\ cached_width \in Int /\ pushes \in Nat
    /\ events \in Events
    /\ screen \in Frame /\ surface \in [width : Int, frame : Frame]
    /\ window_resized \in BOOLEAN /\ size_dirty \in BOOLEAN /\ redraw \in BOOLEAN
    /\ closing \in BOOLEAN /\ paint \in BOOLEAN /\ heard \in BOOLEAN
    /\ at \in {"wait", "event", "draw", "present", "exited"}
    /\ idle \in 0..2 /\ asked \in {"none", "q", "close"}
    /\ pending_event \in Presses \union {"none"}

\* What the user has asked for is in the slot, or where the toolkit keeps it,
\* as long as the pass lasts in which it was asked for.
Heard ==
    /\ at \in {"draw", "present"} => pending_event = "none" /\ asked = "none"
    /\ at = "wait" /\ ~heard => pending_event = "none" /\ asked = "none"
    /\ at \in {"event", "draw", "present"} => ~heard
    /\ at \in {"wait", "event"} /\ asked = "q" => pending_event = "q"
    /\ at \in {"wait", "event"} /\ asked = "close" =>
         \/ toolkit \in {"win32", "cocoa"} /\ pending_event = "q"
         \/ toolkit \in {"gtk", "glfw"} /\ at = "wait" /\ closing

\* An interval in which nothing came leaves nothing to be read.
Quiet == idle > 0 => /\ events = <<>> /\ ~heard
                     /\ pending_event \in {"none", "r"}

\* The last size that gtk will hear of is the window's.
Told ==
    /\ HasSize \/ width = given
    /\ \A i \in 1..Len(events) :
         IsSize(events[i]) => \/ events[i].width = given
                              \/ \E j \in i+1..Len(events) : IsSize(events[j])

\* The size that the plots know is the window's, or they will be told.
SizeKnown ==
    IF toolkit = "gtk"
    THEN /\ window_resized \/ size_dirty \/ cached_width = width
         /\ surface.width = width
         /\ Told
    ELSE window_resized \/ size_dirty \/ HasSize \/ cached_width = given

\* If there are no samples and nothing asks for a frame, then one has been drawn.
FrameDrawn ==
    /\ ( /\ at \in {"wait", "event", "draw"} /\ pushes = 0
         /\ ~redraw /\ ~window_resized /\ ~size_dirty ) =>
           /\ Swaps => screen = [width |-> cached_width, pushes |-> 0]
           /\ toolkit = "gtk" => surface.frame = [width |-> cached_width, pushes |-> 0]
    /\ at = "present" => /\ ~window_resized /\ ~size_dirty
                         /\ surface.frame.width = cached_width
                         /\ surface.frame.pushes <= pushes
                         /\ idle > 0 => surface.frame = Now

\* After one interval in which nothing came the plots know the size, and the
\* frame for it has been drawn but, with gtk and win32, may not be shown yet.
Settled ==
    at = "wait" /\ idle > 0 =>
        /\ ~window_resized /\ ~size_dirty /\ cached_width = given
        /\ Swaps => screen = Now
        /\ toolkit = "gtk" => surface.frame = Now
        /\ toolkit = "win32" => surface.width = given

\* gtk: the render timer has asked for a painting after one interval; after two
\* it has been done.
Painted ==
    toolkit = "gtk" /\ at # "exited" =>
        /\ idle > 0 => paint \/ screen = Now
        /\ idle > 1 => screen = Now

\* win32: after one interval the bitmap has the width of the window; the frame
\* of the next interval is shown on it.
Fitted ==
    toolkit = "win32" =>
        /\ idle > 0 /\ at = "event" => pending_event = "r" \/ surface.width = given
        /\ idle > 0 /\ at = "draw" => redraw \/ surface.width = given
        /\ idle > 1 /\ at = "wait" => screen = Now
        /\ idle > 1 /\ at \in {"event", "draw", "present"} =>
             /\ surface.width = given
             /\ pending_event = "r" \/ redraw \/ screen = Now

WindowInv == /\ Types /\ Heard /\ Quiet /\ SizeKnown /\ FrameDrawn
             /\ Settled /\ Painted /\ Fitted

LEMMA WindowStarts == WindowInit => WindowInv
<1> SUFFICES ASSUME WindowInit PROVE WindowInv
  OBVIOUS
<1>1. Blank \in Frame /\ FirstWidth \in Int /\ events = <<>> /\ ~HasSize
  BY BackendsAssumption DEF WindowInit, Blank, Frame, HasSize
<1>2. [width |-> FirstWidth, frame |-> Blank] \in [width : Int, frame : Frame]
  BY <1>1
<1>3. Types
  <2>1. toolkit \in {"gtk", "sdl", "glfw", "win32", "cocoa"} /\ events \in Events
    BY <1>1, BackendsAssumption DEF WindowInit, Events
  <2>2. screen \in Frame /\ surface \in [width : Int, frame : Frame]
    BY <1>1, <1>2 DEF WindowInit
  <2>3. idle \in 0..2 /\ asked \in {"none", "q", "close"}
    BY DEF WindowInit
  <2>4. at \in {"wait", "event", "draw", "present", "exited"}
    BY DEF WindowInit
  <2>5. pending_event \in Presses \union {"none"}
    BY DEF WindowInit
  <2>6. given \in Int /\ width \in Int /\ cached_width \in Int /\ pushes \in Nat
    BY <1>1 DEF WindowInit
  <2>7. /\ window_resized \in BOOLEAN /\ size_dirty \in BOOLEAN /\ redraw \in BOOLEAN
        /\ closing \in BOOLEAN /\ paint \in BOOLEAN /\ heard \in BOOLEAN
    BY DEF WindowInit
  <2> QED
    BY <2>1, <2>2, <2>3, <2>4, <2>5, <2>6, <2>7 DEF Types
<1>4. Told
  BY <1>1 DEF WindowInit, Told
<1>5. Heard /\ Quiet /\ SizeKnown /\ FrameDrawn /\ Settled /\ Painted /\ Fitted
  BY <1>1, <1>4 DEF WindowInit, Heard, Quiet, SizeKnown, FrameDrawn, Settled, Painted, Fitted
<1> QED
  BY <1>3, <1>5 DEF WindowInv

-----------------------------------------------------------------------------
(* What is to be read                                                      *)

\* The window has been given the width w, and an event says so.
LEMMA SizeQueued ==
    ASSUME Types, NEW w \in Int, given' = w, events' = Append(events, Size(w))
    PROVE  events' \in Events /\ HasSize' /\ Told'
<1>1. Size(w) \in Event /\ IsSize(Size(w)) /\ Size(w).width = w
  <2>1. Size(w) = [type |-> "size", width |-> w]
    BY DEF Size
  <2>2. Size(w).type = "size" /\ Size(w).width = w
    BY <2>1
  <2>3. Size(w) \in Event
    BY <2>1 DEF Event
  <2> QED
    BY <2>2, <2>3 DEF IsSize
<1>2. events \in Events
  BY DEF Types, Events
<1> DEFINE n == Len(events) + 1
<1>3. /\ events' \in Events /\ Len(events') = n /\ n \in 1..n
      /\ \A i \in 1..n : i = n => events'[i] = Size(w)
      /\ \A i \in 1..n : i # n => n \in i+1..n
  BY <1>1, <1>2 DEF Events
<1>4. HasSize'
  BY <1>1, <1>3 DEF HasSize
<1>5. Told'
  BY <1>1, <1>3, <1>4 DEF Told
<1> QED
  BY <1>3, <1>4, <1>5

\* An event of another kind is behind the ones there were.
LEMMA OtherQueued ==
    ASSUME Types, NEW e \in Event, ~IsSize(e),
           events' = Append(events, e), UNCHANGED <<given, width>>
    PROVE  events' \in Events /\ (HasSize => HasSize') /\ (Told => Told')
<1>1. events \in Events
  BY DEF Types, Events
<1> DEFINE n == Len(events) + 1
<1>2. /\ events' \in Events /\ Len(events') = n /\ n \in 1..n
      /\ \A i \in 1..Len(events) : i \in 1..n /\ events'[i] = events[i]
      /\ \A i \in 1..n : i \notin 1..Len(events) => events'[i] = e
  BY <1>1 DEF Events
<1>3. HasSize => HasSize'
  BY <1>2 DEF HasSize
<1>4. ASSUME Told PROVE Told'
  <2>1. HasSize' \/ width' = given'
    BY <1>3, <1>4 DEF Told
  <2>2. ASSUME NEW i \in 1..n, IsSize(events'[i])
        PROVE  events'[i].width = given' \/ \E j \in i+1..n : IsSize(events'[j])
    <3>1. i \in 1..Len(events)
      BY <1>2, <2>2
    <3>2. CASE events[i].width = given
      BY <1>2, <3>1, <3>2
    <3>3. CASE \E j \in i+1..Len(events) : IsSize(events[j])
      <4>1. PICK j \in i+1..Len(events) : IsSize(events[j])
        BY <3>3
      <4>2. j \in 1..Len(events) /\ j \in i+1..n
        BY <3>1, <4>1, <1>1 DEF Events
      <4> QED
        BY <1>2, <4>1, <4>2
    <3> QED
      BY <1>2, <1>4, <2>2, <3>1, <3>2, <3>3 DEF Told
  <2> QED
    BY <1>2, <2>1, <2>2 DEF Told
<1> QED
  BY <1>2, <1>3, <1>4

\* The first event is read.  If it is the only one about the size, then it has
\* the width of the window.
LEMMA HeadRead ==
    ASSUME Types, events # <<>>, events' = Tail(events), UNCHANGED given
    PROVE  /\ events' \in Events /\ Head(events) \in Event
           /\ HasSize => HasSize' \/ IsSize(Head(events))
           /\ Told => \A i \in 1..Len(events') :
                        IsSize(events'[i]) => \/ events'[i].width = given'
                                              \/ \E j \in i+1..Len(events') : IsSize(events'[j])
           /\ Told /\ ~HasSize' => IF IsSize(Head(events)) THEN Head(events).width = given
                                   ELSE width = given
<1>1. events \in Events
  BY DEF Types, Events
<1> DEFINE n == Len(events)
<1>2. /\ events' \in Events /\ Len(events') = n - 1 /\ n \in Nat \ {0}
      /\ Head(events) = events[1] /\ Head(events) \in Event
      /\ \A i \in 1..n-1 : events'[i] = events[i + 1]
  BY <1>1 DEF Events
<1>3. \A i \in 1..n : i # 1 => i - 1 \in 1..n-1 /\ events'[i - 1] = events[i]
  BY <1>2
<1> HIDE DEF n
<1>4. ~HasSize' => \A i \in 1..n : i # 1 => ~IsSize(events[i])
  BY <1>2, <1>3 DEF HasSize
<1>5. HasSize => HasSize' \/ IsSize(events[1])
  BY <1>2, <1>4 DEF HasSize, n
<1>6. ASSUME Told, NEW i \in 1..n-1, IsSize(events'[i])
      PROVE  events'[i].width = given' \/ \E j \in i+1..n-1 : IsSize(events'[j])
  <2>1. i + 1 \in 1..n /\ events'[i] = events[i + 1]
    BY <1>2
  <2>2. CASE events[i + 1].width = given
    BY <2>1, <2>2
  <2>3. CASE \E j \in i+2..n : IsSize(events[j])
    <3>1. PICK j \in i+2..n : IsSize(events[j])
      BY <2>3
    <3>2. j \in 1..n /\ j # 1 /\ j - 1 \in i+1..n-1
      BY <1>2, <3>1
    <3> QED
      BY <1>3, <3>1, <3>2
  <2>4. (i + 1) + 1 = i + 2
    BY <1>2
  <2> QED
    BY <1>6, <2>1, <2>2, <2>3, <2>4 DEF Told, n
<1>7. ASSUME Told, ~HasSize'
      PROVE  IF IsSize(events[1]) THEN events[1].width = given ELSE width = given
  <2>1. CASE IsSize(events[1])
    <3>1. ~ \E j \in 1+1..n : IsSize(events[j])
      BY <1>2, <1>4, <1>7
    <3>2. 1 \in 1..n
      BY <1>2
    <3> QED
      BY <1>7, <2>1, <3>1, <3>2 DEF Told, n
  <2>2. CASE ~IsSize(events[1])
    BY <1>5, <1>7, <2>2 DEF Told
  <2> QED
    BY <2>1, <2>2
<1> QED
  BY <1>2, <1>5, <1>6, <1>7

-----------------------------------------------------------------------------
(* The user, the window system and the collectors                          *)

LEMMA InvUserActs == ASSUME WindowInv, UserActs PROVE WindowInv'
<1>1. /\ idle' = 0
      /\ UNCHANGED <<toolkit, screen, toolkitVars, plotVars, pushes, at, heard, asked>>
  BY DEF UserActs
<1>2. given' \in Int /\ events' \in Events /\ (HasSize => HasSize')
      /\ (Told => Told') /\ (given' # given => HasSize')
  <2>1. CASE \E w \in WindowWidths \ {given} : events' = Append(events, Size(w)) /\ given' = w
    <3>1. PICK w \in WindowWidths : events' = Append(events, Size(w)) /\ given' = w
      BY <2>1
    <3>2. w \in Int
      BY BackendsAssumption
    <3> QED
      BY <3>1, <3>2, SizeQueued DEF WindowInv
  <2>2. CASE \E k \in Presses \union {"close"} :
               events' = Append(events, [type |-> k, width |-> 0]) /\ UNCHANGED given
    <3>1. PICK k \in Presses \union {"close"} :
            events' = Append(events, [type |-> k, width |-> 0]) /\ UNCHANGED given
      BY <2>2
    <3>2. PICK e : e = [type |-> k, width |-> 0]
      OBVIOUS
    <3>3. e \in Event /\ ~IsSize(e)
      BY <3>2 DEF Event, IsSize, Presses
    <3> QED
      BY <1>1, <3>1, <3>2, <3>3, OtherQueued DEF WindowInv, Types, toolkitVars
  <2> QED
    BY <2>1, <2>2 DEF UserActs
<1>3. Types'
  BY <1>1, <1>2 DEF WindowInv, Types, toolkitVars, plotVars
<1>4. SizeKnown'
  BY <1>1, <1>2 DEF WindowInv, SizeKnown, toolkitVars, plotVars
<1>5. Heard' /\ FrameDrawn'
  BY <1>1 DEF WindowInv, Heard, FrameDrawn, Swaps, toolkitVars, plotVars
<1>6. Quiet' /\ Settled' /\ Painted' /\ Fitted'
  BY <1>1 DEF Quiet, Settled, Painted, Fitted
<1> QED
  BY <1>3, <1>4, <1>5, <1>6 DEF WindowInv

LEMMA InvSampleArrives == ASSUME WindowInv, SampleArrives PROVE WindowInv'
<1>1. /\ idle' = 0 /\ pushes' = pushes + 1 /\ pushes \in Nat
      /\ UNCHANGED <<toolkit, given, events, screen, toolkitVars, plotVars, at, heard, asked>>
  BY DEF SampleArrives, WindowInv, Types
<1>2. Types'
  BY <1>1 DEF WindowInv, Types, toolkitVars, plotVars
<1>3. SizeKnown'
  BY <1>1 DEF WindowInv, SizeKnown, Told, HasSize, toolkitVars, plotVars
<1>4. Heard'
  BY <1>1 DEF WindowInv, Heard, toolkitVars, plotVars
<1>5. FrameDrawn'
  <2>1. surface.frame.pushes \in Nat
    BY DEF WindowInv, Types, Frame
  <2> QED
    BY <1>1, <2>1 DEF WindowInv, FrameDrawn, toolkitVars, plotVars
<1>6. Quiet' /\ Settled' /\ Painted' /\ Fitted'
  BY <1>1 DEF Quiet, Settled, Painted, Fitted
<1> QED
  BY <1>2, <1>3, <1>4, <1>5, <1>6 DEF WindowInv

-----------------------------------------------------------------------------
(* Events                                                                  *)

\* What an event does to the slot and to what the user has asked for.
LEMMA SlotHeard ==
    ASSUME WindowInv, Dispatch
    PROVE  Heard' /\ pending_event' \in Presses \union {"none"}
<1> DEFINE t == Head(events).type
<1>1. /\ at = "wait" /\ heard' = TRUE /\ UNCHANGED toolkit /\ asked' = Asked(t)
      /\ pending_event \in Presses \union {"none"} /\ asked \in {"none", "q", "close"}
  BY DEF Dispatch, WindowInv, Types
<1>2. asked = "q" => pending_event = "q"
  BY <1>1 DEF WindowInv, Heard
<1>3. asked = "close" => \/ toolkit \in {"win32", "cocoa"} /\ pending_event = "q"
                         \/ toolkit \in {"gtk", "glfw"} /\ closing
  BY <1>1 DEF WindowInv, Heard
<1>4. CASE toolkit \in {"gtk", "glfw"}
  <2>1. /\ pending_event' = Slotted(t) /\ closing' = (closing \/ t = "close")
        /\ UNCHANGED at
    BY <1>4 DEF Dispatch, GtkEvent, GlfwEvent
  <2> HIDE DEF t
  <2>2. pending_event' \in Presses \union {"none"}
    BY <1>1, <2>1 DEF Slotted
  <2>3. asked' = "q" => pending_event' = "q"
    BY <1>1, <1>2, <1>4, <2>1 DEF Asked, Slotted, Presses
  <2>4. asked' = "close" => closing'
    BY <1>1, <1>3, <1>4, <2>1 DEF Asked, Presses
  <2> QED
    BY <1>1, <1>4, <2>1, <2>2, <2>3, <2>4 DEF Heard
<1>5. CASE toolkit = "sdl"
  <2>1. pending_event' = Slotted(t) /\ at' = IF t = "close" THEN "exited" ELSE at
    BY <1>5 DEF Dispatch, SdlEvent
  <2> HIDE DEF t
  <2>2. pending_event' \in Presses \union {"none"}
    BY <1>1, <2>1 DEF Slotted
  <2>3. asked' = "q" => pending_event' = "q" \/ at' = "exited"
    BY <1>1, <1>2, <1>5, <2>1 DEF Asked, Slotted, Presses
  <2>4. asked' = "close" => at' = "exited"
    BY <1>1, <1>3, <1>5, <2>1 DEF Asked, Presses
  <2> QED
    BY <1>1, <1>5, <2>1, <2>2, <2>3, <2>4 DEF Heard
<1>6. CASE toolkit \in {"win32", "cocoa"}
  <2>1. /\ pending_event' = IF t = "close" THEN "q" ELSE Slotted(t)
        /\ UNCHANGED <<closing, at>>
    BY <1>6 DEF Dispatch, Win32Event, CocoaEvent
  <2> HIDE DEF t
  <2>2. pending_event' \in Presses \union {"none"}
    BY <1>1, <2>1 DEF Slotted, Presses
  <2>3. asked' # "none" => pending_event' = "q"
    BY <1>1, <1>2, <1>3, <1>6, <2>1 DEF Asked, Slotted, Presses
  <2> QED
    BY <1>1, <1>6, <2>1, <2>2, <2>3 DEF Heard
<1> QED
  BY <1>4, <1>5, <1>6 DEF WindowInv, Types

LEMMA AskedType == ASSUME Types, Dispatch PROVE asked' \in {"none", "q", "close"}
  BY DEF Dispatch, Asked, Types, Presses

\* A size that the toolkit notes, and one that gtk allocates a surface for.
LEMMA SizeNoted ==
    ASSUME WindowInv, Dispatch, toolkit # "gtk"
    PROVE  /\ NoteSize(Head(events)) /\ UNCHANGED <<width, surface, paint>>
           /\ window_resized' = (window_resized \/ IsSize(Head(events)))
           /\ closing' \in BOOLEAN /\ at' \in {"wait", "exited"}
<1>1. toolkit \in {"sdl", "glfw", "win32", "cocoa"} /\ closing \in BOOLEAN /\ at = "wait"
  BY DEF WindowInv, Types, Dispatch
<1>2. NoteSize(Head(events))
  BY <1>1 DEF Dispatch, SdlEvent, GlfwEvent, Win32Event, CocoaEvent
<1>3. closing' \in BOOLEAN /\ at' \in {"wait", "exited"}
  BY <1>1 DEF Dispatch, SdlEvent, GlfwEvent, Win32Event, CocoaEvent
<1> QED
  BY <1>2, <1>3 DEF NoteSize, IsSize

LEMMA InvDispatch == ASSUME WindowInv, Dispatch PROVE WindowInv'
<1>1. /\ at = "wait" /\ events # <<>> /\ events' = Tail(events) /\ heard' = TRUE /\ idle' = 0
      /\ UNCHANGED <<toolkit, given, screen, cached_width, size_dirty, redraw, pushes>>
  BY DEF Dispatch, plotVars
<1> DEFINE e == Head(events)
<1>2. e \in Event /\ events' \in Events /\ window_resized \in BOOLEAN /\ Types
  BY <1>1, HeadRead DEF WindowInv, Types
<1>3. ASSUME toolkit = "gtk" PROVE Types' /\ SizeKnown' /\ FrameDrawn'
  <2>1. /\ GtkAllocate(e) /\ UNCHANGED at /\ closing' \in BOOLEAN /\ paint' \in BOOLEAN
    BY <1>3 DEF Dispatch, GtkEvent, WindowInv, Types
  <2>2. surface.width = width /\ Told /\ (window_resized \/ size_dirty \/ cached_width = width)
    BY <1>3 DEF WindowInv, SizeKnown
  <2>3. /\ HasSize' \/ (IF IsSize(e) THEN e.width = given ELSE width = given)
        /\ \A i \in 1..Len(events') :
             IsSize(events'[i]) => \/ events'[i].width = given'
                                   \/ \E j \in i+1..Len(events') : IsSize(events'[j])
    BY <1>1, <1>2, <2>2, HeadRead
  <2>4. CASE IsSize(e) /\ e.width # width
    <3>1. /\ width' = e.width /\ window_resized' = TRUE
          /\ surface' = [width |-> e.width, frame |-> Blank]
      BY <2>1, <2>4 DEF GtkAllocate, IsSize
    <3>2. e.width \in Int /\ Blank \in Frame
      BY <1>2 DEF Event, Blank, Frame
    <3>3. surface' \in [width : Int, frame : Frame] /\ surface'.width = width'
      BY <3>1, <3>2
    <3> HIDE DEF e
    <3>4. Types'
      BY <1>1, <1>2, <2>1, <3>1, <3>2, <3>3, SlotHeard, AskedType DEF Types
    <3>5. Told'
      BY <1>1, <2>3, <2>4, <3>1 DEF Told
    <3>6. SizeKnown'
      BY <1>1, <1>3, <3>1, <3>3, <3>5 DEF SizeKnown
    <3>7. FrameDrawn'
      BY <1>1, <2>1, <3>1 DEF FrameDrawn
    <3> QED
      BY <3>4, <3>6, <3>7
  <2>5. CASE ~IsSize(e) \/ e.width = width
    <3>1. UNCHANGED <<width, window_resized, surface>>
      BY <2>1, <2>5 DEF GtkAllocate, IsSize
    <3> HIDE DEF e
    <3>2. Types'
      BY <1>1, <1>2, <2>1, <3>1, SlotHeard, AskedType DEF Types
    <3>3. Told'
      BY <1>1, <2>3, <2>5, <3>1 DEF Told
    <3>4. SizeKnown'
      BY <1>1, <1>3, <2>2, <3>1, <3>3 DEF SizeKnown
    <3>5. FrameDrawn'
      BY <1>1, <2>1, <3>1 DEF WindowInv, FrameDrawn, Swaps
    <3> QED
      BY <3>2, <3>4, <3>5
  <2> QED
    BY <2>4, <2>5
<1>4. ASSUME toolkit # "gtk" PROVE Types' /\ SizeKnown' /\ FrameDrawn'
  <2>1. /\ UNCHANGED <<width, surface, paint>> /\ closing' \in BOOLEAN
        /\ window_resized' = (window_resized \/ IsSize(e)) /\ at' \in {"wait", "exited"}
    BY <1>4, SizeNoted
  <2> HIDE DEF e
  <2>2. window_resized' \in BOOLEAN
    BY <1>2, <2>1 DEF IsSize
  <2>3. Types'
    BY <1>1, <1>2, <2>1, <2>2, SlotHeard, AskedType DEF Types
  <2>4. HasSize => HasSize' \/ IsSize(e)
    BY <1>1, <1>2, HeadRead DEF e
  <2>5. SizeKnown'
    BY <1>1, <1>4, <2>1, <2>4 DEF WindowInv, SizeKnown
  <2>6. FrameDrawn'
    BY <1>1, <1>4, <2>1 DEF WindowInv, FrameDrawn, Swaps
  <2> QED
    BY <2>3, <2>5, <2>6
<1>5. Quiet' /\ Settled' /\ Painted' /\ Fitted'
  BY <1>1 DEF Quiet, Settled, Painted, Fitted
<1> QED
  BY <1>3, <1>4, <1>5, SlotHeard DEF WindowInv

LEMMA InvPaint == ASSUME WindowInv, Paint PROVE WindowInv'
<1>1. /\ at = "wait" /\ toolkit = "gtk" /\ paint' = FALSE /\ screen' = surface.frame
      /\ UNCHANGED <<toolkit, given, events, width, pending_event, window_resized, closing, surface,
                     plotVars, pushes, at, heard, idle, asked>>
  BY DEF Paint
<1>2. Types'
  <2>1. surface.frame \in Frame
    BY DEF WindowInv, Types
  <2> QED
    BY <1>1, <2>1 DEF WindowInv, Types, plotVars
<1>3. SizeKnown' /\ Heard' /\ Quiet'
  BY <1>1 DEF WindowInv, SizeKnown, Told, HasSize, Heard, Quiet, plotVars
<1>4. FrameDrawn'
  BY <1>1 DEF WindowInv, FrameDrawn, Swaps, plotVars
<1>5. Settled' /\ Fitted'
  BY <1>1 DEF WindowInv, Settled, Fitted, Now, Swaps, plotVars
<1>6. Painted'
  <2>1. idle > 0 => surface.frame = Now
    BY <1>1 DEF WindowInv, Settled
  <2>2. Now' = Now
    BY <1>1 DEF Now
  <2> QED
    BY <1>1, <2>1, <2>2 DEF WindowInv, Painted, Types
<1> QED
  BY <1>2, <1>3, <1>4, <1>5, <1>6 DEF WindowInv

-----------------------------------------------------------------------------
(* graphics_wait_events                                                    *)

\* What it does in each toolkit, whether an interval has passed or not.
LEMMA WaitEnds ==
    ASSUME WindowInv, WaitReturns
    PROVE  \E passed \in BOOLEAN :
             /\ passed => ~heard
             /\ idle' = IF passed /\ idle < 2 THEN idle + 1 ELSE idle
             /\ toolkit = "gtk" => GtkWait(passed)
             /\ toolkit = "sdl" => SdlWait
             /\ toolkit = "glfw" => GlfwWait
             /\ toolkit = "win32" => Win32Wait(passed)
             /\ toolkit = "cocoa" => CocoaWait
<1>1. heard \in BOOLEAN
  BY DEF WindowInv, Types
<1>2. PICK passed \in {FALSE, ~heard} :
          /\ idle' = IF passed /\ idle < 2 THEN idle + 1 ELSE idle
          /\ \/ toolkit = "gtk" /\ GtkWait(passed)
             \/ toolkit = "sdl" /\ SdlWait
             \/ toolkit = "glfw" /\ GlfwWait
             \/ toolkit = "win32" /\ Win32Wait(passed)
             \/ toolkit = "cocoa" /\ CocoaWait
  BY DEF WaitReturns
<1>3. passed \in BOOLEAN /\ (passed => ~heard)
  BY <1>1
<1> QED
  BY <1>2, <1>3

LEMMA InvWaitReturns == ASSUME WindowInv, WaitReturns PROVE WindowInv'
<1>1. /\ at = "wait" /\ events = <<>> /\ heard' = FALSE
      /\ UNCHANGED <<toolkit, given, events, width, window_resized, closing, surface, plotVars,
                     pushes, asked>>
  BY DEF WaitReturns
<1>2. PICK passed \in BOOLEAN :
             /\ passed => ~heard
             /\ idle' = IF passed /\ idle < 2 THEN idle + 1 ELSE idle
             /\ toolkit = "gtk" => GtkWait(passed)
             /\ toolkit = "sdl" => SdlWait
             /\ toolkit = "glfw" => GlfwWait
             /\ toolkit = "win32" => Win32Wait(passed)
             /\ toolkit = "cocoa" => CocoaWait
  BY WaitEnds
<1>3. idle \in 0..2 /\ toolkit \in {"gtk", "sdl", "glfw", "win32", "cocoa"} /\ paint \in BOOLEAN
      /\ closing \in BOOLEAN
  BY DEF WindowInv, Types
<1>4. idle' \in 0..2 /\ (idle' > 0 => passed \/ idle > 0)
      /\ (idle' > 1 => idle > 0)
  BY <1>2, <1>3
<1>5. at' \in {"event", "exited"}
  BY <1>2, <1>3 DEF GtkWait, SdlWait, GlfwWait, Win32Wait, CocoaWait
<1>6. pending_event' = pending_event \/ (toolkit = "win32" /\ passed /\ pending_event' = "r")
  BY <1>2, <1>3 DEF GtkWait, SdlWait, GlfwWait, Win32Wait, CocoaWait
<1>7. toolkit # "gtk" => UNCHANGED <<paint, screen>>
  BY <1>2, <1>3 DEF SdlWait, GlfwWait, Win32Wait, CocoaWait
<1>8. toolkit = "gtk" => /\ paint' = (paint \/ passed)
                         /\ screen' = IF paint /\ passed THEN surface.frame ELSE screen
  BY <1>2 DEF GtkWait
<1>9. Types'
  <2>1. paint' \in BOOLEAN /\ screen' \in Frame
    <3>1. paint \in BOOLEAN /\ screen \in Frame /\ surface.frame \in Frame
      BY DEF WindowInv, Types
    <3> QED
      BY <1>7, <1>8, <3>1
  <2>2. pending_event' \in Presses \union {"none"}
    BY <1>6 DEF WindowInv, Types, Presses
  <2> QED
    BY <1>1, <1>4, <1>5, <2>1, <2>2 DEF WindowInv, Types, plotVars
<1>10. ~heard => pending_event = "none" /\ asked = "none"
  BY <1>1 DEF WindowInv, Heard
<1>11. Heard'
  <2>1. asked = "q" => pending_event' = "q"
    BY <1>1, <1>2, <1>6, <1>10 DEF WindowInv, Heard
  <2>2. ASSUME asked = "close", at' = "event"
        PROVE  toolkit \in {"win32", "cocoa"} /\ pending_event' = "q"
    <3>1. ~passed
      BY <1>2, <1>10, <2>2
    <3>2. \/ toolkit \in {"win32", "cocoa"} /\ pending_event = "q"
          \/ toolkit \in {"gtk", "glfw"} /\ closing
      BY <1>1, <2>2 DEF WindowInv, Heard
    <3>3. ~(toolkit \in {"gtk", "glfw"} /\ closing)
      BY <1>2, <2>2 DEF GtkWait, GlfwWait
    <3> QED
      BY <1>6, <3>1, <3>2, <3>3
  <2> QED
    BY <1>1, <1>5, <2>1, <2>2 DEF Heard
<1>12. Quiet'
  BY <1>1, <1>2, <1>4, <1>6, <1>10 DEF WindowInv, Quiet
<1>13. SizeKnown'
  BY <1>1 DEF WindowInv, SizeKnown, Told, HasSize, plotVars
<1>14. FrameDrawn'
  BY <1>1, <1>5, <1>7 DEF WindowInv, FrameDrawn, Swaps, plotVars
<1>15. Settled'
  BY <1>5 DEF Settled
<1>16. Now' = Now
  BY <1>1 DEF Now
<1>17. Painted'
  BY <1>1, <1>4, <1>2, <1>3, <1>8, <1>16 DEF WindowInv, Painted, Settled
<1>18. Fitted'
  <2>1. CASE toolkit = "win32"
    <3>1. idle > 0 => surface.width = given
      BY <1>1, <2>1 DEF WindowInv, Settled
    <3>2. passed => pending_event' = "r"
      BY <1>2, <2>1 DEF Win32Wait
    <3>3. idle' > 0 => pending_event' = "r" \/ surface'.width = given'
      BY <1>1, <1>4, <3>1, <3>2
    <3>4. idle' > 1 => /\ surface'.width = given'
                       /\ pending_event' = "r" \/ screen' = Now'
      BY <1>1, <1>2, <1>3, <1>4, <1>7, <1>16, <2>1, <3>1, <3>2 DEF WindowInv, Fitted
    <3> QED
      BY <1>5, <3>3, <3>4 DEF Fitted
  <2> QED
    BY <1>1, <2>1 DEF Fitted
<1> QED
  BY <1>9, <1>11, <1>12, <1>13, <1>14, <1>15, <1>17, <1>18 DEF WindowInv

-----------------------------------------------------------------------------
(* plot_system_update                                                      *)

\* What the handling of the event in the slot does to the window's size.
LEMMA FullscreenAsked ==
    ASSUME WindowInv, HandlePending
    PROVE  /\ given' \in Int /\ events' \in Events /\ window_resized' \in BOOLEAN
           /\ SizeKnown'
           /\ pending_event # "f" => UNCHANGED <<given, events, window_resized>>
<1>1. UNCHANGED <<toolkit, width, surface, cached_width, size_dirty>>
  BY DEF HandlePending
<1>2. /\ given \in Int /\ events \in Events /\ window_resized \in BOOLEAN /\ Types
      /\ toolkit \in {"gtk", "sdl", "glfw", "win32", "cocoa"}
  BY DEF WindowInv, Types
<1>3. CASE UNCHANGED <<given, events, window_resized>>
  BY <1>1, <1>2, <1>3 DEF WindowInv, SizeKnown, Told, HasSize
<1>4. CASE /\ pending_event = "f"
           /\ \E w \in WindowWidths :
                /\ given' = w
                /\ IF toolkit \in {"win32", "cocoa"} THEN SetFrame ELSE AskFullscreen(w)
  <2>1. PICK w \in WindowWidths :
                /\ given' = w
                /\ IF toolkit \in {"win32", "cocoa"} THEN SetFrame ELSE AskFullscreen(w)
    BY <1>4
  <2>2. w \in Int
    BY BackendsAssumption
  <2>3. CASE toolkit \in {"win32", "cocoa"}
    BY <1>1, <1>2, <1>4, <2>1, <2>2, <2>3 DEF SetFrame, SizeKnown
  <2>4. CASE toolkit \notin {"win32", "cocoa"} /\ w = given
    BY <1>1, <1>2, <1>4, <2>1, <2>4 DEF AskFullscreen, WindowInv, SizeKnown, Told, HasSize
  <2>5. CASE toolkit \notin {"win32", "cocoa"} /\ w # given
    <3>1. events' = Append(events, Size(w)) /\ UNCHANGED window_resized
      BY <2>1, <2>5 DEF AskFullscreen
    <3>2. events' \in Events /\ HasSize' /\ Told'
      BY <1>2, <2>1, <2>2, <3>1, SizeQueued
    <3> QED
      BY <1>1, <1>2, <1>4, <2>1, <2>2, <3>1, <3>2 DEF WindowInv, SizeKnown
  <2> QED
    BY <2>3, <2>4, <2>5
<1> QED
  BY <1>3, <1>4 DEF HandlePending

LEMMA InvHandlePending == ASSUME WindowInv, HandlePending PROVE WindowInv'
<1>1. /\ at = "event" /\ at' = IF pending_event = "q" THEN "exited" ELSE "draw"
      /\ pending_event' = "none"
      /\ redraw' = (redraw \/ pending_event \in {"r", "f", "motion"})
      /\ UNCHANGED <<toolkit, screen, width, closing, surface, paint, cached_width, size_dirty,
                     pushes, heard, idle, asked>>
  BY DEF HandlePending
<1>2. Types'
  BY <1>1, FullscreenAsked DEF WindowInv, Types
<1>3. Heard'
  <2>1. asked \in {"none", "q", "close"} /\ ~heard
    BY <1>1 DEF WindowInv, Types, Heard
  <2>2. pending_event # "q" => asked = "none"
    BY <1>1, <2>1 DEF WindowInv, Heard
  <2> QED
    BY <1>1, <2>1, <2>2 DEF Heard
<1>4. idle > 0 => /\ events = <<>> /\ ~heard /\ pending_event \in {"none", "r"}
                  /\ UNCHANGED <<given, events, window_resized>>
  BY FullscreenAsked DEF WindowInv, Quiet
<1>5. Quiet'
  BY <1>1, <1>4 DEF Quiet
<1>6. FrameDrawn'
  <2>1. ~window_resized' /\ ~redraw' => ~window_resized
    BY <1>1, FullscreenAsked
  <2>2. redraw' \/ ~redraw
    BY <1>1
  <2> QED
    BY <1>1, <2>1, <2>2 DEF WindowInv, FrameDrawn, Swaps
<1>7. Settled'
  BY <1>1 DEF Settled
<1>8. idle > 0 => Now' = Now
  BY <1>1, <1>4 DEF Now
<1>9. idle \in 0..2
  BY DEF WindowInv, Types
<1>10. Painted'
  BY <1>1, <1>8, <1>9 DEF WindowInv, Painted
<1>11. Fitted'
  <2>1. CASE toolkit = "win32" /\ idle > 0
    <3>1. at' \in {"draw", "exited"} /\ given' = given /\ surface' = surface /\ Now' = Now
      BY <1>1, <1>4, <1>8, <2>1
    <3>2. redraw' \/ surface.width = given
      BY <1>1, <2>1 DEF WindowInv, Fitted
    <3>3. idle > 1 => surface.width = given /\ (redraw' \/ screen = Now)
      BY <1>1, <2>1 DEF WindowInv, Fitted
    <3> QED
      BY <1>1, <3>1, <3>2, <3>3 DEF Fitted
  <2> QED
    BY <1>1, <1>9, <2>1 DEF Fitted
<1> QED
  BY <1>2, <1>3, <1>5, <1>6, <1>7, <1>10, <1>11, FullscreenAsked DEF WindowInv

LEMMA InvUpdateAndDraw == ASSUME WindowInv, UpdateAndDraw PROVE WindowInv'
<1>1. /\ at = "draw"
      /\ cached_width' = IF window_resized \/ size_dirty THEN SizeNow ELSE cached_width
      /\ window_resized' = FALSE /\ size_dirty' = FALSE
      /\ redraw' = (redraw \/ window_resized \/ size_dirty)
      /\ asked' = "none"
      /\ UNCHANGED <<toolkit, given, events, screen, width, pending_event, closing, paint, pushes,
                     heard, idle>>
  BY DEF UpdateAndDraw
<1>2. /\ at' = "present" /\ surface'.width = DrawnOn
      /\ surface'.frame = [width |-> cached_width', pushes |-> pushes]
      \/ /\ at' = "wait" /\ UNCHANGED surface
         /\ ~redraw /\ ~window_resized /\ ~size_dirty /\ pushes = 0
  <2>1. pushes \in Nat
    BY DEF WindowInv, Types
  <2>2. CASE redraw' \/ pushes > 0
    <3> DEFINE f == [width |-> cached_width', pushes |-> pushes]
    <3>1. at' = "present" /\ surface' = [width |-> DrawnOn, frame |-> f]
      BY <2>2 DEF UpdateAndDraw
    <3> HIDE DEF f
    <3>2. surface'.width = DrawnOn /\ surface'.frame = f
      BY <3>1
    <3> QED
      BY <3>1, <3>2 DEF f
  <2>3. CASE ~(redraw' \/ pushes > 0)
    <3>1. at' = "wait" /\ UNCHANGED surface
      BY <2>3 DEF UpdateAndDraw
    <3>2. pushes = 0
      BY <2>1, <2>3
    <3>3. ~redraw /\ ~window_resized /\ ~size_dirty
      BY <1>1, <2>3, Zenon
    <3> QED
      BY <3>1, <3>2, <3>3
  <2> QED
    BY <2>2, <2>3
<1>3. /\ toolkit \in {"gtk", "sdl", "glfw", "win32", "cocoa"} /\ idle \in 0..2 /\ pushes \in Nat
      /\ given \in Int /\ width \in Int /\ cached_width \in Int /\ surface.width \in Int
      /\ surface \in [width : Int, frame : Frame]
  BY DEF WindowInv, Types
<1>4. cached_width' \in Int /\ DrawnOn \in Int
  BY <1>1, <1>3 DEF SizeNow, DrawnOn
<1>5. Types'
  <2>1. surface' \in [width : Int, frame : Frame]
    <3>1. [width |-> cached_width', pushes |-> pushes] \in Frame
      BY <1>3, <1>4 DEF Frame
    <3>2. surface' = surface
          \/ surface' = [width |-> DrawnOn,
                         frame |-> [width |-> cached_width', pushes |-> pushes]]
      BY DEF UpdateAndDraw
    <3> QED
      BY <1>3, <1>4, <3>1, <3>2
  <2> QED
    BY <1>1, <1>2, <1>4, <2>1 DEF WindowInv, Types
<1>6. Heard' /\ Quiet'
  BY <1>1, <1>2 DEF WindowInv, Heard, Quiet
\* The size that is known is now the window's, or the one that events will tell.
<1>7. IF toolkit = "gtk" THEN cached_width' = width ELSE HasSize \/ cached_width' = given
  BY <1>1 DEF WindowInv, SizeKnown, SizeNow
<1>8. toolkit = "gtk" => surface'.width = width /\ Told
  BY <1>2, <1>3 DEF WindowInv, SizeKnown, DrawnOn
<1>9. SizeKnown'
  BY <1>1, <1>7, <1>8 DEF SizeKnown, Told, HasSize
<1>10. idle > 0 => /\ cached_width' = given
                   /\ events = <<>> /\ (toolkit = "gtk" => width = given)
  <2>1. idle > 0 => events = <<>>
    BY DEF WindowInv, Quiet
  <2>2. events = <<>> => ~HasSize
    BY DEF HasSize
  <2> QED
    BY <1>7, <1>8, <2>1, <2>2 DEF Told
<1>11. Now' = Now
  BY <1>1 DEF Now
<1>12. FrameDrawn'
  <2>1. CASE at' = "present"
    BY <1>1, <1>2, <1>3, <1>4, <1>10, <1>11, <2>1 DEF FrameDrawn, Now
  <2>2. CASE at' = "wait"
    BY <1>1, <1>2, <2>2 DEF WindowInv, FrameDrawn, Swaps
  <2> QED
    BY <1>2, <2>1, <2>2
<1>13. at' = "wait" /\ idle > 0 => /\ Swaps => screen = Now
                                   /\ toolkit = "gtk" => surface.frame = Now
  BY <1>1, <1>2, <1>10 DEF WindowInv, FrameDrawn, Now
<1>14. at' = "wait" /\ idle > 0 /\ toolkit = "win32" => surface'.width = given
  BY <1>1, <1>2 DEF WindowInv, Fitted
<1>15. Settled'
  BY <1>1, <1>2, <1>10, <1>11, <1>13, <1>14 DEF Settled, Swaps
<1>16. Painted'
  BY <1>1, <1>2, <1>11 DEF WindowInv, Painted
<1>17. Fitted'
  <2>1. CASE toolkit = "win32"
    <3>1. DrawnOn = surface.width
      BY <2>1 DEF DrawnOn
    <3>2. pending_event = "none"
      BY <1>1 DEF WindowInv, Heard
    <3> QED
      BY <1>1, <1>2, <1>11, <2>1, <3>1, <3>2 DEF WindowInv, Fitted
  <2> QED
    BY <1>1, <2>1 DEF Fitted
<1> QED
  BY <1>5, <1>6, <1>9, <1>12, <1>15, <1>16, <1>17 DEF WindowInv

LEMMA InvPresentFrame == ASSUME WindowInv, PresentFrame PROVE WindowInv'
<1>1. /\ at = "present" /\ at' = "wait" /\ redraw' = FALSE
      /\ UNCHANGED <<toolkit, given, events, width, pending_event, window_resized, closing, paint,
                     cached_width, size_dirty, pushes, heard, idle, asked>>
  BY DEF PresentFrame
<1>2. /\ toolkit = "win32" => Win32Present
      /\ toolkit = "gtk" => GtkPresent
      /\ toolkit \notin {"win32", "gtk"} => SwapBuffers
  BY DEF PresentFrame
<1>3. /\ toolkit \in {"gtk", "sdl", "glfw", "win32", "cocoa"} /\ idle \in 0..2 /\ pushes \in Nat
      /\ screen \in Frame /\ surface \in [width : Int, frame : Frame] /\ surface.frame \in Frame
      /\ given \in Int
  BY DEF WindowInv, Types
<1>4. /\ ~window_resized /\ ~size_dirty
      /\ surface.frame.width = cached_width /\ surface.frame.pushes <= pushes
      /\ idle > 0 => surface.frame = Now
  BY <1>1 DEF WindowInv, FrameDrawn
<1>5. surface' \in [width : Int, frame : Frame] /\ screen' \in Frame
  <2>1. [width |-> given, frame |-> Blank] \in [width : Int, frame : Frame] /\ Blank \in Frame
    BY <1>3 DEF Blank, Frame
  <2>2. CASE toolkit = "win32"
    <3>1. surface' \in [width : Int, frame : Frame]
      BY <1>2, <1>3, <2>1, <2>2 DEF Win32Present
    <3>2. screen' = surface'.frame
      BY <1>2, <2>2 DEF Win32Present
    <3> QED
      BY <3>1, <3>2
  <2> QED
    BY <1>2, <1>3, <2>2 DEF GtkPresent, SwapBuffers
<1>6. Types'
  BY <1>1, <1>5, ZenonT(60) DEF WindowInv, Types
<1>7. Heard' /\ Quiet'
  BY <1>1 DEF WindowInv, Heard, Quiet
<1>8. SizeKnown'
  BY <1>1, <1>2 DEF WindowInv, SizeKnown, Told, HasSize, GtkPresent
<1>9. Now' = Now
  BY <1>1 DEF Now
<1>10. FrameDrawn'
  <2>1. pushes = 0 => surface.frame = [width |-> cached_width, pushes |-> 0]
    <3>1. surface.frame.pushes \in Nat
      BY <1>3 DEF Frame
    <3>2. pushes = 0 => surface.frame.pushes = 0
      BY <1>3, <1>4, <3>1
    <3> QED
      BY <1>3, <1>4, <3>2 DEF Frame
  <2> QED
    BY <1>1, <1>2, <2>1 DEF FrameDrawn, Swaps, GtkPresent, SwapBuffers
<1>11. idle > 0 => cached_width = given
  BY <1>3, <1>4 DEF Now
<1>12. toolkit = "win32" => surface'.width = given
  BY <1>2, <1>3 DEF Win32Present
<1>13. Settled'
  BY <1>1, <1>2, <1>4, <1>9, <1>11, <1>12 DEF Settled, Swaps, GtkPresent, SwapBuffers
<1>14. Painted'
  BY <1>1, <1>2, <1>9 DEF WindowInv, Painted, GtkPresent
<1>15. Fitted'
  <2>1. ASSUME toolkit = "win32", idle > 1 PROVE screen' = Now'
    <3>1. surface.width = given
      BY <1>1, <2>1 DEF WindowInv, Fitted
    <3> QED
      BY <1>2, <1>3, <1>4, <1>9, <2>1, <3>1 DEF Win32Present
  <2> QED
    BY <1>1, <2>1 DEF Fitted
<1> QED
  BY <1>6, <1>7, <1>8, <1>10, <1>13, <1>14, <1>15 DEF WindowInv

-----------------------------------------------------------------------------
(* The theorem                                                             *)

LEMMA InvWindow == ASSUME WindowInv, [WindowNext]_windowVars PROVE WindowInv'
<1>1. CASE UNCHANGED windowVars
  <2>1. UNCHANGED <<toolkit, given, events, screen, width, pending_event, window_resized, closing,
                    surface, paint, cached_width, size_dirty, redraw, pushes, at, heard, idle,
                    asked>>
    BY <1>1 DEF windowVars, toolkitVars, plotVars
  <2>2. Types' /\ Heard' /\ Quiet' /\ SizeKnown'
    BY <2>1 DEF WindowInv, Types, Heard, Quiet, SizeKnown, Told, HasSize
  <2>3. FrameDrawn' /\ Settled' /\ Painted' /\ Fitted'
    BY <2>1 DEF WindowInv, FrameDrawn, Settled, Painted, Fitted, Swaps, Now
  <2> QED
    BY <2>2, <2>3 DEF WindowInv
<1> QED
  BY <1>1, InvUserActs, InvSampleArrives, InvDispatch, InvPaint, InvWaitReturns,
     InvHandlePending, InvUpdateAndDraw, InvPresentFrame DEF WindowNext

\* In each toolkit a pass in which the user has asked to close the window or to
\* quit draws nothing any more, and two intervals after the last event and the
\* last sample the screen shows a frame of the window's width with all samples
\* in it, whatever events, resizes and samples came before in whatever order
\* (the event callbacks and graphics_wait_events of src/gfx with
\* plot_system_update).
THEOREM WindowAlwaysAnswers == WindowSpec => []WindowAnswers
<1>1. WindowInv => WindowAnswers
  <2>1. ASSUME WindowInv PROVE EndsInThisPass
    BY <2>1 DEF WindowInv, Heard, EndsInThisPass
  <2>2. ASSUME WindowInv, idle >= 2, at = "wait"
        PROVE  screen = [width |-> given, pushes |-> pushes]
    <3>1. idle > 0 /\ idle > 1 /\ toolkit \in {"gtk", "sdl", "glfw", "win32", "cocoa"}
      BY <2>2 DEF WindowInv, Types
    <3> QED
      BY <2>2, <3>1 DEF WindowInv, Settled, Painted, Fitted, Swaps, Now
  <2> QED
    BY <2>1, <2>2 DEF WindowAnswers, ScreenSettles
<1> QED
  BY <1>1, WindowStarts, InvWindow, PTL DEF WindowSpec

-----------------------------------------------------------------------------
(* The image: powers of two                                                *)

\* The powers of two: positive, each twice the one before.
LEMMA Powers ==
    /\ \A n \in 0..16 : Pow2[n] \in Nat /\ Pow2[n] >= 1
    /\ Pow2[0] = 1 /\ \A n \in 1..16 : Pow2[n] = 2 * Pow2[n - 1]
<1>1. PICK F : F = [i \in 1..16 |-> [x \in Nat |-> 2 * x]]
  OBVIOUS
<1>2. F \in Steps(16, Nat)
  BY <1>1, SMT DEF Steps
<1>3. PICK f : Follows(f, 16, Nat, 1, F)
  <2>1. 16 \in Nat /\ 1 \in Nat
    BY SMT
  <2> QED
    BY <1>2, <2>1, Recursion, Zenon
<1>4. /\ f \in [0..16 -> Nat] /\ f[0] = 1
      /\ \A i \in 1..16 : f[i] = F[i][f[i - 1]]
  BY <1>3, Zenon DEF Follows
<1>5. ASSUME NEW i \in 1..16 PROVE f[i] = 2 * f[i - 1]
  <2>1. f[i - 1] \in Nat
    BY <1>4, SMT
  <2> QED
    BY <1>1, <1>4, <2>1, SMT
<1>6. f = [n \in 0..16 |-> IF n = 0 THEN 1 ELSE 2 * f[n - 1]]
  <2>1. ASSUME NEW n \in 0..16 PROVE f[n] = IF n = 0 THEN 1 ELSE 2 * f[n - 1]
    BY <1>4, <1>5, SMT
  <2> QED
    BY <1>4, <2>1, SMT
<1>7. \E g : g = [n \in 0..16 |-> IF n = 0 THEN 1 ELSE 2 * g[n - 1]]
  BY <1>6, Zenon
<1>8. Pow2 = [n \in 0..16 |-> IF n = 0 THEN 1 ELSE 2 * Pow2[n - 1]]
  BY <1>7, Zenon DEF Pow2
<1> DEFINE P == {n \in 0..16 : Pow2[n] \in Nat /\ Pow2[n] >= 1}
<1> HIDE DEF Pow2
<1>9. Pow2[0] = 1
  BY <1>8, SMT
<1>10. ASSUME NEW n \in 1..16 PROVE Pow2[n] = 2 * Pow2[n - 1]
  BY <1>8, SMT
<1>11. \A n \in 0..16 : n \in P
  <2>1. 0 \in P
    BY <1>9, SMT
  <2>2. ASSUME NEW n \in 1..16, n - 1 \in P PROVE n \in P
    BY <1>10, <2>2, SMT
  <2>3. 16 \in Nat
    BY SMT
  <2> HIDE DEF P
  <2> QED
    BY <2>1, <2>2, <2>3, Induction
<1> QED
  BY <1>9, <1>10, <1>11, SMT

\* A greater width has more codes.
LEMMA PowersGrow ==
    ASSUME NEW m \in 0..16, NEW n \in 0..16, m < n
    PROVE  2 * Pow2[m] <= Pow2[n]
<1> DEFINE P == {j \in 0..(n - m - 1) : 2 * Pow2[m] <= Pow2[m + 1 + j]}
<1>0. n - m - 1 \in Nat
  BY SMT
<1>1. 0 \in P
  <2>1. m + 1 \in 1..16 /\ (m + 1) - 1 = m /\ m + 1 + 0 = m + 1
    BY SMT
  <2>2. Pow2[m + 1] = 2 * Pow2[m] /\ Pow2[m] \in Nat
    BY <2>1, Powers, SMT
  <2> QED
    BY <1>0, <2>1, <2>2, SMT
<1>2. ASSUME NEW j \in 1..(n - m - 1), j - 1 \in P PROVE j \in P
  <2>1. PICK k : k = m + 1 + j
    OBVIOUS
  <2>2. k \in 1..16 /\ m + 1 + (j - 1) = k - 1 /\ k - 1 \in 0..16
    BY <2>1, SMT
  <2>3. Pow2[k] = 2 * Pow2[k - 1] /\ Pow2[k - 1] \in Nat
    BY <2>2, Powers, SMT
  <2>4. 2 * Pow2[m] <= Pow2[k - 1] /\ Pow2[m] \in Nat
    BY <1>2, <2>2, Powers, SMT
  <2> QED
    BY <2>1, <2>3, <2>4, SMT
<1>3. n - m - 1 \in P
  <2> HIDE DEF P
  <2>1. \A j \in 0..(n - m - 1) : j \in P
    BY <1>0, <1>1, <1>2, Induction
  <2> QED
    BY <1>0, <2>1, SMT
<1> QED
  <2>1. m + 1 + (n - m - 1) = n
    BY SMT
  <2> QED
    BY <1>3, <2>1, SMT

\* The powers that the sizes of codes and bytes are made of.
LEMMA EightBits == /\ Pow2[2] = 4 /\ Pow2[8] = 256
                   /\ Pow2[1] = 2 /\ Pow2[3] = 8 /\ Pow2[4] = 16
<1>1. Pow2[1] = 2 /\ Pow2[2] = 4 /\ Pow2[3] = 8 /\ Pow2[4] = 16
  BY Powers, SMT
<1>2. Pow2[5] = 32 /\ Pow2[6] = 64
  BY <1>1, Powers, SMT
<1>3. Pow2[7] = 128 /\ Pow2[8] = 256
  BY <1>2, Powers, SMT
<1> QED
  BY <1>1, <1>3, SMT

\* The codes of a palette: what is known of the constants.
LEMMA CodeSizes ==
    /\ MaxBits \in 4..12 /\ MinCodeSize \in 2..(MaxBits - 2)
    /\ clear_code = Pow2[MinCodeSize] /\ eof_code = clear_code + 1
    /\ clear_code \in Nat /\ clear_code >= 4 /\ clear_code >= PalCount
    /\ MaxCodes \in Nat /\ 4 * clear_code <= MaxCodes /\ MaxCodes = Pow2[MaxBits]
    /\ Colors \subseteq 0..(clear_code - 1)
    /\ Pow2[MinCodeSize + 1] = 2 * clear_code
<1>1. MaxBits \in 4..12 /\ PalCount \in 1..256 /\ PalCount <= Pow2[MaxBits - 2]
      /\ Colors \subseteq 0..(PalCount - 1)
  BY GifAssumption
<1> DEFINE Fits(b) == Pow2[b] >= PalCount /\ \A a \in 2..b-1 : Pow2[a] < PalCount
<1>2. \E b \in 2..8 : Fits(b)
  <2> DEFINE T == {b \in 2..8 : Pow2[b] >= PalCount}
  <2>1. 8 \in T
    BY <1>1, EightBits, SMT
  <2>2. T \in SUBSET Nat /\ T # {}
    BY <2>1, SMT
  <2>3. PICK b \in T : \A c \in T : b <= c
    <3> HIDE DEF T
    <3> QED
      BY <2>2, LeastOf, Zenon
  <2>4. ASSUME NEW a \in 2..b-1 PROVE Pow2[a] < PalCount
    <3>1. a \in 2..8 /\ a < b /\ a \in 0..16
      BY <2>3, SMT
    <3>2. Pow2[a] \in Nat
      BY <3>1, Powers, SMT
    <3> QED
      BY <1>1, <2>3, <3>1, <3>2, SMT
  <2> QED
    BY <2>3, <2>4
<1>3. MinCodeSize \in 2..8 /\ Fits(MinCodeSize)
  BY <1>2, Zenon DEF MinCodeSize
<1>4. MinCodeSize <= MaxBits - 2
  <2> SUFFICES ASSUME ~(MinCodeSize <= MaxBits - 2) PROVE FALSE
    OBVIOUS
  <2>1. MaxBits - 2 \in 2..MinCodeSize - 1 /\ MaxBits - 2 \in 0..16
    BY <1>1, <1>3, SMT
  <2>2. Pow2[MaxBits - 2] < PalCount /\ Pow2[MaxBits - 2] \in Nat
    BY <1>3, <2>1, Powers
  <2> QED
    BY <1>1, <2>2, SMT
<1>5. clear_code = Pow2[MinCodeSize] /\ eof_code = clear_code + 1 /\ MaxCodes = Pow2[MaxBits]
  BY Zenon DEF clear_code, eof_code, MaxCodes
<1>6. PICK b \in 2..8 : b = MinCodeSize
  BY <1>3
<1>7. b \in 0..16 /\ b + 1 \in 1..16 /\ b + 2 \in 1..16 /\ (b + 1) - 1 = b /\ (b + 2) - 1 = b + 1
  BY <1>6, SMT
<1>8. Pow2[b] \in Nat /\ Pow2[b + 1] = 2 * Pow2[b] /\ Pow2[b + 2] = 2 * Pow2[b + 1]
  BY <1>7, Powers
<1>9. Pow2[b] >= 4
  <2>1. CASE b = 2
    BY <2>1, EightBits
  <2>2. CASE b # 2
    <3>1. 2 \in 0..16 /\ 2 < b
      BY <2>2, <1>6, SMT
    <3>2. 2 * Pow2[2] <= Pow2[b]
      BY <1>7, <3>1, PowersGrow
    <3> QED
      BY <1>8, <3>2, EightBits, SMT
  <2> QED
    BY <2>1, <2>2
<1>10. MaxCodes \in Nat /\ 4 * Pow2[b] <= MaxCodes
  <2>1. MaxBits \in 0..16 /\ b + 2 \in 0..16 /\ b + 2 <= MaxBits
    BY <1>1, <1>4, <1>6, <1>7, SMT
  <2>2. Pow2[MaxBits] \in Nat
    BY <2>1, Powers
  <2>3. CASE b + 2 = MaxBits
    BY <1>5, <1>8, <2>2, <2>3, SMT
  <2>4. CASE b + 2 < MaxBits
    <3>1. 2 * Pow2[b + 2] <= Pow2[MaxBits]
      BY <2>1, <2>4, PowersGrow
    <3> QED
      BY <1>5, <1>8, <2>2, <3>1, SMT
  <2> QED
    BY <2>1, <2>3, <2>4, SMT
<1>11. Pow2[b] >= PalCount
  BY <1>3, <1>6
<1>12. clear_code = Pow2[b]
  BY <1>5, <1>6
<1>13. Colors \subseteq 0..(clear_code - 1)
  BY <1>1, <1>8, <1>11, <1>12, SMT
<1>14. MinCodeSize \in 2..(MaxBits - 2)
  BY <1>1, <1>3, <1>4, SMT
<1>15. Pow2[MinCodeSize + 1] = 2 * clear_code
  BY <1>6, <1>8, <1>12
<1> QED
  BY <1>1, <1>5, <1>8, <1>9, <1>10, <1>11, <1>12, <1>13, <1>14, <1>15, SMT

-----------------------------------------------------------------------------
(* The image: numbers as bits, the lowest bit first                        *)

\* The bits from place a on, n of them, are the number x.  h are the numbers
\* that remain when bit after bit is taken off.
Bits == [Nat -> {0, 1}]

Halves(h, W, a, n) ==
    h \in [0..n -> Nat] /\ h[n] = 0 /\ \A i \in 1..n : h[i - 1] = 2 * h[i] + W[a + i]

Spells(W, a, n, x) == \E h : Halves(h, W, a, n) /\ h[0] = x

\* Bits that are all 0 spell 0.
LEMMA ZerosSpelled ==
    ASSUME NEW W \in Bits, NEW a \in Nat, NEW n \in Nat, \A i \in 1..n : W[a + i] = 0
    PROVE  Spells(W, a, n, 0)
<1>1. PICK h : h = [i \in 0..n |-> 0]
  OBVIOUS
<1>2. h \in [0..n -> Nat] /\ h[n] = 0 /\ h[0] = 0
  BY <1>1, SMT
<1>3. ASSUME NEW i \in 1..n PROVE h[i - 1] = 2 * h[i] + W[a + i]
  BY <1>1, SMT
<1>4. Halves(h, W, a, n)
  BY <1>2, <1>3, Zenon DEF Halves
<1> QED
  BY <1>2, <1>4, Zenon DEF Spells

\* The same bits are the same number.
LEMMA SpellsFrame ==
    ASSUME NEW W \in Bits, NEW V \in Bits, NEW a \in Nat, NEW n \in Nat, NEW x,
           \A i \in 1..n : V[a + i] = W[a + i], Spells(W, a, n, x)
    PROVE  Spells(V, a, n, x)
<1>1. PICK h : Halves(h, W, a, n) /\ h[0] = x
  BY Zenon DEF Spells
<1>2. h \in [0..n -> Nat] /\ h[n] = 0 /\ \A i \in 1..n : h[i - 1] = 2 * h[i] + W[a + i]
  BY <1>1, Zenon DEF Halves
<1>3. ASSUME NEW i \in 1..n PROVE h[i - 1] = 2 * h[i] + V[a + i]
  <2>1. h[i - 1] = 2 * h[i] + W[a + i]
    BY <1>2
  <2>2. V[a + i] = W[a + i]
    OBVIOUS
  <2> QED
    BY <2>1, <2>2
<1>4. Halves(h, V, a, n)
  BY <1>2, <1>3, Zenon DEF Halves
<1> QED
  BY <1>1, <1>4, Zenon DEF Spells

\* Some bits spell one number only.
LEMMA SpelledOnce ==
    ASSUME NEW W \in Bits, NEW a \in Nat, NEW n \in Nat, NEW x, NEW y,
           Spells(W, a, n, x), Spells(W, a, n, y)
    PROVE  x = y
<1>1. PICK g : Halves(g, W, a, n) /\ g[0] = x
  BY Zenon DEF Spells
<1>2. PICK h : Halves(h, W, a, n) /\ h[0] = y
  BY Zenon DEF Spells
<1> DEFINE P == {j \in 0..n : g[n - j] = h[n - j]}
<1>3. 0 \in P
  BY <1>1, <1>2, SMT DEF Halves
<1>4. ASSUME NEW j \in 1..n, j - 1 \in P PROVE j \in P
  <2>1. PICK i : i = n - j + 1
    OBVIOUS
  <2>2. i \in 1..n /\ n - (j - 1) = i /\ n - j = i - 1
    BY <2>1, SMT
  <2>3. g[i] = h[i]
    BY <1>4, <2>2, SMT
  <2>4. g[i - 1] = h[i - 1]
    BY <1>1, <1>2, <2>2, <2>3, SMT DEF Halves
  <2> QED
    BY <2>2, <2>4, SMT
<1>5. n \in P
  <2> HIDE DEF P
  <2>1. \A j \in 0..n : j \in P
    BY <1>3, <1>4, Induction
  <2> QED
    BY <2>1, SMT
<1>6. g[0] = h[0]
  <2>1. n - n = 0
    BY SMT
  <2> QED
    BY <1>5, <2>1
<1> QED
  BY <1>1, <1>2, <1>6

\* Numbers below a power of two are those its many bits can spell.
LEMMA SpellsBelow ==
    ASSUME NEW W \in Bits, NEW a \in Nat, NEW n \in 0..16, NEW x, Spells(W, a, n, x)
    PROVE  x \in Nat /\ x < Pow2[n]
<1>1. PICK h : Halves(h, W, a, n) /\ h[0] = x
  BY Zenon DEF Spells
<1>2. h \in [0..n -> Nat] /\ h[n] = 0 /\ \A i \in 1..n : h[i - 1] = 2 * h[i] + W[a + i]
  BY <1>1, Zenon DEF Halves
<1> DEFINE P == {j \in 0..n : h[n - j] < Pow2[j]}
<1>3. 0 \in P
  <2>1. n - 0 = n
    BY SMT
  <2>2. h[n - 0] = 0 /\ Pow2[0] = 1 /\ 0 \in 0..n
    BY <1>2, <2>1, Powers, SMT
  <2> QED
    BY <2>2, SMT
<1>4. ASSUME NEW j \in 1..n, j - 1 \in P PROVE j \in P
  <2>1. PICK i : i = n - j + 1
    OBVIOUS
  <2>2. i \in 1..n /\ n - (j - 1) = i /\ n - j = i - 1 /\ j \in 1..16 /\ i - 1 \in 0..n
        /\ j - 1 \in 0..16
    BY <2>1, SMT
  <2>3. h[i] < Pow2[j - 1] /\ h[i] \in Nat
    BY <1>2, <1>4, <2>2, SMT
  <2>4. Pow2[j] = 2 * Pow2[j - 1] /\ Pow2[j - 1] \in Nat
    BY <2>2, Powers
  <2>5. W[a + i] \in {0, 1}
    BY <2>2, SMT DEF Bits
  <2>6. h[i - 1] = 2 * h[i] + W[a + i]
    BY <1>2, <2>2
  <2>7. h[i - 1] < Pow2[j]
    BY <2>3, <2>4, <2>5, <2>6, SMT
  <2> QED
    BY <2>2, <2>7, SMT
<1>5. n \in P
  <2> HIDE DEF P
  <2>1. n \in Nat
    BY SMT
  <2>2. \A j \in 0..n : j \in P
    BY <1>3, <1>4, <2>1, Induction
  <2> QED
    BY <2>1, <2>2, SMT
<1>6. n - n = 0 /\ 0 \in 0..n
  BY SMT
<1>7. h[0] < Pow2[n] /\ h[0] \in Nat
  BY <1>2, <1>5, <1>6
<1> QED
  BY <1>1, <1>7

\* A number above another one: its bits follow.
LEMMA SpellsJoin ==
    ASSUME NEW W \in Bits, NEW a \in Nat, NEW m \in 0..16, NEW n \in Nat, NEW x, NEW y \in Nat,
           Spells(W, a, m, x), Spells(W, a + m, n, y)
    PROVE  Spells(W, a, m + n, x + y * Pow2[m])
<1>1. PICK f : Halves(f, W, a, m) /\ f[0] = x
  BY Zenon DEF Spells
<1>2. PICK g : Halves(g, W, a + m, n) /\ g[0] = y
  BY Zenon DEF Spells
<1>3. f \in [0..m -> Nat] /\ f[m] = 0 /\ \A i \in 1..m : f[i - 1] = 2 * f[i] + W[a + i]
  BY <1>1, Zenon DEF Halves
<1>4. g \in [0..n -> Nat] /\ g[n] = 0 /\ \A i \in 1..n : g[i - 1] = 2 * g[i] + W[a + m + i]
  BY <1>2, Zenon DEF Halves
<1>5. PICK p : p = [i \in 0..m |-> y * Pow2[m - i]]
  OBVIOUS
<1>6. /\ p \in [0..m -> Nat] /\ p[m] = y /\ p[0] = y * Pow2[m]
      /\ \A i \in 1..m : p[i - 1] = 2 * p[i]
  <2>1. ASSUME NEW i \in 0..m PROVE p[i] \in Nat
    <3>1. m - i \in 0..16
      BY SMT
    <3>2. Pow2[m - i] \in Nat
      BY <3>1, Powers
    <3> QED
      BY <1>5, <3>2, SMT
  <2>2. ASSUME NEW i \in 1..m PROVE p[i - 1] = 2 * p[i]
    <3>1. PICK k : k = m - i
      OBVIOUS
    <3>2. k + 1 \in 1..16 /\ m - (i - 1) = k + 1 /\ (k + 1) - 1 = k /\ k \in 0..16
          /\ i \in 0..m /\ i - 1 \in 0..m
      BY <3>1, SMT
    <3>3. Pow2[k + 1] = 2 * Pow2[k] /\ Pow2[k] \in Nat
      BY <3>2, Powers
    <3>4. p[i] = y * Pow2[k] /\ p[i - 1] = y * Pow2[k + 1]
      BY <1>5, <3>1, <3>2
    <3> QED
      BY <3>3, <3>4, SMT
  <2>3. m - m = 0 /\ m \in 0..m /\ 0 \in 0..m /\ m - 0 = m
    BY SMT
  <2>4. p[m] = y * Pow2[0] /\ p[0] = y * Pow2[m]
    BY <1>5, <2>3
  <2>5. p[m] = y
    BY <2>4, Powers, SMT
  <2>6. p \in [0..m -> Nat]
    BY <1>5, <2>1
  <2> QED
    BY <2>2, <2>4, <2>5, <2>6
<1> DEFINE H == [i \in 0..(m + n) |-> IF i <= m THEN f[i] + p[i] ELSE g[i - m]]
<1>7. PICK h : h = H
  OBVIOUS
<1>8. /\ \A i \in 0..m : h[i] = f[i] + p[i]
      /\ \A i \in 0..n : h[m + i] = g[i]
  <2>1. ASSUME NEW i \in 0..m PROVE h[i] = f[i] + p[i]
    BY <1>7, SMT
  <2>2. ASSUME NEW i \in 0..n PROVE h[m + i] = g[i]
    <3>1. CASE i = 0
      <4>1. h[m] = f[m] + p[m]
        BY <2>1, SMT
      <4> QED
        BY <1>2, <1>3, <1>6, <3>1, <4>1, SMT
    <3>2. CASE i # 0
      <4>1. m + i \in 0..(m + n) /\ ~(m + i <= m) /\ (m + i) - m = i
        BY <3>2, SMT
      <4> QED
        BY <1>7, <4>1
    <3> QED
      BY <3>1, <3>2
  <2> QED
    BY <2>1, <2>2
<1>9. h \in [0..(m + n) -> Nat]
  <2>1. ASSUME NEW i \in 0..(m + n) PROVE h[i] \in Nat
    <3>1. CASE i <= m
      <4>1. i \in 0..m
        BY <3>1, SMT
      <4>2. h[i] = f[i] + p[i] /\ f[i] \in Nat /\ p[i] \in Nat
        BY <1>3, <1>6, <1>8, <4>1
      <4> QED
        BY <4>2, SMT
    <3>2. CASE ~(i <= m)
      <4>1. i - m \in 0..n /\ m + (i - m) = i
        BY <3>2, SMT
      <4> QED
        BY <1>4, <1>8, <4>1
    <3> QED
      BY <3>1, <3>2
  <2> QED
    BY <1>7, <2>1
<1>10. ASSUME NEW i \in 1..(m + n) PROVE h[i - 1] = 2 * h[i] + W[a + i]
  <2>1. W[a + i] \in {0, 1}
    BY SMT DEF Bits
  <2>2. CASE i <= m
    <3>1. i \in 1..m /\ i \in 0..m /\ i - 1 \in 0..m
      BY <2>2, SMT
    <3>2. f[i - 1] = 2 * f[i] + W[a + i] /\ p[i - 1] = 2 * p[i]
          /\ f[i] \in Nat /\ p[i] \in Nat
      BY <1>3, <1>6, <3>1
    <3>3. h[i - 1] = f[i - 1] + p[i - 1] /\ h[i] = f[i] + p[i]
      BY <1>8, <3>1
    <3> QED
      BY <2>1, <3>2, <3>3, SMT
  <2>3. CASE ~(i <= m)
    <3>1. PICK j : j = i - m
      OBVIOUS
    <3>2. j \in 1..n /\ j \in 0..n /\ j - 1 \in 0..n /\ m + j = i /\ m + (j - 1) = i - 1
          /\ a + m + j = a + i
      BY <2>3, <3>1, SMT
    <3>3. g[j - 1] = 2 * g[j] + W[a + m + j]
      BY <1>4, <3>2
    <3>4. h[i] = g[j] /\ h[i - 1] = g[j - 1]
      BY <1>8, <3>2
    <3> QED
      BY <3>2, <3>3, <3>4
  <2> QED
    BY <2>2, <2>3
<1>11. h[m + n] = 0 /\ h[0] = x + y * Pow2[m]
  <2>1. n \in 0..n /\ 0 \in 0..m
    BY SMT
  <2> QED
    BY <1>1, <1>4, <1>6, <1>8, <2>1
<1>12. Halves(h, W, a, m + n)
  BY <1>9, <1>10, <1>11, Zenon DEF Halves
<1> QED
  BY <1>11, <1>12, Zenon DEF Spells

\* Quotient and rest of a number that is made of them.
LEMMA DivisionWithRest ==
    ASSUME NEW p \in Nat, NEW q \in Nat, NEW r \in Nat, r < p, NEW z, z = r + q * p
    PROVE  z % p = r /\ z \div p = q
<1>1. z \in Nat /\ p > 0
  BY SMT
<1>2. PICK d : d = z \div p
  OBVIOUS
<1>3. PICK s : s = z % p
  OBVIOUS
<1>4. d \in Int /\ s \in 0..(p - 1) /\ z = p * d + s
  BY <1>1, <1>2, <1>3, SMT
<1>5. d = q
  <2>1. CASE d > q
    <3>1. p * (q + 1) <= p * d
      BY <1>1, <1>4, <2>1, SMT
    <3>2. p * (q + 1) = q * p + p
      BY SMT
    <3> QED
      BY <1>4, <3>1, <3>2, SMT
  <2>2. CASE d < q
    <3>1. p * (d + 1) <= q * p
      BY <1>1, <1>4, <2>2, SMT
    <3>2. p * (d + 1) = p * d + p
      BY <1>4, SMT
    <3> QED
      BY <1>4, <3>1, <3>2, SMT
  <2> QED
    BY <1>4, <2>1, <2>2, SMT
<1>6. s = r
  BY <1>4, <1>5, SMT
<1> QED
  BY <1>2, <1>3, <1>5, <1>6

\* The lowest m bits of a number, and the number above them.
LEMMA SpellsSplit ==
    ASSUME NEW W \in Bits, NEW a \in Nat, NEW m \in 0..16, NEW n \in Nat, NEW z,
           Spells(W, a, m + n, z)
    PROVE  Spells(W, a, m, z % Pow2[m]) /\ Spells(W, a + m, n, z \div Pow2[m])
<1>1. PICK h : Halves(h, W, a, m + n) /\ h[0] = z
  BY Zenon DEF Spells
<1>2. /\ h \in [0..(m + n) -> Nat] /\ h[m + n] = 0
      /\ \A i \in 1..(m + n) : h[i - 1] = 2 * h[i] + W[a + i]
  BY <1>1, Zenon DEF Halves
<1>3. PICK q : q = h[m]
  OBVIOUS
<1>4. q \in Nat
  BY <1>2, <1>3, SMT
<1>5. PICK g : g = [i \in 0..m |-> h[i] - q * Pow2[m - i]]
  OBVIOUS
<1>6. g[m] = 0
  <2>1. m \in 0..m /\ m - m = 0
    BY SMT
  <2>2. g[m] = h[m] - q * Pow2[0]
    BY <1>5, <2>1
  <2> QED
    BY <1>3, <1>4, <2>2, Powers, SMT
<1>7. ASSUME NEW i \in 1..m PROVE g[i - 1] = 2 * g[i] + W[a + i]
  <2>1. PICK k : k = m - i
    OBVIOUS
  <2>2. k + 1 \in 1..16 /\ m - (i - 1) = k + 1 /\ (k + 1) - 1 = k /\ k \in 0..16
        /\ i \in 0..m /\ i - 1 \in 0..m /\ i \in 1..(m + n) /\ i \in 0..(m + n)
        /\ i - 1 \in 0..(m + n)
    BY <2>1, SMT
  <2>3. Pow2[k + 1] = 2 * Pow2[k] /\ Pow2[k] \in Nat
    BY <2>2, Powers
  <2>4. g[i] = h[i] - q * Pow2[k] /\ g[i - 1] = h[i - 1] - q * Pow2[k + 1]
    BY <1>5, <2>1, <2>2
  <2>5. h[i - 1] = 2 * h[i] + W[a + i] /\ h[i] \in Nat /\ h[i - 1] \in Nat
    BY <1>2, <2>2
  <2>6. W[a + i] \in {0, 1}
    BY SMT DEF Bits
  <2>7. PICK t : t = q * Pow2[k]
    OBVIOUS
  <2>8. t \in Int /\ q * Pow2[k + 1] = 2 * t
    BY <1>4, <2>3, <2>7, SMT
  <2> QED
    BY <2>4, <2>5, <2>6, <2>7, <2>8, SMT
<1> DEFINE P == {j \in 0..m : g[m - j] \in Nat}
<1>8. 0 \in P
  <2>1. m - 0 = m
    BY SMT
  <2> QED
    BY <1>6, <2>1, SMT
<1>9. ASSUME NEW j \in 1..m, j - 1 \in P PROVE j \in P
  <2>1. PICK i : i = m - j + 1
    OBVIOUS
  <2>2. i \in 1..m /\ m - (j - 1) = i /\ m - j = i - 1
    BY <2>1, SMT
  <2>3. g[i] \in Nat /\ g[i - 1] = 2 * g[i] + W[a + i]
    BY <1>7, <1>9, <2>2
  <2>4. W[a + i] \in {0, 1}
    BY <2>2, SMT DEF Bits
  <2>5. g[i - 1] \in Nat
    BY <2>3, <2>4, SMT
  <2> QED
    BY <2>2, <2>5, SMT
<1>10. \A j \in 0..m : j \in P
  <2> HIDE DEF P
  <2>1. m \in Nat
    BY SMT
  <2> QED
    BY <1>8, <1>9, <2>1, Induction
<1>11. g \in [0..m -> Nat]
  <2>1. ASSUME NEW i \in 0..m PROVE g[i] \in Nat
    <3>1. m - i \in 0..m /\ m - (m - i) = i
      BY SMT
    <3> QED
      BY <1>10, <3>1
  <2> QED
    BY <1>5, <2>1
<1>12. Halves(g, W, a, m)
  BY <1>6, <1>7, <1>11, Zenon DEF Halves
<1>13. Spells(W, a, m, g[0])
  BY <1>12, Zenon DEF Spells
<1>14. g[0] \in Nat /\ g[0] < Pow2[m]
  BY <1>13, SpellsBelow
<1>15. z = g[0] + q * Pow2[m]
  <2>1. 0 \in 0..m /\ m - 0 = m /\ 0 \in 0..(m + n)
    BY SMT
  <2>2. g[0] = z - q * Pow2[m] /\ z \in Nat
    BY <1>1, <1>2, <1>5, <2>1
  <2>3. Pow2[m] \in Nat
    BY Powers
  <2> QED
    BY <1>4, <2>2, <2>3, SMT
<1>16. z % Pow2[m] = g[0] /\ z \div Pow2[m] = q
  <2>1. Pow2[m] \in Nat
    BY Powers
  <2> QED
    BY <1>4, <1>14, <1>15, <2>1, DivisionWithRest
<1>17. PICK f : f = [i \in 0..n |-> h[m + i]]
  OBVIOUS
<1>18. Halves(f, W, a + m, n)
  <2>1. ASSUME NEW i \in 0..n PROVE f[i] \in Nat
    BY <1>2, <1>17, SMT
  <2>2. ASSUME NEW i \in 1..n PROVE f[i - 1] = 2 * f[i] + W[a + m + i]
    <3>1. m + i \in 1..(m + n) /\ (m + i) - 1 = m + (i - 1) /\ a + (m + i) = a + m + i
          /\ i \in 0..n /\ i - 1 \in 0..n
      BY SMT
    <3>2. h[(m + i) - 1] = 2 * h[m + i] + W[a + (m + i)]
      BY <1>2, <3>1
    <3> QED
      BY <1>17, <3>1, <3>2
  <2>3. f[n] = 0
    BY <1>2, <1>17, SMT
  <2>4. f \in [0..n -> Nat]
    BY <1>17, <2>1
  <2> QED
    BY <2>2, <2>3, <2>4, Zenon DEF Halves
<1>19. f[0] = q
  BY <1>3, <1>17, SMT
<1>20. Spells(W, a + m, n, q)
  BY <1>18, <1>19, Zenon DEF Spells
<1> QED
  BY <1>13, <1>16, <1>20

\* Every number below a power of two can be spelled behind the bits there are.
LEMMA SpellsAll ==
    ASSUME NEW W \in Bits, NEW a \in Nat, NEW n \in 0..16, NEW x \in Nat, x < Pow2[n]
    PROVE  \E V \in Bits : (\A i \in 0..a : V[i] = W[i]) /\ Spells(V, a, n, x)
<1>1. PICK F : F = [i \in 1..n |-> [y \in Nat |-> y \div 2]]
  OBVIOUS
<1>2. F \in Steps(n, Nat)
  BY <1>1, SMT DEF Steps
<1>3. PICK h : Follows(h, n, Nat, x, F)
  <2>1. n \in Nat
    BY SMT
  <2> QED
    BY <1>2, <2>1, Recursion, Zenon
<1>4. /\ h \in [0..n -> Nat] /\ h[0] = x
      /\ \A i \in 1..n : h[i] = F[i][h[i - 1]]
  BY <1>3, Zenon DEF Follows
<1>5. ASSUME NEW i \in 1..n PROVE h[i] = h[i - 1] \div 2 /\ h[i - 1] \in Nat
  <2>1. h[i - 1] \in Nat
    BY <1>4, SMT
  <2> QED
    BY <1>1, <1>4, <2>1, SMTT(30)
<1>6. h[n] = 0
  <2> DEFINE P == {j \in 0..n : h[j] < Pow2[n - j]}
  <2>1. 0 \in P
    <3>1. n - 0 = n
      BY SMT
    <3> QED
      BY <1>4, <3>1, SMT
  <2>2. ASSUME NEW j \in 1..n, j - 1 \in P PROVE j \in P
    <3>1. PICK k : k = n - j
      OBVIOUS
    <3>2. k + 1 \in 1..16 /\ n - (j - 1) = k + 1 /\ (k + 1) - 1 = k /\ k \in 0..16 /\ j \in 0..n
      BY <3>1, SMT
    <3>3. Pow2[k + 1] = 2 * Pow2[k] /\ Pow2[k] \in Nat
      BY <3>2, Powers
    <3>4. h[j - 1] < Pow2[k + 1]
      BY <2>2, <3>2
    <3>5. h[j] = h[j - 1] \div 2 /\ h[j - 1] \in Nat
      BY <1>5
    <3>6. h[j] < Pow2[k]
      BY <3>3, <3>4, <3>5, SMT
    <3> QED
      BY <3>1, <3>2, <3>6
  <2>3. n \in P
    <3> HIDE DEF P
    <3>1. n \in Nat /\ n \in 0..n
      BY SMT
    <3>2. \A j \in 0..n : j \in P
      BY <2>1, <2>2, <3>1, Induction
    <3> QED
      BY <3>1, <3>2
  <2>4. h[n] < Pow2[0]
    <3>1. n - n = 0
      BY SMT
    <3> QED
      BY <2>3, <3>1
  <2>5. h[n] \in Nat
    BY <1>4, SMT
  <2> QED
    BY <2>4, <2>5, Powers, SMT
<1>7. PICK V : V = [i \in Nat |-> IF i \in (a + 1)..(a + n) THEN h[i - a - 1] % 2 ELSE W[i]]
  OBVIOUS
<1>8. V \in Bits
  <2>1. ASSUME NEW i \in Nat PROVE V[i] \in {0, 1}
    <3>1. CASE i \in (a + 1)..(a + n)
      <4>1. i - a - 1 \in 0..n
        BY <3>1, SMT
      <4>2. h[i - a - 1] \in Nat
        BY <1>4, <4>1
      <4>3. V[i] = h[i - a - 1] % 2
        BY <1>7, <3>1
      <4> QED
        BY <4>2, <4>3, SMT
    <3>2. CASE i \notin (a + 1)..(a + n)
      BY <1>7, <3>2, SMT DEF Bits
    <3> QED
      BY <3>1, <3>2
  <2> QED
    BY <1>7, <2>1, SMT DEF Bits
<1>9. ASSUME NEW i \in 1..n PROVE h[i - 1] = 2 * h[i] + V[a + i]
  <2>1. a + i \in Nat /\ a + i \in (a + 1)..(a + n) /\ (a + i) - a - 1 = i - 1
    BY SMT
  <2>2. V[a + i] = h[i - 1] % 2
    BY <1>7, <2>1
  <2> QED
    BY <1>5, <2>2, SMT
<1>10. Halves(h, V, a, n)
  BY <1>4, <1>6, <1>9, Zenon DEF Halves
<1>11. Spells(V, a, n, x)
  BY <1>4, <1>10, Zenon DEF Spells
<1>12. ASSUME NEW i \in 0..a PROVE V[i] = W[i]
  <2>1. i \in Nat /\ i \notin (a + 1)..(a + n)
    BY SMT
  <2> QED
    BY <1>7, <2>1
<1> QED
  BY <1>8, <1>11, <1>12

-----------------------------------------------------------------------------
(* The image: bytes and blocks                                             *)

Lzw(Blocks) == [accum : Nat, cur_bits : Int, n_bits : Nat, maxcode : Nat,
                clear_flg : BOOLEAN, free_ent : Nat, block : Blocks]

LzwTypes == Lzw(Seq(Nat))

IsState(s) == /\ s.l \in LzwTypes
              /\ s.out.data \in Seq(Nat) /\ s.out.err \in BOOLEAN

\* What the widths of the codes depend on is the same.
SameControl(s, t) == /\ t.l.n_bits = s.l.n_bits /\ t.l.maxcode = s.l.maxcode
                     /\ t.l.clear_flg = s.l.clear_flg /\ t.l.free_ent = s.l.free_ent

\* Where the n data bytes B are in the stream, each at pos, and how many of its
\* block are behind it.
Layout(data, d, B, pos, rest, n) ==
    /\ pos \in [Nat -> Nat] /\ rest \in [Nat -> Nat]
    /\ pos[0] = 0 /\ rest[0] = 0 /\ pos[n] = d /\ rest[n] = 0
    /\ \A i \in 1..n : /\ pos[i] \in 1..d /\ data[pos[i]] = B[i]
                       /\ pos[i] + rest[i] <= d
    /\ \A i \in 1..n : \/ /\ rest[i - 1] > 0
                          /\ pos[i] = pos[i - 1] + 1 /\ rest[i] = rest[i - 1] - 1
                       \/ /\ rest[i - 1] = 0
                          /\ pos[i] = pos[i - 1] + 2 /\ data[pos[i - 1] + 1] = rest[i] + 1

\* The bytes: in blocks, and in the block that is being filled.
Stream(data, block, B, q) ==
    \E n, pos, rest : /\ n \in Nat /\ q = n + Len(block)
                      /\ Layout(data, Len(data), B, pos, rest, n)
                      /\ \A i \in 1..Len(block) : block[i] = B[n + i]

\* The bits W as bytes, q of them, and m bits that wait.
Holds(s, W, q, m) ==
    \E B \in [Nat -> Nat] : /\ \A i \in 1..q : Spells(W, 8 * (i - 1), 8, B[i])
                            /\ Spells(W, 8 * q, m, s.l.accum)
                            /\ s.out.err \/ Stream(s.out.data, s.l.block, B, q)

Behind(all, data, k, block) == all = (data \o <<k>>) \o block /\ k = Len(block)

Extends(all, e, data, d, k, block) ==
    /\ e = d + 1 + k
    /\ \A i \in 1..d : all[i] = data[i]
    /\ all[d + 1] = k
    /\ \A i \in 1..k : all[d + 1 + i] = block[i]

\* A length and a block behind a stream extend it by that block.
LEMMA BlockBehind ==
    ASSUME NEW data \in Seq(Nat), NEW block \in Seq(Nat), NEW k \in Nat, NEW all,
           Behind(all, data, k, block)
    PROVE  Extends(all, Len(all), data, Len(data), k, block)
<1>1. PICK b : b = data \o <<k>>
  OBVIOUS
<1>2. k = Len(block) /\ all = (data \o <<k>>) \o block
  BY Zenon DEF Behind
<1>3. b = Append(data, k)
  BY <1>1, SMT
<1>4. b \in Seq(Nat) /\ Len(b) = Len(data) + 1 /\ b[Len(data) + 1] = k
      /\ \A i \in 1..Len(data) : b[i] = data[i]
  BY <1>3, AppendProperties
<1>5. all = b \o block
  BY <1>1, <1>2
<1>6. /\ Len(all) = Len(b) + Len(block)
      /\ \A i \in 1..(Len(b) + Len(block)) :
             all[i] = IF i <= Len(b) THEN b[i] ELSE block[i - Len(b)]
  <2>1. b \in Seq(Nat) /\ block \in Seq(Nat)
    BY <1>4
  <2> HIDE <1>5
  <2>2. /\ Len(b \o block) = Len(b) + Len(block)
        /\ \A i \in 1..(Len(b) + Len(block)) :
               (b \o block)[i] = IF i <= Len(b) THEN b[i] ELSE block[i - Len(b)]
    BY <2>1, ConcatProperties, Zenon
  <2> QED
    BY <1>5, <2>2, Zenon
<1>7. PICK d : d = Len(data)
  OBVIOUS
<1>8. d \in Nat
  BY <1>7
<1>9. /\ Len(all) = d + 1 + k
      /\ \A i \in 1..(d + 1 + k) : all[i] = IF i <= d + 1 THEN b[i] ELSE block[i - (d + 1)]
  BY <1>2, <1>4, <1>6, <1>7
<1>10. b[d + 1] = k /\ \A i \in 1..d : b[i] = data[i]
  BY <1>4, <1>7
<1>11. /\ \A i \in 1..d : all[i] = data[i]
       /\ all[d + 1] = k
       /\ \A i \in 1..k : all[d + 1 + i] = block[i]
  <2>1. ASSUME NEW i \in 1..d PROVE all[i] = data[i]
    <3>1. i \in 1..(d + 1 + k) /\ i <= d + 1
      BY <1>8, SMT
    <3> QED
      BY <1>9, <1>10, <3>1
  <2>2. all[d + 1] = k
    <3>1. d + 1 \in 1..(d + 1 + k) /\ d + 1 <= d + 1
      BY <1>8, SMT
    <3> QED
      BY <1>9, <1>10, <3>1
  <2>3. ASSUME NEW i \in 1..k PROVE all[d + 1 + i] = block[i]
    <3>1. PICK j : j = d + 1 + i
      OBVIOUS
    <3>2. j \in 1..(d + 1 + k) /\ ~(j <= d + 1) /\ j - (d + 1) = i
      BY <1>8, <3>1, SMT
    <3>3. all[j] = block[j - (d + 1)]
      BY <1>9, <3>2, Zenon
    <3> QED
      BY <3>1, <3>2, <3>3, Zenon
  <2> QED
    BY <2>1, <2>2, <2>3
<1>12. Extends(all, Len(all), data, d, k, block)
  BY <1>9, <1>11, Zenon DEF Extends
<1> QED
  BY <1>7, <1>12

\* The layout of a stream goes on with the block that extends it.
LEMMA LayoutGrows ==
    ASSUME NEW data, NEW all, NEW d \in Nat, NEW k \in Nat, k > 0, NEW e, NEW block,
           NEW B \in [Nat -> Nat], NEW pos, NEW rest, NEW n \in Nat,
           Layout(data, d, B, pos, rest, n), Extends(all, e, data, d, k, block),
           \A i \in 1..k : block[i] = B[n + i]
    PROVE  \E p, r : Layout(all, e, B, p, r, n + k)
<1>1. e = d + 1 + k
  BY Zenon DEF Extends
<1>2. /\ \A i \in 1..d : all[i] = data[i]
      /\ all[d + 1] = k
      /\ \A i \in 1..k : all[d + 1 + i] = B[n + i]
  BY Zenon DEF Extends
<1>4. /\ pos \in [Nat -> Nat] /\ rest \in [Nat -> Nat]
      /\ pos[0] = 0 /\ rest[0] = 0 /\ pos[n] = d /\ rest[n] = 0
      /\ \A i \in 1..n : /\ pos[i] \in 1..d /\ data[pos[i]] = B[i]
                         /\ pos[i] + rest[i] <= d
      /\ \A i \in 1..n : \/ /\ rest[i - 1] > 0
                            /\ pos[i] = pos[i - 1] + 1 /\ rest[i] = rest[i - 1] - 1
                         \/ /\ rest[i - 1] = 0
                            /\ pos[i] = pos[i - 1] + 2 /\ data[pos[i - 1] + 1] = rest[i] + 1
  BY Zenon DEF Layout
<1>6. PICK p : p = [i \in Nat |-> IF i <= n THEN pos[i] ELSE d + 1 + (i - n)]
  OBVIOUS
<1>7. PICK r : r = [i \in Nat |-> IF i <= n THEN rest[i] ELSE IF i <= n + k THEN k - (i - n) ELSE 0]
  OBVIOUS
<1>8. \A i \in 0..n : p[i] = pos[i] /\ r[i] = rest[i]
  BY <1>6, <1>7, SMT
<1>9. \A i \in 1..k : p[n + i] = d + 1 + i /\ r[n + i] = k - i
  BY <1>6, <1>7, SMT
<1>10. p \in [Nat -> Nat]
  <2>1. ASSUME NEW i \in Nat PROVE p[i] \in Nat
    <3>1. pos[i] \in Nat
      BY <1>4
    <3> QED
      BY <1>6, <3>1, SMT
  <2> QED
    BY <1>6, <2>1
<1>11. r \in [Nat -> Nat]
  <2>1. ASSUME NEW i \in Nat PROVE r[i] \in Nat
    <3>1. rest[i] \in Nat
      BY <1>4
    <3> QED
      BY <1>7, <3>1, SMT
  <2> QED
    BY <1>7, <2>1
<1>12. p[0] = 0 /\ r[0] = 0 /\ p[n + k] = e /\ r[n + k] = 0
  BY <1>1, <1>4, <1>8, <1>9, SMT
<1>13. ASSUME NEW i \in 1..(n + k)
       PROVE  /\ p[i] \in 1..e /\ all[p[i]] = B[i] /\ p[i] + r[i] <= e
              /\ \/ /\ r[i - 1] > 0 /\ p[i] = p[i - 1] + 1 /\ r[i] = r[i - 1] - 1
                 \/ /\ r[i - 1] = 0
                    /\ p[i] = p[i - 1] + 2 /\ all[p[i - 1] + 1] = r[i] + 1
  <2>1. CASE i <= n
    <3>1. i \in 1..n /\ i \in 0..n /\ i - 1 \in 0..n
      BY <2>1, SMT
    <3>2. p[i] = pos[i] /\ r[i] = rest[i] /\ p[i - 1] = pos[i - 1] /\ r[i - 1] = rest[i - 1]
      BY <1>8, <3>1
    <3>3. pos[i] \in 1..d /\ data[pos[i]] = B[i] /\ pos[i] + rest[i] <= d
      BY <1>4, <3>1
    <3>4. all[pos[i]] = data[pos[i]]
      BY <1>2, <3>3
    <3>5. p[i] \in 1..e /\ all[p[i]] = B[i] /\ p[i] + r[i] <= e
      <4>1. rest[i] \in Nat
        BY <1>4, <3>1, SMT
      <4> QED
        BY <1>1, <3>2, <3>3, <3>4, <4>1, SMT
    <3>6. CASE rest[i - 1] > 0
      BY <1>4, <3>1, <3>2, <3>5, <3>6
    <3>7. CASE ~(rest[i - 1] > 0)
      <4>1. rest[i - 1] = 0 /\ pos[i] = pos[i - 1] + 2 /\ data[pos[i - 1] + 1] = rest[i] + 1
        BY <1>4, <3>1, <3>7
      <4>2. pos[i - 1] \in Nat
        BY <1>4, <3>1, SMT
      <4>3. pos[i - 1] + 1 \in 1..d
        BY <3>3, <4>1, <4>2, SMT
      <4>4. all[pos[i - 1] + 1] = data[pos[i - 1] + 1]
        BY <1>2, <4>3
      <4> QED
        BY <3>2, <3>5, <4>1, <4>4
    <3> QED
      BY <3>6, <3>7
  <2>2. CASE ~(i <= n)
    <3>1. PICK j : j = i - n
      OBVIOUS
    <3>2. j \in 1..k /\ n + j = i
      BY <2>2, <3>1, SMT
    <3>3. p[i] = d + 1 + j /\ r[i] = k - j
      BY <1>9, <3>2
    <3>4. all[d + 1 + j] = B[i]
      BY <1>2, <3>2
    <3>5. p[i] \in 1..e /\ all[p[i]] = B[i] /\ p[i] + r[i] <= e
      BY <1>1, <3>2, <3>3, <3>4, SMT
    <3>6. CASE j = 1
      <4>1. i - 1 = n /\ n \in 0..n
        BY <3>2, <3>6, SMT
      <4>2. p[i - 1] = d /\ r[i - 1] = 0
        BY <1>4, <1>8, <4>1
      <4>3. p[i] = p[i - 1] + 2 /\ all[p[i - 1] + 1] = r[i] + 1
        BY <1>2, <3>3, <3>6, <4>2, SMT
      <4> QED
        BY <3>5, <4>2, <4>3
    <3>7. CASE j # 1
      <4>1. j - 1 \in 1..k /\ n + (j - 1) = i - 1
        BY <3>2, <3>7, SMT
      <4>2. p[i - 1] = d + 1 + (j - 1) /\ r[i - 1] = k - (j - 1)
        BY <1>9, <4>1
      <4>3. r[i - 1] > 0 /\ p[i] = p[i - 1] + 1 /\ r[i] = r[i - 1] - 1
        BY <3>2, <3>3, <4>2, SMT
      <4> QED
        BY <3>5, <4>3
    <3> QED
      BY <3>6, <3>7
  <2> QED
    BY <2>1, <2>2
<1>14. Layout(all, e, B, p, r, n + k)
  BY <1>10, <1>11, <1>12, <1>13, Zenon DEF Layout
<1> QED
  BY <1>1, <1>14, Zenon

\* Bytes beyond the stream do not matter.
LEMMA LayoutFrame ==
    ASSUME NEW data, NEW d, NEW B, NEW D, NEW pos, NEW rest, NEW n \in Nat,
           Layout(data, d, B, pos, rest, n), \A i \in 1..n : D[i] = B[i]
    PROVE  Layout(data, d, D, pos, rest, n)
BY Zenon DEF Layout

\* One more byte in the block.
LEMMA StreamAppends ==
    ASSUME NEW data, NEW block \in Seq(Nat), NEW B \in [Nat -> Nat], NEW q \in Nat, NEW b \in Nat,
           Stream(data, block, B, q)
    PROVE  Stream(data, Append(block, b), [B EXCEPT ![q + 1] = b], q + 1)
<1>1. PICK n, pos, rest : /\ n \in Nat /\ q = n + Len(block)
                          /\ Layout(data, Len(data), B, pos, rest, n)
                          /\ \A i \in 1..Len(block) : block[i] = B[n + i]
  BY Zenon DEF Stream
<1>2. PICK D : D = [B EXCEPT ![q + 1] = b]
  OBVIOUS
<1>3. q + 1 \in Nat /\ Len(block) \in Nat
  BY SMT
<1>4. D[q + 1] = b /\ \A i \in Nat : i # q + 1 => D[i] = B[i]
  BY <1>2, <1>3, SMT
<1>5. Layout(data, Len(data), D, pos, rest, n)
  <2>1. ASSUME NEW i \in 1..n PROVE D[i] = B[i]
    <3>1. n \in Nat /\ q = n + Len(block)
      BY <1>1
    <3>2. i \in Nat /\ i # q + 1
      BY <1>3, <3>1, SMT
    <3> QED
      BY <1>4, <3>2
  <2> QED
    BY <1>1, <2>1, LayoutFrame
<1>6. PICK more : more = Append(block, b)
  OBVIOUS
<1>7. /\ Len(more) = Len(block) + 1 /\ more[Len(block) + 1] = b
      /\ \A i \in 1..Len(block) : more[i] = block[i]
  BY <1>6, SMT
<1>8. ASSUME NEW i \in 1..Len(more) PROVE more[i] = D[n + i]
  <2>1. CASE i = Len(block) + 1
    <3>1. n + i = q + 1
      BY <1>1, <1>3, <2>1, SMT
    <3> QED
      BY <1>4, <1>7, <2>1, <3>1
  <2>2. CASE i # Len(block) + 1
    <3>2. n \in Nat /\ q = n + Len(block) /\ i \in 1..(Len(block) + 1)
      BY <1>1, <1>7
    <3>3. PICK c \in Nat : c = Len(block)
      BY <1>3
    <3>4. q = n + c /\ i \in 1..(c + 1) /\ i # c + 1
      BY <2>2, <3>2, <3>3
    <3>5. i \in 1..c /\ n + i \in Nat /\ n + i # q + 1
      BY <3>2, <3>4, SMT
    <3>1. i \in 1..Len(block) /\ n + i \in Nat /\ n + i # q + 1
      BY <3>3, <3>5
    <3> QED
      BY <1>1, <1>4, <1>7, <3>1
  <2> QED
    BY <2>1, <2>2
<1>9. q + 1 = n + Len(more)
  BY <1>1, <1>3, <1>7, SMT
<1>10. Stream(data, more, D, q + 1)
  <2>1. n \in Nat
    BY <1>1
  <2> QED
    BY <1>5, <1>8, <1>9, <2>1, Zenon DEF Stream
<1> QED
  BY <1>2, <1>6, <1>10

\* A block that is done is behind the others.
LEMMA StreamFlushes ==
    ASSUME NEW data \in Seq(Nat), NEW block \in Seq(Nat), block # <<>>, NEW B \in [Nat -> Nat],
           NEW q \in Nat, Stream(data, block, B, q)
    PROVE  Stream((data \o <<Len(block)>>) \o block, <<>>, B, q)
<1>1. PICK n, pos, rest : /\ n \in Nat /\ q = n + Len(block)
                          /\ Layout(data, Len(data), B, pos, rest, n)
                          /\ \A i \in 1..Len(block) : block[i] = B[n + i]
  BY Zenon DEF Stream
<1>2. PICK k : k = Len(block)
  OBVIOUS
<1>3. k > 0 /\ k \in Nat
  BY <1>2, SMT
<1>4. PICK all : all = (data \o <<k>>) \o block
  OBVIOUS
<1>20. Extends(all, Len(all), data, Len(data), k, block)
  <2>1. Behind(all, data, k, block)
    BY <1>2, <1>4, Zenon DEF Behind
  <2>2. k \in Nat
    BY <1>3
  <2> QED
    BY <2>1, <2>2, BlockBehind, Zenon
<1>21. PICK d \in Nat : d = Len(data)
  OBVIOUS
<1>22. PICK e : e = Len(all)
  OBVIOUS
<1>5. \E p, r : Layout(all, e, B, p, r, n + k)
  <2>1. n \in Nat /\ Layout(data, d, B, pos, rest, n) /\ \A i \in 1..k : block[i] = B[n + i]
    BY <1>1, <1>2, <1>21
  <2>2. Extends(all, e, data, d, k, block)
    BY <1>20, <1>21, <1>22
  <2> HIDE <1>2, <1>4, <1>21, <1>22
  <2> QED
    BY <1>3, <2>1, <2>2, LayoutGrows, Zenon
<1>51. PICK p, r : Layout(all, Len(all), B, p, r, n + k)
  BY <1>5, <1>22, Zenon
<1>6. PICK z : z = <<>>
  OBVIOUS
<1>7. Len(z) = 0
  BY <1>6
<1>8. q \in Nat /\ q = q + Len(z) /\ \A i \in 1..Len(z) : z[i] = B[q + i]
  BY <1>7, SMT
<1>9. Layout(all, Len(all), B, p, r, q)
  BY <1>1, <1>2, <1>51
<1>10. Stream(all, z, B, q)
  BY <1>8, <1>9, Zenon DEF Stream
<1> QED
  BY <1>2, <1>4, <1>6, <1>10

-----------------------------------------------------------------------------
(* The image: what lzw_output does to the bits                             *)

\* The types of the fields of lzw_t.
LEMMA LzwFields ==
    ASSUME NEW l \in LzwTypes
    PROVE  /\ l.accum \in Nat /\ l.cur_bits \in Int /\ l.n_bits \in Nat /\ l.maxcode \in Nat
           /\ l.clear_flg \in BOOLEAN /\ l.free_ent \in Nat /\ l.block \in Seq(Nat)
<1>1. PICK S : S = Seq(Nat)
  OBVIOUS
<1>2. l \in [accum : Nat, cur_bits : Int, n_bits : Nat, maxcode : Nat,
              clear_flg : BOOLEAN, free_ent : Nat, block : S]
  BY <1>1, Zenon DEF LzwTypes, Lzw
<1>3. /\ l.accum \in Nat /\ l.cur_bits \in Int /\ l.n_bits \in Nat /\ l.maxcode \in Nat
      /\ l.clear_flg \in BOOLEAN /\ l.free_ent \in Nat /\ l.block \in S
  <2> HIDE <1>1
  <2> QED
    BY <1>2, SMT
<1> QED
  BY <1>1, <1>3

IsPacked(r, l, b, a, c) == r = [l EXCEPT !.block = b, !.accum = a, !.cur_bits = c]
HasBlock(r, l, b) == r = [l EXCEPT !.block = b]

\* The accumulator and the block change, what the widths depend on does not.
LEMMA LzwPacked ==
    ASSUME NEW l \in LzwTypes, NEW b \in Seq(Nat), NEW a \in Nat, NEW c \in Int, NEW r,
           IsPacked(r, l, b, a, c)
    PROVE  /\ r \in LzwTypes /\ r.block = b /\ r.accum = a /\ r.cur_bits = c
           /\ r.n_bits = l.n_bits /\ r.maxcode = l.maxcode /\ r.clear_flg = l.clear_flg
           /\ r.free_ent = l.free_ent
<1>1. PICK S : S = Seq(Nat)
  OBVIOUS
<1>2. l \in [accum : Nat, cur_bits : Int, n_bits : Nat, maxcode : Nat,
              clear_flg : BOOLEAN, free_ent : Nat, block : S]
  BY <1>1, Zenon DEF LzwTypes, Lzw
<1>3. b \in S
  BY <1>1
<1>13. r = [l EXCEPT !.block = b, !.accum = a, !.cur_bits = c]
  BY Zenon DEF IsPacked
<1>4. PICK x : x = [l EXCEPT !.block = b]
  OBVIOUS
<1>5. PICK y : y = [x EXCEPT !.accum = a]
  OBVIOUS
<1>6. PICK z : z = [y EXCEPT !.cur_bits = c]
  OBVIOUS
<1> HIDE <1>1
<1>7. x \in Lzw(S)
  BY <1>2, <1>3, <1>4, SMTT(30) DEF Lzw
<1>8. y \in Lzw(S)
  BY <1>5, <1>7, SMTT(30) DEF Lzw
<1>9. z \in Lzw(S)
  BY <1>6, <1>8, SMTT(30) DEF Lzw
<1>10. z = r
  BY <1>2, <1>4, <1>5, <1>6, <1>13, SMT
<1>11. /\ r.block = b /\ r.accum = a /\ r.cur_bits = c
       /\ r.n_bits = l.n_bits /\ r.maxcode = l.maxcode /\ r.clear_flg = l.clear_flg
       /\ r.free_ent = l.free_ent
  BY <1>2, <1>3, <1>13, SMT
<1> QED
  BY <1>1, <1>9, <1>10, <1>11, Zenon DEF LzwTypes

\* The block alone changes.
LEMMA LzwBlock ==
    ASSUME NEW l \in LzwTypes, NEW b \in Seq(Nat), NEW r, HasBlock(r, l, b)
    PROVE  /\ r \in LzwTypes /\ r.block = b /\ r.accum = l.accum /\ r.cur_bits = l.cur_bits
           /\ r.n_bits = l.n_bits /\ r.maxcode = l.maxcode /\ r.clear_flg = l.clear_flg
           /\ r.free_ent = l.free_ent
<1>1. PICK S : S = Seq(Nat)
  OBVIOUS
<1>2. l \in Lzw(S) /\ b \in S /\ r = [l EXCEPT !.block = b]
  BY <1>1, Zenon DEF LzwTypes, HasBlock
<1> HIDE <1>1
<1>3. r \in Lzw(S)
  BY <1>2, SMT DEF Lzw
<1>4. /\ r.block = b /\ r.accum = l.accum /\ r.cur_bits = l.cur_bits
      /\ r.n_bits = l.n_bits /\ r.maxcode = l.maxcode /\ r.clear_flg = l.clear_flg
      /\ r.free_ent = l.free_ent
  BY <1>2, SMT DEF Lzw
<1> QED
  BY <1>1, <1>3, <1>4, Zenon DEF LzwTypes

\* gbuf_put: either the bytes are behind the others, or the buffer is spoiled.
LEMMA PutBytes ==
    ASSUME NEW b, b.data \in Seq(Nat), NEW s \in Seq(Nat), NEW r, r = GbufPut(b, s)
    PROVE  /\ r.data \in Seq(Nat) /\ r.err \in BOOLEAN
           /\ ~r.err => ~b.err /\ r.data = b.data \o s
<1>1. PICK nc : nc = Capacity(b, Len(b.data) + Len(s))
  OBVIOUS
<1>2. r = IF b.err \/ nc > memory THEN [data |-> b.data, cap |-> b.cap, err |-> TRUE]
          ELSE [data |-> b.data \o s, cap |-> nc, err |-> FALSE]
  BY <1>1, Zenon DEF GbufPut
<1>3. CASE b.err \/ nc > memory
  <2>1. r = [data |-> b.data, cap |-> b.cap, err |-> TRUE]
    BY <1>2, <1>3, Zenon
  <2>2. r.data = b.data /\ r.err = TRUE
    BY <2>1, SMT
  <2> QED
    BY <2>2
<1>4. CASE ~(b.err \/ nc > memory)
  <2>1. r = [data |-> b.data \o s, cap |-> nc, err |-> FALSE]
    BY <1>2, <1>4, Zenon
  <2>2. r.data = b.data \o s /\ r.err = FALSE
    <3>1. PICK d : d = b.data \o s
      OBVIOUS
    <3>2. r = [data |-> d, cap |-> nc, err |-> FALSE]
      BY <2>1, <3>1
    <3>3. r.data = d /\ r.err = FALSE
      BY <3>2, SMT
    <3> QED
      BY <3>1, <3>3
  <2>3. b.data \o s \in Seq(Nat)
    BY ConcatProperties
  <2> QED
    BY <1>4, <2>2, <2>3
<1> QED
  BY <1>3, <1>4

\* The bits that wait are the same.
SameBits(s, t) == t.l.accum = s.l.accum /\ t.l.cur_bits = s.l.cur_bits

\* lzw_flush_block: the bits stay the same, and no byte waits any more.
LEMMA BlockFlushed ==
    ASSUME NEW s, IsState(s), NEW W, NEW q \in Nat, NEW m,
           Holds(s, W, q, m), NEW t, t = FlushBlock(s)
    PROVE  /\ IsState(t) /\ SameControl(s, t) /\ SameBits(s, t) /\ t.l.block = <<>>
           /\ Holds(t, W, q, m)
<1>1. /\ s.l \in LzwTypes
      /\ s.out.data \in Seq(Nat) /\ s.out.err \in BOOLEAN
  BY Zenon DEF IsState
<1>2. CASE s.l.block = <<>>
  <2>1. t = s
    BY <1>2 DEF FlushBlock
  <2> QED
    BY <1>2, <2>1 DEF SameControl, SameBits
<1>3. CASE s.l.block # <<>>
  <2>1. PICK b : b = s.l.block
    OBVIOUS
  <2>2. b \in Seq(Nat) /\ b # <<>>
    BY <1>1, <1>3, <2>1, LzwFields, Zenon
  <2>3. PICK o : o = GbufPut(s.out, <<Len(b)>>)
    OBVIOUS
  <2>4. PICK r : r = GbufPut(o, b)
    OBVIOUS
  <2>5. t = [l |-> [s.l EXCEPT !.block = <<>>], out |-> r]
    BY <1>3, <2>1, <2>3, <2>4, Zenon DEF FlushBlock
  <2>6. t.out = r /\ t.l = [s.l EXCEPT !.block = <<>>]
    <3>1. PICK l : l = [s.l EXCEPT !.block = <<>>]
      OBVIOUS
    <3>2. t = [l |-> l, out |-> r]
      BY <2>5, <3>1
    <3>3. t.out = r /\ t.l = l
      BY <3>2, SMT
    <3> QED
      BY <3>1, <3>3
  <2>7. t.l \in LzwTypes /\ t.l.block = <<>> /\ SameControl(s, t) /\ SameBits(s, t)
    <3>1. PICK e : e = <<>>
      OBVIOUS
    <3>2. PICK l : l = s.l
      OBVIOUS
    <3>3. PICK r2 : r2 = t.l
      OBVIOUS
    <3>4. e \in Seq(Nat) /\ l \in LzwTypes
      BY <1>1, <3>1, <3>2
    <3>5. HasBlock(r2, l, e)
      <4>1. r2 = [l EXCEPT !.block = e]
        BY <2>6, <3>1, <3>2, <3>3
      <4> QED
        BY <4>1, Zenon DEF HasBlock
    <3> HIDE <3>1, <3>2, <3>3
    <3>6. /\ r2 \in LzwTypes /\ r2.block = e /\ r2.accum = l.accum
          /\ r2.cur_bits = l.cur_bits
          /\ r2.n_bits = l.n_bits /\ r2.maxcode = l.maxcode
          /\ r2.clear_flg = l.clear_flg /\ r2.free_ent = l.free_ent
      BY <3>4, <3>5, LzwBlock, SMT
    <3> QED
      BY <3>1, <3>2, <3>3, <3>6 DEF SameControl, SameBits
  <2>8. Len(b) \in Nat /\ <<Len(b)>> \in Seq(Nat)
    BY <2>2
  <2>9. o.data \in Seq(Nat) /\ o.err \in BOOLEAN
        /\ (~o.err => ~s.out.err /\ o.data = s.out.data \o <<Len(b)>>)
    BY <1>1, <2>3, <2>8, PutBytes, Zenon
  <2>10. r.data \in Seq(Nat) /\ r.err \in BOOLEAN /\ (~r.err => ~o.err /\ r.data = o.data \o b)
    BY <2>2, <2>4, <2>9, PutBytes, Zenon
  <2>11. IsState(t)
    BY <2>6, <2>7, <2>10, Zenon DEF IsState
  <2>12. Holds(t, W, q, m)
    <3>1. PICK B \in [Nat -> Nat] :
             /\ \A i \in 1..q : Spells(W, 8 * (i - 1), 8, B[i])
             /\ Spells(W, 8 * q, m, s.l.accum)
             /\ s.out.err \/ Stream(s.out.data, s.l.block, B, q)
      BY Zenon DEF Holds
    <3>2. t.l.accum = s.l.accum
      BY <2>7, Zenon DEF SameBits
    <3>3. ASSUME ~t.out.err PROVE Stream(t.out.data, t.l.block, B, q)
      <4>1. r.data = (s.out.data \o <<Len(b)>>) \o b /\ ~s.out.err
        BY <2>6, <2>9, <2>10, <3>3
      <4>2. Stream(s.out.data, b, B, q)
        BY <2>1, <3>1, <4>1
      <4>3. Stream((s.out.data \o <<Len(b)>>) \o b, <<>>, B, q)
        BY <1>1, <2>2, <3>1, <4>2, StreamFlushes, Zenon
      <4> QED
        BY <2>6, <2>7, <4>1, <4>3, Zenon
    <3>4. t.out.err \/ Stream(t.out.data, t.l.block, B, q)
      BY <3>3, Zenon
    <3>5. Spells(W, 8 * q, m, t.l.accum)
      BY <3>1, <3>2
    <3> QED
      BY <3>1, <3>4, <3>5, Zenon DEF Holds
  <2> QED
    BY <2>7, <2>11, <2>12
<1> QED
  BY <1>2, <1>3

\* Eight bits become a byte.
LEMMA ByteSent ==
    ASSUME NEW s, IsState(s), NEW W \in Bits, NEW q \in Nat, NEW m \in Nat,
           Holds(s, W, q, 8 + m), NEW t, t = CharOut(s)
    PROVE  /\ IsState(t) /\ SameControl(s, t) /\ t.l.cur_bits = s.l.cur_bits - 8
           /\ Holds(t, W, q + 1, m)
<1>1. /\ s.l \in LzwTypes
      /\ s.out.data \in Seq(Nat) /\ s.out.err \in BOOLEAN
  BY Zenon DEF IsState
<1>2. PICK l : l = s.l
  OBVIOUS
<1>3. /\ l \in LzwTypes /\ l.accum \in Nat /\ l.cur_bits \in Int /\ l.block \in Seq(Nat)
  BY <1>1, <1>2, LzwFields
<1>4. PICK a : a = [l |-> [s.l EXCEPT !.block = Append(@, s.l.accum % 256),
                                      !.accum = @ \div 256, !.cur_bits = @ - 8],
                    out |-> s.out]
  OBVIOUS
<1>5. PICK b : b = l.accum % 256
  OBVIOUS
<1>6. PICK c : c = l.accum \div 256
  OBVIOUS
<1>7. b \in Nat /\ c \in Nat
  BY <1>3, <1>5, <1>6, SMT
<1>8. PICK bb : bb = Append(l.block, b)
  OBVIOUS
<1>9. bb \in Seq(Nat)
  BY <1>3, <1>7, <1>8, AppendProperties
<1>10. PICK cb : cb = l.cur_bits - 8
  OBVIOUS
<1>11. a.out = s.out /\ a.l = [l EXCEPT !.block = bb, !.accum = c, !.cur_bits = cb]
  <2>1. PICK r : r = [s.l EXCEPT !.block = Append(@, s.l.accum % 256),
                                 !.accum = @ \div 256, !.cur_bits = @ - 8]
    OBVIOUS
  <2>2. a = [l |-> r, out |-> s.out]
    BY <1>4, <2>1
  <2>3. a.l = r /\ a.out = s.out
    BY <2>2, SMT
  <2>4. r = [l EXCEPT !.block = Append(@, b), !.accum = @ \div 256, !.cur_bits = @ - 8]
    BY <1>2, <1>5, <2>1
  <2>5. l \in Lzw(Seq(Nat))
    BY <1>3, Zenon DEF LzwTypes
  <2>6. r = [l EXCEPT !.block = bb, !.accum = c, !.cur_bits = cb]
    <3> HIDE <1>5, <2>1
    <3> QED
      BY <1>6, <1>8, <1>10, <2>4, <2>5, SMT DEF Lzw
  <2> QED
    BY <2>3, <2>6
<1>12. /\ a.l \in LzwTypes /\ a.l.block = bb /\ a.l.accum = c /\ a.l.cur_bits = cb
       /\ a.l.n_bits = l.n_bits /\ a.l.maxcode = l.maxcode /\ a.l.clear_flg = l.clear_flg
       /\ a.l.free_ent = l.free_ent
  <2>1. cb \in Int
    BY <1>3, <1>10
  <2>2. PICK r : r = a.l
    OBVIOUS
  <2>3. IsPacked(r, l, bb, c, cb)
    BY <1>11, <2>2, Zenon DEF IsPacked
  <2>4. /\ r \in LzwTypes /\ r.block = bb /\ r.accum = c /\ r.cur_bits = cb
        /\ r.n_bits = l.n_bits /\ r.maxcode = l.maxcode /\ r.clear_flg = l.clear_flg
        /\ r.free_ent = l.free_ent
    BY <1>3, <1>7, <1>9, <2>1, <2>3, LzwPacked, SMT
  <2> QED
    BY <2>2, <2>4
<1>13. IsState(a)
  BY <1>1, <1>11, <1>12, Zenon DEF IsState
<1>14. SameControl(s, a)
  BY <1>2, <1>12, Zenon DEF SameControl
<1>15. Holds(a, W, q + 1, m)
  <2>1. PICK B \in [Nat -> Nat] :
           /\ \A i \in 1..q : Spells(W, 8 * (i - 1), 8, B[i])
           /\ Spells(W, 8 * q, 8 + m, s.l.accum)
           /\ s.out.err \/ Stream(s.out.data, s.l.block, B, q)
    BY Zenon DEF Holds
  <2>2. PICK D : D = [B EXCEPT ![q + 1] = b]
    OBVIOUS
  <2>3. /\ D \in [Nat -> Nat] /\ D[q + 1] = b /\ \A i \in 1..q : D[i] = B[i]
    BY <1>7, <2>2, SMT
  <2>4. Spells(W, 8 * q, 8, b) /\ Spells(W, 8 * q + 8, m, c)
    <3>1. 8 \in 0..16 /\ 8 * q \in Nat
      BY SMT
    <3>2. Spells(W, 8 * q, 8, s.l.accum % Pow2[8])
          /\ Spells(W, 8 * q + 8, m, s.l.accum \div Pow2[8])
      BY <2>1, <3>1, SpellsSplit
    <3> QED
      BY <1>2, <1>5, <1>6, <3>2, EightBits
  <2>5. ASSUME NEW i \in 1..(q + 1) PROVE Spells(W, 8 * (i - 1), 8, D[i])
    <3>1. CASE i = q + 1
      <4>1. i - 1 = q
        BY <3>1, SMT
      <4> QED
        BY <2>3, <2>4, <3>1, <4>1
    <3>2. CASE i # q + 1
      <4>1. i \in 1..q
        BY <3>2, SMT
      <4> QED
        BY <2>1, <2>3, <4>1
    <3> QED
      BY <3>1, <3>2
  <2>6. Spells(W, 8 * (q + 1), m, a.l.accum)
    <3>1. 8 * (q + 1) = 8 * q + 8
      BY SMT
    <3> QED
      BY <1>12, <2>4, <3>1
  <2>7. ASSUME ~a.out.err PROVE Stream(a.out.data, a.l.block, D, q + 1)
    <3>1. Stream(s.out.data, l.block, B, q)
      BY <1>2, <1>11, <2>1, <2>7
    <3>2. Stream(s.out.data, Append(l.block, b), D, q + 1)
      BY <1>3, <1>7, <2>1, <2>2, <3>1, StreamAppends
    <3> QED
      BY <1>8, <1>11, <1>12, <3>2
  <2>8. a.out.err \/ Stream(a.out.data, a.l.block, D, q + 1)
    BY <2>7, Zenon
  <2> QED
    BY <2>3, <2>5, <2>6, <2>8, Zenon DEF Holds
<1>16. t = IF Len(a.l.block) >= MaxBlock THEN FlushBlock(a) ELSE a
  BY <1>4, Zenon DEF CharOut
<1>17. CASE t = a
  BY <1>2, <1>10, <1>12, <1>13, <1>14, <1>15, <1>17
<1>18. CASE t = FlushBlock(a)
  <2>1. q + 1 \in Nat
    BY SMT
  <2>2. IsState(t) /\ SameControl(a, t) /\ SameBits(a, t) /\ Holds(t, W, q + 1, m)
    BY <1>13, <1>15, <1>18, <2>1, BlockFlushed, Zenon
  <2>3. SameControl(s, t)
    BY <1>14, <2>2, Zenon DEF SameControl
  <2>4. t.l.cur_bits = s.l.cur_bits - 8
    BY <1>2, <1>10, <1>12, <2>2 DEF SameBits
  <2> QED
    BY <2>2, <2>3, <2>4
<1> QED
  BY <1>16, <1>17, <1>18

\* The bits W, L of them, are in the stream, the block and the accumulator.
Sent(s, W, L) == \E q \in Nat : L = 8 * q + s.l.cur_bits /\ Holds(s, W, q, s.l.cur_bits)

\* Bits that are yet to come do not matter.
LEMMA HoldsFrame ==
    ASSUME NEW s, NEW W \in Bits, NEW V \in Bits, NEW q \in Nat, NEW m \in Nat,
           \A i \in 0..(8 * q + m) : V[i] = W[i], Holds(s, W, q, m)
    PROVE  Holds(s, V, q, m)
<1>1. PICK B \in [Nat -> Nat] :
         /\ \A i \in 1..q : Spells(W, 8 * (i - 1), 8, B[i])
         /\ Spells(W, 8 * q, m, s.l.accum)
         /\ s.out.err \/ Stream(s.out.data, s.l.block, B, q)
  BY Zenon DEF Holds
<1>2. ASSUME NEW i \in 1..q PROVE Spells(V, 8 * (i - 1), 8, B[i])
  <2>1. 8 * (i - 1) \in Nat /\ 8 \in Nat
    BY SMT
  <2>2. ASSUME NEW j \in 1..8 PROVE V[8 * (i - 1) + j] = W[8 * (i - 1) + j]
    <3>1. 8 * (i - 1) + j \in 0..(8 * q + m)
      BY SMT
    <3> QED
      BY <3>1
  <2>3. Spells(W, 8 * (i - 1), 8, B[i])
    BY <1>1
  <2> QED
    BY <2>1, <2>2, <2>3, SpellsFrame
<1>3. Spells(V, 8 * q, m, s.l.accum)
  <2>1. 8 * q \in Nat
    BY SMT
  <2>2. ASSUME NEW j \in 1..m PROVE V[8 * q + j] = W[8 * q + j]
    <3>1. 8 * q + j \in 0..(8 * q + m)
      BY SMT
    <3> QED
      BY <3>1
  <2>3. Spells(W, 8 * q, m, s.l.accum)
    BY <1>1
  <2> QED
    BY <2>1, <2>2, <2>3, SpellsFrame
<1> QED
  BY <1>1, <1>2, <1>3, Zenon DEF Holds

\* The first half of lzw_output: the code follows the bits sent so far, and less
\* than eight of them wait in the accumulator.
LEMMA CodePacked ==
    ASSUME NEW s, IsState(s), s.l.cur_bits \in 0..7, s.l.n_bits \in 1..12,
           NEW code \in Nat, code < Pow2[s.l.n_bits],
           NEW W \in Bits, NEW L \in Nat, Sent(s, W, L)
    PROVE  /\ IsState(Pack(s, code)) /\ SameControl(s, Pack(s, code))
           /\ Pack(s, code).l.cur_bits \in 0..7
           /\ \E V \in Bits : /\ \A i \in 0..L : V[i] = W[i]
                              /\ Spells(V, L, s.l.n_bits, code)
                              /\ Sent(Pack(s, code), V, L + s.l.n_bits)
<1>1. PICK q \in Nat : L = 8 * q + s.l.cur_bits /\ Holds(s, W, q, s.l.cur_bits)
  BY Zenon DEF Sent
<1>2. PICK l : l = s.l
  OBVIOUS
<1>3. PICK n \in 1..12 : n = s.l.n_bits
  OBVIOUS
<1>4. PICK c \in 0..7 : c = s.l.cur_bits
  OBVIOUS
<1>5. l \in LzwTypes /\ s.out.data \in Seq(Nat) /\ s.out.err \in BOOLEAN
  BY <1>2, Zenon DEF IsState
<1>6. l.accum \in Nat /\ l.block \in Seq(Nat) /\ l.n_bits = n /\ l.cur_bits = c
  BY <1>2, <1>3, <1>4, <1>5, LzwFields
<1>7. PICK a \in Nat : a = l.accum + code * Pow2[c]
  <2>1. c \in 0..16
    BY SMT
  <2>2. PICK e \in Nat : e = Pow2[c]
    BY <2>1, Powers
  <2>3. PICK b \in Nat : b = l.accum
    BY <1>6
  <2>4. b + code * e \in Nat
    BY SMT
  <2> QED
    BY <2>2, <2>3, <2>4, Zenon
<1>8. PICK d \in Nat : d = c + n
  BY SMT
<1>9. PICK p : p = [l |-> [s.l EXCEPT !.accum = @ + code * Pow2[s.l.cur_bits],
                                      !.cur_bits = @ + s.l.n_bits],
                    out |-> s.out]
  OBVIOUS
<1>10. p.out = s.out /\ p.l = [l EXCEPT !.accum = @ + code * Pow2[c], !.cur_bits = @ + n]
  <2>1. PICK r : r = [s.l EXCEPT !.accum = @ + code * Pow2[s.l.cur_bits],
                                 !.cur_bits = @ + s.l.n_bits]
    OBVIOUS
  <2>2. p = [l |-> r, out |-> s.out]
    BY <1>9, <2>1
  <2>3. p.l = r /\ p.out = s.out
    BY <2>2, SMT
  <2>4. r = [l EXCEPT !.accum = @ + code * Pow2[c], !.cur_bits = @ + n]
    BY <1>2, <1>3, <1>4, <2>1
  <2> QED
    BY <2>3, <2>4
<1>11. /\ p.l \in LzwTypes /\ p.l.block = l.block /\ p.l.accum = a /\ p.l.cur_bits = d
       /\ p.l.n_bits = l.n_bits /\ p.l.maxcode = l.maxcode /\ p.l.clear_flg = l.clear_flg
       /\ p.l.free_ent = l.free_ent
  <2>1. PICK b \in Seq(Nat) : b = l.block
    BY <1>6
  <2>2. PICK e : e = Pow2[c]
    OBVIOUS
  <2>3. PICK r : r = p.l
    OBVIOUS
  <2>4. IsPacked(r, l, b, a, d)
    <3>1. r = [l EXCEPT !.accum = @ + code * e, !.cur_bits = @ + n]
      BY <1>10, <2>2, <2>3
    <3>2. a = l.accum + code * e /\ d = l.cur_bits + n
      BY <1>6, <1>7, <1>8, <2>2
    <3>3. PICK S : S = Seq(Nat)
      OBVIOUS
    <3>4. l \in Lzw(S)
      BY <1>5, <3>3, Zenon DEF LzwTypes
    <3>5. r = [l EXCEPT !.block = b, !.accum = a, !.cur_bits = d]
      <4>1. r = [l EXCEPT !.accum = a, !.cur_bits = d]
        <5> HIDE <1>7, <1>8, <2>2
        <5> QED
          BY <3>1, <3>2, <3>4, SMT DEF Lzw
      <4>2. [l EXCEPT !.block = b] = l
        <5> HIDE <1>7, <1>8, <2>2, <3>3
        <5> QED
          BY <2>1, <3>4, SMT DEF Lzw
      <4>3. PICK x : x = [l EXCEPT !.block = b]
        OBVIOUS
      <4>4. r = [x EXCEPT !.accum = a, !.cur_bits = d]
        BY <4>1, <4>2, <4>3
      <4> QED
        BY <4>3, <4>4, SMT
    <3> QED
      BY <3>5, Zenon DEF IsPacked
  <2>5. d \in Int
    BY SMT
  <2>6. /\ r \in LzwTypes /\ r.block = b /\ r.accum = a /\ r.cur_bits = d
        /\ r.n_bits = l.n_bits /\ r.maxcode = l.maxcode /\ r.clear_flg = l.clear_flg
        /\ r.free_ent = l.free_ent
    BY <1>5, <2>4, <2>5, LzwPacked, SMT
  <2> QED
    BY <2>1, <2>3, <2>6
<1>12. IsState(p) /\ SameControl(s, p)
  BY <1>2, <1>5, <1>10, <1>11, Zenon DEF IsState, SameControl
<1>13. PICK V \in Bits : (\A i \in 0..L : V[i] = W[i]) /\ Spells(V, L, n, code)
  <2>1. n \in 0..16 /\ code < Pow2[n]
    BY <1>3, SMT
  <2> QED
    BY <2>1, SpellsAll
<1>14. Holds(p, V, q, d)
  <2>1. Holds(s, V, q, c)
    <3>1. c \in Nat /\ Holds(s, W, q, c) /\ \A i \in 0..(8 * q + c) : V[i] = W[i]
      BY <1>1, <1>4, <1>13
    <3> QED
      BY <3>1, HoldsFrame
  <2>2. PICK B \in [Nat -> Nat] :
           /\ \A i \in 1..q : Spells(V, 8 * (i - 1), 8, B[i])
           /\ Spells(V, 8 * q, c, s.l.accum)
           /\ s.out.err \/ Stream(s.out.data, s.l.block, B, q)
    BY <2>1, Zenon DEF Holds
  <2>3. Spells(V, 8 * q, c, l.accum) /\ Spells(V, 8 * q + c, n, code)
    BY <1>1, <1>2, <1>4, <1>13, <2>2
  <2>4. 8 * q \in Nat /\ c \in 0..16 /\ n \in Nat
    BY SMT
  <2>5. Spells(V, 8 * q, c + n, l.accum + code * Pow2[c])
    BY <2>3, <2>4, SpellsJoin
  <2>6. Spells(V, 8 * q, d, p.l.accum)
    BY <1>7, <1>8, <1>11, <2>5
  <2>7. p.out.err \/ Stream(p.out.data, p.l.block, B, q)
    BY <1>2, <1>10, <1>11, <2>2
  <2> QED
    BY <2>2, <2>6, <2>7, Zenon DEF Holds
<1>15. PICK w \in 0..2 : w = d \div 8
  BY <1>8, SMT
<1>16. d - 8 * w \in 0..7 /\ d >= 8 * w
  BY <1>15, SMT
<1> DEFINE Chain(f) == f = [i \in 0..w |-> IF i = 0 THEN p ELSE CharOut(f[i - 1])]
<1>17. \E f : Chain(f)
  <2>1. PICK f : f = [i \in 0..w |-> IF i = 0 THEN p ELSE IF i = 1 THEN CharOut(p)
                                       ELSE CharOut(CharOut(p))]
    OBVIOUS
  <2>2. PICK x : x = CharOut(p)
    OBVIOUS
  <2>3. ASSUME NEW i \in 0..w PROVE f[i] = IF i = 0 THEN p ELSE CharOut(f[i - 1])
    <3>1. CASE i = 0
      BY <2>1, <3>1
    <3>2. CASE i = 1
      <4>1. f[1] = CharOut(p) /\ i - 1 = 0 /\ 0 \in 0..w
        BY <2>1, <3>2
      <4>2. f[0] = p
        BY <2>1, <4>1
      <4> QED
        BY <3>2, <4>1, <4>2
    <3>3. CASE i = 2
      <4>1. f[2] = CharOut(CharOut(p)) /\ i - 1 = 1 /\ 1 \in 0..w
        BY <2>1, <3>3
      <4>2. f[1] = CharOut(p)
        BY <2>1, <4>1
      <4> QED
        BY <3>3, <4>1, <4>2
    <3> QED
      BY <3>1, <3>2, <3>3, SMT
  <2>4. Chain(f)
    BY <2>1, <2>3
  <2> QED
    BY <2>4
<1>18. PICK f : Chain(f) /\ Pack(s, code) = f[w]
  <2>1. PICK f : f = CHOOSE g : Chain(g)
    OBVIOUS
  <2>2. Chain(f)
    <3> HIDE DEF Chain
    <3> QED
      BY <1>17, <2>1, Zenon
  <2>3. p.l.cur_bits \div 8 = w
    BY <1>11, <1>15
  <2>4. Pack(s, code) = f[w]
    BY <1>9, <2>1, <2>3, ZenonT(30) DEF Pack
  <2> QED
    BY <2>2, <2>4
<1>19. f[0] = p /\ \A i \in 1..w : f[i] = CharOut(f[i - 1])
  BY <1>18, SMTT(30)
<1> HIDE DEF Chain
<1> DEFINE P == {i \in 0..w : /\ IsState(f[i]) /\ SameControl(s, f[i])
                              /\ f[i].l.cur_bits = d - 8 * i /\ Holds(f[i], V, q + i, d - 8 * i)}
<1>20. 0 \in P
  <2>1. q + 0 = q /\ d - 8 * 0 = d /\ 0 \in 0..w
    BY SMT
  <2> QED
    BY <1>11, <1>12, <1>14, <1>19, <2>1
<1>21. ASSUME NEW i \in 1..w, i - 1 \in P PROVE i \in P
  <2>1. PICK m \in Nat : m = d - 8 * i
    BY <1>16, SMT
  <2>2. PICK t : t = f[i - 1]
    OBVIOUS
  <2>3. PICK k \in Nat : k = q + (i - 1)
    BY SMT
  <2>4. d - 8 * (i - 1) = 8 + m /\ k + 1 = q + i /\ i \in 0..w
    BY <2>1, <2>3, SMT
  <2>5. /\ IsState(t) /\ SameControl(s, t) /\ t.l.cur_bits = 8 + m
        /\ Holds(t, V, k, 8 + m)
    BY <1>21, <2>2, <2>3, <2>4
  <2>6. PICK u : u = f[i]
    OBVIOUS
  <2>7. u = CharOut(t)
    BY <1>19, <2>2, <2>6
  <2> HIDE DEF P
  <2>8. /\ IsState(u) /\ SameControl(t, u) /\ u.l.cur_bits = t.l.cur_bits - 8
        /\ Holds(u, V, k + 1, m)
    BY <2>5, <2>7, ByteSent, Zenon
  <2>9. SameControl(s, u)
    BY <2>5, <2>8, Zenon DEF SameControl
  <2>10. u.l.cur_bits = m
    BY <2>5, <2>8, SMT
  <2> QED
    BY <2>1, <2>4, <2>6, <2>8, <2>9, <2>10 DEF P
<1>22. w \in P
  <2>1. w \in Nat /\ w \in 0..w
    BY SMT
  <2> HIDE DEF P
  <2>2. \A i \in 0..w : i \in P
    BY <1>20, <1>21, <2>1, Induction
  <2> QED
    BY <2>1, <2>2
<1>23. PICK u : u = Pack(s, code)
  OBVIOUS
<1>24. PICK k \in 0..7 : k = d - 8 * w
  BY <1>16
<1>25. IsState(u) /\ SameControl(s, u) /\ u.l.cur_bits = k /\ Holds(u, V, q + w, k)
  BY <1>18, <1>22, <1>23, <1>24
<1>26. Sent(u, V, L + n)
  <2>1. PICK j \in Nat : j = q + w
    BY SMT
  <2>2. L + n = 8 * j + k
    <3>1. L = 8 * q + c
      BY <1>1, <1>4
    <3> QED
      BY <1>8, <1>24, <2>1, <3>1, SMT
  <2>3. Holds(u, V, j, u.l.cur_bits) /\ L + n = 8 * j + u.l.cur_bits
    BY <1>25, <2>1, <2>2
  <2> QED
    BY <2>3, Zenon DEF Sent
<1> QED
  BY <1>3, <1>13, <1>23, <1>25, <1>26

\* The stream that the browser gets: the bits W, L of them, in whole bytes, in
\* blocks, and a block of length 0.
Ended(data, W, L, B, q, pos, rest) ==
    /\ q \in Nat /\ L <= 8 * q /\ 8 * q < L + 8
    /\ B \in [Nat -> Nat] /\ \A i \in 1..q : Spells(W, 8 * (i - 1), 8, B[i])
    /\ Len(data) \in Nat /\ Len(data) >= 1 /\ data[Len(data)] = 0
    /\ Layout(data, Len(data) - 1, B, pos, rest, q)

\* What follows the bytes does not matter.
LEMMA LayoutEnds ==
    ASSUME NEW data, NEW all, NEW d \in Nat, NEW B, NEW pos, NEW rest, NEW n \in Nat,
           \A j \in 1..d : all[j] = data[j], Layout(data, d, B, pos, rest, n)
    PROVE  Layout(all, d, B, pos, rest, n)
<1>1. /\ pos \in [Nat -> Nat] /\ rest \in [Nat -> Nat]
      /\ pos[0] = 0 /\ rest[0] = 0 /\ pos[n] = d /\ rest[n] = 0
      /\ \A i \in 1..n : /\ pos[i] \in 1..d /\ data[pos[i]] = B[i]
                         /\ pos[i] + rest[i] <= d
      /\ \A i \in 1..n : \/ /\ rest[i - 1] > 0
                            /\ pos[i] = pos[i - 1] + 1 /\ rest[i] = rest[i - 1] - 1
                         \/ /\ rest[i - 1] = 0
                            /\ pos[i] = pos[i - 1] + 2 /\ data[pos[i - 1] + 1] = rest[i] + 1
  BY Zenon DEF Layout
<1>2. ASSUME NEW i \in 1..n
      PROVE  /\ all[pos[i]] = B[i]
             /\ \/ /\ rest[i - 1] > 0
                   /\ pos[i] = pos[i - 1] + 1 /\ rest[i] = rest[i - 1] - 1
                \/ /\ rest[i - 1] = 0
                   /\ pos[i] = pos[i - 1] + 2 /\ all[pos[i - 1] + 1] = rest[i] + 1
  <2>1. all[pos[i]] = B[i]
    BY <1>1
  <2>2. CASE rest[i - 1] > 0
    BY <1>1, <2>1, <2>2
  <2>3. CASE ~(rest[i - 1] > 0)
    <3>1. rest[i - 1] = 0 /\ pos[i] = pos[i - 1] + 2 /\ data[pos[i - 1] + 1] = rest[i] + 1
      BY <1>1, <2>3
    <3>2. pos[i - 1] \in Nat /\ pos[i] \in 1..d
      BY <1>1, SMT
    <3>3. pos[i - 1] + 1 \in 1..d
      BY <3>1, <3>2, SMT
    <3> QED
      BY <2>1, <3>1, <3>3
  <2> QED
    BY <2>2, <2>3
<1> QED
  BY <1>1, <1>2, Zenon DEF Layout

\* The bits that wait make a last byte.
LastOut(u) == IF u.l.cur_bits > 0 THEN CharOut(u) ELSE u

\* The last bits leave the accumulator as one more byte, if there are any.
LEMMA LastByte ==
    ASSUME NEW u, IsState(u), u.l.cur_bits \in 0..7, NEW W \in Bits, NEW L \in Nat, Sent(u, W, L),
           NEW t, t = LastOut(u)
    PROVE  /\ IsState(t)
           /\ \E V \in Bits, q \in Nat : /\ \A i \in 0..L : V[i] = W[i]
                                         /\ L <= 8 * q /\ 8 * q < L + 8 /\ Holds(t, V, q, 0)
<1>1. PICK c \in 0..7 : c = u.l.cur_bits
  OBVIOUS
<1>2. PICK q \in Nat : L = 8 * q + c /\ Holds(u, W, q, c)
  BY <1>1, Zenon DEF Sent
<1>3. CASE c = 0
  <2>1. t = u /\ L <= 8 * q /\ 8 * q < L + 8 /\ Holds(t, W, q, 0)
    BY <1>1, <1>2, <1>3, SMT DEF LastOut
  <2> QED
    BY <2>1
<1>4. CASE c > 0
  <2>1. PICK V : V = [i \in Nat |-> IF i <= L THEN W[i] ELSE 0]
    OBVIOUS
  <2>2. V \in Bits
    BY <2>1, SMT DEF Bits
  <2>3. \A i \in 0..L : V[i] = W[i]
    BY <2>1, SMT
  <2>4. Holds(u, V, q, 8)
    <3>1. Holds(u, V, q, c)
      <4>1. c \in Nat /\ \A i \in 0..(8 * q + c) : V[i] = W[i]
        BY <1>2, <2>3
      <4> QED
        BY <1>2, <2>2, <4>1, HoldsFrame
    <3>2. PICK B \in [Nat -> Nat] :
             /\ \A i \in 1..q : Spells(V, 8 * (i - 1), 8, B[i])
             /\ Spells(V, 8 * q, c, u.l.accum)
             /\ u.out.err \/ Stream(u.out.data, u.l.block, B, q)
      BY <3>1, Zenon DEF Holds
    <3>3. Spells(V, L, 8 - c, 0)
      <4>1. 8 - c \in Nat
        BY SMT
      <4>2. ASSUME NEW i \in 1..(8 - c) PROVE V[L + i] = 0
        BY <2>1, SMT
      <4> QED
        BY <2>2, <4>1, <4>2, ZerosSpelled
    <3>4. 8 * q \in Nat /\ c \in 0..16 /\ 8 - c \in Nat /\ 0 \in Nat /\ c + (8 - c) = 8
      BY SMT
    <3>5. Spells(V, 8 * q, c + (8 - c), u.l.accum + 0 * Pow2[c])
      BY <1>2, <2>2, <3>2, <3>3, <3>4, SpellsJoin
    <3>6. u.l.accum + 0 * Pow2[c] = u.l.accum
      <4>1. u.l.accum \in Nat
        BY LzwFields DEF IsState
      <4>2. Pow2[c] \in Nat
        BY <3>4, Powers
      <4> QED
        BY <4>1, <4>2, SMT
    <3>7. Spells(V, 8 * q, 8, u.l.accum)
      BY <3>4, <3>5, <3>6
    <3> QED
      BY <3>2, <3>7, Zenon DEF Holds
  <2>5. t = CharOut(u)
    BY <1>1, <1>4 DEF LastOut
  <2>6. IsState(t) /\ Holds(t, V, q + 1, 0)
    <3>1. 0 \in Nat /\ 8 + 0 = 8
      BY SMT
    <3>2. Holds(u, V, q, 8 + 0)
      BY <2>4, <3>1
    <3> QED
      BY <2>2, <2>5, <3>1, <3>2, ByteSent, Zenon
  <2>7. q + 1 \in Nat /\ L <= 8 * (q + 1) /\ 8 * (q + 1) < L + 8
    BY <1>2, <1>4, SMT
  <2> QED
    BY <2>2, <2>3, <2>6, <2>7
<1> QED
  BY <1>3, <1>4, SMT

\* The bits W, L of them, are all in the buffer, unless it lacks bytes.
SentToEnd(all, W, L) ==
    /\ all.err \in BOOLEAN
    /\ ~all.err => \E V \in Bits : /\ \A i \in 0..L : V[i] = W[i]
                                   /\ \E B, q, pos, rest : Ended(all.data, V, L, B, q, pos, rest)

\* After the last byte and the block of length 0 the stream has all the bits.
LEMMA StreamEnds ==
    ASSUME NEW u, IsState(u), u.l.cur_bits \in 0..7, NEW W \in Bits, NEW L \in Nat, Sent(u, W, L),
           NEW r, r = FlushBlock(LastOut(u)),
           NEW all, all = GbufPut(r.out, << 0 >>)
    PROVE  SentToEnd(all, W, L)
<1>1. PICK t : t = LastOut(u)
  OBVIOUS
<1>2. IsState(t)
  BY <1>1, LastByte
<1>3. PICK V \in Bits, q \in Nat : /\ \A i \in 0..L : V[i] = W[i]
                                   /\ L <= 8 * q /\ 8 * q < L + 8 /\ Holds(t, V, q, 0)
  BY <1>1, LastByte
<1>4. r = FlushBlock(t)
  BY <1>1
<1>5. IsState(r) /\ r.l.block = <<>> /\ Holds(r, V, q, 0)
  BY <1>2, <1>3, <1>4, BlockFlushed, Zenon
<1>6. r.out.data \in Seq(Nat) /\ r.out.err \in BOOLEAN
  BY <1>5, Zenon DEF IsState
<1>7. PICK z \in Seq(Nat) : z = << 0 >>
  <2>1. << 0 >> \in Seq(Nat)
    BY SMT
  <2> QED
    BY <2>1, Zenon
<1>8. all = GbufPut(r.out, z)
  BY <1>7
<1>9. all.data \in Seq(Nat) /\ all.err \in BOOLEAN
      /\ (~all.err => ~r.out.err /\ all.data = r.out.data \o z)
  BY <1>6, <1>8, PutBytes, Zenon
<1>10. ASSUME ~all.err PROVE \E B, pos, rest : Ended(all.data, V, L, B, q, pos, rest)
  <2>1. PICK B \in [Nat -> Nat] :
           /\ \A i \in 1..q : Spells(V, 8 * (i - 1), 8, B[i])
           /\ r.out.err \/ Stream(r.out.data, r.l.block, B, q)
    BY <1>5, Zenon DEF Holds
  <2>2. PICK data \in Seq(Nat) : data = r.out.data
    BY <1>6
  <2>3. PICK s \in Seq(Nat) : s = all.data
    BY <1>9
  <2>4. s = Append(data, 0)
    <3>1. s = data \o << 0 >>
      BY <1>7, <1>9, <1>10, <2>2, <2>3
    <3> HIDE <1>7, <2>2, <2>3
    <3> QED
      BY <3>1, SMT
  <2>5. /\ Len(s) = Len(data) + 1 /\ s[Len(data) + 1] = 0
        /\ \A i \in 1..Len(data) : s[i] = data[i]
    BY <2>4, AppendProperties
  <2>6. PICK d \in Nat : d = Len(data)
    <3>1. Len(data) \in Nat
      BY LenProperties, Zenon
    <3> QED
      BY <3>1, Zenon
  <2>7. /\ Len(s) = d + 1 /\ s[d + 1] = 0 /\ \A i \in 1..d : s[i] = data[i]
    BY <2>5, <2>6
  <2>8. PICK b : b = r.l.block
    OBVIOUS
  <2>9. Stream(data, b, B, q) /\ b = <<>>
    BY <1>5, <1>9, <1>10, <2>1, <2>2, <2>8
  <2>10. PICK n, pos, rest : n \in Nat /\ q = n + Len(b) /\ Layout(data, Len(data), B, pos, rest, n)
    BY <2>9, Zenon DEF Stream
  <2>11. q = n
    <3>1. Len(b) = 0
      BY <2>9
    <3> QED
      BY <2>10, <3>1, SMT
  <2>12. Layout(data, d, B, pos, rest, q)
    BY <2>6, <2>10, <2>11
  <2>13. Layout(s, d, B, pos, rest, q)
    <3> HIDE <2>6
    <3> QED
      BY <2>7, <2>12, LayoutEnds, Zenon
  <2>14. PICK e \in Nat : e = Len(s)
    OBVIOUS
  <2>15. e >= 1 /\ s[e] = 0 /\ e - 1 = d
    <3>1. e = d + 1
      BY <2>7, <2>14
    <3>2. e >= 1 /\ e - 1 = d
      <4> HIDE <2>6, <2>14
      <4> QED
        BY <3>1, SMT
    <3> QED
      BY <2>7, <3>1, <3>2
  <2>16. Layout(s, e - 1, B, pos, rest, q)
    BY <2>13, <2>15
  <2>17. Ended(s, V, L, B, q, pos, rest)
    BY <1>3, <2>1, <2>14, <2>15, <2>16, Zenon DEF Ended
  <2> QED
    BY <2>3, <2>17
<1> QED
  BY <1>3, <1>9, <1>10, Zenon DEF SentToEnd

-----------------------------------------------------------------------------
(* The image: codes and strings                                            *)

\* The width when the next code is f, of a decoder that has the width n.
NextWidth(n, f) == IF f = Pow2[n] /\ n < MaxBits THEN n + 1 ELSE n

\* The codes that have a string while the code f is not given out.
Codes(f) == (0..(clear_code - 1)) \union ((eof_code + 1)..(f - 1))

Texts == [Nat -> Seq(Nat)]

\* S has the strings of the codes below f; the decoder d has n of them.
Spelled(S, f, n, d) ==
    /\ S \in Texts
    /\ \A x \in 0..(clear_code - 1) : S[x] = <<x>>
    /\ \A x \in Codes(f) : S[x] # <<>>
    /\ d.strings \in Seq(Seq(Nat)) /\ d.pixels \in Seq(Nat)
    /\ n \in Nat /\ n = Len(d.strings)
    /\ \A j \in 1..n : S[eof_code + j] = d.strings[j]

\* The encoder's table is about the same strings.
Tabled(S, f, tab) ==
    \A a, c : <<a, c>> \in DOMAIN tab =>
        a \in Codes(f) /\ tab[<<a, c>>] \in Codes(f) /\ S[tab[<<a, c>>]] = Append(S[a], c)

\* The decoder is one code behind the encoder: the newest string ends with the
\* pixel that the string being matched begins with.
Behind1(S, f, n, e, d) ==
    \/ d.prev = -1 /\ n = 0 /\ f = eof_code + 1
    \/ /\ d.prev \in Codes(f - 1) /\ f = eof_code + 2 + n
       /\ S[f - 1] = Append(S[d.prev], S[e][1])

\* The codes below f: colours, and those made since the last clear code.
LEMMA CodesKnown ==
    ASSUME NEW f \in Nat, f >= eof_code + 1, NEW x
    PROVE  /\ x \in Codes(f) <=> \/ x \in 0..(clear_code - 1)
                                 \/ x \in Nat /\ x >= eof_code + 1 /\ x < f
           /\ x \in Codes(f) => x \in Nat /\ x # clear_code /\ x # eof_code /\ x < f
<1>1. clear_code \in Nat /\ eof_code = clear_code + 1
  BY CodeSizes
<1> QED
  BY <1>1, SMT DEF Codes

\* The string of a code the decoder knows.
LEMMA StringKnown ==
    ASSUME NEW d, NEW n, NEW S, NEW f, Spelled(S, f, n, d),
           NEW x \in Nat, x # clear_code, x # eof_code
    PROVE  /\ Known(d, x) <=> x \in Codes(eof_code + 1 + n)
           /\ Known(d, x) => StringOf(d, x) = S[x]
<1>1. clear_code \in Nat /\ eof_code = clear_code + 1
  BY CodeSizes
<1>2. Known(d, x) <=> x < clear_code \/ x - eof_code \in 1..n
  BY Zenon DEF Known, Spelled
<1>6. n \in Nat
  BY Zenon DEF Spelled
<1>3. Known(d, x) <=> x \in Codes(eof_code + 1 + n)
  BY <1>1, <1>2, <1>6, SMT DEF Codes
<1>4. CASE x < clear_code
  <2>1. StringOf(d, x) = <<x>>
    BY <1>4, Zenon DEF StringOf
  <2>2. x \in 0..(clear_code - 1)
    BY <1>1, <1>4, SMT
  <2>3. S[x] = <<x>>
    BY <2>2, Zenon DEF Spelled
  <2> QED
    BY <1>3, <2>1, <2>3
<1>5. CASE ~(x < clear_code)
  <2>1. StringOf(d, x) = d.strings[x - eof_code]
    BY <1>5, Zenon DEF StringOf
  <2>2. ASSUME Known(d, x) PROVE StringOf(d, x) = S[x]
    <3>1. PICK j : j = x - eof_code
      OBVIOUS
    <3>2. j \in 1..n
      BY <1>2, <1>5, <2>2, <3>1
    <3>3. eof_code + j = x
      BY <1>1, <3>1, SMT
    <3>4. S[eof_code + j] = d.strings[j]
      BY <3>2, Zenon DEF Spelled
    <3> QED
      BY <2>1, <3>1, <3>3, <3>4
  <2> QED
    BY <1>3, <2>2
<1> QED
  BY <1>4, <1>5

\* A string made longer at its end.
LEMMA Longer ==
    ASSUME NEW s \in Seq(Nat), NEW x \in Nat
    PROVE  /\ Append(s, x) \in Seq(Nat) /\ Append(s, x) # <<>>
           /\ s # <<>> => Append(s, x)[1] = s[1] /\ s[1] \in Nat
<1>1. /\ Append(s, x) \in Seq(Nat) /\ Len(Append(s, x)) = Len(s) + 1
      /\ \A i \in 1..Len(s) : Append(s, x)[i] = s[i]
  BY AppendProperties
<1>2. Append(s, x) # <<>>
  BY SMT
<1>3. ASSUME s # <<>> PROVE Append(s, x)[1] = s[1] /\ s[1] \in Nat
  <2>1. 1 \in 1..Len(s)
    BY <1>3, SMT
  <2> QED
    BY <1>1, <2>1, SMT
<1> QED
  BY <1>1, <1>2, <1>3

\* Appending one element and appending a sequence.
LEMMA Joined ==
    ASSUME NEW s \in Seq(Nat), NEW t \in Seq(Nat), NEW x \in Nat
    PROVE  /\ s \o t \in Seq(Nat)
           /\ Append(s \o t, x) = s \o Append(t, x)
           /\ Append(s, x) = s \o <<x>>
<1>1. s \o t \in Seq(Nat)
  BY ConcatProperties
<1>2. Append(s, x) = s \o <<x>>
  BY SMT
<1>3. Append(s \o t, x) = s \o Append(t, x)
  <2>1. PICK u \in Seq(Nat) : u = <<x>>
    <3>1. <<x>> \in Seq(Nat)
      OBVIOUS
    <3> QED
      BY <3>1, Zenon
  <2>2. (s \o t) \o u = s \o (t \o u)
    BY ConcatAssociative
  <2>3. Append(s \o t, x) = (s \o t) \o u /\ Append(t, x) = t \o u
    BY <1>1, <2>1, AppendIsConcat
  <2> QED
    BY <2>2, <2>3
<1> QED
  BY <1>1, <1>2, <1>3

\* The decoder c, which was d before the code e: it knows all the codes below f.
StringsTold(S, f, e, d, c) ==
    \E m : /\ Spelled(S, f, m, c) /\ f = eof_code + 1 + m /\ c.prev = e
           /\ c.pixels = d.pixels \o S[e] /\ c.lost = FALSE
           /\ c.n_bits = NextWidth(d.n_bits, f)

\* The decoder after the code of the string that the encoder has matched: it
\* knows all the codes, and has all the pixels.
LEMMA CodeDecoded ==
    ASSUME NEW S, NEW f \in Nat, NEW n, NEW e, NEW d, Spelled(S, f, n, d), Behind1(S, f, n, e, d),
           f >= eof_code + 1, f <= MaxCodes, e \in Codes(f), d.lost = FALSE,
           NEW c, c = Decoded(d, e)
    PROVE  StringsTold(S, f, e, d, c)
<1>1. /\ S \in Texts /\ \A x \in 0..(clear_code - 1) : S[x] = <<x>>
      /\ \A x \in Codes(f) : S[x] # <<>>
      /\ d.strings \in Seq(Seq(Nat)) /\ d.pixels \in Seq(Nat)
      /\ n \in Nat /\ n = Len(d.strings)
      /\ \A j \in 1..n : S[eof_code + j] = d.strings[j]
  BY Zenon DEF Spelled
<1>2. clear_code \in Nat /\ eof_code = clear_code + 1 /\ MaxCodes \in Nat
  BY CodeSizes
<1>3. e \in Nat /\ e # clear_code /\ e # eof_code /\ e < f
  BY CodesKnown
<1>4. \A x \in Nat : S[x] \in Seq(Nat)
  BY <1>1, SMT DEF Texts
<1>5. n \in Nat
  BY <1>1
<1>6. /\ \/ ~(d.prev >= 0) /\ d.prev = -1 /\ n = 0 /\ f = eof_code + 1
         \/ /\ d.prev >= 0 /\ d.prev \in Codes(f - 1) /\ f = eof_code + 2 + n
            /\ S[f - 1] = Append(S[d.prev], S[e][1])
  <2>1. CASE d.prev = -1 /\ n = 0 /\ f = eof_code + 1
    BY <2>1, SMT
  <2>2. CASE /\ d.prev \in Codes(f - 1) /\ f = eof_code + 2 + n
             /\ S[f - 1] = Append(S[d.prev], S[e][1])
    <3>1. f - 1 \in Nat /\ f - 1 >= eof_code + 1
      BY <1>2, <1>5, <2>2, SMT
    <3>2. d.prev \in Nat
      BY <2>2, <3>1, CodesKnown
    <3> QED
      BY <2>2, <3>2, SMT
  <2> QED
    BY <2>1, <2>2, Zenon DEF Behind1
<1>7. (Known(d, e) <=> e \in Codes(eof_code + 1 + n)) /\ (Known(d, e) => StringOf(d, e) = S[e])
  BY <1>3, StringKnown
<1>8. ASSUME d.prev >= 0
      PROVE  /\ Known(d, d.prev) /\ StringOf(d, d.prev) = S[d.prev] /\ d.prev \in Nat
             /\ S[d.prev] # <<>> /\ S[d.prev] \in Seq(Nat)
  <2>1. d.prev \in Codes(f - 1) /\ f = eof_code + 2 + n
    BY <1>6, <1>8
  <2>2. f - 1 \in Nat /\ f - 1 >= eof_code + 1 /\ f - 1 = eof_code + 1 + n
    BY <1>2, <1>5, <2>1, SMT
  <2>3. d.prev \in Nat /\ d.prev # clear_code /\ d.prev # eof_code
    BY <2>1, <2>2, CodesKnown
  <2>4. Known(d, d.prev) /\ StringOf(d, d.prev) = S[d.prev]
    <3>1. d.prev \in Codes(eof_code + 1 + n)
      BY <2>1, <2>2
    <3> QED
      BY <2>3, <3>1, StringKnown
  <2>5. d.prev \in Codes(f)
    BY <1>2, <2>1, SMT DEF Codes
  <2> QED
    BY <1>1, <1>4, <2>3, <2>4, <2>5
<1>9. ASSUME ~Known(d, e)
      PROVE  /\ d.prev >= 0 /\ e = f - 1 /\ e = eof_code + 1 + n
             /\ S[e] = Append(S[d.prev], S[d.prev][1])
  <2>1. d.prev >= 0
    <3> SUFFICES ASSUME ~(d.prev >= 0) PROVE FALSE
      OBVIOUS
    <3>1. f = eof_code + 1 + n
      BY <1>2, <1>5, <1>6, SMT
    <3> QED
      BY <1>7, <1>9, <3>1
  <2>2. f = eof_code + 2 + n /\ S[f - 1] = Append(S[d.prev], S[e][1])
    BY <1>6, <2>1
  <2>3. e = f - 1 /\ e = eof_code + 1 + n
    <3>1. e \notin Codes(eof_code + 1 + n)
      BY <1>7, <1>9
    <3> QED
      BY <1>2, <1>3, <1>5, <2>2, <3>1, SMT DEF Codes
  <2>4. S[e][1] = S[d.prev][1]
    <3>1. S[e] = Append(S[d.prev], S[e][1])
      BY <2>2, <2>3
    <3>2. S[e] \in Seq(Nat) /\ S[e] # <<>>
      BY <1>1, <1>3, <1>4
    <3>3. S[e][1] \in Nat
      BY <3>2, SMT
    <3>4. Append(S[d.prev], S[e][1])[1] = S[d.prev][1]
      BY <1>8, <2>1, <3>3, Longer
    <3> QED
      BY <3>1, <3>4
  <2>5. S[e] = Append(S[d.prev], S[d.prev][1])
    BY <2>2, <2>3, <2>4
  <2> QED
    BY <2>1, <2>3, <2>5
<1>10. ~Meaningless(d, e) /\ e # clear_code
  <2>1. ASSUME ~Known(d, e) PROVE d.prev >= 0 /\ e = eof_code + 1 + Len(d.strings)
    BY <1>1, <1>9, <2>1
  <2> QED
    BY <1>3, <2>1, Zenon DEF Meaningless
<1>11. PICK str : str = IF Known(d, e) THEN StringOf(d, e)
                        ELSE Append(StringOf(d, d.prev), StringOf(d, d.prev)[1])
  OBVIOUS
<1>12. str = S[e]
  BY <1>7, <1>8, <1>9, <1>11
<1>13. PICK more : more = IF d.prev >= 0 /\ eof_code + 1 + Len(d.strings) < MaxCodes
                          THEN Append(d.strings, Append(StringOf(d, d.prev), str[1]))
                          ELSE d.strings
  OBVIOUS
<1>14. PICK m : m = Len(more)
  OBVIOUS
<1>15. c = [n_bits  |-> IF eof_code + 1 + m = Pow2[d.n_bits] /\ d.n_bits < MaxBits
                        THEN d.n_bits + 1 ELSE d.n_bits,
            strings |-> more, prev |-> e, pixels |-> d.pixels \o str, lost |-> FALSE]
  <2>1. c = DecodeString(d, e)
    BY <1>10, Zenon DEF Decoded
  <2> QED
    BY <1>11, <1>13, <1>14, <2>1, Zenon DEF DecodeString
<1>16. /\ more \in Seq(Seq(Nat)) /\ m \in Nat /\ f = eof_code + 1 + m
       /\ \A j \in 1..m : S[eof_code + j] = more[j]
  <2>1. CASE ~(d.prev >= 0)
    <3>1. more = d.strings
      BY <1>13, <2>1
    <3>2. m = n /\ n = 0 /\ f = eof_code + 1
      BY <1>1, <1>6, <1>14, <2>1, <3>1
    <3>3. f = eof_code + 1 + m
      <4> HIDE <1>14
      <4> QED
        BY <1>2, <3>2, SMT
    <3> QED
      BY <1>1, <3>1, <3>2, <3>3
  <2>2. CASE d.prev >= 0
    <3>1. f = eof_code + 2 + n /\ S[f - 1] = Append(S[d.prev], S[e][1]) /\ d.prev >= 0
      BY <1>6, <2>2
    <3>2. eof_code + 1 + Len(d.strings) < MaxCodes
      <4>1. eof_code + 1 + n < MaxCodes
        <5>1. n \in Nat
          BY <1>1
        <5> QED
          BY <1>2, <3>1, <5>1, SMT
      <4> QED
        BY <1>1, <4>1
    <3>3. PICK w : w = S[f - 1]
      OBVIOUS
    <3>4. more = Append(d.strings, w)
      BY <1>8, <1>12, <1>13, <2>2, <3>1, <3>2, <3>3
    <3>5. w \in Seq(Nat)
      <4>1. f - 1 \in Nat
        <5>1. n \in Nat
          BY <1>1
        <5> QED
          BY <1>2, <3>1, <5>1, SMT
      <4> QED
        BY <1>4, <3>3, <4>1
    <3>6. PICK T : T = Seq(Nat)
      OBVIOUS
    <3>7. /\ more \in Seq(T) /\ Len(more) = n + 1 /\ more[n + 1] = w
          /\ \A j \in 1..n : more[j] = d.strings[j]
      <4>1. w \in T /\ d.strings \in Seq(T)
        BY <1>1, <3>5, <3>6
      <4> HIDE <3>6
      <4>2. /\ Append(d.strings, w) \in Seq(T) /\ Len(Append(d.strings, w)) = Len(d.strings) + 1
            /\ Append(d.strings, w)[Len(d.strings) + 1] = w
            /\ \A j \in 1..Len(d.strings) : Append(d.strings, w)[j] = d.strings[j]
        BY <4>1, AppendProperties
      <4> QED
        BY <1>1, <3>4, <4>2, Zenon
    <3>8. m = n + 1
      BY <1>14, <3>7
    <3>9. ASSUME NEW j \in 1..m PROVE S[eof_code + j] = more[j]
      <4>1. CASE j = n + 1
        <5>1. eof_code + j = f - 1
          <6>1. n \in Nat
            BY <1>1
          <6> QED
            BY <1>2, <3>1, <4>1, <6>1, SMT
        <5> QED
          BY <3>3, <3>7, <4>1, <5>1
      <4>2. CASE j # n + 1
        <5>1. j \in 1..n
          <6>1. n \in Nat /\ j \in 1..(n + 1)
            BY <1>1, <3>8
          <6> QED
            BY <4>2, <6>1, SMT
        <5> QED
          BY <1>1, <3>7, <5>1
      <4> QED
        BY <4>1, <4>2
    <3>10. m \in Nat /\ f = eof_code + 1 + m
      <4>1. n \in Nat
        BY <1>1
      <4> HIDE <1>14
      <4> QED
        BY <1>2, <3>1, <3>8, <4>1, SMT
    <3> QED
      BY <3>6, <3>7, <3>9, <3>10
  <2> QED
    BY <1>6, <2>1, <2>2, Zenon
<1>17. PICK p : p = d.pixels \o str
  OBVIOUS
<1>18. PICK nb : nb = NextWidth(d.n_bits, f)
  OBVIOUS
<1>19. c = [n_bits |-> nb, strings |-> more, prev |-> e, pixels |-> p, lost |-> FALSE]
  BY <1>15, <1>16, <1>17, <1>18 DEF NextWidth
<1>20. c.n_bits = nb /\ c.strings = more /\ c.prev = e /\ c.pixels = p /\ c.lost = FALSE
  BY <1>19, SMT
<1>21. p \in Seq(Nat)
  BY <1>1, <1>3, <1>4, <1>12, <1>17, ConcatProperties
<1>22. Spelled(S, f, m, c)
  BY <1>1, <1>14, <1>16, <1>20, <1>21, Zenon DEF Spelled
<1> QED
  BY <1>12, <1>16, <1>17, <1>18, <1>20, <1>22, Zenon DEF StringsTold

\* The greatest code of so many bits.
GreatestCode(n) == IF n = MaxBits THEN MaxCodes ELSE Pow2[n] - 1

\* The widths of encoder and decoder agree, and hold the codes there are.
Widths(l, d) ==
    /\ l.clear_flg = FALSE /\ d.lost = FALSE
    /\ l.n_bits \in (MinCodeSize + 1)..MaxBits /\ d.n_bits = l.n_bits
    /\ l.maxcode = GreatestCode(l.n_bits)
    /\ l.free_ent \in (eof_code + 1)..MaxCodes /\ l.free_ent <= Pow2[l.n_bits]

Strings(f, tab, e, p, d) ==
    \E S, n : /\ Spelled(S, f, n, d) /\ Behind1(S, f, n, e, d) /\ Tabled(S, f, tab)
              /\ e \in Codes(f) /\ p = d.pixels \o S[e]

\* What does not depend on the widths is the same.
SameRest(l, r) == /\ r \in LzwTypes /\ r.accum = l.accum /\ r.cur_bits = l.cur_bits
                  /\ r.block = l.block

IsWidened(r, l, a, b, f) == r = [l EXCEPT !.n_bits = a, !.maxcode = b, !.clear_flg = f]
IsEntered(r, l, a, f) == r = [l EXCEPT !.free_ent = a, !.clear_flg = f]

\* What the change of a width leaves alone.
LEMMA LzwWiden ==
    ASSUME NEW l \in LzwTypes, NEW a \in Nat, NEW b \in Nat, NEW f \in BOOLEAN, NEW r,
           IsWidened(r, l, a, b, f)
    PROVE  /\ SameRest(l, r) /\ r.n_bits = a /\ r.maxcode = b /\ r.clear_flg = f
           /\ r.free_ent = l.free_ent
<1>1. PICK S : S = Seq(Nat)
  OBVIOUS
<1>2. l \in Lzw(S)
  BY <1>1, Zenon DEF LzwTypes
<1>3. PICK x : x = [l EXCEPT !.n_bits = a]
  OBVIOUS
<1>4. PICK y : y = [x EXCEPT !.maxcode = b]
  OBVIOUS
<1>5. PICK z : z = [y EXCEPT !.clear_flg = f]
  OBVIOUS
<1> HIDE <1>1
<1>6. x \in Lzw(S)
  BY <1>2, <1>3, SMT DEF Lzw
<1>7. y \in Lzw(S)
  BY <1>4, <1>6, SMT DEF Lzw
<1>8. z \in Lzw(S)
  BY <1>5, <1>7, SMTT(30) DEF Lzw
<1>11. r = [l EXCEPT !.n_bits = a, !.maxcode = b, !.clear_flg = f]
  BY Zenon DEF IsWidened
<1>9. z = r
  BY <1>3, <1>4, <1>5, <1>11, SMT
<1>10. /\ r.n_bits = a /\ r.maxcode = b /\ r.clear_flg = f /\ r.free_ent = l.free_ent
       /\ r.accum = l.accum /\ r.cur_bits = l.cur_bits /\ r.block = l.block
  BY <1>2, <1>11, SMT DEF Lzw
<1> QED
  BY <1>1, <1>8, <1>9, <1>10, Zenon DEF LzwTypes, SameRest

\* What a new entry of the table leaves alone.
LEMMA LzwEntry ==
    ASSUME NEW l \in LzwTypes, NEW a \in Nat, NEW f \in BOOLEAN, NEW r,
           IsEntered(r, l, a, f)
    PROVE  /\ SameRest(l, r) /\ r.free_ent = a /\ r.clear_flg = f
           /\ r.n_bits = l.n_bits /\ r.maxcode = l.maxcode
<1>1. PICK S : S = Seq(Nat)
  OBVIOUS
<1>2. l \in Lzw(S)
  BY <1>1, Zenon DEF LzwTypes
<1>3. PICK x : x = [l EXCEPT !.free_ent = a]
  OBVIOUS
<1>4. PICK y : y = [x EXCEPT !.clear_flg = f]
  OBVIOUS
<1> HIDE <1>1
<1>5. x \in Lzw(S)
  BY <1>2, <1>3, SMT DEF Lzw
<1>6. y \in Lzw(S)
  BY <1>4, <1>5, SMT DEF Lzw
<1>9. r = [l EXCEPT !.free_ent = a, !.clear_flg = f]
  BY Zenon DEF IsEntered
<1>7. y = r
  BY <1>3, <1>4, <1>9, SMT
<1>8. /\ r.n_bits = l.n_bits /\ r.maxcode = l.maxcode /\ r.clear_flg = f /\ r.free_ent = a
      /\ r.accum = l.accum /\ r.cur_bits = l.cur_bits /\ r.block = l.block
  BY <1>2, <1>9, SMT DEF Lzw
<1> QED
  BY <1>1, <1>6, <1>7, <1>8, Zenon DEF LzwTypes, SameRest

\* Storing a flag that is there already.
LEMMA SameFlag ==
    ASSUME NEW l \in LzwTypes
    PROVE  l = [l EXCEPT !.clear_flg = l.clear_flg]
<1>1. PICK S : S = Seq(Nat)
  OBVIOUS
<1>2. l \in Lzw(S)
  BY <1>1, Zenon DEF LzwTypes
<1> HIDE <1>1
<1> QED
  BY <1>2, SMT DEF Lzw

\* Changes that leave the flag alone, as changes that store it again.
LEMMA NothingWider ==
    ASSUME NEW l \in LzwTypes, NEW a \in Nat, NEW b \in Nat
    PROVE  /\ [l EXCEPT !.n_bits = a, !.maxcode = b]
              = [l EXCEPT !.n_bits = a, !.maxcode = b, !.clear_flg = l.clear_flg]
           /\ [l EXCEPT !.free_ent = a] = [l EXCEPT !.free_ent = a, !.clear_flg = l.clear_flg]
<1>1. PICK S : S = Seq(Nat)
  OBVIOUS
<1>2. l \in Lzw(S)
  BY <1>1, Zenon DEF LzwTypes
<1>3. PICK x : x = [l EXCEPT !.n_bits = a]
  OBVIOUS
<1>4. PICK y : y = [x EXCEPT !.maxcode = b]
  OBVIOUS
<1>5. PICK z : z = [l EXCEPT !.free_ent = a]
  OBVIOUS
<1>6. y \in Lzw(S) /\ z \in Lzw(S)
  <2> HIDE <1>1
  <2>1. x \in Lzw(S)
    BY <1>2, <1>3, SMT DEF Lzw
  <2>2. y \in Lzw(S)
    BY <1>4, <2>1, SMT DEF Lzw
  <2>3. z \in Lzw(S)
    BY <1>2, <1>5, SMT DEF Lzw
  <2> QED
    BY <2>2, <2>3
<1>7. y = [y EXCEPT !.clear_flg = y.clear_flg] /\ z = [z EXCEPT !.clear_flg = z.clear_flg]
  <2>1. y \in LzwTypes /\ z \in LzwTypes
    BY <1>1, <1>6, Zenon DEF LzwTypes
  <2> HIDE <1>3, <1>4, <1>5
  <2> QED
    BY <2>1, SameFlag, Zenon
<1>8. y.clear_flg = l.clear_flg /\ z.clear_flg = l.clear_flg
  <2> HIDE <1>1
  <2> QED
    BY <1>2, <1>3, <1>4, <1>5, SMT DEF Lzw
<1>9. PICK f : f = l.clear_flg
  OBVIOUS
<1>10. y = [y EXCEPT !.clear_flg = f] /\ z = [z EXCEPT !.clear_flg = f]
  BY <1>7, <1>8, <1>9
<1>11. [l EXCEPT !.n_bits = a, !.maxcode = b] = y
  BY <1>3, <1>4, SMT
<1>12. [l EXCEPT !.n_bits = a, !.maxcode = b, !.clear_flg = f] = [y EXCEPT !.clear_flg = f]
  BY <1>3, <1>4, SMT
<1>13. [l EXCEPT !.free_ent = a, !.clear_flg = f] = [z EXCEPT !.clear_flg = f]
  BY <1>5, SMT
<1> QED
  BY <1>5, <1>9, <1>10, <1>11, <1>12, <1>13, Zenon

\* r is l after a code, and has codes of n bits.
WidenedTo(l, r, n) ==
    /\ SameRest(l, r) /\ r.clear_flg = FALSE /\ r.free_ent = l.free_ent
    /\ r.n_bits = n /\ n \in (MinCodeSize + 1)..MaxBits
    /\ r.maxcode = GreatestCode(n)
    /\ l.free_ent < MaxCodes => l.free_ent < Pow2[n]
    /\ l.free_ent <= Pow2[n]

\* After a code both sides have the same width again, and there is room for the
\* next code, unless the table is full.
LEMMA WidthsFollow ==
    ASSUME NEW l \in LzwTypes, NEW d, Widths(l, d), NEW r, r = Widen(l),
           NEW n, n = NextWidth(d.n_bits, l.free_ent)
    PROVE  WidenedTo(l, r, n)
<1>1. /\ l.clear_flg = FALSE
      /\ l.n_bits \in (MinCodeSize + 1)..MaxBits /\ d.n_bits = l.n_bits
      /\ l.maxcode = GreatestCode(l.n_bits)
      /\ l.free_ent \in (eof_code + 1)..MaxCodes /\ l.free_ent <= Pow2[l.n_bits]
  BY Zenon DEF Widths
<1>2. MaxBits \in 4..12 /\ MinCodeSize \in 2..(MaxBits - 2) /\ MaxCodes = Pow2[MaxBits]
      /\ MaxCodes \in Nat /\ eof_code \in Nat
  BY CodeSizes
<1>3. PICK b : b = l.n_bits
  OBVIOUS
<1>4. PICK f : f = l.free_ent
  OBVIOUS
<1>5. b \in 3..12 /\ b <= MaxBits /\ b \in 0..16 /\ f \in Nat /\ f <= MaxCodes /\ f <= Pow2[b]
      /\ b \in (MinCodeSize + 1)..MaxBits /\ d.n_bits = b
  <2>1. b \in (MinCodeSize + 1)..MaxBits /\ d.n_bits = b /\ f <= Pow2[b]
        /\ f \in (eof_code + 1)..MaxCodes
    BY <1>1, <1>3, <1>4
  <2> QED
    BY <1>2, <2>1, SMT
<1>6. Pow2[b] \in Nat
  BY <1>5, Powers
<1>7. CASE f = Pow2[b] /\ b < MaxBits
  <2>1. PICK c : c = b + 1
    OBVIOUS
  <2>2. c \in 1..16 /\ c - 1 = b /\ c \in (MinCodeSize + 1)..MaxBits /\ c \in Nat
    BY <1>2, <1>5, <1>7, <2>1, SMT
  <2>3. n = c
    BY <1>3, <1>4, <1>5, <1>7, <2>1 DEF NextWidth
  <2>4. Pow2[c] = 2 * Pow2[b] /\ Pow2[b] >= 1
    BY <1>5, <2>2, Powers
  <2>5. f < Pow2[c] /\ Pow2[c] \in Nat /\ Pow2[c] - 1 \in Nat
    BY <1>6, <1>7, <2>4, SMT
  <2>6. l.maxcode = Pow2[b] - 1
    <3>1. b # MaxBits
      BY <1>2, <1>5, <1>7, SMT
    <3> QED
      BY <1>1, <1>3, <3>1 DEF GreatestCode
  <2>7. l.free_ent > l.maxcode
    BY <1>4, <1>6, <1>7, <2>6, SMT
  <2>8. PICK m \in Nat : m = GreatestCode(c)
    BY <1>2, <2>5 DEF GreatestCode
  <2>9. r = [l EXCEPT !.n_bits = c, !.maxcode = m]
    <3>1. r = [l EXCEPT !.n_bits = @ + 1,
                        !.maxcode = IF l.n_bits + 1 = MaxBits THEN MaxCodes
                                                              ELSE Pow2[l.n_bits + 1] - 1]
      BY <1>1, <2>7, Zenon DEF Widen
    <3>2. c = l.n_bits + 1
      BY <1>3, <2>1
    <3> QED
      BY <2>8, <3>1, <3>2 DEF GreatestCode
  <2>10. r = [l EXCEPT !.n_bits = c, !.maxcode = m, !.clear_flg = FALSE]
    <3>1. r = [l EXCEPT !.n_bits = c, !.maxcode = m, !.clear_flg = l.clear_flg]
      BY <2>2, <2>8, <2>9, NothingWider, Zenon
    <3> QED
      BY <1>1, <3>1
  <2>11. /\ SameRest(l, r) /\ r.n_bits = c /\ r.maxcode = m /\ r.clear_flg = FALSE
         /\ r.free_ent = l.free_ent
    <3>1. PICK no \in BOOLEAN : no = FALSE
      OBVIOUS
    <3>2. IsWidened(r, l, c, m, no)
      BY <2>10, <3>1, Zenon DEF IsWidened
    <3>3. c \in Nat /\ m \in Nat
      BY <2>2
    <3>4. /\ SameRest(l, r) /\ r.n_bits = c /\ r.maxcode = m /\ r.clear_flg = no
          /\ r.free_ent = l.free_ent
      <4> HIDE <3>1
      <4> QED
        BY <3>2, <3>3, LzwWiden, SMT
    <3> QED
      BY <3>1, <3>4
  <2>12. f <= Pow2[c]
    BY <1>5, <2>5, SMT
  <2> QED
    BY <1>4, <2>2, <2>3, <2>5, <2>8, <2>11, <2>12 DEF WidenedTo
<1>8. CASE ~(f = Pow2[b] /\ b < MaxBits)
  <2>1. n = b
    BY <1>3, <1>4, <1>5, <1>8 DEF NextWidth
  <2>2. ~(l.free_ent > l.maxcode)
    <3>1. CASE b = MaxBits
      BY <1>1, <1>2, <1>3, <1>4, <1>5, <3>1, SMT DEF GreatestCode
    <3>2. CASE b # MaxBits
      <4>1. l.maxcode = Pow2[b] - 1
        BY <1>1, <1>3, <3>2 DEF GreatestCode
      <4>2. b < MaxBits
        BY <1>2, <1>5, <3>2, SMT
      <4> QED
        BY <1>4, <1>5, <1>6, <1>8, <4>1, <4>2, SMT
    <3> QED
      BY <3>1, <3>2
  <2>3. r = l
    BY <1>1, <2>2, Zenon DEF Widen
  <2>4. f < MaxCodes => f < Pow2[b]
    <3>1. CASE b = MaxBits
      BY <1>2, <3>1
    <3>2. CASE b # MaxBits
      BY <1>2, <1>5, <1>6, <1>8, <3>2, SMT
    <3> QED
      BY <3>1, <3>2
  <2> QED
    BY <1>1, <1>3, <1>4, <1>5, <2>1, <2>3, <2>4, Zenon DEF SameRest, WidenedTo
<1> QED
  BY <1>7, <1>8

-----------------------------------------------------------------------------
(* The image: the codes that are sent, and what a decoder makes of them    *)

Start == [n_bits |-> MinCodeSize + 1, strings |-> <<>>, prev |-> -1, pixels |-> <<>>,
          lost |-> FALSE]

\* A decoder on its way to the pixels p.
OnTheWay(d, p) == /\ d.n_bits \in 1..12 /\ d.lost = FALSE
                  /\ d.pixels \in Seq(Nat) /\ IsPrefix(d.pixels, p)

\* The bits W, L of them, are k codes; D are the decoders after each of them and
\* at the places where they end.
Transcript(W, L, p, code, D, ends, k) ==
    /\ k \in Nat /\ ends \in [Nat -> Nat] /\ code \in [Nat -> Nat]
    /\ D[0] = Start /\ ends[0] = 0 /\ ends[k] = L
    /\ \A m \in 1..k : /\ ends[m] = ends[m - 1] + D[m - 1].n_bits
                       /\ Spells(W, ends[m - 1], D[m - 1].n_bits, code[m])
                       /\ code[m] # eof_code /\ D[m] = Decoded(D[m - 1], code[m])
    /\ \A m \in 0..k : ends[m] <= L /\ OnTheWay(D[m], p)

Coded(W, L, p, d) == \E code, D, ends, k : Transcript(W, L, p, code, D, ends, k) /\ D[k] = d

\* The decoder as it starts.
LEMMA StartFields ==
    /\ Start.n_bits = MinCodeSize + 1 /\ Start.strings = <<>> /\ Start.prev = -1
    /\ Start.pixels = <<>> /\ Start.lost = FALSE
<1>1. PICK e : e = <<>>
  OBVIOUS
<1>2. PICK n : n = MinCodeSize + 1
  OBVIOUS
<1>3. PICK i \in Int : i = -1
  BY SMT
<1>4. Start = [n_bits |-> n, strings |-> e, prev |-> i, pixels |-> e, lost |-> FALSE]
  BY <1>1, <1>2, <1>3 DEF Start
<1>5. Start.n_bits = n /\ Start.strings = e /\ Start.prev = i /\ Start.pixels = e
      /\ Start.lost = FALSE
  <2> HIDE <1>1, <1>2, <1>3
  <2> QED
    BY <1>4, SMT
<1> QED
  BY <1>1, <1>2, <1>3, <1>5

\* A prefix stays one of a longer sequence.
LEMMA PrefixLonger ==
    ASSUME NEW s \in Seq(Nat), NEW p \in Seq(Nat), NEW x \in Nat, IsPrefix(s, p)
    PROVE  IsPrefix(s, Append(p, x))
<1>1. Len(s) <= Len(p) /\ SubSeq(s, 1, Len(s)) = SubSeq(p, 1, Len(s))
  BY Zenon DEF IsPrefix
<1>2. PICK q : q = Append(p, x)
  OBVIOUS
<1>3. q \in Seq(Nat) /\ Len(q) = Len(p) + 1 /\ \A i \in 1..Len(p) : q[i] = p[i]
  BY <1>2, AppendProperties
<1>4. SubSeq(q, 1, Len(s)) = SubSeq(p, 1, Len(s))
  BY <1>1, <1>2, SMT
<1>5. Len(s) <= Len(q)
  <2>1. Len(s) \in Nat /\ Len(p) \in Nat
    OBVIOUS
  <2> HIDE <1>2
  <2> QED
    BY <1>1, <1>3, <2>1, SMT
<1>6. IsPrefix(s, q)
  BY <1>1, <1>4, <1>5, Zenon DEF IsPrefix
<1> QED
  BY <1>2, <1>6

\* A sequence is a prefix of what continues it.
LEMMA PrefixJoined ==
    ASSUME NEW s \in Seq(Nat), NEW t \in Seq(Nat)
    PROVE  IsPrefix(s, s \o t)
<1>1. PICK q : q = s \o t
  OBVIOUS
<1>2. /\ q \in Seq(Nat) /\ Len(q) = Len(s) + Len(t)
      /\ \A i \in 1..Len(s) : q[i] = s[i]
  <2>1. /\ s \o t \in Seq(Nat) /\ Len(s \o t) = Len(s) + Len(t)
        /\ \A i \in 1..(Len(s) + Len(t)) :
               (s \o t)[i] = IF i <= Len(s) THEN s[i] ELSE t[i - Len(s)]
    BY ConcatProperties, Zenon
  <2>2. ASSUME NEW i \in 1..Len(s) PROVE (s \o t)[i] = s[i]
    <3>1. PICK n \in Nat : n = Len(s)
      OBVIOUS
    <3>2. PICK k \in Nat : k = Len(t)
      OBVIOUS
    <3>3. i \in 1..(n + k) /\ i <= n
      BY <3>1, SMT
    <3> QED
      BY <2>1, <3>1, <3>2, <3>3, Zenon
  <2> QED
    BY <1>1, <2>1, <2>2, Zenon
<1>3. SubSeq(q, 1, Len(s)) = s
  BY <1>1, SMT
<1>4. SubSeq(s, 1, Len(s)) = s
  BY SubSeqFull
<1>5. Len(s) <= Len(q)
  <2>1. Len(s) \in Nat /\ Len(t) \in Nat
    OBVIOUS
  <2> HIDE <1>1
  <2> QED
    BY <1>2, <2>1, SMT
<1> QED
  BY <1>1, <1>3, <1>4, <1>5, Zenon DEF IsPrefix

\* Before the first code nothing is decoded.
LEMMA NothingCoded ==
    ASSUME NEW W \in Bits, NEW p \in Seq(Nat)
    PROVE  Coded(W, 0, p, Start)
<1>1. PICK ends : ends = [m \in Nat |-> 0]
  OBVIOUS
<1>2. PICK D : D = [m \in Nat |-> Start]
  OBVIOUS
<1>3. ends \in [Nat -> Nat] /\ ends[0] = 0 /\ D[0] = Start
  BY <1>1, <1>2, SMT
<1>4. OnTheWay(Start, p)
  <2>1. MinCodeSize + 1 \in 1..12
    <3>1. MaxBits \in 4..12 /\ MinCodeSize \in 2..(MaxBits - 2)
      BY CodeSizes
    <3> QED
      BY <3>1, SMT
  <2>2. IsPrefix(<<>>, p)
    <3>1. PICK e \in Seq(Nat) : e = <<>>
      <4>1. <<>> \in Seq(Nat)
        OBVIOUS
      <4> QED
        BY <4>1, Zenon
    <3>2. IsPrefix(e, e \o p)
      BY PrefixJoined
    <3>3. e \o p = p
      BY <3>1, ConcatEmptySeq
    <3> QED
      BY <3>1, <3>2, <3>3
  <2>3. <<>> \in Seq(Nat)
    OBVIOUS
  <2> QED
    BY <2>1, <2>2, <2>3, StartFields DEF OnTheWay
<1>5. \A m \in 0..0 : ends[m] <= 0 /\ OnTheWay(D[m], p)
  BY <1>3, <1>4, SMT
<1>6. \A m \in 1..0 : /\ ends[m] = ends[m - 1] + D[m - 1].n_bits
                      /\ Spells(W, ends[m - 1], D[m - 1].n_bits, ends[m])
                      /\ ends[m] # eof_code /\ D[m] = Decoded(D[m - 1], ends[m])
  BY SMT
<1>7. 0 \in Nat
  OBVIOUS
<1>8. Transcript(W, 0, p, ends, D, ends, 0)
  BY <1>3, <1>5, <1>6, <1>7, Zenon DEF Transcript
<1> QED
  BY <1>3, <1>8, Zenon DEF Coded

\* More pixels.
LEMMA CodedLonger ==
    ASSUME NEW W, NEW L, NEW p \in Seq(Nat), NEW x \in Nat, NEW d, Coded(W, L, p, d)
    PROVE  Coded(W, L, Append(p, x), d)
<1>1. PICK code, D, ends, k : Transcript(W, L, p, code, D, ends, k) /\ D[k] = d
  BY Zenon DEF Coded
<1>2. ASSUME NEW m \in 0..k PROVE ends[m] <= L /\ OnTheWay(D[m], Append(p, x))
  <2>1. ends[m] <= L /\ OnTheWay(D[m], p)
    BY <1>1, Zenon DEF Transcript
  <2>2. IsPrefix(D[m].pixels, Append(p, x))
    BY <2>1, PrefixLonger DEF OnTheWay
  <2> QED
    BY <2>1, <2>2, Zenon DEF OnTheWay
<1>3. Transcript(W, L, Append(p, x), code, D, ends, k)
  BY <1>1, <1>2, Zenon DEF Transcript
<1> QED
  BY <1>1, <1>3, Zenon DEF Coded

\* Bits that are yet to come do not matter.
LEMMA CodedFrame ==
    ASSUME NEW W \in Bits, NEW V \in Bits, NEW L \in Nat, NEW p, NEW d, Coded(W, L, p, d),
           \A i \in 0..L : V[i] = W[i]
    PROVE  Coded(V, L, p, d)
<1>1. PICK code, D, ends, k : Transcript(W, L, p, code, D, ends, k) /\ D[k] = d
  BY Zenon DEF Coded
<1>2. /\ k \in Nat /\ ends \in [Nat -> Nat]
      /\ \A m \in 1..k : /\ ends[m] = ends[m - 1] + D[m - 1].n_bits
                         /\ Spells(W, ends[m - 1], D[m - 1].n_bits, code[m])
                         /\ code[m] # eof_code /\ D[m] = Decoded(D[m - 1], code[m])
      /\ \A m \in 0..k : ends[m] <= L /\ OnTheWay(D[m], p)
  BY <1>1, Zenon DEF Transcript
<1>3. ASSUME NEW m \in 1..k PROVE Spells(V, ends[m - 1], D[m - 1].n_bits, code[m])
  <2>1. m \in 0..k /\ m - 1 \in 0..k /\ m - 1 \in Nat
    BY <1>2, SMT
  <2>2. /\ ends[m] = ends[m - 1] + D[m - 1].n_bits /\ ends[m] <= L
        /\ Spells(W, ends[m - 1], D[m - 1].n_bits, code[m])
        /\ D[m - 1].n_bits \in 1..12 /\ ends[m - 1] \in Nat
    BY <1>2, <2>1 DEF OnTheWay
  <2>3. PICK a \in Nat, b \in 1..12 : a = ends[m - 1] /\ b = D[m - 1].n_bits
    BY <2>2
  <2>4. b \in Nat /\ a + b <= L
    BY <2>2, <2>3, SMT
  <2>5. ASSUME NEW i \in 1..b PROVE V[a + i] = W[a + i]
    <3>1. a + i \in 0..L
      BY <2>4, SMT
    <3> QED
      BY <3>1
  <2>6. Spells(W, a, b, code[m])
    BY <2>2, <2>3
  <2>7. Spells(V, a, b, code[m])
    BY <2>4, <2>5, <2>6, SpellsFrame
  <2> QED
    BY <2>3, <2>7
<1>4. Transcript(V, L, p, code, D, ends, k)
  BY <1>1, <1>3, Zenon DEF Transcript
<1> QED
  BY <1>1, <1>4, Zenon DEF Coded

\* One more code.
LEMMA CodedGrows ==
    ASSUME NEW W \in Bits, NEW V \in Bits, NEW L \in Nat, NEW p, NEW d, Coded(W, L, p, d),
           \A i \in 0..L : V[i] = W[i], NEW n, n = d.n_bits, NEW c \in Nat, c # eof_code,
           Spells(V, L, n, c), NEW e, e = Decoded(d, c), OnTheWay(e, p)
    PROVE  Coded(V, L + n, p, e)
<1>1. PICK code, D, ends, k : Transcript(V, L, p, code, D, ends, k) /\ D[k] = d
  <2>1. Coded(V, L, p, d)
    BY CodedFrame, Zenon
  <2> QED
    BY <2>1, Zenon DEF Coded
<1>2. /\ k \in Nat /\ ends \in [Nat -> Nat] /\ code \in [Nat -> Nat]
      /\ D[0] = Start /\ ends[0] = 0 /\ ends[k] = L
      /\ \A m \in 1..k : /\ ends[m] = ends[m - 1] + D[m - 1].n_bits
                         /\ Spells(V, ends[m - 1], D[m - 1].n_bits, code[m])
                         /\ code[m] # eof_code /\ D[m] = Decoded(D[m - 1], code[m])
      /\ \A m \in 0..k : ends[m] <= L /\ OnTheWay(D[m], p)
  BY <1>1, Zenon DEF Transcript
<1>3. n \in 1..12
  <2>1. k \in 0..k
    BY <1>2, SMT
  <2> QED
    BY <1>1, <1>2, <2>1 DEF OnTheWay
<1>4. PICK code2 : code2 = [m \in Nat |-> IF m <= k THEN code[m] ELSE c]
  OBVIOUS
<1>5. PICK D2 : D2 = [m \in Nat |-> IF m <= k THEN D[m] ELSE e]
  OBVIOUS
<1>6. PICK at2 : at2 = [m \in Nat |-> IF m <= k THEN ends[m] ELSE L + n]
  OBVIOUS
<1>7. k + 1 \in Nat /\ ~(k + 1 <= k)
  BY <1>2, SMT
<1>8. /\ \A m \in 0..k : code2[m] = code[m] /\ D2[m] = D[m] /\ at2[m] = ends[m]
      /\ code2[k + 1] = c /\ D2[k + 1] = e /\ at2[k + 1] = L + n
  <2>1. ASSUME NEW m \in 0..k PROVE code2[m] = code[m] /\ D2[m] = D[m] /\ at2[m] = ends[m]
    <3>1. m \in Nat /\ m <= k
      BY <1>2, SMT
    <3> QED
      BY <1>4, <1>5, <1>6, <3>1
  <2>2. code2[k + 1] = c /\ D2[k + 1] = e /\ at2[k + 1] = L + n
    BY <1>4, <1>5, <1>6, <1>7
  <2> QED
    BY <2>1, <2>2
<1>9. at2 \in [Nat -> Nat] /\ code2 \in [Nat -> Nat]
  <2>1. ASSUME NEW m \in Nat PROVE at2[m] \in Nat
    <3>1. ends[m] \in Nat /\ L + n \in Nat
      BY <1>2, <1>3, SMT
    <3> QED
      BY <1>6, <3>1
  <2>2. ASSUME NEW m \in Nat PROVE code2[m] \in Nat
    <3>1. code[m] \in Nat
      BY <1>2
    <3> QED
      BY <1>4, <3>1
  <2> QED
    BY <1>4, <1>6, <2>1, <2>2
<1>10. ASSUME NEW m \in 1..(k + 1)
       PROVE  /\ at2[m] = at2[m - 1] + D2[m - 1].n_bits
              /\ Spells(V, at2[m - 1], D2[m - 1].n_bits, code2[m])
              /\ code2[m] # eof_code /\ D2[m] = Decoded(D2[m - 1], code2[m])
  <2>1. CASE m = k + 1
    <3>1. m - 1 = k /\ k \in 0..k
      BY <1>2, <2>1, SMT
    <3>2. at2[m - 1] = L /\ D2[m - 1] = d
      BY <1>1, <1>2, <1>8, <3>1
    <3> QED
      BY <1>8, <2>1, <3>2
  <2>2. CASE m # k + 1
    <3>1. m \in 1..k /\ m \in 0..k /\ m - 1 \in 0..k
      BY <1>2, <2>2, SMT
    <3>2. /\ ends[m] = ends[m - 1] + D[m - 1].n_bits
          /\ Spells(V, ends[m - 1], D[m - 1].n_bits, code[m])
          /\ code[m] # eof_code /\ D[m] = Decoded(D[m - 1], code[m])
      BY <1>2, <3>1
    <3> QED
      BY <1>8, <3>1, <3>2
  <2> QED
    BY <2>1, <2>2
<1>11. ASSUME NEW m \in 0..(k + 1) PROVE at2[m] <= L + n /\ OnTheWay(D2[m], p)
  <2>1. CASE m = k + 1
    <3>1. L + n <= L + n
      BY <1>3, SMT
    <3> QED
      BY <1>8, <2>1, <3>1
  <2>2. CASE m # k + 1
    <3>1. m \in 0..k /\ m \in Nat
      BY <1>2, <2>2, SMT
    <3>2. ends[m] <= L /\ OnTheWay(D[m], p) /\ ends[m] \in Nat
      BY <1>2, <3>1
    <3>3. ends[m] <= L + n
      BY <1>3, <3>2, SMT
    <3> QED
      BY <1>8, <3>1, <3>2, <3>3
  <2> QED
    BY <2>1, <2>2
<1>12. D2[0] = Start /\ at2[0] = 0
  <2>1. 0 \in 0..k
    BY <1>2, SMT
  <2> QED
    BY <1>2, <1>8, <2>1
<1>13. Transcript(V, L + n, p, code2, D2, at2, k + 1)
  BY <1>7, <1>8, <1>9, <1>10, <1>11, <1>12, Zenon DEF Transcript
<1> QED
  BY <1>8, <1>13, ZenonT(30) DEF Coded

-----------------------------------------------------------------------------
(* The image: lzw_output after a code                                      *)

\* After a code: both sides have the same width, and the next code fits.
Room(l, d) ==
    /\ l.clear_flg = FALSE /\ d.lost = FALSE
    /\ l.n_bits \in (MinCodeSize + 1)..MaxBits /\ d.n_bits = l.n_bits
    /\ l.maxcode = GreatestCode(l.n_bits)
    /\ l.free_ent \in (eof_code + 1)..MaxCodes /\ l.free_ent <= Pow2[l.n_bits]
    /\ l.free_ent < MaxCodes => l.free_ent < Pow2[l.n_bits]

\* The pixels p but for the matched string are on their way to the decoder.
Going(s, tab, e, p) ==
    /\ IsState(s) /\ s.l.cur_bits \in 0..7 /\ p \in Seq(Nat)
    /\ \E W \in Bits, L \in Nat : \E d :
          /\ Sent(s, W, L) /\ Coded(W, L, p, d) /\ Widths(s.l, d)
          /\ Strings(s.l.free_ent, tab, e, p, d)

\* The code e of the matched string is on its way, too, and the decoder, which
\* then has the pixels p, knows all the strings.
AllStrings(f, tab, e, p, d) ==
    \E S, m : /\ Spelled(S, f, m, d) /\ f = eof_code + 1 + m /\ d.prev = e /\ d.pixels = p
              /\ Tabled(S, f, tab) /\ e \in Codes(f)

Written(r, tab, e, p) ==
    /\ IsState(r) /\ r.l.cur_bits \in 0..7 /\ p \in Seq(Nat)
    /\ \E W \in Bits, L \in Nat : \E d :
          /\ Sent(r, W, L) /\ Coded(W, L, p, d) /\ Room(r.l, d)
          /\ AllStrings(r.l.free_ent, tab, e, p, d)

\* The widths of codes: any of them holds a colour, the clear and the end code.
LEMMA WideEnough ==
    ASSUME NEW n \in (MinCodeSize + 1)..MaxBits
    PROVE  /\ n \in 1..12 /\ n \in 0..16 /\ n \in Nat /\ Pow2[n] \in Nat
           /\ clear_code < Pow2[n] /\ eof_code < Pow2[n] /\ 2 * clear_code <= Pow2[n]
<1>1. /\ MaxBits \in 4..12 /\ MinCodeSize \in 2..(MaxBits - 2)
      /\ clear_code = Pow2[MinCodeSize] /\ eof_code = clear_code + 1
      /\ clear_code \in Nat /\ clear_code >= 4
  BY CodeSizes
<1>2. n \in 1..12 /\ n \in 0..16 /\ n \in Nat /\ MinCodeSize \in 0..16 /\ MinCodeSize < n
  BY <1>1, SMT
<1>3. Pow2[n] \in Nat /\ 2 * Pow2[MinCodeSize] <= Pow2[n]
  BY <1>2, Powers, PowersGrow
<1> QED
  BY <1>1, <1>2, <1>3, SMT

\* A change of the width changes nothing of what was sent.
LEMMA SentWidened ==
    ASSUME NEW u, IsState(u), NEW r, SameRest(u.l, r.l), r.out = u.out
    PROVE  /\ IsState(r) /\ r.l.cur_bits = u.l.cur_bits
           /\ \A W, L : Sent(u, W, L) => Sent(r, W, L)
<1>1. r.l \in LzwTypes /\ r.l.accum = u.l.accum /\ r.l.cur_bits = u.l.cur_bits
      /\ r.l.block = u.l.block
  BY Zenon DEF SameRest
<1>2. IsState(r)
  BY <1>1, Zenon DEF IsState
<1>3. ASSUME NEW W, NEW L, Sent(u, W, L) PROVE Sent(r, W, L)
  <2>1. PICK q \in Nat : L = 8 * q + u.l.cur_bits /\ Holds(u, W, q, u.l.cur_bits)
    BY <1>3, Zenon DEF Sent
  <2>2. PICK m : m = u.l.cur_bits
    OBVIOUS
  <2>3. PICK B \in [Nat -> Nat] :
           /\ \A i \in 1..q : Spells(W, 8 * (i - 1), 8, B[i])
           /\ Spells(W, 8 * q, m, u.l.accum)
           /\ u.out.err \/ Stream(u.out.data, u.l.block, B, q)
    BY <2>1, <2>2, Zenon DEF Holds
  <2>4. Spells(W, 8 * q, m, r.l.accum) /\ (r.out.err \/ Stream(r.out.data, r.l.block, B, q))
    BY <1>1, <2>3
  <2>5. Holds(r, W, q, m)
    BY <2>3, <2>4, Zenon DEF Holds
  <2>6. L = 8 * q + r.l.cur_bits /\ Holds(r, W, q, r.l.cur_bits)
    BY <1>1, <2>1, <2>2, <2>5
  <2> QED
    BY <2>6, Zenon DEF Sent
<1> QED
  BY <1>1, <1>2, <1>3

\* A known code fits the width of the codes, and is neither clear nor end code.
LEMMA CodeFits ==
    ASSUME NEW f \in (eof_code + 1)..MaxCodes, NEW n \in (MinCodeSize + 1)..MaxBits,
           f <= Pow2[n], NEW e \in Codes(f)
    PROVE  e \in Nat /\ e < Pow2[n] /\ e # eof_code /\ e # clear_code
<1>1. eof_code \in Nat /\ clear_code \in Nat /\ eof_code = clear_code + 1 /\ MaxCodes \in Nat
  BY CodeSizes, SMT
<1>2. clear_code < Pow2[n] /\ Pow2[n] \in Nat
  BY WideEnough
<1>3. f \in Nat /\ f >= eof_code + 1
  BY <1>1, SMT
<1>4. e \in Nat /\ e # clear_code /\ e # eof_code /\ e < f
  BY <1>3, CodesKnown
<1> QED
  BY <1>2, <1>3, <1>4, SMT

\* A sequence is a prefix of itself.
LEMMA PrefixItself == ASSUME NEW p \in Seq(Nat) PROVE IsPrefix(p, p)
<1>1. SubSeq(p, 1, Len(p)) = p
  BY SubSeqFull
<1>2. Len(p) <= Len(p)
  <2>1. Len(p) \in Nat
    OBVIOUS
  <2> QED
    BY <2>1, SMT
<1> QED
  BY <1>1, <1>2, Zenon DEF IsPrefix

\* The encoder writes the code of the string it has matched.
LEMMA CodeWritten ==
    ASSUME NEW s, NEW tab, NEW e, NEW p, Going(s, tab, e, p), NEW r, r = Output(s, e)
    PROVE  Written(r, tab, e, p)
<1>1. IsState(s) /\ s.l.cur_bits \in 0..7 /\ p \in Seq(Nat)
  BY Zenon DEF Going
<1>2. PICK W \in Bits, L \in Nat : \E d : /\ Sent(s, W, L) /\ Coded(W, L, p, d) /\ Widths(s.l, d)
                                          /\ Strings(s.l.free_ent, tab, e, p, d)
  BY Zenon DEF Going
<1>3. PICK d : /\ Sent(s, W, L) /\ Coded(W, L, p, d) /\ Widths(s.l, d)
               /\ Strings(s.l.free_ent, tab, e, p, d)
  BY <1>2
<1>4. PICK f : f = s.l.free_ent
  OBVIOUS
<1>5. PICK S, n : /\ Spelled(S, f, n, d) /\ Behind1(S, f, n, e, d) /\ Tabled(S, f, tab)
                  /\ e \in Codes(f) /\ p = d.pixels \o S[e]
  BY <1>3, <1>4, Zenon DEF Strings
<1>6. PICK b : b = s.l.n_bits
  OBVIOUS
<1>7. /\ b \in (MinCodeSize + 1)..MaxBits /\ d.n_bits = b /\ d.lost = FALSE
      /\ f \in (eof_code + 1)..MaxCodes /\ f <= Pow2[b]
  BY <1>3, <1>4, <1>6, Zenon DEF Widths
<1>8. e \in Nat /\ e < Pow2[b] /\ e # eof_code
  BY <1>5, <1>7, CodeFits
<1>9. PICK u : u = Pack(s, e)
  OBVIOUS
<1>10. b \in 1..12 /\ b \in Nat
  BY <1>7, WideEnough
<1>11. /\ IsState(u) /\ SameControl(s, u) /\ u.l.cur_bits \in 0..7
       /\ \E V \in Bits : /\ \A i \in 0..L : V[i] = W[i]
                          /\ Spells(V, L, b, e) /\ Sent(u, V, L + b)
  BY <1>1, <1>3, <1>6, <1>8, <1>9, <1>10, CodePacked
<1>12. PICK V \in Bits : /\ \A i \in 0..L : V[i] = W[i]
                         /\ Spells(V, L, b, e) /\ Sent(u, V, L + b)
  BY <1>11
<1>13. PICK w : w = Widen(u.l)
  OBVIOUS
<1>14. r.l = w /\ r.out = u.out
  <2>1. PICK o : o = u.out
    OBVIOUS
  <2>2. r = [l |-> w, out |-> o]
    BY <1>8, <1>9, <1>13, <2>1, Zenon DEF Output
  <2>3. r.l = w /\ r.out = o
    BY <2>2, SMT
  <2> QED
    BY <2>1, <2>3
<1>15. Widths(u.l, d) /\ u.l.free_ent = f
  BY <1>3, <1>4, <1>11, Zenon DEF Widths, SameControl
<1>16. PICK c : c = Decoded(d, e)
  OBVIOUS
<1>17. f \in Nat /\ f >= eof_code + 1 /\ f <= MaxCodes /\ eof_code \in Nat
  <2>1. eof_code \in Nat /\ MaxCodes \in Nat
    BY CodeSizes, SMT
  <2> QED
    BY <1>7, <2>1, SMT
<1>18. PICK m : /\ Spelled(S, f, m, c) /\ f = eof_code + 1 + m /\ c.prev = e
                /\ c.pixels = d.pixels \o S[e] /\ c.lost = FALSE
                /\ c.n_bits = NextWidth(d.n_bits, f)
  <2>1. StringsTold(S, f, e, d, c)
    BY <1>5, <1>7, <1>16, <1>17, CodeDecoded, Zenon
  <2> QED
    BY <2>1, Zenon DEF StringsTold
<1>19. PICK g : g = c.n_bits
  OBVIOUS
<1>20. g = NextWidth(d.n_bits, u.l.free_ent)
  BY <1>15, <1>18, <1>19
<1>21. u.l \in LzwTypes
  BY <1>11, Zenon DEF IsState
<1>22. /\ SameRest(u.l, w) /\ w.clear_flg = FALSE /\ w.free_ent = u.l.free_ent
       /\ w.n_bits = g /\ g \in (MinCodeSize + 1)..MaxBits
       /\ w.maxcode = GreatestCode(g)
       /\ u.l.free_ent < MaxCodes => u.l.free_ent < Pow2[g]
       /\ u.l.free_ent <= Pow2[g]
  <2>1. PICK l : l = u.l
    OBVIOUS
  <2>2. l \in LzwTypes /\ Widths(l, d) /\ w = Widen(l)
        /\ g = NextWidth(d.n_bits, l.free_ent)
    BY <1>13, <1>15, <1>20, <1>21, <2>1
  <2> HIDE <1>13, <1>19
  <2>3. WidenedTo(l, w, g)
    BY <2>2, WidthsFollow, Zenon
  <2> QED
    BY <2>1, <2>3 DEF WidenedTo
<1>23. OnTheWay(c, p)
  <2>1. g \in 1..12
    BY <1>22, WideEnough
  <2>2. c.pixels = p
    BY <1>5, <1>18
  <2> QED
    BY <1>1, <1>18, <1>19, <2>1, <2>2, PrefixItself DEF OnTheWay
<1>24. Coded(V, L + b, p, c)
  <2>1. b = d.n_bits
    BY <1>7
  <2> QED
    BY <1>3, <1>8, <1>12, <1>16, <1>23, <2>1, CodedGrows, Zenon
<1>25. IsState(r) /\ r.l.cur_bits \in 0..7 /\ Sent(r, V, L + b)
  <2>1. SameRest(u.l, r.l) /\ r.out = u.out
    BY <1>14, <1>22
  <2>2. IsState(r) /\ r.l.cur_bits = u.l.cur_bits /\ \A X, M : Sent(u, X, M) => Sent(r, X, M)
    BY <1>11, <2>1, SentWidened, Zenon
  <2> QED
    BY <1>11, <1>12, <2>2
<1>26. Room(r.l, c)
  <2>1. w.free_ent = f
    BY <1>15, <1>22
  <2>2. Room(w, c)
    BY <1>7, <1>15, <1>18, <1>19, <1>22, <2>1, Zenon DEF Room
  <2> QED
    BY <1>14, <2>2
<1>27. AllStrings(r.l.free_ent, tab, e, p, c)
  <2>1. r.l.free_ent = f
    BY <1>14, <1>15, <1>22
  <2>2. c.pixels = p
    BY <1>5, <1>18
  <2>3. AllStrings(f, tab, e, p, c)
    BY <1>5, <1>18, <2>2, Zenon DEF AllStrings
  <2> QED
    BY <2>1, <2>3
<1>28. L + b \in Nat
  BY <1>10, SMT
<1> QED
  BY <1>1, <1>24, <1>25, <1>26, <1>27, <1>28, Zenon DEF Written

-----------------------------------------------------------------------------
(* The image: lzw_compress, pixel by pixel                                 *)

\* A pixel that makes the matched string longer.
LEMMA StringMatched ==
    ASSUME NEW f \in Nat, f >= eof_code + 1, NEW tab, NEW e, NEW p, NEW d, Strings(f, tab, e, p, d),
           NEW x \in Nat, <<e, x>> \in DOMAIN tab
    PROVE  Strings(f, tab, tab[<<e, x>>], Append(p, x), d)
<1>1. PICK S, n : /\ Spelled(S, f, n, d) /\ Behind1(S, f, n, e, d) /\ Tabled(S, f, tab)
                  /\ e \in Codes(f) /\ p = d.pixels \o S[e]
  BY Zenon DEF Strings
<1>2. PICK g : g = tab[<<e, x>>]
  OBVIOUS
<1>3. g \in Codes(f) /\ S[g] = Append(S[e], x)
  BY <1>1, <1>2, Zenon DEF Tabled
<1>4. e \in Nat /\ S \in Texts /\ S[e] # <<>> /\ d.pixels \in Seq(Nat)
  BY <1>1, CodesKnown DEF Spelled
<1>5. S[e] \in Seq(Nat)
  BY <1>4, SMT DEF Texts
<1>6. S[g][1] = S[e][1]
  BY <1>3, <1>4, <1>5, Longer
<1>7. Behind1(S, f, n, g, d)
  BY <1>1, <1>6, Zenon DEF Behind1
<1>8. Append(p, x) = d.pixels \o S[g]
  <2>1. PICK s : s = d.pixels
    OBVIOUS
  <2>2. PICK w : w = S[e]
    OBVIOUS
  <2>3. Append(s \o w, x) = s \o Append(w, x)
    BY <1>4, <1>5, <2>1, <2>2, Joined
  <2> QED
    BY <1>1, <1>3, <2>1, <2>2, <2>3
<1> QED
  BY <1>1, <1>2, <1>3, <1>7, <1>8, Zenon DEF Strings

\* The table t is tab and an entry more.
Entered(t, tab, e, x, f) ==
    t = [k \in DOMAIN tab \union {<<e, x>>} |-> IF k = <<e, x>> THEN f ELSE tab[k]]

\* A string that is not in the table gets the next code.
LEMMA StringAdded ==
    ASSUME NEW f \in Nat, f >= eof_code + 1, NEW tab, NEW e, NEW p \in Seq(Nat), NEW d,
           AllStrings(f, tab, e, p, d), NEW x \in 0..(clear_code - 1),
           NEW t, Entered(t, tab, e, x, f)
    PROVE  Strings(f + 1, t, x, Append(p, x), d)
<1>1. PICK S, m : /\ Spelled(S, f, m, d) /\ f = eof_code + 1 + m /\ d.prev = e /\ d.pixels = p
                  /\ Tabled(S, f, tab) /\ e \in Codes(f)
  BY Zenon DEF AllStrings
<1>2. clear_code \in Nat /\ eof_code = clear_code + 1 /\ eof_code \in Nat /\ x \in Nat
  <2>1. clear_code \in Nat /\ eof_code = clear_code + 1
    BY CodeSizes
  <2> QED
    BY <2>1, SMT
<1>3. /\ S \in Texts /\ \A y \in 0..(clear_code - 1) : S[y] = <<y>>
      /\ \A y \in Codes(f) : S[y] # <<>>
      /\ d.strings \in Seq(Seq(Nat)) /\ d.pixels \in Seq(Nat)
      /\ m \in Nat /\ m = Len(d.strings)
      /\ \A j \in 1..m : S[eof_code + j] = d.strings[j]
  BY <1>1, Zenon DEF Spelled
<1>4. e \in Nat /\ e # f
  <2>1. e \in Nat /\ e < f
    BY <1>1, CodesKnown
  <2> QED
    BY <2>1, SMT
<1>5. PICK s : s = Append(S[e], x)
  OBVIOUS
<1>6. \A y \in Nat : S[y] \in Seq(Nat)
  BY <1>3, SMT DEF Texts
<1>7. s \in Seq(Nat) /\ s # <<>>
  BY <1>2, <1>4, <1>5, <1>6, Longer
<1>8. PICK S2 : S2 = [y \in Nat |-> IF y = f THEN s ELSE S[y]]
  OBVIOUS
<1>9. S2[f] = s /\ \A y \in Nat : y # f => S2[y] = S[y]
  BY <1>8
<1>10. S2 \in Texts
  BY <1>6, <1>7, <1>8 DEF Texts
<1>11. \A y \in Codes(f + 1) : y # f => y \in Codes(f)
  BY <1>2, SMT DEF Codes
<1>12. \A y \in Codes(f) : y \in Codes(f + 1) /\ y \in Nat /\ y # f
  <2>1. ASSUME NEW y \in Codes(f) PROVE y \in Nat /\ y < f
    BY CodesKnown
  <2>2. ASSUME NEW y \in Codes(f) PROVE y \in Codes(f + 1)
    BY <1>2, SMT DEF Codes
  <2>3. ASSUME NEW y \in Codes(f) PROVE y # f
    BY <2>1, SMT
  <2> QED
    BY <2>1, <2>2, <2>3
<1>13. \A y \in 0..(clear_code - 1) : y \in Nat /\ y # f /\ y \in Codes(f + 1)
  BY <1>2, SMT DEF Codes
<1>14. ASSUME NEW y \in Codes(f + 1) PROVE S2[y] # <<>>
  <2>1. CASE y = f
    BY <1>7, <1>9, <2>1
  <2>2. CASE y # f
    BY <1>3, <1>9, <1>11, <1>12, <2>2
  <2> QED
    BY <2>1, <2>2
<1>15. ASSUME NEW j \in 1..m PROVE S2[eof_code + j] = d.strings[j]
  <2>1. m \in Nat /\ f = eof_code + 1 + m
    BY <1>1, <1>3
  <2>2. eof_code + j \in Nat /\ eof_code + j # f
    BY <1>2, <2>1, SMT
  <2> QED
    BY <1>3, <1>9, <2>2
<1>16. Spelled(S2, f + 1, m, d)
  <2>1. \A y \in 0..(clear_code - 1) : S2[y] = <<y>>
    BY <1>3, <1>9, <1>13
  <2> QED
    BY <1>3, <1>10, <1>14, <1>15, <2>1, Zenon DEF Spelled
<1>17. S2[x] = <<x>> /\ x \in Codes(f + 1)
  BY <1>3, <1>9, <1>13
<1>18. Behind1(S2, f + 1, m, x, d)
  <2>1. m \in Nat /\ f = eof_code + 1 + m
    BY <1>1, <1>3
  <2>2. (f + 1) - 1 = f /\ f + 1 = eof_code + 2 + m
    BY <1>2, <2>1, SMT
  <2>3. S2[x][1] = x
    BY <1>17
  <2>4. S2[(f + 1) - 1] = Append(S2[d.prev], S2[x][1]) /\ d.prev \in Codes((f + 1) - 1)
    BY <1>1, <1>4, <1>5, <1>9, <2>2, <2>3
  <2> QED
    BY <2>2, <2>4, Zenon DEF Behind1
<1>22. t = [k \in DOMAIN tab \union {<<e, x>>} |-> IF k = <<e, x>> THEN f ELSE tab[k]]
  BY DEF Entered
<1>19. ASSUME NEW a, NEW c, <<a, c>> \in DOMAIN t
       PROVE  a \in Codes(f + 1) /\ t[<<a, c>>] \in Codes(f + 1)
              /\ S2[t[<<a, c>>]] = Append(S2[a], c)
  <2>1. CASE <<a, c>> = <<e, x>>
    <3>1. a = e /\ c = x /\ t[<<a, c>>] = f
      BY <1>22, <2>1
    <3>2. f \in Codes(f + 1)
      BY <1>2, SMT DEF Codes
    <3> QED
      BY <1>1, <1>4, <1>5, <1>9, <1>12, <3>1, <3>2
  <2>2. CASE <<a, c>> # <<e, x>>
    <3>1. <<a, c>> \in DOMAIN tab /\ t[<<a, c>>] = tab[<<a, c>>]
      BY <1>19, <1>22, <2>2
    <3>2. a \in Codes(f) /\ tab[<<a, c>>] \in Codes(f) /\ S[tab[<<a, c>>]] = Append(S[a], c)
      BY <1>1, <3>1, Zenon DEF Tabled
    <3> QED
      BY <1>9, <1>12, <3>1, <3>2
  <2> QED
    BY <2>1, <2>2
<1>20. Tabled(S2, f + 1, t)
  BY <1>19, Zenon DEF Tabled
<1>21. Append(p, x) = d.pixels \o S2[x]
  <2>1. Append(p, x) = p \o <<x>>
    BY <1>2, Joined
  <2> QED
    BY <1>1, <1>17, <2>1
<1> QED
  BY <1>16, <1>17, <1>18, <1>20, <1>21, Zenon DEF Strings

\* After a clear code nothing is known but the colours.
LEMMA StringsCleared ==
    ASSUME NEW d, d.strings = <<>>, d.prev = -1, d.pixels \in Seq(Nat),
           NEW x \in 0..(clear_code - 1)
    PROVE  Strings(eof_code + 1, NoCodes, x, Append(d.pixels, x), d)
<1>1. clear_code \in Nat /\ eof_code = clear_code + 1 /\ eof_code \in Nat /\ x \in Nat
  <2>1. clear_code \in Nat /\ eof_code = clear_code + 1
    BY CodeSizes
  <2> QED
    BY <2>1, SMT
<1>2. PICK S : S = [y \in Nat |-> <<y>>]
  OBVIOUS
<1>3. \A y \in Nat : S[y] = <<y>>
  BY <1>2
<1>4. S \in Texts
  BY <1>2 DEF Texts
<1>5. \A y \in Codes(eof_code + 1) : y \in 0..(clear_code - 1) /\ y \in Nat
  BY <1>1, SMT DEF Codes
<1>6. \A y \in Codes(eof_code + 1) : S[y] # <<>>
  BY <1>3, <1>5
<1>7. d.strings \in Seq(Seq(Nat)) /\ 0 = Len(d.strings)
  <2>1. <<>> \in Seq(Seq(Nat)) /\ Len(<<>>) = 0
    OBVIOUS
  <2> QED
    BY <2>1
<1>8. \A j \in 1..0 : S[eof_code + j] = d.strings[j]
  BY SMT
<1>9. \A y \in 0..(clear_code - 1) : S[y] = <<y>>
  BY <1>1, <1>3
<1>10. 0 \in Nat
  OBVIOUS
<1>11. Spelled(S, eof_code + 1, 0, d)
  BY <1>4, <1>6, <1>7, <1>8, <1>9, <1>10, Zenon DEF Spelled
<1>12. Behind1(S, eof_code + 1, 0, x, d)
  BY Zenon DEF Behind1
<1>13. Tabled(S, eof_code + 1, NoCodes)
  <2>1. DOMAIN NoCodes = {}
    BY DEF NoCodes
  <2> QED
    BY <2>1, Zenon DEF Tabled
<1>14. x \in Codes(eof_code + 1)
  BY <1>1, SMT DEF Codes
<1>15. Append(d.pixels, x) = d.pixels \o S[x]
  <2>1. Append(d.pixels, x) = d.pixels \o <<x>>
    BY <1>1, Joined
  <2> QED
    BY <1>1, <1>3, <2>1
<1> QED
  BY <1>11, <1>12, <1>13, <1>14, <1>15, Zenon DEF Strings

\* The code is written, and the string with the next pixel gets the next code.
LEMMA EntryAdded ==
    ASSUME NEW s, NEW tab, NEW e, NEW p, Written(s, tab, e, p), NEW x \in 0..(clear_code - 1),
           s.l.free_ent < MaxCodes,
           NEW r, r.l = [s.l EXCEPT !.free_ent = @ + 1], r.out = s.out,
           NEW t, Entered(t, tab, e, x, s.l.free_ent)
    PROVE  Going(r, t, x, Append(p, x))
<1>1. IsState(s) /\ s.l.cur_bits \in 0..7 /\ p \in Seq(Nat)
  BY Zenon DEF Written
<1>2. PICK W \in Bits, L \in Nat : \E d : /\ Sent(s, W, L) /\ Coded(W, L, p, d) /\ Room(s.l, d)
                                          /\ AllStrings(s.l.free_ent, tab, e, p, d)
  BY Zenon DEF Written
<1>3. PICK d : /\ Sent(s, W, L) /\ Coded(W, L, p, d) /\ Room(s.l, d)
               /\ AllStrings(s.l.free_ent, tab, e, p, d)
  BY <1>2
<1>4. PICK l : l = s.l
  OBVIOUS
<1>5. PICK f : f = l.free_ent
  OBVIOUS
<1>6. /\ l.clear_flg = FALSE /\ d.lost = FALSE
      /\ l.n_bits \in (MinCodeSize + 1)..MaxBits /\ d.n_bits = l.n_bits
      /\ l.maxcode = GreatestCode(l.n_bits)
      /\ f \in (eof_code + 1)..MaxCodes /\ f <= Pow2[l.n_bits]
      /\ f < MaxCodes => f < Pow2[l.n_bits]
  BY <1>3, <1>4, <1>5, Zenon DEF Room
<1>7. clear_code \in Nat /\ eof_code = clear_code + 1 /\ eof_code \in Nat /\ x \in Nat
      /\ MaxCodes \in Nat
  <2>1. clear_code \in Nat /\ eof_code = clear_code + 1 /\ MaxCodes \in Nat
    BY CodeSizes
  <2> QED
    BY <2>1, SMT
<1>8. f \in Nat /\ f >= eof_code + 1 /\ f < MaxCodes
  BY <1>4, <1>5, <1>6, <1>7, SMT
<1>9. PICK g : g = f + 1
  OBVIOUS
<1>10. g \in Nat /\ g \in (eof_code + 1)..MaxCodes
  BY <1>7, <1>8, <1>9, SMT
<1>11. g <= Pow2[l.n_bits]
  <2>1. PICK n : n = Pow2[l.n_bits]
    OBVIOUS
  <2>2. n \in Nat
    BY <1>6, <2>1, WideEnough
  <2>3. f < n
    BY <1>6, <1>8, <2>1
  <2>4. g <= n
    <3> HIDE <2>1
    <3> QED
      BY <1>8, <1>9, <2>2, <2>3, SMT
  <2> QED
    BY <2>1, <2>4
<1>12. l \in LzwTypes
  BY <1>1, <1>4, Zenon DEF IsState
<1>13. PICK m : m = r.l
  OBVIOUS
<1>14. /\ SameRest(l, m) /\ m.free_ent = g /\ m.clear_flg = FALSE
       /\ m.n_bits = l.n_bits /\ m.maxcode = l.maxcode
  <2>1. m = [l EXCEPT !.free_ent = g]
    BY <1>4, <1>5, <1>9, <1>13
  <2>2. PICK no \in BOOLEAN : no = l.clear_flg
    BY <1>12, LzwFields
  <2>3. m = [l EXCEPT !.free_ent = g, !.clear_flg = no]
    <3>1. [l EXCEPT !.free_ent = g] = [l EXCEPT !.free_ent = g, !.clear_flg = l.clear_flg]
      BY <1>10, <1>12, NothingWider
    <3> QED
      BY <2>1, <2>2, <3>1
  <2>4. IsEntered(m, l, g, no)
    BY <2>3, Zenon DEF IsEntered
  <2>5. /\ SameRest(l, m) /\ m.free_ent = g /\ m.clear_flg = no
        /\ m.n_bits = l.n_bits /\ m.maxcode = l.maxcode
    <3> HIDE <2>2, <1>9
    <3> QED
      BY <1>10, <1>12, <2>4, LzwEntry, SMT
  <2> QED
    BY <1>6, <2>2, <2>5
<1>15. IsState(r) /\ r.l.cur_bits = l.cur_bits /\ Sent(r, W, L)
  <2>1. SameRest(s.l, r.l) /\ r.out = s.out
    BY <1>4, <1>13, <1>14
  <2>2. IsState(r) /\ r.l.cur_bits = s.l.cur_bits /\ \A X, M : Sent(s, X, M) => Sent(r, X, M)
    BY <1>1, <2>1, SentWidened, Zenon
  <2> QED
    BY <1>3, <1>4, <2>2
<1>16. Widths(r.l, d)
  <2>1. Widths(m, d)
    BY <1>6, <1>10, <1>11, <1>14, Zenon DEF Widths
  <2> QED
    BY <1>13, <2>1
<1>17. Strings(r.l.free_ent, t, x, Append(p, x), d)
  <2>1. AllStrings(f, tab, e, p, d)
    BY <1>3, <1>4, <1>5
  <2>2. Entered(t, tab, e, x, f)
    BY <1>4, <1>5
  <2>3. Strings(f + 1, t, x, Append(p, x), d)
    BY <1>1, <1>8, <2>1, <2>2, StringAdded, Zenon
  <2> QED
    BY <1>9, <1>13, <1>14, <2>3
<1>18. Coded(W, L, Append(p, x), d)
  BY <1>1, <1>3, <1>7, CodedLonger
<1>19. Append(p, x) \in Seq(Nat)
  BY <1>1, <1>7, Longer
<1>20. r.l.cur_bits \in 0..7
  BY <1>1, <1>4, <1>15
<1> QED
  BY <1>15, <1>16, <1>17, <1>18, <1>19, <1>20, Zenon DEF Going

\* A clear code: the codes have their first width again, and stand for colours.
LEMMA ClearWritten ==
    ASSUME NEW s, IsState(s), s.l.cur_bits \in 0..7, NEW W \in Bits, NEW L \in Nat,
           NEW p \in Seq(Nat),
           NEW d, Sent(s, W, L), Coded(W, L, p, d), d.pixels \in Seq(Nat), d.lost = FALSE,
           NEW b \in (MinCodeSize + 1)..MaxBits, s.l.n_bits = b, d.n_bits = b,
           s.l.free_ent = eof_code + 1,
           s.l.clear_flg \/ (b = MinCodeSize + 1 /\ s.l.maxcode = Pow2[b] - 1),
           NEW x \in 0..(clear_code - 1), p = Append(d.pixels, x),
           NEW r, r = Output(s, clear_code)
    PROVE  Going(r, NoCodes, x, p)
<1>1. /\ MaxBits \in 4..12 /\ MinCodeSize \in 2..(MaxBits - 2)
      /\ clear_code \in Nat /\ clear_code >= 4 /\ eof_code = clear_code + 1
      /\ MaxCodes \in Nat /\ 4 * clear_code <= MaxCodes
      /\ Pow2[MinCodeSize + 1] = 2 * clear_code
  BY CodeSizes
<1>2. /\ b \in 1..12 /\ b \in Nat /\ clear_code < Pow2[b]
  BY WideEnough
<1>3. clear_code # eof_code /\ eof_code \in Nat
  BY <1>1, SMT
<1>4. PICK u : u = Pack(s, clear_code)
  OBVIOUS
<1>5. /\ IsState(u) /\ SameControl(s, u) /\ u.l.cur_bits \in 0..7
      /\ \E V \in Bits : /\ \A i \in 0..L : V[i] = W[i]
                         /\ Spells(V, L, b, clear_code) /\ Sent(u, V, L + b)
  BY <1>1, <1>2, <1>4, CodePacked
<1>6. PICK V \in Bits : /\ \A i \in 0..L : V[i] = W[i]
                        /\ Spells(V, L, b, clear_code) /\ Sent(u, V, L + b)
  BY <1>5
<1>7. PICK l : l = u.l
  OBVIOUS
<1>8. PICK w : w = Widen(l)
  OBVIOUS
<1>9. r.l = w /\ r.out = u.out
  <2>1. PICK o : o = u.out
    OBVIOUS
  <2>2. r = [l |-> w, out |-> o]
    BY <1>3, <1>4, <1>7, <1>8, <2>1, Zenon DEF Output
  <2>3. r.l = w /\ r.out = o
    BY <2>2, SMT
  <2> QED
    BY <2>1, <2>3
<1>10. /\ l \in LzwTypes /\ l.n_bits = b /\ l.free_ent = eof_code + 1
       /\ l.clear_flg \/ (b = MinCodeSize + 1 /\ l.maxcode = Pow2[b] - 1)
       /\ l.clear_flg \in BOOLEAN
  BY <1>5, <1>7, LzwFields, Zenon DEF IsState, SameControl
<1>11. PICK a \in Nat : a = MinCodeSize + 1
  BY <1>1, SMT
<1>12. PICK m \in Nat : m = Pow2[MinCodeSize + 1] - 1
  BY <1>1, SMT
<1>13. a \in (MinCodeSize + 1)..MaxBits /\ a # MaxBits /\ eof_code + 1 <= m
       /\ eof_code + 1 \in (eof_code + 1)..MaxCodes /\ eof_code + 1 <= Pow2[a]
  <2>1. Pow2[a] = 2 * clear_code /\ m = 2 * clear_code - 1
    BY <1>1, <1>11, <1>12
  <2> QED
    BY <1>1, <1>11, <2>1, SMT
<1>14. /\ SameRest(l, w) /\ w.n_bits = a /\ w.maxcode = m /\ w.clear_flg = FALSE
       /\ w.free_ent = eof_code + 1
  <2>1. CASE l.clear_flg
    <3>1. w = [l EXCEPT !.n_bits = a, !.maxcode = m, !.clear_flg = FALSE]
      BY <1>8, <1>11, <1>12, <2>1, Zenon DEF Widen
    <3>2. PICK no \in BOOLEAN : no = FALSE
      OBVIOUS
    <3>3. IsWidened(w, l, a, m, no)
      BY <3>1, <3>2, Zenon DEF IsWidened
    <3>4. /\ SameRest(l, w) /\ w.n_bits = a /\ w.maxcode = m /\ w.clear_flg = no
          /\ w.free_ent = l.free_ent
      <4> HIDE <3>2
      <4> QED
        BY <1>10, <3>3, LzwWiden, SMT
    <3> QED
      BY <1>10, <3>2, <3>4
  <2>2. CASE ~l.clear_flg
    <3>1. b = a /\ l.maxcode = m
      BY <1>10, <1>11, <1>12, <2>2
    <3>2. ~(l.free_ent > l.maxcode)
      <4>1. PICK f : f = l.free_ent
        OBVIOUS
      <4>2. f = eof_code + 1
        BY <1>10, <4>1
      <4>3. ~(f > m)
        <5> HIDE <4>1
        <5> QED
          BY <1>3, <1>13, <4>2, SMT
      <4> QED
        BY <3>1, <4>1, <4>3
    <3>3. w = l
      BY <1>8, <2>2, <3>2, Zenon DEF Widen
    <3>4. l.clear_flg = FALSE
      BY <1>10, <2>2, Zenon
    <3> QED
      BY <1>10, <3>1, <3>3, <3>4, Zenon DEF SameRest
  <2> QED
    BY <1>10, <2>1, <2>2
<1>15. PICK c : c = Decoded(d, clear_code)
  OBVIOUS
<1>16. /\ c.n_bits = a /\ c.strings = <<>> /\ c.prev = -1 /\ c.pixels = d.pixels
       /\ c.lost = FALSE
  <2>1. PICK e : e = <<>>
    OBVIOUS
  <2>2. PICK i \in Int : i = -1
    BY SMT
  <2>3. PICK q : q = d.pixels
    OBVIOUS
  <2>4. PICK no \in BOOLEAN : no = d.lost
    OBVIOUS
  <2>5. c = [n_bits |-> a, strings |-> e, prev |-> i, pixels |-> q, lost |-> no]
    BY <1>11, <1>15, <2>1, <2>2, <2>3, <2>4, Zenon DEF Decoded
  <2>6. c.n_bits = a /\ c.strings = e /\ c.prev = i /\ c.pixels = q /\ c.lost = no
    <3> HIDE <1>11, <1>15, <2>1, <2>2, <2>3, <2>4
    <3> QED
      BY <2>5, SMT
  <2> QED
    BY <2>1, <2>2, <2>3, <2>4, <2>6
<1>17. x \in Nat
  BY <1>1, SMT
<1>18. OnTheWay(c, p)
  <2>1. a \in 1..12
    BY <1>13, WideEnough
  <2>2. IsPrefix(d.pixels, Append(d.pixels, x))
    BY <1>17, PrefixItself, PrefixLonger
  <2> QED
    BY <1>16, <2>1, <2>2 DEF OnTheWay
<1>19. Coded(V, L + b, p, c)
  BY <1>1, <1>3, <1>6, <1>15, <1>18, CodedGrows, Zenon
<1>20. IsState(r) /\ r.l.cur_bits \in 0..7 /\ Sent(r, V, L + b)
  <2>1. SameRest(u.l, r.l) /\ r.out = u.out
    BY <1>7, <1>9, <1>14
  <2>2. IsState(r) /\ r.l.cur_bits = u.l.cur_bits /\ \A X, M : Sent(u, X, M) => Sent(r, X, M)
    BY <1>5, <2>1, SentWidened, Zenon
  <2> QED
    BY <1>5, <1>6, <2>2
<1>21. Widths(r.l, c)
  <2>1. m = GreatestCode(a)
    BY <1>11, <1>12, <1>13 DEF GreatestCode
  <2>2. Widths(w, c)
    BY <1>13, <1>14, <1>16, <2>1, Zenon DEF Widths
  <2> QED
    BY <1>9, <2>2
<1>22. Strings(r.l.free_ent, NoCodes, x, p, c)
  <2>1. Strings(eof_code + 1, NoCodes, x, Append(c.pixels, x), c)
    BY <1>16, StringsCleared
  <2> QED
    BY <1>9, <1>14, <1>16, <2>1
<1>23. L + b \in Nat
  BY <1>2, SMT
<1> QED
  BY <1>19, <1>20, <1>21, <1>22, <1>23, Zenon DEF Going

\* What the encoder knows does not depend on how its state is put together.
LEMMA GoingSame ==
    ASSUME NEW s, NEW tab, NEW e, NEW p, Going(s, tab, e, p), NEW r, r.l = s.l, r.out = s.out
    PROVE  Going(r, tab, e, p)
<1>1. IsState(s) /\ s.l.cur_bits \in 0..7 /\ p \in Seq(Nat)
  BY Zenon DEF Going
<1>2. PICK W \in Bits, L \in Nat : \E d : /\ Sent(s, W, L) /\ Coded(W, L, p, d) /\ Widths(s.l, d)
                                          /\ Strings(s.l.free_ent, tab, e, p, d)
  BY Zenon DEF Going
<1>3. SameRest(s.l, r.l)
  BY <1>1, Zenon DEF SameRest, IsState
<1>4. IsState(r) /\ r.l.cur_bits = s.l.cur_bits /\ \A X, M : Sent(s, X, M) => Sent(r, X, M)
  BY <1>1, <1>3, SentWidened, Zenon
<1>5. \E d : /\ Sent(r, W, L) /\ Coded(W, L, p, d) /\ Widths(r.l, d)
             /\ Strings(r.l.free_ent, tab, e, p, d)
  BY <1>2, <1>4
<1>6. r.l.cur_bits \in 0..7
  BY <1>1
<1> QED
  BY <1>1, <1>4, <1>5, <1>6, Zenon DEF Going

\* A pixel that makes the matched string longer: nothing is written.
LEMMA PixelMatched ==
    ASSUME NEW s, NEW tab, NEW e, NEW p, Going(s, tab, e, p), NEW x \in Nat,
           <<e, x>> \in DOMAIN tab
    PROVE  Going(s, tab, tab[<<e, x>>], Append(p, x))
<1>1. IsState(s) /\ s.l.cur_bits \in 0..7 /\ p \in Seq(Nat)
  BY Zenon DEF Going
<1>2. PICK W \in Bits, L \in Nat : \E d : /\ Sent(s, W, L) /\ Coded(W, L, p, d) /\ Widths(s.l, d)
                                          /\ Strings(s.l.free_ent, tab, e, p, d)
  BY Zenon DEF Going
<1>3. PICK d : /\ Sent(s, W, L) /\ Coded(W, L, p, d) /\ Widths(s.l, d)
               /\ Strings(s.l.free_ent, tab, e, p, d)
  BY <1>2
<1>4. PICK f : f = s.l.free_ent
  OBVIOUS
<1>5. f \in Nat /\ f >= eof_code + 1
  <2>1. f \in (eof_code + 1)..MaxCodes
    BY <1>3, <1>4, Zenon DEF Widths
  <2>2. eof_code = clear_code + 1 /\ clear_code \in Nat /\ MaxCodes \in Nat
    BY CodeSizes
  <2> QED
    BY <2>1, <2>2, SMT
<1>6. Strings(f, tab, tab[<<e, x>>], Append(p, x), d)
  BY <1>3, <1>4, <1>5, StringMatched
<1>7. Strings(s.l.free_ent, tab, tab[<<e, x>>], Append(p, x), d)
  BY <1>4, <1>6
<1>8. Coded(W, L, Append(p, x), d)
  BY <1>1, <1>3, CodedLonger
<1>9. Append(p, x) \in Seq(Nat)
  BY <1>1, Longer
<1> QED
  BY <1>1, <1>3, <1>7, <1>8, <1>9, Zenon DEF Going

\* The table is full: a clear code behind the code of the matched string.
LEMMA TableFull ==
    ASSUME NEW s, NEW tab, NEW e, NEW p, Written(s, tab, e, p), NEW x \in 0..(clear_code - 1),
           NEW t, t.l = [s.l EXCEPT !.free_ent = clear_code + 2, !.clear_flg = TRUE],
           t.out = s.out, NEW r, r = Output(t, clear_code)
    PROVE  Going(r, NoCodes, x, Append(p, x))
<1>1. IsState(s) /\ s.l.cur_bits \in 0..7 /\ p \in Seq(Nat)
  BY Zenon DEF Written
<1>2. PICK W \in Bits, L \in Nat : \E d : /\ Sent(s, W, L) /\ Coded(W, L, p, d) /\ Room(s.l, d)
                                          /\ AllStrings(s.l.free_ent, tab, e, p, d)
  BY Zenon DEF Written
<1>3. PICK d : /\ Sent(s, W, L) /\ Coded(W, L, p, d) /\ Room(s.l, d)
               /\ AllStrings(s.l.free_ent, tab, e, p, d)
  BY <1>2
<1>4. PICK l : l = s.l
  OBVIOUS
<1>5. PICK b : b = l.n_bits
  OBVIOUS
<1>6. b \in (MinCodeSize + 1)..MaxBits /\ d.n_bits = b /\ d.lost = FALSE
  BY <1>3, <1>4, <1>5, Zenon DEF Room
<1>7. d.pixels = p
  BY <1>3, Zenon DEF AllStrings
<1>8. x \in Nat /\ clear_code + 2 \in Nat /\ clear_code + 2 = eof_code + 1
  <2>1. clear_code \in Nat /\ eof_code = clear_code + 1
    BY CodeSizes
  <2> QED
    BY <2>1, SMT
<1>9. l \in LzwTypes
  BY <1>1, <1>4, Zenon DEF IsState
<1>10. PICK m : m = t.l
  OBVIOUS
<1>11. /\ SameRest(l, m) /\ m.free_ent = clear_code + 2 /\ m.clear_flg
       /\ m.n_bits = l.n_bits /\ m.maxcode = l.maxcode
  <2>1. PICK g \in Nat : g = clear_code + 2
    BY <1>8
  <2>2. PICK yes \in BOOLEAN : yes = TRUE
    OBVIOUS
  <2>3. IsEntered(m, l, g, yes)
    BY <1>4, <1>10, <2>1, <2>2 DEF IsEntered
  <2>4. /\ SameRest(l, m) /\ m.free_ent = g /\ m.clear_flg = yes
        /\ m.n_bits = l.n_bits /\ m.maxcode = l.maxcode
    <3> HIDE <2>1, <2>2
    <3> QED
      BY <1>9, <2>3, LzwEntry, SMT
  <2> QED
    BY <2>1, <2>2, <2>4
<1>12. IsState(t) /\ t.l.cur_bits \in 0..7 /\ Sent(t, W, L)
  <2>1. SameRest(s.l, t.l) /\ t.out = s.out
    BY <1>4, <1>10, <1>11
  <2>2. IsState(t) /\ t.l.cur_bits = s.l.cur_bits /\ \A X, M : Sent(s, X, M) => Sent(t, X, M)
    BY <1>1, <2>1, SentWidened, Zenon
  <2> QED
    BY <1>1, <1>3, <2>2
<1>13. t.l.n_bits = b /\ t.l.free_ent = eof_code + 1 /\ t.l.clear_flg
  BY <1>5, <1>8, <1>10, <1>11
<1>14. Coded(W, L, Append(p, x), d)
  BY <1>1, <1>3, <1>8, CodedLonger
<1>15. PICK z : z = Append(p, x)
  OBVIOUS
<1>16. z \in Seq(Nat) /\ Coded(W, L, z, d) /\ z = Append(d.pixels, x) /\ d.pixels \in Seq(Nat)
  BY <1>1, <1>7, <1>8, <1>14, <1>15, Longer
<1>17. Going(r, NoCodes, x, z)
  BY <1>6, <1>12, <1>13, <1>16, ClearWritten, Zenon
<1> QED
  BY <1>15, <1>17

\* With room for the next code, the width stays.
LEMMA RoomIsEnough ==
    ASSUME NEW l \in LzwTypes, NEW d, Room(l, d)
    PROVE  Widen(l) = l
<1>1. PICK b : b = l.n_bits
  OBVIOUS
<1>2. PICK f : f = l.free_ent
  OBVIOUS
<1>3. PICK m : m = l.maxcode
  OBVIOUS
<1>4. /\ l.clear_flg = FALSE /\ b \in (MinCodeSize + 1)..MaxBits
      /\ m = GreatestCode(b)
      /\ f \in (eof_code + 1)..MaxCodes /\ f <= Pow2[b] /\ (f < MaxCodes => f < Pow2[b])
  BY <1>1, <1>2, <1>3, Zenon DEF Room
<1>5. MaxBits \in 4..12 /\ MaxCodes = Pow2[MaxBits] /\ MaxCodes \in Nat /\ eof_code \in Nat
  <2>1. MaxBits \in 4..12 /\ MaxCodes = Pow2[MaxBits] /\ MaxCodes \in Nat
        /\ eof_code = clear_code + 1 /\ clear_code \in Nat
    BY CodeSizes
  <2> QED
    BY <2>1, SMT
<1>6. b \in 0..16 /\ Pow2[b] \in Nat /\ Pow2[b] >= 1 /\ MaxBits \in 0..16
  BY <1>4, <1>5, WideEnough, Powers
<1>7. ~(f > m)
  <2>1. CASE b = MaxBits
    <3>1. m = MaxCodes
      BY <1>4, <2>1 DEF GreatestCode
    <3> QED
      BY <1>4, <1>5, <3>1, SMT
  <2>2. CASE b # MaxBits
    <3>1. m = Pow2[b] - 1
      BY <1>4, <2>2 DEF GreatestCode
    <3>2. b < MaxBits
      <4>1. b \in Int /\ b <= MaxBits
        BY <1>4, <1>5, <1>6, SMT
      <4> QED
        BY <1>5, <2>2, <4>1, SMT
    <3>3. 2 * Pow2[b] <= Pow2[MaxBits]
      BY <1>6, <3>2, PowersGrow
    <3>4. f \in Int
      BY <1>4, <1>5, SMT
    <3> QED
      BY <1>4, <1>5, <1>6, <3>1, <3>3, <3>4, SMT
  <2> QED
    BY <2>1, <2>2
<1> QED
  BY <1>2, <1>3, <1>4, <1>7, Zenon DEF Widen

\* The stream data stands for the pixels p: its bits V are k codes, L bits, and
\* the end code; its bytes B are at pos.
Course(data, p, V, L, code, D, ends, k, B, q, pos, rest) ==
    /\ V \in Bits /\ L \in Nat /\ p \in Seq(Nat)
    /\ Transcript(V, L, p, code, D, ends, k) /\ D[k].pixels = p
    /\ Spells(V, L, D[k].n_bits, eof_code)
    /\ Ended(data, V, L + D[k].n_bits, B, q, pos, rest)

Complete(data, p) ==
    \E V, L, code, D, ends, k, B, q, pos, rest :
        Course(data, p, V, L, code, D, ends, k, B, q, pos, rest)

\* The last code, the end code, and the end of the stream.
LEMMA StreamWritten ==
    ASSUME NEW s, NEW tab, NEW e, NEW p, Written(s, tab, e, p), NEW r, r = Output(s, eof_code),
           NEW all, all = GbufPut(r.out, << 0 >>)
    PROVE  /\ all.err \in BOOLEAN
           /\ ~all.err => Complete(all.data, p)
<1>1. IsState(s) /\ s.l.cur_bits \in 0..7 /\ p \in Seq(Nat)
  BY Zenon DEF Written
<1>2. PICK W \in Bits, L \in Nat : \E d : /\ Sent(s, W, L) /\ Coded(W, L, p, d) /\ Room(s.l, d)
                                          /\ AllStrings(s.l.free_ent, tab, e, p, d)
  BY Zenon DEF Written
<1>3. PICK d : /\ Sent(s, W, L) /\ Coded(W, L, p, d) /\ Room(s.l, d)
               /\ AllStrings(s.l.free_ent, tab, e, p, d)
  BY <1>2
<1>4. PICK b : b = s.l.n_bits
  OBVIOUS
<1>5. b \in (MinCodeSize + 1)..MaxBits /\ d.n_bits = b /\ d.pixels = p
  BY <1>3, <1>4, Zenon DEF Room, AllStrings
<1>6. b \in 1..12 /\ b \in Nat /\ eof_code < Pow2[b] /\ eof_code \in Nat
  <2>1. eof_code = clear_code + 1 /\ clear_code \in Nat
    BY CodeSizes
  <2> QED
    BY <1>5, <2>1, WideEnough, SMT
<1>7. PICK u : u = Pack(s, eof_code)
  OBVIOUS
<1>8. /\ IsState(u) /\ SameControl(s, u) /\ u.l.cur_bits \in 0..7
      /\ \E V \in Bits : /\ \A i \in 0..L : V[i] = W[i]
                         /\ Spells(V, L, b, eof_code) /\ Sent(u, V, L + b)
  BY <1>1, <1>3, <1>4, <1>6, <1>7, CodePacked
<1>9. PICK V \in Bits : /\ \A i \in 0..L : V[i] = W[i]
                        /\ Spells(V, L, b, eof_code) /\ Sent(u, V, L + b)
  BY <1>8
<1>10. Widen(u.l) = u.l
  <2>1. u.l \in LzwTypes
    BY <1>8, Zenon DEF IsState
  <2>2. Room(u.l, d)
    BY <1>3, <1>8, Zenon DEF Room, SameControl
  <2> QED
    BY <2>1, <2>2, RoomIsEnough, Zenon
<1>11. PICK w : w = [l |-> u.l, out |-> u.out]
  OBVIOUS
<1>12. w.l = u.l /\ w.out = u.out
  <2>1. PICK a : a = u.l
    OBVIOUS
  <2>2. PICK o : o = u.out
    OBVIOUS
  <2>3. w = [l |-> a, out |-> o]
    BY <1>11, <2>1, <2>2
  <2>4. w.l = a /\ w.out = o
    BY <2>3, SMT
  <2> QED
    BY <2>1, <2>2, <2>4
<1>13. r = FlushBlock(LastOut(w))
  <2>1. w = [l |-> Widen(u.l), out |-> u.out]
    BY <1>10, <1>11
  <2> QED
    BY <1>7, <2>1, Zenon DEF Output, LastOut
<1>14. IsState(w) /\ w.l.cur_bits \in 0..7 /\ Sent(w, V, L + b)
  <2>1. SameRest(u.l, w.l) /\ w.out = u.out
    BY <1>8, <1>12, Zenon DEF SameRest, IsState
  <2>2. IsState(w) /\ w.l.cur_bits = u.l.cur_bits /\ \A X, M : Sent(u, X, M) => Sent(w, X, M)
    BY <1>8, <2>1, SentWidened, Zenon
  <2> QED
    BY <1>8, <1>9, <2>2
<1>15. PICK M \in Nat : M = L + b
  BY <1>6, SMT
<1>16. SentToEnd(all, V, M)
  <2>1. Sent(w, V, M)
    BY <1>14, <1>15
  <2> QED
    BY <1>13, <1>14, <2>1, StreamEnds, Zenon
<1>17. ASSUME ~all.err PROVE Complete(all.data, p)
  <2>1. PICK X \in Bits : /\ \A i \in 0..M : X[i] = V[i]
                          /\ \E B, q, pos, rest : Ended(all.data, X, M, B, q, pos, rest)
    BY <1>16, <1>17, Zenon DEF SentToEnd
  <2>2. PICK B, q, pos, rest : Ended(all.data, X, M, B, q, pos, rest)
    BY <2>1
  <2>3. \A i \in 0..L : X[i] = W[i]
    <3>1. ASSUME NEW i \in 0..L PROVE i \in 0..M
      BY <1>6, <1>15, SMT
    <3> QED
      BY <1>9, <2>1, <3>1
  <2>4. Coded(X, L, p, d)
    BY <1>3, <2>3, CodedFrame, Zenon
  <2>5. Spells(X, L, b, eof_code)
    <3>1. ASSUME NEW i \in 1..b PROVE X[L + i] = V[L + i]
      <4>1. L + i \in 0..M
        BY <1>6, <1>15, SMT
      <4> QED
        BY <2>1, <4>1
    <3> QED
      BY <1>6, <1>9, <3>1, SpellsFrame
  <2>6. PICK code, D, ends, k : Transcript(X, L, p, code, D, ends, k) /\ D[k] = d
    BY <2>4, Zenon DEF Coded
  <2>7. Spells(X, L, D[k].n_bits, eof_code)
    BY <1>5, <2>5, <2>6
  <2>8. Ended(all.data, X, L + D[k].n_bits, B, q, pos, rest)
    BY <1>5, <1>15, <2>2, <2>6
  <2>9. D[k].pixels = p
    BY <1>5, <2>6
  <2>10. Course(all.data, p, X, L, code, D, ends, k, B, q, pos, rest)
    BY <1>1, <2>6, <2>7, <2>8, <2>9, Zenon DEF Course
  <2> QED
    BY <2>10, Zenon DEF Complete
<1> QED
  BY <1>16, <1>17 DEF SentToEnd

-----------------------------------------------------------------------------
(* The image: the browser                                                  *)

\* The reader has j bytes and has made m codes of them; the bits between wait.
Here(V, D, ends, k, q, pos, rest, rd, d, j, m) ==
    /\ j \in 0..q /\ m \in 0..k /\ d = D[m]
    /\ rd.place = pos[j] + 1 /\ rd.left = rest[j]
    /\ rd.cur_bits \in Nat /\ ends[m] + rd.cur_bits = 8 * j
    /\ Spells(V, ends[m], rd.cur_bits, rd.accum)

\* The browser is somewhere in a stream that stands for the pixels p.
Reading(data, p, rd, d) ==
    \E V, L, code, D, ends, k, B, q, pos, rest, j, m :
        /\ Course(data, p, V, L, code, D, ends, k, B, q, pos, rest)
        /\ Here(V, D, ends, k, q, pos, rest, rd, d, j, m)

\* The place where a code ends, and where all codes end.
LEMMA CodeEnds ==
    ASSUME NEW data, NEW p, NEW V, NEW L, NEW code, NEW D, NEW ends, NEW k, NEW B, NEW q, NEW pos,
           NEW rest, Course(data, p, V, L, code, D, ends, k, B, q, pos, rest), NEW m \in 0..k
    PROVE  /\ ends[m] \in Nat /\ D[m].n_bits \in 1..12 /\ OnTheWay(D[m], p)
           /\ ends[m] + D[m].n_bits <= 8 * q
<1>1. /\ L \in Nat /\ k \in Nat /\ ends \in [Nat -> Nat] /\ ends[k] = L
      /\ \A i \in 1..k : ends[i] = ends[i - 1] + D[i - 1].n_bits
      /\ \A i \in 0..k : ends[i] <= L /\ OnTheWay(D[i], p)
      /\ q \in Nat /\ L + D[k].n_bits <= 8 * q
  BY Zenon DEF Course, Transcript, Ended
<1>2. m \in Nat /\ k \in 0..k
  BY <1>1, SMT
<1>3. ends[m] \in Nat /\ OnTheWay(D[m], p) /\ OnTheWay(D[k], p)
  BY <1>1, <1>2
<1>4. D[m].n_bits \in 1..12 /\ D[k].n_bits \in 1..12
  BY <1>3, Zenon DEF OnTheWay
<1>5. ASSUME m < k PROVE m + 1 \in 1..k /\ ends[m + 1] = ends[m] + D[m].n_bits
  <2>1. m + 1 \in 1..k /\ (m + 1) - 1 = m
    BY <1>1, <1>2, <1>5, SMT
  <2>2. ends[m + 1] = ends[(m + 1) - 1] + D[(m + 1) - 1].n_bits
    BY <1>1, <2>1
  <2> QED
    BY <2>1, <2>2
<1>6. ends[m] + D[m].n_bits <= 8 * q
  <2>1. CASE m < k
    <3>1. m + 1 \in 0..k
      BY <1>1, <1>2, <2>1, SMT
    <3>2. ends[m + 1] <= L
      BY <1>1, <3>1
    <3>3. ends[m] + D[m].n_bits <= L
      BY <1>5, <2>1, <3>2
    <3> QED
      BY <1>1, <1>3, <1>4, <3>3, SMT
  <2>2. CASE ~(m < k)
    <3>1. m = k
      BY <1>1, <1>2, <2>2, SMT
    <3> QED
      BY <1>1, <3>1
  <2> QED
    BY <2>1, <2>2
<1> QED
  BY <1>3, <1>4, <1>6

\* Where the next byte is.
LEMMA NextByte ==
    ASSUME NEW data, NEW d \in Nat, Len(data) = d + 1, NEW B, NEW pos, NEW rest, NEW q \in Nat,
           Layout(data, d, B, pos, rest, q), NEW j \in 0..q, j < q
    PROVE  /\ pos[j + 1] \in Nat /\ rest[j + 1] \in Nat /\ rest[j] \in Nat
           /\ data[pos[j + 1]] = B[j + 1]
           /\ rest[j] > 0 => /\ pos[j + 1] = pos[j] + 1 /\ rest[j + 1] = rest[j] - 1
                             /\ pos[j] + 1 \in 1..Len(data)
           /\ ~(rest[j] > 0) => /\ pos[j + 1] = (pos[j] + 1) + 1
                                /\ rest[j + 1] = data[pos[j] + 1] - 1
                                /\ pos[j] + 1 \in 1..Len(data)
                                /\ data[pos[j] + 1] \in 1..(Len(data) - (pos[j] + 1))
<1>1. /\ pos \in [Nat -> Nat] /\ rest \in [Nat -> Nat]
      /\ \A i \in 1..q : /\ pos[i] \in 1..d /\ data[pos[i]] = B[i]
                         /\ pos[i] + rest[i] <= d
      /\ \A i \in 1..q : \/ /\ rest[i - 1] > 0
                            /\ pos[i] = pos[i - 1] + 1 /\ rest[i] = rest[i - 1] - 1
                         \/ /\ rest[i - 1] = 0
                            /\ pos[i] = pos[i - 1] + 2 /\ data[pos[i - 1] + 1] = rest[i] + 1
  BY Zenon DEF Layout
<1>2. PICK i : i = j + 1
  OBVIOUS
<1>3. i \in 1..q /\ i - 1 = j /\ i \in Nat /\ j \in Nat
  BY <1>2, SMT
<1>4. PICK a \in Nat, r \in Nat, b \in Nat, s \in Nat :
         a = pos[i] /\ r = rest[i] /\ b = pos[j] /\ s = rest[j]
  BY <1>1, <1>3
<1>5. PICK x : x = data[b + 1]
  OBVIOUS
<1>6. PICK e : e = Len(data)
  OBVIOUS
<1>7. /\ a \in 1..d /\ data[a] = B[i] /\ a + r <= d /\ e = d + 1
      /\ \/ s > 0 /\ a = b + 1 /\ r = s - 1
         \/ s = 0 /\ a = b + 2 /\ x = r + 1
  BY <1>1, <1>3, <1>4, <1>5, <1>6
<1>8. /\ s > 0 => a = b + 1 /\ r = s - 1 /\ b + 1 \in 1..e
      /\ ~(s > 0) => a = (b + 1) + 1 /\ r = x - 1 /\ b + 1 \in 1..e /\ x \in 1..(e - (b + 1))
  <2> HIDE <1>2, <1>4, <1>5, <1>6
  <2> QED
    BY <1>7, SMT
<1> QED
  BY <1>2, <1>4, <1>5, <1>6, <1>7, <1>8

\* The byte j + 1 is the one that the reader takes next.
ByteNext(data, B, q, pos, rest, rd, j) ==
    /\ j + 1 \in 1..q /\ data[pos[j + 1]] = B[j + 1]
    /\ rd.left > 0 => /\ pos[j + 1] = rd.place /\ rest[j + 1] = rd.left - 1
                      /\ rd.place \in 1..Len(data)
    /\ ~(rd.left > 0) => /\ pos[j + 1] = rd.place + 1 /\ rest[j + 1] = data[rd.place] - 1
                         /\ rd.place \in 1..Len(data)
                         /\ data[rd.place] \in 1..(Len(data) - rd.place)

\* Before the end code there is a byte for every code that lacks bits.
LEMMA ByteThere ==
    ASSUME NEW data, NEW p, NEW V, NEW L, NEW code, NEW D, NEW ends, NEW k, NEW B, NEW q, NEW pos,
           NEW rest, Course(data, p, V, L, code, D, ends, k, B, q, pos, rest),
           NEW rd, NEW d, NEW j, NEW m, Here(V, D, ends, k, q, pos, rest, rd, d, j, m),
           rd.cur_bits < d.n_bits
    PROVE  ByteNext(data, B, q, pos, rest, rd, j)
<1>1. /\ j \in 0..q /\ m \in 0..k /\ d = D[m]
      /\ rd.place = pos[j] + 1 /\ rd.left = rest[j]
      /\ rd.cur_bits \in Nat /\ ends[m] + rd.cur_bits = 8 * j
  BY Zenon DEF Here
<1>2. /\ ends[m] \in Nat /\ D[m].n_bits \in 1..12 /\ ends[m] + D[m].n_bits <= 8 * q
  BY <1>1, CodeEnds, Zenon
<1>3. /\ q \in Nat /\ Len(data) \in Nat /\ Len(data) >= 1
      /\ Layout(data, Len(data) - 1, B, pos, rest, q)
  BY Zenon DEF Course, Ended
<1>4. j < q
  <2>1. PICK b \in Nat : b = rd.cur_bits
    BY <1>1
  <2>2. PICK n \in 1..12 : n = D[m].n_bits
    BY <1>2
  <2>3. PICK a \in Nat : a = ends[m]
    BY <1>2
  <2>4. b < n /\ a + b = 8 * j /\ a + n <= 8 * q
    BY <1>1, <1>2, <2>1, <2>2, <2>3
  <2> HIDE <2>1, <2>2, <2>3
  <2>5. j \in Int
    BY <1>1, <1>3, SMT
  <2> QED
    BY <1>3, <2>4, <2>5, SMT
<1>5. PICK e \in Nat : e = Len(data) - 1
  <2>1. PICK n \in Nat : n = Len(data)
    BY <1>3
  <2>2. n >= 1
    BY <1>3, <2>1
  <2> HIDE <2>1
  <2>3. n - 1 \in Nat
    BY <2>2, SMT
  <2> QED
    BY <2>1, <2>3
<1>6. Len(data) = e + 1 /\ Layout(data, e, B, pos, rest, q)
  <2>1. PICK n \in Nat : n = Len(data)
    BY <1>3
  <2>2. e = n - 1
    BY <1>5, <2>1
  <2> HIDE <1>5, <2>1
  <2>3. n = e + 1
    BY <2>2, SMT
  <2> QED
    BY <1>3, <1>5, <2>1, <2>3
<1>7. /\ pos[j + 1] \in Nat /\ rest[j + 1] \in Nat /\ rest[j] \in Nat
      /\ data[pos[j + 1]] = B[j + 1]
      /\ rest[j] > 0 => /\ pos[j + 1] = pos[j] + 1 /\ rest[j + 1] = rest[j] - 1
                        /\ pos[j] + 1 \in 1..Len(data)
      /\ ~(rest[j] > 0) => /\ pos[j + 1] = (pos[j] + 1) + 1
                           /\ rest[j + 1] = data[pos[j] + 1] - 1
                           /\ pos[j] + 1 \in 1..Len(data)
                           /\ data[pos[j] + 1] \in 1..(Len(data) - (pos[j] + 1))
  BY <1>1, <1>3, <1>4, <1>6, NextByte
<1>8. j + 1 \in 1..q
  BY <1>1, <1>3, <1>4, SMT
<1> QED
  BY <1>1, <1>7, <1>8 DEF ByteNext

\* A byte more goes above the bits that wait.
LEMMA ByteTaken ==
    ASSUME NEW data, NEW p, NEW rd, NEW d, Reading(data, p, rd, d), rd.cur_bits < d.n_bits,
           NEW a, NEW size,
           rd.left > 0 => a = rd.place /\ size = rd.left,
           ~(rd.left > 0) => a = rd.place + 1 /\ size = data[rd.place],
           NEW r, r.place = a + 1, r.left = size - 1,
           r.accum = rd.accum + data[a] * Pow2[rd.cur_bits], r.cur_bits = rd.cur_bits + 8
    PROVE  Reading(data, p, r, d)
<1>1. PICK V, L, code, D, ends, k, B, q, pos, rest, j, m :
        /\ Course(data, p, V, L, code, D, ends, k, B, q, pos, rest)
        /\ Here(V, D, ends, k, q, pos, rest, rd, d, j, m)
  BY Zenon DEF Reading
<1>2. /\ j + 1 \in 1..q
      /\ data[pos[j + 1]] = B[j + 1]
      /\ rd.left > 0 => pos[j + 1] = rd.place /\ rest[j + 1] = rd.left - 1
      /\ ~(rd.left > 0) => pos[j + 1] = rd.place + 1 /\ rest[j + 1] = data[rd.place] - 1
  <2>1. ByteNext(data, B, q, pos, rest, rd, j)
    BY <1>1, ByteThere, Zenon
  <2> QED
    BY <2>1, Zenon DEF ByteNext
<1>3. /\ j \in 0..q /\ m \in 0..k /\ d = D[m]
      /\ rd.cur_bits \in Nat /\ ends[m] + rd.cur_bits = 8 * j
      /\ Spells(V, ends[m], rd.cur_bits, rd.accum)
  BY <1>1, Zenon DEF Here
<1>4. a = pos[j + 1] /\ size - 1 = rest[j + 1]
  BY <1>2
<1>5. data[a] = B[j + 1] /\ r.place = pos[j + 1] + 1 /\ r.left = rest[j + 1]
  BY <1>2, <1>4
<1>6. /\ q \in Nat /\ V \in Bits /\ B \in [Nat -> Nat]
      /\ \A i \in 1..q : Spells(V, 8 * (i - 1), 8, B[i])
  BY <1>1, Zenon DEF Course, Ended
<1>7. ends[m] \in Nat /\ D[m].n_bits \in 1..12
  BY <1>1, <1>3, CodeEnds, Zenon
<1>8. PICK b \in Nat : b = rd.cur_bits
  BY <1>3
<1>9. PICK s \in Nat : s = ends[m]
  BY <1>7
<1>10. b \in 0..16 /\ 8 \in Nat
  <2>1. PICK n \in 1..12 : n = D[m].n_bits
    BY <1>7
  <2>2. b < n
    BY <1>3, <1>8, <2>1
  <2> QED
    BY <2>2, SMT
<1>11. s + b = 8 * j /\ j \in Nat /\ j + 1 \in Nat /\ (j + 1) - 1 = j
  BY <1>3, <1>6, <1>8, <1>9, SMT
<1>12. Spells(V, s + b, 8, B[j + 1]) /\ B[j + 1] \in Nat
  <2>1. Spells(V, 8 * ((j + 1) - 1), 8, B[j + 1]) /\ B[j + 1] \in Nat
    BY <1>2, <1>6, <1>11
  <2> QED
    BY <1>11, <2>1
<1>13. Spells(V, s, b + 8, rd.accum + B[j + 1] * Pow2[b])
  BY <1>3, <1>6, <1>8, <1>9, <1>10, <1>12, SpellsJoin
<1>14. Spells(V, ends[m], r.cur_bits, r.accum)
  BY <1>5, <1>8, <1>9, <1>13
<1>15. r.cur_bits \in Nat /\ ends[m] + r.cur_bits = 8 * (j + 1) /\ j + 1 \in 0..q
  <2>1. b + 8 \in Nat /\ s + (b + 8) = 8 * (j + 1)
    BY <1>11, SMT
  <2>2. j + 1 \in 0..q
    BY <1>2, <1>6, SMT
  <2> QED
    BY <1>8, <1>9, <2>1, <2>2
<1>16. Here(V, D, ends, k, q, pos, rest, r, d, j + 1, m)
  BY <1>3, <1>5, <1>14, <1>15, Zenon DEF Here
<1> QED
  BY <1>1, <1>16, Zenon DEF Reading

\* The code c leaves the reader r; behind the end code there is nothing.
CodeRead(data, p, rd, d, c, r) ==
    /\ c # eof_code => Reading(data, p, r, Decoded(d, c))
    /\ c = eof_code => /\ d.pixels = p /\ rd.left = 0 /\ rd.place = Len(data)
                       /\ data[Len(data)] = 0

\* The lowest bits that wait are the next code, or the end code.
LEMMA CodeTaken ==
    ASSUME NEW data, NEW p, NEW rd, NEW d, Reading(data, p, rd, d), rd.cur_bits >= d.n_bits,
           NEW c, c = rd.accum % Pow2[d.n_bits],
           NEW r, r.place = rd.place, r.left = rd.left,
           r.accum = rd.accum \div Pow2[d.n_bits], r.cur_bits = rd.cur_bits - d.n_bits
    PROVE  CodeRead(data, p, rd, d, c, r)
<1>1. PICK V, L, code, D, ends, k, B, q, pos, rest, j, m :
        /\ Course(data, p, V, L, code, D, ends, k, B, q, pos, rest)
        /\ Here(V, D, ends, k, q, pos, rest, rd, d, j, m)
  BY Zenon DEF Reading
<1>2. /\ j \in 0..q /\ m \in 0..k /\ d = D[m]
      /\ rd.place = pos[j] + 1 /\ rd.left = rest[j]
      /\ rd.cur_bits \in Nat /\ ends[m] + rd.cur_bits = 8 * j
      /\ Spells(V, ends[m], rd.cur_bits, rd.accum)
  BY <1>1, Zenon DEF Here
<1>3. ends[m] \in Nat /\ D[m].n_bits \in 1..12
  BY <1>1, <1>2, CodeEnds, Zenon
<1>4. /\ V \in Bits /\ L \in Nat /\ k \in Nat /\ ends[k] = L /\ D[k].pixels = p
      /\ \A i \in 1..k : /\ ends[i] = ends[i - 1] + D[i - 1].n_bits
                         /\ Spells(V, ends[i - 1], D[i - 1].n_bits, code[i])
                         /\ code[i] # eof_code /\ D[i] = Decoded(D[i - 1], code[i])
      /\ Spells(V, L, D[k].n_bits, eof_code)
      /\ q \in Nat /\ 8 * q < L + D[k].n_bits + 8
      /\ Len(data) \in Nat /\ data[Len(data)] = 0
      /\ Layout(data, Len(data) - 1, B, pos, rest, q)
  BY <1>1, Zenon DEF Course, Transcript, Ended
<1>5. PICK n \in 1..12 : n = D[m].n_bits
  BY <1>3
<1>6. PICK b \in Nat : b = rd.cur_bits
  BY <1>2
<1>7. PICK s \in Nat : s = ends[m]
  BY <1>3
<1>8. PICK w : w = b - n
  OBVIOUS
<1>9. w \in Nat /\ b = n + w /\ n \in 0..16
  <2>1. b >= n
    BY <1>2, <1>5, <1>6
  <2> QED
    BY <1>8, <2>1, SMT
<1>10. Spells(V, s, n, c) /\ Spells(V, s + n, w, r.accum)
  <2>1. Spells(V, s, n + w, rd.accum)
    BY <1>2, <1>6, <1>7, <1>9
  <2>2. Spells(V, s, n, rd.accum % Pow2[n]) /\ Spells(V, s + n, w, rd.accum \div Pow2[n])
    BY <1>4, <1>9, <2>1, SpellsSplit
  <2> QED
    BY <1>2, <1>5, <2>2
<1>11. r.cur_bits = w
  BY <1>2, <1>5, <1>6, <1>8
<1>12. m \in Nat /\ (m < k \/ m = k) /\ n \in Nat
  <2>1. m \in 0..k /\ k \in Nat
    BY <1>2, <1>4
  <2> QED
    BY <2>1, SMT
<1>13. CASE m < k
  <2>1. PICK i : i = m + 1
    OBVIOUS
  <2>2. i \in 1..k /\ i - 1 = m /\ i \in 0..k
    BY <1>4, <1>12, <1>13, <2>1, SMT
  <2>3. Spells(V, s, n, code[i]) /\ code[i] # eof_code /\ D[i] = Decoded(d, code[i])
    BY <1>2, <1>4, <1>5, <1>7, <2>2
  <2>4. c = code[i]
    BY <1>4, <1>10, <1>12, <2>3, SpelledOnce
  <2>5. ends[i] = s + n
    BY <1>4, <1>5, <1>7, <2>2
  <2>6. ends[i] + w = 8 * j
    <3>1. s + b = 8 * j
      BY <1>2, <1>6, <1>7
    <3>2. (s + n) + w = 8 * j
      BY <1>9, <1>12, <3>1, SMT
    <3> QED
      BY <2>5, <3>2
  <2>7. Here(V, D, ends, k, q, pos, rest, r, D[i], j, i)
    BY <1>2, <1>9, <1>10, <1>11, <2>2, <2>5, <2>6, Zenon DEF Here
  <2>8. Reading(data, p, r, D[i])
    BY <1>1, <2>7, Zenon DEF Reading
  <2> QED
    BY <2>3, <2>4, <2>8 DEF CodeRead
<1>14. CASE m = k
  <2>1. c = eof_code
    <3>1. Spells(V, s, n, eof_code)
      BY <1>4, <1>5, <1>7, <1>14
    <3> QED
      BY <1>4, <1>10, <1>12, <3>1, SpelledOnce
  <2>2. j = q
    <3>1. s + b = 8 * j /\ 8 * q < s + n + 8
      BY <1>2, <1>4, <1>5, <1>6, <1>7, <1>14
    <3>2. j \in Int /\ j <= q
      BY <1>2, <1>4, SMT
    <3> QED
      BY <1>4, <1>9, <1>12, <3>1, <3>2, SMT
  <2>3. pos[q] = Len(data) - 1 /\ rest[q] = 0
    BY <1>4, Zenon DEF Layout
  <2>4. rd.place = Len(data) /\ rd.left = 0
    <3>1. (Len(data) - 1) + 1 = Len(data)
      BY <1>4, SMT
    <3> QED
      BY <1>2, <2>2, <2>3, <3>1
  <2> QED
    BY <1>2, <1>4, <1>14, <2>1, <2>4 DEF CodeRead
<1> QED
  BY <1>12, <1>13, <1>14

-----------------------------------------------------------------------------
(* The image: what the browser sees is the frame                           *)

Compressing == /\ reader = [place |-> 1, left |-> 0, accum |-> 0, cur_bits |-> 0]
               /\ dec = Start /\ Going(Both, table, ent, pix)

GifInv ==
    /\ pc \in {"compress", "decode", "done", "failed"}
    /\ pc = "compress" => Compressing
    /\ pc = "decode" => Reading(out.data, pix, reader, dec)
    /\ pc = "done" => dec.pixels = pix /\ Terminated

\* The fields of lzw_t and gbuf_t taken together.
LEMMA PairFields ==
    ASSUME NEW a, NEW o, NEW b, b = [l |-> a, out |-> o]
    PROVE  b.l = a /\ b.out = o
  BY SMT

\* What is true of a state is true of lzw_t and gbuf_t taken together.
LEMMA GoingBoth ==
    ASSUME NEW s, NEW tab, NEW e, NEW p, Going(s, tab, e, p), NEW a, NEW o, a = s.l, o = s.out,
           NEW b, b = [l |-> a, out |-> o]
    PROVE  Going(b, tab, e, p)
<1>1. b.l = a /\ b.out = o
  BY PairFields, Zenon
<1>2. b.l = s.l /\ b.out = s.out
  BY <1>1
<1> QED
  BY <1>2, GoingSame, Zenon

\* Nothing is written yet.
LEMMA NothingSent ==
    ASSUME NEW s, s.l.block = <<>>, s.l.cur_bits = 0, s.l.accum = 0, s.out.data = <<>>,
           NEW W \in Bits
    PROVE  Sent(s, W, 0)
<1>1. PICK z : z = [i \in Nat |-> 0]
  OBVIOUS
<1>2. z \in [Nat -> Nat] /\ z[0] = 0
  BY <1>1
<1>3. Layout(<<>>, 0, z, z, z, 0)
  <2>1. \A i \in 1..0 : FALSE
    BY SMT
  <2> QED
    BY <1>2, <2>1, Zenon DEF Layout
<1>4. Stream(s.out.data, s.l.block, z, 0)
  <2>1. PICK e : e = <<>>
    OBVIOUS
  <2>2. Len(e) = 0 /\ 0 \in Nat /\ 0 = 0 + 0
    BY <2>1, SMT
  <2>3. \A i \in 1..0 : e[i] = z[0 + i]
    BY SMT
  <2>4. Layout(e, Len(e), z, z, z, 0)
    BY <1>3, <2>1, <2>2
  <2>5. Stream(e, e, z, 0)
    BY <2>2, <2>3, <2>4, Zenon DEF Stream
  <2> QED
    BY <2>1, <2>5
<1>5. Spells(W, 8 * 0, 0, 0)
  <2>1. 8 * 0 = 0 /\ 0 \in Nat /\ \A i \in 1..0 : W[0 + i] = 0
    BY SMT
  <2>2. Spells(W, 0, 0, 0)
    BY <2>1, ZerosSpelled
  <2> QED
    BY <2>1, <2>2
<1>6. \A i \in 1..0 : Spells(W, 8 * (i - 1), 8, z[i])
  BY SMT
<1>7. Holds(s, W, 0, 0)
  BY <1>2, <1>4, <1>5, <1>6, Zenon DEF Holds
<1>8. 0 \in Nat /\ 0 = 8 * 0 + 0
  BY SMT
<1> QED
  BY <1>7, <1>8, Zenon DEF Sent

\* The clear code that opens a GIF establishes the invariant.
LEMMA GifStarts == Init => GifInv
<1> SUFFICES ASSUME Init PROVE GifInv
  OBVIOUS
<1>1. PICK e : e = <<>>
  OBVIOUS
<1>2. PICK n : n = MinCodeSize + 1
  OBVIOUS
<1>3. PICK m : m = Pow2[MinCodeSize + 1] - 1
  OBVIOUS
<1>4. PICK no \in BOOLEAN : no = FALSE
  OBVIOUS
<1>5. PICK f : f = clear_code + 2
  OBVIOUS
<1>6. PICK l : l = [accum |-> 0, cur_bits |-> 0, n_bits |-> n, maxcode |-> m, clear_flg |-> no,
                    free_ent |-> f, block |-> e]
  OBVIOUS
<1>7. PICK o : o = [data |-> e, cap |-> 0, err |-> no]
  OBVIOUS
<1>8. PICK s : s = [l |-> l, out |-> o]
  OBVIOUS
<1>9. PICK r : r = Output(s, clear_code)
  OBVIOUS
<1>10. lzw = r.l /\ out = r.out
  <2>1. s = [l |-> [accum |-> 0, cur_bits |-> 0, n_bits |-> MinCodeSize + 1,
                    maxcode |-> Pow2[MinCodeSize + 1] - 1, clear_flg |-> FALSE,
                    free_ent |-> clear_code + 2, block |-> <<>>],
             out |-> [data |-> <<>>, cap |-> 0, err |-> FALSE]]
    BY <1>1, <1>2, <1>3, <1>4, <1>5, <1>6, <1>7, <1>8
  <2> QED
    BY <1>9, <2>1, Zenon DEF Init
<1>11. /\ MaxBits \in 4..12 /\ MinCodeSize \in 2..(MaxBits - 2)
       /\ clear_code \in Nat /\ clear_code >= 4 /\ eof_code = clear_code + 1
       /\ Pow2[MinCodeSize + 1] = 2 * clear_code /\ Colors \subseteq 0..(clear_code - 1)
  BY CodeSizes
<1>12. n \in Nat /\ m \in Nat /\ f \in Nat /\ n \in (MinCodeSize + 1)..MaxBits /\ n \in 1..12
       /\ f = eof_code + 1
  BY <1>2, <1>3, <1>5, <1>11, SMT
<1>13. e \in Seq(Nat)
  <2>1. <<>> \in Seq(Nat)
    OBVIOUS
  <2> QED
    BY <1>1, <2>1
<1>14. /\ l \in LzwTypes /\ l.accum = 0 /\ l.cur_bits = 0 /\ l.n_bits = n /\ l.maxcode = m
       /\ l.clear_flg = no /\ l.free_ent = f /\ l.block = e
  <2>1. PICK S : S = Seq(Nat)
    OBVIOUS
  <2>2. e \in S
    BY <1>13, <2>1
  <2>3. l \in Lzw(S)
    <3> HIDE <1>1, <1>2, <1>3, <1>4, <1>5, <2>1
    <3> QED
      BY <1>6, <1>12, <2>2, SMT DEF Lzw
  <2>4. /\ l.accum = 0 /\ l.cur_bits = 0 /\ l.n_bits = n /\ l.maxcode = m
        /\ l.clear_flg = no /\ l.free_ent = f /\ l.block = e
    <3> HIDE <1>1, <1>2, <1>3, <1>4, <1>5, <2>1
    <3> QED
      BY <1>6, SMT
  <2> QED
    BY <2>1, <2>3, <2>4, Zenon DEF LzwTypes
<1>15. o.data = e /\ o.err = no
  <2> HIDE <1>1, <1>4
  <2> QED
    BY <1>7, SMT
<1>16. s.l = l /\ s.out = o
  <2> HIDE <1>6, <1>7
  <2> QED
    BY <1>8, SMT
<1>17. IsState(s) /\ s.l.cur_bits \in 0..7
  <2>1. 0 \in 0..7
    BY SMT
  <2> QED
    BY <1>13, <1>14, <1>15, <1>16, <2>1, Zenon DEF IsState
<1>18. PICK x \in 0..(clear_code - 1) : x = opening[1] /\ pix = <<x>>
  <2>1. opening \in Seq(Colors) /\ opening # <<>> /\ pix = <<opening[1]>>
    BY GifAssumption, Zenon DEF Init
  <2>2. opening[1] \in Colors
    <3>1. PICK C : C = Colors
      OBVIOUS
    <3>2. opening \in Seq(C)
      BY <2>1, <3>1
    <3>3. opening[1] \in C
      <4> HIDE <3>1
      <4> QED
        BY <2>1, <3>2, SMT
    <3> QED
      BY <3>1, <3>3
  <2> QED
    BY <1>11, <2>1, <2>2
<1>19. x \in Nat /\ pix \in Seq(Nat) /\ pix = Append(Start.pixels, x)
  <2>1. x \in Nat
    BY <1>11, SMT
  <2>2. Append(e, x) \in Seq(Nat) /\ Append(e, x) = e \o <<x>>
    BY <1>13, <2>1, Longer, Joined
  <2>3. e \o <<x>> = <<x>>
    <3>1. <<x>> \in Seq(Nat)
      BY <2>1
    <3> QED
      BY <1>1, <3>1, ConcatEmptySeq
  <2>4. Start.pixels = e
    BY <1>1, StartFields
  <2> QED
    BY <1>18, <2>1, <2>2, <2>3, <2>4
<1>20. PICK W : W = [i \in Nat |-> 0]
  OBVIOUS
<1>21. W \in Bits
  BY <1>20 DEF Bits
<1>22. Sent(s, W, 0)
  BY <1>1, <1>14, <1>15, <1>16, <1>21, NothingSent
<1>23. Coded(W, 0, pix, Start)
  BY <1>19, <1>21, NothingCoded
<1>24. PICK p : p = pix
  OBVIOUS
<1>25. Going(r, NoCodes, x, p)
  <2>1. PICK d : d = Start
    OBVIOUS
  <2>2. d.pixels \in Seq(Nat) /\ d.lost = FALSE /\ d.n_bits = n /\ Coded(W, 0, p, d)
        /\ p = Append(d.pixels, x) /\ p \in Seq(Nat)
    BY <1>1, <1>2, <1>13, <1>19, <1>23, <1>24, <2>1, StartFields
  <2>3. s.l.n_bits = n /\ s.l.free_ent = eof_code + 1
        /\ (s.l.clear_flg \/ (n = MinCodeSize + 1 /\ s.l.maxcode = Pow2[n] - 1))
    BY <1>2, <1>3, <1>12, <1>14, <1>16
  <2>4. 0 \in Nat
    OBVIOUS
  <2> QED
    BY <1>9, <1>12, <1>17, <1>21, <1>22, <2>2, <2>3, <2>4, ClearWritten, Zenon
<1>26. Going(Both, table, ent, pix)
  <2>1. table = NoCodes /\ ent = x
    <3>1. table = NoCodes /\ ent = pix[1]
      BY Zenon DEF Init
    <3>2. pix[1] = x
      BY <1>18
    <3> QED
      BY <3>1, <3>2
  <2>2. Going(Both, NoCodes, x, p)
    BY <1>10, <1>25, GoingBoth, Zenon DEF Both
  <2> QED
    BY <1>24, <2>1, <2>2
<1>27. dec = Start /\ pc = "compress"
       /\ reader = [place |-> 1, left |-> 0, accum |-> 0, cur_bits |-> 0]
  BY Zenon DEF Init, Start
<1> QED
  BY <1>26, <1>27, SMT DEF GifInv, Compressing

\* Before the first byte the browser is where the stream begins.
LEMMA ReadingStarts ==
    ASSUME NEW data, NEW p, Complete(data, p),
           NEW rd, rd = [place |-> 1, left |-> 0, accum |-> 0, cur_bits |-> 0]
    PROVE  Reading(data, p, rd, Start)
<1>1. PICK V, L, code, D, ends, k, B, q, pos, rest :
        Course(data, p, V, L, code, D, ends, k, B, q, pos, rest)
  BY Zenon DEF Complete
<1>2. /\ V \in Bits /\ k \in Nat /\ D[0] = Start /\ ends[0] = 0 /\ q \in Nat
      /\ pos[0] = 0 /\ rest[0] = 0
  BY <1>1, Zenon DEF Course, Transcript, Ended, Layout
<1>3. rd.place = 1 /\ rd.left = 0 /\ rd.accum = 0 /\ rd.cur_bits = 0
  BY SMT
<1>4. Spells(V, 0, 0, 0)
  <2>1. 0 \in Nat /\ \A i \in 1..0 : V[0 + i] = 0
    BY SMT
  <2> QED
    BY <1>2, <2>1, ZerosSpelled
<1>5. 0 \in 0..q /\ 0 \in 0..k /\ 0 \in Nat /\ 0 + 0 = 8 * 0 /\ 1 = 0 + 1
  BY <1>2, SMT
<1>6. /\ Start = D[0] /\ rd.place = pos[0] + 1 /\ rd.left = rest[0]
      /\ rd.cur_bits \in Nat /\ ends[0] + rd.cur_bits = 8 * 0
      /\ Spells(V, ends[0], rd.cur_bits, rd.accum)
  BY <1>2, <1>3, <1>4, <1>5
<1>7. Here(V, D, ends, k, q, pos, rest, rd, Start, 0, 0)
  BY <1>5, <1>6, Zenon DEF Here
<1> QED
  BY <1>1, <1>7, Zenon DEF Reading

\* A pixel that extends the string, and one that has a code written.
LEMMA PixelStep ==
    ASSUME GifInv, NEW c \in Colors, NextPixel(c)
    PROVE  GifInv'
<1>1. /\ pc = "compress" /\ pix' = Append(pix, c) /\ pc' = pc /\ reader' = reader /\ dec' = dec
  BY Zenon DEF NextPixel, decoder
<1>2. Compressing
  BY <1>1, Zenon DEF GifInv
<1>3. c \in 0..(clear_code - 1) /\ c \in Nat
  <2>1. c \in 0..(clear_code - 1) /\ clear_code \in Nat
    BY CodeSizes
  <2> QED
    BY <2>1, SMT
<1>4. PICK s : s = Both
  OBVIOUS
<1>5. Going(s, table, ent, pix)
  BY <1>2, <1>4, Zenon DEF Compressing
<1>6. PICK r : r = [l |-> lzw', out |-> out']
  OBVIOUS
<1>7. r.l = lzw' /\ r.out = out'
  BY <1>6, PairFields, Zenon
<1>8. Going(r, table', ent', Append(pix, c))
  <2>1. CASE <<ent, c>> \in DOMAIN table
    <3>1. ent' = table[<<ent, c>>] /\ lzw' = lzw /\ out' = out /\ table' = table
      BY <2>1, Zenon DEF NextPixel
    <3>2. r = s
      BY <1>4, <1>6, <3>1 DEF Both
    <3>3. Going(s, table, table[<<ent, c>>], Append(pix, c))
      BY <1>3, <1>5, <2>1, PixelMatched, Zenon
    <3> QED
      BY <3>1, <3>2, <3>3
  <2>2. CASE ~(<<ent, c>> \in DOMAIN table)
    <3>1. PICK sent : sent = Output(s, ent)
      OBVIOUS
    <3>2. Written(sent, table, ent, pix)
      BY <1>5, <3>1, CodeWritten, Zenon
    <3>3. /\ ent' = c
          /\ IF sent.l.free_ent < MaxCodes
             THEN /\ table' = [k \in DOMAIN table \union {<<ent, c>>} |->
                                 IF k = <<ent, c>> THEN sent.l.free_ent ELSE table[k]]
                  /\ lzw' = [sent.l EXCEPT !.free_ent = @ + 1]
                  /\ out' = sent.out
             ELSE Clear(sent)
      BY <1>4, <2>2, <3>1, Zenon DEF NextPixel
    <3>4. CASE sent.l.free_ent < MaxCodes
      <4>1. Entered(table', table, ent, c, sent.l.free_ent)
        BY <3>3, <3>4 DEF Entered
      <4>2. r.l = [sent.l EXCEPT !.free_ent = @ + 1] /\ r.out = sent.out
        BY <1>7, <3>3, <3>4
      <4>3. Going(r, table', c, Append(pix, c))
        BY <1>3, <3>2, <3>4, <4>1, <4>2, EntryAdded, Zenon
      <4> QED
        BY <3>3, <4>3
    <3>5. CASE ~(sent.l.free_ent < MaxCodes)
      <4>1. PICK a : a = [sent.l EXCEPT !.free_ent = clear_code + 2, !.clear_flg = TRUE]
        OBVIOUS
      <4>2. PICK o : o = sent.out
        OBVIOUS
      <4>3. PICK t : t = [l |-> a, out |-> o]
        OBVIOUS
      <4>4. t.l = a /\ t.out = o
        BY <4>3, PairFields, Zenon
      <4>5. PICK u : u = Output(t, clear_code)
        OBVIOUS
      <4>6. table' = NoCodes /\ lzw' = u.l /\ out' = u.out
        <5>1. Clear(sent)
          BY <3>3, <3>5
        <5> QED
          BY <4>1, <4>2, <4>3, <4>5, <5>1, Zenon DEF Clear
      <4>7. t.l = [sent.l EXCEPT !.free_ent = clear_code + 2, !.clear_flg = TRUE]
            /\ t.out = sent.out
        BY <4>1, <4>2, <4>4
      <4>8. Going(u, NoCodes, c, Append(pix, c))
        BY <1>3, <3>2, <4>5, <4>7, TableFull, Zenon
      <4>9. Going(r, NoCodes, c, Append(pix, c))
        BY <1>6, <4>6, <4>8, GoingBoth, Zenon
      <4> QED
        BY <3>3, <4>6, <4>9
    <3> QED
      BY <3>4, <3>5
  <2> QED
    BY <2>1, <2>2
<1>9. Compressing'
  <2>1. Both' = r
    BY <1>6 DEF Both
  <2>2. reader' = [place |-> 1, left |-> 0, accum |-> 0, cur_bits |-> 0] /\ dec' = Start
    BY <1>1, <1>2, Zenon DEF Compressing
  <2>3. Going(Both', table', ent', pix')
    BY <1>1, <1>8, <2>1
  <2> QED
    BY <2>2, <2>3, Zenon DEF Compressing
<1>10. pc' = "compress"
  BY <1>1
<1> QED
  BY <1>9, <1>10, SMT DEF GifInv

\* The end of the stream: the browser starts with all bits ahead of it.
LEMMA FinishStep ==
    ASSUME GifInv, Finish
    PROVE  GifInv'
<1>1. pc = "compress" /\ pix' = pix /\ reader' = reader /\ dec' = dec
  BY Zenon DEF Finish, decoder
<1>2. Compressing
  BY <1>1, Zenon DEF GifInv
<1>3. PICK s : s = Both
  OBVIOUS
<1>4. Going(s, table, ent, pix)
  BY <1>2, <1>3, Zenon DEF Compressing
<1>5. PICK sent : sent = Output(s, ent)
  OBVIOUS
<1>6. Written(sent, table, ent, pix)
  BY <1>4, <1>5, CodeWritten, Zenon
<1>7. PICK r : r = Output(sent, eof_code)
  OBVIOUS
<1>8. PICK all : all = GbufPut(r.out, << 0 >>)
  OBVIOUS
<1>9. out' = all /\ pc' = IF all.err THEN "failed" ELSE "decode"
  BY <1>3, <1>5, <1>7, <1>8, Zenon DEF Finish
<1>10. all.err \in BOOLEAN /\ (~all.err => Complete(all.data, pix))
  BY <1>6, <1>7, <1>8, StreamWritten, Zenon
<1>11. CASE all.err
  <2>1. pc' = "failed"
    BY <1>9, <1>11
  <2> QED
    BY <2>1, SMT DEF GifInv
<1>12. CASE ~all.err
  <2>1. pc' = "decode"
    BY <1>9, <1>12
  <2>2. reader = [place |-> 1, left |-> 0, accum |-> 0, cur_bits |-> 0] /\ dec = Start
    BY <1>2, Zenon DEF Compressing
  <2>3. Reading(all.data, pix, reader, Start)
    BY <1>10, <1>12, <2>2, ReadingStarts, Zenon
  <2>4. Reading(out'.data, pix', reader', dec')
    BY <1>1, <1>9, <2>2, <2>3
  <2> QED
    BY <2>1, <2>4, SMT DEF GifInv
<1> QED
  BY <1>11, <1>12

\* The browser reads a byte.
LEMMA ByteStep ==
    ASSUME GifInv, ReadByte
    PROVE  GifInv'
<1>1. /\ pc = "decode" /\ pc' = pc /\ pix' = pix /\ out' = out /\ dec' = dec
      /\ reader.cur_bits < dec.n_bits
  BY Zenon DEF ReadByte, encoder
<1>2. Reading(out.data, pix, reader, dec)
  BY <1>1, Zenon DEF GifInv
<1>3. PICK a : a = IF reader.left > 0 THEN reader.place ELSE reader.place + 1
  OBVIOUS
<1>4. PICK size : size = IF reader.left > 0 THEN reader.left ELSE out.data[reader.place]
  OBVIOUS
<1>5. PICK b : b = a + 1
  OBVIOUS
<1>6. PICK f : f = size - 1
  OBVIOUS
<1>7. PICK x : x = reader.accum + out.data[a] * Pow2[reader.cur_bits]
  OBVIOUS
<1>8. PICK y : y = reader.cur_bits + 8
  OBVIOUS
<1>9. PICK r : r = [place |-> b, left |-> f, accum |-> x, cur_bits |-> y]
  OBVIOUS
<1>10. reader' = r
  BY <1>3, <1>4, <1>5, <1>6, <1>7, <1>8, <1>9, Zenon DEF ReadByte
<1>11. r.place = b /\ r.left = f /\ r.accum = x /\ r.cur_bits = y
  <2> HIDE <1>5, <1>6, <1>7, <1>8
  <2> QED
    BY <1>9, SMT
<1>12. /\ reader.left > 0 => a = reader.place /\ size = reader.left
       /\ ~(reader.left > 0) => a = reader.place + 1 /\ size = out.data[reader.place]
  BY <1>3, <1>4
<1>13. /\ r.place = a + 1 /\ r.left = size - 1
       /\ r.accum = reader.accum + out.data[a] * Pow2[reader.cur_bits]
       /\ r.cur_bits = reader.cur_bits + 8
  BY <1>5, <1>6, <1>7, <1>8, <1>11
<1>14. Reading(out.data, pix, r, dec)
  BY <1>1, <1>2, <1>12, <1>13, ByteTaken, Zenon
<1>15. Reading(out'.data, pix', reader', dec') /\ pc' = "decode"
  BY <1>1, <1>10, <1>14
<1> QED
  BY <1>15, SMT DEF GifInv

\* The browser reads a code, and is one code further on the way.
LEMMA CodeStep ==
    ASSUME GifInv, ReadCode
    PROVE  GifInv'
<1>1. /\ pc = "decode" /\ pix' = pix /\ out' = out /\ reader.cur_bits >= dec.n_bits
  BY Zenon DEF ReadCode, encoder
<1>2. Reading(out.data, pix, reader, dec)
  BY <1>1, Zenon DEF GifInv
<1>3. PICK c : c = reader.accum % Pow2[dec.n_bits]
  OBVIOUS
<1>4. PICK a : a = reader.place
  OBVIOUS
<1>5. PICK f : f = reader.left
  OBVIOUS
<1>6. PICK x : x = reader.accum \div Pow2[dec.n_bits]
  OBVIOUS
<1>7. PICK y : y = reader.cur_bits - dec.n_bits
  OBVIOUS
<1>8. PICK r : r = [place |-> a, left |-> f, accum |-> x, cur_bits |-> y]
  OBVIOUS
<1>9. /\ reader' = r
      /\ IF c = eof_code THEN pc' = "done" /\ dec' = dec
         ELSE dec' = Decoded(dec, c) /\ pc' = pc
  BY <1>3, <1>4, <1>5, <1>6, <1>7, <1>8, Zenon DEF ReadCode
<1>10. r.place = a /\ r.left = f /\ r.accum = x /\ r.cur_bits = y
  <2> HIDE <1>4, <1>5, <1>6, <1>7
  <2> QED
    BY <1>8, SMT
<1>11. /\ r.place = reader.place /\ r.left = reader.left
       /\ r.accum = reader.accum \div Pow2[dec.n_bits] /\ r.cur_bits = reader.cur_bits - dec.n_bits
  BY <1>4, <1>5, <1>6, <1>7, <1>10
<1>12. /\ c # eof_code => Reading(out.data, pix, r, Decoded(dec, c))
       /\ c = eof_code => /\ dec.pixels = pix /\ reader.left = 0 /\ reader.place = Len(out.data)
                          /\ out.data[Len(out.data)] = 0
  <2>1. CodeRead(out.data, pix, reader, dec, c, r)
    BY <1>1, <1>2, <1>3, <1>11, CodeTaken, Zenon
  <2> QED
    BY <2>1, Zenon DEF CodeRead
<1>13. CASE c = eof_code
  <2>1. pc' = "done" /\ dec' = dec
    BY <1>9, <1>13
  <2>2. dec'.pixels = pix'
    BY <1>1, <1>12, <1>13, <2>1
  <2>3. reader'.left = 0 /\ reader'.place = Len(out'.data) /\ out'.data[Len(out'.data)] = 0
    BY <1>1, <1>9, <1>11, <1>12, <1>13
  <2>4. Terminated'
    <3>1. out'.data[reader'.place] = 0
      BY <2>3
    <3> QED
      BY <2>3, <3>1, Zenon DEF Terminated
  <2> QED
    BY <2>1, <2>2, <2>4, SMT DEF GifInv
<1>14. CASE c # eof_code
  <2>1. pc' = "decode" /\ dec' = Decoded(dec, c)
    BY <1>1, <1>9, <1>14
  <2>2. Reading(out'.data, pix', reader', dec')
    BY <1>1, <1>9, <1>12, <1>14, <2>1
  <2> QED
    BY <2>1, <2>2, SMT DEF GifInv
<1> QED
  BY <1>13, <1>14

\* Every step keeps the invariant.
LEMMA GifSteps == GifInv /\ [Next]_vars => GifInv'
<1> SUFFICES ASSUME GifInv, [Next]_vars PROVE GifInv'
  OBVIOUS
<1>1. ASSUME NEW c \in Colors, NextPixel(c) PROVE GifInv'
  BY <1>1, PixelStep
<1>2. CASE Finish
  BY <1>2, FinishStep
<1>3. CASE ReadByte
  BY <1>3, ByteStep
<1>4. CASE ReadCode
  BY <1>4, CodeStep
<1>5. CASE UNCHANGED vars
  <2>1. /\ pix' = pix /\ pc' = pc /\ lzw' = lzw /\ table' = table /\ ent' = ent /\ out' = out
        /\ reader' = reader /\ dec' = dec
    BY <1>5, Zenon DEF vars, encoder, decoder
  <2>2. Both' = Both
    BY <2>1 DEF Both
  <2>3. Compressing => Compressing'
    BY <2>1, <2>2, Zenon DEF Compressing
  <2>4. Terminated => Terminated'
    BY <2>1, Zenon DEF Terminated
  <2> QED
    BY <2>1, <2>3, <2>4, Zenon DEF GifInv
<1> QED
  BY <1>1, <1>2, <1>3, <1>4, <1>5, Zenon DEF Next

\* The invariant says that the GIF decodes to the frame.
LEMMA GifInvShows == GifInv => DecodesToFrame
<1> SUFFICES ASSUME GifInv PROVE DecodesToFrame
  OBVIOUS
<1>1. ASSUME pc = "decode"
      PROVE  /\ ~dec.lost /\ IsPrefix(dec.pixels, pix)
             /\ reader.cur_bits < dec.n_bits => ByteFollows
  <2>1. Reading(out.data, pix, reader, dec)
    BY <1>1, Zenon DEF GifInv
  <2>2. PICK V, L, code, D, ends, k, B, q, pos, rest, j, m :
          /\ Course(out.data, pix, V, L, code, D, ends, k, B, q, pos, rest)
          /\ Here(V, D, ends, k, q, pos, rest, reader, dec, j, m)
    BY <2>1, Zenon DEF Reading
  <2>3. m \in 0..k /\ dec = D[m]
    BY <2>2, Zenon DEF Here
  <2>4. D[m].lost = FALSE /\ IsPrefix(D[m].pixels, pix)
    <3>1. OnTheWay(D[m], pix)
      BY <2>2, <2>3, CodeEnds, Zenon
    <3> QED
      BY <3>1, Zenon DEF OnTheWay
  <2>5. ASSUME reader.cur_bits < dec.n_bits PROVE ByteFollows
    <3>1. ByteNext(out.data, B, q, pos, rest, reader, j)
      BY <2>2, <2>5, ByteThere, Zenon
    <3> QED
      BY <3>1, Zenon DEF ByteNext, ByteFollows
  <2> QED
    BY <2>3, <2>4, <2>5
<1>2. ASSUME pc = "done" PROVE dec.pixels = pix /\ Terminated
  BY <1>2, Zenon DEF GifInv
<1> QED
  BY <1>1, <1>2, Zenon DEF DecodesToFrame

\* The GIF that httpd.c makes of any frame, with any palette and any widths of
\* codes it may have, is one that the decoder of the standard turns into the
\* frame's pixels, whatever memory there is: it never meets a code without a
\* string, never lacks a byte before the end code and has none left behind it.
THEOREM GifDecodes == Spec => []DecodesToFrame
<1>1. Spec => []GifInv
  BY GifStarts, GifSteps, PTL DEF Spec
<1> QED
  BY <1>1, GifInvShows, PTL

=============================================================================
