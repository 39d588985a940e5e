------------------------ MODULE PairedBuffersProofs -------------------------
(***************************************************************************)
(* Proofs about PairedBuffers, for every set of sizes and every number of  *)
(* collections.  Each buffer alone is a stretch of the stream of samples   *)
(* (Stream); the rest of the invariant is about the pair: how far the two  *)
(* are along (InStep), how many samples they hold (Filled, LevelUnlessSkew) *)
(* and what a drawing thread has in its hands (Held).                      *)
(***************************************************************************)
EXTENDS PairedBuffers, SequenceTheorems, TLAPS

LEMMA Bounds == /\ Sizes \subseteq Nat \ {0} /\ MaxPush \in Nat /\ ReadCap \in Nat \ {0}
BY PairAssumption

USE Bounds

Least(a, b) == IF a < b THEN a ELSE b

\* w holds the newest samples of t, c of them at most.
Stream(w, t, c) ==
    /\ w \in Seq(1..MaxPush) /\ t \in 0..MaxPush
    /\ Len(w) <= t /\ Len(w) <= c
    /\ \A i \in 1..Len(w) : w[i] = t - Len(w) + i

-----------------------------------------------------------------------------
(* One buffer                                                              *)

\* The tail of a sequence from its k-th element on.
LEMMA Suffix ==
    ASSUME NEW s \in Seq(1..MaxPush), NEW n \in Nat, n < Len(s)
    PROVE  LET r == SubSeq(s, Len(s) - n + 1, Len(s))
           IN  /\ r \in Seq(1..MaxPush) /\ Len(r) = n
               /\ \A i \in 1..n : r[i] = s[Len(s) - n + i]
<1> DEFINE m == Len(s) - n + 1
<1>1. Len(s) \in Nat /\ m \in Int /\ m \in 1..Len(s) + 1
  OBVIOUS
<1>2. \A i \in m..Len(s) : s[i] \in 1..MaxPush
  BY <1>1
<1>3. /\ SubSeq(s, m, Len(s)) \in Seq(1..MaxPush)
      /\ Len(SubSeq(s, m, Len(s))) = n
      /\ \A i \in 1..n : SubSeq(s, m, Len(s))[i] = s[m + i - 1]
  BY <1>1, <1>2
<1>4. \A i \in 1..n : m + i - 1 = Len(s) - n + i
  BY <1>1
<1> QED
  BY <1>3, <1>4

LEMMA NewestIsSuffix ==
    ASSUME NEW s \in Seq(1..MaxPush), NEW n \in Nat
    PROVE  LET r == P!Newest(s, n)
           IN  /\ r \in Seq(1..MaxPush) /\ Len(r) = Least(Len(s), n)
               /\ \A i \in 1..Len(r) : r[i] = s[Len(s) - Len(r) + i]
<1>1. Len(s) \in Nat
  OBVIOUS
<1>2. CASE Len(s) <= n
  <2>1. P!Newest(s, n) = s /\ Least(Len(s), n) = Len(s)
    BY <1>1, <1>2 DEF P!Newest, Least
  <2>2. \A i \in 1..Len(s) : Len(s) - Len(s) + i = i
    BY <1>1
  <2> QED
    BY <2>1, <2>2
<1>3. CASE n < Len(s)
  <2>1. P!Newest(s, n) = SubSeq(s, Len(s) - n + 1, Len(s)) /\ Least(Len(s), n) = n
    BY <1>1, <1>3 DEF P!Newest, Least
  <2> QED
    BY <1>3, <2>1, Suffix
<1> QED
  BY <1>1, <1>2, <1>3

LEMMA SameNewest == ASSUME NEW s, NEW n PROVE S!Newest(s, n) = P!Newest(s, n)
BY DEF S!Newest, P!Newest

LEMMA StreamPush ==
    ASSUME NEW w, NEW t, NEW c \in Nat \ {0}, Stream(w, t, c), t < MaxPush,
           NEW new, new = P!Newest(Append(w, t + 1), c)
    PROVE  Stream(new, t + 1, c) /\ Len(new) = Least(Len(w) + 1, c)
<1> DEFINE s == Append(w, t + 1)
<1>1. w \in Seq(1..MaxPush) /\ t \in Nat /\ t + 1 \in 1..MaxPush /\ Len(w) \in Nat /\ Len(w) <= t
  BY DEF Stream
<1>2. /\ s \in Seq(1..MaxPush) /\ Len(s) = Len(w) + 1
      /\ \A i \in 1..Len(s) : s[i] = t - Len(w) + i
  <2>1. /\ s \in Seq(1..MaxPush) /\ Len(s) = Len(w) + 1 /\ s[Len(w) + 1] = t + 1
        /\ \A i \in 1..Len(w) : s[i] = w[i]
    BY <1>1
  <2> HIDE DEF s
  <2>2. \A i \in 1..Len(w) : s[i] = t - Len(w) + i
    BY <2>1 DEF Stream
  <2>3. s[Len(w) + 1] = t - Len(w) + (Len(w) + 1)
    BY <1>1, <2>1
  <2>4. \A i \in 1..Len(s) : i \in 1..Len(w) \/ i = Len(w) + 1
    BY <1>1, <2>1
  <2> QED
    BY <2>1, <2>2, <2>3, <2>4
<1> HIDE DEF s
<1>3. /\ new \in Seq(1..MaxPush) /\ Len(new) = Least(Len(s), c)
      /\ \A i \in 1..Len(new) : new[i] = s[Len(s) - Len(new) + i]
  BY <1>2, NewestIsSuffix DEF s
<1>4. Len(new) \in Nat /\ Len(new) <= Len(s) /\ Len(new) <= c
  <2>1. Least(Len(s), c) \in Nat /\ Least(Len(s), c) <= Len(s) /\ Least(Len(s), c) <= c
    BY <1>1, <1>2 DEF Least
  <2> QED
    BY <1>3, <2>1
<1>5. ASSUME NEW i \in 1..Len(new) PROVE new[i] = (t + 1) - Len(new) + i
  <2>1. PICK j \in 1..Len(s) : j = Len(s) - Len(new) + i
    <3>1. Len(s) - Len(new) + i \in 1..Len(s)
      BY <1>1, <1>2, <1>4
    <3> QED
      BY <3>1
  <2>2. new[i] = s[j] /\ s[j] = t - Len(w) + j
    BY <1>2, <1>3, <2>1
  <2> QED
    BY <1>1, <1>2, <1>4, <2>1, <2>2
<1> QED
  BY <1>1, <1>2, <1>3, <1>4, <1>5 DEF Stream

LEMMA StreamResize ==
    ASSUME NEW w, NEW t, NEW c \in Nat \ {0}, Stream(w, t, c), NEW n \in Nat \ {0},
           NEW new, new = P!Newest(w, n)
    PROVE  Stream(new, t, n) /\ Len(new) = Least(Len(w), n)
<1>1. w \in Seq(1..MaxPush) /\ t \in Nat /\ Len(w) \in Nat /\ Len(w) <= t
  BY DEF Stream
<1>2. /\ new \in Seq(1..MaxPush) /\ Len(new) = Least(Len(w), n)
      /\ \A i \in 1..Len(new) : new[i] = w[Len(w) - Len(new) + i]
  BY <1>1, NewestIsSuffix
<1>3. Len(new) \in Nat /\ Len(new) <= Len(w) /\ Len(new) <= n
  BY <1>1, <1>2 DEF Least
<1>4. ASSUME NEW i \in 1..Len(new) PROVE new[i] = t - Len(new) + i
  <2>1. PICK j \in 1..Len(w) : j = Len(w) - Len(new) + i
    <3>1. Len(w) - Len(new) + i \in 1..Len(w)
      BY <1>1, <1>3
    <3> QED
      BY <3>1
  <2>2. new[i] = w[j] /\ w[j] = t - Len(w) + j
    BY <1>2, <2>1 DEF Stream
  <2> QED
    BY <1>1, <1>3, <2>1, <2>2
<1> QED
  BY <1>1, <1>2, <1>3, <1>4 DEF Stream

\* A snapshot begins with the oldest sample.
LEMMA SnapshotOfStream ==
    ASSUME NEW w, NEW t, NEW c, Stream(w, t, c)
    PROVE  /\ Snapshot(w) \in Seq(1..MaxPush)
           /\ Len(Snapshot(w)) = Least(Len(w), ReadCap)
           /\ \A i \in 1..Len(Snapshot(w)) : Snapshot(w)[i] = t - Len(w) + i
<1>1. w \in Seq(1..MaxPush) /\ Len(w) \in Nat
  BY DEF Stream
<1>2. PICK m \in 0..Len(w) : m = Least(Len(w), ReadCap) /\ Snapshot(w) = SubSeq(w, 1, m)
  BY <1>1, SMTT(60) DEF Least, Snapshot
<1>3. /\ SubSeq(w, 1, m) \in Seq(1..MaxPush) /\ Len(SubSeq(w, 1, m)) = m
      /\ \A i \in 1..m : SubSeq(w, 1, m)[i] = w[i]
  BY <1>1, <1>2
<1> QED
  BY <1>1, <1>2, <1>3, SMTT(60) DEF Stream

-----------------------------------------------------------------------------
(* The pair                                                                *)

Buffers ==
    /\ Stream(primary, ptaken, pcap) /\ Stream(secondary, staken, scap)
    /\ pcap \in Sizes /\ scap \in Sizes
    /\ collecting \in {"primary", "secondary"} /\ resizing \in Sizes \union {0}

\* The primary buffer is the one sample ahead that a collection is at.
After(c) == IF c = "secondary" THEN 1 ELSE 0

Abreast(pt, st, c) == pt = st + After(c)

InStep == Abreast(ptaken, staken, collecting)

\* Each buffer has had the collections since the last resize, and the primary
\* the one before as well when the resize came between its push and the
\* secondary's.
FilledTo(lp, ls, pc, sc, n, c) == lp >= Least(n + After(c), pc) /\ ls >= Least(n, sc)

Filled == /\ settled \in Nat /\ settled <= staken
          /\ FilledTo(Len(primary), Len(secondary), pcap, scap, settled, collecting)

\* What an undisturbed pair looks like at each place where its two threads
\* can be.
LevelUnlessSkew ==
    ~skewed =>
      /\ collecting = "secondary" =>
           resizing = 0 /\ pcap = scap /\ Len(primary) = Least(Len(secondary) + 1, scap)
      /\ collecting = "primary" /\ resizing = 0 => Level
      /\ collecting = "primary" /\ resizing # 0 =>
           pcap = resizing /\ Len(primary) = Least(Len(secondary), resizing)

Paired == Buffers /\ InStep /\ Filled /\ LevelUnlessSkew

LEMMA PairedInit == Init => Paired
<1> SUFFICES ASSUME Init PROVE Paired
  OBVIOUS
<1>1. /\ primary = <<>> /\ secondary = <<>> /\ ptaken = 0 /\ staken = 0 /\ settled = 0
      /\ pcap \in Sizes /\ scap = pcap /\ collecting = "primary" /\ resizing = 0
  BY DEF Init, P!Init, S!Init
<1>2. Buffers
  BY <1>1 DEF Buffers, Stream
<1>3. InStep
  BY <1>1 DEF InStep, Abreast, After
<1>4. Filled
  BY <1>1 DEF Filled, FilledTo, After, Least
<1>5. LevelUnlessSkew
  BY <1>1 DEF LevelUnlessSkew, Level
<1> QED
  BY <1>2, <1>3, <1>4, <1>5 DEF Paired

\* An undisturbed pair was so before, or is level again.
LEMMA Undisturbed ==
    ASSUME NEW how \in BOOLEAN, Disturb(how)
    PROVE  ~skewed' => (~skewed /\ ~how) \/ (Rest' /\ Level')
BY DEF Disturb

LEMMA LevelAgain == Rest' /\ Level' => LevelUnlessSkew'
BY DEF Rest, LevelUnlessSkew

LEMMA PairedPushPrimary == Paired /\ PushPrimary => Paired'
<1> SUFFICES ASSUME Paired, PushPrimary PROVE Paired'
  OBVIOUS
<1>1. /\ collecting = "primary" /\ collecting' = "secondary" /\ ptaken' = ptaken + 1
      /\ UNCHANGED <<pcap, secondary, scap, staken, resizing, settled>>
      /\ ptaken < MaxPush /\ primary' = P!Newest(Append(primary, ptaken + 1), pcap)
      /\ Disturb(resizing # 0)
  BY DEF PushPrimary, P!Push
<1>2. /\ Stream(primary, ptaken, pcap) /\ pcap \in Nat \ {0} /\ scap \in Nat \ {0}
      /\ ptaken \in Nat /\ staken \in Nat /\ settled \in Nat
      /\ Len(primary) \in Nat /\ Len(secondary) \in Nat
  BY DEF Paired, Buffers, Filled, Stream
<1>3. Stream(primary', ptaken + 1, pcap) /\ Len(primary') = Least(Len(primary) + 1, pcap)
  BY <1>1, <1>2, StreamPush
<1>4. Buffers'
  BY <1>1, <1>3 DEF Paired, Buffers
<1>5. InStep'
  BY <1>1, <1>2 DEF Paired, InStep, Abreast, After
<1>6. Filled'
  <2>1. FilledTo(Least(Len(primary) + 1, pcap), Len(secondary), pcap, scap, settled, "secondary")
    BY <1>1, <1>2 DEF Paired, Filled, FilledTo, After, Least
  <2> QED
    BY <1>1, <1>3, <2>1 DEF Paired, Filled
<1>7. LevelUnlessSkew'
  <2>1. ~Rest'
    BY <1>1 DEF Rest
  <2>2. ~skewed' => ~skewed /\ resizing = 0
    BY <1>1, <2>1, Undisturbed
  <2> QED
    BY <1>1, <1>3, <2>2 DEF Paired, LevelUnlessSkew, Level
<1> QED
  BY <1>4, <1>5, <1>6, <1>7 DEF Paired

LEMMA PairedPushSecondary == Paired /\ PushSecondary => Paired'
<1> SUFFICES ASSUME Paired, PushSecondary PROVE Paired'
  OBVIOUS
<1>1. /\ collecting = "secondary" /\ collecting' = "primary" /\ staken' = staken + 1
      /\ settled' = settled + 1
      /\ UNCHANGED <<primary, pcap, ptaken, scap, resizing>>
      /\ staken < MaxPush /\ secondary' = P!Newest(Append(secondary, staken + 1), scap)
      /\ Disturb(resizing # 0)
  BY SameNewest DEF PushSecondary, S!Push
<1>2. /\ Stream(secondary, staken, scap) /\ pcap \in Nat \ {0} /\ scap \in Nat \ {0}
      /\ ptaken \in Nat /\ staken \in Nat /\ settled \in Nat /\ settled <= staken
      /\ Len(primary) \in Nat /\ Len(secondary) \in Nat
  BY DEF Paired, Buffers, Filled, Stream
<1>3. Stream(secondary', staken + 1, scap) /\ Len(secondary') = Least(Len(secondary) + 1, scap)
  BY <1>1, <1>2, StreamPush
<1>4. Buffers'
  BY <1>1, <1>3 DEF Paired, Buffers
<1>5. InStep'
  BY <1>1, <1>2 DEF Paired, InStep, Abreast, After
<1>6. Filled'
  <2>1. FilledTo(Len(primary), Least(Len(secondary) + 1, scap), pcap, scap, settled + 1, "primary")
    BY <1>1, <1>2 DEF Paired, Filled, FilledTo, After, Least
  <2>2. settled + 1 \in Nat /\ settled + 1 <= staken + 1
    BY <1>2
  <2> QED
    BY <1>1, <1>3, <2>1, <2>2 DEF Filled
<1>7. LevelUnlessSkew'
  <2>1. CASE Rest' /\ Level'
    BY <2>1, LevelAgain
  <2>2. CASE ~skewed /\ resizing = 0
    BY <1>1, <1>3, <2>2 DEF Paired, LevelUnlessSkew, Level
  <2>3. CASE skewed'
    BY <2>3 DEF LevelUnlessSkew
  <2> QED
    BY <1>1, <2>1, <2>2, <2>3, Undisturbed
<1> QED
  BY <1>4, <1>5, <1>6, <1>7 DEF Paired

LEMMA PairedResizePrimary == ASSUME NEW n \in Sizes, Paired, ResizePrimary(n) PROVE Paired'
<1>1. /\ resizing = 0 /\ resizing' = n /\ n # 0 /\ settled' = 0
      /\ UNCHANGED <<secondary, scap, staken, collecting>>
  BY DEF ResizePrimary
<1>2. /\ Stream(primary, ptaken, pcap) /\ pcap \in Nat \ {0} /\ scap \in Nat \ {0}
      /\ n \in Nat \ {0} /\ ptaken \in Nat /\ staken \in Nat /\ settled \in Nat
      /\ Len(primary) \in Nat /\ Len(secondary) \in Nat
  BY DEF Paired, Buffers, Filled, Stream
<1>3. ~Rest'
  BY <1>1 DEF Rest
<1>4. CASE P!Resize(n) /\ Disturb(collecting = "secondary")
  <2>1. pcap' = n /\ ptaken' = ptaken /\ primary' = P!Newest(primary, n)
    BY <1>4 DEF P!Resize
  <2>2. Stream(primary', ptaken, n) /\ Len(primary') = Least(Len(primary), n)
    BY <1>2, <2>1, StreamResize
  <2>3. Buffers'
    BY <1>1, <2>1, <2>2 DEF Paired, Buffers
  <2>4. InStep'
    BY <1>1, <2>1 DEF Paired, InStep
  <2>5. Filled'
    <3>1. FilledTo(Least(Len(primary), n), Len(secondary), n, scap, 0, collecting)
      BY <1>2 DEF Paired, Filled, FilledTo, After, Least
    <3> QED
      BY <1>1, <1>2, <2>1, <2>2, <3>1 DEF Filled
  <2>6. LevelUnlessSkew'
    <3>1. ~skewed' => ~skewed /\ collecting # "secondary"
      BY <1>3, <1>4, Undisturbed
    <3> QED
      BY <1>1, <2>1, <2>2, <3>1 DEF Paired, LevelUnlessSkew, Level
  <2> QED
    BY <2>3, <2>4, <2>5, <2>6 DEF Paired
<1>5. CASE UNCHANGED <<primary, pcap, ptaken>> /\ Disturb(TRUE)
  <2>1. Buffers' /\ InStep'
    BY <1>1, <1>5 DEF Paired, Buffers, InStep
  <2>2. Filled'
    <3>1. FilledTo(Len(primary), Len(secondary), pcap, scap, 0, collecting)
      BY <1>2 DEF Paired, Filled, FilledTo, After, Least
    <3> QED
      BY <1>1, <1>2, <1>5, <3>1 DEF Filled
  <2>3. skewed'
    BY <1>3, <1>5, Undisturbed
  <2> QED
    BY <2>1, <2>2, <2>3 DEF Paired, LevelUnlessSkew
<1> QED
  BY <1>4, <1>5 DEF ResizePrimary

LEMMA PairedResizeSecondary == Paired /\ ResizeSecondary => Paired'
<1> SUFFICES ASSUME Paired, ResizeSecondary PROVE Paired'
  OBVIOUS
<1>1. /\ resizing # 0 /\ resizing' = 0 /\ settled' = 0
      /\ UNCHANGED <<primary, pcap, ptaken, collecting>>
  BY DEF ResizeSecondary
<1>2. /\ Stream(secondary, staken, scap) /\ pcap \in Nat \ {0} /\ scap \in Nat \ {0}
      /\ resizing \in Sizes /\ resizing \in Nat \ {0}
      /\ ptaken \in Nat /\ staken \in Nat /\ settled \in Nat
      /\ Len(primary) \in Nat /\ Len(secondary) \in Nat
  BY <1>1 DEF Paired, Buffers, Filled, Stream
<1>3. CASE S!Resize(resizing) /\ Disturb(collecting = "secondary")
  <2>1. scap' = resizing /\ staken' = staken /\ secondary' = P!Newest(secondary, resizing)
    BY <1>3, SameNewest DEF S!Resize
  <2>2. Stream(secondary', staken, resizing) /\ Len(secondary') = Least(Len(secondary), resizing)
    BY <1>2, <2>1, StreamResize
  <2>3. Buffers'
    BY <1>1, <1>2, <2>1, <2>2 DEF Paired, Buffers
  <2>4. InStep'
    BY <1>1, <2>1 DEF Paired, InStep
  <2>5. Filled'
    <3>1. FilledTo(Len(primary), Least(Len(secondary), resizing), pcap, resizing, 0, collecting)
      BY <1>2 DEF Paired, Filled, FilledTo, After, Least
    <3> QED
      BY <1>1, <1>2, <2>1, <2>2, <3>1 DEF Filled
  <2>6. LevelUnlessSkew'
    <3>1. CASE Rest' /\ Level'
      BY <3>1, LevelAgain
    <3>2. CASE ~skewed /\ collecting # "secondary"
      BY <1>1, <2>1, <2>2, <3>2 DEF Paired, Buffers, LevelUnlessSkew, Level
    <3>3. CASE skewed'
      BY <3>3 DEF LevelUnlessSkew
    <3> QED
      BY <1>3, <3>1, <3>2, <3>3, Undisturbed
  <2> QED
    BY <2>3, <2>4, <2>5, <2>6 DEF Paired
<1>4. CASE UNCHANGED <<secondary, scap, staken>> /\ Disturb(TRUE)
  <2>1. Buffers' /\ InStep'
    BY <1>1, <1>4 DEF Paired, Buffers, InStep
  <2>2. Filled'
    <3>1. FilledTo(Len(primary), Len(secondary), pcap, scap, 0, collecting)
      BY <1>2 DEF Paired, Filled, FilledTo, After, Least
    <3> QED
      BY <1>1, <1>2, <1>4, <3>1 DEF Filled
  <2>3. LevelUnlessSkew'
    <3>1. ~skewed' => Rest' /\ Level'
      BY <1>4, Undisturbed
    <3> QED
      BY <3>1, LevelAgain DEF LevelUnlessSkew
  <2> QED
    BY <2>1, <2>2, <2>3 DEF Paired
<1> QED
  BY <1>3, <1>4 DEF ResizeSecondary

LEMMA PairedNext == Paired /\ [Next]_vars => Paired'
<1>1. Paired /\ UNCHANGED <<bufVars, collecting, resizing, skewed, settled>> => Paired'
  BY DEF Paired, Buffers, InStep, Filled, LevelUnlessSkew, Level, bufVars
<1> QED
  BY <1>1, PairedPushPrimary, PairedPushSecondary, PairedResizePrimary, PairedResizeSecondary
     DEF Next, DrawFirst, DrawSecond, DrawGiveUp, DrawDone, vars

LEMMA PairedAlways == Spec => []Paired
BY PairedInit, PairedNext, PTL DEF Spec

\* The two buffers never get out of step, counted from the newest sample,
\* whatever resizes and failures of resizes come between their pushes.
THEOREM AlignedAlways == Spec => []AlignedFromNewest
<1>1. Paired => AlignedFromNewest
  <2> SUFFICES ASSUME Paired, collecting = "primary",
                      NEW k \in 1..Len(primary), k <= Len(secondary)
               PROVE  primary[Len(primary) + 1 - k] = secondary[Len(secondary) + 1 - k]
    BY DEF AlignedFromNewest
  <2>1. /\ Len(primary) \in Nat /\ Len(secondary) \in Nat
        /\ ptaken \in Nat /\ staken \in Nat /\ ptaken = staken
    BY SMTT(60) DEF Paired, Buffers, Stream, InStep, Abreast, After
  <2>2. PICK i \in 1..Len(primary) : i = Len(primary) + 1 - k
    <3>1. Len(primary) + 1 - k \in 1..Len(primary)
      BY <2>1
    <3> QED
      BY <3>1
  <2>3. PICK j \in 1..Len(secondary) : j = Len(secondary) + 1 - k
    <3>1. Len(secondary) + 1 - k \in 1..Len(secondary)
      BY <2>1
    <3> QED
      BY <3>1
  <2>4. primary[i] = ptaken - Len(primary) + i /\ secondary[j] = staken - Len(secondary) + j
    BY DEF Paired, Buffers, Stream
  <2> QED
    BY <2>1, <2>2, <2>3, <2>4
<1> QED
  BY <1>1, PairedAlways, PTL

\* At rest the two buffers hold equally many samples unless something came
\* between them, and a skew does not outlive as many collections as a buffer
\* has room for.
THEOREM LevelAlways == Spec => []LevelUnlessDisturbed
<1>1. Paired => LevelUnlessDisturbed
  <2> SUFFICES ASSUME Paired, Rest PROVE LevelUnlessDisturbed
    BY DEF LevelUnlessDisturbed
  <2>1. ~skewed => Level
    BY DEF Paired, LevelUnlessSkew, Rest
  <2>2. ASSUME pcap = scap, settled >= pcap PROVE Len(primary) = pcap /\ Level
    <3>1. /\ Len(primary) \in Nat /\ Len(secondary) \in Nat
          /\ pcap \in Nat /\ Len(primary) <= pcap /\ Len(secondary) <= pcap
      BY <2>2 DEF Paired, Buffers, Stream
    <3>2. Len(primary) >= pcap /\ Len(secondary) >= pcap
      BY <2>2, <3>1 DEF Paired, Filled, FilledTo, After, Least, Rest
    <3> QED
      BY <2>2, <3>1, <3>2 DEF Level
  <2> QED
    BY <2>1, <2>2 DEF LevelUnlessDisturbed
<1> QED
  BY <1>1, PairedAlways, PTL

-----------------------------------------------------------------------------
(* Drawing                                                                 *)

DrawingState == [pc : {"idle", "second", "drawn"},
                 one : Seq(1..MaxPush), two : Seq(1..MaxPush),
                 ahead : 0..1, pushes : Nat, clean : BOOLEAN]

\* The oldest sample of a buffer of n samples out of t, against the oldest one
\* of the snapshot taken before.
Shifted(one, t, n, ahead, pushes) ==
    \A i \in 1..Len(one) : (t - n + i) - one[i] \in (-ahead)..pushes

\* What a drawing r of an undisturbed pair holds, the secondary buffer having
\* n samples out of t: between its two snapshots that buffer has lost no more
\* samples than it was given; after them the columns are as close.
Held(r, t, n) ==
    /\ r \in DrawingState
    /\ r.clean /\ r.pc = "second" => Shifted(r.one, t, n, r.ahead, r.pushes)
    /\ r.clean /\ r.pc = "drawn" =>
         \A i \in 1..Least(Len(r.one), Len(r.two)) :
             r.two[i] - r.one[i] \in (-r.ahead)..r.pushes

Drawn == /\ drawing \in [Drawers -> DrawingState]
         /\ \A d \in Drawers : Held(drawing[d], staken, Len(secondary))

LEMMA BlankIsHeld == \A t, n : Held(Blank, t, n)
BY DEF Blank, DrawingState, Held

\* What a thread finds at its first snapshot: as far along as the pair is.
LEMMA ShiftedAtFirst ==
    ASSUME Paired, ~skewed, resizing = 0
    PROVE  Shifted(Snapshot(primary), staken, Len(secondary), After(collecting), 0)
<1>1. /\ ptaken \in Nat /\ staken \in Nat /\ Len(primary) \in Nat /\ Len(secondary) \in Nat
      /\ ptaken = staken + After(collecting) /\ collecting \in {"primary", "secondary"}
      /\ Len(secondary) <= scap /\ scap \in Nat
  BY DEF Paired, Buffers, Stream, InStep, Abreast
<1>2. \A i \in 1..Len(Snapshot(primary)) : Snapshot(primary)[i] = ptaken - Len(primary) + i
  BY SnapshotOfStream DEF Paired, Buffers
<1>3. (staken - Len(secondary)) - (ptaken - Len(primary)) \in (-After(collecting))..0
  <2>1. CASE collecting = "primary"
    BY <1>1, <2>1 DEF Paired, LevelUnlessSkew, Level, After
  <2>2. CASE collecting = "secondary"
    BY <1>1, <2>2 DEF Paired, LevelUnlessSkew, Least, After
  <2> QED
    BY <1>1, <2>1, <2>2
<1>4. Len(Snapshot(primary)) \in Nat
  BY SnapshotOfStream DEF Paired, Buffers
<1>5. ASSUME NEW i \in 1..Len(Snapshot(primary))
      PROVE  (staken - Len(secondary) + i) - Snapshot(primary)[i]
               = (staken - Len(secondary)) - (ptaken - Len(primary))
  BY <1>1, <1>2, <1>4
<1> QED
  BY <1>3, <1>5 DEF Shifted

\* A push takes away the oldest sample, or none.
LEMMA ShiftOfOne ==
    \A t, n, m, ahead, pushes \in Nat : \A i, e \in Int :
      (m = n \/ m = n + 1) /\ (t - n + i) - e \in (-ahead)..pushes
        => ((t + 1) - m + i) - e \in (-ahead)..(pushes + 1)
OBVIOUS

LEMMA ShiftedByPush ==
    ASSUME NEW one \in Seq(1..MaxPush), NEW t \in Nat, NEW n \in Nat, NEW c \in Nat \ {0},
           NEW ahead \in Nat, NEW pushes \in Nat, n <= c,
           Shifted(one, t, n, ahead, pushes),
           NEW m \in Nat, m = Least(n + 1, c)
    PROVE  Shifted(one, t + 1, m, ahead, pushes + 1)
<1>1. m = n \/ m = n + 1
  BY DEF Least
<1>2. ASSUME NEW i \in 1..Len(one) PROVE i \in Int /\ one[i] \in Int
  <2>1. one[i] \in 1..MaxPush
    BY ElementOfSeq, Zenon
  <2> QED
    BY ONLY <2>1, i \in 1..Len(one), Len(one) \in Nat
<1>3. ASSUME NEW i \in 1..Len(one)
      PROVE  ((t + 1) - m + i) - one[i] \in (-ahead)..(pushes + 1)
  <2>1. (t - n + i) - one[i] \in (-ahead)..pushes
    BY Zenon DEF Shifted
  <2>2. i \in Int /\ one[i] \in Int
    BY <1>2
  <2> QED
    BY <1>1, <2>1, <2>2, ShiftOfOne, Zenon
<1> QED
  BY ONLY <1>3, Zenon DEF Shifted

LEMMA HeldByPush ==
    ASSUME NEW r, NEW t \in Nat, NEW n \in Nat, NEW c \in Nat \ {0}, n <= c,
           Held(r, t, n), NEW m \in Nat, m = Least(n + 1, c)
    PROVE  Held(IF r.pc = "second" THEN [r EXCEPT !.pushes = @ + 1] ELSE r, t + 1, m)
<1>1. CASE r.pc = "second"
  <2> DEFINE q == [r EXCEPT !.pushes = @ + 1]
  <2>1. /\ r \in DrawingState /\ q \in DrawingState /\ q.pc = "second"
        /\ q.one = r.one /\ q.ahead = r.ahead /\ q.clean = r.clean /\ q.pushes = r.pushes + 1
    <3>1. r \in DrawingState /\ r.pushes + 1 \in Nat
      BY DEF Held, DrawingState
    <3> QED
      BY <1>1, <3>1 DEF DrawingState
  <2>2. /\ r.one \in Seq(1..MaxPush) /\ r.ahead \in Nat /\ r.pushes \in Nat
    BY <2>1 DEF DrawingState
  <2>3. r.clean => Shifted(r.one, t, n, r.ahead, r.pushes)
    BY <1>1 DEF Held
  <2>4. r.clean => Shifted(r.one, t + 1, m, r.ahead, r.pushes + 1)
    BY <2>2, <2>3, ShiftedByPush
  <2> HIDE DEF q
  <2>5. Held(q, t + 1, m)
    BY <2>1, <2>4 DEF Held
  <2> QED
    BY <1>1, <2>5 DEF q
<1>2. CASE r.pc # "second"
  BY <1>2 DEF Held
<1> QED
  BY <1>1, <1>2

LEMMA HeldByResize ==
    ASSUME NEW r, NEW t, NEW n, Held(r, t, n), NEW t2, NEW n2
    PROVE  Held(IF r.pc = "idle" THEN r ELSE [r EXCEPT !.clean = FALSE], t2, n2)
<1>1. CASE r.pc = "idle"
  BY <1>1 DEF Held
<1>2. CASE r.pc # "idle"
  <2>1. /\ [r EXCEPT !.clean = FALSE] \in DrawingState
        /\ [r EXCEPT !.clean = FALSE].clean = FALSE
    BY DEF Held, DrawingState
  <2> QED
    BY <1>2, <2>1 DEF Held
<1> QED
  BY <1>1, <1>2

LEMMA HeldBySecond ==
    ASSUME NEW r, NEW w, NEW t, NEW c, Stream(w, t, c), Held(r, t, Len(w)), r.pc = "second"
    PROVE  Held([r EXCEPT !.pc = "drawn", !.two = Snapshot(w)], t, Len(w))
<1> DEFINE q == [r EXCEPT !.pc = "drawn", !.two = Snapshot(w)]
<1>1. /\ Snapshot(w) \in Seq(1..MaxPush)
      /\ \A i \in 1..Len(Snapshot(w)) : Snapshot(w)[i] = t - Len(w) + i
  BY SnapshotOfStream
<1>2. /\ q \in DrawingState /\ q.pc = "drawn" /\ q.one = r.one /\ q.two = Snapshot(w)
      /\ q.ahead = r.ahead /\ q.pushes = r.pushes /\ q.clean = r.clean
      /\ r.one \in Seq(1..MaxPush)
  BY <1>1 DEF Held, DrawingState
<1>3. r.clean => Shifted(r.one, t, Len(w), r.ahead, r.pushes)
  BY DEF Held
<1> HIDE DEF q
<1>4. ASSUME r.clean, NEW i \in 1..Least(Len(q.one), Len(q.two))
      PROVE  q.two[i] - q.one[i] \in (-q.ahead)..q.pushes
  <2>1. Len(q.one) \in Nat /\ Len(q.two) \in Nat
    BY <1>1, <1>2
  <2>2. i \in 1..Len(r.one) /\ i \in 1..Len(Snapshot(w))
    BY <1>2, <2>1 DEF Least
  <2>3. (t - Len(w) + i) - r.one[i] \in (-r.ahead)..r.pushes
    BY <1>3, <1>4, <2>2, Zenon DEF Shifted
  <2> QED
    BY <1>1, <1>2, <2>2, <2>3, Zenon
<1>5. Held(q, t, Len(w))
  BY <1>2, <1>4 DEF Held
<1> QED
  BY <1>5 DEF q

LEMMA HeldAtFirst ==
    ASSUME Paired, NEW clean \in BOOLEAN, clean = (~skewed /\ resizing = 0)
    PROVE  Held([Blank EXCEPT !.pc = "second", !.one = Snapshot(primary),
                   !.ahead = After(collecting), !.clean = clean], staken, Len(secondary))
<1> DEFINE q == [Blank EXCEPT !.pc = "second", !.one = Snapshot(primary),
                   !.ahead = After(collecting), !.clean = clean]
<1>1. Snapshot(primary) \in Seq(1..MaxPush) /\ After(collecting) \in 0..1
  BY SnapshotOfStream DEF Paired, Buffers, After
<1>2. /\ q \in DrawingState /\ q.pc = "second" /\ q.one = Snapshot(primary)
      /\ q.ahead = After(collecting) /\ q.pushes = 0 /\ q.clean = clean
  <2> DEFINE h == [Blank EXCEPT !.pc = "second", !.one = Snapshot(primary)]
  <2>1. /\ h \in DrawingState /\ h.pc = "second" /\ h.one = Snapshot(primary)
        /\ h.pushes = 0
    <3>1. Blank \in DrawingState /\ Blank.pushes = 0
      BY DEF Blank, DrawingState
    <3> QED
      BY <1>1, <3>1 DEF DrawingState
  <2>2. q = [h EXCEPT !.ahead = After(collecting), !.clean = clean]
    OBVIOUS
  <2> HIDE DEF q, h
  <2> QED
    BY <1>1, <2>1, <2>2 DEF DrawingState
<1> HIDE DEF q
<1>3. Held(q, staken, Len(secondary))
  BY <1>2, ShiftedAtFirst DEF Held
<1> QED
  BY <1>3 DEF q

LEMMA DrawnInit == Init => Drawn
BY BlankIsHeld DEF Init, Drawn, Held

LEMMA DrawnPushSecondary == Paired /\ Drawn /\ PushSecondary => Drawn'
<1> SUFFICES ASSUME Paired, Drawn, PushSecondary PROVE Drawn'
  OBVIOUS
<1>1. /\ staken' = staken + 1 /\ secondary' = P!Newest(Append(secondary, staken + 1), scap)
      /\ staken < MaxPush
  BY SameNewest DEF PushSecondary, S!Push
<1>2. /\ Stream(secondary, staken, scap) /\ scap \in Nat \ {0} /\ staken \in Nat
      /\ Len(secondary) \in Nat /\ Len(secondary) <= scap
  BY DEF Paired, Buffers, Stream
<1>3. Len(secondary') = Least(Len(secondary) + 1, scap) /\ Len(secondary') \in Nat
  <2>1. Len(secondary') = Least(Len(secondary) + 1, scap)
    BY <1>1, <1>2, StreamPush
  <2>2. Least(Len(secondary) + 1, scap) \in Nat
    BY <1>2 DEF Least
  <2> QED
    BY <2>1, <2>2
<1>4. /\ DOMAIN drawing' = Drawers
      /\ \A d \in Drawers : Held(drawing'[d], staken', Len(secondary'))
  BY <1>1, <1>2, <1>3, HeldByPush DEF PushSecondary, Drawn
<1>5. drawing' \in [Drawers -> DrawingState]
  BY <1>4 DEF PushSecondary, Held
<1> QED
  BY <1>4, <1>5 DEF Drawn

LEMMA DrawnResize == Drawn /\ DisturbDrawing => Drawn'
<1> SUFFICES ASSUME Drawn, DisturbDrawing PROVE Drawn'
  OBVIOUS
<1>1. \A d \in Drawers : Held(drawing'[d], staken', Len(secondary'))
  BY HeldByResize DEF DisturbDrawing, Drawn
<1>2. drawing' \in [Drawers -> DrawingState]
  BY <1>1 DEF DisturbDrawing, Held
<1> QED
  BY <1>1, <1>2 DEF Drawn

LEMMA DrawnByThread ==
    ASSUME NEW d \in Drawers, Paired, Drawn,
           DrawFirst(d) \/ DrawSecond(d) \/ DrawGiveUp(d) \/ DrawDone(d)
    PROVE  Drawn'
<1>1. UNCHANGED <<staken, secondary>>
  BY DEF DrawFirst, DrawSecond, DrawGiveUp, DrawDone, bufVars
<1> SUFFICES ASSUME NEW q, drawing' = [drawing EXCEPT ![d] = q],
                    Held(q, staken, Len(secondary))
             PROVE  Drawn'
  <2>1. CASE DrawFirst(d)
    BY <2>1, HeldAtFirst DEF DrawFirst, After, Paired
  <2>2. CASE DrawSecond(d)
    <3> DEFINE r == [drawing[d] EXCEPT !.pc = "drawn", !.two = Snapshot(secondary)]
    <3>1. Held(r, staken, Len(secondary))
      BY <2>2, HeldBySecond DEF DrawSecond, Drawn, Paired, Buffers
    <3>2. drawing' = [drawing EXCEPT ![d] = r]
      BY <2>2 DEF DrawSecond, Drawn, DrawingState
    <3> QED
      BY <3>1, <3>2
  <2>3. CASE DrawGiveUp(d) \/ DrawDone(d)
    BY <2>3, BlankIsHeld DEF DrawGiveUp, DrawDone
  <2> QED
    BY <2>1, <2>2, <2>3
<1> QED
  BY <1>1 DEF Drawn, Held

LEMMA DrawnNext == Paired /\ Drawn /\ [Next]_vars => Drawn'
<1> SUFFICES ASSUME Paired, Drawn, [Next]_vars PROVE Drawn'
  OBVIOUS
<1>1. CASE PushPrimary
  BY <1>1 DEF PushPrimary, Drawn
<1>2. CASE PushSecondary
  BY <1>2, DrawnPushSecondary
<1>3. CASE \E n \in Sizes : ResizePrimary(n)
  BY <1>3, DrawnResize DEF ResizePrimary
<1>4. CASE ResizeSecondary
  BY <1>4, DrawnResize DEF ResizeSecondary
<1>5. CASE \E d \in Drawers : DrawFirst(d) \/ DrawSecond(d) \/ DrawGiveUp(d) \/ DrawDone(d)
  BY <1>5, DrawnByThread
<1>6. CASE UNCHANGED vars
  BY <1>6 DEF vars, bufVars, Drawn
<1> QED
  BY <1>1, <1>2, <1>3, <1>4, <1>5, <1>6 DEF Next

LEMMA DrawnAlways == Spec => []Drawn
BY DrawnInit, DrawnNext, PairedAlways, PTL DEF Spec

\* A dual plot drawn from two snapshots shows no column whose two samples are
\* further apart than the collections that fell between the snapshots, when
\* the pair was level and nothing resized it.
THEOREM ColumnsAlways == Spec => []ColumnsWithinPushes
<1>1. Drawn => ColumnsWithinPushes
  BY DEF Drawn, Held, ColumnsWithinPushes, Columns, Least
<1> QED
  BY <1>1, DrawnAlways, PTL

\* The types of all variables.
THEOREM TypeCorrect == Spec => []TypeOK
<1>1. (skewed \in BOOLEAN) /\ [Next]_vars => (skewed \in BOOLEAN)'
  BY DEF Next, vars, PushPrimary, PushSecondary, ResizePrimary, ResizeSecondary, Disturb,
     DrawFirst, DrawSecond, DrawGiveUp, DrawDone
<1>2. Init => skewed \in BOOLEAN
  BY DEF Init
<1>3. Paired /\ Drawn /\ skewed \in BOOLEAN => TypeOK
  BY DEF Paired, Buffers, Stream, Filled, Drawn, DrawingState, TypeOK
<1> QED
  BY <1>1, <1>2, <1>3, PairedAlways, DrawnAlways, PTL DEF Spec

=============================================================================
