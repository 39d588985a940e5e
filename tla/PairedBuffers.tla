--------------------------- MODULE PairedBuffers ----------------------------
(***************************************************************************)
(* A dual plot (bandwidth in and out): two sample buffers filled by one    *)
(* collector thread, a value into each per collection; resized one after   *)
(* the other by the main thread when the window changes width; and drawn   *)
(* by the main thread and by the http thread, which take a snapshot of     *)
(* each in turn and put the i-th sample of the one beside the i-th of the  *)
(* other, counting from the oldest.                                        *)
(*                                                                         *)
(* Each buffer is a SampleWindow, which RingBuf implements; a snapshot is  *)
(* one step here (what a snapshot can miss is RingBuf's subject).  What is *)
(* studied is the pair: no lock covers the two buffers together.           *)
(***************************************************************************)
EXTENDS Integers, Sequences

CONSTANTS Main, Httpd,   \* the threads that draw
          Sizes,         \* buffer sizes the window width asks for
          MaxPush,       \* bound on the number of collections
          ReadCap        \* samples a snapshot has room for (2048 in the code)

ASSUME PairAssumption ==
    /\ Main # Httpd
    /\ Sizes \subseteq Nat \ {0}
    /\ MaxPush \in Nat
    /\ ReadCap \in Nat \ {0}

Drawers == {Main, Httpd}

VARIABLES
    primary, pcap, ptaken,       \* data_buffer
    secondary, scap, staken,     \* data_buffer_secondary
    collecting,                  \* "primary" or "secondary": where the next push goes
    resizing,                    \* 0, or the size the secondary buffer is still to get
    drawing,                     \* per thread: its two snapshots, and how far it is
    \* history, read by the properties only
    skewed,                      \* something has come between the two buffers
    settled                      \* collections pushed since the last resize

bufVars == <<primary, pcap, ptaken, secondary, scap, staken>>
vars == <<bufVars, collecting, resizing, drawing, skewed, settled>>

P == INSTANCE SampleWindow WITH window <- primary, cap <- pcap, taken <- ptaken
S == INSTANCE SampleWindow WITH window <- secondary, cap <- scap, taken <- staken

Blank == [pc |-> "idle", one |-> <<>>, two |-> <<>>,
          ahead |-> 0, pushes |-> 0, clean |-> TRUE]

\* data_collector_create gives both buffers the same size.
Init ==
    /\ P!Init /\ S!Init /\ pcap = scap
    /\ collecting = "primary"
    /\ resizing = 0
    /\ drawing = [d \in Drawers |-> Blank]
    /\ skewed = FALSE /\ settled = 0

\* No thread is between its two buffers.
Rest  == collecting = "primary" /\ resizing = 0
Level == Len(primary) = Len(secondary) /\ pcap = scap

\* The pair is skewed from the step that disturbs it until both buffers are
\* level again with no thread between them.
Disturb(how) == skewed' = ((skewed \/ how) /\ ~(Rest' /\ Level'))

-----------------------------------------------------------------------------
(* The collector thread: a collection, successful or not, is one push into *)
(* each buffer, primary first.                                             *)

PushPrimary ==
    /\ collecting = "primary"
    /\ P!Push
    /\ collecting' = "secondary"
    /\ UNCHANGED <<secondary, scap, staken, resizing, drawing, settled>>
    /\ Disturb(resizing # 0)

\* Mutant: a failed collection is recorded in the primary buffer only.
PushSecondaryOnSuccess ==
    /\ collecting = "secondary"
    /\ \/ S!Push
       \/ UNCHANGED <<secondary, scap, staken>>
    /\ collecting' = "primary"
    /\ settled' = settled + 1
    /\ UNCHANGED <<primary, pcap, ptaken, resizing, drawing>>
    /\ Disturb(resizing # 0)

PushSecondary ==
    /\ collecting = "secondary"
    /\ S!Push
    /\ collecting' = "primary"
    /\ drawing' = [d \in Drawers |->
                     IF drawing[d].pc = "second"
                     THEN [drawing[d] EXCEPT !.pushes = @ + 1] ELSE drawing[d]]
    /\ settled' = settled + 1
    /\ UNCHANGED <<primary, pcap, ptaken, resizing>>
    /\ Disturb(resizing # 0)

-----------------------------------------------------------------------------
(* The main thread, when the plot width has changed.  The result of        *)
(* ringbuf_resize is ignored, so a buffer whose malloc fails keeps its     *)
(* size until the width changes again.                                     *)

DisturbDrawing ==
    drawing' = [d \in Drawers |-> IF drawing[d].pc = "idle" THEN drawing[d]
                                  ELSE [drawing[d] EXCEPT !.clean = FALSE]]

ResizePrimary(n) ==
    /\ resizing = 0 /\ drawing[Main].pc = "idle"
    /\ resizing' = n
    /\ settled' = 0
    /\ DisturbDrawing
    /\ UNCHANGED <<secondary, scap, staken, collecting>>
    /\ \/ P!Resize(n) /\ Disturb(collecting = "secondary")
       \/ n # pcap /\ UNCHANGED <<primary, pcap, ptaken>> /\ Disturb(TRUE)

\* Mutant: the secondary buffer is not resized.
ResizeSecondaryForgotten ==
    /\ resizing # 0
    /\ resizing' = 0
    /\ settled' = 0
    /\ DisturbDrawing
    /\ UNCHANGED <<primary, pcap, ptaken, secondary, scap, staken, collecting>>
    /\ Disturb(collecting = "secondary")

ResizeSecondary ==
    /\ resizing # 0
    /\ resizing' = 0
    /\ settled' = 0
    /\ DisturbDrawing
    /\ UNCHANGED <<primary, pcap, ptaken, collecting>>
    /\ \/ S!Resize(resizing) /\ Disturb(collecting = "secondary")
       \/ resizing # scap /\ UNCHANGED <<secondary, scap, staken>> /\ Disturb(TRUE)

-----------------------------------------------------------------------------
(* Drawing: plot_draw and render_chart.                                    *)

Snapshot(w) == SubSeq(w, 1, IF Len(w) < ReadCap THEN Len(w) ELSE ReadCap)

\* An empty primary buffer is drawn as "No data", without a second snapshot.
DrawFirst(d) ==
    /\ drawing[d].pc = "idle"
    /\ d = Main => resizing = 0
    /\ primary # <<>>
    /\ drawing' = [drawing EXCEPT ![d] =
                     [Blank EXCEPT !.pc = "second", !.one = Snapshot(primary),
                                   !.ahead = IF collecting = "secondary" THEN 1 ELSE 0,
                                   !.clean = ~skewed /\ resizing = 0]]
    /\ UNCHANGED <<bufVars, collecting, resizing, skewed, settled>>

\* Mutant: the second snapshot begins one sample late.
DrawSecondLate(d) ==
    /\ drawing[d].pc = "second"
    /\ drawing' = [drawing EXCEPT ![d].pc = "drawn",
                     ![d].two = IF secondary = <<>> THEN <<>> ELSE Snapshot(Tail(secondary))]
    /\ UNCHANGED <<bufVars, collecting, resizing, skewed, settled>>

DrawSecond(d) ==
    /\ drawing[d].pc = "second"
    /\ drawing' = [drawing EXCEPT ![d].pc = "drawn", ![d].two = Snapshot(secondary)]
    /\ UNCHANGED <<bufVars, collecting, resizing, skewed, settled>>

\* The second snapshot fails, and nothing is drawn.
DrawGiveUp(d) ==
    /\ drawing[d].pc = "second"
    /\ drawing' = [drawing EXCEPT ![d] = Blank]
    /\ UNCHANGED <<bufVars, collecting, resizing, skewed, settled>>

DrawDone(d) ==
    /\ drawing[d].pc = "drawn"
    /\ drawing' = [drawing EXCEPT ![d] = Blank]
    /\ UNCHANGED <<bufVars, collecting, resizing, skewed, settled>>

\* dual_count: a column is drawn where both snapshots have a sample.
Columns(d) ==
    1..(IF Len(drawing[d].one) < Len(drawing[d].two)
        THEN Len(drawing[d].one) ELSE Len(drawing[d].two))

-----------------------------------------------------------------------------
Next == \/ PushPrimary \/ PushSecondary
        \/ \E n \in Sizes : ResizePrimary(n)
        \/ ResizeSecondary
        \/ \E d \in Drawers : DrawFirst(d) \/ DrawSecond(d) \/ DrawGiveUp(d) \/ DrawDone(d)

Spec == Init /\ [][Next]_vars

-----------------------------------------------------------------------------
(* Properties                                                              *)

TypeOK ==
    /\ pcap \in Sizes /\ scap \in Sizes
    /\ primary \in Seq(1..MaxPush) /\ secondary \in Seq(1..MaxPush)
    /\ ptaken \in 0..MaxPush /\ staken \in 0..MaxPush
    /\ collecting \in {"primary", "secondary"}
    /\ resizing \in Sizes \union {0}
    /\ skewed \in BOOLEAN /\ settled \in 0..MaxPush
    /\ \A d \in Drawers : /\ drawing[d].pc \in {"idle", "second", "drawn"}
                          /\ drawing[d].one \in Seq(1..MaxPush)
                          /\ drawing[d].two \in Seq(1..MaxPush)

\* Counted from the newest, the k-th samples of the two buffers come from the
\* same collection, through any races with a resize and any failed one.
AlignedFromNewest ==
    collecting = "primary" =>
        \A k \in 1..Len(primary) : k <= Len(secondary) =>
            primary[Len(primary) + 1 - k] = secondary[Len(secondary) + 1 - k]

\* The buffers hold equally many samples, which is what drawing from the
\* oldest relies on, unless a push fell between the two resizes, a resize
\* between the two pushes, or a resize failed.  A skew does not outlive the
\* window: once both buffers have one size again and as many collections have
\* been pushed since, they are level.
LevelUnlessDisturbed ==
    Rest => /\ ~skewed => Level
            /\ pcap = scap /\ settled >= pcap => Len(primary) = pcap /\ Level

\* Of a pair that was level when its drawing began and is not resized
\* meanwhile, no column shows two samples further apart than the collections
\* pushed while it was being drawn; the primary is at most the one sample
\* ahead that its collector had still to complete.
ColumnsWithinPushes ==
    \A d \in Drawers : drawing[d].pc = "drawn" /\ drawing[d].clean =>
        \A i \in Columns(d) :
            drawing[d].two[i] - drawing[d].one[i] \in (-drawing[d].ahead)..drawing[d].pushes

=============================================================================
