--------------------------- MODULE PlotLoopProofs ---------------------------
(***************************************************************************)
(* Proofs about PlotLoop, for any number of plots, widths, margin, queue   *)
(* and number of events.  Types says what the variables are; Sizes relates *)
(* the four widths the program keeps and its buffers' sizes; Noted relates *)
(* the flags to the frame in the window.                                   *)
(***************************************************************************)
EXTENDS PlotLoop, SequenceTheorems, TLAPS

-----------------------------------------------------------------------------
(* Types                                                                   *)

XEvent == [type : Keys \union {"escape", "close", "expose", "configure"}, width : Nat]

\* A configure event brings a width that a window can have.
QueueOK == /\ queue \in Seq(XEvent) /\ Len(queue) <= MaxQueue
           /\ \A i \in 1..Len(queue) : queue[i].type = "configure" => queue[i].width \in Widths

BuffersOK == /\ size \in [Plots -> 1..(Word - 1)]
             /\ count \in [Plots -> Nat] /\ \A p \in Plots : count[p] <= size[p]
             /\ pushed \in [Plots -> 0..MaxSamples]

DrawingOK == /\ plot \in Plots /\ shot \in 0..MaxSamples
             /\ drawn \in [Plots -> Int] /\ shown \in [Plots -> Int]

WidthsOK == /\ server_width \in Widths /\ width \in Widths
            /\ cached_window_width \in Widths \union {0}
            /\ frame_width \in Widths \union {0}
            /\ last_plot_width \in Int

FlagsOK == /\ wm_fullscreen \in BOOLEAN /\ exposed \in BOOLEAN /\ check_due \in BOOLEAN
           /\ running \in BOOLEAN /\ window_resized \in BOOLEAN /\ fullscreen \in BOOLEAN
           /\ window_size_dirty \in BOOLEAN /\ needs_redraw \in BOOLEAN /\ meddled \in BOOLEAN

Pc == {"loop", "poll", "event", "force", "size", "redraw", "draw", "snapshot", "present",
       "exited"}

OthersOK == /\ mode \in Modes /\ requests \in Seq(BOOLEAN) /\ pc \in Pc
            /\ pending_event \in Keys \union {"none"} /\ last_key \in Keys \union {"none"}
            /\ inputs \in 0..MaxInputs /\ denied \subseteq Plots

Types == QueueOK /\ BuffersOK /\ DrawingOK /\ WidthsOK /\ FlagsOK /\ OthersOK

\* A buffer is asked for as many slots as a uint32_t can count.
LEMMA NewSizeInRange ==
    ASSUME NEW w \in Widths \union {0}
    PROVE  NewBufferSize(w) \in 0..(Word - 1)
<1>1. Word \in Nat \ {0} /\ w \in Nat /\ Margin \in Nat
  BY PlotLoopAssumption
<1>2. (w - 2 * Margin - 2) \in Int
  BY <1>1
<1> QED
  BY <1>1, <1>2 DEF NewBufferSize

LEMMA TypesInit == Init => Types
<1> SUFFICES ASSUME Init PROVE Types
  OBVIOUS
<1> USE PlotLoopAssumption DEF Init, Plots
<1>1. QueueOK
  BY DEF QueueOK
<1>2. BuffersOK
  <2>1. DefaultWidth - 2 \in 1..(Word - 1)
    OBVIOUS
  <2> QED
    BY <2>1 DEF BuffersOK
<1>3. DrawingOK /\ WidthsOK
  BY DEF DrawingOK, WidthsOK
<1>4. FlagsOK
  BY DEF FlagsOK
<1>5. OthersOK
  <2>1. requests \in Seq(BOOLEAN)
    BY <1>4 DEF FlagsOK
  <2> QED
    BY <2>1 DEF OthersOK, Pc
<1> QED
  BY <1>1, <1>2, <1>3, <1>4, <1>5 DEF Types

\* What an event that arrives does to the queue, and one that is read.
LEMMA ArrivesKeepsQueue ==
    ASSUME QueueOK, NEW e \in XEvent, e.type = "configure" => e.width \in Widths, Arrives(e)
    PROVE  QueueOK'
BY PlotLoopAssumption DEF QueueOK, Arrives

LEMMA ReadKeepsQueue ==
    ASSUME QueueOK, queue # <<>>, queue' = Tail(queue)
    PROVE  /\ QueueOK' /\ Head(queue) \in XEvent
           /\ Head(queue).type = "configure" => Head(queue).width \in Widths
BY PlotLoopAssumption DEF QueueOK

LEMMA LeastIsLeast ==
    ASSUME NEW a \in Nat, NEW b \in Nat
    PROVE  Least(a, b) \in Nat /\ Least(a, b) <= a /\ Least(a, b) <= b
BY DEF Least

LEMMA TypesWorld == Types /\ World => Types'
<1> SUFFICES ASSUME Types, World PROVE Types'
  OBVIOUS
<1> USE PlotLoopAssumption DEF Types, Plots
<1>1. ASSUME NEW k \in Keys \union {"escape", "close"}, PressKey(k) PROVE Types'
  <2>1. QueueOK'
    <3>1. Event(k) \in XEvent /\ Event(k).type # "configure"
      BY DEF Event, XEvent, Keys
    <3> QED
      BY <1>1, <3>1, ArrivesKeepsQueue DEF PressKey
  <2>2. BuffersOK' /\ DrawingOK' /\ WidthsOK'
    BY <1>1 DEF PressKey, BuffersOK, DrawingOK, WidthsOK, server, context, system, buffers,
       drawing, contents
  <2>3. FlagsOK'
    BY <1>1 DEF PressKey, FlagsOK, server, context, system
  <2>4. OthersOK'
    BY <1>1 DEF PressKey, Input, OthersOK, server, context
  <2> QED
    BY <2>1, <2>2, <2>3, <2>4
<1>2. CASE Expose
  <2>1. QueueOK'
    <3>1. Event("expose") \in XEvent /\ Event("expose").type # "configure"
      BY DEF Event, XEvent
    <3> QED
      BY <1>2, <3>1, ArrivesKeepsQueue DEF Expose
  <2>2. BuffersOK' /\ DrawingOK' /\ WidthsOK'
    BY <1>2 DEF Expose, BuffersOK, DrawingOK, WidthsOK, context, system, buffers, drawing,
       contents
  <2>3. FlagsOK'
    BY <1>2 DEF Expose, FlagsOK, context, system
  <2>4. OthersOK'
    BY <1>2 DEF Expose, Input, OthersOK, context
  <2> QED
    BY <2>1, <2>2, <2>3, <2>4
<1>3. ASSUME NEW w \in Widths PROVE Configure(w) \in XEvent /\ Configure(w).width \in Widths
  BY DEF Configure, XEvent
<1>4. ASSUME NEW w \in Widths, UserResize(w) PROVE Types'
  <2>1. QueueOK'
    BY <1>3, <1>4, ArrivesKeepsQueue DEF UserResize
  <2>2. BuffersOK' /\ DrawingOK' /\ WidthsOK'
    BY <1>4 DEF UserResize, BuffersOK, DrawingOK, WidthsOK, context, system, buffers,
       drawing, contents
  <2>3. FlagsOK'
    BY <1>4 DEF UserResize, FlagsOK, context, system
  <2>4. OthersOK'
    BY <1>4 DEF UserResize, Input, OthersOK, context
  <2> QED
    BY <2>1, <2>2, <2>3, <2>4
<1>5. ASSUME NEW w \in Widths, WmHandle(w) PROVE Types'
  <2>1. QueueOK'
    <3>1. CASE w = server_width
      BY <1>5, <3>1 DEF WmHandle, QueueOK
    <3>2. CASE w # server_width
      BY <1>3, <1>5, <3>2, ArrivesKeepsQueue DEF WmHandle
    <3> QED
      BY <3>1, <3>2
  <2>2. BuffersOK' /\ DrawingOK' /\ WidthsOK'
    BY <1>5 DEF WmHandle, BuffersOK, DrawingOK, WidthsOK, context, system, buffers, drawing,
       contents
  <2>3. requests' \in Seq(BOOLEAN) /\ wm_fullscreen' \in BOOLEAN
    <3>1. requests \in Seq(BOOLEAN)
      BY DEF OthersOK
    <3>2. Head(requests) \in BOOLEAN /\ Tail(requests) \in Seq(BOOLEAN)
      BY <1>5, <3>1, HeadTailProperties DEF WmHandle
    <3> QED
      BY <1>5, <3>2 DEF WmHandle
  <2>4. FlagsOK'
    BY <1>5, <2>3 DEF WmHandle, FlagsOK, context, system, history
  <2>5. OthersOK'
    BY <1>5, <2>3 DEF WmHandle, OthersOK, context, history
  <2> QED
    BY <2>1, <2>2, <2>4, <2>5
<1>6. CASE WmToggle \/ Signal
  <2>1. QueueOK' /\ BuffersOK' /\ DrawingOK' /\ WidthsOK'
    BY <1>6 DEF WmToggle, Signal, QueueOK, BuffersOK, DrawingOK, WidthsOK, server, context,
       system, buffers, drawing, contents
  <2>2. FlagsOK'
    BY <1>6, ZenonT(60) DEF WmToggle, Signal, FlagsOK, server, context, system
  <2>3. OthersOK'
    <3>1. inputs' \in 0..MaxInputs
      BY <1>6 DEF WmToggle, Signal, Input, OthersOK
    <3> QED
      BY <1>6, <3>1 DEF WmToggle, Signal, OthersOK, server, context
  <2> QED
    BY <2>1, <2>2, <2>3
<1>7. CASE Elapse
  <2>1. QueueOK' /\ BuffersOK' /\ DrawingOK' /\ WidthsOK'
    BY <1>7 DEF Elapse, QueueOK, BuffersOK, DrawingOK, WidthsOK, context, system, buffers,
       drawing, contents
  <2>2. FlagsOK' /\ OthersOK'
    BY <1>7 DEF Elapse, FlagsOK, OthersOK, context, system, history
  <2> QED
    BY <2>1, <2>2
<1>8. ASSUME NEW p \in Plots, Collect(p) PROVE Types'
  <2>1. BuffersOK'
    <3>1. pushed' \in [Plots -> 0..MaxSamples]
      BY <1>8, SMTT(60) DEF Collect, BuffersOK
    <3>2. count' \in [Plots -> Nat] /\ \A q \in Plots : count'[q] <= size[q]
      <4>1. /\ count \in [Plots -> Nat] /\ size[p] \in Nat /\ count[p] + 1 \in Nat
            /\ \A q \in Plots : count[q] <= size[q]
        BY SMTT(60) DEF BuffersOK
      <4>2. Least(count[p] + 1, size[p]) \in Nat /\ Least(count[p] + 1, size[p]) <= size[p]
        BY <4>1, LeastIsLeast
      <4>3. count' = [count EXCEPT ![p] = Least(count[p] + 1, size[p])]
        BY <1>8 DEF Collect
      <4> QED
        BY <4>1, <4>2, <4>3
    <3> QED
      BY <1>8, <3>1, <3>2 DEF Collect, BuffersOK
  <2>2. QueueOK' /\ DrawingOK' /\ WidthsOK'
    BY <1>8 DEF Collect, QueueOK, DrawingOK, WidthsOK, server, context, system, drawing,
       contents
  <2>3. FlagsOK' /\ OthersOK'
    BY <1>8 DEF Collect, FlagsOK, OthersOK, server, context, system, history
  <2> QED
    BY <2>1, <2>2, <2>3
<1> QED
  BY <1>1, <1>2, <1>4, <1>5, <1>6, <1>7, <1>8 DEF World

\* A request that follows the others.
LEMMA RequestIsBoolean ==
    ASSUME requests \in Seq(BOOLEAN), NEW b \in BOOLEAN
    PROVE  Append(requests, b) \in Seq(BOOLEAN)
OBVIOUS

LEMMA TypesMain == Types /\ MainStep => Types'
<1> SUFFICES ASSUME Types, MainStep PROVE Types'
  OBVIOUS
<1> USE PlotLoopAssumption DEF Types, Plots
<1>1. CASE Wake \/ PollDone \/ DecideRedraw
  <2>1. QueueOK' /\ BuffersOK' /\ WidthsOK'
    BY <1>1 DEF Wake, PollDone, DecideRedraw, QueueOK, BuffersOK, WidthsOK, server, context,
       system, buffers, contents
  <2>4. DrawingOK'
    <3>1. plot' \in Plots
      BY <1>1 DEF Wake, PollDone, DecideRedraw, DrawingOK, drawing
    <3>2. UNCHANGED <<shot, drawn, shown>>
      BY <1>1 DEF Wake, PollDone, DecideRedraw, drawing, contents
    <3> QED
      BY <3>1, <3>2 DEF DrawingOK
  <2>2. FlagsOK'
    BY <1>1 DEF Wake, PollDone, DecideRedraw, FlagsOK, server, context, system, history
  <2>3. OthersOK'
    BY <1>1 DEF Wake, PollDone, DecideRedraw, OthersOK, Pc, server, context, history
  <2> QED
    BY <2>1, <2>2, <2>3, <2>4
<1>2. CASE PollEvent
  <2>1. /\ QueueOK' /\ Head(queue) \in XEvent
        /\ Head(queue).type = "configure" => Head(queue).width \in Widths
    BY <1>2, ReadKeepsQueue DEF PollEvent
  <2>2. NoteWidth(Head(queue)) /\ pending_event' = Pending(Head(queue).type)
    BY <1>2 DEF PollEvent
  <2>3. width' \in Widths
    BY <2>1, <2>2 DEF NoteWidth, WidthsOK
  <2>4. window_resized' \in BOOLEAN
    BY <2>2, Zenon DEF NoteWidth, FlagsOK
  <2>5. BuffersOK' /\ DrawingOK' /\ WidthsOK'
    BY <1>2, <2>3 DEF PollEvent, BuffersOK, DrawingOK, WidthsOK, server, system, buffers,
       drawing, contents
  <2>6. FlagsOK'
    BY <1>2, <2>4 DEF PollEvent, FlagsOK, server, system, history
  <2>7. OthersOK'
    BY <1>2, <2>2 DEF PollEvent, Pending, OthersOK, Pc, server, history
  <2> QED
    BY <2>1, <2>5, <2>6, <2>7
<1>3. CASE HandleEvent
  <2>1. QueueOK' /\ BuffersOK' /\ DrawingOK' /\ WidthsOK'
    BY <1>3 DEF HandleEvent, QueueOK, BuffersOK, DrawingOK, WidthsOK, buffers, drawing,
       contents
  <2>2. fullscreen' \in BOOLEAN /\ needs_redraw' \in BOOLEAN
    BY <1>3, Zenon DEF HandleEvent, FlagsOK
  <2>3. requests' \in Seq(BOOLEAN)
    <3>1. (~fullscreen) \in BOOLEAN
      OBVIOUS
    <3>2. requests' = requests \/ requests' = Append(requests, ~fullscreen)
      BY <1>3 DEF HandleEvent
    <3> QED
      BY <3>1, <3>2, RequestIsBoolean DEF OthersOK
  <2>4. FlagsOK'
    BY <1>3, <2>2 DEF HandleEvent, FlagsOK, history
  <2>5. OthersOK'
    BY <1>3, <2>3 DEF HandleEvent, OthersOK, Pc, history
  <2> QED
    BY <2>1, <2>4, <2>5
<1>4. CASE ForceFullscreen
  <2>1. QueueOK' /\ BuffersOK' /\ DrawingOK' /\ WidthsOK'
    BY <1>4 DEF ForceFullscreen, QueueOK, BuffersOK, DrawingOK, WidthsOK, context, buffers,
       drawing, contents
  <2>2. fullscreen' \in BOOLEAN /\ needs_redraw' \in BOOLEAN /\ check_due' \in BOOLEAN
    BY <1>4, Zenon DEF ForceFullscreen, Reassert, FlagsOK
  <2>3. requests' \in Seq(BOOLEAN)
    <3>1. requests' = requests \/ requests' = Append(requests, TRUE)
      BY <1>4 DEF ForceFullscreen, Reassert
    <3> QED
      BY <3>1, RequestIsBoolean DEF OthersOK
  <2>4. FlagsOK'
    BY <1>4, <2>2 DEF ForceFullscreen, FlagsOK, context, history
  <2>5. OthersOK'
    BY <1>4, <2>3 DEF ForceFullscreen, OthersOK, Pc, context, history
  <2> QED
    BY <2>1, <2>4, <2>5
<1>5. CASE FollowSize
  <2>1. width' \in Widths /\ cached_window_width' \in Widths \union {0}
    BY <1>5 DEF FollowSize, LearnWidth, WidthsOK
  <2>2. last_plot_width' \in Int
    BY <1>5, <2>1 DEF FollowSize
  <2>3. BuffersOK' /\ denied' \subseteq Plots
    <3>1. CASE UNCHANGED <<size, count, denied>>
      BY <1>5, <3>1 DEF FollowSize, BuffersOK, OthersOK
    <3>2. ASSUME NewBufferSize(cached_window_width') > 0,
                 NEW failed \in SUBSET Plots,
                 ResizeBuffers(NewBufferSize(cached_window_width'), failed)
          PROVE  BuffersOK' /\ denied' \subseteq Plots
      <4>1. NewBufferSize(cached_window_width') \in 1..(Word - 1)
        BY <2>1, <3>2, NewSizeInRange
      <4> DEFINE new == NewBufferSize(cached_window_width')
      <4> HIDE DEF new
      <4>2. /\ new \in 1..(Word - 1)
            /\ size' = [p \in Plots |-> IF p \in failed THEN size[p] ELSE new]
            /\ count' = [p \in Plots |-> Least(count[p], size'[p])]
        BY <3>2, <4>1 DEF ResizeBuffers, new
      <4>3. size' \in [Plots -> 1..(Word - 1)]
        BY <4>2 DEF BuffersOK
      <4>4. count' \in [Plots -> Nat] /\ \A p \in Plots : count'[p] <= size'[p]
        <5>1. \A p \in Plots : count[p] \in Nat /\ size'[p] \in Nat
          BY <4>3, SMTT(60) DEF BuffersOK
        <5> QED
          BY <4>2, <5>1, LeastIsLeast
      <4> QED
        BY <1>5, <3>2, <4>3, <4>4 DEF FollowSize, ResizeBuffers, BuffersOK
    <3> QED
      BY <1>5, <3>1, <3>2 DEF FollowSize, FollowWidth
  <2>4. QueueOK' /\ DrawingOK' /\ WidthsOK'
    BY <1>5, <2>1, <2>2 DEF FollowSize, QueueOK, DrawingOK, WidthsOK, server, drawing,
       contents
  <2>5. FlagsOK'
    BY <1>5 DEF FollowSize, FlagsOK, server
  <2>6. OthersOK'
    BY <1>5, <2>3 DEF FollowSize, OthersOK, Pc, server
  <2> QED
    BY <2>3, <2>4, <2>5, <2>6
<1>6. CASE DrawPlot \/ Snapshot \/ SnapshotFails
  <2>1. DrawingOK'
    <3>1. plot \in Plots /\ count[plot] \in Nat /\ pushed[plot] \in 0..MaxSamples
          /\ shot \in 0..MaxSamples
      BY DEF DrawingOK, BuffersOK
    <3>2. plot' \in Plots
      BY <1>6, <3>1 DEF DrawPlot, Snapshot, SnapshotFails, NextPlot
    <3>3. shot' \in 0..MaxSamples
      BY <1>6, <3>1 DEF DrawPlot, Snapshot, SnapshotFails
    <3>4. drawn' \in [Plots -> Int]
      <4>1. CASE drawn' = drawn \/ drawn' = [drawn EXCEPT ![plot] = 0]
        BY <4>1, SMTT(60) DEF DrawingOK
      <4>2. CASE Snapshot
        <5>1. PICK newest \in shot..pushed[plot] :
                drawn' = [drawn EXCEPT ![plot] =
                            newest - (count[plot] - Least(count[plot], ReadCap))]
          BY <4>2 DEF Snapshot
        <5>2. newest - (count[plot] - Least(count[plot], ReadCap)) \in Int
          BY <3>1 DEF Least
        <5> QED
          BY <5>1, <5>2 DEF DrawingOK
      <4> QED
        BY <1>6, <4>1, <4>2 DEF DrawPlot, SnapshotFails
    <3> QED
      BY <1>6, <3>2, <3>3, <3>4 DEF DrawPlot, Snapshot, SnapshotFails, DrawingOK, contents
  <2>2. QueueOK' /\ BuffersOK' /\ WidthsOK'
    BY <1>6 DEF DrawPlot, Snapshot, SnapshotFails, QueueOK, BuffersOK, WidthsOK, server,
       context, system, buffers, contents
  <2>3. FlagsOK'
    BY <1>6 DEF DrawPlot, Snapshot, SnapshotFails, FlagsOK, server, context, system, history
  <2>4. OthersOK'
    <3>1. pc' \in Pc
      BY <1>6 DEF DrawPlot, Snapshot, SnapshotFails, NextPlot, Pc
    <3> QED
      BY <1>6, <3>1 DEF DrawPlot, Snapshot, SnapshotFails, OthersOK, server, context, history
  <2> QED
    BY <2>1, <2>2, <2>3, <2>4
<1>7. CASE Present
  <2>1. QueueOK' /\ BuffersOK' /\ DrawingOK' /\ WidthsOK'
    BY <1>7 DEF Present, QueueOK, BuffersOK, DrawingOK, WidthsOK, context, buffers, drawing
  <2>2. FlagsOK'
    BY <1>7 DEF Present, FlagsOK, context, history
  <2>3. OthersOK'
    BY <1>7 DEF Present, OthersOK, Pc, context, history
  <2> QED
    BY <2>1, <2>2, <2>3
<1> QED
  BY <1>1, <1>2, <1>3, <1>4, <1>5, <1>6, <1>7 DEF MainStep

LEMMA TypesNext == Types /\ [Next]_vars => Types'
<1>1. Types /\ UNCHANGED vars => Types'
  BY DEF Types, QueueOK, BuffersOK, DrawingOK, WidthsOK, FlagsOK, OthersOK, vars, server,
     context, system, buffers, drawing, contents, history
<1> QED
  BY <1>1, TypesWorld, TypesMain DEF Next

\* The variables keep their types: a buffer has from one to 2^32 - 1 slots
\* and holds no more samples than slots, whatever width the window gets.
THEOREM TypeCorrect == Spec => []TypeOK
<1>1. Types => TypeOK
  BY PlotLoopAssumption, SMTT(60) DEF Types, QueueOK, BuffersOK, DrawingOK, WidthsOK, FlagsOK,
     OthersOK, Pc, TypeOK
<1> QED
  BY <1>1, TypesInit, TypesNext, PTL DEF Spec

-----------------------------------------------------------------------------
(* The fullscreen flag                                                     *)

\* The last of the requests is still the last when the first is gone, and
\* is the one just made otherwise.
LEMMA LastRequest ==
    ASSUME requests \in Seq(BOOLEAN), requests # <<>>,
           NEW rest \in Seq(BOOLEAN), rest = Tail(requests)
    PROVE  IF rest = <<>> THEN Head(requests) = requests[Len(requests)]
                          ELSE rest[Len(rest)] = requests[Len(requests)]
<1>1. /\ Len(requests) \in Nat \ {0} /\ Head(requests) = requests[1]
      /\ Len(rest) = Len(requests) - 1
      /\ \A i \in 1..Len(rest) : rest[i] = requests[i + 1]
  BY HeadTailProperties
<1>2. rest = <<>> <=> Len(rest) = 0
  BY EmptySeq
<1>3. CASE rest = <<>>
  BY <1>1, <1>2, <1>3
<1>4. CASE rest # <<>>
  BY <1>1, <1>2, <1>4
<1> QED
  BY <1>3, <1>4

LEMMA NewRequest ==
    ASSUME requests \in Seq(BOOLEAN), NEW b \in BOOLEAN
    PROVE  LET new == Append(requests, b) IN new # <<>> /\ new[Len(new)] = b
OBVIOUS

\* What the window ends up with when the window manager has done what it is
\* asked.
Settled == IF requests = <<>> THEN wm_fullscreen ELSE requests[Len(requests)]

LEMMA FlagNext == Types /\ FullscreenFlagAgrees /\ [Next]_vars => FullscreenFlagAgrees'
<1> SUFFICES ASSUME Types, FullscreenFlagAgrees, [Next]_vars PROVE FullscreenFlagAgrees'
  OBVIOUS
<1>1. /\ requests \in Seq(BOOLEAN)
      /\ wm_fullscreen \in BOOLEAN /\ fullscreen \in BOOLEAN
      /\ ~meddled => fullscreen = Settled
  BY DEF Types, FlagsOK, OthersOK, FullscreenFlagAgrees, Settled
<1>2. CASE UNCHANGED <<requests, wm_fullscreen, fullscreen, meddled>>
  BY <1>1, <1>2 DEF FullscreenFlagAgrees, Settled
<1>3. ASSUME UNCHANGED meddled, NEW b \in BOOLEAN,
             requests' = Append(requests, b), fullscreen' = b
      PROVE  FullscreenFlagAgrees'
  BY <1>1, <1>3, NewRequest DEF FullscreenFlagAgrees
<1>4. ASSUME NEW w \in Widths, WmHandle(w) PROVE FullscreenFlagAgrees'
  <2>1. requests # <<>> /\ requests' \in Seq(BOOLEAN) /\ requests' = Tail(requests)
    BY <1>1, <1>4, HeadTailProperties DEF WmHandle
  <2> QED
    BY <1>1, <1>4, <2>1, LastRequest DEF WmHandle, FullscreenFlagAgrees, Settled, system,
       history
<1>5. CASE WmToggle
  BY <1>5 DEF WmToggle, FullscreenFlagAgrees
<1>6. CASE HandleEvent
  <2>1. CASE pending_event = "f"
    <3>1. (~fullscreen) \in BOOLEAN
      OBVIOUS
    <3> QED
      BY <1>3, <1>6, <2>1, <3>1 DEF HandleEvent, history
  <2>2. CASE pending_event # "f"
    BY <1>2, <1>6, <2>2 DEF HandleEvent, history
  <2> QED
    BY <2>1, <2>2
<1>7. CASE ForceFullscreen
  <2>1. CASE UNCHANGED <<requests, fullscreen>>
    BY <1>2, <1>7, <2>1 DEF ForceFullscreen, history
  <2>2. CASE requests' = Append(requests, TRUE) /\ fullscreen' = TRUE
    BY <1>3, <1>7, <2>2 DEF ForceFullscreen, history
  <2> QED
    BY <1>7, <2>1, <2>2 DEF ForceFullscreen, Reassert
<1>8. CASE World /\ ~WmToggle /\ ~\E w \in Widths : WmHandle(w)
  BY <1>2, <1>8 DEF World, PressKey, Expose, UserResize, Signal, Elapse, Collect, server,
     system, history
<1>9. CASE MainStep /\ ~HandleEvent /\ ~ForceFullscreen
  BY <1>2, <1>9 DEF MainStep, Wake, PollEvent, PollDone, FollowSize, DecideRedraw, DrawPlot,
     Snapshot, SnapshotFails, Present, server, system, history
<1>10. CASE UNCHANGED vars
  BY <1>2, <1>10 DEF vars, server, system, history
<1> QED
  BY <1>4, <1>5, <1>6, <1>7, <1>8, <1>9, <1>10 DEF Next, World, MainStep

\* As long as the window manager leaves the window alone, the flag is what
\* the window is, or what the last request still on its way makes of it,
\* however many requests are under way.
THEOREM FlagAgrees == Spec => []FullscreenFlagAgrees
<1>1. Init => FullscreenFlagAgrees
  <2> SUFFICES ASSUME Init PROVE FullscreenFlagAgrees
    OBVIOUS
  <2>1. requests = <<fullscreen>>
    BY DEF Init
  <2>2. requests # <<>> /\ requests[Len(requests)] = fullscreen
    BY <2>1
  <2> QED
    BY <2>2 DEF FullscreenFlagAgrees
<1> QED
  BY <1>1, TypesInit, TypesNext, FlagNext, PTL DEF Spec

-----------------------------------------------------------------------------
(* The sizes, and what is drawn                                            *)

\* From the moment the new size has been followed until the frame is shown.
SizeFollowed == pc \in {"redraw", "draw", "snapshot", "present"}

\* The width that plot.c knows is the pixmap's unless one of the two flags
\* says it has to be asked for.
WidthKnown == /\ ~window_resized /\ ~window_size_dirty => cached_window_width = width
              /\ SizeFollowed => ~window_resized /\ ~window_size_dirty

\* The width the buffers were last brought to, and theirs since then.
BuffersFollow ==
    /\ last_plot_width = IF cached_window_width = 0 THEN 0 ELSE cached_window_width - 2 * Margin
    /\ last_plot_width # 0 /\ NewBufferSize(cached_window_width) > 0 =>
         \A p \in Plots \ denied : size[p] = NewBufferSize(cached_window_width)

\* What the main thread knows of and has not drawn yet is in needs_redraw,
\* and it does not go to sleep with it.
Noted == /\ cached_window_width # 0 /\ ~needs_redraw => frame_width = cached_window_width
         /\ pc \notin {"poll", "event", "exited"} => pending_event = "none"
         /\ pc = "loop" /\ cached_window_width # 0 =>
              ~needs_redraw /\ ~window_size_dirty /\ ~window_resized

Followed == WidthKnown /\ BuffersFollow /\ Noted

LEMMA FollowedInit == Init => Followed
BY DEF Init, Followed, WidthKnown, SizeFollowed, BuffersFollow, Noted

LEMMA FollowedWorld == Types /\ Followed /\ World => Followed'
BY DEF Followed, WidthKnown, SizeFollowed, BuffersFollow, Noted, World, PressKey, Expose,
   UserResize, WmToggle, Signal, WmHandle, Elapse, Collect, context, system, buffers, contents,
   server, history

LEMMA FollowedMain == Types /\ Followed /\ MainStep => Followed'
<1> SUFFICES ASSUME Types, Followed, MainStep PROVE Followed'
  OBVIOUS
<1> USE DEF Followed
<1>1. CASE Wake \/ PollDone
  BY <1>1 DEF Wake, PollDone, WidthKnown, SizeFollowed, BuffersFollow, Noted, context, system,
     buffers, contents, history
<1>2. CASE PollEvent
  <2>1. NoteWidth(Head(queue))
    BY <1>2 DEF PollEvent
  <2>2. /\ pc = "poll" /\ pc' \in {"poll", "exited"}
        /\ UNCHANGED <<system, buffers, contents, history>>
    BY <1>2 DEF PollEvent
  <2>3. WidthKnown'
    BY <2>1, <2>2 DEF NoteWidth, WidthKnown, SizeFollowed, system
  <2> QED
    BY <2>2, <2>3 DEF BuffersFollow, Noted, system, buffers, contents, history
<1>3. CASE HandleEvent
  BY <1>3 DEF HandleEvent, WidthKnown, SizeFollowed, BuffersFollow, Noted, buffers, contents,
     history
<1>4. CASE ForceFullscreen
  BY <1>4 DEF ForceFullscreen, Reassert, WidthKnown, SizeFollowed, BuffersFollow, Noted,
     context, buffers, contents, history
<1>5. CASE FollowSize
  <2>1. /\ cached_window_width' = width' /\ width' \in Widths
        /\ ~window_resized' /\ ~window_size_dirty'
    BY <1>5 DEF FollowSize, LearnWidth, WidthKnown, Types, WidthsOK
  <2>2. cached_window_width' # 0
    BY <2>1, PlotLoopAssumption
  <2>3. WidthKnown'
    BY <2>1 DEF WidthKnown
  <2>4. BuffersFollow'
    <3> DEFINE new == NewBufferSize(cached_window_width')
    <3>1. last_plot_width' = cached_window_width' - 2 * Margin
      BY <1>5 DEF FollowSize
    <3>2. CASE last_plot_width' = last_plot_width
      <4>1. CASE last_plot_width' = 0
        BY <2>2, <3>1, <4>1 DEF BuffersFollow
      <4>2. CASE last_plot_width' # 0
        <5>1. cached_window_width # 0
          BY <3>2, <4>2 DEF BuffersFollow
        <5>2. cached_window_width' = cached_window_width
          <6>1. cached_window_width \in Nat /\ cached_window_width' \in Nat /\ 2 * Margin \in Nat
            BY <2>1, PlotLoopAssumption DEF Types, WidthsOK
          <6>2. last_plot_width = cached_window_width - 2 * Margin
            BY <5>1 DEF BuffersFollow
          <6> QED
            BY <3>1, <3>2, <6>1, <6>2
        <5> QED
          BY <1>5, <2>2, <3>1, <3>2, <5>1, <5>2 DEF FollowSize, BuffersFollow, NewBufferSize
      <4> QED
        BY <4>1, <4>2
    <3>3. CASE last_plot_width' # last_plot_width
      <4>1. new > 0 => \A p \in Plots \ denied' : size'[p] = new
        BY <1>5, <3>3 DEF FollowSize, FollowWidth, ResizeBuffers
      <4> QED
        BY <2>2, <3>1, <4>1 DEF BuffersFollow, NewBufferSize
    <3> QED
      BY <3>2, <3>3
  <2>5. Noted'
    <3>1. pc' = "redraw" /\ UNCHANGED <<pending_event, frame_width>> /\ pending_event = "none"
      BY <1>5 DEF FollowSize, Noted, contents
    <3>2. ~needs_redraw' => UNCHANGED cached_window_width /\ ~needs_redraw
      BY <1>5 DEF FollowSize
    <3> QED
      BY <2>2, <3>1, <3>2 DEF Noted
  <2> QED
    BY <2>3, <2>4, <2>5
<1>6. CASE DecideRedraw
  BY <1>6 DEF DecideRedraw, NeedsRedraw, WidthKnown, SizeFollowed, BuffersFollow, Noted,
     context, system, buffers, contents, history
<1>7. CASE DrawPlot \/ Snapshot \/ SnapshotFails
  BY <1>7 DEF DrawPlot, Snapshot, SnapshotFails, NextPlot, WidthKnown, SizeFollowed,
     BuffersFollow, Noted, context, system, buffers, contents, history
<1>8. CASE Present
  BY <1>8 DEF Present, WidthKnown, SizeFollowed, BuffersFollow, Noted, context, buffers,
     contents, history
<1> QED
  BY <1>1, <1>2, <1>3, <1>4, <1>5, <1>6, <1>7, <1>8 DEF MainStep

LEMMA FollowedAlways == Spec => []Followed
<1>1. Followed /\ UNCHANGED vars => Followed'
  BY DEF Followed, WidthKnown, SizeFollowed, BuffersFollow, Noted, vars, context, system,
     buffers, contents, history
<1>2. Types /\ Followed /\ [Next]_vars => Followed'
  BY <1>1, FollowedWorld, FollowedMain DEF Next
<1> QED
  BY <1>2, TypesInit, TypesNext, FollowedInit, PTL DEF Spec

\* No frame is drawn at a width other than its pixmap's, nor from a buffer
\* whose size is not the plot's, whatever configure events arrive between
\* the size the server tells and the ones still in the queue.
THEOREM FramesFit == Spec => []FrameFits
<1>1. Followed => FrameFits
  BY DEF Followed, WidthKnown, SizeFollowed, BuffersFollow, FrameFits, Drawing
<1> QED
  BY <1>1, FollowedAlways, PTL

\* The main thread does not sleep on anything it has taken note of.
THEOREM NothingUndrawn == Spec => []NothingLeftUndrawn
<1>1. Followed => NothingLeftUndrawn
  BY DEF Followed, Noted, NothingLeftUndrawn
<1> QED
  BY <1>1, FollowedAlways, PTL

=============================================================================
