----------------------------- MODULE PlotFrame -----------------------------
(***************************************************************************)
(* What a plot shows: plot_draw of plot.c on the screen and render_chart   *)
(* of httpd.c in the image, which lay a plot out in the same way.  The     *)
(* state is the samples there are and the clock of the day; the lines that *)
(* a drawing at this moment would make are operators of it.                *)
(*                                                                         *)
(* A sample is as old as the difference of two 32-bit readings of the      *)
(* clock, and its column is its age in intervals.  The frame is a plot of  *)
(* its own, so that x is 0; texts are left out but for the choice of the   *)
(* sample that the mouse points at.                                        *)
(***************************************************************************)
EXTENDS Integers, Sequences, SequencesExt, FiniteSetsExt

CONSTANTS
    Width,       \* of the plot
    Height,      \* plot_height
    Top,         \* plot_y
    Interval,    \* refresh_interval_ms
    Word,        \* a reading of the clock is modulo Word (2^32 in the code)
    Scales,      \* get_max_scale of the source: 0 is none, so that the plot scales itself
    Values,      \* values of a sample; negative ones stand for a failure
    BufferSize,  \* samples in a ring buffer
    MaxTicks,    \* bound on the time that passes
    Jumps        \* by how much the clock of the day may be set, once

ASSUME FrameAssumption ==
    /\ {Width, Height, Top, Interval, Word, BufferSize, MaxTicks} \subseteq Nat
    /\ Width > 3 /\ Height > 4 /\ Interval > 1 /\ Word > MaxTicks /\ BufferSize > 0
    /\ Scales \subseteq Nat /\ Values \subseteq Int /\ Jumps \subseteq Int

VARIABLES
    dual,     \* is_dual
    scale,    \* fixed_max_scale
    first,    \* the values in data_buffer, oldest first
    stamps,   \* their timestamps
    second,   \* the values in data_buffer_secondary, if there is one
    coming,   \* a value that the collector has yet to push into it
    clock,    \* os_get_time_ms
    ticks,    \* the time that has passed
    jumped,   \* has the clock been set
    taken     \* when each sample was taken, and had the clock been set by then

frameVars == <<dual, scale, first, stamps, second, coming, clock, ticks, jumped, taken>>

FrameInit ==
    /\ dual \in BOOLEAN /\ scale \in Scales
    /\ first = <<>> /\ stamps = <<>> /\ second = <<>> /\ coming = <<>> /\ taken = <<>>
    /\ clock = Word - MaxTicks \div 2 /\ ticks = 0 /\ jumped = FALSE

Pushed(s, x) == IF Len(s) < BufferSize THEN Append(s, x) ELSE Append(Tail(s), x)

\* A collection of data_source_thread and its first push, a failure as -1.  No
\* two are in one tick: how late a timer is decides how many are in an interval.
TakeSample ==
    /\ coming = <<>> /\ \A i \in DOMAIN taken : taken[i].at < ticks
    /\ \E in, out \in Values :
         /\ in < 0 \/ out < 0 \/ ~dual => out = in
         /\ first' = Pushed(first, in)
         /\ coming' = IF dual THEN <<out>> ELSE <<>>
    /\ stamps' = Pushed(stamps, clock)
    /\ taken' = Pushed(taken, [at |-> ticks, jumped |-> jumped])
    /\ UNCHANGED <<dual, scale, second, clock, ticks, jumped>>

PushSecond ==
    /\ coming # <<>> /\ coming' = <<>>
    /\ second' = Pushed(second, coming[1])
    /\ UNCHANGED <<dual, scale, first, stamps, clock, ticks, jumped, taken>>

FrameTick ==
    /\ ticks < MaxTicks /\ ticks' = ticks + 1
    /\ clock' = (clock + 1) % Word
    /\ UNCHANGED <<dual, scale, first, stamps, second, coming, jumped, taken>>

FrameSetClock ==
    /\ ~jumped /\ jumped' = TRUE
    /\ \E j \in Jumps : clock' = (clock + j) % Word
    /\ UNCHANGED <<dual, scale, first, stamps, second, coming, ticks, taken>>

FrameNext == TakeSample \/ PushSecond \/ FrameTick \/ FrameSetClock

FrameSpec == FrameInit /\ [][FrameNext]_frameVars

-----------------------------------------------------------------------------
(* Layout                                                                  *)

\* How many samples are drawn: as many as there are pairs.
DrawCount == IF dual THEN Min({Len(first), Len(second)}) ELSE Len(first)

MaxVal == IF scale > 0 THEN scale
          ELSE Max({1} \union {v \in ToSet(first) \union ToSet(second) : v > 0})

\* Mutant: the age without the wrap of the unsigned difference.
OffsetSigned(i) == (clock - stamps[i]) \div Interval

PixelOffset(i) == ((clock - stamps[i]) % Word) \div Interval

Drawn(i) == PixelOffset(i) \in 0..(Width - 3)
PlotX(i) == Width - 2 - PixelOffset(i)

Bottom == Top + Height - 2

Failed(i) == first[i] < 0 \/ (dual /\ second[i] < 0)

Up(value)    == (value * (Height - 4)) \div MaxVal
BarHeight(i) == LET up == Up(first[i]) IN IF up < 1 THEN 1 ELSE up
OutY(i)      == Bottom - Up(second[i])

Line(kind, x1, y1, x2, y2) == [kind |-> kind, x1 |-> x1, y1 |-> y1, x2 |-> x2, y2 |-> y2]

ErrorLine(i) == Line("error", PlotX(i), Top + 2, PlotX(i), Bottom)
Bar(i)       == Line("bar", PlotX(i), Bottom - BarHeight(i), PlotX(i), Bottom)

\* prev_out_x and prev_out_y: of the sample before, if it was drawn, with values,
\* and not above the window.
Previous(i) == {j \in {i - 1} : j > 0 /\ Drawn(j) /\ ~Failed(j) /\ OutY(j) >= 0}

\* A single pixel if there is nothing to join.
OutLine(i) == LET from == IF Previous(i) = {} THEN i ELSE Max(Previous(i))
              IN Line("out", PlotX(from), OutY(from), PlotX(i), OutY(i))

DrawSample(i) == CASE ~Drawn(i)              -> <<>>
                   [] Drawn(i) /\ Failed(i)  -> <<ErrorLine(i)>>
                   [] Drawn(i) /\ ~Failed(i) -> IF dual THEN <<Bar(i), OutLine(i)>>
                                                ELSE <<Bar(i)>>

\* The lines of the plot; they are drawn sample by sample, the oldest first.
Lines == UNION {ToSet(DrawSample(i)) : i \in 1..DrawCount}

-----------------------------------------------------------------------------
(* The software framebuffer of httpd.c                                     *)

Sign(n) == IF n > 0 THEN 1 ELSE -1
Abs(n)  == IF n < 0 THEN -n ELSE n

\* One turn of the loop of fb_line.
NextPixelOf(p, dx, dy, sx, sy) ==
    LET inX == 2 * p.err >= dy
        inY == 2 * p.err <= dx
    IN [x   |-> IF inX THEN p.x + sx ELSE p.x,
        y   |-> IF inY THEN p.y + sy ELSE p.y,
        err |-> p.err + (IF inX THEN dy ELSE 0) + (IF inY THEN dx ELSE 0)]

\* The pixels that the loop goes through.
Turns(x, y, dx, dy, sx, sy) ==
    LET n == Max({dx, -dy})
        at[k \in 0..n] == IF k = 0 THEN [x |-> x, y |-> y, err |-> dx + dy]
                          ELSE NextPixelOf(at[k - 1], dx, dy, sx, sy)
    IN {<<at[k].x, at[k].y>> : k \in 0..n}

\* fb_line: the pixels of a line.
FbLine(l) ==
    IF l.x1 = l.x2 \/ l.y1 = l.y2
    THEN ((l.x1..l.x2) \union (l.x2..l.x1)) \X ((l.y1..l.y2) \union (l.y2..l.y1))
    ELSE Turns(l.x1, l.y1, Abs(l.x2 - l.x1), -Abs(l.y2 - l.y1),
               Sign(l.x2 - l.x1), Sign(l.y2 - l.y1))

\* Which lines of a sample go over a pixel.
Covering(i, x, y) == {k \in DOMAIN DrawSample(i) : <<x, y>> \in FbLine(DrawSample(i)[k])}

\* What a pixel shows in the end: the last line that goes over it.
Pixel(x, y) ==
    LET over == {i \in 1..DrawCount : Covering(i, x, y) # {}}
        last == Max(over)
    IN IF over = {} THEN "none" ELSE DrawSample(last)[Max(Covering(last, x, y))].kind

-----------------------------------------------------------------------------
(* The mouse                                                               *)

\* Mutant: the first of the nearest samples.
NearerStrictly(distance, best) == distance < best

Nearer(distance, best) == distance <= best

\* The sample whose value is shown for the mouse at x, 0 for none.
Hover(x) ==
    LET look[i \in 0..DrawCount] ==
          IF i = 0 THEN [best |-> 3, index |-> 0]
          ELSE IF Drawn(i) /\ Nearer(Abs(PlotX(i) - x), look[i - 1].best)
               THEN [best |-> Abs(PlotX(i) - x), index |-> i]
               ELSE look[i - 1]
    IN look[DrawCount].index

-----------------------------------------------------------------------------
(* Properties                                                              *)

\* The samples whose age the clock can tell: it has not been set since.
Dated == {i \in 1..DrawCount : taken[i].jumped = jumped}

AgeInIntervals(i) == (ticks - taken[i].at) \div Interval

\* Every column of a plot of one value tells what happened at its age: the
\* samples of that age, and no others, through a wrap of the millisecond clock;
\* of these, those since the last failure as a bar as high as the highest, over
\* the line of the failure, or over the bars before, if none is higher.  With a
\* scale that fits, nothing leaves the frame (plot.c:213, httpd.c:583).
ColumnsTellSamples ==
    /\ \A i \in Dated : Drawn(i) <=> AgeInIntervals(i) <= Width - 3
    /\ ~dual /\ Dated = 1..DrawCount =>
         \A x \in 1..(Width - 2) :
           LET here   == {i \in Dated : AgeInIntervals(i) = Width - 2 - x}
               failed == {i \in here : first[i] < 0}
               since  == {i \in here \ failed : \A f \in failed : i > f}
               high(those) == Max({0} \union {BarHeight(i) : i \in those})
           IN \A y \in Top..Bottom :
                Pixel(x, y) = IF since # {} /\ y >= Bottom - high(since) THEN "bar"
                              ELSE IF failed # {} /\ y >= Top + 2 THEN "error"
                              ELSE IF here \ failed # {} /\ y >= Bottom - high(here \ failed)
                              THEN "bar" ELSE "none"
    /\ (\A v \in ToSet(first) \union ToSet(second) : v <= MaxVal) =>
         \A l \in Lines : \A p \in FbLine(l) :
            p[1] \in 1..(Width - 2) /\ p[2] \in (Top + 2)..Bottom

\* The line of the second values joins only neighbours in time that have values:
\* it is interrupted by a failure, and by what is not drawn.  It is straight: no
\* pixel of it is further than half of one from the way between its ends, and it
\* has both.
SecondLineJoinsNeighbours ==
    \A i \in 1..DrawCount : dual /\ Drawn(i) /\ ~Failed(i) =>
        LET l  == OutLine(i)
            dx == l.x2 - l.x1
            dy == l.y2 - l.y1
            pixels == FbLine(l)
        IN /\ <<l.x1, l.y1>> \in {<<PlotX(i), OutY(i)>>}
                \union {<<PlotX(j), OutY(j)>> : j \in {k \in {i - 1} : k > 0 /\ ~Failed(k)}}
           /\ {<<l.x1, l.y1>>, <<l.x2, l.y2>>} \subseteq pixels
           /\ \A p \in pixels :
                2 * Abs(dx * (p[2] - l.y1) - dy * (p[1] - l.x1)) <= Max({Abs(dx), Abs(dy)})

\* What both kinds of lines tell is what was sampled.
PlotTellsSamples == ColumnsTellSamples /\ SecondLineJoinsNeighbours

\* The mouse is told the value of the nearest sample that is drawn, the newest
\* of those as near: the one whose bar or error line is on top.
HoverIsNearest ==
    \A x \in 0..(Width - 1) :
        LET near   == {i \in 1..DrawCount : Drawn(i) /\ Abs(PlotX(i) - x) <= 3}
            h      == Hover(x)
            far(i) == Abs(PlotX(i) - x)
        IN IF near = {} THEN h = 0
           ELSE h \in near /\ \A i \in near : far(h) < far(i) \/ (far(h) = far(i) /\ i <= h)

=============================================================================
