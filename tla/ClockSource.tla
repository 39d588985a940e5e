---------------------------- MODULE ClockSource -----------------------------
(***************************************************************************)
(* The clock (ds/clock.c): the hour and the minute as the two values of a  *)
(* plot, the minute on the scale of the hours, 12 or 24.  The text under   *)
(* it shows both as a time of day again: the hour and minute of now with   *)
(* the scaled minute of the last collection, and the scale, which the      *)
(* function that formats them is not told, is guessed from the values.     *)
(* A scaled minute is counted in sixtieths.                                *)
(***************************************************************************)
EXTENDS DataSource

CONSTANTS StartTimes,  \* minutes of the day at which the program may be started
          MaxMinutes   \* bound on the minutes it runs

ASSUME TimeAssumption == StartTimes \subseteq 0..1439 /\ MaxMinutes \in Nat

\* The variables of DataSource:
\*   system  "clock"
\*   ctx     mode, last_minutes, and whether anything was collected (sample_count)
\*   pc      "rest"
\*   wait    nothing
\*   sample  the text drawn last: hour, minute; when, and when the last
\*           collection was; whether it has been drawn
\*   world   time: the minute of the day; ran: the minutes so far; collected:
\*           when the last collection was

Hour(time)   == time \div 60
Minute(time) == time % 60

\* clock_init.
ClockInit ==
    /\ system = "clock"
    /\ \E mode \in {12, 24} : ctx = [mode |-> mode, last_minutes |-> 0, sample_count |-> 0]
    /\ pc = "rest" /\ wait = <<>>
    /\ sample = [drawn |-> FALSE, hour |-> 0, minute |-> 0, at |-> 0, collected |-> 0]
    /\ world \in [time : StartTimes, ran : {0}, collected : {0}]

\* The hour of a time in the clock's mode.
Hours(mode, time) ==
    LET hour == Hour(time)
    IN  IF mode = 24 THEN hour
        ELSE IF hour = 0 THEN 12
        ELSE IF hour > 12 THEN hour - 12
        ELSE hour

ScaledMinutes(mode, time) == mode * Minute(time)

\* clock_collect_dual.  Whether the count is 0 is all that matters of it here.
ClockCollect ==
    /\ ctx' = [ctx EXCEPT !.last_minutes = ScaledMinutes(ctx.mode, world.time), !.sample_count = 1]
    /\ world' = [world EXCEPT !.collected = world.time]
    /\ UNCHANGED <<system, pc, wait, sample>>

\* hours has the minute of now in its decimals.
Scale(hours, minute, scaled) == IF hours > 12 \/ (hours = 12 /\ minute > 0) \/ scaled > 12 * 60 THEN 24 ELSE 12

\* A minute in a double is a fraction that may be a little too small, if it is
\* not a multiple of 5, and so come back from the scale as the one before: 41
\* does in IEEE arithmetic.
Unscaled(scaled, scale) ==
    LET minute == scaled \div scale
    IN  {minute} \union {n \in {minute - 1} : scaled % (5 * scale) # 0}

\* clock_get_stats and clock_format_dual_stats.
ClockText ==
    /\ LET hour == Hours(ctx.mode, world.time)
           text == [drawn |-> TRUE, hour |-> hour, minute |-> 0, at |-> world.time,
                    collected |-> world.collected]
       IN  IF ctx.sample_count = 0 THEN sample' = [text EXCEPT !.drawn = FALSE, !.hour = 0]
           ELSE \E minute \in Unscaled(ctx.last_minutes,
                                       Scale(hour, Minute(world.time), ctx.last_minutes)) :
                    sample' = [text EXCEPT !.minute = minute]
    /\ UNCHANGED <<system, ctx, pc, wait, world>>

ClockTick ==
    /\ world.ran < MaxMinutes
    /\ world' = [world EXCEPT !.time = (@ + 1) % 1440, !.ran = @ + 1]
    /\ UNCHANGED <<system, ctx, pc, wait, sample>>

ClockNext == ClockCollect \/ ClockText \/ ClockTick

-----------------------------------------------------------------------------
(* Properties                                                              *)

\* The scale that is guessed is the wrong one in the first half of the hours
\* up to 12 of a 24-hour clock, whose minutes then show twice as many, and
\* in the hour from 12 to 1 of a 12-hour clock, which shows half of them.
GuessedWrong(mode, at, minute) ==
    \/ mode = 24 /\ at <= 12 * 60 /\ minute <= 30
    \/ mode = 12 /\ Hours(12, at) = 12 /\ Minute(at) > 0

\* Where it is not, the text tells the time of the last collection, to the
\* minute before it; with the hour of now, which is another one only if the
\* hour has turned since, so that it is then up to an hour ahead.
ClockTellsTime == system = "clock" /\ sample.drawn =>
    LET minute == Minute(sample.collected)
    IN  \/ GuessedWrong(ctx.mode, sample.at, minute)
        \/ sample.hour = Hours(ctx.mode, sample.at) /\ sample.minute \in {minute - 1, minute}

=============================================================================
