----------------------------- MODULE RateSource -----------------------------
(***************************************************************************)
(* The bandwidth data sources: ds/snmp.c, which asks an agent for two      *)
(* 32-bit counters one after the other, and ds/if_thr.c, which reads both  *)
(* from the operating system.  A rate is the difference to the counters of *)
(* the last collection that gave one, the baseline, over whole seconds of  *)
(* the clock of the day.                                                   *)
(*                                                                         *)
(* Requests may fail, one of the two alone; counters wrap, and start over  *)
(* with their agent; the clock may be set, or not have got to the next     *)
(* second.                                                                 *)
(***************************************************************************)
EXTENDS DataSource

CONSTANTS CounterWord,  \* 2^32: where the counters wrap
          Bursts,       \* bytes that may pass through the interface at once
          MaxBytes,     \* bound on the bytes in one direction
          Second,       \* ticks in a second
          MaxLag        \* bound on the ticks since the baseline

ASSUME RateAssumption ==
    /\ CounterWord \in Nat \ {0} /\ Bursts \subseteq Nat
    /\ {Second, MaxBytes, MaxLag} \subseteq Nat /\ Second > 0

\* The variables of DataSource:
\*   system  "snmp" or "if_thr"
\*   ctx     the context: the baseline, prev_time as ticks of the clock since then,
\*           the last rates; and dual, which of the collect functions is called
\*   pc      "rest", "in" or "out" (the counter that is read next), "rates"
\*   wait    the collection: time_diff, the counters read, and the bytes they stood for
\*   sample  what was pushed last
\*   world   in, out: bytes since the start; offset: where the counters count from;
\*           base: the bytes of the baseline; from: those of the baseline since
\*           which counted have become rates; restarted: has the agent been,
\*           since the baseline; jumps: how often the clock was set

Both(i, o) == [in |-> i, out |-> o]
NoReading  == [time_diff |-> 0, in |-> 0, out |-> 0, read |-> Both(0, 0)]
Directions == {"in", "out"}
NoRate     == <<-1>>

\* snmp_init, if_thr_init.
RateInit ==
    /\ system \in {"snmp", "if_thr"}
    /\ \E dual \in BOOLEAN :
         ctx = [dual |-> dual, first_sample |-> TRUE, prev |-> Both(0, 0), since |-> 0,
                last |-> Both(0, 0), combined |-> 0]
    /\ pc = "rest" /\ wait = NoReading /\ sample = NoRate
    /\ world = [in |-> 0, out |-> 0, base |-> Both(0, 0), counted |-> Both(0, 0),
                from |-> Both(0, 0), offset |-> Both(0, 0), restarted |-> FALSE, jumps |-> 0]

-----------------------------------------------------------------------------
(* The collector thread                                                    *)

\* The counter of a direction, as the agent or the system has it.
Counter(d) == (world[d] - world.offset[d]) % CounterWord

ReadCounters(ds) ==
    LET Of(d, old, new) == IF d \in ds THEN new ELSE old
    IN  [wait EXCEPT !.in  = Of("in", @, Counter("in")),
                     !.out = Of("out", @, Counter("out")),
                     !.read = [d \in Directions |-> Of(d, @[d], world[d])]]

\* What the two collect functions make of the context.
ShowCombined(c) == <<c.combined>>
ShowBoth(c)   == <<c.last.in, c.last.out>>
Shown(c)  == IF c.dual THEN ShowBoth(c) ELSE ShowCombined(c)

\* The whole seconds since prev_time.
SecondsSince(t) == IF t >= 0 THEN t \div Second ELSE -((Second - 1 - t) \div Second)

\* current_time is taken before anything is read.
RateBegin ==
    /\ pc = "rest" /\ pc' = "in"
    /\ wait' = [NoReading EXCEPT !.time_diff = SecondsSince(ctx.since)]
    /\ UNCHANGED <<system, ctx, sample, world>>

RateFails(c) ==
    /\ pc' = "rest" /\ wait' = NoReading /\ sample' = NoRate
    /\ ctx' = c

\* Mutant: the first counter becomes the baseline as soon as it is read.
SnmpFailsHalfway ==
    pc = "out" /\ RateFails(IF ctx.first_sample THEN ctx ELSE [ctx EXCEPT !.prev.in = wait.in])

\* A counter cannot be had.
SnmpFails == pc \in {"in", "out"} /\ RateFails(ctx)

SnmpGet ==
    /\ system = "snmp"
    /\ \/ /\ pc = "in" /\ pc' = "out" /\ wait' = ReadCounters({"in"})
          /\ UNCHANGED <<ctx, sample>>
       \/ /\ pc = "out" /\ pc' = "rates" /\ wait' = ReadCounters({"out"})
          /\ UNCHANGED <<ctx, sample>>
       \/ SnmpFails
    /\ UNCHANGED <<system, world>>

\* get_interface_stats: both or none.
IfThrGet ==
    /\ system = "if_thr" /\ pc = "in"
    /\ \/ /\ pc' = "rates"
          /\ wait' = ReadCounters(Directions)
          /\ UNCHANGED <<ctx, sample>>
       \/ RateFails(ctx)
    /\ UNCHANGED <<system, world>>

\* The baseline of the rates to come; an instant of prev_time is a whole second.
Baseline(c) ==
    [c EXCEPT !.first_sample = FALSE, !.prev = Both(wait.in, wait.out),
              !.since = @ - Second * wait.time_diff]

\* The difference of two unsigned 32-bit counters.
Difference(now, prev) == (now - prev) % CounterWord

Rates(c) ==
    LET i == Difference(wait.in, c.prev.in) \div wait.time_diff
        o == Difference(wait.out, c.prev.out) \div wait.time_diff
    IN  [Baseline(c) EXCEPT !.last = Both(i, o), !.combined = (i + o) % CounterWord]

\* What the bytes behind the counters have become, counted from the last
\* baseline whose difference to the one before means nothing.
Account ==
    LET clear == /\ ~ctx.first_sample /\ ~world.restarted
                 /\ \A d \in Directions : wait.read[d] - world.base[d] < CounterWord
    IN  [world EXCEPT !.base = wait.read, !.restarted = FALSE,
                      !.from = IF clear THEN @ ELSE wait.read,
                      !.counted = [d \in Directions |->
                          IF clear THEN @[d] + Difference(wait[d], ctx.prev[d]) ELSE 0]]

\* The end of a collection: a first baseline, the same rates as last time if
\* the clock says that no time has passed, or new ones.
RateFinish ==
    /\ pc = "rates" /\ pc' = "rest"
    /\ ctx' = IF ctx.first_sample THEN [Baseline(ctx) EXCEPT !.last = Both(0, 0), !.combined = 0]
              ELSE IF wait.time_diff <= 0 THEN ctx
              ELSE Rates(ctx)
    /\ sample' = Shown(ctx')
    /\ wait' = NoReading
    /\ world' = IF ctx.first_sample \/ wait.time_diff > 0 THEN Account ELSE world
    /\ UNCHANGED system

SnmpFinish  == system = "snmp" /\ RateFinish
IfThrFinish == system = "if_thr" /\ RateFinish

-----------------------------------------------------------------------------
(* The interface, its agent and the clock                                  *)

Traffic(d, b) ==
    /\ world[d] + b <= MaxBytes
    /\ world' = [world EXCEPT ![d] = @ + b]
    /\ UNCHANGED <<system, ctx, pc, wait, sample>>

\* The agent is restarted: a difference that spans this is not to be known.
Restart ==
    /\ pc = "rest" /\ ~world.restarted /\ ~ctx.first_sample
    /\ world' = [world EXCEPT !.offset = Both(world.in, world.out), !.restarted = TRUE]
    /\ UNCHANGED <<system, ctx, pc, wait, sample>>

RateTick ==
    /\ ctx.since < MaxLag
    /\ ctx' = [ctx EXCEPT !.since = @ + 1]
    /\ UNCHANGED <<system, pc, wait, sample, world>>

RateSetClock(j) ==
    /\ world.jumps < MaxJumps /\ ctx.since + j <= MaxLag
    /\ ctx' = [ctx EXCEPT !.since = @ + j]
    /\ world' = [world EXCEPT !.jumps = @ + 1]
    /\ UNCHANGED <<system, pc, wait, sample>>

RateNext == \/ RateBegin \/ SnmpGet \/ IfThrGet \/ SnmpFinish \/ IfThrFinish
            \/ \E d \in Directions, b \in Bursts : Traffic(d, b)
            \/ Restart \/ RateTick
            \/ \E j \in Jumps : RateSetClock(j)

-----------------------------------------------------------------------------
(* Properties                                                              *)

\* Every byte enters exactly one rate: through wraps of the counters, requests
\* of which one fails, seconds that the clock has not got to or has to go
\* through again, the differences add up to what has passed between the first
\* baseline and the last.  Only two wraps between two baselines, and an agent
\* that starts over, cannot be told from other traffic; it is counted anew
\* after them.
BytesAccountedOnce == system \in {"snmp", "if_thr"} =>
    \A d \in Directions : world.counted[d] = world.base[d] - world.from[d]

=============================================================================
